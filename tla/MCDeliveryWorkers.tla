--------------------------- MODULE MCDeliveryWorkers ---------------------------
(* The instance of DeliveryWorkers that TLC checks. *)
EXTENDS DeliveryWorkers

=============================================================================
