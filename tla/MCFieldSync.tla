---------------------------- MODULE MCFieldSync ----------------------------
(* FieldSync for TLC: the bounds are numbers, given in the .cfg files.  The    *)
(* actors are one device, one engine and one server, so nothing is symmetric.  *)
EXTENDS FieldSync
=============================================================================
