----------------------------- MODULE FieldPromise -----------------------------
(***************************************************************************)
(* What field synchronisation promises of the work done on a device, with  *)
(* no queue, no engine and no network: each operation takes effect at most *)
(* once, on a package that is open to its inspector, and the device takes  *)
(* for acknowledged only what took effect; whatever else changes on the    *)
(* server is the office's doing.                                           *)
(***************************************************************************)
EXTENDS Naturals

CONSTANTS Operations, Grants, Start

VARIABLES
    applied,    \* of each kind, the operations that took effect
    told,       \* those the device knows to be acknowledged
    text,       \* the operation that wrote the response, 0 for the office
    revision,   \* and how often it was written
    submitted,  \* the checklist is submitted
    version,    \* and its revision
    standing,   \* grants that have not ended
    withdrawn   \* the package was taken back

work == <<applied, told>>
response == <<text, revision>>
status == <<submitted, version>>
authority == <<standing, withdrawn>>
vars == <<work, response, status, authority>>

Kinds == {"UPSERT_CHECKLIST_RESPONSE", "CREATE_POTENTIAL_FINDING", "SUBMIT_CHECKLIST"}

Init ==
    /\ applied = [k \in Kinds |-> {}]
    /\ told = {}
    /\ text = 0 /\ revision = 0
    /\ submitted = FALSE /\ version = Start
    /\ standing = Grants /\ withdrawn = FALSE

-----------------------------------------------------------------------------
(* The device's work. *)

TakesEffect(o, kind) ==
    /\ \A k \in Kinds : o \notin applied[k]
    /\ ~submitted /\ ~withdrawn /\ standing # {}
    /\ applied' = [applied EXCEPT ![kind] = @ \cup {o}]
    /\ UNCHANGED <<told, authority>>

Write(o) ==
    /\ TakesEffect(o, "UPSERT_CHECKLIST_RESPONSE")
    /\ text' = o /\ revision' = revision + 1
    /\ UNCHANGED status

\* At most one Potential Finding comes from the field, and on a response.
Raise(o) ==
    /\ applied["CREATE_POTENTIAL_FINDING"] = {}
    /\ revision > 0
    /\ TakesEffect(o, "CREATE_POTENTIAL_FINDING")
    /\ UNCHANGED <<response, status>>

Submit(o) ==
    /\ revision > 0
    /\ TakesEffect(o, "SUBMIT_CHECKLIST")
    /\ submitted' = TRUE /\ version' = version + 1
    /\ UNCHANGED response

\* What the device was told it is told for good.
Acknowledge(o) ==
    /\ \E k \in Kinds : o \in applied[k]
    /\ told' = told \cup {o}
    /\ UNCHANGED <<applied, response, status, authority>>

-----------------------------------------------------------------------------
(* The office. *)

Rewrite ==
    /\ revision > 0 /\ ~submitted /\ ~withdrawn
    /\ text' = 0 /\ revision' = revision + 1
    /\ UNCHANGED <<work, status, authority>>

Turn ==
    /\ submitted \/ (revision > 0 /\ ~withdrawn)
    /\ submitted' = ~submitted /\ version' = version + 1
    /\ UNCHANGED <<work, response, authority>>

End ==
    /\ \/ \E g \in Grants : standing' = standing \ {g} /\ UNCHANGED withdrawn
       \/ withdrawn' = TRUE /\ UNCHANGED standing
    /\ UNCHANGED <<work, response, status>>

-----------------------------------------------------------------------------

Next ==
    \/ \E o \in Operations : Write(o) \/ Raise(o) \/ Submit(o) \/ Acknowledge(o)
    \/ Rewrite \/ Turn \/ End

Spec == Init /\ [][Next]_vars
===============================================================================
