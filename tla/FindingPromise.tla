---------------------------- MODULE FindingPromise ----------------------------
(***************************************************************************)
(* What the lifecycle of a Finding promises, seen from the parties.  At    *)
(* any time a Finding is in the court of one of them: the auditee, the     *)
(* security scan, the authority.  What the Finding requires, first a CAP   *)
(* and then evidence, is approved by the authority while it has it in its  *)
(* court, and a Finding is closed when nothing is outstanding, for ever.   *)
(***************************************************************************)
CONSTANT Findings

VARIABLES
    court,       \* who has the Finding
    outstanding  \* what is still to be approved

vars == <<court, outstanding>>

Init ==
    /\ court = [f \in Findings |-> "none"]
    /\ outstanding = [f \in Findings |-> {}]

Move(f, next) == court' = [court EXCEPT ![f] = next]

Raise(f) ==
    /\ court[f] = "none"
    /\ \E needs \in SUBSET {"cap", "evidence"} :
          /\ outstanding' = [outstanding EXCEPT ![f] = needs]
          /\ Move(f, IF needs = {} THEN "authority" ELSE "auditee")

\* A CAP goes to the authority at once, evidence by way of the scan.
Submit(f) ==
    /\ court[f] = "auditee"
    /\ Move(f, IF "cap" \in outstanding[f] THEN "authority" ELSE "scan")
    /\ UNCHANGED outstanding

Screen(f) ==
    /\ court[f] = "scan"
    /\ \E next \in {"auditee", "authority"} : Move(f, next)
    /\ UNCHANGED outstanding

SendBack(f) ==
    /\ court[f] = "authority"
    /\ outstanding[f] # {}
    /\ Move(f, "auditee")
    /\ UNCHANGED outstanding

ApproveCAP(f) ==
    /\ court[f] = "authority"
    /\ "cap" \in outstanding[f]
    /\ outstanding' = [outstanding EXCEPT ![f] = @ \ {"cap"}]
    /\ Move(f, IF "evidence" \in outstanding[f] THEN "auditee" ELSE "authority")

\* Evidence is approved by closing the Finding on it.
CloseOnEvidence(f) ==
    /\ court[f] = "authority"
    /\ outstanding[f] = {"evidence"}
    /\ outstanding' = [outstanding EXCEPT ![f] = {}]
    /\ Move(f, "closed")

Close(f) ==
    /\ court[f] = "authority"
    /\ outstanding[f] = {}
    /\ Move(f, "closed")
    /\ UNCHANGED outstanding

Next ==
    \E f \in Findings :
        \/ Raise(f) \/ Submit(f) \/ Screen(f) \/ SendBack(f)
        \/ ApproveCAP(f) \/ CloseOnEvidence(f) \/ Close(f)

Spec == Init /\ [][Next]_vars

=============================================================================
