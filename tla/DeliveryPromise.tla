--------------------------- MODULE DeliveryPromise ---------------------------
(***************************************************************************)
(* What the data feed promises of each delivery row, with no leases, no    *)
(* workers and no attempts: a row opens once, stays open until it is       *)
(* settled, is acknowledged only when the receiver holds the event, and is *)
(* never reopened or settled twice.                                        *)
(***************************************************************************)
CONSTANTS Events, Live, Runs

Rows == (Runs \cup {Live}) \X Events

VARIABLES state, core
vars == <<state, core>>

Init ==
    /\ state = [r \in Rows |-> "ABSENT"]
    /\ core = {}

\* The rows that change in a step, each by the move Move allows it.
Each(Move(_, _)) ==
    /\ state' = [r \in Rows |-> state'[r]]
    /\ \A r \in Rows : state'[r] = state[r] \/ Move(r, state'[r])

\* Rows are created: a live row with its event, the rows of a run together.
Opens(r, next) == state[r] = "ABSENT" /\ next = "OPEN"
Create == Each(Opens) /\ UNCHANGED core

\* The receiver stores events it was sent.
Store == core \subseteq core' /\ core' \subseteq Events /\ UNCHANGED state

\* Open rows are settled together, acknowledged ones only when stored.
Settles(r, next) ==
    /\ state[r] = "OPEN"
    /\ next = "QUARANTINED" \/ (next = "ACKNOWLEDGED" /\ r[2] \in core)
Settle == Each(Settles) /\ UNCHANGED core

\* Only the live lane can be tombstoned.
Suppresses(r, next) == r[1] = Live /\ state[r] = "OPEN" /\ next = "TOMBSTONED"
Suppress == Each(Suppresses) /\ UNCHANGED core

Next == Create \/ Store \/ Settle \/ Suppress

Spec == Init /\ [][Next]_vars
=============================================================================
