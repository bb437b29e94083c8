----------------------------- MODULE MCDataFeed -----------------------------
(* Instances of DataFeed for TLC. *)
EXTENDS DataFeed, TLC

CONSTANTS live, run, w1, w2, w3

MCEvents == 1..2
MCLegalHold == {2}

\* Two live workers contend for one lane.
ContendingWorkers == {w1, w2}
ContendingLaneOf == (w1 :> live) @@ (w2 :> live)
NoRuns == {}

\* A live worker and a replay worker, each on a lane of its own.
ReplayWorkers == {w1, w3}
ReplayLaneOf == (w1 :> live) @@ (w3 :> run)
OneRun == {run}
=============================================================================
