--------------------------- MODULE DataFeedProofs ---------------------------
(* Theorems about DataFeed, for every set of events, runs and workers. *)
EXTENDS DataFeed, FiniteSetTheorems, TLAPS

(***************************************************************************)
(* The inductive invariant.  Leases are told apart by their generation:    *)
(* no two workers have the same generation of a row in memory, none has a  *)
(* later one than the table, the one the table has belongs to a leased row *)
(* and is not in the history yet, and its attempt_count is the table's.    *)
(***************************************************************************)
AnswersAreStored ==
    \A w \in Workers, e \in Events : answer[w][e] = "success" => e \in core

HeldIsPast ==
    \A w \in Workers, e \in Events : held[w][e] <= generation[RowOf(w, e)]

LeaseIsUnique ==
    \A w, v \in Workers, e \in Events :
        w # v /\ LaneOf[w] = LaneOf[v] /\ held[w][e] # 0
            => held[w][e] # held[v][e]

CurrentIsLeased ==
    \A w \in Workers, e \in Events :
        held[w][e] # 0 /\ held[w][e] = generation[RowOf(w, e)]
            => /\ status[RowOf(w, e)] = "LEASED"
               /\ counted[w][e] = attemptCount[RowOf(w, e)]

HistoryIsPast ==
    \A a \in attempts :
        /\ a.generation <= generation[a.row]
        /\ \A w \in Workers : LaneOf[w] = a.row[1] /\ held[w][a.row[2]] # 0
                => a.generation # held[w][a.row[2]]

TombstonesAreFinal == \A e \in tombstones : status[LiveRow(e)] = "TOMBSTONED"

IInv ==
    /\ TypeOK
    /\ AcknowledgedIsStored
    /\ AnswersAreStored
    /\ HeldIsPast
    /\ LeaseIsUnique
    /\ CurrentIsLeased
    /\ HistoryIsPast
    /\ OneOutcomePerLease
    /\ RetryBudget
    /\ TombstonesAreFinal

-----------------------------------------------------------------------------
(* A row is a lane and an event. *)
LEMMA RowsArePairs ==
    /\ \A l \in Lanes, e \in Events : <<l, e>> \in Rows
    /\ \A r \in Rows : r[1] \in Lanes /\ r[2] \in Events /\ r = <<r[1], r[2]>>
    /\ \A w \in Workers : LaneOf[w] \in Lanes
    /\ \A w \in Workers, e \in Events : RowOf(w, e) \in Rows
    /\ \A e \in Events : LiveRow(e) \in Rows
BY LanesAssumption DEF Rows, Lanes, RowOf, LiveRow

(* The invariant holds at the start. *)
LEMMA InitIInv == Init => IInv
<1> SUFFICES ASSUME Init PROVE IInv
    OBVIOUS
<1>1. TypeOK
    BY LimitsAssumption, RowsArePairs
    DEF Init, TypeOK, Status, Open, Settled, Nothing, NoAnswer, Answers
<1>2. AcknowledgedIsStored /\ RetryBudget
    BY LimitsAssumption DEF Init, AcknowledgedIsStored, RetryBudget
<1>3. AnswersAreStored /\ HeldIsPast /\ LeaseIsUnique /\ CurrentIsLeased
    BY RowsArePairs
    DEF Init, AnswersAreStored, HeldIsPast, LeaseIsUnique, CurrentIsLeased,
        Nothing, NoAnswer
<1>4. HistoryIsPast /\ OneOutcomePerLease /\ TombstonesAreFinal
    BY DEF Init, HistoryIsPast, OneOutcomePerLease, TombstonesAreFinal
<1> QED
    BY <1>1, <1>2, <1>3, <1>4 DEF IInv

-----------------------------------------------------------------------------
(* Rows that a producer or an operator moves: absent rows open, one pending
   live row is tombstoned.  No lease, answer or attempt is touched. *)
LEMMA MoveIInv ==
    ASSUME IInv,
           UNCHANGED <<generation, attemptCount, expired, attempts,
                       core, memory, faults>>,
           status' \in [Rows -> Status],
           tombstones' \subseteq Events,
           \A r \in Rows : status'[r] # status[r] =>
                status[r] \in {"ABSENT", "PENDING"} /\ status'[r] # "ACKNOWLEDGED",
           \A e \in tombstones' : status'[LiveRow(e)] = "TOMBSTONED"
    PROVE  IInv'
<1> USE DEF IInv, memory
<1>1. TypeOK'
    BY DEF TypeOK
<1>2. AcknowledgedIsStored'
    BY DEF AcknowledgedIsStored, TypeOK
<1>3. AnswersAreStored' /\ HeldIsPast' /\ LeaseIsUnique' /\ RetryBudget'
    BY DEF AnswersAreStored, HeldIsPast, LeaseIsUnique, RetryBudget
<1>4. CurrentIsLeased'
    BY RowsArePairs DEF CurrentIsLeased
<1>5. HistoryIsPast' /\ OneOutcomePerLease' /\ TombstonesAreFinal'
    BY DEF HistoryIsPast, OneOutcomePerLease, TombstonesAreFinal
<1> QED
    BY <1>1, <1>2, <1>3, <1>4, <1>5

LEMMA AppendIInv == ASSUME IInv, NEW e \in Events, Append(e) PROVE IInv'
<1> LiveRow(e) \in Rows
    BY RowsArePairs
<1>1. status' \in [Rows -> Status]
    BY DEF Append, IInv, TypeOK, Status, Open
<1>2. \A f \in tombstones : status'[LiveRow(f)] = "TOMBSTONED"
    BY RowsArePairs DEF Append, IInv, TypeOK, TombstonesAreFinal, Lanes
<1> QED
    BY <1>1, <1>2, MoveIInv DEF Append, IInv, TypeOK

LEMMA CreateRunIInv ==
    ASSUME IInv, NEW run \in Runs, NEW members \in SUBSET Events,
           CreateRun(run, members)
    PROVE  IInv'
<1>1. status' \in [Rows -> Status]
    BY DEF CreateRun, IInv, TypeOK, Status, Open
<1>2. \A f \in tombstones : status'[LiveRow(f)] = "TOMBSTONED"
    BY RowsArePairs, LanesAssumption
    DEF CreateRun, IInv, TypeOK, TombstonesAreFinal, Lanes
<1>3. \A r \in Rows : status'[r] # status[r] =>
            status[r] = "ABSENT" /\ status'[r] = "PENDING"
    BY RowsArePairs DEF CreateRun
<1> QED
    BY <1>1, <1>2, <1>3, MoveIInv DEF CreateRun, IInv, TypeOK

LEMMA TombstoneIInv == ASSUME IInv, NEW e \in Events, Tombstone(e) PROVE IInv'
<1> LiveRow(e) \in Rows
    BY RowsArePairs
<1>1. status' \in [Rows -> Status]
    BY DEF Tombstone, IInv, TypeOK, Status, Settled
<1>2. \A f \in tombstones' : status'[LiveRow(f)] = "TOMBSTONED"
    BY RowsArePairs DEF Tombstone, IInv, TypeOK, TombstonesAreFinal, Lanes
<1> QED
    BY <1>1, <1>2, MoveIInv DEF Tombstone, IInv, TypeOK

-----------------------------------------------------------------------------
(* Leasing a batch moves eligible rows, one generation up, and no other. *)
LEMMA LeaseMoves ==
    ASSUME IInv, NEW w \in Workers, NEW batch \in SUBSET Events,
           \A e \in batch : Eligible(w, e), Lease(w, batch)
    PROVE  /\ status' \in [Rows -> Status]
           /\ generation' \in [Rows -> Nat]
           /\ expired' \subseteq Rows
           /\ \A e \in batch :
                 /\ status[RowOf(w, e)] \in Open
                 /\ status'[RowOf(w, e)] = "LEASED"
                 /\ generation'[RowOf(w, e)] = generation[RowOf(w, e)] + 1
           /\ \A r \in Rows : r \notin {LaneOf[w]} \X batch =>
                 status'[r] = status[r] /\ generation'[r] = generation[r]
           /\ \A r \in Rows : generation[r] <= generation'[r]
           /\ \A r \in Rows : status'[r] # status[r] =>
                 status[r] \in Open /\ status'[r] = "LEASED"
<1> DEFINE leased == {LaneOf[w]} \X batch
<1>1. \A e \in batch : RowOf(w, e) \in Rows /\ RowOf(w, e) \in leased
    BY RowsArePairs DEF RowOf
<1>2. \A r \in leased : r[2] \in batch /\ r = RowOf(w, r[2])
    BY DEF RowOf
<1>3. \A e \in batch : status[RowOf(w, e)] \in Open
    BY DEF Eligible, Open
<1>4. status' = [r \in Rows |-> IF r \in leased THEN "LEASED" ELSE status[r]]
      /\ generation' = [r \in Rows |-> IF r \in leased THEN generation[r] + 1
                                                       ELSE generation[r]]
      /\ expired' = expired \ leased
    BY DEF Lease
<1> HIDE DEF leased
<1>5. status' \in [Rows -> Status] /\ generation' \in [Rows -> Nat]
      /\ expired' \subseteq Rows
    BY <1>4 DEF IInv, TypeOK, Status, Open
<1>6. \A r \in Rows : generation[r] \in Nat
    BY DEF IInv, TypeOK
<1>7. \A r \in Rows : generation[r] <= generation'[r]
    BY <1>4, <1>6
<1>8. \A r \in Rows : r \notin leased =>
          status'[r] = status[r] /\ generation'[r] = generation[r]
    BY <1>4
<1>9. \A e \in batch :
          /\ status'[RowOf(w, e)] = "LEASED"
          /\ generation'[RowOf(w, e)] = generation[RowOf(w, e)] + 1
    BY <1>1, <1>4
<1>10. \A r \in Rows : status'[r] # status[r] =>
          status[r] \in Open /\ status'[r] = "LEASED"
    BY <1>2, <1>3, <1>4
<1> QED
    BY <1>3, <1>5, <1>7, <1>8, <1>9, <1>10 DEF leased

(* A row whose status is LEASED, PENDING or settled keeps what the history,
   the tombstones and the retry count say when a batch is leased. *)
LEMMA LeaseKeeps ==
    ASSUME IInv, NEW w \in Workers, NEW batch \in SUBSET Events,
           \A e \in batch : Eligible(w, e), Lease(w, batch)
    PROVE  /\ AcknowledgedIsStored'
           /\ OneOutcomePerLease'
           /\ RetryBudget'
           /\ TombstonesAreFinal'
           /\ \A a \in attempts' : a.generation <= generation'[a.row]
<1> USE LeaseMoves DEF IInv, Lease
<1>1. AcknowledgedIsStored'
    BY DEF AcknowledgedIsStored, Open
<1>2. OneOutcomePerLease' /\ RetryBudget'
    BY DEF OneOutcomePerLease, RetryBudget
<1>3. TombstonesAreFinal'
    BY RowsArePairs DEF TombstonesAreFinal, TypeOK, Open
<1>4. ASSUME NEW a \in attempts
      PROVE  a.generation <= generation'[a.row]
    <2>1. a.row \in Rows /\ a.generation \in Nat
        BY DEF TypeOK, AttemptRecords
    <2>2. a.generation <= generation[a.row] /\ generation[a.row] <= generation'[a.row]
        BY <2>1 DEF HistoryIsPast
    <2>3. generation[a.row] \in Nat /\ generation'[a.row] \in Nat
        BY <2>1 DEF TypeOK
    <2> HIDE LeaseMoves DEF IInv, Lease
    <2> QED
        BY <2>1, <2>2, <2>3
<1> QED
    BY <1>1, <1>2, <1>3, <1>4

(* The rows a claim takes are eligible. *)
LEMMA BatchIsEligible ==
    \A w \in Workers, locked \in SUBSET Events :
        /\ Batch(w, locked) \in SUBSET Events
        /\ \A e \in Batch(w, locked) : Eligible(w, e)
BY DEF Batch

LEMMA ClaimIInv == ASSUME IInv, NEW w \in Workers, Claim(w) PROVE IInv'
<1>1. PICK locked \in SUBSET Events :
          /\ Lease(w, Batch(w, locked))
          /\ held' = [held EXCEPT ![w] =
                [e \in Events |-> IF e \in Batch(w, locked)
                                     THEN generation'[RowOf(w, e)] ELSE 0]]
          /\ counted' = [counted EXCEPT ![w] =
                [e \in Events |-> IF e \in Batch(w, locked)
                                     THEN attemptCount[RowOf(w, e)] ELSE 0]]
    BY DEF Claim
<1> DEFINE batch == Batch(w, locked)
<1>2. batch \in SUBSET Events /\ \A e \in batch : Eligible(w, e)
    BY BatchIsEligible
<1>3. Lease(w, batch)
    BY <1>1
<1>4. \A v \in Workers, e \in Events :
          /\ v # w => held'[v][e] = held[v][e] /\ counted'[v][e] = counted[v][e]
          /\ e \in batch => /\ held'[w][e] = generation[RowOf(w, e)] + 1
                            /\ counted'[w][e] = attemptCount[RowOf(w, e)]
          /\ e \notin batch => held'[w][e] = 0
    <2>1. held' = [held EXCEPT ![w] =
                [e \in Events |-> IF e \in batch THEN generation'[RowOf(w, e)] ELSE 0]]
          /\ counted' = [counted EXCEPT ![w] =
                [e \in Events |-> IF e \in batch THEN attemptCount[RowOf(w, e)] ELSE 0]]
        BY <1>1
    <2>2. \A e \in batch : generation'[RowOf(w, e)] = generation[RowOf(w, e)] + 1
        BY <1>2, <1>3, LeaseMoves
    <2>3. held \in [Workers -> [Events -> Nat]] /\ counted \in [Workers -> [Events -> Nat]]
        BY DEF IInv, TypeOK
    <2> HIDE DEF batch
    <2> QED
        BY <1>2, <2>1, <2>2, <2>3
<1> HIDE DEF batch
<1>5. \A v \in Workers, e \in Events :
          RowOf(v, e) \in {LaneOf[w]} \X batch => LaneOf[v] = LaneOf[w] /\ e \in batch
    BY DEF RowOf
<1>6. \A v \in Workers, e \in Events : held[v][e] \in Nat
          /\ generation[RowOf(v, e)] \in Nat /\ generation'[RowOf(v, e)] \in Nat
    BY RowsArePairs, <1>2, <1>3, LeaseMoves DEF IInv, TypeOK
<1>7. TypeOK'
    <2>1. held' \in [Workers -> [Events -> Nat]] /\ counted' \in [Workers -> [Events -> Nat]]
        BY <1>1, <1>2, <1>3, RowsArePairs, LeaseMoves DEF IInv, TypeOK
    <2> QED
        BY <1>2, <1>3, <2>1, LeaseMoves DEF IInv, TypeOK, Claim, Lease
<1>8. HeldIsPast'
    <2> SUFFICES ASSUME NEW v \in Workers, NEW e \in Events
                 PROVE  held'[v][e] <= generation'[RowOf(v, e)]
        BY DEF HeldIsPast, RowOf
    <2>1. held[v][e] <= generation[RowOf(v, e)]
        BY DEF IInv, HeldIsPast
    <2>2. generation[RowOf(v, e)] <= generation'[RowOf(v, e)]
        BY <1>2, <1>3, LeaseMoves, RowsArePairs
    <2>3. e \in batch => generation'[RowOf(w, e)] = generation[RowOf(w, e)] + 1
        BY <1>2, <1>3, LeaseMoves
    <2> QED
        BY <2>1, <2>2, <2>3, <1>4, <1>6
<1>9. LeaseIsUnique'
    <2> SUFFICES ASSUME NEW v \in Workers, NEW u \in Workers, NEW e \in Events,
                        v # u, LaneOf[v] = LaneOf[u], held'[v][e] # 0
                 PROVE  held'[v][e] # held'[u][e]
        BY DEF LeaseIsUnique
    <2>1. RowOf(v, e) = RowOf(u, e)
        BY DEF RowOf
    <2>2. held[v][e] <= generation[RowOf(v, e)] /\ held[u][e] <= generation[RowOf(v, e)]
        BY <2>1 DEF IInv, HeldIsPast
    <2>3. held[v][e] # 0 => held[v][e] # held[u][e]
        BY DEF IInv, LeaseIsUnique
    <2>4. held[u][e] # 0 => held[v][e] # held[u][e]
        BY DEF IInv, LeaseIsUnique
    <2> QED
        BY <2>1, <2>2, <2>3, <2>4, <1>4, <1>6
<1>10. CurrentIsLeased'
    <2> SUFFICES ASSUME NEW v \in Workers, NEW e \in Events, held'[v][e] # 0,
                        held'[v][e] = generation'[RowOf(v, e)]
                 PROVE  /\ status'[RowOf(v, e)] = "LEASED"
                        /\ counted'[v][e] = attemptCount'[RowOf(v, e)]
        BY DEF CurrentIsLeased, RowOf
    <2>1. attemptCount' = attemptCount
        BY <1>3 DEF Lease
    <2>2. CASE v = w
        <3>1. e \in batch
            BY <2>2, <1>4
        <3> QED
            BY <2>1, <2>2, <3>1, <1>2, <1>3, <1>4, LeaseMoves
    <2>3. CASE v # w
        <3>1. held[v][e] <= generation[RowOf(v, e)]
            BY DEF IInv, HeldIsPast
        <3>2. RowOf(v, e) \notin {LaneOf[w]} \X batch
            <4> SUFFICES ASSUME LaneOf[v] = LaneOf[w], e \in batch PROVE FALSE
                BY <1>5
            <4>1. RowOf(v, e) = RowOf(w, e)
                BY DEF RowOf
            <4>2. generation'[RowOf(w, e)] = generation[RowOf(w, e)] + 1
                BY <1>2, <1>3, LeaseMoves
            <4> QED
                BY <4>1, <4>2, <3>1, <2>3, <1>4, <1>6
        <3>3. /\ status'[RowOf(v, e)] = status[RowOf(v, e)]
              /\ generation'[RowOf(v, e)] = generation[RowOf(v, e)]
            <4>1. \A r \in Rows : r \notin {LaneOf[w]} \X batch =>
                     status'[r] = status[r] /\ generation'[r] = generation[r]
                BY <1>2, <1>3, LeaseMoves
            <4> QED
                BY <3>2, <4>1, RowsArePairs
        <3> QED
            BY <2>1, <2>3, <3>3, <1>4 DEF IInv, CurrentIsLeased
    <2> QED
        BY <2>2, <2>3
<1>11. HistoryIsPast'
    <2>1. attempts' = attempts
        BY <1>3 DEF Lease
    <2>2. \A a \in attempts' : a.generation <= generation'[a.row]
        BY <1>2, <1>3, LeaseKeeps
    <2> SUFFICES ASSUME NEW a \in attempts, NEW v \in Workers,
                        LaneOf[v] = a.row[1], held'[v][a.row[2]] # 0
                 PROVE  a.generation # held'[v][a.row[2]]
        BY <2>1, <2>2 DEF HistoryIsPast
    <2>3. /\ a.row \in Rows /\ a.generation \in Nat /\ a.row[2] \in Events
          /\ a.row = RowOf(v, a.row[2])
        BY RowsArePairs DEF IInv, TypeOK, AttemptRecords, RowOf
    <2>4. a.generation <= generation[a.row]
          /\ (held[v][a.row[2]] # 0 => a.generation # held[v][a.row[2]])
        BY DEF IInv, HistoryIsPast
    <2> QED
        BY <2>3, <2>4, <1>4, <1>6
<1>12. AnswersAreStored'
    BY <1>3 DEF IInv, AnswersAreStored, Claim, Lease
<1> QED
    BY <1>2, <1>3, <1>7, <1>8, <1>9, <1>10, <1>11, <1>12, LeaseKeeps DEF IInv

LEMMA ClaimFailsIInv == ASSUME IInv, NEW w \in Workers, ClaimFails(w) PROVE IInv'
<1>1. PICK locked \in SUBSET Events : Lease(w, Batch(w, locked))
    BY DEF ClaimFails
<1> DEFINE batch == Batch(w, locked)
<1>2. batch \in SUBSET Events /\ \A e \in batch : Eligible(w, e)
    BY BatchIsEligible
<1>3. Lease(w, batch)
    BY <1>1
<1> HIDE DEF batch
<1>4. UNCHANGED memory
    BY DEF ClaimFails
<1>5. \A v \in Workers, e \in Events : held[v][e] \in Nat
          /\ generation[RowOf(v, e)] \in Nat /\ generation'[RowOf(v, e)] \in Nat
    BY RowsArePairs, <1>2, <1>3, LeaseMoves DEF IInv, TypeOK
<1>6. TypeOK'
    <2>1. faults' \in 0..MaxFaults
        BY LimitsAssumption DEF ClaimFails, IInv, TypeOK
    <2> QED
        BY <1>2, <1>3, <1>4, <2>1, LeaseMoves DEF IInv, TypeOK, Lease, memory
<1>7. \A v \in Workers, e \in Events :
          /\ held'[v][e] = held[v][e]
          /\ held[v][e] <= generation[RowOf(v, e)]
          /\ generation[RowOf(v, e)] <= generation'[RowOf(v, e)]
    BY <1>2, <1>3, <1>4, LeaseMoves, RowsArePairs DEF memory, IInv, HeldIsPast, RowOf
<1>8. HeldIsPast'
    BY <1>5, <1>7 DEF HeldIsPast, RowOf
<1>9. LeaseIsUnique' /\ AnswersAreStored'
    BY <1>3, <1>4 DEF memory, IInv, LeaseIsUnique, AnswersAreStored, Lease
<1>10. CurrentIsLeased'
    <2> SUFFICES ASSUME NEW v \in Workers, NEW e \in Events, held'[v][e] # 0,
                        held'[v][e] = generation'[RowOf(v, e)]
                 PROVE  /\ status'[RowOf(v, e)] = "LEASED"
                        /\ counted'[v][e] = attemptCount'[RowOf(v, e)]
        BY DEF CurrentIsLeased, RowOf
    <2>1. held[v][e] = generation[RowOf(v, e)]
        BY <1>5, <1>7
    <2>2. status[RowOf(v, e)] = "LEASED" /\ counted[v][e] = attemptCount[RowOf(v, e)]
        BY <1>7, <2>1 DEF IInv, CurrentIsLeased, RowOf
    <2>3. status'[RowOf(v, e)] = "LEASED"
        BY <2>2, <1>2, <1>3, LeaseMoves, RowsArePairs
    <2> QED
        BY <2>2, <2>3, <1>3, <1>4 DEF memory, Lease
<1>11. HistoryIsPast'
    <2>1. \A a \in attempts' : a.generation <= generation'[a.row]
        BY <1>2, <1>3, LeaseKeeps
    <2> QED
        BY <1>3, <1>4, <2>1 DEF IInv, HistoryIsPast, Lease, memory
<1> QED
    BY <1>2, <1>3, <1>6, <1>8, <1>9, <1>10, <1>11, LeaseKeeps DEF IInv

LEMMA LeaseExpiresIInv ==
    ASSUME IInv, NEW r \in Rows, LeaseExpires(r)
    PROVE  IInv'
<1> USE DEF IInv, LeaseExpires, memory
<1>1. TypeOK'
    <2>1. faults' \in 0..MaxFaults
        BY LimitsAssumption DEF TypeOK
    <2> QED
        BY <2>1 DEF TypeOK
<1>2. AcknowledgedIsStored' /\ AnswersAreStored' /\ HeldIsPast' /\ LeaseIsUnique'
    BY DEF AcknowledgedIsStored, AnswersAreStored, HeldIsPast, LeaseIsUnique
<1>3. CurrentIsLeased' /\ HistoryIsPast' /\ OneOutcomePerLease'
      /\ RetryBudget' /\ TombstonesAreFinal'
    BY DEF CurrentIsLeased, HistoryIsPast, OneOutcomePerLease, RetryBudget,
           TombstonesAreFinal
<1> QED
    BY <1>1, <1>2, <1>3

-----------------------------------------------------------------------------
(* A delivery only adds to what the receiver holds; a success it reports is
   of an event the receiver holds by then. *)
LEMMA DeliverIInv == ASSUME IInv, NEW w \in Workers, Deliver(w) PROVE IInv'
<1>0. PICK taken \in SUBSET BatchOf(w) :
          /\ core' = core \cup taken
          /\ \E a \in Receipts(w, core') \cup FailureAnswers(w) :
                answer' = [answer EXCEPT ![w] = a]
    BY DEF Deliver
<1>1. PICK a \in Receipts(w, core') \cup FailureAnswers(w) :
          answer' = [answer EXCEPT ![w] = a]
    BY <1>0
<1>2. core \subseteq core' /\ core' \subseteq Events
    BY <1>0 DEF BatchOf, IInv, TypeOK
<1>3. a \in [Events -> Answers] /\ \A e \in Events : a[e] = "success" => e \in core'
    BY <1>1 DEF Receipts, FailureAnswers, Answers
<1>4. UNCHANGED <<table, tombstones, held, counted, faults>>
    BY DEF Deliver
<1>5. TypeOK'
    BY <1>1, <1>2, <1>3, <1>4 DEF IInv, TypeOK, table, Deliver
<1>6. AnswersAreStored'
    BY <1>1, <1>2, <1>3 DEF IInv, TypeOK, AnswersAreStored
<1>7. AcknowledgedIsStored'
    BY <1>2, <1>4 DEF IInv, AcknowledgedIsStored, table
<1>8. HeldIsPast' /\ LeaseIsUnique' /\ CurrentIsLeased' /\ HistoryIsPast'
      /\ OneOutcomePerLease' /\ RetryBudget' /\ TombstonesAreFinal'
    BY <1>4 DEF IInv, HeldIsPast, LeaseIsUnique, CurrentIsLeased, HistoryIsPast,
           OneOutcomePerLease, RetryBudget, TombstonesAreFinal, table
<1> QED
    BY <1>5, <1>6, <1>7, <1>8 DEF IInv

(* A pass that ends without recording forgets its leases. *)
LEMMA ForgetIInv ==
    ASSUME IInv, NEW w \in Workers, Forget(w),
           UNCHANGED <<table, tombstones, core>>, faults' \in 0..MaxFaults
    PROVE  IInv'
<1>1. \A v \in Workers, e \in Events :
          /\ held'[v][e] = IF v = w THEN 0 ELSE held[v][e]
          /\ v # w => counted'[v][e] = counted[v][e]
          /\ answer'[v][e] = IF v = w THEN "none" ELSE answer[v][e]
    BY DEF Forget, Nothing, NoAnswer, IInv, TypeOK
<1>2. TypeOK'
    BY DEF Forget, Nothing, NoAnswer, IInv, TypeOK, Answers, table
<1>3. AcknowledgedIsStored' /\ OneOutcomePerLease' /\ RetryBudget' /\ TombstonesAreFinal'
    BY DEF IInv, AcknowledgedIsStored, OneOutcomePerLease, RetryBudget,
           TombstonesAreFinal, table
<1>4. AnswersAreStored' /\ LeaseIsUnique'
    BY <1>1 DEF IInv, AnswersAreStored, LeaseIsUnique
<1>5. HeldIsPast'
    <2>1. \A v \in Workers, e \in Events :
              generation'[RowOf(v, e)] = generation[RowOf(v, e)]
              /\ generation[RowOf(v, e)] \in Nat
        BY RowsArePairs DEF table, IInv, TypeOK
    <2> QED
        BY <1>1, <2>1 DEF IInv, HeldIsPast, RowOf
<1>6. CurrentIsLeased'
    BY <1>1 DEF IInv, CurrentIsLeased, table
<1>7. HistoryIsPast'
    <2>1. \A a \in attempts : a.row[2] \in Events
        BY RowsArePairs DEF IInv, TypeOK, AttemptRecords
    <2> QED
        BY <1>1, <2>1 DEF IInv, HistoryIsPast, table
<1> QED
    BY <1>2, <1>3, <1>4, <1>5, <1>6, <1>7 DEF IInv

LEMMA RecordStaleIInv == ASSUME IInv, NEW w \in Workers, RecordStale(w) PROVE IInv'
BY ForgetIInv DEF RecordStale, IInv, TypeOK

LEMMA CrashIInv == ASSUME IInv, NEW w \in Workers, Crash(w) PROVE IInv'
<1>1. faults' \in 0..MaxFaults
    BY LimitsAssumption DEF Crash, IInv, TypeOK
<1> QED
    BY <1>1, ForgetIInv DEF Crash

-----------------------------------------------------------------------------
(* What a decision can be, and what it is for a row the worker holds. *)
LEMMA Decisions ==
    ASSUME IInv, NEW w \in Workers, NEW e \in Events
    PROVE  /\ Decision(w, e)[1] \in {"ACKNOWLEDGED", "QUARANTINED", "PENDING"}
           /\ Decision(w, e)[2] \in
                {"success", "refused", "retryable", "retry_exhausted"}
           /\ Decision(w, e)[1] = "ACKNOWLEDGED" => e \in core
           /\ CountsAsRetry(w, e) => counted[w][e] + 1 < AlertAttempt
<1>1. counted[w][e] \in Nat /\ AlertAttempt \in Nat
    BY LimitsAssumption DEF IInv, TypeOK
<1>2. answer[w][e] = "success" => e \in core
    BY DEF IInv, AnswersAreStored
<1>3. CASE answer[w][e] = "success"
    BY <1>2, <1>3 DEF Decision, CountsAsRetry
<1>4. CASE answer[w][e] = "refused"
    BY <1>4 DEF Decision, CountsAsRetry
<1>5. CASE answer[w][e] \notin {"success", "refused"}
    BY <1>1, <1>5 DEF Decision, CountsAsRetry, OperatorAlertRequired
<1> QED
    BY <1>3, <1>4, <1>5

LEMMA RecordIInv == ASSUME IInv, NEW w \in Workers, Record(w) PROVE IInv'
<1> DEFINE mine == {LaneOf[w]} \X BatchOf(w)
<1>1. /\ status' = [r \in Rows |-> IF r \in mine THEN Decision(w, r[2])[1]
                                               ELSE status[r]]
      /\ attemptCount' = [r \in Rows |->
            IF r \in mine /\ CountsAsRetry(w, r[2])
              THEN attemptCount[r] + 1 ELSE attemptCount[r]]
      /\ expired' = expired \ mine
      /\ attempts' = attempts \cup
            {[row |-> r, generation |-> held[w][r[2]],
              outcome |-> Decision(w, r[2])[2]] : r \in mine}
      /\ UNCHANGED <<generation, tombstones, core, faults>>
    BY DEF Record
<1>2. \A v \in Workers, e \in Events :
          /\ held'[v][e] = IF v = w THEN 0 ELSE held[v][e]
          /\ v # w => counted'[v][e] = counted[v][e]
          /\ answer'[v][e] = IF v = w THEN "none" ELSE answer[v][e]
    BY DEF Record, Forget, Nothing, NoAnswer, IInv, TypeOK
<1>3. \A r \in mine :
          /\ r \in Rows /\ r[1] = LaneOf[w] /\ r[2] \in Events /\ r = RowOf(w, r[2])
          /\ status[r] = "LEASED"
          /\ held[w][r[2]] # 0 /\ held[w][r[2]] = generation[r]
          /\ counted[w][r[2]] = attemptCount[r]
    <2> SUFFICES ASSUME NEW e \in BatchOf(w)
                 PROVE  /\ RowOf(w, e) \in Rows /\ e \in Events /\ held[w][e] # 0
                        /\ status[RowOf(w, e)] = "LEASED"
                        /\ held[w][e] = generation[RowOf(w, e)]
                        /\ counted[w][e] = attemptCount[RowOf(w, e)]
        BY DEF RowOf
    <2>1. e \in Events /\ held[w][e] # 0
        BY DEF BatchOf
    <2>2. status[RowOf(w, e)] = "LEASED" /\ held[w][e] = generation[RowOf(w, e)]
        BY DEF Record, Fenced, Holds, RowOf
    <2> QED
        BY <2>1, <2>2, RowsArePairs DEF IInv, CurrentIsLeased, RowOf
<1> HIDE DEF mine
<1>4. TypeOK'
    <2>1. status' \in [Rows -> Status]
        BY <1>1, <1>3, Decisions DEF IInv, TypeOK, Status, Open, Settled
    <2>2. attemptCount' \in [Rows -> Nat]
        BY <1>1 DEF IInv, TypeOK
    <2>3. attempts' \subseteq AttemptRecords
        <3> SUFFICES ASSUME NEW r \in mine
                     PROVE  [row |-> r, generation |-> held[w][r[2]],
                             outcome |-> Decision(w, r[2])[2]] \in AttemptRecords
            BY <1>1 DEF IInv, TypeOK
        <3> QED
            BY <1>3, Decisions DEF AttemptRecords, IInv, TypeOK
    <2>4. /\ held' \in [Workers -> [Events -> Nat]]
          /\ counted' \in [Workers -> [Events -> Nat]]
          /\ answer' \in [Workers -> [Events -> Answers]]
          /\ pc' \in [Workers -> {"idle", "claimed", "answered"}]
        BY DEF Record, Forget, Nothing, NoAnswer, IInv, TypeOK, Answers
    <2> QED
        BY <1>1, <2>1, <2>2, <2>3, <2>4 DEF IInv, TypeOK
<1>5. AcknowledgedIsStored'
    BY <1>1, <1>3, Decisions DEF IInv, AcknowledgedIsStored
<1>6. AnswersAreStored' /\ LeaseIsUnique'
    BY <1>1, <1>2 DEF IInv, AnswersAreStored, LeaseIsUnique
<1>7. HeldIsPast'
    <2>1. \A v \in Workers, e \in Events : generation[RowOf(v, e)] \in Nat
        BY RowsArePairs DEF IInv, TypeOK
    <2> QED
        BY <1>1, <1>2, <2>1 DEF IInv, HeldIsPast, RowOf
<1>8. CurrentIsLeased'
    <2> SUFFICES ASSUME NEW v \in Workers, NEW e \in Events, held'[v][e] # 0,
                        held'[v][e] = generation'[RowOf(v, e)]
                 PROVE  /\ status'[RowOf(v, e)] = "LEASED"
                        /\ counted'[v][e] = attemptCount'[RowOf(v, e)]
        BY DEF CurrentIsLeased, RowOf
    <2>1. v # w /\ held[v][e] = generation[RowOf(v, e)] /\ held[v][e] # 0
        BY <1>1, <1>2
    <2>2. RowOf(v, e) \notin mine
        <3> SUFFICES ASSUME RowOf(v, e) \in mine PROVE FALSE
            OBVIOUS
        <3>1. LaneOf[v] = LaneOf[w] /\ held[w][e] # 0 /\ held[w][e] = generation[RowOf(v, e)]
            BY <1>3 DEF RowOf
        <3> QED
            BY <2>1, <3>1 DEF IInv, LeaseIsUnique
    <2>3. status[RowOf(v, e)] = "LEASED" /\ counted[v][e] = attemptCount[RowOf(v, e)]
        BY <2>1 DEF IInv, CurrentIsLeased
    <2> QED
        BY <1>1, <1>2, <2>1, <2>2, <2>3, RowsArePairs
<1>9. HistoryIsPast'
    <2>1. ASSUME NEW a \in attempts
          PROVE  /\ a.generation <= generation'[a.row]
                 /\ \A v \in Workers : LaneOf[v] = a.row[1] /\ held'[v][a.row[2]] # 0
                        => a.generation # held'[v][a.row[2]]
        <3>1. a.row[2] \in Events
            BY RowsArePairs DEF IInv, TypeOK, AttemptRecords
        <3> QED
            BY <1>1, <1>2, <3>1 DEF IInv, HistoryIsPast
    <2>2. ASSUME NEW r \in mine
          PROVE  /\ held[w][r[2]] <= generation'[r]
                 /\ \A v \in Workers : LaneOf[v] = r[1] /\ held'[v][r[2]] # 0
                        => held[w][r[2]] # held'[v][r[2]]
        <3>1. generation[r] \in Nat
            BY <1>3 DEF IInv, TypeOK
        <3> QED
            BY <1>1, <1>2, <1>3, <3>1 DEF IInv, LeaseIsUnique
    <2> QED
        BY <1>1, <2>1, <2>2 DEF HistoryIsPast
<1>10. OneOutcomePerLease'
    <2> DEFINE outcome(r) == [row |-> r, generation |-> held[w][r[2]],
                              outcome |-> Decision(w, r[2])[2]]
    <2>1. \A a \in attempts, r \in mine : a.row = r => a.generation # held[w][r[2]]
        BY <1>3 DEF IInv, HistoryIsPast
    <2>2. \A r \in mine : outcome(r).row = r /\ outcome(r).generation = held[w][r[2]]
        OBVIOUS
    <2>3. \A a \in attempts' : a \in attempts \/ \E r \in mine : a = outcome(r)
        BY <1>1
    <2>4. \A a, b \in attempts :
              a.row = b.row /\ a.generation = b.generation => a = b
        BY DEF IInv, OneOutcomePerLease
    <2> SUFFICES ASSUME NEW a \in attempts', NEW b \in attempts',
                        a.row = b.row, a.generation = b.generation
                 PROVE  a = b
        BY DEF OneOutcomePerLease
    <2> HIDE DEF outcome
    <2>5. CASE a \in attempts /\ b \in attempts
        BY <2>4, <2>5
    <2>6. CASE a \in attempts /\ b \notin attempts
        BY <2>1, <2>2, <2>3, <2>6
    <2>7. CASE a \notin attempts /\ b \in attempts
        BY <2>1, <2>2, <2>3, <2>7
    <2>8. CASE a \notin attempts /\ b \notin attempts
        BY <2>2, <2>3, <2>8
    <2> QED
        BY <2>5, <2>6, <2>7, <2>8
<1>11. RetryBudget'
    BY <1>1, <1>3, Decisions DEF IInv, RetryBudget
<1>12. TombstonesAreFinal'
    BY <1>1, <1>3, RowsArePairs DEF IInv, TypeOK, TombstonesAreFinal
<1> QED
    BY <1>4, <1>5, <1>6, <1>7, <1>8, <1>9, <1>10, <1>11, <1>12 DEF IInv

-----------------------------------------------------------------------------
(* Every step keeps the invariant. *)
LEMMA NextIInv == IInv /\ [Next]_vars => IInv'
<1> SUFFICES ASSUME IInv, [Next]_vars PROVE IInv'
    OBVIOUS
<1>1. ASSUME NEW e \in Events, Append(e) PROVE IInv'
    BY <1>1, AppendIInv
<1>2. ASSUME NEW e \in Events, Tombstone(e) PROVE IInv'
    BY <1>2, TombstoneIInv
<1>3. ASSUME NEW run \in Runs, CreateReplayByIds(run) PROVE IInv'
    BY <1>3, CreateRunIInv DEF CreateReplayByIds
<1>4. ASSUME NEW run \in Runs, CreateReplayByWindow(run) PROVE IInv'
    <2>1. \A selected \in SUBSET Events, allowed \in SUBSET {"PENDING", "QUARANTINED"} :
              Members(selected, allowed) \in SUBSET Events
        BY DEF Members
    <2>2. PICK first \in Events, last \in Events,
               allowed \in SUBSET {"PENDING", "QUARANTINED"} :
            CreateRun(run, Members({e \in Events : first <= e /\ e <= last}, allowed))
        BY <1>4 DEF CreateReplayByWindow
    <2>3. {e \in Events : first <= e /\ e <= last} \in SUBSET Events
        OBVIOUS
    <2> QED
        BY <2>1, <2>2, <2>3, CreateRunIInv
<1>5. ASSUME NEW run \in Runs, CreateBackfill(run) PROVE IInv'
    BY <1>5, CreateRunIInv DEF CreateBackfill
<1>6. ASSUME NEW w \in Workers, Claim(w) PROVE IInv'
    BY <1>6, ClaimIInv
<1>7. ASSUME NEW w \in Workers, ClaimFails(w) PROVE IInv'
    BY <1>7, ClaimFailsIInv
<1>8. ASSUME NEW w \in Workers, Deliver(w) PROVE IInv'
    BY <1>8, DeliverIInv
<1>9. ASSUME NEW w \in Workers, Record(w) PROVE IInv'
    BY <1>9, RecordIInv
<1>10. ASSUME NEW w \in Workers, RecordStale(w) PROVE IInv'
    BY <1>10, RecordStaleIInv
<1>11. ASSUME NEW w \in Workers, Crash(w) PROVE IInv'
    BY <1>11, CrashIInv
<1>12. ASSUME NEW r \in Rows, LeaseExpires(r) PROVE IInv'
    BY <1>12, LeaseExpiresIInv
<1>13. CASE UNCHANGED vars
    BY <1>13 DEF vars, table, memory, IInv, TypeOK, AcknowledgedIsStored,
        AnswersAreStored, HeldIsPast, LeaseIsUnique, CurrentIsLeased, HistoryIsPast,
        OneOutcomePerLease, RetryBudget, TombstonesAreFinal
<1> QED
    BY <1>1, <1>2, <1>3, <1>4, <1>5, <1>6, <1>7, <1>8, <1>9, <1>10, <1>11, <1>12,
       <1>13 DEF Next

THEOREM Invariance == Spec => []IInv
BY InitIInv, NextIInv, PTL DEF Spec

(* Every variable keeps its type. *)
THEOREM TypeCorrect == Spec => []TypeOK
<1>1. IInv => TypeOK
    BY DEF IInv
<1> QED
    BY <1>1, Invariance, PTL

(* The feed never says an event is acknowledged that the receiver does not
   hold, for any number of workers, lanes, crashes and repeated deliveries. *)
THEOREM NoFalseAcknowledgement == Spec => []AcknowledgedIsStored
<1>1. IInv => AcknowledgedIsStored
    BY DEF IInv
<1> QED
    BY <1>1, Invariance, PTL

(* The generation fence lets at most one worker settle a row. *)
THEOREM MutualExclusion == Spec => []SingleHolder
<1>1. IInv => SingleHolder
    <2> SUFFICES ASSUME IInv, NEW r \in Rows, NEW w \in Workers, NEW v \in Workers,
                        Holds(w, r), Holds(v, r), w # v
                 PROVE  FALSE
        BY DEF SingleHolder
    <2>1. LaneOf[w] = LaneOf[v] /\ r[2] \in Events /\ held[w][r[2]] # 0
        BY DEF Holds, BatchOf
    <2>2. held[w][r[2]] = held[v][r[2]]
        BY DEF Holds
    <2> QED
        BY <2>1, <2>2 DEF IInv, LeaseIsUnique
<1> QED
    BY <1>1, Invariance, PTL

(* A lease is consumed at most once in the append-only history. *)
THEOREM LeasesAreConsumedOnce == Spec => []OneOutcomePerLease
<1>1. IInv => OneOutcomePerLease
    BY DEF IInv
<1> QED
    BY <1>1, Invariance, PTL

(* A tombstone never catches a live delivery that could still be recorded. *)
THEOREM TombstonesSuppress == Spec => []LiveTombstoneSuppresses
<1>1. IInv => LiveTombstoneSuppresses
    <2> SUFFICES ASSUME IInv, NEW e \in tombstones
                 PROVE  /\ status[LiveRow(e)] = "TOMBSTONED"
                        /\ \A w \in Workers : LaneOf[w] = Live /\ e \in BatchOf(w)
                                => held[w][e] < generation[LiveRow(e)]
        BY DEF LiveTombstoneSuppresses
    <2>1. e \in Events /\ status[LiveRow(e)] = "TOMBSTONED"
        BY DEF IInv, TypeOK, TombstonesAreFinal
    <2> SUFFICES ASSUME NEW w \in Workers, LaneOf[w] = Live, e \in BatchOf(w)
                 PROVE  held[w][e] < generation[LiveRow(e)]
        BY <2>1
    <2>2. RowOf(w, e) = LiveRow(e) /\ LiveRow(e) \in Rows
        BY <2>1, RowsArePairs DEF RowOf, LiveRow
    <2>3. held[w][e] <= generation[RowOf(w, e)]
        BY <2>1 DEF IInv, HeldIsPast, RowOf
    <2>4. held[w][e] # generation[RowOf(w, e)]
        BY <2>1, <2>2 DEF IInv, CurrentIsLeased, BatchOf, RowOf
    <2>5. held[w][e] \in Nat /\ generation[RowOf(w, e)] \in Nat
        BY <2>1, <2>2 DEF IInv, TypeOK
    <2> QED
        BY <2>2, <2>3, <2>4, <2>5
<1> QED
    BY <1>1, Invariance, PTL

-----------------------------------------------------------------------------
(* attempt_count and the history.  A retry adds one record to its row, and one *)
(* that is new: the history had no outcome of the lease that it consumes.      *)
Retries(r) == {a \in attempts : a.row = r /\ a.outcome = "retryable"}

CountsMatch ==
    \A r \in Rows : IsFiniteSet(Retries(r)) /\ attemptCount[r] = Cardinality(Retries(r))

LEMMA InitCounts == Init => CountsMatch
<1> SUFFICES ASSUME Init, NEW r \in Rows
             PROVE  IsFiniteSet(Retries(r)) /\ attemptCount[r] = Cardinality(Retries(r))
    BY DEF CountsMatch
<1>1. Retries(r) = {} /\ attemptCount[r] = 0
    BY DEF Init, Retries
<1> QED
    BY <1>1, FS_EmptySet

LEMMA RecordCounts ==
    ASSUME IInv, CountsMatch, NEW w \in Workers, Record(w) PROVE CountsMatch'
<1> DEFINE mine == {LaneOf[w]} \X BatchOf(w)
           outcome(r) == [row |-> r, generation |-> held[w][r[2]],
                          outcome |-> Decision(w, r[2])[2]]
<1>1. /\ attemptCount' = [r \in Rows |-> IF r \in mine /\ CountsAsRetry(w, r[2])
                                           THEN attemptCount[r] + 1 ELSE attemptCount[r]]
      /\ attempts' = attempts \cup {outcome(r) : r \in mine}
    BY DEF Record
<1>2. \A r \in mine : r = RowOf(w, r[2]) /\ r[2] \in Events /\ held[w][r[2]] # 0
    BY DEF BatchOf, RowOf
<1>3. \A e \in Events : CountsAsRetry(w, e) <=> Decision(w, e)[2] = "retryable"
    BY DEF CountsAsRetry, Decision
<1>4. \A r : outcome(r).row = r /\ outcome(r).outcome = Decision(w, r[2])[2]
    OBVIOUS
<1>5. \A r \in mine : outcome(r) \notin attempts
  <2>1. \A r \in mine : LaneOf[w] = r[1]
    OBVIOUS
  <2> QED
    BY <1>2, <2>1 DEF IInv, HistoryIsPast
<1> HIDE DEF mine, outcome
<1> SUFFICES ASSUME NEW r \in Rows
             PROVE  /\ IsFiniteSet(Retries(r)')
                    /\ attemptCount'[r] = Cardinality(Retries(r)')
    BY DEF CountsMatch
<1>6. IsFiniteSet(Retries(r)) /\ attemptCount[r] = Cardinality(Retries(r))
    BY DEF CountsMatch
<1>7. \A a : a \in attempts' <=> a \in attempts \/ \E q \in mine : a = outcome(q)
    BY <1>1
<1>8. \A a : a \in Retries(r)' <=> a \in attempts' /\ a.row = r /\ a.outcome = "retryable"
    BY DEF Retries
<1>9. \A a : a \in Retries(r)' <=>
          \/ a \in Retries(r)
          \/ r \in mine /\ a = outcome(r) /\ Decision(w, r[2])[2] = "retryable"
  <2> SUFFICES ASSUME NEW a
               PROVE  a \in Retries(r)' <=>
                        \/ a \in Retries(r)
                        \/ r \in mine /\ a = outcome(r) /\ Decision(w, r[2])[2] = "retryable"
    OBVIOUS
  <2>1. a \in Retries(r) <=> a \in attempts /\ a.row = r /\ a.outcome = "retryable"
    BY DEF Retries
  <2>2. \A q \in mine : a = outcome(q) => a.row = q /\ a.outcome = Decision(w, q[2])[2]
    BY <1>4
  <2> QED
    BY <1>7, <1>8, <2>1, <2>2
<1>10. CASE r \in mine /\ CountsAsRetry(w, r[2])
  <2>1. Retries(r)' = Retries(r) \cup {outcome(r)}
    BY <1>2, <1>3, <1>10, <1>9
  <2>2. outcome(r) \notin Retries(r)
    BY <1>5, <1>10 DEF Retries
  <2> QED
    BY <1>1, <1>6, <1>10, <2>1, <2>2, FS_AddElement
<1>11. CASE ~(r \in mine /\ CountsAsRetry(w, r[2]))
  <2>1. \A a : a \in Retries(r)' <=> a \in Retries(r)
    BY <1>2, <1>3, <1>11, <1>9
  <2>2. Retries(r)' = Retries(r)
    BY <2>1 DEF Retries
  <2> QED
    BY <1>1, <1>6, <1>11, <2>2
<1> QED
    BY <1>10, <1>11

LEMMA NextCounts == IInv /\ CountsMatch /\ [Next]_vars => CountsMatch'
<1> SUFFICES ASSUME IInv, CountsMatch, [Next]_vars PROVE CountsMatch'
    OBVIOUS
<1>1. CASE UNCHANGED <<attempts, attemptCount>>
    BY <1>1 DEF CountsMatch, Retries
<1>2. CASE \E w \in Workers : Record(w)
    BY <1>2, RecordCounts
<1> QED
    BY <1>1, <1>2
    DEF Next, vars, table, Append, Tombstone, CreateReplayByIds, CreateReplayByWindow,
        CreateBackfill, CreateRun, Claim, ClaimFails, Lease, Deliver, RecordStale, Crash,
        LeaseExpires

(* attempt_count is the number of retries in the history, however often passes
   are repeated, rolled back or lost (postgres_decision_recorder.go), and the
   row leaves the retry loop before operatorAlertAttempt of them. *)
THEOREM RetriesAreCountedAndBounded == Spec => []RetriesStayInBudget
<1>1. CountsMatch /\ IInv => RetriesStayInBudget
    BY DEF CountsMatch, Retries, RetriesAreCounted, RetriesStayInBudget, IInv
<1> QED
    BY <1>1, InitIInv, InitCounts, NextIInv, NextCounts, PTL DEF Spec

-----------------------------------------------------------------------------
(* The feed implements DeliveryPromise. *)
PromiseState == [r \in Rows |-> IF status[r] \in Open THEN "OPEN" ELSE status[r]]

(* A step that leaves every status open or as it was, and the receiver's
   events alone, is a stutter of the promise. *)
LEMMA StutterPromise ==
    ASSUME UNCHANGED core,
           \A r \in Rows : status'[r] # status[r] =>
                status[r] \in Open /\ status'[r] \in Open
    PROVE  UNCHANGED Promise!vars
<1>1. PromiseState' = PromiseState
    BY DEF PromiseState
<1> QED
    BY <1>1 DEF Promise!vars, PromiseState

(* A step that opens absent rows creates them in the promise. *)
LEMMA CreatePromise ==
    ASSUME IInv, UNCHANGED core,
           \A r \in Rows : status'[r] # status[r] =>
                status[r] = "ABSENT" /\ status'[r] = "PENDING"
    PROVE  Promise!Next
<1>1. \A r \in Rows : PromiseState'[r] = PromiseState[r]
          \/ (PromiseState[r] = "ABSENT" /\ PromiseState'[r] = "OPEN")
    BY DEF PromiseState, Open
<1>2. PromiseState' = [r \in Rows |-> PromiseState'[r]]
    BY DEF PromiseState
<1>3. Promise!Rows = Rows
    BY DEF Promise!Rows, Rows, Lanes
<1>4. Promise!Create
    BY <1>1, <1>2, <1>3 DEF Promise!Create, Promise!Each, Promise!Opens, PromiseState
<1> QED
    BY <1>4 DEF Promise!Next

(* Recording a batch settles the rows it acknowledges or quarantines. *)
LEMMA SettlePromise ==
    ASSUME IInv, NEW w \in Workers, Record(w)
    PROVE  Promise!Next
<1> DEFINE mine == {LaneOf[w]} \X BatchOf(w)
<1>1. status' = [r \in Rows |-> IF r \in mine THEN Decision(w, r[2])[1] ELSE status[r]]
      /\ core' = core
    BY DEF Record
<1>2. \A r \in mine : r[2] \in Events /\ status[r] = "LEASED"
    BY DEF Record, Fenced, Holds, RowOf, BatchOf
<1> HIDE DEF mine
<1>3. \A r \in Rows : status'[r] = status[r]
          \/ /\ status[r] = "LEASED"
             /\ status'[r] \in {"ACKNOWLEDGED", "QUARANTINED", "PENDING"}
             /\ status'[r] = "ACKNOWLEDGED" => r[2] \in core
    BY <1>1, <1>2, Decisions
<1>4. \A r \in Rows : PromiseState'[r] = PromiseState[r]
          \/ /\ PromiseState[r] = "OPEN"
             /\ PromiseState'[r] = "QUARANTINED"
                \/ (PromiseState'[r] = "ACKNOWLEDGED" /\ r[2] \in core)
    BY <1>3 DEF PromiseState, Open
<1>5. PromiseState' = [r \in Rows |-> PromiseState'[r]]
    BY DEF PromiseState
<1>6. Promise!Rows = Rows
    BY DEF Promise!Rows, Rows, Lanes
<1>7. Promise!Settle
    BY <1>1, <1>4, <1>5, <1>6
    DEF Promise!Settle, Promise!Each, Promise!Settles, PromiseState
<1> QED
    BY <1>7 DEF Promise!Next

LEMMA SuppressPromise ==
    ASSUME IInv, NEW e \in Events, Tombstone(e)
    PROVE  Promise!Next
<1>1. \A r \in Rows : status'[r] = status[r]
          \/ (r[1] = Live /\ status[r] = "PENDING" /\ status'[r] = "TOMBSTONED")
    BY RowsArePairs DEF Tombstone, LiveRow, IInv, TypeOK
<1>2. \A r \in Rows : PromiseState'[r] = PromiseState[r]
          \/ (r[1] = Live /\ PromiseState[r] = "OPEN" /\ PromiseState'[r] = "TOMBSTONED")
    BY <1>1 DEF PromiseState, Open
<1>3. PromiseState' = [r \in Rows |-> PromiseState'[r]]
    BY DEF PromiseState
<1>4. Promise!Rows = Rows
    BY DEF Promise!Rows, Rows, Lanes
<1>5. Promise!Suppress
    BY <1>2, <1>3, <1>4
    DEF Tombstone, Promise!Suppress, Promise!Each, Promise!Suppresses, PromiseState
<1> QED
    BY <1>5 DEF Promise!Next

LEMMA StorePromise ==
    ASSUME IInv, NEW w \in Workers, Deliver(w)
    PROVE  Promise!Next
<1>1. core \subseteq core' /\ core' \subseteq Events
    BY DEF Deliver, BatchOf, IInv, TypeOK
<1>2. PromiseState' = PromiseState
    BY DEF Deliver, table, PromiseState
<1> QED
    BY <1>1, <1>2 DEF Promise!Next, Promise!Store, PromiseState

LEMMA InitPromise == Init => Promise!Init
<1> SUFFICES ASSUME Init PROVE Promise!Init
    OBVIOUS
<1>1. Promise!Rows = Rows
    BY DEF Promise!Rows, Rows, Lanes
<1>2. \A r \in Rows : status[r] = "ABSENT"
    BY DEF Init
<1>3. [r \in Rows |-> IF status[r] \in Open THEN "OPEN" ELSE status[r]]
        = [r \in Rows |-> "ABSENT"]
    BY <1>2 DEF Open
<1> QED
    BY <1>1, <1>3 DEF Promise!Init, Init

LEMMA NextPromise == IInv /\ [Next]_vars => [Promise!Next]_(Promise!vars)
<1> SUFFICES ASSUME IInv, [Next]_vars PROVE Promise!Next \/ UNCHANGED Promise!vars
    OBVIOUS
<1> USE DEF table
<1>1. ASSUME NEW e \in Events, Append(e) PROVE Promise!Next
    BY <1>1, CreatePromise DEF Append, IInv, TypeOK
<1>2. ASSUME NEW run \in Runs, NEW members \in SUBSET Events, CreateRun(run, members)
      PROVE  Promise!Next
    BY <1>2, CreatePromise, RowsArePairs DEF CreateRun, IInv, TypeOK
<1>3. ASSUME NEW run \in Runs, CreateReplayByIds(run) PROVE Promise!Next
    BY <1>2, <1>3 DEF CreateReplayByIds
<1>4. ASSUME NEW run \in Runs, CreateReplayByWindow(run) PROVE Promise!Next
    <2>1. \A selected \in SUBSET Events, allowed \in SUBSET {"PENDING", "QUARANTINED"} :
              Members(selected, allowed) \in SUBSET Events
        BY DEF Members
    <2>2. PICK first \in Events, last \in Events,
               allowed \in SUBSET {"PENDING", "QUARANTINED"} :
            CreateRun(run, Members({e \in Events : first <= e /\ e <= last}, allowed))
        BY <1>4 DEF CreateReplayByWindow
    <2>3. {e \in Events : first <= e /\ e <= last} \in SUBSET Events
        OBVIOUS
    <2> QED
        BY <1>2, <2>1, <2>2, <2>3
<1>5. ASSUME NEW run \in Runs, CreateBackfill(run) PROVE Promise!Next
    BY <1>2, <1>5 DEF CreateBackfill
<1>6. ASSUME NEW w \in Workers, NEW batch \in SUBSET Events,
             \A e \in batch : Eligible(w, e), Lease(w, batch)
      PROVE  UNCHANGED Promise!vars
    <2>1. \A r \in Rows : status'[r] # status[r] =>
              status[r] \in Open /\ status'[r] \in Open
        BY <1>6, LeaseMoves DEF Open
    <2>2. UNCHANGED core
        BY <1>6 DEF Lease
    <2> QED
        BY <2>1, <2>2, StutterPromise
<1>7. ASSUME NEW w \in Workers, Claim(w) PROVE UNCHANGED Promise!vars
    BY <1>6, <1>7, BatchIsEligible DEF Claim
<1>8. ASSUME NEW w \in Workers, ClaimFails(w) PROVE UNCHANGED Promise!vars
    BY <1>6, <1>8, BatchIsEligible DEF ClaimFails
<1>9. ASSUME NEW w \in Workers, RecordStale(w) \/ Crash(w) PROVE UNCHANGED Promise!vars
    BY <1>9, StutterPromise DEF RecordStale, Crash
<1>10. ASSUME NEW r \in Rows, LeaseExpires(r) PROVE UNCHANGED Promise!vars
    BY <1>10, StutterPromise DEF LeaseExpires
<1>11. CASE UNCHANGED vars
    BY <1>11, StutterPromise DEF vars
<1> QED
    BY <1>1, <1>3, <1>4, <1>5, <1>7, <1>8, <1>9, <1>10, <1>11,
       SettlePromise, SuppressPromise, StorePromise DEF Next

(* Leases, lost answers, crashes and replays implement the promise: a row is
   settled once, never reopened, and acknowledged only when stored. *)
THEOREM FeedKeepsPromise == Spec => Refines
<1> QED
    BY InitPromise, NextPromise, Invariance, PTL DEF Spec, Refines, Promise!Spec
=============================================================================
