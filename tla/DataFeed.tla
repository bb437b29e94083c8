------------------------------ MODULE DataFeed ------------------------------
(***************************************************************************)
(* The AviaCore data feed of the API: a transactional outbox whose rows    *)
(* are leased under a growing generation number, delivered in batches to   *)
(* the external receiver and settled by a fenced transaction              *)
(* (apps/api/internal/datafeed, cmd/data-feed-worker, cmd/data-feed-replay *)
(* and the triggers of migrations 22 to 24).                               *)
(*                                                                         *)
(* A lane is one table of delivery state: the live lane has a row for each *)
(* event, every replay or backfill run has a lane of its own for the       *)
(* events it selected.  Events are numbers in the order of occurred_at.    *)
(***************************************************************************)
EXTENDS Naturals, FiniteSets

CONSTANTS
    Events,        \* immutable events, numbered in the order of occurred_at
    LegalHold,     \* the events that must not be tombstoned
    Live,          \* the lane of datafeed_delivery_state
    Runs,          \* run ids, each a lane of datafeed_replay_delivery_state
    Workers,       \* processes that run OutboxWorker.ProcessOnce
    LaneOf,        \* the lane a worker's LeaseSource claims from
    BatchLimit,    \* OutboxWorker.Limit, at most maxBatchItems
    AlertAttempt,  \* operatorAlertAttempt
    MaxFaults      \* bound of the model: crashes, failed claims, slow workers

ASSUME EventsAssumption == Events \subseteq Nat /\ LegalHold \subseteq Events
ASSUME LanesAssumption == Live \notin Runs /\ LaneOf \in [Workers -> Runs \cup {Live}]
ASSUME LimitsAssumption ==
    BatchLimit \in Nat \ {0} /\ AlertAttempt \in Nat \ {0} /\ MaxFaults \in Nat

Lanes == Runs \cup {Live}
Rows == Lanes \X Events
LiveRow(e) == <<Live, e>>
RowOf(w, e) == <<LaneOf[w], e>>

Open == {"PENDING", "LEASED"}
Settled == {"ACKNOWLEDGED", "QUARANTINED", "TOMBSTONED"}
Status == {"ABSENT"} \cup Open \cup Settled

\* What a validated receipt, or a classified failure, says of one event.
Answers == {"none", "success", "retryable", "refused"}

VARIABLES
    status,        \* status of each row, "ABSENT" where there is no row
    generation,    \* lease_generation
    attemptCount,  \* attempt_count
    expired,       \* rows whose lease_expires_at has passed
    tombstones,    \* datafeed_replay_tombstones
    attempts,      \* datafeed_delivery_attempts and ..._replay_delivery_attempts
    core,          \* events the external receiver holds durably
    pc,            \* where a worker stands in ProcessOnce
    held,          \* the generation a worker leased each event at, 0 if not
    counted,       \* the attempt_count a worker read when it leased
    answer,        \* the outcomes a worker has in memory, not yet recorded
    faults

table == <<status, generation, attemptCount, expired, attempts>>
memory == <<pc, held, counted, answer>>
vars == <<table, tombstones, core, memory, faults>>

Nothing == [e \in Events |-> 0]
NoAnswer == [e \in Events |-> "none"]

Init ==
    /\ status = [r \in Rows |-> "ABSENT"]
    /\ generation = [r \in Rows |-> 0]
    /\ attemptCount = [r \in Rows |-> 0]
    /\ expired = {}
    /\ tombstones = {}
    /\ attempts = {}
    /\ core = {}
    /\ pc = [w \in Workers |-> "idle"]
    /\ held = [w \in Workers |-> Nothing]
    /\ counted = [w \in Workers |-> Nothing]
    /\ answer = [w \in Workers |-> NoAnswer]
    /\ faults = 0

-----------------------------------------------------------------------------
(* Producers and operators. *)

\* The writer appends an event on its caller's business transaction and a
\* trigger creates the live delivery row.
Append(e) ==
    /\ status[LiveRow(e)] = "ABSENT"
    /\ status' = [status EXCEPT ![LiveRow(e)] = "PENDING"]
    /\ UNCHANGED <<generation, attemptCount, expired, attempts,
                   tombstones, core, memory, faults>>

\* The rows a selector matches: scoped events in one of the allowed delivery
\* states that have no tombstone.
Members(selected, allowed) ==
    {e \in selected : status[LiveRow(e)] \in allowed /\ e \notin tombstones}

CreateRun(run, members) ==
    /\ \A e \in Events : status[<<run, e>>] = "ABSENT"
    /\ members # {}
    /\ status' = [r \in Rows |-> IF r[1] = run /\ r[2] \in members
                                   THEN "PENDING" ELSE status[r]]
    /\ UNCHANGED <<generation, attemptCount, expired, attempts,
                   tombstones, core, memory, faults>>

\* A replay selected by ids fails unless every id is eligible.
CreateReplayByIds(run) ==
    \E ids \in SUBSET Events, allowed \in SUBSET {"PENDING", "QUARANTINED"} :
        Members(ids, allowed) = ids /\ CreateRun(run, ids)

\* A replay selected by a window of occurred_at takes whatever is eligible.
CreateReplayByWindow(run) ==
    \E first \in Events, last \in Events,
       allowed \in SUBSET {"PENDING", "QUARANTINED"} :
        CreateRun(run, Members({e \in Events : first <= e /\ e <= last}, allowed))

\* A backfill selects by ids among the events that are still pending.
CreateBackfill(run) ==
    \E ids \in SUBSET Events :
        Members(ids, {"PENDING"}) = ids /\ CreateRun(run, ids)

\* Broken: the trigger settles a row that a worker has leased.
TombstoneLeased(e) ==
    /\ e \notin LegalHold
    /\ status[LiveRow(e)] \in Open
    /\ status' = [status EXCEPT ![LiveRow(e)] = "TOMBSTONED"]
    /\ tombstones' = tombstones \cup {e}
    /\ UNCHANGED <<generation, attemptCount, expired, attempts,
                   core, memory, faults>>

\* The owner records a tombstone; the trigger settles the live row in the same
\* transaction, or refuses it.
Tombstone(e) ==
    /\ e \notin LegalHold
    /\ status[LiveRow(e)] = "PENDING"
    /\ status' = [status EXCEPT ![LiveRow(e)] = "TOMBSTONED"]
    /\ tombstones' = tombstones \cup {e}
    /\ UNCHANGED <<generation, attemptCount, expired, attempts,
                   core, memory, faults>>

-----------------------------------------------------------------------------
(* Leases. *)

\* Broken: an expired lease is never taken over.
EligiblePendingOnly(w, e) ==
    status[RowOf(w, e)] = "PENDING" /\ (LaneOf[w] = Live => e \notin tombstones)

\* A row of the worker's lane that the claim query takes.  The retry delay is
\* zero in production, where no RandInt is wired, so a pending row is due.
Eligible(w, e) ==
    LET row == RowOf(w, e) IN
    /\ status[row] = "PENDING" \/ (status[row] = "LEASED" /\ row \in expired)
    /\ LaneOf[w] = Live => e \notin tombstones

\* ORDER BY occurred_at LIMIT BatchLimit, over the rows no other transaction
\* has locked at that moment (SKIP LOCKED).
Batch(w, locked) ==
    LET ready == {e \in Events \ locked : Eligible(w, e)}
    IN  {e \in ready : Cardinality({f \in ready : f < e}) < BatchLimit}

\* Broken: taking over an expired lease keeps its generation.
LeaseSameGeneration(w, batch) ==
    LET leased == {LaneOf[w]} \X batch IN
    /\ status' = [r \in Rows |-> IF r \in leased THEN "LEASED" ELSE status[r]]
    /\ generation' = [r \in Rows |->
            IF r \in leased /\ status[r] = "PENDING" THEN generation[r] + 1
                                                    ELSE generation[r]]
    /\ expired' = expired \ leased
    /\ UNCHANGED <<attemptCount, attempts, tombstones, core>>

\* Broken: every lease of a row starts at generation 1 again.
LeaseFirstGeneration(w, batch) ==
    LET leased == {LaneOf[w]} \X batch IN
    /\ status' = [r \in Rows |-> IF r \in leased THEN "LEASED" ELSE status[r]]
    /\ generation' = [r \in Rows |-> IF r \in leased THEN 1 ELSE generation[r]]
    /\ expired' = expired \ leased
    /\ UNCHANGED <<attemptCount, attempts, tombstones, core>>

\* The claim commits the leases before anything of the events is read.
Lease(w, batch) ==
    LET leased == {LaneOf[w]} \X batch IN
    /\ status' = [r \in Rows |-> IF r \in leased THEN "LEASED" ELSE status[r]]
    /\ generation' = [r \in Rows |-> IF r \in leased THEN generation[r] + 1
                                                     ELSE generation[r]]
    /\ expired' = expired \ leased
    /\ UNCHANGED <<attemptCount, attempts, tombstones, core>>

Claim(w) ==
    /\ pc[w] = "idle"
    /\ \E locked \in SUBSET Events :
          LET batch == Batch(w, locked) IN
          /\ batch # {}
          /\ Lease(w, batch)
          /\ held' = [held EXCEPT ![w] =
                [e \in Events |-> IF e \in batch THEN generation'[RowOf(w, e)]
                                                 ELSE 0]]
          /\ counted' = [counted EXCEPT ![w] =
                [e \in Events |-> IF e \in batch THEN attemptCount[RowOf(w, e)]
                                                 ELSE 0]]
    /\ pc' = [pc EXCEPT ![w] = "claimed"]
    /\ UNCHANGED <<answer, faults>>

\* Reading, decrypting or rebuilding one claimed event fails: the pass returns
\* an error and the whole batch stays leased.
ClaimFails(w) ==
    /\ pc[w] = "idle"
    /\ faults < MaxFaults
    /\ faults' = faults + 1
    /\ \E locked \in SUBSET Events :
          Batch(w, locked) # {} /\ Lease(w, Batch(w, locked))
    /\ UNCHANGED memory

BatchOf(w) == {e \in Events : held[w][e] # 0}

\* A worker holds a row of its batch while its generation is the row's.
Holds(w, r) ==
    /\ r[1] = LaneOf[w]
    /\ r[2] \in BatchOf(w)
    /\ status[r] = "LEASED"
    /\ held[w][r[2]] = generation[r]

\* Time passes a lease's expiry: for a lease no worker will settle always, for
\* one in progress when its worker is slow, which is a counted fault.
LeaseExpires(r) ==
    /\ status[r] = "LEASED"
    /\ r \notin expired
    /\ expired' = expired \cup {r}
    /\ IF \E w \in Workers : Holds(w, r)
         THEN faults < MaxFaults /\ faults' = faults + 1
         ELSE faults' = faults
    /\ UNCHANGED <<status, generation, attemptCount, attempts,
                   tombstones, core, memory>>

-----------------------------------------------------------------------------
(* Delivery and the fenced record. *)

\* Receipts that pass ValidateReceipt: one outcome for each submitted event,
\* and a success only for an event the receiver holds.
Receipts(w, stored) ==
    {a \in [Events -> Answers] :
        \A e \in Events :
            /\ (a[e] = "none") <=> (e \notin BatchOf(w))
            /\ a[e] = "success" => e \in stored}

\* A lost connection, 429, 500 or 503 is retryable for the whole batch; any
\* other status and an invalid receipt refuse the whole batch.
FailureAnswers(w) ==
    {[e \in Events |-> IF e \in BatchOf(w) THEN a ELSE "none"] :
        a \in {"retryable", "refused"}}

\* The receiver may have stored part of the batch whatever the worker learns.
Deliver(w) ==
    /\ pc[w] = "claimed"
    /\ \E taken \in SUBSET BatchOf(w) :
          /\ core' = core \cup taken
          /\ \E a \in Receipts(w, core') \cup FailureAnswers(w) :
                answer' = [answer EXCEPT ![w] = a]
    /\ pc' = [pc EXCEPT ![w] = "answered"]
    /\ UNCHANGED <<table, tombstones, held, counted, faults>>

OperatorAlertRequired(n) == n >= AlertAttempt

\* Broken: a batch the receiver did not refuse counts as delivered.
DecisionAcknowledges(w, e) ==
    IF answer[w][e] = "refused" THEN <<"QUARANTINED", "refused">>
    ELSE <<"ACKNOWLEDGED", "success">>

\* Broken: exhausted retries keep the dead-letter status of migration 22.
DecisionDeadLetters(w, e) ==
    CASE answer[w][e] = "success" -> <<"ACKNOWLEDGED", "success">>
      [] answer[w][e] = "refused" -> <<"QUARANTINED", "refused">>
      [] OTHER -> IF OperatorAlertRequired(counted[w][e] + 1)
                    THEN <<"DEAD_LETTER", "retry_exhausted">>
                    ELSE <<"PENDING", "retryable">>

\* The decision for one event: its next status and the outcome code recorded.
Decision(w, e) ==
    CASE answer[w][e] = "success" -> <<"ACKNOWLEDGED", "success">>
      [] answer[w][e] = "refused" -> <<"QUARANTINED", "refused">>
      [] OTHER -> IF OperatorAlertRequired(counted[w][e] + 1)
                    THEN <<"QUARANTINED", "retry_exhausted">>
                    ELSE <<"PENDING", "retryable">>

\* Every decision's UPDATE matches a row only under the worker's own lease.
Fenced(w) == \A e \in BatchOf(w) : Holds(w, RowOf(w, e))

Forget(w) ==
    /\ pc' = [pc EXCEPT ![w] = "idle"]
    /\ held' = [held EXCEPT ![w] = Nothing]
    /\ counted' = [counted EXCEPT ![w] = Nothing]
    /\ answer' = [answer EXCEPT ![w] = NoAnswer]

\* Broken: a final failure counts as a retry.
CountsEveryFailure(w, e) == Decision(w, e)[1] # "ACKNOWLEDGED"

\* Only RetryDelivery increments attempt_count.
CountsAsRetry(w, e) == Decision(w, e)[1] = "PENDING"

\* One transaction records every decision of the batch and its attempts.
Record(w) ==
    LET mine == {LaneOf[w]} \X BatchOf(w) IN
    /\ pc[w] = "answered"
    /\ Fenced(w)
    /\ status' = [r \in Rows |-> IF r \in mine THEN Decision(w, r[2])[1]
                                               ELSE status[r]]
    /\ attemptCount' = [r \in Rows |->
            IF r \in mine /\ CountsAsRetry(w, r[2])
              THEN attemptCount[r] + 1 ELSE attemptCount[r]]
    /\ expired' = expired \ mine
    /\ attempts' = attempts \cup
            {[row |-> r, generation |-> held[w][r[2]],
              outcome |-> Decision(w, r[2])[2]] : r \in mine}
    /\ Forget(w)
    /\ UNCHANGED <<generation, tombstones, core, faults>>

\* One stale lease rolls the whole set back and the pass ends with an error.
RecordStale(w) ==
    /\ pc[w] = "answered"
    /\ ~Fenced(w)
    /\ Forget(w)
    /\ UNCHANGED <<table, tombstones, core, faults>>

\* The process dies, or the recording transaction fails, with leases held.
Crash(w) ==
    /\ pc[w] # "idle"
    /\ faults < MaxFaults
    /\ faults' = faults + 1
    /\ Forget(w)
    /\ UNCHANGED <<table, tombstones, core>>

Next ==
    \/ \E e \in Events : Append(e) \/ Tombstone(e)
    \/ \E run \in Runs :
          CreateReplayByIds(run) \/ CreateReplayByWindow(run) \/ CreateBackfill(run)
    \/ \E w \in Workers :
          \/ Claim(w) \/ ClaimFails(w) \/ Deliver(w)
          \/ Record(w) \/ RecordStale(w) \/ Crash(w)
    \/ \E r \in Rows : LeaseExpires(r)

Spec == Init /\ [][Next]_vars

\* The live worker polls on a ticker for as long as it runs, its HTTP client
\* and its transactions have deadlines, and time passes.  Nothing starts a
\* replay worker but an operator, so none is assumed for the other lanes.
Fairness ==
    /\ \A w \in {v \in Workers : LaneOf[v] = Live} :
          /\ WF_vars(Claim(w))
          /\ WF_vars(Deliver(w))
          /\ WF_vars(Record(w) \/ RecordStale(w))
    /\ \A r \in Rows : WF_vars(LeaseExpires(r))

FairSpec == Spec /\ Fairness

-----------------------------------------------------------------------------
(* Properties. *)

AttemptRecords ==
    [row : Rows, generation : Nat, outcome :
        {"success", "refused", "retryable", "retry_exhausted"}]

\* Every variable has its type.
TypeOK ==
    /\ status \in [Rows -> Status]
    /\ generation \in [Rows -> Nat]
    /\ attemptCount \in [Rows -> Nat]
    /\ expired \subseteq Rows
    /\ tombstones \subseteq Events
    /\ attempts \subseteq AttemptRecords
    /\ core \subseteq Events
    /\ pc \in [Workers -> {"idle", "claimed", "answered"}]
    /\ held \in [Workers -> [Events -> Nat]]
    /\ counted \in [Workers -> [Events -> Nat]]
    /\ answer \in [Workers -> [Events -> Answers]]
    /\ faults \in 0..MaxFaults

\* No lane says ACKNOWLEDGED of an event the receiver does not hold, whatever
\* was lost, repeated or answered late on the way (receipt.go, reconciliation.go).
AcknowledgedIsStored ==
    \A r \in Rows : status[r] = "ACKNOWLEDGED" => r[2] \in core

\* A row never has two workers that could both settle it: the fence of
\* lease_generation survives expiry, reclaim and crash.
SingleHolder ==
    \A r \in Rows, w, v \in Workers : Holds(w, r) /\ Holds(v, r) => w = v

\* One lease is consumed at most once: the append-only history has at most one
\* outcome for each row and generation.
OneOutcomePerLease ==
    \A a, b \in attempts :
        a.row = b.row /\ a.generation = b.generation => a = b

\* attempt_count is exactly the number of retries in the append-only history:
\* no stale, repeated or rolled back pass is counted.
RetriesAreCounted ==
    \A r \in Rows : attemptCount[r] = Cardinality({a \in attempts :
                            a.row = r /\ a.outcome = "retryable"})

\* A row leaves the retry loop before operatorAlertAttempt recorded retries,
\* although the decision uses a count read when the lease was taken.
RetryBudget == \A r \in Rows : attemptCount[r] < AlertAttempt

\* What is counted is what was retried, and it never exhausts the budget.
RetriesStayInBudget == RetriesAreCounted /\ RetryBudget

\* A tombstone is final in the live lane and never catches a delivery in
\* flight: no live worker is between the newest lease of a tombstoned event
\* and its record (the trigger takes PENDING rows only).
LiveTombstoneSuppresses ==
    \A e \in tombstones :
        /\ status[LiveRow(e)] = "TOMBSTONED"
        /\ \A w \in Workers :
              LaneOf[w] = Live /\ e \in BatchOf(w)
                 => held[w][e] < generation[LiveRow(e)]

\* tombstone_effect suppress_replay_and_publication_only: once an event has a
\* tombstone no lane leases it for delivery again.
TombstoneSuppressesReplay ==
    [][\A r \in Rows : r[2] \in tombstones => generation'[r] = generation[r]]_vars

\* What DeliveryPromise says of the feed is kept by leases and workers.
Promise == INSTANCE DeliveryPromise WITH
    state <- [r \in Rows |-> IF status[r] \in Open THEN "OPEN" ELSE status[r]]
Refines == Promise!Spec

\* Every event appended to the live lane is settled in the end, after any
\* bounded number of crashes, failed claims and slow workers.
LiveSettles ==
    \A e \in Events : status[LiveRow(e)] = "PENDING" ~> status[LiveRow(e)] \in Settled
=============================================================================
