# Formal models of AviaSurveil360

AviaSurveil360 is the oversight system of a civil aviation authority: inspectors
work through a checklist, raise Potential Findings, a Lead Inspector turns them
into Findings, the audited organization answers with corrective action plans
(CAPs) and evidence, managers approve reports, and accepted records are fed to
an external system, AviaCore. The Go API (`src/apps/api`) keeps all state in
PostgreSQL; worker processes take messages from an outbox table.

This directory holds TLA+ models of the parts where several processes act on the
same rows, the TLC configurations that check them, and TLAPS proofs of what
matters most.

    tlc -workers 2 -config MCDataFeed.cfg MCDataFeed      # check one configuration
    tlapm DataFeedProofs.tla                              # check one set of proofs

## 1. The system

Nearly every command runs in `executeTransition` (`application/service.go`
727-829): one READ COMMITTED transaction that holds the change, the idempotency
response, an audit event, a change for offline clients and an outbox message.
Outside that envelope act the workers: they lease a row, do something external
without a transaction, and settle the row in a second transaction.

| component | state | operations | hard behaviour | what makes it correct |
|---|---|---|---|---|
| AviaCore data feed (`datafeed`, `cmd/data-feed-*`) | delivery rows per lane, lease generation, attempts, tombstones | append, claim, deliver, record, create run, tombstone | replicas, expired leases, lost answers, crashes, several lanes | no false acknowledgement, one outcome per lease, exact retry count, tombstones are final |
| Findings, CAPs, evidence (`findings`, `caps`, `evidence`, `worker/evidence`) | Finding status and revision, CAP revisions, evidence versions and scan states, outbox message | submit, review, begin and complete an upload, scan, close | scan outlives its lease, replicas share one owner name, failure races success | closure rests on an accepted CAP and a clean, reviewed version; outcomes are final |
| Checklists, Potential Findings, reports (`application`, `checklists`, `potentialfindings`, `reports`) | checklist, responses, Potential Findings, report versions, approval states | answer, submit, reopen, raise, decide, convert, create and decide a version | commands read rows they do not lock | one Finding per response, every stage in order, a Final Report of closed Findings |
| Field synchronisation (`sync`, `web/src/offline`) | grants, stored results, change sequence, cursors, the client's queue | issue, push, pull, revoke | lost answers, retries, commits out of sequence order | each operation applied once, no change lost |
| User lifecycle and sessions (`administration`, `platform/session`) | requests, memberships, provider users, sessions | request, claim, apply at Keycloak, finalize, authenticate, revoke | crash between provider and database, stale authority | a request ends, no session outlives its membership beyond the deadline |
| Notifications, documents (`notifications`, `documents`) | jobs, outbox messages | claim, send or render, finalize, fail | unfenced failure, duplicate sends | a released version is the stored object and a reported e-mail was sent, both for good; the status of a render job is final only while fewer than two faults met |
| Inspection attachments (`inspections/attachments`) | attachments, versions, sessions | begin, complete, scan | as for evidence | only clean attachments are linked |
| Planning, assignments, governance, regulatory library, communications | plans, teams, templates, sources, letters | sequential approvals | little concurrency beyond the envelope | status machines |
| Platform adapters, HTTP layer, loaders, web screens | none of their own | I/O | - | - |

They interact through the database. The checklist and report commands create the
Findings of the second component; completing an upload enqueues a scan message;
an issued report enqueues a render job; commands append data feed events on
their own transaction (`datafeed/writer.go`); every command appends a change
that `sync` pulls. `PROJECT.json` lists every component with its state of work
and every hazard at the line where it bites.

## 2. Modules

| module | what it is |
|---|---|
| `DataFeed` | the data feed: rows of a live lane and of replay lanes, workers, the receiver |
| `DeliveryPromise` | what the feed promises of a row, with no leases and no workers |
| `DataFeedProofs` | theorems about `DataFeed` |
| `FindingLifecycle` | a Finding to its closure, uploads, the scan worker |
| `FindingPromise` | what the lifecycle promises the parties |
| `FindingLifecycleProofs` | theorems about `FindingLifecycle` |
| `AuditReports` | an audit from its checklist to its reports |
| `AuditPromise` | what an audit promises: the phases of raising, freezing, issuing, converting and closing, with no locks and no stale reads |
| `AuditReportsProofs`, `AuditPromiseProofs` | theorems about `AuditReports`; that it implements `AuditPromise` |
| `FieldSync` | an inspector's device, its outbox and foreground engine, the server of field operations |
| `FieldPromise` | what becomes of the work done on a device, with no queue, engine or network |
| `FieldSyncProofs` | theorems about `FieldSync` |
| `UserLifecycle` | one membership: requests, the identity worker, the provider's account, browser sessions |
| `MembershipPromise` | how a membership may change and which sessions may live, with no worker and no provider |
| `UserLifecycleProofs`, `MembershipPromiseProofs` | theorems about `UserLifecycle`; that it implements `MembershipPromise` |
| `DeliveryWorkers` | the worker's loops that render documents and send e-mails |
| `OutcomePromise` | what becomes of a document and of an e-mail, with no leases and no replicas |
| `DeliveryWorkersProofs` | theorems about `DeliveryWorkers` |
| `MC...` | instances for TLC |

Each component has its promise: a small specification that a party who never sees
the mechanism could have written, and that the component implements under the
refinement mapping at the end of its module (`Promise == INSTANCE ... WITH`).

Definitions with a comment that begins with *Broken* or *Mutant* are deliberate mistakes
that no specification uses: substituted for the definition they follow, each
makes one property fail, which shows that the property says something about the
code.

### DataFeed

A lane is a table of delivery state. `status`, `generation`, `attemptCount` and
`attempts` are the columns `status`, `lease_generation`, `attempt_count` and the
append-only attempts table of `datafeed_delivery_state` and
`datafeed_replay_delivery_state`; `expired` says of which rows `lease_expires_at`
has passed, so no clock is needed. `core` is what the receiver holds. A worker's
pass (`OutboxWorker.ProcessOnce`) is `Claim`, `Deliver`, `Record` or
`RecordStale`; `pc`, `held`, `counted` and `answer` are its memory in between.

* `Claim` takes the eligible rows in the order of `occurred_at` that no other
  transaction has locked at that moment (`SKIP LOCKED`: any subset may be
  locked), and commits the leases. `ClaimFails` is the same claim followed by an
  event that cannot be read or decrypted.
* `Deliver` lets the receiver store any part of the batch and the worker learn
  any receipt that `ValidateReceipt` accepts, or a failure of the whole batch.
* `Record` is the one transaction of `PostgresDecisionRecorder.Record`: every row
  is updated only under the worker's own generation, and one stale row rolls the
  whole batch back (`RecordStale`).
* `Tombstone` is the insert with its trigger; `CreateReplayByIds`,
  `CreateReplayByWindow` and `CreateBackfill` are the three ways to make a run.

Retry delays are zero in production (no `RandInt` is wired in
`cmd/data-feed-worker`), so a pending row is always due. Payloads, digests and
byte limits are left out; an oversized batch behaves as a refused one.

### FindingLifecycle

One identifier names an upload session, the evidence version it becomes and the
scan message of that version. The commands are single actions because each locks
the Finding and compares its revision. The scan worker is split at every point
where another replica may act: claim, read of the scan state, scan and copy,
final transaction, failure record. A lease is `free`, `held` or `expired` and
does not name a replica, because every replica runs with the owner
`evidence-worker` (`cmd/worker/main.go` 137): the model shows what that fence
still guarantees. `FinalizeAborts` is the database's answer to the opposite lock
orders of `finalizeEvidence` and `recordFailure`.

### AuditReports

A command is one action where the rows it locks make its reads still true when
it commits. Four commands read rows they do not lock and take several steps, a
transaction identifier holding what was read: reopening a checklist, raising a
Potential Finding, creating a report version, deciding on one. `Rollback` is the
failure of any of them. The locks that exist are conditions on other
transactions (`ChecklistLocked`, `ResponseLocked`, `ApprovalLocked`), the unique
index of migration 32 is `Active`. `CloseFinding` stands for the whole of
`FindingLifecycle`, of which it keeps that CLOSED is final.

### FieldSync

An operation is its position in the device's outbox (the engine sorts by creation
time); `outbox`, `response`, `draft` and `checklist` are the IndexedDB rows that
`field-repository.ts` writes in one transaction per command, so every command of
the inspector is one action. The foreground engine (`sync-engine.ts`) is split
wherever it awaits: list, mark in flight, the request on the network, the answer,
the page that is pulled. `Serve` and `ServeLate` are one server transaction each
(`sync/service.go`): the stored answer first, then the authority of the grant,
then the command. A request whose answer the engine gave up on stays in `late` and
may still arrive. The office edits, submits and reopens online and ends or
withdraws what the device relies on. One response, one Potential Finding and one
checklist stand for a package.

### UserLifecycle

`versions` and `sync` are the tables of migration 18, `requests` the lifecycle
requests with their outbox message (a claim is the status RUNNING: the lease plays
no part, since RUNNING is never claimed), `account` the user at the provider,
`sessions` the browser sessions. A replica of the worker (`ProcessNext`) goes
through `Claim`, `Validate` (a comparison without a lock), the provider's calls
and one of two transactions, `FinalizeSuccess` or `RecordFailure`; a role change
is two provider calls, between which the account has no role. `Manager.Create` is
`BeginLogin` (the observation), `ReconcileActivatedMembership` for an invited
member, `ReadAuthority` and `OpenSession`; `Manager.Authenticate` holds its session's row
(`Locked`) from `AuthenticateObserves` to `RecordObservation`, with the provider's
answer in between. `Deadlock` is the database's answer to the opposite lock orders
of the finalizing transaction and of authentication. Invitations keep the state
of their last fact, and `newest` which of them a login reads, because facts of one
transaction carry the same time.

### DeliveryWorkers

Both loops claim a message of `outbox_messages` and share the lease owner of their
kind between replicas, so a lease is `FREE`, `HELD` or `EXPIRED` and names nobody.
A document goes through `Render`, `WriteObject` (the bucket refuses a second
object under a key, and the bytes and digests of the first are compared),
`FinalizeDocument`, or the two separate statements of `recordFailure`. An e-mail goes through
`Deliver` and one transaction, `FinalizeEmail`, that is fenced by the attempt it
claimed. `ClaimEmail` leaves out the join that skips a tombstoned recipient
(`notifications/service.go:185-190`): the model's recipients are never tombstoned. `renderer` stands for renderer, template and source digests: an upgrade
makes another document of the same snapshot.

## 3. What the runs check

| run | configuration | shows |
|---|---|---|
| `datafeed` | 2 events, 2 live workers, batches of 2, alert at attempt 2, 2 faults, fairness | types; one holder of a row; one outcome per lease; retries counted exactly and bounded; tombstones never meet a live delivery; every appended event is settled |
| `datafeed_replay` | 2 events, a live and a replay worker, 1 run, 1 fault | refinement of `DeliveryPromise`, by which nothing is acknowledged that is not stored |
| `datafeed_tombstone` | as replay, batches of 2 | **violated**: a replay lane leases a tombstoned event |
| `finding` | 1 Finding, 2 uploads, 2 replicas, 2 attempts, 2 CAPs, 2 faults, fairness | scans answer submissions, reviews see a clean latest version, closures are justified, decisions are single, message and version agree, outcomes are final; refinement of `FindingPromise`; no submission waits for ever |
| `audit` | 1 response, 3 Potential Findings, 2 versions, 2 reports, 2 transactions, version numbers to 2 | one Finding and one lineage per response, the decisions on a version are the history that led to its stage, Final Reports name closed Findings, families do not mix; refinement of `AuditPromise` |
| `audit_final` | as audit, 2 Potential Findings | **violated**: a Finding is open beside an issued Final Report |
| `audit_reopen` | as audit, 2 Potential Findings | **violated**: a report over a checklist that is open again |
| `fieldsync` | 3 operations, 2 grants, 1 fault, 1 act of the office, fairness | one request per identifier, unsent edits are kept and queued, no blocked row missed its release, a submission carries the work before it, what was applied is never refused; refinement of `FieldPromise`; what is ready is settled, and what is blocked too unless a refused or conflicting operation holds it up |
| `fieldsync_superseded` | as fieldsync | **violated**: an older edit overwrites a newer one on the server |
| `users` | 2 replicas, 2 requests, 1 call and 1 session at a time, 2 authorities, 2 attempts, 1 fault, fairness | live sessions are of the latest version; requests that succeed leave the provider as the membership asks; refinement of `MembershipPromise`; every request ends or was abandoned RUNNING |
| `users_reactivated` | 1 replica, 2 requests, 1 authority, no fault | **violated**: a reactivated person cannot log in |
| `workers` | 1 document, 1 e-mail, 3 replicas, 2 renderers, 2 attempts, 4 faults, fairness | a released version is the stored object, a reported e-mail was sent, and the job of a released version reads SUCCEEDED unless two faults met; refinement of `OutcomePromise`; every job is settled, but a document whose object is another renderer's |

The bounds let the interesting cases happen: two workers and two faults give a
slow pass that meets a reclaim and a crash of the second holder; an alert at attempt
2 separates a first attempt from the last; two uploads give a superseded and
a current version of one Finding, each scanned by either replica; three Potential Findings give a
returned one, its successor, and a third that competes with it; two versions and
two reports give one family with both kinds, two of one kind, and a Preliminary
beside a Final Report; two transactions are enough for each pair of commands
that race. Three operations give an edit in flight, one that waits for it and one that
supersedes the second, or an edit, a Potential Finding and the submission behind them. Two requests and two replicas
give a request that overtakes a stale one and a reactivation after a deactivation;
one call at a time is enough for a login, or an authentication, to race each of
them, since calls share nothing but the rows. Three replicas and four faults give
two late replicas beside a current one, and a crash between object and release
followed by an upgrade. `MaxFaults`, `MaxCAPs`, `MaxNumber`, `MaxOps`, `MaxOffice` and `MaxRequests`
are the only bounds that the
program does not have; leases may still expire without limit once nobody holds them. Deadlock is not
checked: a Finding nobody acts on, or a lane that is empty, rests.

Five runs find a disagreement of the code with a document or comment of the
repository; `PROJECT.json` quotes the lines. In `datafeed_tombstone` a run
selects an event, the event is tombstoned, and the claim of the replay lane, which
does not look at tombstones, leases it. In `audit_final` a Potential Finding that
was still undecided is converted while or after the Final Report is decided. In
`audit_reopen` the reopening looks for reports before one is committed and the
report's creation reads the checklist before the reopening commits. In
`fieldsync_superseded` a second edit waits for the first, which is in flight and then
fails retryably, and a third supersedes both. The loop that hands the dependents of
superseded rows over to the new edit (`field-repository.ts:763-775`) also meets the
superseded second row, which names the first, and sets it to
`BLOCKED_ON_DEPENDENCY` on the third; the acknowledgement of the third rebases and
releases it, so the older edit is sent last and overwrites the newer one. In
`users_reactivated` nothing clears the mark a deactivation leaves on the identity.

Some behaviour is modelled and noted among the hazards without a property,
because no document says what should hold: one missed observation of the provider
refuses the logins of everybody with that membership until something repairs it, and a
request that became stale after its comparison changes the provider and stays
RUNNING.

Two properties hold only with an exception, which is the behaviour to know of. A
refused operation (`REJECTED` is terminal, `field-repository.ts:1763`) never releases what waits
for it, nor does one in conflict unless the response is edited again: those dependents stay
blocked for as long as the package does, and `QueueSettles` excepts exactly them (`HeldUp`, the
least set that contains what waits for such a row, directly or through others; rows
that only wait for each other would violate it). And after two faults, a lease that was outlived
and a render that fails, the unfenced `recordFailure` leaves the job of a released
version FAILED for ever; the API returns that status with the released document
(`httpapi/api_projections.go:790-803`) and the web page then withholds the download. `StatusesAgree`
says that fewer faults are not enough; with `faults >= 3` in its place TLC finds it violated.

## 4. Fairness

`DataFeed` assumes weak fairness of the live worker's claim, delivery and record
(`cmd/data-feed-worker/main.go` polls on a ticker, the HTTP client and the
transactions have deadlines) and of lease expiry (time passes). Replay workers
are started by an operator and get none. `FindingLifecycle` assumes the same of
the replicas of the scan worker and of lease expiry; no auditee and no inspector
is obliged to do anything. `FieldSync` assumes that
foreground triggers keep coming and now and then find every backoff (at most 300
s) run out, hence strong fairness of a due cycle, that a started cycle runs on and
that the server answers. `UserLifecycle` assumes that every replica polls and that
row locks are granted in turn: a worker step that waits for sessions in use is
enabled again and again, hence strong fairness of the worker's steps, and calls of
browsers end. `DeliveryWorkers` assumes that a replica goes on with what it has in
hand, that leases run out, and that a message which is available again and again
is claimed. A failed message sorts behind the others, which is why the messages modelled
cannot keep the claims from each other; the assumption does leave out a message at the head of
the queue whose snapshot cannot be decoded, and an evidence step that fails on every pass of the
worker's main loop, either of which would keep the claims from all that come after. Faults are bounded and never fair: the liveness
properties say that work ends once crashes and slow passes end, not that they do.

## 5. What is proved

The proofs hold for every set of events, runs, workers, Findings, uploads, replicas, responses, report
versions, transactions, requests, sessions, documents and e-mails, every batch size, attempt limit and number of faults. The assumptions are those
named in the modules: events are numbers, lanes are distinct, limits are numbers (positive where the code
needs it), `None` is no identifier.

Every invariant and action property that a passing run checks is the property of a
theorem, and so is every refinement: each component implements its promise.

| promise | theorem | what the mapping hides |
|---|---|---|
| `DeliveryPromise` | `FeedKeepsPromise` | leases, generations, batches, attempts, answers of the receiver |
| `FindingPromise` | `LifecycleKeepsPromise` (`FindingLifecycleProofs`) | uploads and versions, the scan worker with its leases and attempts, the statuses within one party's court |
| `AuditPromise` | `AuditKeepsPromise` | transactions in flight, row locks, Potential Findings that supersede each other, the two reads of a snapshot |
| `FieldPromise` | `DeviceKeepsPromise` | the outbox, dependencies and supersessions, the engine, requests and answers on the network, pages and cursors |
| `MembershipPromise` | `LifecycleKeepsPromise` (`MembershipPromiseProofs`) | claims, comparisons, the provider, invitations, logins and observations in progress |
| `OutcomePromise` | `WorkersKeepPromise` | leases, attempts, what a replica has in hand, renderers |

Each proof has the same plan: the initial states map to the promise's; one lemma for each
action that shows says which step of the promise it is; all others are stutters because
the rows that the mapping reads do not change. The invariant of the component is what
makes the guards of the promise true: it is where a late replica, a stale read or a
repeated request is shown to have no effect that the promise does not allow.

`DataFeedProofs` proves every invariant of the `datafeed` run, that nothing is acknowledged that the receiver
lacks (`NoFalseAcknowledgement`), and the refinement. Properties alone are not
inductive: that a lease is settled once depends on generations. The inductive invariant `IInv` adds that a
generation in a worker's memory is never above the table's (`HeldIsPast`), that two workers of a lane never
have the same one for a row (`LeaseIsUnique`), that the current one belongs to a leased row and was read with
its present attempt count (`CurrentIsLeased`), that the history holds no generation a worker may still settle
(`HistoryIsPast`), and that a success in memory is stored (`AnswersAreStored`). That attempts are counted exactly (`CountsMatch`) is inductive on
top of it: a retry adds one record, and a new one; with `IInv` it gives `RetriesStayInBudget`. Each action gets a lemma that it preserves `IInv`;
`FeedKeepsPromise` maps each step to a step of the promise or a stutter.

`FindingLifecycleProofs` proves every property of the `finding` run but its liveness. Its `IInv` adds the history behind a status: which
session became which version (`SessionsMakeVersions`), that canonical copies are
of clean versions (`CleanIsCanonical`), what a replica may hold (`JobsAreVersions`),
and which decisions stand at each status (`CAPHistory`, `EvidenceHistory`).
`OutcomesAreFinal` is the action property, from the invariant and a lemma per
step.

`AuditReportsProofs` proves every property of the `audit` run. What makes them
inductive is what a transaction in flight may rely on: a row it has locked is
still as it was read and no other transaction has it (`RaisingFits`,
`DecidingFits`, `ResponseLocks`, `ApprovalLocks`), an id that is being inserted
is in nobody else's hands (`CreatingFits`), what it collected for a snapshot are
Findings, and a Final Report whose open Findings were counted names closed ones
(`SnapshotsInv`). `FamiliesInv` strengthens `FamiliesDoNotMix` from versions that
were decided on to versions that are being decided on. `LineageOfResponse` is the
one fact about the recursive query: the Potential Findings of a response are
closed under what they supersede, so a lineage, the least closed set, stays on
its response. The frame lemmas say which steps a part of the invariant is
indifferent to, so that each action's lemma argues about what it changes.
TLC checked this invariant too, on the instance of the `audit` run.

`AuditPromiseProofs` needs one fact more (`FrozenInv`, the theorem `SnapshotsAreTaken`): what a version names
it also announces, all of that was raised before the snapshot was taken, and a Final Report
is created and counted only after a Preliminary Report was issued, which no later step undoes (`IssuedStays`).
The matter of a question is that of its one Potential Finding that was not superseded,
so that a returned one and its successor are one matter raised again (`OneMoves`); `DraftPromise` and
`DecidePromise` are the two steps whose reads another transaction could have overtaken.

`FieldSyncProofs` proves every safety property of the `fieldsync` run. The hard part is that a
row of the outbox keeps changing after it was queued (`Rewired`, `Released`), while copies of its request
are at the server or still on the way. `IInv` says of a row that was sent that it waits for nothing, so that
its base never moves again (`SentFits`); of what a row waits for, that it is in the outbox and has neither been
acknowledged nor given way (`RowsFit`, `CausesAreLive`; it may have been refused); that the newest edit is never superseded and the local
response points at it (`ResponseFits`); that a submission waits for the newest edit before it, until the
server has that edit or refused it (`SubmissionFits`); that the phase of the engine fits the row it works on
(`EngineFits`); and that what the device believes acknowledged is stored (`AcknowledgedIsStored`). Every
write of the outbox goes through the lemmas `RowRevised` and `OutboxRevised`. The latest of a set of edits
exists by the well-foundedness of `<` on the naturals, without an induction over operators.
For the refinement, `HandledOnce` says that the server's handling of a request, however late it comes
and how often, is one operation taking effect or nothing: an acceptance that was not stored before comes from the
command with all authority (`AcceptedByCommand`), and the log is what took effect (`EffectAdded`).
That an acknowledgement on the device is of something that took effect is `AcknowledgedIsStored` and
`EngineFits`: the answer in the engine's hands is never newer than the log.

`UserLifecycleProofs` proves `TypeOK`, `LiveSessionsAreCurrent` and `ProviderAgrees`. The
invariant relates what each actor read to what it may still rely on: a worker's copy of the request
(`JobsFit`, `AttemptsRemain`), a call that holds the lock of its session (`CallsFit`), the sync row, which
follows the latest version (`SyncIsLatest`, `InvitationsFit`). For `ProviderAgrees` the only requests that
touch the provider are those about authority (`TouchedHaveAuthority`), and while one of the latest revision is
alone unsettled, the account still has what that request is not about (`OthersKept`) and, once it was
applied, is what the version it will append asks for (`AppliedIsWanted`). In `MembershipPromiseProofs` a request
that succeeds is one step, with the version it appends and the end of all live sessions; the guard that it was
filed for the version it replaces is the comparison in `AppendVersion`, under the lock that `Validate` lacks.

`DeliveryWorkersProofs` proves `TypeOK` and `OutcomesAgree`, and that attempts are paid for:
`AttemptsArePaidFor` bounds an e-mail's attempts by the faults that happened plus one. Its invariant says
what a replica may hold (`HandsFit`), that a settled row has no lease (`SettledIsFree`), that a render about
to be released is the stored object (`VersionsAgree`), that an e-mail about to be reported was sent
(`EmailsAgree`), and that each attempt but the one at work was paid for by a fault (`Budget`).
For the status of a render job it is strengthened to `StatusInv`: that a second replica is at work on a document
(not `Alone`), or that its renders are `Mixed` or one is `Failing`, costs a fault each, and that both hold costs two
(`PaidFor`). A released document has no lease (`ReleasedIsFree`), so a replica that still fails it is not
alone, and both faults were spent. The lemmas `NothingBroken` and `OneThingBroken` carry this through every step.
The refinement rests on the same facts: a release is of the object that is stored, and a report of delivery
comes from a replica that saw the e-mail accepted.

TLC checked these three invariants too, on the instances of the runs, before they were proved.

Only model-checked: the liveness properties `LiveSettles`, `ScanAnswers`, `QueueSettles`, `RequestsSettle`
and `JobsSettle`, and the counterexamples of the runs that expect a violation. Liveness under fairness and
ENABLED, induction over data and RECURSIVE operators are out of the reach of the prover in use; no module here
declares a RECURSIVE operator, so that all can be proved about.

## 6. Plan

1. `FieldSync`: attachments, tombstones and resnapshots; several responses.
2. `UserLifecycle` with provisioning, recovery and the resend limit; its
   composition with the grants of `FieldSync`.
3. Inspection attachments in the scan worker; the stored answers of repeated
   commands; planning and assignments up to the start of an inspection.

## 7. What is not modelled

Authority (who may act: roles, assignments, organizations) is abstracted to
"somebody entitled does". Wording, hashes, payloads, telemetry and paging are
left out. Expired or mismatching uploads change nothing and are no actions.
Components without a module are listed in `PROJECT.json` with the reason.
