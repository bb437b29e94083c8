--------------------------- MODULE FindingLifecycle ---------------------------
(***************************************************************************)
(* A Finding from its conversion to its closure: CAP revisions and their   *)
(* review, evidence uploads, the worker processes that scan an uploaded    *)
(* version, the review of the scanned version and the two ways to close    *)
(* (apps/api/internal/application, internal/evidence,                      *)
(* internal/worker/evidence).                                              *)
(*                                                                         *)
(* An upload session becomes one evidence version with one                 *)
(* evidence.scan_requested message, so one identifier names all three.     *)
(* All worker replicas run under the same lease owner, "evidence-worker":  *)
(* a lease says that a replica holds the message and not which one.        *)
(***************************************************************************)
EXTENDS Naturals, FiniteSets

CONSTANTS
    Findings,
    Uploads,          \* upload sessions
    Workers,          \* replicas of the scan worker
    None,             \* no version, no message
    MaximumAttempts,  \* Worker.maximumAttempts
    MaxCAPs,          \* bound of the model: CAP revisions of one finding
    MaxFaults         \* bound of the model: crashes, aborts and slow scans

ASSUME BoundsAssumption ==
    MaximumAttempts \in Nat \ {0} /\ MaxCAPs \in Nat /\ MaxFaults \in Nat

ASSUME NoneAssumption == None \notin Uploads \cup Findings

AwaitsCAP == {"WAITING_FOR_CAP", "CAP_REJECTED", "CAP_MORE_INFORMATION_REQUESTED"}
AwaitsEvidence == {"EVIDENCE_REQUIRED", "EVIDENCE_MORE_INFORMATION_REQUESTED"}
AwaitsReview == {"PENDING_CAA_REVIEW", "EVIDENCE_SUBMITTED"}
Status == {"ABSENT", "CAP_SUBMITTED", "PENDING_CLOSURE", "CLOSED"}
            \cup AwaitsCAP \cup AwaitsEvidence \cup AwaitsReview

Judged == {"CLEAN", "QUARANTINED"}
Settled == Judged \cup {"FAILED"}

VARIABLES
    status,       \* findings.status
    revision,     \* findings.revision
    capRequired, evidenceRequired,  \* the findings that require a CAP, evidence
    caps,         \* the number of CAP revisions of each finding
    capDecisions, evidenceDecisions, \* review_decisions of the two entity types
    session,      \* upload_sessions.upload_state
    of,           \* the finding of an upload
    expected,     \* expected_aggregate_revision of an upload
    latest,       \* the evidence version of each finding with the highest number
    scan,         \* evidence_version_states.scan_state, "NONE" before completion
    canonical,    \* versions with a canonical_object_metadata_id
    bucket,       \* versions with an object in the canonical bucket
    delivered, failed, \* scan messages with a delivered_at, a terminal_state
    lease,        \* lease of a scan message: free, held or expired
    attempts,     \* attempt_count of a scan message
    pc, job, tries, \* where a replica stands, its claim and the claim's attempt
    faults

finding == <<status, revision, capRequired, evidenceRequired>>
decisions == <<capDecisions, evidenceDecisions>>
uploads == <<session, of, expected>>
evidence == <<latest, scan, canonical>>
outbox == <<delivered, failed, lease, attempts>>
memory == <<pc, job, tries>>
vars == <<finding, caps, decisions, uploads, evidence, bucket, outbox,
          memory, faults>>

Init ==
    /\ status = [f \in Findings |-> "ABSENT"]
    /\ revision = [f \in Findings |-> 0]
    /\ capRequired = {}
    /\ evidenceRequired = {}
    /\ caps = [f \in Findings |-> 0]
    /\ capDecisions = {}
    /\ evidenceDecisions = {}
    /\ session = [u \in Uploads |-> "NONE"]
    /\ of = [u \in Uploads |-> None]
    /\ expected = [u \in Uploads |-> 0]
    /\ latest = [f \in Findings |-> None]
    /\ scan = [u \in Uploads |-> "NONE"]
    /\ canonical = {}
    /\ bucket = {}
    /\ delivered = {}
    /\ failed = {}
    /\ lease = [u \in Uploads |-> "free"]
    /\ attempts = [u \in Uploads |-> 0]
    /\ pc = [w \in Workers |-> "idle"]
    /\ job = [w \in Workers |-> None]
    /\ tries = [w \in Workers |-> 0]
    /\ faults = 0

-----------------------------------------------------------------------------
(* Commands on a finding.  Each is one transaction that locks the finding   *)
(* and requires the revision its caller saw, so a command of an out-of-date *)
(* or repeated caller changes nothing.                                      *)

\* The finding moves to its next status under the next revision.
Advance(f, next) ==
    /\ status' = [status EXCEPT ![f] = next]
    /\ revision' = [revision EXCEPT ![f] = revision[f] + 1]
    /\ UNCHANGED <<capRequired, evidenceRequired>>

\* The Lead Inspector converts a Potential Finding.
ConvertPotentialFinding(f) ==
    /\ status[f] = "ABSENT"
    /\ \E needsCAP, needsEvidence \in BOOLEAN :
          /\ capRequired' = IF needsCAP THEN capRequired \cup {f} ELSE capRequired
          /\ evidenceRequired' = IF needsEvidence THEN evidenceRequired \cup {f}
                                                  ELSE evidenceRequired
          /\ status' = [status EXCEPT ![f] =
                IF needsCAP THEN "WAITING_FOR_CAP"
                ELSE IF needsEvidence THEN "EVIDENCE_REQUIRED" ELSE "PENDING_CLOSURE"]
    /\ revision' = [revision EXCEPT ![f] = 1]
    /\ UNCHANGED <<caps, decisions, uploads, evidence, bucket, outbox, memory, faults>>

\* The auditee appends a CAP revision.
SubmitCAP(f) ==
    /\ status[f] \in AwaitsCAP
    /\ caps[f] < MaxCAPs
    /\ caps' = [caps EXCEPT ![f] = caps[f] + 1]
    /\ Advance(f, "CAP_SUBMITTED")
    /\ UNCHANGED <<decisions, uploads, evidence, bucket, outbox, memory, faults>>

\* Broken: the review asks for a CAP and not for one that is pending review.
CAPIsPendingAny(f) == caps[f] > 0 /\ status[f] # "CLOSED"

\* A CAP revision keeps its status, SUBMITTED, for ever: only the status of
\* the finding tells whether its latest revision is still to be reviewed.
CAPIsPending(f) == status[f] = "CAP_SUBMITTED"

\* Broken: an accepted CAP leads to a status of its own, one too many.
AfterCAPAccepted(f, decision) ==
    CASE decision = "ACCEPT" -> "CAP_ACCEPTED"
      [] decision = "REJECT" -> "CAP_REJECTED"
      [] decision = "REQUEST_MORE_INFORMATION" -> "CAP_MORE_INFORMATION_REQUESTED"

\* Broken: an accepted CAP asks nobody for the evidence.
AfterCAPClosure(f, decision) ==
    CASE decision = "ACCEPT" -> "PENDING_CLOSURE"
      [] decision = "REJECT" -> "CAP_REJECTED"
      [] decision = "REQUEST_MORE_INFORMATION" -> "CAP_MORE_INFORMATION_REQUESTED"

\* The status a review of the latest CAP revision leads to.
AfterCAP(f, decision) ==
    CASE decision = "ACCEPT" -> IF f \in evidenceRequired THEN "EVIDENCE_REQUIRED"
                                                          ELSE "PENDING_CLOSURE"
      [] decision = "REJECT" -> "CAP_REJECTED"
      [] decision = "REQUEST_MORE_INFORMATION" -> "CAP_MORE_INFORMATION_REQUESTED"

ReviewCAP(f) ==
    /\ CAPIsPending(f)
    /\ \E decision \in {"ACCEPT", "REJECT", "REQUEST_MORE_INFORMATION"} :
          /\ Advance(f, AfterCAP(f, decision))
          /\ capDecisions' = capDecisions \cup
                {[finding |-> f, cap |-> caps[f], decision |-> decision,
                  at |-> revision[f]]}
    /\ UNCHANGED <<caps, evidenceDecisions, uploads, evidence, bucket, outbox,
                   memory, faults>>

\* A Department Manager closes a finding that needs no evidence.
AuthorizedCloseFinding(f) ==
    /\ status[f] = "PENDING_CLOSURE"
    /\ Advance(f, "CLOSED")
    /\ UNCHANGED <<caps, decisions, uploads, evidence, bucket, outbox, memory, faults>>

-----------------------------------------------------------------------------
(* Upload of evidence. *)

\* Begin opens a session for the finding at its present revision; nothing
\* stops a second session for the same revision.
Begin(u, f) ==
    /\ session[u] = "NONE"
    /\ status[f] \in AwaitsEvidence
    /\ session' = [session EXCEPT ![u] = "PENDING"]
    /\ of' = [of EXCEPT ![u] = f]
    /\ expected' = [expected EXCEPT ![u] = revision[f]]
    /\ UNCHANGED <<finding, caps, decisions, evidence, bucket, outbox, memory, faults>>

\* Broken: a session is completed without a look at the finding's status and
\* revision.
SubmissionBoundaryAny(u) == status[of[u]] \notin {"CLOSED", "ABSENT"}

\* The finding has not changed since the session began.
SubmissionBoundary(u) ==
    /\ revision[of[u]] = expected[u]
    /\ status[of[u]] \in AwaitsEvidence

\* Complete, for an object that matches its declaration before the session
\* expires: a new version, its scan message and the finding in one transaction.
Complete(u) ==
    /\ session[u] = "PENDING"
    /\ SubmissionBoundary(u)
    /\ session' = [session EXCEPT ![u] = "COMPLETED"]
    /\ latest' = [latest EXCEPT ![of[u]] = u]
    /\ scan' = [scan EXCEPT ![u] = "PENDING"]
    /\ Advance(of[u], "EVIDENCE_SUBMITTED")
    /\ UNCHANGED <<caps, decisions, of, expected, canonical, bucket, outbox,
                   memory, faults>>

\* Broken: the review does not ask for a clean scan.
ReviewableUnscanned(f) == latest[f] # None /\ status[f] \in AwaitsReview

\* A review is of the latest version, when its scan is clean.
Reviewable(f) ==
    /\ latest[f] # None
    /\ scan[latest[f]] = "CLEAN"
    /\ status[f] \in AwaitsReview

ReviewEvidence(f) ==
    /\ Reviewable(f)
    /\ \E decision \in {"CLOSE", "PARTIALLY_CLOSE", "NOT_CLOSE",
                        "REQUEST_MORE_INFORMATION"} :
          /\ Advance(f, IF decision = "CLOSE" THEN "CLOSED"
                        ELSE "EVIDENCE_MORE_INFORMATION_REQUESTED")
          /\ evidenceDecisions' = evidenceDecisions \cup
                {[upload |-> latest[f], decision |-> decision, at |-> revision[f]]}
    /\ UNCHANGED <<caps, capDecisions, uploads, evidence, bucket, outbox,
                   memory, faults>>

-----------------------------------------------------------------------------
(* The scan worker. *)

\* A replica at work on a message.
Works(w, u) == pc[w] # "idle" /\ job[w] = u

Become(w, next) ==
    /\ pc' = [pc EXCEPT ![w] = next]
    /\ UNCHANGED <<job, tries>>

Rest(w) ==
    /\ pc' = [pc EXCEPT ![w] = "idle"]
    /\ job' = [job EXCEPT ![w] = None]
    /\ tries' = [tries EXCEPT ![w] = 0]

\* Broken: a message whose lease expired is never claimed again.
ClaimableFree(u) ==
    /\ scan[u] # "NONE"
    /\ u \notin delivered \cup failed
    /\ lease[u] = "free"

\* A message that no replica has settled and none has under lease.  The
\* number of attempts is no part of it.
Claimable(u) ==
    /\ scan[u] # "NONE"
    /\ u \notin delivered \cup failed
    /\ lease[u] # "held"

claimNext(w) ==
    /\ pc[w] = "idle"
    /\ \E u \in Uploads :
          /\ Claimable(u)
          /\ lease' = [lease EXCEPT ![u] = "held"]
          /\ attempts' = [attempts EXCEPT ![u] = attempts[u] + 1]
          /\ job' = [job EXCEPT ![w] = u]
          /\ tries' = [tries EXCEPT ![w] = attempts[u] + 1]
    /\ pc' = [pc EXCEPT ![w] = "claimed"]
    /\ UNCHANGED <<finding, caps, decisions, uploads, evidence, bucket,
                   delivered, failed, faults>>

\* The version is judged already: its message is marked without a lease.
markDelivered(w) ==
    /\ pc[w] = "claimed"
    /\ scan[job[w]] \in Judged
    /\ delivered' = delivered \cup {job[w]}
    /\ lease' = [lease EXCEPT ![job[w]] = IF job[w] \in delivered THEN @ ELSE "free"]
    /\ Rest(w)
    /\ UNCHANGED <<finding, caps, decisions, uploads, evidence, bucket,
                   failed, attempts, faults>>

\* The object is opened and handed to the scanner, outside any transaction.
Open(w) ==
    /\ pc[w] = "claimed"
    /\ scan[job[w]] \notin Judged
    /\ Become(w, "scanning")
    /\ UNCHANGED <<finding, caps, decisions, uploads, evidence, bucket, outbox, faults>>

\* The scanner or the copy fails, or the scanner gives a verdict.  Signatures
\* are updated between scans, so two scans may disagree.  A clean object is
\* copied to the canonical bucket, where an earlier copy is accepted as one.
Scan(w) ==
    /\ pc[w] = "scanning"
    /\ \E verdict \in {"error", "clean", "infected"} :
          /\ Become(w, verdict)
          /\ bucket' = IF verdict = "clean" THEN bucket \cup {job[w]} ELSE bucket
    /\ UNCHANGED <<finding, caps, decisions, uploads, evidence, outbox, faults>>

\* Broken: the transaction does not ask for the lease.
LeaseHeldAny(u) == u \notin delivered

\* markDeliveredTx: the message is still under a lease of "evidence-worker",
\* this replica's or another's, expired or not.
LeaseHeld(u) == u \notin delivered /\ lease[u] # "free"

Verdict(w) == IF pc[w] = "clean" THEN "CLEAN" ELSE "QUARANTINED"

\* Broken: an infected version goes to review.
AfterScanAlways(w) == "PENDING_CAA_REVIEW"

AfterScan(w) ==
    IF pc[w] = "clean" THEN "PENDING_CAA_REVIEW"
    ELSE "EVIDENCE_MORE_INFORMATION_REQUESTED"

\* The finding leaves EVIDENCE_SUBMITTED, and no other status, for next.
Answer(f, next) ==
    IF status[f] = "EVIDENCE_SUBMITTED" THEN Advance(f, next) ELSE UNCHANGED finding

\* The version, its finding and its message are settled in one transaction; of
\* a version that was judged meanwhile only the message is marked.
finalizeEvidence(w) ==
    LET u == job[w] IN
    /\ pc[w] \in {"clean", "infected"}
    /\ LeaseHeld(u)
    /\ IF scan[u] \in Judged
         THEN UNCHANGED <<scan, canonical, finding>>
         ELSE /\ scan' = [scan EXCEPT ![u] = Verdict(w)]
              /\ canonical' = IF pc[w] = "clean" THEN canonical \cup {u} ELSE canonical
              /\ Answer(of[u], AfterScan(w))
    /\ delivered' = delivered \cup {u}
    /\ lease' = [lease EXCEPT ![u] = "free"]
    /\ Rest(w)
    /\ UNCHANGED <<caps, decisions, uploads, latest, bucket, failed, attempts, faults>>

\* The lease was lost, and the transaction rolls back.
finalizeStale(w) ==
    /\ pc[w] \in {"clean", "infected"}
    /\ ~LeaseHeld(job[w])
    /\ Become(w, "error")
    /\ UNCHANGED <<finding, caps, decisions, uploads, evidence, bucket, outbox, faults>>

\* The database aborts the transaction, as it does on a deadlock with a
\* replica that records a failure of the same message.
FinalizeAborts(w) ==
    /\ pc[w] \in {"clean", "infected"}
    /\ faults < MaxFaults
    /\ faults' = faults + 1
    /\ Become(w, "error")
    /\ UNCHANGED <<finding, caps, decisions, uploads, evidence, bucket, outbox>>

Exhausted(n) == n >= MaximumAttempts

\* A failure before the last attempt gives the message back, whoever has
\* leased it meanwhile.
recordFailure(w) ==
    /\ pc[w] = "error"
    /\ ~Exhausted(tries[w])
    /\ lease' = [lease EXCEPT ![job[w]] = IF job[w] \in delivered THEN @ ELSE "free"]
    /\ Rest(w)
    /\ UNCHANGED <<finding, caps, decisions, uploads, evidence, bucket,
                   delivered, failed, attempts, faults>>

\* Broken: the message is given up while its version stays pending.
PendingScanNever(u) == FALSE

PendingScan(u) == scan[u] = "PENDING"

\* A failure of the last attempt ends the message and the version.
recordTerminalFailure(w) ==
    LET u == job[w] IN
    /\ pc[w] = "error"
    /\ Exhausted(tries[w])
    /\ failed' = IF u \in delivered THEN failed ELSE failed \cup {u}
    /\ lease' = [lease EXCEPT ![u] = IF u \in delivered THEN @ ELSE "free"]
    /\ IF PendingScan(u)
         THEN /\ scan' = [scan EXCEPT ![u] = "FAILED"]
              /\ Answer(of[u], "EVIDENCE_MORE_INFORMATION_REQUESTED")
         ELSE UNCHANGED <<scan, finding>>
    /\ Rest(w)
    /\ UNCHANGED <<caps, decisions, uploads, latest, canonical, bucket,
                   delivered, attempts, faults>>

\* A replica dies, or cannot record its failure.
Crash(w) ==
    /\ pc[w] # "idle"
    /\ faults < MaxFaults
    /\ faults' = faults + 1
    /\ Rest(w)
    /\ UNCHANGED <<finding, caps, decisions, uploads, evidence, bucket, outbox>>

\* The lease of one minute ends: of a dead replica always, of one at work when
\* its scan, which may take two minutes, is slow.
LeaseExpires(u) ==
    /\ lease[u] = "held"
    /\ lease' = [lease EXCEPT ![u] = "expired"]
    /\ IF \E w \in Workers : Works(w, u)
         THEN faults < MaxFaults /\ faults' = faults + 1
         ELSE faults' = faults
    /\ UNCHANGED <<finding, caps, decisions, uploads, evidence, bucket,
                   delivered, failed, attempts, memory>>

Next ==
    \/ \E f \in Findings :
          \/ ConvertPotentialFinding(f) \/ SubmitCAP(f) \/ ReviewCAP(f)
          \/ ReviewEvidence(f) \/ AuthorizedCloseFinding(f)
          \/ \E u \in Uploads : Begin(u, f)
    \/ \E u \in Uploads : Complete(u) \/ LeaseExpires(u)
    \/ \E w \in Workers :
          \/ claimNext(w) \/ markDelivered(w) \/ Open(w) \/ Scan(w)
          \/ finalizeEvidence(w) \/ finalizeStale(w)
          \/ FinalizeAborts(w) \/ recordFailure(w) \/ recordTerminalFailure(w)
          \/ Crash(w)

Spec == Init /\ [][Next]_vars

-----------------------------------------------------------------------------
(* Fairness.  A replica polls for ever (cmd/worker/main.go), each of its     *)
(* steps ends or fails under a timeout, and a lease ends by the clock.  No   *)
(* auditee and no inspector is obliged to act, and nothing has to fail.      *)

Settles(w) ==
    \/ finalizeEvidence(w) \/ finalizeStale(w)
    \/ recordFailure(w) \/ recordTerminalFailure(w)

Fairness ==
    /\ \A w \in Workers :
          /\ WF_vars(claimNext(w))
          /\ WF_vars(markDelivered(w) \/ Open(w))
          /\ WF_vars(Scan(w))
          /\ WF_vars(Settles(w))
    /\ \A u \in Uploads : WF_vars(LeaseExpires(u))

FairSpec == Spec /\ Fairness

-----------------------------------------------------------------------------
(* Properties. *)

CAPDecision ==
    [finding : Findings, cap : 1..MaxCAPs,
     decision : {"ACCEPT", "REJECT", "REQUEST_MORE_INFORMATION"}, at : Nat]
EvidenceDecision ==
    [upload : Uploads, decision : {"CLOSE", "PARTIALLY_CLOSE", "NOT_CLOSE",
                                   "REQUEST_MORE_INFORMATION"}, at : Nat]

\* The tables and the replicas hold values of the program.
TypeOK ==
    /\ status \in [Findings -> Status]
    /\ revision \in [Findings -> Nat]
    /\ capRequired \in SUBSET Findings
    /\ evidenceRequired \in SUBSET Findings
    /\ caps \in [Findings -> 0..MaxCAPs]
    /\ capDecisions \in SUBSET CAPDecision
    /\ evidenceDecisions \in SUBSET EvidenceDecision
    /\ session \in [Uploads -> {"NONE", "PENDING", "COMPLETED"}]
    /\ of \in [Uploads -> Findings \cup {None}]
    /\ expected \in [Uploads -> Nat]
    /\ latest \in [Findings -> Uploads \cup {None}]
    /\ scan \in [Uploads -> {"NONE", "PENDING"} \cup Settled]
    /\ canonical \in SUBSET Uploads
    /\ bucket \in SUBSET Uploads
    /\ delivered \in SUBSET Uploads
    /\ failed \in SUBSET Uploads
    /\ lease \in [Uploads -> {"free", "held", "expired"}]
    /\ attempts \in [Uploads -> Nat]
    /\ pc \in [Workers -> {"idle", "claimed", "scanning", "clean", "infected", "error"}]
    /\ job \in [Workers -> Uploads \cup {None}]
    /\ tries \in [Workers -> Nat]
    /\ faults \in 0..MaxFaults

\* A Finding stands at EVIDENCE_SUBMITTED exactly while its latest version
\* waits for a scan that is still to come: no older version is ever pending,
\* the message of a pending version is not settled, and so neither a second
\* upload nor a review nor a lost scan leaves the Finding behind
\* (upload_service.go Complete, worker.go finalizeEvidence and recordFailure).
SubmittedAwaitsScan ==
    /\ \A f \in Findings :
          status[f] = "EVIDENCE_SUBMITTED"
             <=> latest[f] # None /\ scan[latest[f]] = "PENDING"
    /\ \A u \in Uploads :
          scan[u] = "PENDING" => latest[of[u]] = u /\ u \notin delivered \cup failed

\* What an inspector is asked to review is the latest version, its last word
\* is a clean scan, and the object under review is in the canonical bucket
\* (worker.go processEvidence copies before finalizeEvidence records).
ReviewSeesCleanLatest ==
    \A f \in Findings : status[f] = "PENDING_CAA_REVIEW" =>
        /\ latest[f] # None
        /\ scan[latest[f]] = "CLEAN"
        /\ latest[f] \in canonical \cap bucket

\* A review of this version decided to close the Finding.
ClosedBy(u) ==
    \E d \in evidenceDecisions : d.upload = u /\ d.decision = "CLOSE"

Accepted(f) ==
    \E d \in capDecisions : d.finding = f /\ d.cap = caps[f] /\ d.decision = "ACCEPT"

\* A closed Finding had its latest CAP revision accepted if it required a CAP,
\* and if it required evidence its latest version was scanned clean and closed
\* by a review: no path through rejections, requests for more information,
\* failed scans and repeated uploads reaches CLOSED without them
\* (canonical_transitions.go, findings/state.go).
ClosureIsJustified ==
    \A f \in Findings : status[f] = "CLOSED" =>
        /\ f \in capRequired => Accepted(f)
        /\ f \in evidenceRequired =>
              /\ latest[f] # None
              /\ scan[latest[f]] = "CLEAN"
              /\ latest[f] \in bucket
              /\ ClosedBy(latest[f])

\* Nobody decides twice on one CAP revision or on one evidence version,
\* although neither row records that it was decided.
DecidedOnce ==
    /\ \A d, e \in capDecisions :
          d.finding = e.finding /\ d.cap = e.cap => d = e
    /\ \A d, e \in evidenceDecisions : d.upload = e.upload => d = e

\* The message tells what became of the version: delivered with a verdict,
\* failed with a failure, and neither before; a settled message has no lease.
\* Two replicas on one message, with a lease that names neither, keep it so.
OutboxMatchesScan ==
    \A u \in Uploads :
        /\ u \in delivered <=> scan[u] \in Judged
        /\ u \in failed <=> scan[u] = "FAILED"
        /\ scan[u] \in Settled => lease[u] = "free"

\* A verdict or a failure is the last word on a version: a slow replica never
\* overwrites what another has settled.
ScanOutcomeFinal ==
    [][\A u \in Uploads : scan[u] \in Settled => scan'[u] = scan[u]]_vars

\* The party that has to act on a Finding of a status.
CourtOf(st) ==
    CASE st = "ABSENT" -> "none"
      [] st \in AwaitsCAP \cup AwaitsEvidence -> "auditee"
      [] st = "EVIDENCE_SUBMITTED" -> "scan"
      [] st \in {"CAP_SUBMITTED", "PENDING_CAA_REVIEW", "PENDING_CLOSURE"} -> "authority"
      [] st = "CLOSED" -> "closed"

court == [f \in Findings |-> CourtOf(status[f])]

\* What the authority has not approved yet of what the Finding requires.
outstanding == [f \in Findings |->
    {need \in {"cap", "evidence"} :
        \/ need = "cap" /\ f \in capRequired /\ ~Accepted(f)
        \/ need = "evidence" /\ f \in evidenceRequired /\ ~ClosedBy(latest[f])}]

Promise == INSTANCE FindingPromise

\* Each step of the program is a step of the promise or none of its business:
\* a Finding is in one court at a time, changes it by the moves of the promise
\* only, and is closed when all it requires is approved.
KeepsPromise == Promise!Spec

\* A submitted version does not hold its Finding for ever, whatever the scanner
\* answers, when crashes and slow scans come to an end.
ScanAnswers ==
    \A f \in Findings :
        status[f] = "EVIDENCE_SUBMITTED" ~> status[f] # "EVIDENCE_SUBMITTED"

=============================================================================
