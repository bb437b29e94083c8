------------------------ MODULE FindingLifecycleProofs ------------------------
(* Theorems about FindingLifecycle, for every set of findings, uploads and   *)
(* replicas.                                                                 *)
EXTENDS FindingLifecycle, TLAPS

(***************************************************************************)
(* The inductive invariant.  The properties speak of statuses; a status    *)
(* says enough only with the history that led to it: which upload became   *)
(* which version, which decisions stand, what the replicas hold.           *)
(***************************************************************************)
SessionsMakeVersions ==
    /\ \A u \in Uploads :
          /\ of[u] = None <=> session[u] = "NONE"
          /\ scan[u] = "NONE" <=> session[u] # "COMPLETED"
    /\ \A f \in Findings : latest[f] # None =>
          of[latest[f]] = f /\ scan[latest[f]] # "NONE"

CleanIsCanonical ==
    \A u \in Uploads :
        /\ u \in canonical <=> scan[u] = "CLEAN"
        /\ scan[u] = "CLEAN" => u \in bucket

JobsAreVersions ==
    \A w \in Workers : pc[w] # "idle" =>
        /\ job[w] \in Uploads
        /\ scan[job[w]] # "NONE"
        /\ pc[w] = "clean" => job[w] \in bucket

AbsentIsNew ==
    \A f \in Findings : status[f] = "ABSENT" =>
        f \notin capRequired /\ f \notin evidenceRequired /\ caps[f] = 0 /\ latest[f] = None

CAPHistoryOf(f) ==
    /\ status[f] \in AwaitsCAP \cup {"CAP_SUBMITTED"} => f \in capRequired /\ ~Accepted(f)
    /\ status[f] = "CAP_SUBMITTED" =>
          /\ caps[f] # 0
          /\ \A d \in capDecisions : d.finding = f => d.cap # caps[f]
    /\ status[f] \in AwaitsEvidence \cup AwaitsReview \cup {"PENDING_CLOSURE", "CLOSED"} =>
          (f \in capRequired => Accepted(f))

CAPHistory ==
    /\ \A d \in capDecisions : d.cap <= caps[d.finding]
    /\ \A f \in Findings : CAPHistoryOf(f)

EvidenceHistory ==
    /\ \A d \in evidenceDecisions :
          /\ scan[d.upload] = "CLEAN"
          /\ d.decision = "CLOSE" => status[of[d.upload]] = "CLOSED"
    /\ \A f \in Findings :
          /\ status[f] \in AwaitsEvidence \cup AwaitsReview => f \in evidenceRequired
          /\ status[f] = "PENDING_CLOSURE" => f \notin evidenceRequired
          /\ status[f] \in AwaitsReview =>
                \A d \in evidenceDecisions : d.upload # latest[f]

IInv ==
    /\ TypeOK
    /\ SessionsMakeVersions
    /\ SubmittedAwaitsScan
    /\ OutboxMatchesScan
    /\ CleanIsCanonical
    /\ JobsAreVersions
    /\ AbsentIsNew
    /\ ReviewSeesCleanLatest
    /\ CAPHistory
    /\ EvidenceHistory
    /\ DecidedOnce
    /\ ClosureIsJustified

-----------------------------------------------------------------------------
(* The invariant holds at the start. *)
LEMMA InitIInv == Init => IInv
<1> SUFFICES ASSUME Init PROVE IInv
    OBVIOUS
<1>1. TypeOK
    BY BoundsAssumption DEF Init, TypeOK, Status, Settled
<1>2. SessionsMakeVersions /\ SubmittedAwaitsScan /\ OutboxMatchesScan
    BY NoneAssumption
    DEF Init, SessionsMakeVersions, SubmittedAwaitsScan, OutboxMatchesScan,
        Judged, Settled
<1>3. CleanIsCanonical /\ JobsAreVersions /\ AbsentIsNew /\ ReviewSeesCleanLatest
    BY DEF Init, CleanIsCanonical, JobsAreVersions, AbsentIsNew, ReviewSeesCleanLatest
<1>4. CAPHistory /\ EvidenceHistory /\ DecidedOnce /\ ClosureIsJustified
    BY DEF Init, CAPHistory, CAPHistoryOf, EvidenceHistory, DecidedOnce, ClosureIsJustified,
           AwaitsCAP, AwaitsEvidence, AwaitsReview
<1> QED
    BY <1>1, <1>2, <1>3, <1>4 DEF IInv

-----------------------------------------------------------------------------
(* A step of a replica or of the clock that leaves findings and versions as
   they are. *)
LEMMA WorkerMoveIInv ==
    ASSUME IInv,
           UNCHANGED <<finding, caps, decisions, uploads, evidence>>,
           bucket \subseteq bucket',
           TypeOK', OutboxMatchesScan', JobsAreVersions'
    PROVE  IInv'
<1> USE DEF IInv, finding, decisions, uploads, evidence
<1>1. SessionsMakeVersions' /\ AbsentIsNew'
    BY DEF SessionsMakeVersions, AbsentIsNew
<1>2. SubmittedAwaitsScan'
    BY DEF SubmittedAwaitsScan, OutboxMatchesScan, Judged
<1>3. CleanIsCanonical' /\ ReviewSeesCleanLatest' /\ ClosureIsJustified'
    BY DEF CleanIsCanonical, ReviewSeesCleanLatest, ClosureIsJustified, Accepted, ClosedBy
<1>4. CAPHistory' /\ EvidenceHistory' /\ DecidedOnce'
    BY DEF CAPHistory, CAPHistoryOf, EvidenceHistory, DecidedOnce, Accepted
<1> QED
    BY <1>1, <1>2, <1>3, <1>4

LEMMA ClaimIInv == ASSUME IInv, NEW w \in Workers, claimNext(w) PROVE IInv'
<1> USE DEF IInv, claimNext, Claimable, finding, decisions, uploads, evidence
<1>1. TypeOK'
    BY DEF TypeOK
<1>2. OutboxMatchesScan'
    BY DEF OutboxMatchesScan, TypeOK, Settled, Judged
<1>3. JobsAreVersions'
    BY DEF JobsAreVersions, TypeOK
<1> QED
    BY <1>1, <1>2, <1>3, WorkerMoveIInv

LEMMA MarkDeliveredIInv == ASSUME IInv, NEW w \in Workers, markDelivered(w) PROVE IInv'
<1> USE DEF IInv, markDelivered, Rest, finding, decisions, uploads, evidence
<1>1. TypeOK'
    BY DEF TypeOK, JobsAreVersions
<1>2. OutboxMatchesScan'
    BY DEF OutboxMatchesScan, TypeOK, Settled, Judged
<1>3. JobsAreVersions'
    BY DEF JobsAreVersions, TypeOK
<1> QED
    BY <1>1, <1>2, <1>3, WorkerMoveIInv

(* Steps that move the replica and leave its job and the tables alone. *)
LEMMA BecomeIInv ==
    ASSUME IInv, NEW w \in Workers,
           NEW next \in {"scanning", "clean", "infected", "error"},
           pc[w] # "idle", Become(w, next),
           bucket' \in SUBSET Uploads, bucket \subseteq bucket',
           next = "clean" => job[w] \in bucket',
           faults' \in 0..MaxFaults,
           UNCHANGED <<finding, caps, decisions, uploads, evidence, outbox>>
    PROVE  IInv'
<1> USE DEF IInv, Become, finding, decisions, uploads, evidence, outbox
<1>1. TypeOK'
    BY DEF TypeOK
<1>2. OutboxMatchesScan'
    BY DEF OutboxMatchesScan
<1>3. JobsAreVersions'
    BY DEF JobsAreVersions, TypeOK
<1> QED
    BY <1>1, <1>2, <1>3, WorkerMoveIInv

LEMMA OpenIInv == ASSUME IInv, NEW w \in Workers, Open(w) PROVE IInv'
BY BecomeIInv DEF Open, IInv, TypeOK

LEMMA ScanIInv == ASSUME IInv, NEW w \in Workers, Scan(w) PROVE IInv'
<1>1. PICK verdict \in {"error", "clean", "infected"} :
          /\ Become(w, verdict)
          /\ bucket' = IF verdict = "clean" THEN bucket \cup {job[w]} ELSE bucket
    BY DEF Scan
<1>2. job[w] \in Uploads /\ bucket \in SUBSET Uploads
    BY DEF Scan, IInv, JobsAreVersions, TypeOK
<1> QED
    BY <1>1, <1>2, BecomeIInv DEF Scan, IInv, TypeOK

LEMMA FinalizeFailsIInv ==
    ASSUME IInv, NEW w \in Workers, finalizeStale(w) \/ FinalizeAborts(w)
    PROVE  IInv'
<1>1. faults' \in 0..MaxFaults
    BY BoundsAssumption DEF finalizeStale, FinalizeAborts, IInv, TypeOK
<1> QED
    BY <1>1, BecomeIInv DEF finalizeStale, FinalizeAborts, IInv, TypeOK

LEMMA RecordFailureIInv == ASSUME IInv, NEW w \in Workers, recordFailure(w) PROVE IInv'
<1> USE DEF IInv, recordFailure, Rest, finding, decisions, uploads, evidence
<1>1. TypeOK'
    BY DEF TypeOK, JobsAreVersions
<1>2. OutboxMatchesScan'
    BY DEF OutboxMatchesScan, TypeOK, Settled, Judged
<1>3. JobsAreVersions'
    BY DEF JobsAreVersions, TypeOK
<1> QED
    BY <1>1, <1>2, <1>3, WorkerMoveIInv

LEMMA CrashIInv == ASSUME IInv, NEW w \in Workers, Crash(w) PROVE IInv'
<1> USE DEF IInv, Crash, Rest, finding, decisions, uploads, evidence, outbox
<1>1. TypeOK'
    BY BoundsAssumption DEF TypeOK
<1>2. OutboxMatchesScan' /\ JobsAreVersions'
    BY DEF OutboxMatchesScan, JobsAreVersions, TypeOK
<1> QED
    BY <1>1, <1>2, WorkerMoveIInv

LEMMA LeaseExpiresIInv == ASSUME IInv, NEW u \in Uploads, LeaseExpires(u) PROVE IInv'
<1> USE DEF IInv, LeaseExpires, finding, decisions, uploads, evidence, memory
<1>1. TypeOK'
    BY BoundsAssumption DEF TypeOK
<1>2. OutboxMatchesScan' /\ JobsAreVersions'
    BY DEF OutboxMatchesScan, JobsAreVersions, TypeOK
<1> QED
    BY <1>1, <1>2, WorkerMoveIInv

-----------------------------------------------------------------------------
(* A command that moves one finding and touches no version. *)
LEMMA CommandKeeps ==
    ASSUME IInv, UNCHANGED <<evidence, bucket, outbox, memory>>
    PROVE  OutboxMatchesScan' /\ CleanIsCanonical' /\ JobsAreVersions'
BY DEF IInv, evidence, outbox, memory, OutboxMatchesScan, CleanIsCanonical, JobsAreVersions

LEMMA ConvertIInv ==
    ASSUME IInv, NEW f \in Findings, ConvertPotentialFinding(f) PROVE IInv'
<1> USE DEF IInv, ConvertPotentialFinding, decisions, uploads, evidence, outbox, memory
<1>1. TypeOK'
    BY DEF TypeOK, Status, AwaitsCAP, AwaitsEvidence
<1>2. OutboxMatchesScan' /\ CleanIsCanonical' /\ JobsAreVersions'
    BY CommandKeeps
<1>3. SessionsMakeVersions'
    BY DEF SessionsMakeVersions
<1>4. SubmittedAwaitsScan' /\ AbsentIsNew' /\ ReviewSeesCleanLatest'
    BY DEF TypeOK, SubmittedAwaitsScan, AbsentIsNew, ReviewSeesCleanLatest
<1>5. CAPHistory'
    BY DEF TypeOK, CAPHistory, CAPHistoryOf, AbsentIsNew, Accepted, AwaitsCAP, AwaitsEvidence,
           AwaitsReview, CAPDecision
<1>6. EvidenceHistory'
    BY DEF TypeOK, EvidenceHistory, AbsentIsNew, AwaitsEvidence, AwaitsReview
<1>7. DecidedOnce' /\ ClosureIsJustified'
    BY DEF TypeOK, DecidedOnce, ClosureIsJustified, Accepted, ClosedBy
<1> QED
    BY <1>1, <1>2, <1>3, <1>4, <1>5, <1>6, <1>7

LEMMA SubmitCAPIInv == ASSUME IInv, NEW f \in Findings, SubmitCAP(f) PROVE IInv'
<1> USE DEF IInv, SubmitCAP, Advance, decisions, uploads, evidence, outbox, memory
<1>1. TypeOK'
    BY BoundsAssumption DEF TypeOK, Status
<1>2. OutboxMatchesScan' /\ CleanIsCanonical' /\ JobsAreVersions'
    BY CommandKeeps
<1>3. SessionsMakeVersions'
    BY DEF SessionsMakeVersions
<1>4. SubmittedAwaitsScan' /\ AbsentIsNew' /\ ReviewSeesCleanLatest'
    BY DEF TypeOK, SubmittedAwaitsScan, AbsentIsNew, ReviewSeesCleanLatest, AwaitsCAP
<1>5. CAPHistory'
    BY DEF TypeOK, CAPHistory, CAPHistoryOf, Accepted, AwaitsCAP, AwaitsEvidence, AwaitsReview, CAPDecision
<1>6. EvidenceHistory'
    BY DEF TypeOK, EvidenceHistory, AwaitsCAP, AwaitsEvidence, AwaitsReview
<1>7. DecidedOnce' /\ ClosureIsJustified'
    BY DEF TypeOK, DecidedOnce, ClosureIsJustified, Accepted, ClosedBy
<1> QED
    BY <1>1, <1>2, <1>3, <1>4, <1>5, <1>6, <1>7

LEMMA ReviewCAPIInv == ASSUME IInv, NEW f \in Findings, ReviewCAP(f) PROVE IInv'
<1> USE DEF IInv, ReviewCAP, CAPIsPending, Advance, uploads, evidence, outbox, memory
<1>1. PICK decision \in {"ACCEPT", "REJECT", "REQUEST_MORE_INFORMATION"} :
          /\ Advance(f, AfterCAP(f, decision))
          /\ capDecisions' = capDecisions \cup
                {[finding |-> f, cap |-> caps[f], decision |-> decision,
                  at |-> revision[f]]}
    OBVIOUS
<1> DEFINE d == [finding |-> f, cap |-> caps[f], decision |-> decision, at |-> revision[f]]
<1>2. d \in CAPDecision
    BY DEF TypeOK, CAPHistory, CAPHistoryOf, CAPDecision
<1>3. AfterCAP(f, decision) \in {"EVIDENCE_REQUIRED", "PENDING_CLOSURE", "CAP_REJECTED",
                                "CAP_MORE_INFORMATION_REQUESTED"}
      /\ (decision = "ACCEPT" <=>
            AfterCAP(f, decision) \in {"EVIDENCE_REQUIRED", "PENDING_CLOSURE"})
      /\ (AfterCAP(f, decision) = "EVIDENCE_REQUIRED" => f \in evidenceRequired)
      /\ (AfterCAP(f, decision) = "PENDING_CLOSURE" => f \notin evidenceRequired)
    BY DEF AfterCAP
<1>4. TypeOK'
    BY <1>1, <1>2, <1>3 DEF TypeOK, Status, AwaitsCAP, AwaitsEvidence
<1>5. OutboxMatchesScan' /\ CleanIsCanonical' /\ JobsAreVersions'
    BY CommandKeeps
<1>6. SessionsMakeVersions'
    BY DEF SessionsMakeVersions
<1>7. SubmittedAwaitsScan' /\ AbsentIsNew' /\ ReviewSeesCleanLatest'
    BY <1>1, <1>3 DEF TypeOK, SubmittedAwaitsScan, AbsentIsNew, ReviewSeesCleanLatest
<1>8. CAPHistory'
  <2>1. \A e \in capDecisions' : e.cap <= caps'[e.finding]
      BY <1>1 DEF TypeOK, CAPHistory
  <2>2. \A g \in Findings : g # f => (Accepted(g)' <=> Accepted(g))
      BY <1>1 DEF Accepted
  <2>3. Accepted(f)' <=> decision = "ACCEPT"
    <3>1. d \in capDecisions' /\ \A e \in capDecisions' : e = d \/ e \in capDecisions
        BY <1>1
    <3>2. d.finding = f /\ d.cap = caps[f] /\ d.decision = decision
        OBVIOUS
    <3>3. \A e \in capDecisions : e.finding = f => e.cap # caps[f]
        BY DEF CAPHistory, CAPHistoryOf
    <3>4. caps' = caps
        OBVIOUS
    <3> HIDE DEF d
    <3> QED
        BY <3>1, <3>2, <3>3, <3>4 DEF Accepted
  <2>4. \A g \in Findings : g # f =>
            /\ status'[g] = status[g]
            /\ \A e \in capDecisions' : e.finding = g => e \in capDecisions
      BY <1>1 DEF TypeOK
  <2>5. status'[f] = AfterCAP(f, decision) /\ f \in capRequired
      BY <1>1 DEF TypeOK, CAPHistory, CAPHistoryOf
  <2>6. \A g \in Findings : g # f => CAPHistoryOf(g)'
      BY <2>2, <2>4 DEF CAPHistory, CAPHistoryOf
  <2>7. CAPHistoryOf(f)'
      BY <1>3, <2>3, <2>5 DEF CAPHistoryOf, AwaitsCAP, AwaitsEvidence, AwaitsReview
  <2> QED
      BY <2>1, <2>6, <2>7 DEF CAPHistory
<1>9. EvidenceHistory'
    BY <1>1, <1>3 DEF TypeOK, EvidenceHistory, AwaitsEvidence, AwaitsReview
<1>10. DecidedOnce'
    BY <1>1 DEF TypeOK, DecidedOnce, CAPHistory, CAPHistoryOf
<1>11. ClosureIsJustified'
    BY <1>1, <1>3 DEF TypeOK, ClosureIsJustified, Accepted, ClosedBy
<1> QED
    BY <1>4, <1>5, <1>6, <1>7, <1>8, <1>9, <1>10, <1>11

LEMMA AuthorizedCloseIInv ==
    ASSUME IInv, NEW f \in Findings, AuthorizedCloseFinding(f) PROVE IInv'
<1> USE DEF IInv, AuthorizedCloseFinding, Advance, decisions, uploads, evidence,
            outbox, memory
<1>1. TypeOK'
    BY DEF TypeOK, Status
<1>2. OutboxMatchesScan' /\ CleanIsCanonical' /\ JobsAreVersions'
    BY CommandKeeps
<1>3. SessionsMakeVersions'
    BY DEF SessionsMakeVersions
<1>4. SubmittedAwaitsScan' /\ AbsentIsNew' /\ ReviewSeesCleanLatest'
    BY DEF TypeOK, SubmittedAwaitsScan, AbsentIsNew, ReviewSeesCleanLatest
<1>5. CAPHistory'
    BY DEF TypeOK, CAPHistory, CAPHistoryOf, Accepted, AwaitsCAP, AwaitsEvidence, AwaitsReview
<1>6. EvidenceHistory'
    BY DEF TypeOK, EvidenceHistory, AwaitsEvidence, AwaitsReview
<1>7. DecidedOnce' /\ ClosureIsJustified'
    BY DEF TypeOK, DecidedOnce, ClosureIsJustified, Accepted, ClosedBy, CAPHistory, CAPHistoryOf,
           EvidenceHistory, AwaitsEvidence, AwaitsReview
<1> QED
    BY <1>1, <1>2, <1>3, <1>4, <1>5, <1>6, <1>7

LEMMA BeginIInv ==
    ASSUME IInv, NEW u \in Uploads, NEW f \in Findings, Begin(u, f) PROVE IInv'
<1> USE DEF IInv, Begin, finding, decisions, evidence, outbox, memory
<1>1. TypeOK'
    BY DEF TypeOK
<1>2. OutboxMatchesScan' /\ CleanIsCanonical' /\ JobsAreVersions'
    BY CommandKeeps
<1>3. SessionsMakeVersions'
    BY NoneAssumption DEF TypeOK, SessionsMakeVersions
<1>4. SubmittedAwaitsScan' /\ AbsentIsNew' /\ ReviewSeesCleanLatest'
    BY DEF TypeOK, SubmittedAwaitsScan, AbsentIsNew, ReviewSeesCleanLatest, SessionsMakeVersions
<1>5. CAPHistory' /\ DecidedOnce' /\ ClosureIsJustified'
    BY DEF CAPHistory, CAPHistoryOf, Accepted, DecidedOnce, ClosureIsJustified, ClosedBy
<1>6. EvidenceHistory'
    BY DEF TypeOK, EvidenceHistory, SessionsMakeVersions, EvidenceDecision
<1> QED
    BY <1>1, <1>2, <1>3, <1>4, <1>5, <1>6

LEMMA CompleteIInv == ASSUME IInv, NEW u \in Uploads, Complete(u) PROVE IInv'
<1> USE DEF IInv, Complete, SubmissionBoundary, Advance, decisions, outbox, memory
<1>1. of[u] \in Findings /\ scan[u] = "NONE" /\ status[of[u]] \in AwaitsEvidence
    BY NoneAssumption DEF TypeOK, SessionsMakeVersions
<1>2. u \notin canonical /\ u \notin delivered /\ u \notin failed
      /\ \A d \in evidenceDecisions : d.upload # u
    BY <1>1 DEF CleanIsCanonical, OutboxMatchesScan, EvidenceHistory, Judged
<1>3. TypeOK'
    BY <1>1 DEF TypeOK, Status, AwaitsReview
<1>4. SessionsMakeVersions'
    BY <1>1, NoneAssumption DEF TypeOK, SessionsMakeVersions
<1>5. SubmittedAwaitsScan'
    BY <1>1, <1>2, NoneAssumption
    DEF TypeOK, SubmittedAwaitsScan, SessionsMakeVersions, AwaitsEvidence
<1>6. OutboxMatchesScan' /\ CleanIsCanonical'
    BY <1>1 DEF TypeOK, OutboxMatchesScan, CleanIsCanonical, Judged, Settled
<1>7. JobsAreVersions' /\ AbsentIsNew'
    BY <1>1 DEF TypeOK, JobsAreVersions, AbsentIsNew
<1>8. ReviewSeesCleanLatest'
    BY <1>1 DEF TypeOK, ReviewSeesCleanLatest, SessionsMakeVersions
<1>9. CAPHistory'
    BY <1>1 DEF TypeOK, CAPHistory, CAPHistoryOf, Accepted, AwaitsCAP, AwaitsEvidence,
        AwaitsReview
<1>10. EvidenceHistory'
    BY <1>1, <1>2
    DEF TypeOK, EvidenceHistory, EvidenceDecision, AwaitsEvidence, AwaitsReview
<1>11. DecidedOnce' /\ ClosureIsJustified'
    BY <1>1 DEF TypeOK, DecidedOnce, ClosureIsJustified, Accepted, ClosedBy,
        SessionsMakeVersions
<1> QED
    BY <1>3, <1>4, <1>5, <1>6, <1>7, <1>8, <1>9, <1>10, <1>11

LEMMA ReviewEvidenceIInv ==
    ASSUME IInv, NEW f \in Findings, ReviewEvidence(f) PROVE IInv'
<1> USE DEF IInv, ReviewEvidence, Reviewable, Advance, uploads, evidence, outbox, memory
<1>1. PICK decision \in {"CLOSE", "PARTIALLY_CLOSE", "NOT_CLOSE",
                         "REQUEST_MORE_INFORMATION"} :
          /\ Advance(f, IF decision = "CLOSE" THEN "CLOSED"
                        ELSE "EVIDENCE_MORE_INFORMATION_REQUESTED")
          /\ evidenceDecisions' = evidenceDecisions \cup
                {[upload |-> latest[f], decision |-> decision, at |-> revision[f]]}
    OBVIOUS
<1> DEFINE d == [upload |-> latest[f], decision |-> decision, at |-> revision[f]]
<1>2. latest[f] \in Uploads /\ of[latest[f]] = f /\ f \in evidenceRequired
      /\ status[f] = "PENDING_CAA_REVIEW"
    BY DEF TypeOK, SessionsMakeVersions, EvidenceHistory, SubmittedAwaitsScan, AwaitsReview
<1>3. d \in EvidenceDecision /\ \A e \in evidenceDecisions : e.upload # latest[f]
    BY <1>2 DEF TypeOK, EvidenceDecision, EvidenceHistory
<1>4. d \in evidenceDecisions'
      /\ \A e \in evidenceDecisions' : e = d \/ e \in evidenceDecisions
    BY <1>1
<1>5. d.upload = latest[f] /\ d.decision = decision
    OBVIOUS
<1>6. /\ decision = "CLOSE" => status' = [status EXCEPT ![f] = "CLOSED"]
      /\ decision # "CLOSE" =>
            status' = [status EXCEPT ![f] = "EVIDENCE_MORE_INFORMATION_REQUESTED"]
    BY <1>1
<1>7. TypeOK'
    BY <1>1, <1>3, <1>6 DEF TypeOK, Status, AwaitsEvidence
<1>8. OutboxMatchesScan' /\ CleanIsCanonical' /\ JobsAreVersions'
    BY CommandKeeps
<1>9. SessionsMakeVersions'
    BY DEF SessionsMakeVersions
<1>10. SubmittedAwaitsScan' /\ AbsentIsNew' /\ ReviewSeesCleanLatest'
    BY <1>2, <1>6 DEF TypeOK, SubmittedAwaitsScan, AbsentIsNew, ReviewSeesCleanLatest
<1>11. CAPHistory'
    BY <1>1, <1>2, <1>6 DEF TypeOK, CAPHistory, CAPHistoryOf, Accepted, AwaitsCAP,
        AwaitsEvidence, AwaitsReview
<1> HIDE DEF d
<1>12. EvidenceHistory'
  <2>1. \A e \in evidenceDecisions' :
            /\ scan'[e.upload] = "CLEAN"
            /\ e.decision = "CLOSE" => status'[of'[e.upload]] = "CLOSED"
    BY <1>2, <1>4, <1>5, <1>6 DEF EvidenceHistory, TypeOK, EvidenceDecision
  <2>2. \A g \in Findings : g # f => latest[g] # latest[f]
    BY <1>2 DEF SessionsMakeVersions, TypeOK
  <2> QED
    BY <1>2, <1>4, <1>5, <1>6, <2>1, <2>2
    DEF EvidenceHistory, TypeOK, AwaitsEvidence, AwaitsReview
<1>13. DecidedOnce'
    BY <1>3, <1>4, <1>5 DEF DecidedOnce
<1>14. ClosureIsJustified'
  <2>1. decision = "CLOSE" => ClosedBy(latest[f])'
    BY <1>4, <1>5 DEF ClosedBy
  <2>2. \A g \in Findings : ClosedBy(latest[g]) => ClosedBy(latest[g])'
    BY <1>1 DEF ClosedBy
  <2>3. \A g \in Findings : Accepted(g) => Accepted(g)'
    BY DEF Accepted
  <2>4. f \in capRequired => Accepted(f)
    BY <1>2 DEF CAPHistory, CAPHistoryOf, AwaitsReview
  <2>5. latest[f] \in bucket /\ latest[f] # None
    BY <1>2 DEF ReviewSeesCleanLatest
  <2>6. capRequired' = capRequired /\ evidenceRequired' = evidenceRequired
    BY <1>1
  <2> QED
    BY <1>2, <1>6, <2>1, <2>2, <2>3, <2>4, <2>5, <2>6 DEF ClosureIsJustified, TypeOK
<1> QED
    BY <1>7, <1>8, <1>9, <1>10, <1>11, <1>12, <1>13, <1>14

-----------------------------------------------------------------------------
(* The pending version of a submitted finding is settled: the version gets its
   outcome, the finding the status that goes with it. *)
LEMMA SettleIInv ==
    ASSUME IInv, NEW u \in Uploads, scan[u] = "PENDING",
           NEW outcome \in Settled, NEW next,
           next = IF outcome = "CLEAN" THEN "PENDING_CAA_REVIEW"
                  ELSE "EVIDENCE_MORE_INFORMATION_REQUESTED",
           outcome = "CLEAN" => u \in bucket,
           Answer(of[u], next),
           scan' = [scan EXCEPT ![u] = outcome],
           canonical' = IF outcome = "CLEAN" THEN canonical \cup {u} ELSE canonical,
           TypeOK', OutboxMatchesScan',
           \A w \in Workers : pc'[w] # "idle" => pc'[w] = pc[w] /\ job'[w] = job[w],
           UNCHANGED <<caps, decisions, uploads, latest, bucket>>
    PROVE  IInv'
<1> USE DEF IInv, decisions, uploads
<1>1. of[u] \in Findings /\ latest[of[u]] = u /\ status[of[u]] = "EVIDENCE_SUBMITTED"
    BY NoneAssumption DEF TypeOK, SessionsMakeVersions, SubmittedAwaitsScan
<1>2. status' = [status EXCEPT ![of[u]] = next]
      /\ capRequired' = capRequired /\ evidenceRequired' = evidenceRequired
    BY <1>1 DEF Answer, Advance
<1>3. next \in {"PENDING_CAA_REVIEW", "EVIDENCE_MORE_INFORMATION_REQUESTED"}
      /\ (next = "PENDING_CAA_REVIEW" <=> outcome = "CLEAN")
      /\ outcome \notin {"NONE", "PENDING"}
    BY DEF Settled, Judged
<1>4. \A v \in Uploads : v # u => scan'[v] = scan[v]
    BY DEF TypeOK
<1>5. scan'[u] = outcome
    BY DEF TypeOK
<1>6. status'[of[u]] = next /\ \A f \in Findings : f # of[u] => status'[f] = status[f]
    BY <1>1, <1>2 DEF TypeOK
<1>7. \A f \in Findings : latest[f] = u => f = of[u]
    BY NoneAssumption DEF SessionsMakeVersions
<1> HIDE DEF IInv
<1>8. SessionsMakeVersions' /\ AbsentIsNew'
    BY <1>1, <1>2, <1>3, <1>4, <1>5, <1>6
    DEF IInv, TypeOK, SessionsMakeVersions, AbsentIsNew
<1>9. SubmittedAwaitsScan'
    BY <1>1, <1>3, <1>4, <1>5, <1>6, <1>7
    DEF IInv, TypeOK, SubmittedAwaitsScan, OutboxMatchesScan, Judged
<1>10. CleanIsCanonical' /\ ReviewSeesCleanLatest'
  <2>1. CleanIsCanonical'
    BY <1>3, <1>4, <1>5 DEF IInv, TypeOK, CleanIsCanonical
  <2>2. ReviewSeesCleanLatest'
    <3>1. ASSUME NEW f \in Findings, f # of[u], status'[f] = "PENDING_CAA_REVIEW"
          PROVE  /\ latest[f] # None /\ latest[f] # u
                 /\ scan'[latest[f]] = "CLEAN" /\ latest[f] \in canonical' \cap bucket
        BY <1>4, <1>6, <1>7, <3>1 DEF IInv, TypeOK, ReviewSeesCleanLatest
    <3>2. ASSUME status'[of[u]] = "PENDING_CAA_REVIEW"
          PROVE  /\ latest[of[u]] # None
                 /\ scan'[latest[of[u]]] = "CLEAN" /\ latest[of[u]] \in canonical' \cap bucket
        BY <1>1, <1>3, <1>5, <1>6, <3>2, NoneAssumption
    <3> QED
        BY <3>1, <3>2 DEF ReviewSeesCleanLatest
  <2> QED
    BY <2>1, <2>2
<1>11. JobsAreVersions'
    BY <1>3, <1>4, <1>5 DEF IInv, TypeOK, JobsAreVersions
<1>12. CAPHistory'
    BY <1>1, <1>2, <1>3, <1>6 DEF IInv, CAPHistory, CAPHistoryOf, Accepted, AwaitsCAP, AwaitsEvidence, AwaitsReview
<1>13. EvidenceHistory'
    BY <1>1, <1>2, <1>3, <1>4, <1>5, <1>6
    DEF IInv, TypeOK, EvidenceHistory, EvidenceDecision, AwaitsEvidence, AwaitsReview
<1>14. DecidedOnce'
    BY DEF IInv, DecidedOnce
<1>15. ClosureIsJustified'
    BY <1>1, <1>2, <1>3, <1>4, <1>5, <1>6, <1>7
    DEF IInv, TypeOK, ClosureIsJustified, Accepted, ClosedBy
<1> QED
    BY <1>8, <1>9, <1>10, <1>11, <1>12, <1>13, <1>14, <1>15 DEF IInv

LEMMA FinalizeEvidenceIInv ==
    ASSUME IInv, NEW w \in Workers, finalizeEvidence(w) PROVE IInv'
<1> DEFINE u == job[w]
<1>1. u \in Uploads /\ scan[u] = "PENDING" /\ (pc[w] = "clean" => u \in bucket)
    BY DEF IInv, finalizeEvidence, LeaseHeld, TypeOK, JobsAreVersions,
           OutboxMatchesScan, Judged, Settled
<1>2. Verdict(w) \in Judged /\ Verdict(w) \in Settled
      /\ (Verdict(w) = "CLEAN" <=> pc[w] = "clean")
    BY DEF finalizeEvidence, Verdict, Judged, Settled
<1>3. AfterScan(w) = IF Verdict(w) = "CLEAN" THEN "PENDING_CAA_REVIEW"
                     ELSE "EVIDENCE_MORE_INFORMATION_REQUESTED"
    BY <1>2 DEF AfterScan
<1>4. of[u] \in Findings
    BY <1>1, NoneAssumption DEF IInv, TypeOK, SessionsMakeVersions
<1>5. TypeOK'
    BY <1>1, <1>2, <1>3, <1>4
    DEF finalizeEvidence, IInv, TypeOK, Answer, Advance, finding, decisions, uploads,
        Rest, Status, AwaitsEvidence, AwaitsReview
<1>6. OutboxMatchesScan'
    BY <1>1, <1>2 DEF finalizeEvidence, IInv, TypeOK, OutboxMatchesScan, Judged, Settled
<1>7. \A v \in Workers : pc'[v] # "idle" => pc'[v] = pc[v] /\ job'[v] = job[v]
    BY DEF finalizeEvidence, Rest, IInv, TypeOK
<1> QED
    BY <1>1, <1>2, <1>3, <1>5, <1>6, <1>7, SettleIInv DEF finalizeEvidence, Judged

LEMMA RecordTerminalFailureIInv ==
    ASSUME IInv, NEW w \in Workers, recordTerminalFailure(w) PROVE IInv'
<1> DEFINE u == job[w]
<1>1. u \in Uploads /\ scan[u] # "NONE"
    BY DEF IInv, recordTerminalFailure, JobsAreVersions
<1>2. \A v \in Workers : pc'[v] # "idle" => pc'[v] = pc[v] /\ job'[v] = job[v]
    BY DEF recordTerminalFailure, Rest, IInv, TypeOK
<1>3. CASE scan[u] = "PENDING"
  <2>1. of[u] \in Findings
    BY <1>1, NoneAssumption DEF IInv, TypeOK, SessionsMakeVersions
  <2>2. u \notin delivered
    BY <1>1, <1>3 DEF IInv, OutboxMatchesScan, Judged
  <2>3. TypeOK'
    BY <1>1, <1>3, <2>1
    DEF recordTerminalFailure, PendingScan, IInv, TypeOK, Answer, Advance, finding, decisions, uploads,
        Rest, Status, AwaitsEvidence, AwaitsReview, Settled
  <2>4. OutboxMatchesScan'
    BY <1>1, <1>3, <2>2
    DEF recordTerminalFailure, PendingScan, IInv, TypeOK, OutboxMatchesScan, Judged, Settled
  <2>5. "FAILED" \in Settled
    BY DEF Settled
  <2> QED
    BY <1>1, <1>2, <1>3, <2>3, <2>4, <2>5, SettleIInv
    DEF recordTerminalFailure, PendingScan
<1>4. CASE scan[u] # "PENDING"
  <2> USE DEF IInv, recordTerminalFailure, PendingScan, Rest, finding, decisions, uploads,
              evidence
  <2>1. scan[u] \in Settled
    BY <1>1, <1>4 DEF TypeOK
  <2>2. TypeOK'
    BY <1>1, <1>4 DEF TypeOK
  <2>3. OutboxMatchesScan'
    BY <1>1, <1>4, <2>1 DEF TypeOK, OutboxMatchesScan, Settled, Judged
  <2>4. JobsAreVersions'
    BY <1>2, <1>4 DEF JobsAreVersions, TypeOK
  <2> QED
    BY <1>4, <2>2, <2>3, <2>4, WorkerMoveIInv
<1> QED
    BY <1>3, <1>4

-----------------------------------------------------------------------------
(* Each step keeps the invariant. *)
LEMMA NextIInv == IInv /\ [Next]_vars => IInv'
<1> SUFFICES ASSUME IInv, [Next]_vars PROVE IInv'
    OBVIOUS
<1>1. CASE UNCHANGED vars
    BY <1>1, WorkerMoveIInv
    DEF vars, finding, decisions, uploads, evidence, outbox, memory, IInv, TypeOK,
        OutboxMatchesScan, JobsAreVersions
<1>2. ASSUME NEW f \in Findings,
             \/ ConvertPotentialFinding(f) \/ SubmitCAP(f) \/ ReviewCAP(f)
             \/ ReviewEvidence(f) \/ AuthorizedCloseFinding(f)
             \/ \E u \in Uploads : Begin(u, f)
      PROVE  IInv'
    BY <1>2, ConvertIInv, SubmitCAPIInv, ReviewCAPIInv, ReviewEvidenceIInv,
       AuthorizedCloseIInv, BeginIInv
<1>3. ASSUME NEW u \in Uploads, Complete(u) \/ LeaseExpires(u) PROVE IInv'
    BY <1>3, CompleteIInv, LeaseExpiresIInv
<1>4. ASSUME NEW w \in Workers,
             \/ claimNext(w) \/ markDelivered(w) \/ Open(w) \/ Scan(w)
             \/ finalizeEvidence(w) \/ finalizeStale(w)
             \/ FinalizeAborts(w) \/ recordFailure(w) \/ recordTerminalFailure(w)
             \/ Crash(w)
      PROVE  IInv'
    BY <1>4, ClaimIInv, MarkDeliveredIInv, OpenIInv, ScanIInv, FinalizeEvidenceIInv,
       FinalizeFailsIInv, RecordFailureIInv, RecordTerminalFailureIInv, CrashIInv
<1> QED
    BY <1>1, <1>2, <1>3, <1>4 DEF Next

(* The inductive invariant holds in every state the program can be in. *)
THEOREM Invariance == Spec => []IInv
BY InitIInv, NextIInv, PTL DEF Spec

(* The tables and the replicas hold values of the program. *)
THEOREM TypeCorrect == Spec => []TypeOK
BY Invariance, PTL DEF IInv

(* A Finding stands at EVIDENCE_SUBMITTED exactly while its latest version
   waits for a scan whose message is not settled (upload_service.go Complete,
   worker.go). *)
THEOREM SubmittedIsScanned == Spec => []SubmittedAwaitsScan
BY Invariance, PTL DEF IInv

(* What an inspector is asked to review is the latest version, clean, in the
   canonical bucket. *)
THEOREM ReviewIsOfCleanLatest == Spec => []ReviewSeesCleanLatest
BY Invariance, PTL DEF IInv

(* A closed Finding had its CAP accepted and its evidence scanned and closed,
   where it required them (canonical_transitions.go). *)
THEOREM ClosuresAreJustified == Spec => []ClosureIsJustified
BY Invariance, PTL DEF IInv

(* Nobody decides twice on a CAP revision or an evidence version. *)
THEOREM DecisionsAreSingle == Spec => []DecidedOnce
BY Invariance, PTL DEF IInv

(* A scan message is settled with its version and as its version. *)
THEOREM OutboxAndScanAgree == Spec => []OutboxMatchesScan
BY Invariance, PTL DEF IInv

-----------------------------------------------------------------------------
(* No step overwrites the outcome of a scan: a verdict is recorded under a
   lease, and a settled message has none. *)
LEMMA StepKeepsOutcome ==
    ASSUME IInv, [Next]_vars, NEW u \in Uploads, scan[u] \in Settled
    PROVE  scan'[u] = scan[u]
<1>1. CASE UNCHANGED evidence
    BY <1>1 DEF evidence
<1>2. ASSUME NEW v \in Uploads, Complete(v) PROVE scan'[u] = scan[u]
    BY <1>2 DEF Complete, IInv, TypeOK, SessionsMakeVersions, Settled, Judged
<1>3. ASSUME NEW w \in Workers, finalizeEvidence(w) PROVE scan'[u] = scan[u]
    BY <1>3 DEF finalizeEvidence, LeaseHeld, IInv, TypeOK, OutboxMatchesScan, Settled
<1>4. ASSUME NEW w \in Workers, recordTerminalFailure(w) PROVE scan'[u] = scan[u]
    BY <1>4 DEF recordTerminalFailure, PendingScan, IInv, TypeOK, Settled, Judged
<1> QED
    BY <1>1, <1>2, <1>3, <1>4
    DEF Next, vars, evidence, ConvertPotentialFinding, SubmitCAP, ReviewCAP, ReviewEvidence,
        AuthorizedCloseFinding, Begin, LeaseExpires, claimNext, markDelivered, Open,
        Scan, finalizeStale, FinalizeAborts, recordFailure, Crash

(* A verdict or a failure is the last word on a version (worker.go
   markDeliveredTx, recordEvidenceTerminalFailure). *)
THEOREM OutcomesAreFinal == Spec => ScanOutcomeFinal
<1>1. IInv /\ [Next]_vars
        => [\A u \in Uploads : scan[u] \in Settled => scan'[u] = scan[u]]_vars
    BY StepKeepsOutcome
<1> QED
    BY <1>1, Invariance, PTL DEF Spec, ScanOutcomeFinal

-----------------------------------------------------------------------------
(* The lifecycle keeps its promise: FindingPromise. *)
LEMMA Courts ==
    /\ CourtOf("ABSENT") = "none"
    /\ \A st \in AwaitsCAP \cup AwaitsEvidence : CourtOf(st) = "auditee"
    /\ CourtOf("EVIDENCE_SUBMITTED") = "scan"
    /\ \A st \in {"CAP_SUBMITTED", "PENDING_CAA_REVIEW", "PENDING_CLOSURE"} :
          CourtOf(st) = "authority"
    /\ CourtOf("CLOSED") = "closed"
BY DEF CourtOf, AwaitsCAP, AwaitsEvidence

LEMMA InitPromise == Init => Promise!Init
<1> SUFFICES ASSUME Init PROVE Promise!Init
    OBVIOUS
<1>1. court = [f \in Findings |-> "none"]
    BY Courts DEF Init, court
<1>2. outstanding = [f \in Findings |-> {}]
    BY DEF Init, outstanding
<1> QED
    BY <1>1, <1>2 DEF Promise!Init

(* A step that leaves the finding's status and its decisions alone. *)
LEMMA PromiseStutters ==
    ASSUME UNCHANGED <<status, capRequired, evidenceRequired, caps, decisions, latest>>
    PROVE  UNCHANGED Promise!vars
BY DEF decisions, Promise!vars, court, outstanding, Accepted, ClosedBy

(* A step that moves one finding moves its court and no other. *)
LEMMA CourtMoves ==
    ASSUME IInv, NEW f \in Findings, NEW next,
           status' = [status EXCEPT ![f] = next]
    PROVE  court' = [court EXCEPT ![f] = CourtOf(next)]
BY DEF court, IInv, TypeOK

(* A step that decides nothing leaves outstanding what was outstanding. *)
LEMMA OutstandingStays ==
    ASSUME UNCHANGED <<capRequired, evidenceRequired>>,
           \A g \in Findings : Accepted(g)' <=> Accepted(g),
           \A g \in Findings : ClosedBy(latest[g])' <=> ClosedBy(latest[g])
    PROVE  outstanding' = outstanding
BY DEF outstanding

(* What is outstanding of one finding. *)
LEMMA OutstandingOf ==
    ASSUME NEW f \in Findings
    PROVE  /\ outstanding[f] \in SUBSET {"cap", "evidence"}
           /\ "cap" \in outstanding[f] <=> f \in capRequired /\ ~Accepted(f)
           /\ "evidence" \in outstanding[f]
                 <=> f \in evidenceRequired /\ ~ClosedBy(latest[f])
BY DEF outstanding

(* No decision closes a finding that is not closed. *)
LEMMA OpenIsNotClosedBy ==
    ASSUME IInv, NEW f \in Findings, status[f] # "CLOSED"
    PROVE  ~ClosedBy(latest[f])
BY NoneAssumption
DEF IInv, TypeOK, ClosedBy, EvidenceHistory, EvidenceDecision, SessionsMakeVersions

LEMMA ConvertPromise ==
    ASSUME IInv, NEW f \in Findings, ConvertPotentialFinding(f)
    PROVE  Promise!Raise(f)
<1> USE DEF IInv, ConvertPotentialFinding, decisions, evidence
<1>1. PICK needsCAP, needsEvidence \in BOOLEAN :
          /\ capRequired' = IF needsCAP THEN capRequired \cup {f} ELSE capRequired
          /\ evidenceRequired' = IF needsEvidence THEN evidenceRequired \cup {f}
                                                  ELSE evidenceRequired
          /\ status' = [status EXCEPT ![f] =
                IF needsCAP THEN "WAITING_FOR_CAP"
                ELSE IF needsEvidence THEN "EVIDENCE_REQUIRED" ELSE "PENDING_CLOSURE"]
    OBVIOUS
<1> DEFINE needs == {need \in {"cap", "evidence"} :
                        \/ need = "cap" /\ needsCAP
                        \/ need = "evidence" /\ needsEvidence}
<1>2. ~Accepted(f) /\ ~ClosedBy(latest[f])
    BY OpenIsNotClosedBy DEF AbsentIsNew, Accepted, TypeOK, CAPDecision
<1>3. UNCHANGED <<caps, capDecisions, evidenceDecisions, latest>>
    OBVIOUS
<1>4. outstanding' = [outstanding EXCEPT ![f] = needs]
  <2>1. \A g \in Findings \ {f} : /\ g \in capRequired' <=> g \in capRequired
                                  /\ g \in evidenceRequired' <=> g \in evidenceRequired
    BY <1>1
  <2>2. /\ f \in capRequired' <=> needsCAP
        /\ f \in evidenceRequired' <=> needsEvidence
    BY <1>1 DEF AbsentIsNew
  <2> HIDE DEF IInv, ConvertPotentialFinding
  <2>3. \A g \in Findings : outstanding'[g] = IF g = f THEN needs ELSE outstanding[g]
    <3> SUFFICES ASSUME NEW g \in Findings
                 PROVE  outstanding'[g] = IF g = f THEN needs ELSE outstanding[g]
        OBVIOUS
    <3>1. CASE g = f
        <4>1. outstanding'[f] = {need \in {"cap", "evidence"} :
                    \/ need = "cap" /\ f \in capRequired' /\ ~Accepted(f)'
                    \/ need = "evidence" /\ f \in evidenceRequired' /\ ~ClosedBy(latest[f])'}
            BY DEF outstanding
        <4>2. ~Accepted(f)' /\ ~ClosedBy(latest[f])'
            BY <1>2, <1>3 DEF Accepted, ClosedBy
        <4> QED
            BY <2>2, <3>1, <4>1, <4>2
    <3>2. CASE g # f
        <4>1. outstanding'[g] = {need \in {"cap", "evidence"} :
                    \/ need = "cap" /\ g \in capRequired' /\ ~Accepted(g)'
                    \/ need = "evidence" /\ g \in evidenceRequired' /\ ~ClosedBy(latest[g])'}
            BY DEF outstanding
        <4>2. outstanding[g] = {need \in {"cap", "evidence"} :
                    \/ need = "cap" /\ g \in capRequired /\ ~Accepted(g)
                    \/ need = "evidence" /\ g \in evidenceRequired /\ ~ClosedBy(latest[g])}
            BY DEF outstanding
        <4> HIDE DEF needs
        <4>3. g \in capRequired' <=> g \in capRequired
            BY <2>1, <3>2
        <4>4. g \in evidenceRequired' <=> g \in evidenceRequired
            BY <2>1, <3>2
        <4>5. Accepted(g)' <=> Accepted(g)
            BY <1>3 DEF Accepted
        <4>6. ClosedBy(latest[g])' <=> ClosedBy(latest[g])
            BY <1>3 DEF ClosedBy
        <4>7. \A need \in {"cap", "evidence"} :
                  need \in outstanding'[g] <=> need \in outstanding[g]
            BY ONLY <4>1, <4>2, <4>3, <4>4, <4>5, <4>6
        <4>8. outstanding'[g] = outstanding[g]
            BY <4>1, <4>2, <4>7
        <4> QED
            BY <3>2, <4>8
    <3> QED
        BY <3>1, <3>2
  <2>4. /\ outstanding = [g \in Findings |-> outstanding[g]]
        /\ outstanding' = [g \in Findings |-> outstanding'[g]]
    BY Zenon DEF outstanding
  <2> HIDE DEF needs
  <2> QED
    BY <2>3, <2>4
<1>5. court[f] = "none"
    BY Courts DEF court
<1>6. court' = [court EXCEPT ![f] = IF needs = {} THEN "authority" ELSE "auditee"]
  <2> DEFINE next == IF needsCAP THEN "WAITING_FOR_CAP"
                     ELSE IF needsEvidence THEN "EVIDENCE_REQUIRED" ELSE "PENDING_CLOSURE"
  <2>1. court' = [court EXCEPT ![f] = CourtOf(next)]
    BY <1>1, CourtMoves
  <2>2. next \in AwaitsCAP \cup AwaitsEvidence \/ next = "PENDING_CLOSURE"
    BY DEF AwaitsCAP, AwaitsEvidence
  <2>3. next = "PENDING_CLOSURE" <=> ~needsCAP /\ ~needsEvidence
    OBVIOUS
  <2>4. needs = {} <=> ~needsCAP /\ ~needsEvidence
    OBVIOUS
  <2> HIDE DEF next, needs
  <2>5. CourtOf(next) = IF needs = {} THEN "authority" ELSE "auditee"
    BY <2>2, <2>3, <2>4, Courts DEF AwaitsCAP, AwaitsEvidence
  <2> QED
    BY <2>1, <2>5
<1> QED
    BY <1>4, <1>5, <1>6 DEF Promise!Raise, Promise!Move

LEMMA SubmitCAPPromise ==
    ASSUME IInv, NEW f \in Findings, SubmitCAP(f)
    PROVE  Promise!Submit(f)
<1> USE DEF SubmitCAP, Advance, decisions, evidence
<1>1. f \in capRequired /\ ~Accepted(f)
    BY DEF IInv, CAPHistory, CAPHistoryOf
<1>2. ~Accepted(f)'
    BY DEF IInv, TypeOK, CAPHistory, Accepted, CAPDecision
<1>3. \A g \in Findings : Accepted(g)' <=> Accepted(g)
    BY <1>1, <1>2 DEF Accepted, IInv, TypeOK
<1>4. \A g \in Findings : ClosedBy(latest[g])' <=> ClosedBy(latest[g])
    BY DEF ClosedBy
<1>5. outstanding' = outstanding
    BY <1>3, <1>4, OutstandingStays
<1>6. "cap" \in outstanding[f]
    BY <1>1, OutstandingOf
<1>7. court[f] = "auditee"
    BY Courts DEF court
<1>8. court' = [court EXCEPT ![f] = CourtOf("CAP_SUBMITTED")]
    BY CourtMoves
<1> QED
    BY <1>5, <1>6, <1>7, <1>8, Courts DEF Promise!Submit, Promise!Move

LEMMA ReviewCAPPromise ==
    ASSUME IInv, NEW f \in Findings, ReviewCAP(f)
    PROVE  Promise!ApproveCAP(f) \/ Promise!SendBack(f)
<1> USE DEF ReviewCAP, CAPIsPending, Advance, evidence
<1>1. PICK decision \in {"ACCEPT", "REJECT", "REQUEST_MORE_INFORMATION"} :
          /\ Advance(f, AfterCAP(f, decision))
          /\ capDecisions' = capDecisions \cup
                {[finding |-> f, cap |-> caps[f], decision |-> decision,
                  at |-> revision[f]]}
    OBVIOUS
<1> DEFINE d == [finding |-> f, cap |-> caps[f], decision |-> decision, at |-> revision[f]]
<1>2. d.finding = f /\ d.cap = caps[f] /\ d.decision = decision
    OBVIOUS
<1>3. /\ d \in capDecisions'
      /\ \A e \in capDecisions' : e = d \/ e \in capDecisions
      /\ capDecisions \subseteq capDecisions'
    BY <1>1
<1>4. f \in capRequired /\ ~Accepted(f)
    BY DEF IInv, CAPHistory, CAPHistoryOf
<1>5. court[f] = "authority"
    BY Courts DEF court
<1>6. "cap" \in outstanding[f]
    BY <1>4, OutstandingOf
<1>7. court' = [court EXCEPT ![f] = CourtOf(AfterCAP(f, decision))]
    BY <1>1, CourtMoves
<1>8. caps' = caps /\ capRequired' = capRequired /\ evidenceRequired' = evidenceRequired
    BY <1>1
<1>9. \A g \in Findings : ClosedBy(latest[g])' <=> ClosedBy(latest[g])
    BY DEF ClosedBy
<1> HIDE DEF d
<1>10. Accepted(f)' <=> decision = "ACCEPT"
    BY <1>2, <1>3, <1>4, <1>8 DEF Accepted
<1>11. \A g \in Findings : g # f => (Accepted(g)' <=> Accepted(g))
    BY <1>2, <1>3, <1>8 DEF Accepted
<1>12. CASE decision = "ACCEPT"
  <2>1. ~ClosedBy(latest[f])
    BY OpenIsNotClosedBy
  <2>2. "evidence" \in outstanding[f] <=> f \in evidenceRequired
    BY <2>1, OutstandingOf
  <2>3. CourtOf(AfterCAP(f, decision)) =
            IF "evidence" \in outstanding[f] THEN "auditee" ELSE "authority"
    BY <1>12, <2>2, Courts DEF AfterCAP, AwaitsEvidence
  <2>4. \A g \in Findings : g # f => outstanding'[g] = outstanding[g]
    BY <1>8, <1>9, <1>11 DEF outstanding
  <2>5. outstanding'[f] = outstanding[f] \ {"cap"}
    BY <1>8, <1>9, <1>10, <1>12 DEF outstanding
  <2>6. outstanding' = [outstanding EXCEPT ![f] = outstanding[f] \ {"cap"}]
    BY <2>4, <2>5 DEF outstanding
  <2> QED
    BY <1>5, <1>6, <1>7, <2>3, <2>6 DEF Promise!ApproveCAP, Promise!Move
<1>13. CASE decision # "ACCEPT"
  <2>1. \A g \in Findings : Accepted(g)' <=> Accepted(g)
    BY <1>4, <1>10, <1>11, <1>13
  <2>2. outstanding' = outstanding
    BY <1>8, <1>9, <2>1, OutstandingStays
  <2>3. CourtOf(AfterCAP(f, decision)) = "auditee"
    BY <1>13, Courts DEF AfterCAP, AwaitsCAP
  <2> QED
    BY <1>5, <1>6, <1>7, <2>2, <2>3 DEF Promise!SendBack, Promise!Move
<1> QED
    BY <1>12, <1>13

LEMMA AuthorizedClosePromise ==
    ASSUME IInv, NEW f \in Findings, AuthorizedCloseFinding(f)
    PROVE  Promise!Close(f)
<1> USE DEF AuthorizedCloseFinding, Advance, decisions, evidence
<1>1. (f \in capRequired => Accepted(f)) /\ f \notin evidenceRequired
    BY DEF IInv, CAPHistory, CAPHistoryOf, EvidenceHistory
<1>2. outstanding[f] = {}
    BY <1>1, OutstandingOf
<1>3. outstanding' = outstanding
    BY OutstandingStays DEF Accepted, ClosedBy
<1>4. court[f] = "authority"
    BY Courts DEF court
<1>5. court' = [court EXCEPT ![f] = CourtOf("CLOSED")]
    BY CourtMoves
<1> QED
    BY <1>2, <1>3, <1>4, <1>5, Courts DEF Promise!Close, Promise!Move

LEMMA CompletePromise ==
    ASSUME IInv, NEW u \in Uploads, Complete(u)
    PROVE  Promise!Submit(of[u])
<1> DEFINE f == of[u]
<1> USE DEF Complete, SubmissionBoundary, Advance, decisions
<1>1. f \in Findings /\ scan[u] = "NONE" /\ status[f] \in AwaitsEvidence
    BY NoneAssumption DEF IInv, TypeOK, SessionsMakeVersions
<1>2. ~ClosedBy(latest[f])
    BY <1>1, OpenIsNotClosedBy DEF AwaitsEvidence
<1>3. ~ClosedBy(latest[f])'
    BY <1>1 DEF IInv, TypeOK, EvidenceHistory, ClosedBy
<1>4. \A g \in Findings : ClosedBy(latest[g])' <=> ClosedBy(latest[g])
    BY <1>2, <1>3 DEF ClosedBy, IInv, TypeOK
<1>5. \A g \in Findings : Accepted(g)' <=> Accepted(g)
    BY DEF Accepted
<1>6. outstanding' = outstanding
    BY <1>4, <1>5, OutstandingStays
<1>7. "cap" \notin outstanding[f]
    BY <1>1, OutstandingOf DEF IInv, CAPHistory, CAPHistoryOf, AwaitsEvidence
<1>8. court[f] = "auditee"
    BY <1>1, Courts DEF court
<1>9. court' = [court EXCEPT ![f] = CourtOf("EVIDENCE_SUBMITTED")]
    BY <1>1, CourtMoves
<1> QED
    BY <1>6, <1>7, <1>8, <1>9, Courts DEF Promise!Submit, Promise!Move

LEMMA ReviewEvidencePromise ==
    ASSUME IInv, NEW f \in Findings, ReviewEvidence(f)
    PROVE  Promise!CloseOnEvidence(f) \/ Promise!SendBack(f)
<1> USE DEF ReviewEvidence, Reviewable, Advance, evidence
<1>1. PICK decision \in {"CLOSE", "PARTIALLY_CLOSE", "NOT_CLOSE",
                         "REQUEST_MORE_INFORMATION"} :
          /\ Advance(f, IF decision = "CLOSE" THEN "CLOSED"
                        ELSE "EVIDENCE_MORE_INFORMATION_REQUESTED")
          /\ evidenceDecisions' = evidenceDecisions \cup
                {[upload |-> latest[f], decision |-> decision, at |-> revision[f]]}
    OBVIOUS
<1> DEFINE d == [upload |-> latest[f], decision |-> decision, at |-> revision[f]]
           next == IF decision = "CLOSE" THEN "CLOSED"
                   ELSE "EVIDENCE_MORE_INFORMATION_REQUESTED"
<1>2. d.upload = latest[f] /\ d.decision = decision
    OBVIOUS
<1>3. /\ d \in evidenceDecisions'
      /\ \A e \in evidenceDecisions' : e = d \/ e \in evidenceDecisions
      /\ evidenceDecisions \subseteq evidenceDecisions'
    BY <1>1
<1>4. /\ status[f] = "PENDING_CAA_REVIEW"
      /\ f \in evidenceRequired
      /\ f \in capRequired => Accepted(f)
      /\ \A g \in Findings : g # f => latest[g] # latest[f]
    BY DEF IInv, TypeOK, SubmittedAwaitsScan, EvidenceHistory, CAPHistory, CAPHistoryOf,
           SessionsMakeVersions, AwaitsReview
<1>5. ~ClosedBy(latest[f])
    BY <1>4, OpenIsNotClosedBy
<1>6. outstanding[f] = {"evidence"}
    BY <1>4, <1>5, OutstandingOf
<1>7. court[f] = "authority"
    BY <1>4, Courts DEF court
<1>8. court' = [court EXCEPT ![f] = CourtOf(next)]
    BY <1>1, CourtMoves
<1>9. capRequired' = capRequired /\ evidenceRequired' = evidenceRequired
      /\ \A g \in Findings : Accepted(g)' <=> Accepted(g)
    BY <1>1 DEF Accepted
<1> HIDE DEF d
<1>10. ClosedBy(latest[f])' <=> decision = "CLOSE"
    BY <1>2, <1>3, <1>5 DEF ClosedBy
<1>11. \A g \in Findings : g # f => (ClosedBy(latest[g])' <=> ClosedBy(latest[g]))
    BY <1>2, <1>3, <1>4 DEF ClosedBy
<1>12. CASE decision = "CLOSE"
  <2>1. \A g \in Findings : g # f => outstanding'[g] = outstanding[g]
    BY <1>9, <1>11 DEF outstanding
  <2>2. outstanding'[f] = {}
    BY <1>4, <1>9, <1>10, <1>12 DEF outstanding
  <2>3. outstanding' = [outstanding EXCEPT ![f] = {}]
    BY <2>1, <2>2 DEF outstanding
  <2> QED
    BY <1>6, <1>7, <1>8, <1>12, <2>3, Courts DEF Promise!CloseOnEvidence, Promise!Move
<1>13. CASE decision # "CLOSE"
  <2>1. \A g \in Findings : ClosedBy(latest[g])' <=> ClosedBy(latest[g])
    BY <1>5, <1>10, <1>11, <1>13
  <2>2. outstanding' = outstanding
    BY <1>9, <2>1, OutstandingStays
  <2>3. CourtOf(next) = "auditee"
    BY <1>13, Courts DEF AwaitsEvidence
  <2> QED
    BY <1>6, <1>7, <1>8, <2>2, <2>3 DEF Promise!SendBack, Promise!Move
<1> QED
    BY <1>12, <1>13

(* The answer to a scan hands the finding on. *)
LEMMA AnswerPromise ==
    ASSUME IInv, NEW f \in Findings,
           NEW next \in {"PENDING_CAA_REVIEW", "EVIDENCE_MORE_INFORMATION_REQUESTED"},
           Answer(f, next), UNCHANGED <<caps, decisions, latest>>
    PROVE  Promise!Screen(f) \/ UNCHANGED Promise!vars
<1>1. CASE status[f] = "EVIDENCE_SUBMITTED"
  <2>1. status' = [status EXCEPT ![f] = next] /\ UNCHANGED <<capRequired, evidenceRequired>>
    BY <1>1 DEF Answer, Advance
  <2>2. outstanding' = outstanding
    BY <2>1, OutstandingStays DEF decisions, Accepted, ClosedBy
  <2>3. court[f] = "scan"
    BY <1>1, Courts DEF court
  <2>4. court' = [court EXCEPT ![f] = CourtOf(next)]
    BY <2>1, CourtMoves
  <2>5. CourtOf(next) \in {"auditee", "authority"}
    BY Courts DEF AwaitsEvidence
  <2> QED
    BY <2>2, <2>3, <2>4, <2>5 DEF Promise!Screen, Promise!Move
<1>2. CASE status[f] # "EVIDENCE_SUBMITTED"
    BY <1>2, PromiseStutters DEF Answer, finding
<1> QED
    BY <1>1, <1>2

LEMMA StepPromise == IInv /\ [Next]_vars => [Promise!Next]_(Promise!vars)
<1> SUFFICES ASSUME IInv, [Next]_vars PROVE [Promise!Next]_(Promise!vars)
    OBVIOUS
<1>1. CASE UNCHANGED vars
    BY <1>1, PromiseStutters DEF vars, finding, decisions, evidence
<1>2. ASSUME NEW f \in Findings, ConvertPotentialFinding(f) PROVE Promise!Next
    BY <1>2, ConvertPromise DEF Promise!Next
<1>3. ASSUME NEW f \in Findings, SubmitCAP(f) PROVE Promise!Next
    BY <1>3, SubmitCAPPromise DEF Promise!Next
<1>4. ASSUME NEW f \in Findings, ReviewCAP(f) PROVE Promise!Next
    BY <1>4, ReviewCAPPromise DEF Promise!Next
<1>5. ASSUME NEW f \in Findings, ReviewEvidence(f) PROVE Promise!Next
    BY <1>5, ReviewEvidencePromise DEF Promise!Next
<1>6. ASSUME NEW f \in Findings, AuthorizedCloseFinding(f) PROVE Promise!Next
    BY <1>6, AuthorizedClosePromise DEF Promise!Next
<1>7. ASSUME NEW u \in Uploads, Complete(u) PROVE Promise!Next
  <2>1. of[u] \in Findings
    BY <1>7, NoneAssumption DEF IInv, TypeOK, SessionsMakeVersions, Complete
  <2> QED
    BY <1>7, <2>1, CompletePromise DEF Promise!Next
<1>8. ASSUME NEW w \in Workers, finalizeEvidence(w) \/ recordTerminalFailure(w)
      PROVE  Promise!Next \/ UNCHANGED Promise!vars
  <2>1. job[w] \in Uploads /\ scan[job[w]] # "NONE"
    BY <1>8 DEF IInv, JobsAreVersions, finalizeEvidence, recordTerminalFailure
  <2>2. of[job[w]] \in Findings
    BY <2>1, NoneAssumption DEF IInv, TypeOK, SessionsMakeVersions
  <2>3. CASE finalizeEvidence(w)
    <3>1. AfterScan(w) \in {"PENDING_CAA_REVIEW", "EVIDENCE_MORE_INFORMATION_REQUESTED"}
        BY DEF AfterScan
    <3>2. scan[job[w]] \notin Judged
        BY <2>1, <2>3 DEF finalizeEvidence, LeaseHeld, IInv, OutboxMatchesScan
    <3> QED
        BY <2>2, <2>3, <3>1, <3>2, AnswerPromise DEF finalizeEvidence, Promise!Next
  <2>4. CASE recordTerminalFailure(w) /\ PendingScan(job[w])
    BY <2>2, <2>4, AnswerPromise DEF recordTerminalFailure, Promise!Next
  <2>5. CASE recordTerminalFailure(w) /\ ~PendingScan(job[w])
    BY <2>5, PromiseStutters DEF recordTerminalFailure, finding
  <2> QED
    BY <1>8, <2>3, <2>4, <2>5
<1>9. ASSUME UNCHANGED <<finding, caps, decisions, evidence>>
      PROVE  UNCHANGED Promise!vars
    BY <1>9, PromiseStutters DEF finding, decisions, evidence
<1> QED
    BY <1>1, <1>2, <1>3, <1>4, <1>5, <1>6, <1>7, <1>8, <1>9
    DEF Next, Begin, LeaseExpires, claimNext, markDelivered, Open, Scan,
        finalizeStale, FinalizeAborts, recordFailure, Crash

(* The lifecycle of a Finding implements FindingPromise: one court at a time,
   and closed when all that is required is approved (canonical_transitions.go,
   upload_service.go, worker.go). *)
THEOREM LifecycleKeepsPromise == Spec => KeepsPromise
BY InitPromise, StepPromise, Invariance, PTL DEF Spec, KeepsPromise, Promise!Spec

=============================================================================
