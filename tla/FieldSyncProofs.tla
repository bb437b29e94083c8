--------------------------- MODULE FieldSyncProofs ---------------------------
(* Theorems about FieldSync, for every number of operations, grants, faults    *)
(* and connected edits, and every set of answers.                              *)
EXTENDS FieldSync, SequenceTheorems, WellFoundedInduction, TLAPS

(* The inductive invariant.  First the rows of the outbox and of the log, and     *)
(* what the server can answer.                                                 *)
OutboxRows == [kind : Kinds, base : Nat, answer : Answers, grant : 1..MaxGrants,
               deps : SUBSET (1..MaxOps), state : States]
LogRows == [request : Requests, revision : Nat]
Results == [status : {"none", "accepted", "retryable", "conflict", "forbidden", "invalid"},
            revision : Nat,
            code : {"none", "ASSIGNMENT_CHANGED", "GRANT", "PACKAGE_REVOKED", "STALE_REVISION",
                    "VALIDATION", "OPERATION_ID_REUSE"}]

\* Every request that was ever sent and may have an effect.
Sent == late \union {log[i].request : i \in DOMAIN log}
             \union (IF eng = "wait" THEN {request} ELSE {})

\* A row waits for rows of the outbox, and only while it is blocked or when it gave way.
RowsFit ==
  \A o \in Ops : /\ outbox[o].deps \subseteq Ops
                 /\ outbox[o].state \notin {"BLOCKED_ON_DEPENDENCY", "SUPERSEDED"} => outbox[o].deps = {}

\* A blocked row waits for something, and for no row whose release it missed. A row that was
\* refused never releases anything, and may well be waited for.
CausesAreLive ==
  \A o \in Ops : /\ outbox[o].state = "BLOCKED_ON_DEPENDENCY" => outbox[o].deps # {}
                 /\ \A d \in outbox[o].deps :
                       outbox[d].state \notin {"ACKNOWLEDGED", "SUPERSEDED"}

\* The operation in the engine's hands is in flight, and an acceptance of it is stored.
EngineFits ==
  /\ result \in Results
  /\ eng \in {"mark", "wait"} => target \in Ops
  /\ eng = "wait" => /\ outbox[target].state = "IN_FLIGHT"
                     /\ request.op = target /\ request \in Requests
                     /\ result.status = "accepted" => Stored(target) # {}

\* What was sent waits for nothing, so nothing will change its base any more.
SentFits == \A r \in Sent : r.op \in Ops /\ r = Request(r.op) /\ outbox[r.op].deps = {}

AcknowledgedIsStored == \A o \in Ops : outbox[o].state = "ACKNOWLEDGED" => Stored(o) # {}

\* The local response points at an edit that is not done, and the newest edit never gave way.
ResponseFits ==
  /\ response.op # 0 => /\ response.op \in Edits
                        /\ outbox[response.op].state \notin {"ACKNOWLEDGED", "SUPERSEDED"}
  /\ response.exists => Edits # {}
  /\ Edits # {} => /\ outbox[Latest(Edits)].state # "SUPERSEDED"
                   /\ Active(Latest(Edits)) => /\ response.op = Latest(Edits)
                                               /\ response.text = Latest(Edits)

\* A submission comes after every edit and waits for the newest one, until that one is settled.
SubmissionFits ==
  \A s \in Ops : outbox[s].kind = "SUBMIT_CHECKLIST" =>
     /\ checklist = "SUBMITTED" /\ Edits # {} /\ \A e \in Edits : e < s
     /\ \/ Latest(Edits) \in outbox[s].deps
        \/ outbox[Latest(Edits)].state = "REJECTED"
        \/ Stored(Latest(Edits)) # {}

\* The type invariant in parts.
DeviceOK ==
  /\ outbox \in Seq(OutboxRows) /\ Len(outbox) <= MaxOps
  /\ response \in [text : 0..MaxOps, answer : Answers, revision : Nat, op : 0..MaxOps,
                   exists : BOOLEAN]
  /\ draft \in [op : 0..MaxOps, sync : {"NONE", "PENDING", "ACKNOWLEDGED", "CONFLICT", "REJECTED"},
                known : BOOLEAN, echoed : BOOLEAN]
  /\ checklist \in {"IN_PROGRESS", "SUBMITTED"} /\ grant \in 1..MaxGrants /\ usable \in BOOLEAN
EngineOK ==
  /\ eng \in {"idle", "push", "mark", "wait", "pull", "apply"} /\ bound \in 1..MaxGrants
  /\ target \in 0..MaxOps /\ late \in SUBSET Requests /\ faults \in 0..MaxFaults
PullOK == cursor \in [mark : 0..Len(log), grant : 1..MaxGrants] /\ page \in 0..Len(log)
ServerOK ==
  /\ log \in Seq(LogRows)
  /\ held \in [text : 0..MaxOps, answer : Answers, revision : Nat]
  /\ submitted \in BOOLEAN /\ version \in Nat /\ withdrawn \in BOOLEAN
  /\ ended \in [1..MaxGrants -> {"no", "revoked", "expired"}]
  /\ office \in 0..MaxOffice

IInv == /\ TypeOK /\ RowsFit /\ EngineFits /\ SentFits /\ AcknowledgedIsStored
        /\ ResponseFits /\ SubmissionFits /\ CausesAreLive

-----------------------------------------------------------------------------
(* Rows and numbers. *)
LEMMA Rows ==
    ASSUME TypeOK
    PROVE  /\ outbox \in Seq(OutboxRows) /\ Len(outbox) \in Nat /\ Len(outbox) <= MaxOps
           /\ Ops = 1..Len(outbox) /\ Ops \subseteq 1..MaxOps
           /\ \A o \in Ops : outbox[o] \in OutboxRows
           /\ log \in Seq(LogRows) /\ Len(log) \in Nat /\ DOMAIN log = 1..Len(log)
           /\ \A i \in DOMAIN log : log[i] \in LogRows
<1>1. outbox \in Seq(OutboxRows) /\ log \in Seq(LogRows) /\ Len(outbox) <= MaxOps
    BY DEF TypeOK, OutboxRows, LogRows
<1>2. /\ Len(outbox) \in Nat /\ Ops = 1..Len(outbox)
      /\ Len(log) \in Nat /\ DOMAIN log = 1..Len(log)
    BY <1>1, LenProperties DEF Ops
<1>3. Ops \subseteq 1..MaxOps
    BY <1>1, <1>2, FieldBounds
<1> QED
    BY <1>1, <1>2, <1>3, ElementOfSeq

(* A function on the rows' numbers is an outbox of the same length. *)
LEMMA RowsRevised ==
    ASSUME TypeOK, NEW f \in [Ops -> OutboxRows]
    PROVE  f \in Seq(OutboxRows) /\ Len(f) = Len(outbox) /\ DOMAIN f = Ops
<1>1. Ops = 1..Len(outbox) /\ Len(outbox) \in Nat
    BY Rows
<1>2. f \in Seq(OutboxRows)
    BY <1>1, SeqDef
<1>3. Len(f) \in Nat /\ DOMAIN f = 1..Len(f)
    BY <1>2, LenProperties
<1> QED
    BY <1>1, <1>2, <1>3

(* A set of numbers has a least element, and one below a bound a greatest. *)
LessThan == {ss \in Nat \X Nat : ss[1] < ss[2]}

LEMMA LeastNumber ==
    ASSUME NEW S \in SUBSET Nat, S # {}
    PROVE  \E x \in S : \A y \in S : x <= y
<1>1. IsWellFoundedOn(LessThan, Nat)
    BY NatLessThanWellFounded, Zenon DEF OpToRel, LessThan
<1>2. PICK x \in S : \A y \in S : ~ (<<y, x>> \in LessThan)
    BY <1>1, WFMin, Zenon
<1>3. ASSUME NEW y \in S PROVE x <= y
    <2>1. x \in Nat /\ y \in Nat /\ ~ (<<y, x>> \in LessThan)
        BY <1>2
    <2>2. y < x => <<y, x>> \in LessThan
        BY <2>1 DEF LessThan
    <2> QED
        BY <2>1, <2>2
<1> QED
    BY <1>3

(* The oldest of some operations, and the latest of bounded numbers, exist. *)
LEMMA OldestIn ==
    ASSUME NEW S \in SUBSET Nat, S # {}
    PROVE  Oldest(S) \in S
BY LeastNumber, Zenon DEF Oldest

LEMMA LatestIn ==
    ASSUME NEW n \in Nat, NEW S \in SUBSET (1..n), S # {}
    PROVE  Latest(S) \in S /\ \A j \in S : Latest(S) >= j
<1> DEFINE T == {n - s : s \in S}
<1>1. \A s \in S : n - s \in Nat
    OBVIOUS
<1>2. T \in SUBSET Nat /\ T # {}
    BY <1>1, Zenon
<1>3. PICK x \in T : \A y \in T : x <= y
    BY <1>2, LeastNumber, Zenon
<1>4. PICK s \in S : x = n - s
    BY Zenon
<1>5. ASSUME NEW j \in S PROVE s >= j
    <2>1. n - s <= n - j
        BY <1>3, <1>4
    <2> QED
        BY <2>1
<1> QED
    BY <1>5, Zenon DEF Latest

(* A member that no other exceeds is the latest. *)
LEMMA LatestIs ==
    ASSUME NEW S \in SUBSET Nat, NEW n \in S, \A j \in S : n >= j
    PROVE  Latest(S) = n
<1> DEFINE x == Latest(S)
<1>1. x \in S /\ \A j \in S : x >= j
    BY Zenon DEF Latest
<1> HIDE DEF x
<1>2. x = n
    BY <1>1
<1> QED
    BY <1>2 DEF x

(* There is a newest edit as soon as there is an edit. *)
LEMMA Newest ==
    ASSUME TypeOK, Edits # {}
    PROVE  Latest(Edits) \in Edits /\ \A e \in Edits : Latest(Edits) >= e
<1>1. Len(outbox) \in Nat /\ Edits \in SUBSET (1..Len(outbox))
    BY Rows DEF Edits
<1> QED
    BY <1>1, LatestIn

(* The type invariant is the conjunction of its parts. *)
LEMMA TypesTogether ==
    ASSUME DeviceOK', EngineOK', PullOK', ServerOK'
    PROVE  TypeOK'
BY DEF TypeOK, DeviceOK, EngineOK, PullOK, ServerOK, OutboxRows, LogRows

LEMMA TypeParts == TypeOK <=> DeviceOK /\ EngineOK /\ PullOK /\ ServerOK
BY DEF TypeOK, DeviceOK, EngineOK, PullOK, ServerOK, OutboxRows, LogRows

-----------------------------------------------------------------------------
(* The server. *)
LEMMA AnswerIsResult ==
    ASSUME TypeOK, NEW r \in Requests
    PROVE  Pushed(r) \in Results /\ Pushed(r).status # "none"
<1>1. /\ held.revision \in Nat /\ version \in Nat /\ held.answer \in Answers
      /\ InspectionRevision \in Nat
    BY FieldBounds DEF TypeOK
<1>2. Command(r) \in Results /\ Command(r).status # "none"
    <2>1. Upserted(r) \in Results /\ Upserted(r).status # "none"
        BY <1>1 DEF Upserted, Stale, Result, Results
    <2>2. Raised(r) \in Results /\ Raised(r).status # "none"
        BY <1>1 DEF Raised, Stale, Result, Results
    <2>3. Submitted(r) \in Results /\ Submitted(r).status # "none"
        BY <1>1 DEF Submitted, Result, Results
    <2> QED
        BY <2>1, <2>2, <2>3 DEF Command, Requests, Kinds
<1>3. CASE Stored(r.op) # {}
    <2> DEFINE entry == log[CHOOSE i \in Stored(r.op) : TRUE]
    <2>1. entry \in LogRows
        <3>1. (CHOOSE i \in Stored(r.op) : TRUE) \in DOMAIN log
            BY <1>3, Zenon DEF Stored
        <3> QED
            BY <3>1, Rows
    <2>2. Pushed(r) = IF entry.request = r THEN Result("accepted", entry.revision, "none")
                                           ELSE Result("retryable", 0, "OPERATION_ID_REUSE")
        BY <1>3, Zenon DEF Pushed
    <2> HIDE DEF entry
    <2> QED
        BY <2>1, <2>2 DEF Result, Results, LogRows
<1>4. CASE Stored(r.op) = {}
    <2>1. Pushed(r) = IF Authority(r.grant).status = "ok" THEN Command(r) ELSE Authority(r.grant)
        BY <1>4, Zenon DEF Pushed
    <2> QED
        BY <1>1, <1>2, <2>1 DEF Authority, Result, Results
<1> QED
    BY <1>3, <1>4

(* Handling a request that was sent. *)
LEMMA Handled ==
    ASSUME IInv, NEW r \in Sent, r \in Requests, Handle(r)
    PROVE  /\ ServerOK' /\ Len(log') >= Len(log)
           /\ \A i \in DOMAIN log' : log'[i].request \in Sent
           /\ \A o \in Ops : Stored(o) # {} => Stored(o)' # {}
           /\ Pushed(r).status = "accepted" => Stored(r.op)' # {}
<1> DEFINE answer == Pushed(r)
           entry == [request |-> r, revision |-> answer.revision]
<1>1. TypeOK /\ answer \in Results
    BY AnswerIsResult DEF IInv
<1>2. /\ log \in Seq(LogRows) /\ Len(log) \in Nat /\ DOMAIN log = 1..Len(log)
      /\ \A i \in DOMAIN log : log[i] \in LogRows
    BY <1>1, Rows
<1>3. CASE Applies(r, answer)
    <2>1. /\ log' = Append(log, entry)
          /\ held' = IF r.kind # "UPSERT_CHECKLIST_RESPONSE" THEN held
                     ELSE [text |-> r.op, answer |-> r.answer, revision |-> answer.revision]
          /\ submitted' = (submitted \/ r.kind = "SUBMIT_CHECKLIST")
          /\ version' = IF r.kind = "SUBMIT_CHECKLIST" THEN answer.revision ELSE version
          /\ UNCHANGED <<ended, withdrawn, office>>
        BY <1>3, Zenon DEF Handle
    <2> HIDE DEF answer
    <2>2. entry \in LogRows
        BY <1>1 DEF LogRows, Results
    <2>3. /\ log' \in Seq(LogRows) /\ Len(log') = Len(log) + 1
          /\ \A i \in 1..Len(log) : log'[i] = log[i]
          /\ log'[Len(log) + 1] = entry
        BY <1>2, <2>1, <2>2, AppendProperties
    <2>4. DOMAIN log' = 1..(Len(log) + 1)
        BY <2>3, LenProperties
    <2>5. ServerOK'
        <3>1. r.op \in 0..MaxOps /\ r.answer \in Answers /\ answer.revision \in Nat
            BY <1>1, FieldBounds DEF Requests, Results
        <3>2. held' \in [text : 0..MaxOps, answer : Answers, revision : Nat]
            BY <1>1, <2>1, <3>1 DEF TypeOK
        <3>3. submitted' \in BOOLEAN /\ version' \in Nat
            BY <1>1, <2>1, <3>1 DEF TypeOK
        <3> QED
            BY <1>1, <2>1, <2>3, <3>2, <3>3 DEF ServerOK, TypeOK
    <2>6. \A i \in DOMAIN log' : log'[i].request \in Sent
        BY <1>2, <2>3, <2>4 DEF Sent
    <2>7. \A o \in Ops : Stored(o) # {} => Stored(o)' # {}
        BY <1>2, <2>3, <2>4 DEF Stored
    <2>8. Stored(r.op)' # {}
        <3>1. Len(log) + 1 \in DOMAIN log' /\ log'[Len(log) + 1].request.op = r.op
            BY <1>2, <2>3, <2>4
        <3> QED
            BY <3>1 DEF Stored
    <2> QED
        BY <1>2, <2>3, <2>5, <2>6, <2>7, <2>8
<1>4. CASE ~ Applies(r, answer)
    <2>1. UNCHANGED server
        BY <1>4, Zenon DEF Handle
    <2> HIDE DEF answer
    <2>2. ServerOK'
        BY <1>1, <2>1 DEF ServerOK, TypeOK, server, LogRows
    <2>3. \A i \in DOMAIN log' : log'[i].request \in Sent
        BY <2>1 DEF server, Sent
    <2>4. \A o \in Ops \cup {r.op} : Stored(o)' = Stored(o)
        BY <2>1 DEF server, Stored
    <2>5. answer.status = "accepted" => Stored(r.op)' # {}
        BY <1>4, <2>4 DEF Applies
    <2> QED
        BY <1>2, <2>1, <2>2, <2>3, <2>4, <2>5 DEF server, answer
<1> QED
    BY <1>3, <1>4

-----------------------------------------------------------------------------
(* Steps that leave the outbox as it is. *)
LEMMA OutboxKept ==
    ASSUME IInv, UNCHANGED <<outbox, checklist>>, Sent' \subseteq Sent,
           \A o \in Ops : Stored(o) # {} => Stored(o)' # {}
    PROVE  RowsFit' /\ CausesAreLive' /\ SentFits' /\ AcknowledgedIsStored' /\ SubmissionFits'
<1>1. Ops' = Ops /\ Edits' = Edits
    BY DEF Ops, Edits
<1>2. RowsFit' /\ CausesAreLive' /\ AcknowledgedIsStored'
    BY <1>1 DEF IInv, RowsFit, CausesAreLive, AcknowledgedIsStored
<1>3. SentFits'
    BY <1>1 DEF IInv, SentFits, Request
<1>4. SubmissionFits'
    <2>1. Edits # {} => Latest(Edits) \in Ops
        BY Newest DEF IInv, Edits
    <2> QED
        BY <1>1, <2>1 DEF IInv, SubmissionFits
<1> QED
    BY <1>2, <1>3, <1>4

LEMMA ResponseKept ==
    ASSUME IInv, UNCHANGED <<outbox, response>>
    PROVE  ResponseFits'
<1>1. Ops' = Ops /\ Edits' = Edits
    BY DEF Ops, Edits
<1> QED
    BY <1>1 DEF IInv, ResponseFits, Active

(* What the inspector and the office do besides: the engine does not notice. *)
LEMMA BesideTheEngine ==
    ASSUME IInv, UNCHANGED <<outbox, response, checklist, engine, late, log>>, TypeOK'
    PROVE  IInv'
<1>1. /\ Sent' \subseteq Sent /\ Ops' = Ops
      /\ \A o \in Nat : Stored(o)' = Stored(o)
    BY DEF engine, Sent, Stored, Ops
<1>2. Ops \subseteq Nat
    BY Rows DEF IInv
<1>3. EngineFits'
    BY <1>1, <1>2 DEF IInv, EngineFits, engine
<1> QED
    BY <1>1, <1>2, <1>3, OutboxKept, ResponseKept DEF IInv

(* What happens at the server alone leaves the types of the device and the engine. *)
LEMMA ServerTypes ==
    ASSUME TypeOK, ServerOK', UNCHANGED <<device, engine, late, faults, log>>
    PROVE  TypeOK'
<1>1. DeviceOK /\ EngineOK /\ PullOK
    BY TypeParts
<1>2. DeviceOK'
    BY <1>1 DEF DeviceOK, device
<1>3. EngineOK'
    BY <1>1 DEF EngineOK, engine
<1>4. PullOK'
    BY <1>1 DEF PullOK, device, engine
<1> QED
    BY <1>2, <1>3, <1>4, TypesTogether

(* Edits, submissions, reopenings, ended grants and withdrawals through the office. *)
LEMMA OfficeStep ==
    ASSUME IInv, Office \/ CheckoutPackage
    PROVE  IInv'
<1> USE DEF device, engine, server
<1>1. TypeOK
    BY DEF IInv
<1>2. ASSUME NEW a \in Answers, EditOnline(a) PROVE TypeOK'
    <2>1. held' \in [text : 0..MaxOps, answer : Answers, revision : Nat]
        BY <1>1, <1>2, FieldBounds DEF EditOnline, TypeOK
    <2>2. office' \in 0..MaxOffice
        BY <1>1, <1>2, FieldBounds DEF EditOnline, TypeOK
    <2>3. UNCHANGED <<device, engine, late, faults, log, submitted, version, ended, withdrawn>>
        BY <1>2 DEF EditOnline
    <2>4. ServerOK'
        BY <1>1, <2>1, <2>2, <2>3, TypeParts DEF ServerOK
    <2> QED
        BY <1>1, <2>3, <2>4, ServerTypes
<1>3. CASE SubmitOnline
    BY <1>1, <1>3, FieldBounds, BesideTheEngine DEF SubmitOnline, TypeOK
<1>4. CASE ReopenChecklist
    <2>1. version \in Nat /\ version' = version + 1
        BY <1>1, <1>4, Zenon DEF ReopenChecklist, TypeOK
    <2>2. version' \in Nat /\ submitted' \in BOOLEAN
        <3>1. version' \in Nat
            BY <2>1
        <3>2. submitted' \in BOOLEAN
            BY <1>4, Zenon DEF ReopenChecklist
        <3> QED
            BY <3>1, <3>2
    <2>3. TypeOK'
        BY <1>1, <1>4, <2>2 DEF ReopenChecklist, TypeOK
    <2> QED
        BY <1>4, <2>3, BesideTheEngine DEF ReopenChecklist
<1>5. ASSUME NEW cause \in {"revoked", "expired"}, EndGrant(cause) PROVE TypeOK'
    <2>1. ended' \in [1..MaxGrants -> {"no", "revoked", "expired"}] /\ office' \in 0..MaxOffice
        BY <1>1, <1>5, FieldBounds DEF EndGrant, TypeOK
    <2>2. ServerOK' /\ UNCHANGED <<device, engine, late, faults, log>>
        BY <1>1, <1>5, <2>1, TypeParts DEF EndGrant, ServerOK
    <2> QED
        BY <1>1, <2>2, ServerTypes
<1>6. CASE WithdrawPackage
    BY <1>1, <1>6, FieldBounds, BesideTheEngine DEF WithdrawPackage, TypeOK
<1>7. CASE CheckoutPackage
    BY <1>1, <1>7, FieldBounds, BesideTheEngine DEF CheckoutPackage, TypeOK
<1>8. ASSUME NEW a \in Answers, EditOnline(a) PROVE IInv'
    BY <1>2, <1>8, BesideTheEngine DEF EditOnline
<1>9. ASSUME NEW cause \in {"revoked", "expired"}, EndGrant(cause) PROVE IInv'
    BY <1>5, <1>9, BesideTheEngine DEF EndGrant
<1> QED
    BY <1>3, <1>4, <1>6, <1>7, <1>8, <1>9, Zenon DEF Office

(* The oldest deliverable operation is chosen. *)
LEMMA ListStep ==
    ASSUME IInv, ListDeliverable
    PROVE  IInv'
<1> USE DEF device, server
<1>1. TypeOK /\ Ops \subseteq 1..MaxOps /\ Ops \subseteq Nat
    BY Rows DEF IInv
<1>2. Deliverable # {} => Oldest(Deliverable) \in Ops
    <2>1. Deliverable \in SUBSET Nat /\ Deliverable \subseteq Ops
        BY <1>1 DEF Deliverable
    <2> QED
        BY <2>1, OldestIn
<1> HIDE DEF Deliverable
<1>3. EngineFits' /\ EngineOK'
    <2>1. CASE Deliverable = {}
        BY <1>1, <2>1 DEF ListDeliverable, IInv, EngineFits, EngineOK, TypeOK
    <2>2. CASE Deliverable # {}
        <3>1. eng' = "mark" /\ target' \in Ops /\ Ops' = Ops
            BY <1>2, <2>2 DEF ListDeliverable, Ops
        <3> QED
            BY <1>1, <3>1, FieldBounds DEF ListDeliverable, IInv, EngineFits, EngineOK, TypeOK
    <2> QED
        BY <2>1, <2>2
<1>4. Sent' \subseteq Sent /\ \A o \in Ops : Stored(o)' = Stored(o)
    BY DEF ListDeliverable, Sent, Stored
<1>5. TypeOK'
    <2>1. DeviceOK /\ PullOK /\ ServerOK
        BY <1>1, TypeParts
    <2>2. UNCHANGED <<device, page, server>>
        BY DEF ListDeliverable
    <2>3. DeviceOK' /\ PullOK' /\ ServerOK'
        BY <2>1, <2>2 DEF DeviceOK, PullOK, ServerOK
    <2> QED
        BY <1>3, <2>3, TypesTogether
<1> QED
    BY <1>3, <1>4, <1>5, OutboxKept, ResponseKept DEF IInv, ListDeliverable

(* The request the engine waits for is applied, or refused. *)
LEMMA ServeStep ==
    ASSUME IInv, Serve
    PROVE  IInv'
<1> USE DEF device
<1>1. TypeOK
    BY DEF IInv
<1>2. eng = "wait" /\ request \in Sent /\ request \in Requests /\ request.op = target
    BY DEF Serve, Sent, IInv, EngineFits
<1> PICK r \in Sent : r = request
    BY <1>2
<1>3. r \in Requests /\ r.op = target /\ Handle(r)
    BY <1>2 DEF Serve
<1>4. /\ ServerOK' /\ Len(log') >= Len(log)
      /\ \A i \in DOMAIN log' : log'[i].request \in Sent
      /\ \A o \in Ops : Stored(o) # {} => Stored(o)' # {}
      /\ Pushed(r).status = "accepted" => Stored(r.op)' # {}
    BY <1>3, Handled
<1>5. Sent' \subseteq Sent
    BY <1>2, <1>4 DEF Sent, Serve
<1>6. result' \in Results /\ result' = Pushed(r)
    BY <1>1, <1>3, AnswerIsResult DEF Serve
<1>7. EngineFits'
    <2>1. target' = target /\ request' = request /\ eng' = eng /\ outbox' = outbox
        BY DEF Serve
    <2>2. result'.status = "accepted" => Stored(target)' # {}
        BY <1>3, <1>4, <1>6, <2>1
    <2> QED
        BY <1>2, <1>6, <2>1, <2>2 DEF IInv, EngineFits, Ops
<1>8. TypeOK'
    <2>1. DeviceOK' /\ EngineOK'
        BY <1>1, TypeParts DEF DeviceOK, EngineOK, Serve
    <2>2. PullOK'
        <3>1. Len(log') \in Nat /\ Len(log) \in Nat
            BY <1>1, <1>4, Rows, LenProperties DEF ServerOK
        <3>2. cursor \in [mark : 0..Len(log), grant : 1..MaxGrants] /\ page \in 0..Len(log)
            BY <1>1, TypeParts DEF PullOK
        <3>3. 0..Len(log) \subseteq 0..Len(log')
            BY <1>4, <3>1
        <3>4. cursor \in [mark : 0..Len(log'), grant : 1..MaxGrants] /\ page \in 0..Len(log')
            BY <3>2, <3>3
        <3> QED
            BY <3>4 DEF PullOK, Serve
    <2> QED
        BY <1>4, <2>1, <2>2, TypesTogether
<1> QED
    BY <1>4, <1>5, <1>7, <1>8, OutboxKept, ResponseKept DEF IInv, Serve

(* So is one that nobody waits for any more. *)
LEMMA ServeLateStep ==
    ASSUME IInv, NEW r \in late, ServeLate(r)
    PROVE  IInv'
<1> USE DEF device, engine
<1>1. TypeOK
    BY DEF IInv
<1>2. r \in Sent /\ r \in Requests
    BY <1>1 DEF Sent, TypeOK
<1>3. Handle(r)
    BY DEF ServeLate
<1>4. /\ ServerOK' /\ Len(log') >= Len(log)
      /\ \A i \in DOMAIN log' : log'[i].request \in Sent
      /\ \A o \in Ops : Stored(o) # {} => Stored(o)' # {}
    BY <1>2, <1>3, Handled
<1>5. Sent' \subseteq Sent
    BY <1>2, <1>4 DEF Sent, ServeLate
<1>6. EngineFits'
    BY <1>4 DEF IInv, EngineFits, ServeLate, Ops
<1>7. TypeOK'
    <2>1. DeviceOK' /\ EngineOK'
        BY <1>1, TypeParts DEF DeviceOK, EngineOK, ServeLate
    <2>2. PullOK'
        <3>1. Len(log') \in Nat /\ Len(log) \in Nat
            BY <1>1, <1>4, Rows, LenProperties DEF ServerOK
        <3>2. cursor \in [mark : 0..Len(log), grant : 1..MaxGrants] /\ page \in 0..Len(log)
            BY <1>1, TypeParts DEF PullOK
        <3>3. 0..Len(log) \subseteq 0..Len(log')
            BY <1>4, <3>1
        <3>4. cursor \in [mark : 0..Len(log'), grant : 1..MaxGrants] /\ page \in 0..Len(log')
            BY <3>2, <3>3
        <3> QED
            BY <3>4 DEF PullOK, ServeLate
    <2> QED
        BY <1>4, <2>1, <2>2, TypesTogether
<1> QED
    BY <1>4, <1>5, <1>6, <1>7, OutboxKept, ResponseKept DEF IInv, ServeLate

(* The browser is closed. *)
LEMMA CrashStep ==
    ASSUME IInv, Crash
    PROVE  IInv'
<1> USE DEF device, server
<1>1. TypeOK
    BY DEF IInv
<1>2. /\ UNCHANGED <<outbox, response, checklist, log>> /\ eng' = "idle"
      /\ Sent' \subseteq Sent /\ \A o \in Ops : Stored(o)' = Stored(o)
    BY DEF Crash, Sent, Stored
<1>3. late' \in SUBSET Requests /\ faults' \in 0..MaxFaults
    BY <1>1, FieldBounds DEF Crash, IInv, EngineFits, TypeOK
<1>4. target' \in 0..MaxOps /\ page' \in 0..Len(log)
    BY <1>1, Rows, FieldBounds DEF Crash
<1>5. TypeOK'
    <2>1. DeviceOK /\ EngineOK /\ PullOK /\ ServerOK
        BY <1>1, TypeParts
    <2>2. DeviceOK' /\ PullOK' /\ ServerOK'
        BY <1>4, <2>1 DEF Crash, DeviceOK, PullOK, ServerOK
    <2>3. EngineOK'
        BY <1>3, <1>4, <2>1 DEF Crash, EngineOK
    <2> QED
        BY <2>2, <2>3, TypesTogether
<1>6. EngineFits'
    BY <1>2 DEF Crash, EngineFits, NoResult, Results
<1> QED
    BY <1>2, <1>5, <1>6, OutboxKept, ResponseKept DEF IInv

(* A page of changes is fetched. *)
LEMMA FetchStep ==
    ASSUME IInv, FetchPage
    PROVE  IInv'
<1> USE DEF device, server
<1>1. TypeOK /\ Len(log) \in Nat /\ DOMAIN log = 1..Len(log)
    BY Rows DEF IInv
<1>2. Changes(cursor.mark) # {} => Latest(Changes(cursor.mark)) \in 1..Len(log)
    <2>1. Changes(cursor.mark) \in SUBSET (1..Len(log))
        BY <1>1 DEF Changes
    <2> QED
        BY <1>1, <2>1, LatestIn
<1>3. page' \in 0..Len(log) /\ eng' \in {"idle", "apply"}
    <2>1. \/ PullAllowed /\ Changes(cursor.mark) # {} /\ page' = Latest(Changes(cursor.mark))
             /\ eng' = "apply"
          \/ eng' = "idle" /\ page' = page
        BY Zenon DEF FetchPage
    <2>2. page \in 0..Len(log)
        BY <1>1 DEF TypeOK
    <2> HIDE DEF Changes, Latest
    <2> QED
        BY <1>1, <1>2, <2>1, <2>2
<1>4. Sent' \subseteq Sent /\ \A o \in Ops : Stored(o)' = Stored(o)
    BY <1>3 DEF FetchPage, Sent, Stored
<1>5. TypeOK'
    <2>1. DeviceOK' /\ ServerOK'
        BY <1>1, TypeParts DEF DeviceOK, ServerOK, FetchPage
    <2>2. EngineOK' /\ PullOK'
        BY <1>1, <1>3, TypeParts DEF EngineOK, PullOK, FetchPage
    <2> QED
        BY <2>1, <2>2, TypesTogether
<1>6. EngineFits'
    BY <1>3 DEF FetchPage, IInv, EngineFits
<1> QED
    BY <1>4, <1>5, <1>6, OutboxKept, ResponseKept DEF IInv, FetchPage

(* A page is applied: work that is not acknowledged keeps its place. *)
LEMMA ApplyStep ==
    ASSUME IInv, ApplyPage
    PROVE  IInv'
<1> USE DEF server
<1> DEFINE seen == {i \in Changes(cursor.mark) : i <= page}
           edits == {i \in seen : log[i].request.kind = "UPSERT_CHECKLIST_RESPONSE"}
           last == log[Latest(edits)]
           busy == response.op # 0 /\ outbox[response.op].state # "ACKNOWLEDGED"
           refreshed == [response EXCEPT !.revision = last.revision]
           taken == [text |-> last.request.op, answer |-> last.request.answer,
                     revision |-> last.revision, op |-> 0, exists |-> TRUE]
           known == [draft EXCEPT !.sync = IF @ = "PENDING" THEN @ ELSE "ACKNOWLEDGED"]
           doubled == [draft EXCEPT !.echoed = TRUE]
<1>1. TypeOK /\ Len(log) \in Nat /\ DOMAIN log = 1..Len(log)
    BY Rows DEF IInv
<1>2. edits # {} => /\ last \in LogRows
                    /\ last.request.op \in Edits
    <2>1. edits \in SUBSET (1..Len(log))
        BY <1>1 DEF Changes
    <2>2. edits # {} => Latest(edits) \in edits
        BY <1>1, <2>1, LatestIn
    <2>3. ASSUME NEW i \in edits PROVE log[i] \in LogRows /\ log[i].request.op \in Edits
        <3>1. i \in DOMAIN log /\ log[i].request.kind = "UPSERT_CHECKLIST_RESPONSE"
            BY DEF Changes
        <3>2. log[i].request \in Sent
            BY <3>1 DEF Sent
        <3>3. log[i].request.op \in Ops /\ log[i].request = Request(log[i].request.op)
            BY <3>2 DEF IInv, SentFits
        <3>4. outbox[log[i].request.op].kind = "UPSERT_CHECKLIST_RESPONSE"
            BY <3>1, <3>3 DEF Request
        <3> QED
            BY <1>1, <3>1, <3>3, <3>4, Rows DEF Edits
    <2> QED
        BY <2>2, <2>3
<1>3. /\ eng = "apply" /\ eng' = "idle" /\ page' = 0
      /\ UNCHANGED <<outbox, checklist, grant, usable, bound, target, request, result, late, faults,
                     server>>
    BY Zenon DEF ApplyPage
<1>4. \/ UNCHANGED <<response, draft, cursor>>
      \/ /\ response' = IF edits = {} THEN response ELSE IF busy THEN refreshed ELSE taken
         /\ draft' = IF seen = edits THEN draft ELSE IF draft.known THEN known ELSE doubled
         /\ cursor' = [mark |-> page, grant |-> grant]
    BY Zenon DEF ApplyPage
<1>a. draft \in [op : 0..MaxOps,
                 sync : {"NONE", "PENDING", "ACKNOWLEDGED", "CONFLICT", "REJECTED"},
                 known : BOOLEAN, echoed : BOOLEAN]
    BY <1>1 DEF TypeOK
<1>b. /\ known \in [op : 0..MaxOps,
                    sync : {"NONE", "PENDING", "ACKNOWLEDGED", "CONFLICT", "REJECTED"},
                    known : BOOLEAN, echoed : BOOLEAN]
      /\ doubled \in [op : 0..MaxOps,
                      sync : {"NONE", "PENDING", "ACKNOWLEDGED", "CONFLICT", "REJECTED"},
                      known : BOOLEAN, echoed : BOOLEAN]
    BY <1>a
<1> HIDE DEF seen, edits, last, busy, refreshed, taken, known, doubled
<1>5. draft' \in [op : 0..MaxOps,
                  sync : {"NONE", "PENDING", "ACKNOWLEDGED", "CONFLICT", "REJECTED"},
                  known : BOOLEAN, echoed : BOOLEAN]
    <2>1. draft' = draft \/ draft' = known \/ draft' = doubled
        BY <1>4, Zenon
    <2> QED
        BY <1>a, <1>b, <2>1
<1>6. cursor' \in [mark : 0..Len(log), grant : 1..MaxGrants]
    <2>1. /\ cursor \in [mark : 0..Len(log), grant : 1..MaxGrants]
          /\ page \in 0..Len(log) /\ grant \in 1..MaxGrants
        BY <1>1 DEF TypeOK
    <2>2. cursor' = cursor \/ cursor' = [mark |-> page, grant |-> grant]
        BY <1>4, Zenon
    <2> QED
        BY <2>1, <2>2
<1>7. /\ response' \in [text : 0..MaxOps, answer : Answers, revision : Nat, op : 0..MaxOps,
                        exists : BOOLEAN]
      /\ ResponseFits'
    <2>1. CASE response' = response
        BY <1>1, <1>3, <2>1, ResponseKept DEF TypeOK
    <2>2. CASE edits # {} /\ busy /\ response' = refreshed
        <3>1. last.revision \in Nat
            BY <1>2, <2>2 DEF LogRows
        <3>2. Edits' = Edits
            BY <1>3 DEF Edits, Ops
        <3>3. response \in [text : 0..MaxOps, answer : Answers, revision : Nat, op : 0..MaxOps,
                            exists : BOOLEAN]
            BY <1>1 DEF TypeOK
        <3> QED
            BY <1>3, <2>2, <3>1, <3>2, <3>3 DEF IInv, ResponseFits, Active, refreshed
    <2>3. CASE edits # {} /\ ~ busy /\ response' = taken
        <3>1. /\ last.revision \in Nat /\ last.request.answer \in Answers
              /\ last.request.op \in 0..MaxOps
            BY <1>2, <2>3, FieldBounds DEF LogRows, Requests
        <3>2. Edits' = Edits /\ Edits # {}
            BY <1>2, <1>3, <2>3 DEF Edits, Ops
        <3>3. Latest(Edits) \in Edits /\ Latest(Edits) # 0
            BY <1>1, <3>2, Newest, Rows DEF Edits
        <3>4. ~ Active(Latest(Edits))
            BY <2>3, <3>2, <3>3 DEF IInv, ResponseFits, busy, Active, Terminal
        <3>5. response'.op = 0
            BY <2>3 DEF taken
        <3>6. response' \in [text : 0..MaxOps, answer : Answers, revision : Nat, op : 0..MaxOps,
                             exists : BOOLEAN]
            BY <2>3, <3>1, FieldBounds DEF taken
        <3> QED
            BY <1>3, <3>2, <3>4, <3>5, <3>6 DEF IInv, ResponseFits, Active
    <2> QED
        BY <1>4, <2>1, <2>2, <2>3
<1>8. TypeOK'
    <2>1. DeviceOK'
        BY <1>1, <1>3, <1>5, <1>7, TypeParts DEF DeviceOK
    <2>2. EngineOK'
        BY <1>1, <1>3, TypeParts DEF EngineOK
    <2>3. PullOK'
        BY <1>1, <1>3, <1>6 DEF PullOK
    <2>4. ServerOK'
        BY <1>1, <1>3, TypeParts DEF ServerOK
    <2> QED
        BY <2>1, <2>2, <2>3, <2>4
           DEF TypeOK, DeviceOK, EngineOK, PullOK, ServerOK, OutboxRows, LogRows
<1>9. EngineFits' /\ Sent' \subseteq Sent /\ \A o \in Ops : Stored(o)' = Stored(o)
    BY <1>3 DEF IInv, EngineFits, Sent, Stored
<1> QED
    BY <1>3, <1>7, <1>8, <1>9, OutboxKept DEF IInv

-----------------------------------------------------------------------------
(* Steps that write rows of the outbox without adding one.  What such a step   *)
(* may do to a row: it keeps its content, and its base once nothing can change *)
(* that any more; it waits for fewer rows, those it no longer waits for being  *)
(* stored; what is acknowledged is stored, and what is settled stays so.       *)
RowRevised(o) ==
  /\ outbox'[o].kind = outbox[o].kind /\ outbox'[o].answer = outbox[o].answer
  /\ outbox'[o].grant = outbox[o].grant
  /\ outbox[o].deps = {} => outbox'[o].base = outbox[o].base
  /\ outbox'[o].deps \subseteq outbox[o].deps
  /\ \A d \in outbox[o].deps \ outbox'[o].deps : Stored(d) # {}
  /\ outbox'[o].state = "SUPERSEDED" => outbox[o].state = "SUPERSEDED"
  /\ outbox[o].state \in {"ACKNOWLEDGED", "REJECTED"} => outbox'[o].state = outbox[o].state
  /\ outbox'[o].state = "ACKNOWLEDGED" => Stored(o) # {}
  /\ outbox'[o].state \notin {"BLOCKED_ON_DEPENDENCY", "SUPERSEDED"} => outbox'[o].deps = {}
  /\ outbox'[o].state = "BLOCKED_ON_DEPENDENCY" => outbox'[o].deps # {}
  /\ \A d \in outbox'[o].deps : outbox'[d].state # "ACKNOWLEDGED"

\* The response forgets the operation that was acknowledged, and no other.
ResponseRevised ==
  /\ response'.exists = response.exists /\ response'.text = response.text
  /\ \/ response'.op = response.op
     \/ response'.op = 0 /\ outbox'[response.op].state = "ACKNOWLEDGED"
  /\ response.op # 0 /\ outbox'[response.op].state = "ACKNOWLEDGED" => response'.op = 0

(* Such a step keeps every part of the invariant but the types and the engine's. *)
LEMMA OutboxRevised ==
    ASSUME IInv, Ops' = Ops, UNCHANGED <<checklist, log>>, ResponseRevised,
           \A o \in Ops : RowRevised(o),
           \A r \in Sent' : \/ r \in Sent
                            \/ r.op \in Ops /\ r = Request(r.op) /\ outbox[r.op].deps = {}
    PROVE  /\ RowsFit' /\ CausesAreLive' /\ SentFits' /\ AcknowledgedIsStored'
           /\ SubmissionFits' /\ ResponseFits'
<1>1. \A o \in Ops : Stored(o)' = Stored(o)
    BY DEF Stored
<1>2. Edits' = Edits
    BY DEF Edits, RowRevised
<1>3. Edits # {} => Latest(Edits) \in Edits /\ Latest(Edits) \in Ops
    BY Newest DEF IInv, Edits
<1>4. RowsFit'
    BY DEF IInv, RowsFit, RowRevised
<1>5. CausesAreLive'
    <2> SUFFICES ASSUME NEW o \in Ops
                 PROVE  /\ outbox'[o].state = "BLOCKED_ON_DEPENDENCY" => outbox'[o].deps # {}
                        /\ \A d \in outbox'[o].deps :
                              outbox'[d].state \notin {"ACKNOWLEDGED", "SUPERSEDED"}
        BY DEF CausesAreLive
    <2>1. /\ outbox'[o].state = "BLOCKED_ON_DEPENDENCY" => outbox'[o].deps # {}
          /\ outbox'[o].deps \subseteq outbox[o].deps
          /\ \A d \in outbox'[o].deps : outbox'[d].state # "ACKNOWLEDGED"
        BY DEF RowRevised
    <2>2. ASSUME NEW d \in outbox'[o].deps PROVE outbox'[d].state # "SUPERSEDED"
        <3>1. d \in Ops /\ outbox[d].state # "SUPERSEDED"
            BY <2>1, <2>2 DEF IInv, RowsFit, CausesAreLive
        <3> QED
            BY <3>1 DEF RowRevised
    <2> QED
        BY <2>1, <2>2
<1>6. SentFits'
    <2> SUFFICES ASSUME NEW r \in Sent'
                 PROVE  r.op \in Ops /\ r = Request(r.op)' /\ outbox'[r.op].deps = {}
        BY DEF SentFits
    <2>1. r.op \in Ops /\ r = Request(r.op) /\ outbox[r.op].deps = {}
        BY DEF IInv, SentFits
    <2>2. RowRevised(r.op)
        BY <2>1
    <2> QED
        BY <2>1, <2>2 DEF Request, RowRevised
<1>7. AcknowledgedIsStored'
    BY <1>1 DEF AcknowledgedIsStored, RowRevised
<1>8. SubmissionFits'
    <2> SUFFICES ASSUME NEW s \in Ops, outbox'[s].kind = "SUBMIT_CHECKLIST"
                 PROVE  /\ checklist = "SUBMITTED" /\ Edits # {} /\ \A e \in Edits : e < s
                        /\ \/ Latest(Edits) \in outbox'[s].deps
                           \/ outbox'[Latest(Edits)].state = "REJECTED"
                           \/ Stored(Latest(Edits)) # {}
        BY <1>1, <1>2, <1>3 DEF SubmissionFits
    <2>1. outbox[s].kind = "SUBMIT_CHECKLIST" /\ RowRevised(s)
        BY DEF RowRevised
    <2>2. /\ checklist = "SUBMITTED" /\ Edits # {} /\ \A e \in Edits : e < s
          /\ \/ Latest(Edits) \in outbox[s].deps
             \/ outbox[Latest(Edits)].state = "REJECTED"
             \/ Stored(Latest(Edits)) # {}
        BY <2>1 DEF IInv, SubmissionFits
    <2>3. RowRevised(Latest(Edits))
        BY <1>3, <2>2
    <2> QED
        BY <2>1, <2>2, <2>3 DEF RowRevised
<1>9. ResponseFits'
    <2>1. response'.op # 0 => /\ response'.op \in Edits
                              /\ outbox'[response'.op].state \notin {"ACKNOWLEDGED", "SUPERSEDED"}
        <3> SUFFICES ASSUME response'.op # 0
                     PROVE  /\ response'.op \in Edits
                            /\ outbox'[response'.op].state \notin {"ACKNOWLEDGED", "SUPERSEDED"}
            OBVIOUS
        <3>1. response'.op = response.op /\ outbox'[response.op].state # "ACKNOWLEDGED"
            BY DEF ResponseRevised
        <3>2. response.op \in Edits /\ outbox[response.op].state # "SUPERSEDED"
            BY <3>1 DEF IInv, ResponseFits
        <3>3. RowRevised(response.op)
            BY <3>2 DEF Edits
        <3> QED
            BY <3>1, <3>2, <3>3 DEF RowRevised
    <2>2. response'.exists => Edits # {}
        BY DEF IInv, ResponseFits, ResponseRevised
    <2>3. ASSUME Edits # {}
          PROVE  /\ outbox'[Latest(Edits)].state # "SUPERSEDED"
                 /\ outbox'[Latest(Edits)].state \notin Terminal =>
                       response'.op = Latest(Edits) /\ response'.text = Latest(Edits)
        <3> DEFINE n == Latest(Edits)
        <3>1. RowRevised(n) /\ outbox[n].state # "SUPERSEDED"
            BY <1>3, <2>3 DEF IInv, ResponseFits
        <3>2. /\ outbox'[n].state # "SUPERSEDED"
              /\ outbox'[n].state \notin Terminal => outbox[n].state \notin Terminal
            BY <3>1 DEF RowRevised, Terminal
        <3>3. outbox[n].state \notin Terminal => response.op = n /\ response.text = n
            BY <2>3 DEF IInv, ResponseFits, Active
        <3> HIDE DEF n
        <3> QED
            BY <3>2, <3>3 DEF ResponseRevised, Terminal, n
    <2> QED
        BY <1>2, <2>1, <2>2, <2>3 DEF ResponseFits, Active
<1> QED
    BY <1>4, <1>5, <1>6, <1>7, <1>8, <1>9

(* The operation in the engine's hands changes its state. *)
LEMMA StateChanged ==
    ASSUME IInv, NEW o \in Ops,
           NEW x \in {"IN_FLIGHT", "FAILED_RETRYABLE", "CONFLICT", "REJECTED"},
           outbox[o].state \in {"PENDING", "IN_FLIGHT"},
           outbox' = [outbox EXCEPT ![o].state = x], response'.op = response.op,
           response'.exists = response.exists, response'.text = response.text
    PROVE  /\ outbox' \in Seq(OutboxRows) /\ Len(outbox') = Len(outbox) /\ Ops' = Ops
           /\ outbox'[o].state = x /\ \A p \in Ops : RowRevised(p)
           /\ ResponseRevised
           /\ Told' = Told
<1>1. /\ outbox \in Seq(OutboxRows) /\ Ops = 1..Len(outbox)
      /\ \A p \in Ops : outbox[p] \in OutboxRows
    BY Rows DEF IInv
<1> DEFINE row == [outbox[o] EXCEPT !.state = x]
<1>2. /\ row \in OutboxRows /\ row.state = x
      /\ row.kind = outbox[o].kind /\ row.answer = outbox[o].answer /\ row.base = outbox[o].base
      /\ row.grant = outbox[o].grant /\ row.deps = outbox[o].deps
    BY <1>1 DEF OutboxRows, States, Unsent, Terminal
<1>3. outbox' = [outbox EXCEPT ![o] = row]
    OBVIOUS
<1> HIDE DEF row
<1>4. /\ outbox' \in Seq(OutboxRows) /\ Len(outbox') = Len(outbox)
      /\ \A p \in Ops : outbox'[p] = IF p = o THEN row ELSE outbox[p]
    BY <1>1, <1>2, <1>3, ExceptSeq
<1>5. Ops' = Ops
    BY <1>1, <1>4, LenProperties DEF Ops
<1>6. \A p \in Ops : outbox'[p].state = "ACKNOWLEDGED" => outbox[p].state = "ACKNOWLEDGED"
    BY <1>2, <1>4
<1>7. ASSUME NEW p \in Ops PROVE RowRevised(p)
    <2>1. CASE p = o
        BY <1>2, <1>4, <2>1 DEF RowRevised, IInv, RowsFit
    <2>2. CASE p # o
        <3>1. outbox'[p] = outbox[p]
            BY <1>4, <2>2
        <3>2. outbox[p].deps \subseteq Ops
            BY DEF IInv, RowsFit
        <3> QED
            BY <1>6, <3>1, <3>2
               DEF RowRevised, IInv, RowsFit, CausesAreLive, AcknowledgedIsStored
    <2> QED
        BY <2>1, <2>2
<1>8. ResponseRevised
    <2>1. response.op # 0 => response.op \in Ops /\ outbox[response.op].state # "ACKNOWLEDGED"
        BY DEF IInv, ResponseFits, Edits
    <2> QED
        BY <1>6, <2>1 DEF ResponseRevised
<1>9. Told' = Told
    <2>1. row.state # "ACKNOWLEDGED" /\ outbox[o].state # "ACKNOWLEDGED"
        BY <1>2
    <2> QED
        BY <1>4, <1>5, <2>1 DEF Told
<1> QED
    BY <1>2, <1>4, <1>5, <1>7, <1>8, <1>9

(* The chosen operation is put in flight, unless it gave way meanwhile. *)
LEMMA MarkStep ==
    ASSUME IInv, MarkInFlight
    PROVE  IInv' /\ Told' = Told
<1>1. TypeOK /\ target \in Ops /\ eng = "mark"
    BY DEF IInv, EngineFits, MarkInFlight
<1>2. CASE outbox[target].state = "PENDING"
    <2> PICK o \in Ops : o = target
        BY <1>1
    <2>1. /\ outbox' = [outbox EXCEPT ![o].state = "IN_FLIGHT"] /\ target' = o
          /\ request' = Request(o) /\ result' = NoResult /\ eng' = "wait"
          /\ UNCHANGED <<response, draft, checklist, grant, usable, cursor, bound, page, late, faults,
                         server>>
        BY <1>2 DEF MarkInFlight
    <2>2. /\ outbox' \in Seq(OutboxRows) /\ Len(outbox') = Len(outbox) /\ Ops' = Ops
          /\ outbox'[o].state = "IN_FLIGHT" /\ \A p \in Ops : RowRevised(p)
          /\ ResponseRevised /\ Told' = Told
        BY <1>2, <2>1, StateChanged
    <2>3. outbox[o].deps = {} /\ outbox[o] \in OutboxRows
        BY <1>1, <1>2, Rows DEF IInv, RowsFit
    <2>4. Request(o) \in Requests /\ Request(o).op = o
        BY <1>1, <2>3, Rows DEF Request, Requests, OutboxRows
    <2>5. \A r \in Sent' : \/ r \in Sent
                           \/ r.op \in Ops /\ r = Request(r.op) /\ outbox[r.op].deps = {}
        BY <2>1, <2>3, <2>4 DEF Sent, server
    <2>6. EngineFits'
        BY <2>1, <2>2, <2>4 DEF EngineFits, NoResult, Results
    <2>7. TypeOK'
        <3>1. DeviceOK'
            BY <1>1, <2>1, <2>2, TypeParts DEF DeviceOK
        <3>2. EngineOK'
            BY <1>1, <2>1, TypeParts DEF EngineOK
        <3>3. PullOK' /\ ServerOK'
            BY <1>1, <2>1, TypeParts DEF PullOK, ServerOK, server
        <3> QED
            BY <3>1, <3>2, <3>3 DEF TypeOK, DeviceOK, EngineOK, PullOK, ServerOK, OutboxRows, LogRows
    <2> QED
        BY <2>1, <2>2, <2>5, <2>6, <2>7, OutboxRevised DEF IInv, server
<1>3. CASE outbox[target].state # "PENDING"
    <2>1. /\ eng' = "idle" /\ target' = 0
          /\ UNCHANGED <<outbox, request, result, response, draft, checklist, grant, usable, cursor,
                         bound, page, late, faults, server>>
        BY <1>3 DEF MarkInFlight
    <2>2. TypeOK' /\ EngineFits'
        BY <1>1, <2>1, FieldBounds DEF TypeOK, IInv, EngineFits, server
    <2>3. Sent' \subseteq Sent /\ \A o \in Ops : Stored(o)' = Stored(o)
        BY <2>1 DEF Sent, Stored, server
    <2> QED
        BY <2>1, <2>2, <2>3, OutboxKept, ResponseKept DEF IInv, Told, Ops
<1> QED
    BY <1>2, <1>3

(* The call fails: the operation will be tried again. *)
LEMMA CallFailsStep ==
    ASSUME IInv, CallFails
    PROVE  IInv' /\ Told' = Told
<1>1. TypeOK /\ target \in Ops /\ eng = "wait" /\ outbox[target].state = "IN_FLIGHT"
    BY DEF IInv, EngineFits, CallFails
<1> PICK o \in Ops : o = target
    BY <1>1
<1>2. /\ outbox' = [outbox EXCEPT ![o].state = "FAILED_RETRYABLE"]
      /\ late' = IF result = NoResult THEN late \union {request} ELSE late
      /\ faults < MaxFaults /\ faults' = faults + 1
      /\ eng' = "idle" /\ target' = 0 /\ result' = NoResult
      /\ UNCHANGED <<response, draft, checklist, grant, usable, cursor, bound, page, server>>
    BY DEF CallFails, Retry
<1>3. /\ outbox' \in Seq(OutboxRows) /\ Len(outbox') = Len(outbox) /\ Ops' = Ops
      /\ \A p \in Ops : RowRevised(p)
      /\ ResponseRevised /\ Told' = Told
    BY <1>1, <1>2, StateChanged
<1>4. Sent' \subseteq Sent
    BY <1>1, <1>2 DEF Sent, server
<1>5. EngineFits'
    BY <1>2 DEF EngineFits, NoResult, Results
<1>6. TypeOK'
    <2>1. DeviceOK'
        BY <1>1, <1>2, <1>3, TypeParts DEF DeviceOK
    <2>2. EngineOK'
        <3>1. late' \in SUBSET Requests
            BY <1>1, <1>2 DEF IInv, EngineFits, TypeOK
        <3>2. faults \in 0..MaxFaults
            BY <1>1 DEF TypeOK
        <3>3. target' \in 0..MaxOps /\ faults' \in 0..MaxFaults
            BY <1>2, <3>2, FieldBounds
        <3> QED
            BY <1>1, <1>2, <3>1, <3>3, TypeParts DEF EngineOK
    <2>3. PullOK' /\ ServerOK'
        BY <1>1, <1>2, TypeParts DEF PullOK, ServerOK, server
    <2> QED
        BY <2>1, <2>2, <2>3 DEF TypeOK, DeviceOK, EngineOK, PullOK, ServerOK, OutboxRows, LogRows
<1> QED
    BY <1>2, <1>3, <1>4, <1>5, <1>6, OutboxRevised DEF IInv, server

(* What a change of its state leaves of a row. *)
LEMMA StateOnly ==
    ASSUME NEW row \in OutboxRows, NEW x \in States
    PROVE  /\ [row EXCEPT !.state = x] \in OutboxRows
           /\ [row EXCEPT !.state = x].state = x
           /\ [row EXCEPT !.state = x].kind = row.kind
           /\ [row EXCEPT !.state = x].answer = row.answer
           /\ [row EXCEPT !.state = x].base = row.base
           /\ [row EXCEPT !.state = x].grant = row.grant
           /\ [row EXCEPT !.state = x].deps = row.deps
BY DEF OutboxRows

(* A cycle starts: what was interrupted or has waited long enough is released. *)
LEMMA StartStep ==
    ASSUME IInv, NEW due \in BOOLEAN, StartCycle(due)
    PROVE  IInv' /\ Told' = Told
<1> DEFINE new(o) == IF due THEN Released(Recovered(outbox[o])) ELSE Recovered(outbox[o])
<1>1. TypeOK /\ \A o \in Ops : outbox[o] \in OutboxRows
    BY Rows DEF IInv
<1>2. ASSUME NEW o \in Ops
      PROVE  /\ new(o) \in OutboxRows
             /\ new(o).kind = outbox[o].kind /\ new(o).answer = outbox[o].answer
             /\ new(o).base = outbox[o].base /\ new(o).grant = outbox[o].grant
             /\ new(o).deps = outbox[o].deps
             /\ \/ new(o).state = outbox[o].state
                \/ /\ outbox[o].state \in {"IN_FLIGHT", "FAILED_RETRYABLE"}
                   /\ new(o).state \in {"FAILED_RETRYABLE", "PENDING"}
    <2> DEFINE row == outbox[o]
               recovered == Recovered(row)
    <2>1. /\ row \in OutboxRows
          /\ row.state \in {"IN_FLIGHT", "FAILED_RETRYABLE"} => row.deps = {}
        BY <1>1 DEF IInv, RowsFit
    <2> HIDE DEF row
    <2>2. /\ recovered \in OutboxRows
          /\ recovered.kind = row.kind /\ recovered.answer = row.answer
          /\ recovered.base = row.base /\ recovered.grant = row.grant /\ recovered.deps = row.deps
          /\ recovered.state = IF row.state = "IN_FLIGHT" THEN "FAILED_RETRYABLE" ELSE row.state
        <3>1. "FAILED_RETRYABLE" \in States
            BY DEF States, Unsent
        <3>2. CASE row.state = "IN_FLIGHT"
            <4>1. recovered = [row EXCEPT !.state = "FAILED_RETRYABLE"]
                BY <3>2, Zenon DEF Recovered
            <4> QED
                BY <2>1, <3>1, <3>2, <4>1, StateOnly
        <3>3. CASE row.state # "IN_FLIGHT"
            <4>1. recovered = row
                BY <3>3, Zenon DEF Recovered
            <4> HIDE DEF recovered
            <4> QED
                BY <2>1, <3>3, <4>1
        <3> QED
            BY <3>2, <3>3
    <2> HIDE DEF recovered
    <2>3. recovered.state = "FAILED_RETRYABLE" =>
              Released(recovered) = [recovered EXCEPT !.state = "PENDING"]
        <3>1. recovered.state = "FAILED_RETRYABLE" => recovered.deps = {}
            BY <2>1, <2>2
        <3> QED
            BY <3>1, Zenon DEF Released
    <2>4. recovered.state # "FAILED_RETRYABLE" => Released(recovered) = recovered
        BY DEF Released
    <2>5. new(o) = IF due THEN Released(recovered) ELSE recovered
        BY DEF row, recovered
    <2> HIDE DEF new
    <2>6. CASE new(o) = recovered
        BY <2>1, <2>2, <2>6 DEF row
    <2>7. CASE recovered.state = "FAILED_RETRYABLE" /\ new(o) = [recovered EXCEPT !.state = "PENDING"]
        <3>1. "PENDING" \in States
            BY DEF States, Unsent
        <3>2. row.state \in {"IN_FLIGHT", "FAILED_RETRYABLE"}
            BY <2>2, <2>7
        <3> QED
            BY <2>1, <2>2, <2>7, <3>1, <3>2, StateOnly DEF row
    <2> QED
        BY <2>3, <2>4, <2>5, <2>6, <2>7
<1>3. /\ outbox' = [o \in Ops |-> new(o)] /\ eng' = "push" /\ bound' = grant /\ eng = "idle"
      /\ UNCHANGED <<response, draft, checklist, grant, usable, cursor, target, request, result, page,
                     late, faults, server>>
    BY DEF StartCycle
<1> HIDE DEF new
<1>4. /\ outbox' \in [Ops -> OutboxRows] /\ \A o \in Ops : outbox'[o] = new(o)
    BY <1>2, <1>3
<1>5. outbox' \in Seq(OutboxRows) /\ Len(outbox') = Len(outbox) /\ Ops' = Ops
    BY <1>1, <1>4, RowsRevised DEF Ops
<1>6. ASSUME NEW o \in Ops PROVE RowRevised(o)
    <2>1. outbox[o].deps \subseteq Ops
        BY DEF IInv, RowsFit
    <2>2. \A p \in Ops : outbox'[p].state = "ACKNOWLEDGED" => outbox[p].state = "ACKNOWLEDGED"
        BY <1>2, <1>4
    <2> QED
        BY <1>2, <1>4, <2>1, <2>2
           DEF RowRevised, IInv, RowsFit, CausesAreLive, AcknowledgedIsStored
<1>7. ResponseRevised
    <2>1. response.op # 0 => response.op \in Ops /\ outbox[response.op].state # "ACKNOWLEDGED"
        BY DEF IInv, ResponseFits, Edits
    <2>2. response.op # 0 => outbox'[response.op].state # "ACKNOWLEDGED"
        BY <1>2, <1>4, <2>1
    <2> QED
        BY <1>3, <2>2 DEF ResponseRevised
<1>8. Sent' \subseteq Sent
    BY <1>3 DEF Sent, server
<1>9. EngineFits'
    BY <1>3 DEF IInv, EngineFits
<1>10. TypeOK'
    <2>1. DeviceOK' /\ EngineOK'
        BY <1>1, <1>3, <1>5, TypeParts DEF DeviceOK, EngineOK
    <2>2. PullOK' /\ ServerOK'
        BY <1>1, <1>3, TypeParts DEF PullOK, ServerOK, server
    <2> QED
        BY <2>1, <2>2 DEF TypeOK, DeviceOK, EngineOK, PullOK, ServerOK, OutboxRows, LogRows
<1>11. Told' = Told
    BY <1>2, <1>4, <1>5 DEF Told
<1> QED
    BY <1>11, <1>3, <1>5, <1>6, <1>7, <1>8, <1>9, <1>10, OutboxRevised DEF IInv, server

(* What the engine forgets when it has its answer. *)
LEMMA AnswerTaken ==
    ASSUME IInv, UNCHANGED <<bound, page, late, faults, server>>, cursor' = cursor,
           eng' \in {"idle", "push", "pull"}, target' = 0, result' = NoResult, eng = "wait",
           DeviceOK'
    PROVE  TypeOK' /\ EngineFits' /\ Sent' \subseteq Sent
<1>1. TypeOK
    BY DEF IInv
<1>2. EngineOK' /\ PullOK' /\ ServerOK'
    BY <1>1, TypeParts, FieldBounds DEF EngineOK, PullOK, ServerOK, server
<1>3. TypeOK'
    BY <1>2 DEF TypeOK, DeviceOK, EngineOK, PullOK, ServerOK, OutboxRows, LogRows
<1>4. EngineFits'
    BY DEF EngineFits, NoResult, Results
<1>5. Sent' \subseteq Sent
    BY DEF Sent, server
<1> QED
    BY <1>3, <1>4, <1>5

(* An acknowledgement lets what waits for the operation go on. *)
LEMMA UnblockedRow ==
    ASSUME IInv, NEW o \in Ops, NEW revision \in Nat, outbox[o].state = "IN_FLIGHT", Stored(o) # {},
           outbox' = Unblocked(o, revision)
    PROVE  /\ outbox' \in Seq(OutboxRows) /\ Len(outbox') = Len(outbox) /\ Ops' = Ops
           /\ \A i \in Ops : RowRevised(i)
           /\ \A i \in Ops : outbox'[i].state = "ACKNOWLEDGED" <=>
                                i = o \/ outbox[i].state = "ACKNOWLEDGED"
<1>1. TypeOK /\ \A i \in Ops : outbox[i] \in OutboxRows
    BY Rows DEF IInv
<1> DEFINE left(i) == outbox[i].deps \ {o}
           done(i) == [outbox[i] EXCEPT !.state = "ACKNOWLEDGED"]
           base(i) == IF outbox[i].kind = "SUBMIT_CHECKLIST" THEN outbox[i].base ELSE revision
           state(i) == IF left(i) = {} THEN "PENDING" ELSE outbox[i].state
           freed(i) == [outbox[i] EXCEPT !.deps = left(i),
                                         !.base = IF outbox[i].kind = "SUBMIT_CHECKLIST"
                                                  THEN @ ELSE revision,
                                         !.state = IF left(i) = {} THEN "PENDING" ELSE @]
           new(i) == IF i = o THEN done(i) ELSE IF o \notin outbox[i].deps THEN outbox[i] ELSE freed(i)
<1>2. outbox' = [i \in Ops |-> new(i)]
    BY Zenon DEF Unblocked
<1>3. ASSUME NEW i \in Ops
      PROVE  /\ done(i) \in OutboxRows /\ done(i).state = "ACKNOWLEDGED"
             /\ done(i).kind = outbox[i].kind /\ done(i).answer = outbox[i].answer
             /\ done(i).base = outbox[i].base /\ done(i).grant = outbox[i].grant
             /\ done(i).deps = outbox[i].deps
    <2>1. "ACKNOWLEDGED" \in States
        BY DEF States, Terminal
    <2> QED
        BY <1>1, <2>1, StateOnly
<1>4. ASSUME NEW i \in Ops
      PROVE  /\ freed(i) \in OutboxRows /\ freed(i).state = state(i) /\ freed(i).deps = left(i)
             /\ freed(i).kind = outbox[i].kind /\ freed(i).answer = outbox[i].answer
             /\ freed(i).grant = outbox[i].grant
    <2>1. PICK row \in OutboxRows : row = outbox[i]
        BY <1>1
    <2>2. base(i) \in Nat /\ state(i) \in States /\ left(i) \in SUBSET (1..MaxOps)
        BY <2>1 DEF OutboxRows, States, Unsent
    <2>3. PICK b \in Nat : b = base(i)
        BY <2>2
    <2>4. PICK x \in States : x = state(i)
        BY <2>2
    <2>5. PICK d \in SUBSET (1..MaxOps) : d = left(i)
        BY <2>2
    <2>6. freed(i) = [row EXCEPT !.deps = d, !.base = b, !.state = x]
        BY <2>1, <2>3, <2>4, <2>5, Zenon
    <2> HIDE DEF freed, left, base, state
    <2> QED
        BY <2>1, <2>3, <2>4, <2>5, <2>6 DEF OutboxRows
<1> HIDE DEF done, freed
<1>5. /\ outbox' \in [Ops -> OutboxRows]
      /\ \A i \in Ops : outbox'[i] = new(i)
    BY <1>1, <1>2, <1>3, <1>4
<1>6. outbox' \in Seq(OutboxRows) /\ Len(outbox') = Len(outbox) /\ Ops' = Ops
    BY <1>1, <1>5, RowsRevised DEF Ops
<1>7. outbox[o].deps = {}
    BY DEF IInv, RowsFit
<1>8. ASSUME NEW i \in Ops, i # o, o \in outbox[i].deps
      PROVE  outbox[i].state \in {"BLOCKED_ON_DEPENDENCY", "SUPERSEDED"}
    BY <1>8 DEF IInv, RowsFit
<1>9. \A i \in Ops : outbox'[i].state = "ACKNOWLEDGED" <=> i = o \/ outbox[i].state = "ACKNOWLEDGED"
    BY <1>3, <1>4, <1>5, <1>8
<1>10. ASSUME NEW i \in Ops PROVE RowRevised(i)
    <2>1. CASE i = o
        BY <1>3, <1>5, <1>7, <2>1 DEF RowRevised
    <2>2. CASE i # o /\ o \notin outbox[i].deps
        <3>1. outbox'[i] = outbox[i] /\ outbox[i].deps \subseteq Ops
            BY <1>5, <2>2 DEF IInv, RowsFit
        <3> QED
            BY <1>9, <2>2, <3>1
               DEF RowRevised, IInv, RowsFit, CausesAreLive, AcknowledgedIsStored
    <2>3. CASE i # o /\ o \in outbox[i].deps
        <3>1. /\ outbox'[i] = freed(i) /\ outbox[i].deps \subseteq Ops
              /\ outbox[i].state \in {"BLOCKED_ON_DEPENDENCY", "SUPERSEDED"}
            BY <1>5, <1>8, <2>3 DEF IInv, RowsFit
        <3>2. \A d \in outbox'[i].deps : outbox'[d].state # "ACKNOWLEDGED"
            BY <1>4, <1>9, <3>1 DEF IInv, CausesAreLive
        <3> QED
            BY <1>4, <2>3, <3>1, <3>2 DEF RowRevised
    <2> QED
        BY <2>1, <2>2, <2>3
<1> QED
    BY <1>6, <1>9, <1>10

(* The answer arrives: the operation is acknowledged, retried or refused. *)
LEMMA ReceiveStep ==
    ASSUME IInv, Receive
    PROVE  /\ IInv'
           /\ \/ Told' = Told
              \/ \E p \in Ops : Stored(p) # {} /\ Told' = Told \union {p}
<1>1. /\ TypeOK /\ target \in Ops /\ eng = "wait" /\ outbox[target].state = "IN_FLIGHT"
      /\ result \in Results
      /\ result.status = "accepted" => Stored(target) # {}
    BY DEF IInv, EngineFits, Receive
<1> PICK o \in Ops : o = target
    BY <1>1
<1> PICK answer \in Results : answer = result
    BY <1>1
<1>2. /\ target' = 0 /\ request' = <<>> /\ result' = NoResult
      /\ UNCHANGED <<bound, page, late, faults, server>>
    BY DEF Receive
<1>3. /\ response \in [text : 0..MaxOps, answer : Answers, revision : Nat, op : 0..MaxOps,
                       exists : BOOLEAN]
      /\ draft \in [op : 0..MaxOps, sync : {"NONE", "PENDING", "ACKNOWLEDGED", "CONFLICT", "REJECTED"},
                    known : BOOLEAN, echoed : BOOLEAN]
      /\ outbox[o].state = "IN_FLIGHT" /\ answer.revision \in Nat
    BY <1>1 DEF TypeOK, Results
<1>4. ASSUME /\ outbox' \in Seq(OutboxRows) /\ Len(outbox') = Len(outbox) /\ Ops' = Ops
             /\ \A p \in Ops : RowRevised(p)
             /\ ResponseRevised
             /\ UNCHANGED <<checklist, grant, cursor>> /\ usable' \in BOOLEAN
             /\ response' \in [text : 0..MaxOps, answer : Answers, revision : Nat, op : 0..MaxOps,
                               exists : BOOLEAN]
             /\ draft' \in [op : 0..MaxOps,
                            sync : {"NONE", "PENDING", "ACKNOWLEDGED", "CONFLICT", "REJECTED"},
                            known : BOOLEAN, echoed : BOOLEAN]
             /\ eng' \in {"idle", "push", "pull"}
      PROVE  IInv'
    <2>1. DeviceOK'
        BY <1>1, <1>4, TypeParts DEF DeviceOK
    <2>2. TypeOK' /\ EngineFits' /\ Sent' \subseteq Sent
        BY <1>1, <1>2, <1>4, <2>1, AnswerTaken
    <2> QED
        BY <1>2, <1>4, <2>2, OutboxRevised DEF IInv, server
<1>5. CASE answer.status = "accepted" /\ Acknowledge(o, answer.revision) /\ eng' = "push"
    <2>1. /\ outbox' = Unblocked(o, answer.revision)
          /\ response' = IF outbox[o].kind = "UPSERT_CHECKLIST_RESPONSE"
                         THEN ResponseKeeps(o, answer.revision) ELSE response
          /\ draft' = IF outbox[o].kind # "CREATE_POTENTIAL_FINDING" THEN draft
                      ELSE [draft EXCEPT !.known = TRUE, !.op = 0, !.sync = "ACKNOWLEDGED"]
          /\ UNCHANGED <<checklist, grant, usable, cursor>>
        BY <1>5, Zenon DEF Acknowledge
    <2>2. /\ outbox' \in Seq(OutboxRows) /\ Len(outbox') = Len(outbox) /\ Ops' = Ops
          /\ \A i \in Ops : RowRevised(i)
          /\ \A i \in Ops : outbox'[i].state = "ACKNOWLEDGED" <=>
                               i = o \/ outbox[i].state = "ACKNOWLEDGED"
        BY <1>1, <1>3, <1>5, <2>1, UnblockedRow
    <2>3. draft' \in [op : 0..MaxOps,
                      sync : {"NONE", "PENDING", "ACKNOWLEDGED", "CONFLICT", "REJECTED"},
                      known : BOOLEAN, echoed : BOOLEAN]
        <3>1. CASE outbox[o].kind # "CREATE_POTENTIAL_FINDING"
            BY <1>3, <2>1, <3>1
        <3>2. CASE outbox[o].kind = "CREATE_POTENTIAL_FINDING"
            <4>1. draft' = [draft EXCEPT !.known = TRUE, !.op = 0, !.sync = "ACKNOWLEDGED"]
                BY <2>1, <3>2
            <4>2. 0 \in 0..MaxOps
                BY FieldBounds
            <4>3. PICK zero \in 0..MaxOps : zero = 0
                BY <4>2
            <4>4. PICK yes \in BOOLEAN : yes = TRUE
                OBVIOUS
            <4>5. PICK sync \in {"NONE", "PENDING", "ACKNOWLEDGED", "CONFLICT", "REJECTED"} :
                      sync = "ACKNOWLEDGED"
                OBVIOUS
            <4>6. draft' = [draft EXCEPT !.known = yes, !.op = zero, !.sync = sync]
                BY <4>1, <4>3, <4>4, <4>5, Zenon
            <4> QED
                BY <1>3, <4>6
        <3> QED
            BY <3>1, <3>2
    <2>4. /\ response' \in [text : 0..MaxOps, answer : Answers, revision : Nat, op : 0..MaxOps,
                            exists : BOOLEAN]
          /\ response'.exists = response.exists /\ response'.text = response.text
          /\ outbox[o].kind = "UPSERT_CHECKLIST_RESPONSE" =>
                response'.op = IF response.op = o THEN 0 ELSE response.op
          /\ outbox[o].kind # "UPSERT_CHECKLIST_RESPONSE" => response'.op = response.op
        <3>1. PICK revision \in Nat : revision = answer.revision
            BY <1>3
        <3>2. PICK op \in 0..MaxOps : op = IF response.op = o THEN 0 ELSE response.op
            BY <1>3, FieldBounds
        <3>3. outbox[o].kind = "UPSERT_CHECKLIST_RESPONSE" =>
                  response' = [response EXCEPT !.revision = revision, !.op = op]
            BY <2>1, <3>1, <3>2, Zenon DEF ResponseKeeps
        <3>4. outbox[o].kind # "UPSERT_CHECKLIST_RESPONSE" => response' = response
            BY <2>1, Zenon
        <3> QED
            BY <1>3, <3>2, <3>3, <3>4
    <2>5. ResponseRevised
        <3>1. response.op # 0 => /\ response.op \in Ops /\ outbox[response.op].state # "ACKNOWLEDGED"
                                 /\ outbox[response.op].kind = "UPSERT_CHECKLIST_RESPONSE"
            BY DEF IInv, ResponseFits, Edits
        <3>2. Ops \subseteq Nat \ {0}
            BY <1>1, Rows
        <3> QED
            BY <2>2, <2>4, <3>1, <3>2 DEF ResponseRevised
    <2>6. usable' \in BOOLEAN
        BY <1>1, <2>1 DEF TypeOK
    <2>7. Told' = Told \union {o} /\ Stored(o) # {}
        BY <1>1, <1>5, <2>2 DEF Told
    <2> QED
        BY <1>4, <1>5, <2>1, <2>2, <2>3, <2>4, <2>5, <2>6, <2>7
<1>6. CASE answer.status = "retryable" /\ Retry(o) /\ eng' = "idle"
    <2>1. /\ outbox' = [outbox EXCEPT ![o].state = "FAILED_RETRYABLE"]
          /\ UNCHANGED <<response, draft, checklist, grant, usable, cursor>>
        BY <1>6 DEF Retry
    <2>2. /\ outbox' \in Seq(OutboxRows) /\ Len(outbox') = Len(outbox) /\ Ops' = Ops
          /\ \A p \in Ops : RowRevised(p)
          /\ ResponseRevised /\ Told' = Told
        BY <1>3, <2>1, StateChanged
    <2>3. usable' \in BOOLEAN
        BY <1>1, <2>1 DEF TypeOK
    <2> QED
        BY <1>3, <1>4, <1>6, <2>1, <2>2, <2>3
<1>7. CASE Refuse(o, answer) /\ eng' = "pull"
    <2> PICK outcome \in {"CONFLICT", "REJECTED"} : outcome = Outcome(answer)
        BY DEF Outcome
    <2>1. /\ outbox' = [outbox EXCEPT ![o].state = outcome]
          /\ response' = IF outbox[o].kind = "UPSERT_CHECKLIST_RESPONSE" /\ outcome = "CONFLICT"
                            /\ answer.revision # 0
                         THEN [response EXCEPT !.revision = answer.revision] ELSE response
          /\ draft' = IF outbox[o].kind = "CREATE_POTENTIAL_FINDING"
                      THEN [draft EXCEPT !.sync = outcome] ELSE draft
          /\ usable' = (usable /\ answer.code # "PACKAGE_REVOKED")
          /\ UNCHANGED <<checklist, grant, cursor>>
        BY <1>7, Zenon DEF Refuse
    <2>2. /\ response' \in [text : 0..MaxOps, answer : Answers, revision : Nat, op : 0..MaxOps,
                            exists : BOOLEAN]
          /\ response'.op = response.op
          /\ response'.exists = response.exists /\ response'.text = response.text
        BY <1>3, <2>1
    <2>3. draft' \in [op : 0..MaxOps,
                      sync : {"NONE", "PENDING", "ACKNOWLEDGED", "CONFLICT", "REJECTED"},
                      known : BOOLEAN, echoed : BOOLEAN]
        BY <1>3, <2>1
    <2>4. usable' \in BOOLEAN
        BY <2>1, Zenon
    <2>5. /\ outbox' \in Seq(OutboxRows) /\ Len(outbox') = Len(outbox) /\ Ops' = Ops
          /\ \A p \in Ops : RowRevised(p)
          /\ ResponseRevised /\ Told' = Told
        BY <1>3, <2>1, <2>2, StateChanged
    <2> QED
        BY <1>4, <1>7, <2>1, <2>2, <2>3, <2>4, <2>5
<1>8. \/ answer.status = "accepted" /\ Acknowledge(o, answer.revision) /\ eng' = "push"
      \/ answer.status = "retryable" /\ Retry(o) /\ eng' = "idle"
      \/ Refuse(o, answer) /\ eng' = "pull"
    BY Zenon DEF Receive
<1> QED
    BY <1>5, <1>6, <1>7, <1>8

-----------------------------------------------------------------------------
(* The inspector's commands, which add a row to the outbox. *)
LEMMA Grown ==
    ASSUME TypeOK, Len(outbox) < MaxOps, NEW f \in [Ops -> OutboxRows], NEW row \in OutboxRows,
           outbox' = Append(f, row)
    PROVE  /\ outbox' \in Seq(OutboxRows) /\ Len(outbox') <= MaxOps
           /\ Ops' = Ops \union {Len(outbox) + 1}
           /\ \A i \in Ops : outbox'[i] = f[i]
           /\ outbox'[Len(outbox) + 1] = row
           /\ Len(outbox) + 1 \in 1..MaxOps
           /\ \A i \in Ops : i < Len(outbox) + 1
<1>1. Len(outbox) \in Nat /\ Ops = 1..Len(outbox)
    BY Rows
<1>2. f \in Seq(OutboxRows) /\ Len(f) = Len(outbox)
    BY RowsRevised
<1>3. /\ outbox' \in Seq(OutboxRows) /\ Len(outbox') = Len(outbox) + 1
      /\ \A i \in 1..Len(f) : outbox'[i] = f[i]
      /\ outbox'[Len(f) + 1] = row
    BY <1>2, AppendProperties
<1>4. Ops' = 1..(Len(outbox) + 1)
    BY <1>3, LenProperties DEF Ops
<1> QED
    BY <1>1, <1>2, <1>3, <1>4, FieldBounds

\* A new row is ready when it waits for nothing, and blocked otherwise.
LEMMA NewRow ==
    ASSUME TypeOK, NEW kind \in Kinds, NEW base \in Nat, NEW answer \in Answers,
           NEW deps \in SUBSET Ops
    PROVE  /\ Row(kind, base, answer, deps) \in OutboxRows
           /\ Row(kind, base, answer, deps).kind = kind
           /\ Row(kind, base, answer, deps).deps = deps
           /\ Row(kind, base, answer, deps).state =
                 IF deps = {} THEN "PENDING" ELSE "BLOCKED_ON_DEPENDENCY"
<1>1. grant \in 1..MaxGrants /\ deps \in SUBSET (1..MaxOps)
    BY Rows DEF TypeOK
<1> QED
    BY <1>1 DEF Row, OutboxRows, States, Unsent

(* A row that is no edit is added behind the others, which stay as they are. *)
LEMMA Queued ==
    ASSUME IInv, Len(outbox) < MaxOps, NEW kind \in Kinds \ {"UPSERT_CHECKLIST_RESPONSE"},
           NEW base \in Nat, NEW answer \in Answers, NEW deps \in SUBSET Ops,
           \A d \in deps : Active(d),
           outbox' = Append(outbox, Row(kind, base, answer, deps)),
           UNCHANGED <<response, cursor, grant, usable, engine, late, faults, server>>,
           draft' \in [op : 0..MaxOps,
                       sync : {"NONE", "PENDING", "ACKNOWLEDGED", "CONFLICT", "REJECTED"},
                       known : BOOLEAN, echoed : BOOLEAN],
           checklist' \in {"IN_PROGRESS", "SUBMITTED"}
    PROVE  /\ TypeOK' /\ RowsFit' /\ EngineFits' /\ SentFits' /\ AcknowledgedIsStored'
           /\ ResponseFits' /\ CausesAreLive'
           /\ Ops' = Ops \union {Len(outbox) + 1} /\ Edits' = Edits
           /\ \A i \in Ops : outbox'[i] = outbox[i] /\ i < Len(outbox) + 1 /\ Stored(i)' = Stored(i)
           /\ outbox'[Len(outbox) + 1].kind = kind /\ outbox'[Len(outbox) + 1].deps = deps
           /\ Told' = Told
<1> DEFINE row == Row(kind, base, answer, deps)
           o == Len(outbox) + 1
<1>1. TypeOK /\ outbox \in [Ops -> OutboxRows]
    BY Rows DEF IInv
<1>2. /\ row \in OutboxRows /\ row.kind = kind /\ row.deps = deps
      /\ row.state = IF deps = {} THEN "PENDING" ELSE "BLOCKED_ON_DEPENDENCY"
    BY <1>1, NewRow
<1> HIDE DEF row
<1>3. /\ outbox' \in Seq(OutboxRows) /\ Len(outbox') <= MaxOps
      /\ Ops' = Ops \union {o} /\ \A i \in Ops : outbox'[i] = outbox[i]
      /\ outbox'[o] = row /\ o \in 1..MaxOps /\ \A i \in Ops : i < o
    BY <1>1, <1>2, Grown DEF row
<1> HIDE DEF o
<1>4. Edits' = Edits
    BY <1>2, <1>3 DEF Edits
<1>5. \A i \in Nat : Stored(i)' = Stored(i)
    BY DEF Stored, server
<1>6. TypeOK'
    <2>1. DeviceOK'
        BY <1>1, <1>3, TypeParts DEF DeviceOK
    <2>2. EngineOK' /\ PullOK' /\ ServerOK'
        BY <1>1, TypeParts DEF EngineOK, PullOK, ServerOK, engine, server
    <2> QED
        BY <2>1, <2>2 DEF TypeOK, DeviceOK, EngineOK, PullOK, ServerOK, OutboxRows, LogRows
<1>7. RowsFit'
    BY <1>2, <1>3 DEF IInv, RowsFit
<1>8. CausesAreLive'
    <2>1. \A i \in Ops : outbox[i].deps \subseteq Ops
        BY DEF IInv, RowsFit
    <2>2. \A d \in deps : outbox[d].state \notin {"ACKNOWLEDGED", "SUPERSEDED"}
        BY DEF Active, Terminal
    <2>3. \A i \in Ops : /\ outbox[i].state = "BLOCKED_ON_DEPENDENCY" => outbox[i].deps # {}
                         /\ \A d \in outbox[i].deps :
                               outbox[d].state \notin {"ACKNOWLEDGED", "SUPERSEDED"}
        BY DEF IInv, CausesAreLive
    <2>4. ASSUME NEW i \in Ops'
          PROVE  /\ outbox'[i].state = "BLOCKED_ON_DEPENDENCY" => outbox'[i].deps # {}
                 /\ \A d \in outbox'[i].deps :
                       outbox'[d].state \notin {"ACKNOWLEDGED", "SUPERSEDED"}
        <3>1. CASE i = o
            BY <1>2, <1>3, <2>2, <3>1
        <3>2. CASE i \in Ops
            BY <1>3, <2>1, <2>3, <3>2
        <3> QED
            BY <1>3, <3>1, <3>2
    <2> QED
        BY <2>4 DEF CausesAreLive
<1>9. EngineFits'
    <2>1. Ops \subseteq Nat
        BY <1>1, Rows
    <2> QED
        BY <1>3, <1>5, <2>1 DEF IInv, EngineFits, engine
<1>10. SentFits'
    <2>1. Sent' = Sent
        BY DEF Sent, engine, server
    <2>2. ASSUME NEW r \in Sent
          PROVE  r.op \in Ops' /\ r = Request(r.op)' /\ outbox'[r.op].deps = {}
        <3>1. r.op \in Ops /\ r = Request(r.op) /\ outbox[r.op].deps = {}
            BY DEF IInv, SentFits
        <3>2. outbox'[r.op] = outbox[r.op]
            BY <1>3, <3>1
        <3> QED
            BY <1>3, <3>1, <3>2 DEF Request
    <2> QED
        BY <2>1, <2>2 DEF SentFits
<1>11. AcknowledgedIsStored'
    <2>1. Ops \subseteq Nat
        BY <1>1, Rows
    <2> QED
        BY <1>2, <1>3, <1>5, <2>1 DEF IInv, AcknowledgedIsStored
<1>12. ResponseFits'
    <2>1. Edits # {} => Latest(Edits) \in Ops
        BY <1>1, Newest DEF Edits
    <2>2. Edits \subseteq Ops
        BY DEF Edits
    <2> QED
        BY <1>3, <1>4, <2>1, <2>2 DEF IInv, ResponseFits, Active
<1>13. \A i \in Ops : Stored(i)' = Stored(i)
    BY <1>1, <1>5, Rows
<1>14. Told' = Told
    BY <1>2, <1>3 DEF Told
<1> QED
    BY <1>2, <1>3, <1>4, <1>6, <1>7, <1>8, <1>9, <1>10, <1>11, <1>12, <1>13, <1>14 DEF o

(* A Potential Finding waits for the open edits. *)
LEMMA CreateStep ==
    ASSUME IInv, CreatePotentialFindingDraft
    PROVE  IInv' /\ Told' = Told
<1>1. TypeOK /\ Len(outbox) < MaxOps /\ Len(outbox) \in Nat
    BY Rows DEF IInv, CreatePotentialFindingDraft, Editable
<1> DEFINE waits == {i \in Edits : Active(i)}
<1> PICK deps \in SUBSET Ops : deps = waits
    BY DEF Edits
<1> PICK base \in Nat : base = response.revision
    BY <1>1 DEF TypeOK
<1>2. /\ outbox' = Append(outbox, Row("CREATE_POTENTIAL_FINDING", base, "NON_COMPLIANT", deps))
      /\ draft' = [draft EXCEPT !.op = Len(outbox) + 1, !.sync = "PENDING", !.known = FALSE]
      /\ UNCHANGED <<response, checklist, grant, usable, cursor, engine, late, faults, server>>
    BY Zenon DEF CreatePotentialFindingDraft
<1>3. \A d \in deps : Active(d)
    OBVIOUS
<1>4. draft' \in [op : 0..MaxOps,
                  sync : {"NONE", "PENDING", "ACKNOWLEDGED", "CONFLICT", "REJECTED"},
                  known : BOOLEAN, echoed : BOOLEAN]
    <2>1. PICK op \in 0..MaxOps : op = Len(outbox) + 1
        BY <1>1, FieldBounds
    <2>2. PICK no \in BOOLEAN : no = FALSE
        OBVIOUS
    <2>3. PICK sync \in {"NONE", "PENDING", "ACKNOWLEDGED", "CONFLICT", "REJECTED"} :
              sync = "PENDING"
        OBVIOUS
    <2>4. draft' = [draft EXCEPT !.op = op, !.sync = sync, !.known = no]
        BY <1>2, <2>1, <2>2, <2>3, Zenon
    <2>5. draft \in [op : 0..MaxOps,
                     sync : {"NONE", "PENDING", "ACKNOWLEDGED", "CONFLICT", "REJECTED"},
                     known : BOOLEAN, echoed : BOOLEAN]
        BY <1>1 DEF TypeOK
    <2> QED
        BY <2>4, <2>5
<1>5. /\ checklist' \in {"IN_PROGRESS", "SUBMITTED"}
      /\ "CREATE_POTENTIAL_FINDING" \in Kinds \ {"UPSERT_CHECKLIST_RESPONSE"}
      /\ "NON_COMPLIANT" \in Answers
    BY <1>1, <1>2 DEF TypeOK, Kinds, Answers
<1>6. /\ TypeOK' /\ RowsFit' /\ EngineFits' /\ SentFits' /\ AcknowledgedIsStored'
      /\ ResponseFits' /\ CausesAreLive' /\ Told' = Told
      /\ Ops' = Ops \union {Len(outbox) + 1} /\ Edits' = Edits
      /\ \A i \in Ops : outbox'[i] = outbox[i] /\ i < Len(outbox) + 1 /\ Stored(i)' = Stored(i)
      /\ outbox'[Len(outbox) + 1].kind = "CREATE_POTENTIAL_FINDING"
    BY <1>1, <1>2, <1>3, <1>4, <1>5, Queued
<1>7. SubmissionFits'
    <2>1. Edits # {} => Latest(Edits) \in Ops
        BY <1>1, Newest DEF Edits
    <2> QED
        BY <1>2, <1>6, <2>1 DEF IInv, SubmissionFits
<1> QED
    BY <1>6, <1>7 DEF IInv

(* A submission is queued behind every edit, and waits for those that are open. *)
LEMMA SubmitStep ==
    ASSUME IInv, SubmitChecklist
    PROVE  IInv' /\ Told' = Told
<1>1. TypeOK /\ Len(outbox) < MaxOps /\ checklist = "IN_PROGRESS" /\ response.exists
    BY DEF IInv, SubmitChecklist, Editable
<1>a. PICK deps \in SUBSET Ops : deps = OpenWork
    BY DEF OpenWork
<1>2. /\ outbox' = Append(outbox, Row("SUBMIT_CHECKLIST", CheckedOut, "COMPLIANT", deps))
      /\ checklist' = "SUBMITTED"
      /\ UNCHANGED <<response, draft, grant, usable, cursor, engine, late, faults, server>>
    BY <1>a, Zenon DEF SubmitChecklist
<1>3. \A d \in deps : Active(d)
    BY <1>a DEF OpenWork
<1>4. draft' \in [op : 0..MaxOps,
                  sync : {"NONE", "PENDING", "ACKNOWLEDGED", "CONFLICT", "REJECTED"},
                  known : BOOLEAN, echoed : BOOLEAN]
    BY <1>1, <1>2 DEF TypeOK
<1>5. /\ checklist' \in {"IN_PROGRESS", "SUBMITTED"} /\ CheckedOut \in Nat
      /\ "SUBMIT_CHECKLIST" \in Kinds \ {"UPSERT_CHECKLIST_RESPONSE"}
      /\ "COMPLIANT" \in Answers
    BY <1>2 DEF Kinds, Answers, CheckedOut
<1>6. /\ TypeOK' /\ RowsFit' /\ EngineFits' /\ SentFits' /\ AcknowledgedIsStored'
      /\ ResponseFits' /\ CausesAreLive' /\ Told' = Told
      /\ Ops' = Ops \union {Len(outbox) + 1} /\ Edits' = Edits
      /\ \A i \in Ops : outbox'[i] = outbox[i] /\ i < Len(outbox) + 1 /\ Stored(i)' = Stored(i)
      /\ outbox'[Len(outbox) + 1].deps = deps
  <2>1. PICK base \in Nat : base = CheckedOut
      BY <1>5
  <2>2. outbox' = Append(outbox, Row("SUBMIT_CHECKLIST", base, "COMPLIANT", deps))
      BY <1>2, <2>1
  <2>3. UNCHANGED <<response, cursor, grant, usable, engine, late, faults, server>>
      BY <1>2
  <2>4. /\ "SUBMIT_CHECKLIST" \in Kinds \ {"UPSERT_CHECKLIST_RESPONSE"}
        /\ "COMPLIANT" \in Answers /\ checklist' \in {"IN_PROGRESS", "SUBMITTED"}
      BY <1>5
  <2>5. Len(outbox) < MaxOps
      BY <1>1
  <2>6. /\ TypeOK' /\ RowsFit' /\ EngineFits' /\ SentFits' /\ AcknowledgedIsStored'
        /\ ResponseFits' /\ CausesAreLive' /\ Told' = Told
      BY ONLY IInv, <2>5, <1>3, <1>4, <2>2, <2>3, <2>4, Queued
  <2>7. /\ Ops' = Ops \union {Len(outbox) + 1} /\ Edits' = Edits
      BY ONLY IInv, <2>5, <1>3, <1>4, <2>2, <2>3, <2>4, Queued
  <2>8. \A i \in Ops : outbox'[i] = outbox[i] /\ i < Len(outbox) + 1 /\ Stored(i)' = Stored(i)
      BY ONLY IInv, <2>5, <1>3, <1>4, <2>2, <2>3, <2>4, Queued
  <2>9. outbox'[Len(outbox) + 1].deps = deps
      BY ONLY IInv, <2>5, <1>3, <1>4, <2>2, <2>3, <2>4, Queued
  <2> QED
      BY <2>6, <2>7, <2>8, <2>9
<1>7. SubmissionFits'
    <2>1. Edits # {} /\ Edits \subseteq Ops /\ Latest(Edits) \in Ops
        BY <1>1, Newest DEF IInv, ResponseFits, Edits
    <2>2. \/ Latest(Edits) \in deps
          \/ outbox[Latest(Edits)].state = "REJECTED"
          \/ Stored(Latest(Edits)) # {}
        BY <1>a, <2>1 DEF IInv, ResponseFits, AcknowledgedIsStored, OpenWork, Active, Terminal
    <2>3. \A s \in Ops : outbox[s].kind # "SUBMIT_CHECKLIST"
        BY <1>1 DEF IInv, SubmissionFits
    <2> QED
        BY <1>a, <1>2, <1>6, <2>1, <2>2, <2>3 DEF SubmissionFits
<1> QED
    BY <1>6, <1>7 DEF IInv

(* An edit: the unsent edits before it give way, and what waited for them waits for it. *)
LEMMA SaveStep ==
    ASSUME IInv, NEW answer \in EditAnswers, SaveResponse(answer)
    PROVE  IInv' /\ Told' = Told
<1>1. /\ TypeOK /\ Len(outbox) < MaxOps /\ checklist = "IN_PROGRESS"
      /\ Len(outbox) \in Nat /\ Ops = 1..Len(outbox)
      /\ \A i \in Ops : outbox[i] \in OutboxRows
    BY Rows DEF IInv, SaveResponse, Editable
<1> DEFINE o == Len(outbox) + 1
           mine == {i \in Edits : Active(i)}
           flying == {i \in mine : outbox[i].state = "IN_FLIGHT"}
           dropped == mine \ flying
           superseded(i) == [outbox[i] EXCEPT !.state = "SUPERSEDED"]
           kept(i) == IF i \in dropped THEN superseded(i) ELSE outbox[i]
           new(i) == Rewired(kept(i), dropped, o)
           base == IF flying # {} THEN 0 ELSE response.revision
           row == Row("UPSERT_CHECKLIST_RESPONSE", base, answer, flying)
<1>2. /\ outbox' = Append([i \in Ops |-> new(i)], row)
      /\ response' = [response EXCEPT !.text = o, !.answer = answer, !.op = o, !.exists = TRUE]
      /\ UNCHANGED <<draft, checklist, grant, usable, cursor, engine, late, faults, server>>
    BY Zenon DEF SaveResponse
<1>3. o \in 1..MaxOps /\ o \notin Ops /\ dropped \subseteq Ops /\ flying \in SUBSET Ops
    BY <1>1, FieldBounds DEF Edits
<1>4. ASSUME NEW i \in Ops
      PROVE  /\ new(i) \in OutboxRows
             /\ new(i).kind = outbox[i].kind /\ new(i).answer = outbox[i].answer
             /\ new(i).base = outbox[i].base /\ new(i).grant = outbox[i].grant
             /\ outbox[i].deps \intersect dropped = {} =>
                   /\ new(i).deps = outbox[i].deps
                   /\ new(i).state = IF i \in dropped THEN "SUPERSEDED" ELSE outbox[i].state
             /\ outbox[i].deps \intersect dropped # {} =>
                   /\ new(i).deps = (outbox[i].deps \ dropped) \union {o}
                   /\ new(i).state = "BLOCKED_ON_DEPENDENCY"
    <2>1. /\ kept(i) \in OutboxRows
          /\ kept(i).kind = outbox[i].kind /\ kept(i).answer = outbox[i].answer
          /\ kept(i).base = outbox[i].base /\ kept(i).grant = outbox[i].grant
          /\ kept(i).deps = outbox[i].deps
          /\ kept(i).state = IF i \in dropped THEN "SUPERSEDED" ELSE outbox[i].state
        <3>1. "SUPERSEDED" \in States
            BY DEF States, Terminal
        <3>2. CASE i \in dropped
            <4>1. kept(i) = superseded(i)
                BY <3>2
            <4> HIDE DEF dropped, kept
            <4> QED
                BY <1>1, <3>1, <3>2, <4>1, StateOnly
        <3>3. CASE i \notin dropped
            <4>1. kept(i) = outbox[i]
                BY <3>3
            <4> HIDE DEF dropped, kept
            <4> QED
                BY <1>1, <3>3, <4>1
        <3> QED
            BY <3>2, <3>3
    <2> PICK k \in OutboxRows : k = kept(i)
        BY <2>1
    <2> HIDE DEF kept
    <2>2. CASE outbox[i].deps \intersect dropped = {}
        <3>1. new(i) = k
            BY <2>1, <2>2 DEF Rewired
        <3> HIDE DEF new, dropped
        <3> QED
            BY <2>1, <2>2, <3>1
    <2>3. CASE outbox[i].deps \intersect dropped # {}
        <3>1. new(i) = [k EXCEPT !.deps = (@ \ dropped) \union {o}, !.state = "BLOCKED_ON_DEPENDENCY"]
            BY <2>1, <2>3, Zenon DEF Rewired
        <3>2. (k.deps \ dropped) \union {o} \in SUBSET (1..MaxOps)
            BY <1>3 DEF OutboxRows
        <3>3. PICK d \in SUBSET (1..MaxOps) : d = (k.deps \ dropped) \union {o}
            BY <3>2
        <3>4. PICK x \in States : x = "BLOCKED_ON_DEPENDENCY"
            BY DEF States, Unsent
        <3>5. new(i) = [k EXCEPT !.deps = d, !.state = x]
            BY <3>1, <3>3, <3>4, Zenon
        <3> HIDE DEF new, dropped, o
        <3>6. /\ new(i) \in OutboxRows /\ new(i).deps = d /\ new(i).state = x
              /\ new(i).kind = k.kind /\ new(i).answer = k.answer
              /\ new(i).base = k.base /\ new(i).grant = k.grant
            BY <3>5 DEF OutboxRows
        <3> QED
            BY <2>1, <2>3, <3>3, <3>4, <3>6
    <2> QED
        BY <2>2, <2>3
<1>5. answer \in Answers /\ base \in Nat
    BY <1>1, FieldBounds DEF TypeOK, Answers
<1>6. /\ row \in OutboxRows /\ row.kind = "UPSERT_CHECKLIST_RESPONSE" /\ row.deps = flying
      /\ row.state = IF flying = {} THEN "PENDING" ELSE "BLOCKED_ON_DEPENDENCY"
    <2>1. PICK deps \in SUBSET Ops : deps = flying
        BY <1>3
    <2>2. PICK b \in Nat : b = base
        BY <1>5
    <2>3. row = Row("UPSERT_CHECKLIST_RESPONSE", b, answer, deps)
        BY <2>1, <2>2
    <2>4. "UPSERT_CHECKLIST_RESPONSE" \in Kinds
        BY DEF Kinds
    <2> HIDE DEF row, flying, base
    <2> QED
        BY <1>1, <1>5, <2>1, <2>3, <2>4, NewRow
<1>7. \A d \in flying : outbox[d].state = "IN_FLIGHT" /\ d \notin dropped
    OBVIOUS
<1>8. \A d \in dropped : outbox[d].state \notin {"IN_FLIGHT", "ACKNOWLEDGED", "SUPERSEDED", "REJECTED"}
    BY DEF Active, Terminal, Edits
<1> HIDE DEF new, row, o, dropped, flying, base
<1>9. /\ outbox' \in Seq(OutboxRows) /\ Len(outbox') <= MaxOps
      /\ Ops' = Ops \union {o} /\ \A i \in Ops : outbox'[i] = new(i)
      /\ outbox'[o] = row /\ \A i \in Ops : i < o
    <2>1. [i \in Ops |-> new(i)] \in [Ops -> OutboxRows]
        BY <1>4
    <2>2. PICK f \in [Ops -> OutboxRows] : f = [i \in Ops |-> new(i)]
        BY <2>1
    <2>3. outbox' = Append(f, row) /\ \A i \in Ops : f[i] = new(i)
        BY <1>2, <2>2
    <2> QED
        BY <1>1, <1>6, <2>3, Grown DEF o
<1>10. \A i \in Nat : Stored(i)' = Stored(i)
    BY <1>2 DEF Stored, server
<1>11. Edits' = Edits \union {o} /\ Latest(Edits') = o
    <2>1. Edits' = Edits \union {o}
        BY <1>4, <1>6, <1>9 DEF Edits
    <2>2. Edits \union {o} \in SUBSET Nat /\ \A j \in Edits \union {o} : o >= j
        BY <1>1, <1>3, <1>9 DEF Edits
    <2>3. Latest(Edits \union {o}) = o
        BY <2>2, LatestIs
    <2> QED
        BY <2>1, <2>3
<1>12. /\ response' \in [text : 0..MaxOps, answer : Answers, revision : Nat, op : 0..MaxOps,
                         exists : BOOLEAN]
       /\ response'.op = o /\ response'.text = o
    <2>1. response \in [text : 0..MaxOps, answer : Answers, revision : Nat, op : 0..MaxOps,
                        exists : BOOLEAN]
        BY <1>1 DEF TypeOK
    <2>2. PICK p \in 0..MaxOps : p = o
        BY <1>3, FieldBounds
    <2>3. PICK yes \in BOOLEAN : yes = TRUE
        OBVIOUS
    <2>4. response' = [response EXCEPT !.text = p, !.answer = answer, !.op = p, !.exists = yes]
        BY <1>2, <2>2, <2>3, Zenon
    <2>5. /\ response' \in [text : 0..MaxOps, answer : Answers, revision : Nat, op : 0..MaxOps,
                            exists : BOOLEAN]
          /\ response'.op = p /\ response'.text = p
        BY <1>5, <2>1, <2>4
    <2> QED
        BY <2>2, <2>5
<1>13. TypeOK'
    <2>1. DeviceOK'
        BY <1>1, <1>2, <1>9, <1>12, TypeParts DEF DeviceOK
    <2>2. EngineOK' /\ PullOK' /\ ServerOK'
        BY <1>1, <1>2, TypeParts DEF EngineOK, PullOK, ServerOK, engine, server
    <2> QED
        BY <2>1, <2>2 DEF TypeOK, DeviceOK, EngineOK, PullOK, ServerOK, OutboxRows, LogRows
<1>14. RowsFit' /\ CausesAreLive'
    <2> SUFFICES ASSUME NEW i \in Ops'
                 PROVE  /\ outbox'[i].deps \subseteq Ops'
                        /\ outbox'[i].state \notin {"BLOCKED_ON_DEPENDENCY", "SUPERSEDED"} =>
                              outbox'[i].deps = {}
                        /\ outbox'[i].state = "BLOCKED_ON_DEPENDENCY" => outbox'[i].deps # {}
                        /\ \A d \in outbox'[i].deps :
                              outbox'[d].state \notin {"ACKNOWLEDGED", "SUPERSEDED"}
        BY DEF RowsFit, CausesAreLive
    <2>1. outbox'[o].state \notin {"ACKNOWLEDGED", "SUPERSEDED"}
        BY <1>6, <1>9
    <2>2. \A d \in Ops : outbox[d].state \notin {"ACKNOWLEDGED", "SUPERSEDED"} /\ d \notin dropped =>
              outbox'[d].state \notin {"ACKNOWLEDGED", "SUPERSEDED"}
        BY <1>4, <1>9
    <2>3. CASE i = o
        <3>1. \A d \in flying : d \in Ops /\ outbox'[d].state \notin {"ACKNOWLEDGED", "SUPERSEDED"}
            BY <1>3, <1>7, <2>2
        <3> QED
            BY <1>6, <1>9, <2>3, <3>1
    <2>4. CASE i \in Ops
        <3>1. /\ outbox[i].deps \subseteq Ops
              /\ outbox[i].state \notin {"BLOCKED_ON_DEPENDENCY", "SUPERSEDED"} => outbox[i].deps = {}
              /\ outbox[i].state = "BLOCKED_ON_DEPENDENCY" => outbox[i].deps # {}
              /\ \A d \in outbox[i].deps : outbox[d].state \notin {"ACKNOWLEDGED", "SUPERSEDED"}
            BY <2>4 DEF IInv, RowsFit, CausesAreLive
        <3>2. CASE outbox[i].deps \intersect dropped = {}
            <4>1. /\ outbox'[i].deps = outbox[i].deps
                  /\ outbox'[i].state \in {outbox[i].state, "SUPERSEDED"}
                BY <1>4, <1>9, <2>4, <3>2
            <4> QED
                BY <1>9, <2>2, <3>1, <3>2, <4>1
        <3>3. CASE outbox[i].deps \intersect dropped # {}
            <4>1. /\ outbox'[i].deps = (outbox[i].deps \ dropped) \union {o}
                  /\ outbox'[i].state = "BLOCKED_ON_DEPENDENCY"
                BY <1>4, <1>9, <2>4, <3>3
            <4> QED
                BY <1>9, <2>1, <2>2, <3>1, <4>1
        <3> QED
            BY <3>2, <3>3
    <2> QED
        BY <1>9, <2>3, <2>4
<1>15. EngineFits'
    <2>1. result' \in Results /\ (eng' \in {"mark", "wait"} => target' \in Ops')
        BY <1>2, <1>9 DEF IInv, EngineFits, engine
    <2>2. ASSUME eng = "wait", NEW t \in Nat, t = target
          PROVE  /\ outbox'[t].state = "IN_FLIGHT"
                 /\ request.op = t /\ request \in Requests
                 /\ result.status = "accepted" => Stored(t)' # {}
        <3>1. /\ t \in Ops /\ outbox[t].state = "IN_FLIGHT"
              /\ request.op = t /\ request \in Requests
              /\ result.status = "accepted" => Stored(t) # {}
            BY <2>2 DEF IInv, EngineFits
        <3>2. outbox[t].deps = {} /\ t \notin dropped
            BY <1>8, <3>1 DEF IInv, RowsFit
        <3>3. outbox'[t].state = "IN_FLIGHT"
            BY <1>4, <1>9, <3>1, <3>2
        <3> QED
            BY <1>10, <3>1, <3>3
    <2>3. target \in Nat
        BY <1>1, FieldBounds DEF TypeOK
    <2> QED
        BY <1>2, <2>1, <2>2, <2>3 DEF EngineFits, engine
<1>16. SentFits'
    <2>1. Sent' = Sent
        BY <1>2 DEF Sent, engine, server
    <2>2. ASSUME NEW r \in Sent
          PROVE  r.op \in Ops' /\ r = Request(r.op)' /\ outbox'[r.op].deps = {}
        <3>1. r.op \in Ops /\ r = Request(r.op) /\ outbox[r.op].deps = {}
            BY DEF IInv, SentFits
        <3>2. /\ outbox'[r.op].kind = outbox[r.op].kind /\ outbox'[r.op].answer = outbox[r.op].answer
              /\ outbox'[r.op].base = outbox[r.op].base /\ outbox'[r.op].grant = outbox[r.op].grant
              /\ outbox'[r.op].deps = {}
            BY <1>4, <1>9, <3>1
        <3> QED
            BY <1>9, <3>1, <3>2 DEF Request
    <2> QED
        BY <2>1, <2>2 DEF SentFits
<1>17. AcknowledgedIsStored'
    <2> SUFFICES ASSUME NEW i \in Ops', outbox'[i].state = "ACKNOWLEDGED"
                 PROVE  Stored(i)' # {}
        BY DEF AcknowledgedIsStored
    <2>1. i \in Ops /\ outbox[i].state = "ACKNOWLEDGED"
        BY <1>4, <1>6, <1>9
    <2> QED
        BY <1>1, <1>10, <2>1 DEF IInv, AcknowledgedIsStored
<1>18. ResponseFits'
    <2>1. o # 0 /\ o \in Edits' /\ outbox'[o].state \in {"PENDING", "BLOCKED_ON_DEPENDENCY"}
        BY <1>3, <1>6, <1>9, <1>11
    <2> QED
        BY <1>11, <1>12, <2>1 DEF ResponseFits
<1>19. SubmissionFits'
    <2>1. \A s \in Ops : outbox[s].kind # "SUBMIT_CHECKLIST"
        BY <1>1 DEF IInv, SubmissionFits
    <2> QED
        BY <1>4, <1>6, <1>9, <2>1 DEF SubmissionFits
<1>20. Told' = Told
    <2>1. \A i \in Ops : outbox'[i].state = "ACKNOWLEDGED" <=> outbox[i].state = "ACKNOWLEDGED"
        <3>1. \A i \in Ops : outbox[i].state = "ACKNOWLEDGED" =>
                                 outbox[i].deps = {} /\ i \notin dropped
            BY <1>8 DEF IInv, RowsFit
        <3> QED
            BY <1>4, <1>9, <3>1
    <2> QED
        BY <1>6, <1>9, <2>1 DEF Told
<1> QED
    BY <1>13, <1>14, <1>15, <1>16, <1>17, <1>18, <1>19, <1>20 DEF IInv

-----------------------------------------------------------------------------
(* The invariant holds at first and is kept by every step. *)
LEMMA InitIInv == Init => IInv
<1> SUFFICES ASSUME Init PROVE IInv
    OBVIOUS
<1> USE FieldBounds
<1>1. outbox = <<>> /\ log = <<>> /\ Ops = {} /\ DOMAIN log = {} /\ Len(outbox) = 0 /\ Len(log) = 0
    BY DEF Init, Ops
<1>2. Edits = {} /\ Sent = {}
    BY <1>1 DEF Init, Edits, Sent
<1>3. TypeOK
    <2>1. DeviceOK
        BY <1>1 DEF Init, DeviceOK, Answers
    <2>2. EngineOK
        BY DEF Init, EngineOK
    <2>3. PullOK
        BY <1>1 DEF Init, PullOK
    <2>4. ServerOK
        <3>1. log \in Seq(LogRows)
            BY <1>1, EmptySeq
        <3>2. held \in [text : 0..MaxOps, answer : Answers, revision : Nat]
            BY DEF Init, Answers
        <3>3. ended \in [1..MaxGrants -> {"no", "revoked", "expired"}]
            BY DEF Init
        <3>4. submitted \in BOOLEAN /\ withdrawn \in BOOLEAN
            BY Zenon DEF Init
        <3>5. version \in Nat /\ office \in 0..MaxOffice
            BY DEF Init, CheckedOut
        <3> QED
            BY <3>1, <3>2, <3>3, <3>4, <3>5 DEF ServerOK
    <2> QED
        BY <2>1, <2>2, <2>3, <2>4, TypeParts
<1>4. EngineFits
    BY DEF Init, EngineFits, NoResult, Results
<1>5. ResponseFits
    BY <1>2 DEF Init, ResponseFits
<1> QED
    BY <1>1, <1>2, <1>3, <1>4, <1>5
       DEF IInv, RowsFit, SentFits, AcknowledgedIsStored, SubmissionFits, CausesAreLive

(* One case per action. *)
LEMMA NextKeepsIInv == IInv /\ [Next]_vars => IInv'
<1> SUFFICES ASSUME IInv, [Next]_vars PROVE IInv'
    OBVIOUS
<1>1. CASE Inspector
    <2>1. ASSUME NEW a \in EditAnswers, SaveResponse(a) PROVE IInv'
        BY <2>1, SaveStep
    <2>2. CASE CreatePotentialFindingDraft
        BY <2>2, CreateStep
    <2>3. CASE SubmitChecklist
        BY <2>3, SubmitStep
    <2>4. CASE CheckoutPackage
        BY <2>4, OfficeStep
    <2> QED
        BY <1>1, <2>1, <2>2, <2>3, <2>4 DEF Inspector
<1>2. CASE Engine
    <2>1. ASSUME NEW due \in BOOLEAN, StartCycle(due) PROVE IInv'
        BY <2>1, StartStep
    <2>2. CASE ListDeliverable
        BY <2>2, ListStep
    <2>3. CASE MarkInFlight
        BY <2>3, MarkStep
    <2>4. CASE Serve
        BY <2>4, ServeStep
    <2>5. CASE Receive
        BY <2>5, ReceiveStep
    <2>6. CASE FetchPage
        BY <2>6, FetchStep
    <2>7. CASE ApplyPage
        BY <2>7, ApplyStep
    <2> QED
        BY <1>2, <2>1, <2>2, <2>3, <2>4, <2>5, <2>6, <2>7 DEF Engine
<1>3. CASE Office
    BY <1>3, OfficeStep
<1>4. CASE Faults
    <2>1. CASE CallFails
        BY <2>1, CallFailsStep
    <2>2. CASE Crash
        BY <2>2, CrashStep
    <2>3. ASSUME NEW r \in late, ServeLate(r) PROVE IInv'
        BY <2>3, ServeLateStep
    <2> QED
        BY <1>4, <2>1, <2>2, <2>3 DEF Faults
<1>5. CASE UNCHANGED vars
    <2>1. TypeOK'
        BY <1>5 DEF IInv, TypeOK, vars, device, engine, server
    <2> QED
        BY <1>5, <2>1, BesideTheEngine DEF vars, device, server
<1> QED
    BY <1>1, <1>2, <1>3, <1>4, <1>5 DEF Next

\* The inductive invariant holds in every behaviour.
THEOREM Invariance == Spec => []IInv
<1> QED
    BY InitIInv, NextKeepsIInv, PTL DEF Spec

\* Every variable keeps its type: the outbox, the cursor and the page included, which grow
\* with the operations and with the log.
THEOREM TypeCorrect == Spec => []TypeOK
<1>1. IInv => TypeOK
    BY DEF IInv
<1> QED
    BY <1>1, Invariance, PTL

\* One operation identifier is never sent with two contents, whatever is rewired, rebased,
\* lost or late: the server's refusal of a reused identifier never strikes an own operation.
THEOREM OperationsAreSentOnce == Spec => []OneRequestPerOperation
<1>1. IInv => OneRequestPerOperation
    BY DEF IInv, SentFits, Sent, OneRequestPerOperation
<1> QED
    BY <1>1, Invariance, PTL

\* The newest local edit is shown, and pointed at, as long as it is not done.
THEOREM LocalEditsKeepTheirPlace == Spec => []LocalEditIsQueued
<1>1. IInv => LocalEditIsQueued
    BY DEF IInv, ResponseFits, LocalEditIsQueued
<1> QED
    BY <1>1, Invariance, PTL

\* No row waits for one that was acknowledged or gave way: unblockAcknowledgedDependents and
\* the rewiring of saveChecklistResponse reached it. It may wait for one that was refused,
\* which releases nothing.
THEOREM ReleasesAreNotMissed == Spec => []NoReleaseIsMissed
<1>1. IInv => NoReleaseIsMissed
    BY DEF IInv, CausesAreLive, NoReleaseIsMissed
<1> QED
    BY <1>1, Invariance, PTL

\* A submission on the server has the last edit before it with it, or that edit was refused.
THEOREM SubmissionsCarryTheWork == Spec => []SubmissionCarriesTheWork
<1>1. IInv => SubmissionCarriesTheWork
    <2> SUFFICES ASSUME IInv, NEW i \in DOMAIN log, log[i].request.kind = "SUBMIT_CHECKLIST"
                 PROVE  LET before == {u \in Edits : u < log[i].request.op}
                        IN /\ before # {}
                           /\ outbox[Latest(before)].state = "REJECTED" \/ Stored(Latest(before)) # {}
        BY DEF SubmissionCarriesTheWork
    <2> DEFINE s == log[i].request.op
    <2>1. log[i].request \in Sent
        BY DEF Sent
    <2>2. s \in Ops /\ log[i].request = Request(s) /\ outbox[s].deps = {}
        BY <2>1 DEF IInv, SentFits
    <2>3. outbox[s].kind = "SUBMIT_CHECKLIST"
        BY <2>2 DEF Request
    <2>4. /\ Edits # {} /\ \A e \in Edits : e < s
          /\ outbox[Latest(Edits)].state = "REJECTED" \/ Stored(Latest(Edits)) # {}
        BY <2>2, <2>3 DEF IInv, SubmissionFits
    <2>5. {u \in Edits : u < s} = Edits
        BY <2>4
    <2> QED
        BY <2>4, <2>5
<1> QED
    BY <1>1, Invariance, PTL

\* An operation the server has applied is answered as accepted when it comes again, whatever
\* happened meanwhile to the grant, the checklist, the package or the row on the device.
THEOREM AppliedStaysAccepted == Spec => AppliedIsNeverRefused
<1>1. IInv /\ [Next]_vars =>
          [eng = "wait" /\ result = NoResult /\ result' # NoResult /\ Stored(request.op) # {}
             => result'.status = "accepted"]_vars
    <2> SUFFICES ASSUME IInv, Next, eng = "wait", result = NoResult, result' # NoResult,
                        Stored(request.op) # {}
                 PROVE  result'.status = "accepted"
        BY Zenon
    <2>1. Serve
        <3>1. CASE Inspector
            BY <3>1 DEF Inspector, SaveResponse, CreatePotentialFindingDraft, SubmitChecklist,
                        CheckoutPackage, engine
        <3>2. CASE Office
            BY <3>2 DEF Office, EditOnline, SubmitOnline, ReopenChecklist, EndGrant, WithdrawPackage,
                        engine
        <3>3. CASE Faults
            BY <3>3 DEF Faults, CallFails, Crash, ServeLate, engine
        <3>4. CASE Engine
            BY <3>4 DEF Engine, StartCycle, ListDeliverable, MarkInFlight, Receive, FetchPage, ApplyPage
        <3> QED
            BY <3>1, <3>2, <3>3, <3>4 DEF Next
    <2>2. PICK r \in Sent : r = request
        BY DEF Sent
    <2>3. r = Request(r.op)
        BY <2>2 DEF IInv, SentFits
    <2> DEFINE i == CHOOSE i \in Stored(r.op) : TRUE
    <2>4. i \in Stored(r.op)
        BY <2>2, Zenon
    <2> HIDE DEF i
    <2>5. i \in DOMAIN log /\ log[i].request.op = r.op
        BY <2>4 DEF Stored
    <2>6. log[i].request = r
        <3>1. log[i].request \in Sent
            BY <2>5 DEF Sent
        <3>2. log[i].request = Request(log[i].request.op)
            BY <3>1 DEF IInv, SentFits
        <3> QED
            BY <2>3, <2>5, <3>2
    <2>7. Pushed(r) = Result("accepted", log[i].revision, "none")
        BY <2>2, <2>6, Zenon DEF Pushed, i
    <2> QED
        BY <2>1, <2>2, <2>7 DEF Serve, Result
<1> QED
    BY <1>1, Invariance, PTL DEF Spec, AppliedIsNeverRefused

-----------------------------------------------------------------------------
(* The device and the server implement FieldPromise. *)
Applied == [kind \in Kinds |-> AppliedOf(kind)]
Standing == {g \in 1..MaxGrants : ended[g] = "no"}
promised == <<Applied, Told, held.text, held.revision, submitted, version, Standing, withdrawn>>

LEMMA InitKeepsPromise == Init => Promise!Init
<1> SUFFICES ASSUME Init PROVE Promise!Init
    OBVIOUS
<1>1. log = <<>> /\ outbox = <<>> /\ DOMAIN log = {} /\ Ops = {}
    BY DEF Init, Ops
<1>2. Told = {} /\ \A kind \in Kinds : AppliedOf(kind) = {}
    BY <1>1 DEF Told, AppliedOf
<1>3. /\ held.text = 0 /\ held.revision = 0 /\ submitted = FALSE /\ version = CheckedOut
      /\ {g \in 1..MaxGrants : ended[g] = "no"} = 1..MaxGrants /\ withdrawn = FALSE
    BY DEF Init
<1> QED
    BY <1>2, <1>3 DEF Promise!Init, Promise!Kinds, Kinds

(* What a step does not touch at the server, and does not acknowledge, does not show. *)
LEMMA Unnoticed ==
    ASSUME UNCHANGED <<log, held, submitted, version, ended, withdrawn>>, Told' = Told
    PROVE  UNCHANGED promised
BY DEF promised, Applied, AppliedOf, Standing

LEMMA ToldKept ==
    ASSUME UNCHANGED outbox
    PROVE  Told' = Told
BY DEF Told, Ops

(* An acceptance that was not stored before comes from the command, with all authority. *)
LEMMA AcceptedByCommand ==
    ASSUME NEW r \in Requests, Applies(r, Pushed(r))
    PROVE  /\ Stored(r.op) = {} /\ Pushed(r) = Command(r) /\ Pushed(r).status = "accepted"
           /\ ~submitted /\ ~withdrawn /\ r.grant \in Standing
<1>1. Stored(r.op) = {} /\ Pushed(r).status = "accepted"
    BY DEF Applies
<1>2. Pushed(r) = IF Authority(r.grant).status = "ok" THEN Command(r) ELSE Authority(r.grant)
    BY <1>1, Zenon DEF Pushed
<1>3. Authority(r.grant).status # "accepted"
    BY DEF Authority, Result
<1>4. Authority(r.grant).status = "ok"
    BY <1>1, <1>2, <1>3, Zenon
<1>5. ~submitted /\ ~withdrawn /\ ended[r.grant] = "no"
    BY <1>4 DEF Authority, Result
<1> QED
    BY <1>1, <1>2, <1>4, <1>5 DEF Standing, Requests

(* A new entry of the log is one more operation that took effect. *)
LEMMA EffectAdded ==
    ASSUME TypeOK, NEW r \in Requests, NEW n \in Nat, Stored(r.op) = {},
           log' = Append(log, [request |-> r, revision |-> n])
    PROVE  /\ Applied' = [Applied EXCEPT ![r.kind] = @ \cup {r.op}]
           /\ \A k \in Kinds : r.op \notin Applied[k]
<1> DEFINE entry == [request |-> r, revision |-> n]
<1>1. /\ log \in Seq(LogRows) /\ Len(log) \in Nat /\ DOMAIN log = 1..Len(log)
      /\ entry \in LogRows
    BY Rows DEF LogRows
<1>2. /\ log' \in Seq(LogRows) /\ Len(log') = Len(log) + 1
      /\ \A i \in 1..Len(log) : log'[i] = log[i]
      /\ log'[Len(log) + 1] = entry
    BY <1>1, AppendProperties
<1>3. DOMAIN log' = 1..(Len(log) + 1)
    BY <1>2, LenProperties
<1>4. ASSUME NEW k \in Kinds
      PROVE  AppliedOf(k)' = IF k = r.kind THEN AppliedOf(k) \cup {r.op} ELSE AppliedOf(k)
    <2>1. {j \in DOMAIN log' : log'[j].request.kind = k} =
              {j \in DOMAIN log : log[j].request.kind = k}
                \cup (IF k = r.kind THEN {Len(log) + 1} ELSE {})
        BY <1>1, <1>2, <1>3
    <2> QED
        BY <1>1, <1>2, <1>3, <2>1 DEF AppliedOf
<1>5. r.kind \in Kinds /\ \A k \in Kinds : Applied[k] = AppliedOf(k)
    BY DEF Requests, Applied
<1>6. Applied' = [Applied EXCEPT ![r.kind] = @ \cup {r.op}]
    BY <1>4, <1>5 DEF Applied
<1>7. \A k \in Kinds : r.op \notin AppliedOf(k)
    BY DEF AppliedOf, Stored
<1> QED
    BY <1>5, <1>6, <1>7

(* What an operation does besides taking effect makes it a step of the promise. *)
LEMMA WriteShows ==
    ASSUME NEW o \in 1..MaxOps, Promise!TakesEffect(o, "UPSERT_CHECKLIST_RESPONSE"),
           held'.text = o, held'.revision = held.revision + 1, UNCHANGED <<submitted, version>>
    PROVE  Promise!Write(o)
BY DEF Promise!Write, Promise!status

LEMMA RaiseShows ==
    ASSUME NEW o \in 1..MaxOps, Promise!TakesEffect(o, "CREATE_POTENTIAL_FINDING"),
           held.revision > 0, Applied["CREATE_POTENTIAL_FINDING"] = {},
           UNCHANGED <<held, submitted, version>>
    PROVE  Promise!Raise(o)
BY DEF Promise!Raise, Promise!status, Promise!response, Applied

(* Handling a request is one operation taking effect, or nothing. *)
LEMMA HandledOnce ==
    ASSUME IInv, NEW r \in Requests, Handle(r), UNCHANGED outbox
    PROVE  \/ UNCHANGED promised
           \/ \E o \in 1..MaxOps : Promise!Write(o) \/ Promise!Raise(o) \/ Promise!Submit(o)
<1> DEFINE answer == Pushed(r)
<1>1. TypeOK /\ answer \in Results /\ r.op \in 1..MaxOps /\ r.kind \in Kinds
    BY AnswerIsResult DEF IInv, Requests
<1>2. CASE ~ Applies(r, answer)
    <2>1. UNCHANGED server
        BY <1>2, Zenon DEF Handle
    <2> QED
        BY <2>1, ToldKept, Unnoticed DEF server
<1>3. CASE Applies(r, answer)
    <2>1. /\ log' = Append(log, [request |-> r, revision |-> answer.revision])
          /\ held' = IF r.kind # "UPSERT_CHECKLIST_RESPONSE" THEN held
                     ELSE [text |-> r.op, answer |-> r.answer, revision |-> answer.revision]
          /\ submitted' = (submitted \/ r.kind = "SUBMIT_CHECKLIST")
          /\ version' = IF r.kind = "SUBMIT_CHECKLIST" THEN answer.revision ELSE version
          /\ UNCHANGED <<ended, withdrawn>>
        BY <1>3, Zenon DEF Handle
    <2>2. /\ Stored(r.op) = {} /\ answer = Command(r) /\ answer.status = "accepted"
          /\ ~submitted /\ ~withdrawn /\ r.grant \in Standing
        BY <1>3, AcceptedByCommand
    <2> HIDE DEF answer
    <2>3. answer.revision \in Nat
        BY <1>1 DEF Results
    <2>4. /\ Applied' = [Applied EXCEPT ![r.kind] = @ \cup {r.op}]
          /\ \A k \in Kinds : r.op \notin Applied[k]
        BY <1>1, <2>1, <2>2, <2>3, EffectAdded
    <2>5. Told' = Told /\ Standing' = Standing
        BY <2>1, ToldKept DEF Standing
    <2>6. Promise!TakesEffect(r.op, r.kind)
        BY <2>1, <2>2, <2>4, <2>5
           DEF Promise!TakesEffect, Promise!Kinds, Promise!authority, Kinds, Applied, Standing
    <2>7. CASE r.kind = "UPSERT_CHECKLIST_RESPONSE"
        <3>1. answer.revision = held.revision + 1
            BY <2>2, <2>7 DEF Command, Upserted, Stale, Result
        <3>2. Promise!Write(r.op)
            <4>1. Promise!TakesEffect(r.op, "UPSERT_CHECKLIST_RESPONSE")
                BY <2>6, <2>7
            <4>2. /\ held'.text = r.op /\ held'.revision = held.revision + 1
                  /\ UNCHANGED <<submitted, version>>
                BY <1>1, <2>1, <2>7, <3>1 DEF TypeOK
            <4> QED
                BY <1>1, <4>1, <4>2, WriteShows
        <3> QED
            BY <1>1, <3>2
    <2>8. CASE r.kind = "CREATE_POTENTIAL_FINDING"
        <3>1. /\ held.revision # 0
              /\ \A i \in DOMAIN log : log[i].request.kind # r.kind
            BY <2>2, <2>8 DEF Command, Raised, Stale, Result
        <3>2. held.revision > 0
            BY <1>1, <3>1 DEF TypeOK
        <3>3. Applied[r.kind] = {}
            BY <1>1, <3>1 DEF Applied, AppliedOf
        <3>4. Promise!Raise(r.op)
            <4>1. Promise!TakesEffect(r.op, "CREATE_POTENTIAL_FINDING")
                BY <2>6, <2>8
            <4>2. UNCHANGED <<held, submitted, version>>
                BY <1>1, <2>1, <2>8 DEF TypeOK
            <4>3. Applied["CREATE_POTENTIAL_FINDING"] = {}
                BY <2>8, <3>3
            <4> QED
                BY <1>1, <3>2, <4>1, <4>2, <4>3, RaiseShows
        <3> QED
            BY <1>1, <3>4
    <2>9. CASE r.kind = "SUBMIT_CHECKLIST"
        <3>1. held.revision # 0 /\ answer.revision = version + 1
            BY <2>2, <2>9 DEF Command, Submitted, Result
        <3>2. held.revision > 0
            BY <1>1, <3>1 DEF TypeOK
        <3>3. Promise!Submit(r.op)
            BY <2>1, <2>6, <2>9, <3>1, <3>2 DEF Promise!Submit, Promise!response
        <3> QED
            BY <1>1, <3>3
    <2> QED
        BY <1>1, <2>7, <2>8, <2>9 DEF Kinds
<1> QED
    BY <1>2, <1>3

(* What is stored took effect, so an acknowledgement is of something that did. *)
LEMMA StoredIsApplied ==
    ASSUME TypeOK, NEW o \in Ops, Stored(o) # {}
    PROVE  \E kind \in Kinds : o \in Applied[kind]
<1>1. PICK i \in DOMAIN log : log[i].request.op = o
    BY DEF Stored
<1>2. log[i].request.kind \in Kinds
    BY <1>1, Rows DEF LogRows, Requests
<1> QED
    BY <1>1, <1>2 DEF Applied, AppliedOf

LEMMA ReceiveAcknowledges ==
    ASSUME IInv, Receive
    PROVE  UNCHANGED promised \/ \E o \in 1..MaxOps : Promise!Acknowledge(o)
<1>1. UNCHANGED <<log, held, submitted, version, ended, withdrawn>> /\ TypeOK
    BY DEF Receive, server, IInv
<1>2. CASE Told' = Told
    BY <1>1, <1>2, Unnoticed
<1>3. ASSUME NEW o \in Ops, Stored(o) # {}, Told' = Told \union {o}
      PROVE  Promise!Acknowledge(o) /\ o \in 1..MaxOps
    <2>1. o \in 1..MaxOps
        BY <1>1, Rows
    <2>2. \E kind \in Kinds : o \in Applied[kind]
        BY <1>1, <1>3, StoredIsApplied
    <2>3. Applied' = Applied /\ Standing' = Standing
        BY <1>1 DEF Applied, AppliedOf, Standing
    <2> QED
        BY <1>1, <1>3, <2>1, <2>2, <2>3
           DEF Promise!Acknowledge, Promise!Kinds, Promise!response, Promise!status,
               Promise!authority, Kinds, Applied, Standing
<1> QED
    BY <1>2, <1>3, ReceiveStep

(* The office. *)
LEMMA OfficeActs ==
    ASSUME IInv, Office
    PROVE  Promise!Rewrite \/ Promise!Turn \/ Promise!End
<1> USE DEF device, engine
<1>1. TypeOK
    BY DEF IInv
<1>2. ASSUME UNCHANGED <<outbox, log>> PROVE Told' = Told /\ Applied' = Applied
    BY <1>2, ToldKept DEF Applied, AppliedOf
<1>3. ASSUME NEW a \in Answers, EditOnline(a) PROVE Promise!Rewrite
    <2>1. Told' = Told /\ Applied' = Applied /\ Standing' = Standing
        BY <1>2, <1>3 DEF EditOnline, Standing
    <2> QED
        BY <1>3, <2>1 DEF EditOnline, Promise!Rewrite, Promise!work, Promise!status,
                          Promise!authority, Applied, Standing
<1>4. ASSUME SubmitOnline \/ ReopenChecklist PROVE Promise!Turn
    <2>1. Told' = Told /\ Applied' = Applied /\ Standing' = Standing
        BY <1>2, <1>4 DEF SubmitOnline, ReopenChecklist, Standing
    <2>2. /\ submitted' = ~submitted /\ version' = version + 1
          /\ submitted \/ (held.revision > 0 /\ ~withdrawn)
          /\ UNCHANGED <<held, withdrawn>>
        BY <1>1, <1>4 DEF SubmitOnline, ReopenChecklist, TypeOK
    <2> QED
        BY <2>1, <2>2 DEF Promise!Turn, Promise!work, Promise!response, Promise!authority,
                          Applied, Standing
<1>5. ASSUME NEW cause \in {"revoked", "expired"}, EndGrant(cause) PROVE Promise!End
    <2>1. Told' = Told /\ Applied' = Applied
        BY <1>2, <1>5 DEF EndGrant
    <2>2. grant \in 1..MaxGrants /\ Standing' = Standing \ {grant}
        BY <1>1, <1>5 DEF EndGrant, TypeOK, Standing
    <2> QED
        BY <1>5, <2>1, <2>2 DEF EndGrant, Promise!End, Promise!work, Promise!response,
                                Promise!status, Applied, Standing
<1>6. ASSUME WithdrawPackage PROVE Promise!End
    <2>1. Told' = Told /\ Applied' = Applied /\ Standing' = Standing
        BY <1>2, <1>6 DEF WithdrawPackage, Standing
    <2> QED
        BY <1>6, <2>1 DEF WithdrawPackage, Promise!End, Promise!work, Promise!response,
                          Promise!status, Applied, Standing
<1> QED
    BY <1>3, <1>4, <1>5, <1>6, Zenon DEF Office

LEMMA NextKeepsPromise == IInv /\ [Next]_vars => [Promise!Next]_(Promise!vars)
<1> SUFFICES ASSUME IInv, [Next]_vars PROVE Promise!Next \/ UNCHANGED promised
    BY DEF promised, Applied, Standing, Promise!vars, Promise!work, Promise!response,
           Promise!status, Promise!authority
<1> USE DEF device, engine, server
<1>1. CASE Inspector
    <2>1. Told' = Told
        BY <1>1, SaveStep, CreateStep, SubmitStep, ToldKept DEF Inspector, CheckoutPackage
    <2> QED
        BY <1>1, <2>1, Unnoticed
           DEF Inspector, SaveResponse, CreatePotentialFindingDraft, SubmitChecklist, CheckoutPackage
<1>2. CASE Engine
    <2>1. ASSUME NEW due \in BOOLEAN, StartCycle(due) PROVE UNCHANGED promised
        BY <2>1, StartStep, Unnoticed DEF StartCycle
    <2>2. CASE ListDeliverable \/ FetchPage \/ ApplyPage
        BY <2>2, ToldKept, Unnoticed DEF ListDeliverable, FetchPage, ApplyPage
    <2>3. CASE MarkInFlight
        BY <2>3, MarkStep, Unnoticed DEF MarkInFlight
    <2>4. CASE Serve
        <3>1. request \in Requests /\ Handle(request) /\ UNCHANGED outbox
            BY <2>4 DEF Serve, IInv, EngineFits
        <3> QED
            BY <3>1, HandledOnce DEF Promise!Next
    <2>5. CASE Receive
        BY <2>5, ReceiveAcknowledges DEF Promise!Next
    <2> QED
        BY <1>2, <2>1, <2>2, <2>3, <2>4, <2>5 DEF Engine
<1>3. CASE Office
    BY <1>3, OfficeActs DEF Promise!Next
<1>4. CASE Faults
    <2>1. CASE CallFails
        BY <2>1, CallFailsStep, Unnoticed DEF CallFails
    <2>2. CASE Crash
        BY <2>2, ToldKept, Unnoticed DEF Crash
    <2>3. ASSUME NEW r \in late, ServeLate(r) PROVE Promise!Next \/ UNCHANGED promised
        <3>1. r \in Requests /\ Handle(r) /\ UNCHANGED outbox
            BY <2>3 DEF ServeLate, IInv, TypeOK
        <3> QED
            BY <3>1, HandledOnce DEF Promise!Next
    <2> QED
        BY <1>4, <2>1, <2>2, <2>3 DEF Faults
<1>5. CASE UNCHANGED vars
    BY <1>5, ToldKept, Unnoticed DEF vars
<1> QED
    BY <1>1, <1>2, <1>3, <1>4, <1>5 DEF Next

\* Whatever is queued, sent twice, lost, late or interrupted, the device's work keeps FieldPromise:
\* an operation takes effect at most once, while a grant stands and the checklist is open, and is
\* acknowledged on the device only after that and for good.
THEOREM DeviceKeepsPromise == Spec => KeepsPromise
BY InitKeepsPromise, NextKeepsPromise, Invariance, PTL DEF Spec, KeepsPromise, Promise!Spec

=============================================================================
