-------------------------- MODULE AuditReportsProofs --------------------------
(***************************************************************************)
(* Proofs about AuditReports: its safety properties hold for any number of *)
(* responses, Potential Findings, report versions and transactions in      *)
(* flight.                                                                 *)
(*                                                                         *)
(* The properties are not inductive.  IInv adds what a transaction in      *)
(* flight may rely on: a row it has locked still holds what it read, the   *)
(* rows other transactions have locked are other rows, and what it counted *)
(* or collected can only have become more closed since.                    *)
(***************************************************************************)
EXTENDS AuditReports, TLAPS

Holders == {"decide", "counted"}

\* A Potential Finding is absent while nothing is written of it, and a Finding
\* comes of a converted one.
PotentialFits(p) ==
    /\ potential[p] = "ABSENT" <=> raisedOn[p] = None
    /\ raisedOn[p] = None => supersedes[p] = None
    /\ finding[p] # "NONE" => potential[p] = "CONVERTED"

\* At most one Potential Finding of a response was not returned.
OneActive ==
    \A p, q \in PotentialFindings :
        /\ raisedOn[p] = raisedOn[q] /\ raisedOn[p] # None
        /\ potential[p] # "RETURNED" /\ potential[q] # "RETURNED"
        => p = q

\* The locked response is still as it was read: untouched, or its parent is a
\* returned Potential Finding of it.
RaisingFits(t) ==
    /\ step[t] # "raise" => parent[t] = None
    /\ step[t] = "raise" =>
          /\ on[t] \in Responses
          /\ parent[t] = None => Raised(on[t]) = {}
          /\ parent[t] # None => /\ raisedOn[parent[t]] = on[t]
                                 /\ potential[parent[t]] = "RETURNED"

ResponseLocks ==
    \A t, u \in Transactions :
        step[t] = "raise" /\ step[u] = "raise" /\ on[t] = on[u] => t = u

PotentialsInv ==
    /\ \A p \in PotentialFindings : PotentialFits(p)
    /\ OneActive
    /\ OneLineagePerResponse
    /\ \A t \in Transactions : RaisingFits(t)
    /\ ResponseLocks

\* A version that exists has an approval state, whose revision tells how far
\* it was forwarded.
ApprovalFits(v) ==
    /\ kind[v] = "NONE" <=> approval[v] = "NONE"
    /\ approval[v] = "NONE" => revision[v] = 0
    /\ approval[v] = "DEPARTMENT_REVIEW" => revision[v] = 1
    /\ approval[v] = "GM_REVIEW" => revision[v] = 2
    /\ approval[v] = "EXECUTIVE_DIRECTOR_REVIEW" => revision[v] = 3
    /\ approval[v] = "RETURNED" => revision[v] \in 1..3
    /\ approval[v] = "LOCKED" => revision[v] = 4

\* The locked approval state still holds what was read of it.
DecidingFits(t) ==
    step[t] \in Holders =>
        /\ on[t] \in Versions
        /\ seenStage[t] \in Stages
        /\ seenStage[t] = approval[on[t]]
        /\ seenRevision[t] = revision[on[t]]

ApprovalLocks ==
    \A t, u \in Transactions :
        step[t] \in Holders /\ step[u] \in Holders /\ on[t] = on[u] => t = u

\* The id of a version that is being created is in nobody else's hands.
CreatingFits(t) ==
    step[t] \in Kinds /\ on[t] # None => on[t] \in Versions /\ kind[on[t]] = "NONE"

ApprovalsInv ==
    /\ \A v \in Versions : ApprovalFits(v)
    /\ \A t \in Transactions : DecidingFits(t) /\ CreatingFits(t)
    /\ ApprovalLocks
    /\ \A t, u \in Transactions :
          step[t] \in Kinds /\ step[u] \in Kinds /\ on[t] # None /\ on[t] = on[u] => t = u

AllClosed(v) == \A p \in linked[v] : finding[p] = "CLOSED"

\* Snapshots name Findings that exist, and a Final Report whose open Findings
\* were counted, or that was decided on, names closed ones.
SnapshotsInv ==
    /\ \A t \in Transactions : seenFindings[t] \subseteq AllFindings
    /\ \A v \in Versions : linked[v] \subseteq AllFindings
    /\ FinalIsOfClosedFindings
    /\ \A t \in Transactions :
          step[t] = "counted" /\ kind[on[t]] = "FINAL" => AllClosed(on[t])

\* A decision was taken on version v, or is being taken.
Deciding(v) ==
    \/ revision[v] > 1
    \/ \E t \in Transactions : step[t] \in Holders /\ on[t] = v

FamiliesInv ==
    \A v, w \in Created :
        report[v] = report[w] /\ Deciding(v) /\ Deciding(w) => kind[v] = kind[w]

IInv ==
    /\ TypeOK
    /\ PotentialsInv
    /\ ApprovalsInv
    /\ DecisionsLeadToStage
    /\ SnapshotsInv
    /\ FamiliesInv
    /\ IssuedBeforeFinding

-----------------------------------------------------------------------------
(* The initial state, and steps that change nothing. *)

LEMMA InitIInv == Init => IInv
<1> SUFFICES ASSUME Init PROVE IInv
    OBVIOUS
<1>1. TypeOK
  <2>1. 0 \in 0..MaxNumber
    BY MaxNumberAssumption
  <2>2. /\ number = [v \in Versions |-> 0]
        /\ report = [v \in Versions |-> None]
        /\ approval = [v \in Versions |-> "NONE"]
        /\ revision = [v \in Versions |-> 0]
    BY DEF Init
  <2>3. /\ number \in [Versions -> 0..MaxNumber]
        /\ report \in [Versions -> Reports \cup {None}]
        /\ approval \in [Versions -> Stages \cup {"NONE", "RETURNED", "LOCKED"}]
        /\ revision \in [Versions -> 0..4]
    BY <2>1, <2>2
  <2>4. /\ on = [t \in Transactions |-> None]
        /\ seenRevision = [t \in Transactions |-> 0]
        /\ seenStage = [t \in Transactions |-> "NONE"]
    BY DEF Init
  <2>5. /\ on \in [Transactions -> Ids]
        /\ seenRevision \in [Transactions -> 0..3]
        /\ seenStage \in [Transactions -> Stages \cup {"NONE"}]
    BY <2>4 DEF Ids
  <2>6. /\ checklist \in {"IN_PROGRESS", "SUBMITTED"}
        /\ answer \in [Responses -> {"", "COMPLIANT", "NON_COMPLIANT"}]
        /\ potential \in [PotentialFindings ->
              {"ABSENT", "PENDING_LEAD_REVIEW", "RETURNED", "DISMISSED", "CONVERTED"}]
        /\ raisedOn \in [PotentialFindings -> Responses \cup {None}]
        /\ supersedes \in [PotentialFindings -> PotentialFindings \cup {None}]
        /\ finding \in [PotentialFindings -> {"NONE", "OPEN", "CLOSED"}]
    BY DEF Init
  <2>7. /\ kind \in [Versions -> Kinds \cup {"NONE"}]
        /\ linked \in [Versions -> SUBSET PotentialFindings]
        /\ frozen \in [Versions -> SUBSET PotentialFindings]
        /\ decisions \subseteq Versions \X (1..3) \X {"FORWARD", "RETURN", "ISSUE"}
        /\ step \in [Transactions -> {"idle", "reopen", "raise", "decide", "counted"} \cup Kinds]
        /\ parent \in [Transactions -> PotentialFindings \cup {None}]
        /\ seenFindings \in [Transactions -> SUBSET PotentialFindings]
        /\ seenPotentials \in [Transactions -> SUBSET PotentialFindings]
    BY DEF Init
  <2> QED
    BY <2>3, <2>5, <2>6, <2>7 DEF TypeOK
<1>2. PotentialsInv
    BY NoneIsNoId
    DEF Init, PotentialsInv, PotentialFits, OneActive, OneLineagePerResponse, Raised,
        RaisingFits, ResponseLocks
<1>3. ApprovalsInv
    BY DEF Init, ApprovalsInv, ApprovalFits, DecidingFits, CreatingFits, ApprovalLocks,
           Holders, Kinds
<1>4. DecisionsLeadToStage
  <2>1. /\ decisions = {}
        /\ \A v \in Versions : revision[v] = 0 /\ approval[v] = "NONE"
    BY DEF Init
  <2>2. \A v \in Versions : Decided(v) = {}
    BY <2>1 DEF Decided
  <2> QED
    BY <2>1, <2>2 DEF DecisionsLeadToStage, HistoriesTo
<1>5. SnapshotsInv
    BY NoneIsNoId DEF Init, SnapshotsInv, AllFindings, FinalIsOfClosedFindings, AllClosed
<1>6. FamiliesInv
    BY NoneIsNoId DEF Init, FamiliesInv, Deciding, Created, Holders
<1>7. IssuedBeforeFinding
    BY NoneIsNoId DEF Init, IssuedBeforeFinding, AllFindings, Raised
<1> QED
    BY <1>1, <1>2, <1>3, <1>4, <1>5, <1>6, <1>7 DEF IInv

-----------------------------------------------------------------------------
(* What keeps each part.  A step that changes none of the rows a part is about *)
(* keeps it when the transactions it is about keep their rows, or end.         *)

\* Transaction t has the same row and the same memory after the step.
Keeps(t) ==
    /\ on'[t] = on[t]
    /\ parent'[t] = parent[t]
    /\ seenFindings'[t] = seenFindings[t]
    /\ seenStage'[t] = seenStage[t]
    /\ seenRevision'[t] = seenRevision[t]

LEMMA PotentialsFrame ==
    ASSUME PotentialsInv, UNCHANGED <<potentials, finding>>,
           \A t \in Transactions :
              \/ step'[t] = step[t] /\ Keeps(t)
              \/ step'[t] # "raise" /\ parent'[t] = None
    PROVE  PotentialsInv'
BY DEF PotentialsInv, PotentialFits, OneActive, OneLineagePerResponse, Raised,
       RaisingFits, ResponseLocks, potentials, Keeps

LEMMA ApprovalsFrame ==
    ASSUME ApprovalsInv, UNCHANGED <<kind, approval, revision>>,
           \A t \in Transactions :
              \/ step'[t] = step[t] /\ Keeps(t)
              \/ step[t] \in Holders /\ step'[t] \in Holders /\ Keeps(t)
              \/ step'[t] \notin Holders /\ (step'[t] \in Kinds => on'[t] = None)
    PROVE  ApprovalsInv'
BY DEF ApprovalsInv, ApprovalFits, DecidingFits, CreatingFits, ApprovalLocks, Holders,
       Kinds, Keeps

LEMMA DecisionsFrame ==
    ASSUME DecisionsLeadToStage, UNCHANGED <<decisions, approval, revision>>
    PROVE  DecisionsLeadToStage'
BY DEF DecisionsLeadToStage, Decided

LEMMA SnapshotsFrame ==
    ASSUME SnapshotsInv, UNCHANGED <<kind, linked, revision>>,
           \A p \in PotentialFindings :
              /\ finding[p] # "NONE" => finding'[p] # "NONE"
              /\ finding[p] = "CLOSED" => finding'[p] = "CLOSED",
           \A t \in Transactions : seenFindings'[t] \in {seenFindings[t], {}},
           \A t \in Transactions :
              step'[t] = "counted" => step[t] = "counted" /\ on'[t] = on[t],
           linked \in [Versions -> SUBSET PotentialFindings],
           ApprovalsInv
    PROVE  SnapshotsInv'
BY DEF SnapshotsInv, AllFindings, FinalIsOfClosedFindings, AllClosed, ApprovalsInv,
       DecidingFits, Holders

LEMMA FamiliesFrame ==
    ASSUME FamiliesInv, UNCHANGED <<kind, report, revision>>,
           \A t \in Transactions :
              step'[t] \in Holders => step[t] \in Holders /\ on'[t] = on[t]
    PROVE  FamiliesInv'
BY DEF FamiliesInv, Deciding, Created

LEMMA IssuedFrame ==
    ASSUME IssuedBeforeFinding, UNCHANGED <<potentials, finding, kind, frozen, approval>>
    PROVE  IssuedBeforeFinding'
BY DEF IssuedBeforeFinding, AllFindings, Raised, potentials

\* Nothing but a checklist changes, and a transaction may end or begin.
LEMMA QuietIInv ==
    ASSUME IInv, TypeOK', UNCHANGED <<potentials, finding, snapshots, approvals>>,
           \A t \in Transactions :
              \/ step'[t] = step[t] /\ Keeps(t)
              \/ /\ step'[t] \notin Holders \cup {"raise"}
                 /\ step'[t] \in Kinds => on'[t] = None
                 /\ parent'[t] = None
                 /\ seenFindings'[t] \in {seenFindings[t], {}}
    PROVE  IInv'
<1> USE DEF IInv, snapshots, approvals
<1>1. PotentialsInv'
    BY PotentialsFrame
<1>2. ApprovalsInv'
    BY ApprovalsFrame
<1>3. DecisionsLeadToStage'
    BY DecisionsFrame
<1>4. SnapshotsInv'
  <2>1. \A t \in Transactions : seenFindings'[t] \in {seenFindings[t], {}}
    BY DEF Keeps
  <2>2. \A t \in Transactions :
              step'[t] = "counted" => step[t] = "counted" /\ on'[t] = on[t]
    BY DEF Keeps, Holders
  <2>3. linked \in [Versions -> SUBSET PotentialFindings]
    BY DEF TypeOK
  <2> QED
    BY <2>1, <2>2, <2>3, SnapshotsFrame
<1>5. FamiliesInv'
    BY FamiliesFrame DEF Keeps
<1>6. IssuedBeforeFinding'
    BY IssuedFrame
<1> QED
    BY <1>1, <1>2, <1>3, <1>4, <1>5, <1>6

LEMMA StutterIInv == IInv /\ UNCHANGED vars => IInv'
<1> SUFFICES ASSUME IInv, UNCHANGED vars PROVE IInv'
    OBVIOUS
<1> USE DEF vars, fieldwork, potentials, snapshots, approvals, flight, reads
<1>1. TypeOK'
    BY DEF IInv, TypeOK
<1> QED
    BY <1>1, QuietIInv DEF Keeps

\* The memory of the transactions has its types.
FlightOK ==
    /\ step \in [Transactions -> {"idle", "reopen", "raise", "decide", "counted"} \cup Kinds]
    /\ on \in [Transactions -> Ids]
    /\ parent \in [Transactions -> PotentialFindings \cup {None}]
    /\ seenFindings \in [Transactions -> SUBSET PotentialFindings]
    /\ seenPotentials \in [Transactions -> SUBSET PotentialFindings]
    /\ seenStage \in [Transactions -> Stages \cup {"NONE"}]
    /\ seenRevision \in [Transactions -> 0..3]

\* A transaction that ends lets go of its row; the others go on.
LEMMA FinishEnds ==
    ASSUME TypeOK, NEW t \in Transactions, Finish(t)
    PROVE  /\ FlightOK'
           /\ step'[t] = "idle" /\ on'[t] = None
           /\ parent'[t] = None /\ seenFindings'[t] = {}
           /\ \A u \in Transactions \ {t} : step'[u] = step[u] /\ Keeps(u)
<1>0. FlightOK
    BY Zenon DEF TypeOK, FlightOK
<1> USE <1>0 DEF FlightOK, Finish
<1>1. /\ step' \in [Transactions -> {"idle", "reopen", "raise", "decide", "counted"} \cup Kinds]
      /\ on' \in [Transactions -> Ids]
      /\ parent' \in [Transactions -> PotentialFindings \cup {None}]
    BY DEF Ids
<1>2. /\ seenFindings' \in [Transactions -> SUBSET PotentialFindings]
      /\ seenPotentials' \in [Transactions -> SUBSET PotentialFindings]
    OBVIOUS
<1>3. /\ seenStage' \in [Transactions -> Stages \cup {"NONE"}]
      /\ seenRevision' \in [Transactions -> 0..3]
    OBVIOUS
<1>4. /\ step'[t] = "idle" /\ on'[t] = None
      /\ parent'[t] = None /\ seenFindings'[t] = {}
    OBVIOUS
<1>5. ASSUME NEW u \in Transactions \ {t} PROVE step'[u] = step[u] /\ Keeps(u)
    BY DEF Keeps
<1> QED
    BY <1>1, <1>2, <1>3, <1>4, <1>5 DEF FlightOK

\* A transaction that goes on reading leaves the others as they are.
LEMMA ReachGoesOn ==
    ASSUME TypeOK, NEW t \in Transactions, NEW s, NEW row, Reach(t, s, row)
    PROVE  /\ step'[t] = s /\ on'[t] = row
           /\ \A u \in Transactions \ {t} : step'[u] = step[u] /\ on'[u] = on[u]
           /\ s \in {"idle", "reopen", "raise", "decide", "counted"} \cup Kinds =>
                 step' \in [Transactions ->
                               {"idle", "reopen", "raise", "decide", "counted"} \cup Kinds]
           /\ row \in Ids => on' \in [Transactions -> Ids]
BY DEF TypeOK, Reach

-----------------------------------------------------------------------------
(* One lemma for each action. *)

LEMMA UpsertIInv ==
    ASSUME IInv, NEW r \in Responses, UpsertChecklistResponse(r) PROVE IInv'
<1> USE DEF UpsertChecklistResponse, flight, reads
<1>1. answer' \in [Responses -> {"", "COMPLIANT", "NON_COMPLIANT"}]
  <2>1. PICK value \in {"COMPLIANT", "NON_COMPLIANT"} : answer' = [answer EXCEPT ![r] = value]
    OBVIOUS
  <2>2. answer \in [Responses -> {"", "COMPLIANT", "NON_COMPLIANT"}]
    BY DEF IInv, TypeOK
  <2> QED
    BY <2>1, <2>2
<1>2. TypeOK'
    BY <1>1 DEF IInv, TypeOK, potentials, snapshots, approvals
<1> QED
    BY <1>2, QuietIInv DEF Keeps

LEMMA SubmitIInv == ASSUME IInv, SubmitChecklist PROVE IInv'
<1> USE DEF SubmitChecklist, flight, reads
<1>1. TypeOK'
    BY DEF IInv, TypeOK, potentials, snapshots, approvals
<1> QED
    BY <1>1, QuietIInv DEF Keeps

\* A command that has begun and read no row yet.
LEMMA BeginsIInv ==
    ASSUME IInv, NEW t \in Transactions, NEW s \in {"reopen"} \cup Kinds, step[t] = "idle",
           Reach(t, s, None),
           UNCHANGED <<parent, reads, fieldwork, potentials, finding, snapshots, approvals>>
    PROVE  IInv'
<1> USE DEF reads
<1>1. TypeOK'
    BY ReachGoesOn
    DEF IInv, TypeOK, Ids, fieldwork, potentials, snapshots, approvals
<1>2. parent[t] = None
    BY DEF IInv, PotentialsInv, RaisingFits
<1>3. /\ step'[t] = s /\ on'[t] = None
      /\ \A u \in Transactions \ {t} : step'[u] = step[u] /\ Keeps(u)
    BY ReachGoesOn DEF IInv, Keeps
<1>4. s \notin Holders \cup {"raise"}
    BY DEF Holders, Kinds
<1> QED
    BY <1>1, <1>2, <1>3, <1>4, QuietIInv

LEMMA RollbackIInv ==
    ASSUME IInv, NEW t \in Transactions, Rollback(t) \/ ReopenChecklist(t) PROVE IInv'
<1> USE DEF IInv, Rollback, ReopenChecklist
<1>1. FlightOK'
    BY FinishEnds
<1>2. TypeOK'
  <2>1. CASE Rollback(t)
    BY <1>1, <2>1 DEF TypeOK, FlightOK, fieldwork, potentials, snapshots, approvals
  <2>2. CASE ReopenChecklist(t)
    BY <1>1, <2>2 DEF TypeOK, FlightOK, potentials, snapshots, approvals
  <2> QED
    BY <2>1, <2>2
<1> QED
    BY <1>2, FinishEnds, QuietIInv DEF Holders, Kinds

LEMMA BeginCreatePotentialFindingIInv ==
    ASSUME IInv, NEW t \in Transactions, NEW r \in Responses,
           BeginCreatePotentialFinding(t, r)
    PROVE  IInv'
<1> USE DEF IInv, BeginCreatePotentialFinding, reads
<1>1. /\ step'[t] = "raise" /\ on'[t] = r
      /\ \A u \in Transactions \ {t} : step'[u] = step[u] /\ on'[u] = on[u]
      /\ step' \in [Transactions ->
                       {"idle", "reopen", "raise", "decide", "counted"} \cup Kinds]
      /\ on' \in [Transactions -> Ids]
    BY ReachGoesOn DEF Ids
<1>2. PICK q \in PotentialFindings \cup {None} :
         /\ parent' = [parent EXCEPT ![t] = q]
         /\ q = None => Raised(r) = {}
         /\ q # None => raisedOn[q] = r /\ potential[q] = "RETURNED"
  <2>1. CASE Raised(r) = {} /\ parent' = parent
    <3>1. parent[t] = None
        BY DEF PotentialsInv, RaisingFits
    <3>2. parent' = [parent EXCEPT ![t] = None]
        BY <2>1, <3>1 DEF TypeOK
    <3> QED
        BY <2>1, <3>2
  <2>2. CASE \E p \in Latest(r) : /\ potential[p] = "RETURNED"
                                  /\ parent' = [parent EXCEPT ![t] = p]
    BY <2>2, NoneIsNoId DEF Latest, Raised, Pending
  <2> QED
    BY <2>1, <2>2
<1>3. parent' \in [Transactions -> PotentialFindings \cup {None}]
    BY <1>2 DEF TypeOK
<1>4. TypeOK'
  <2>1. UNCHANGED <<checklist, answer, potentials, finding, snapshots, approvals, reads>>
    BY DEF fieldwork
  <2> HIDE DEF BeginCreatePotentialFinding, IInv
  <2>2. TypeOK
    BY DEF IInv
  <2> QED
    BY <1>1, <1>3, <2>1, <2>2 DEF TypeOK, potentials, snapshots, approvals
<1>5. \A u \in Transactions \ {t} : step'[u] = step[u] /\ Keeps(u)
  <2>1. /\ UNCHANGED reads
        /\ \A u \in Transactions \ {t} : parent'[u] = parent[u]
    BY <1>2 DEF TypeOK
  <2> HIDE DEF BeginCreatePotentialFinding, IInv
  <2> QED
    BY <1>1, <2>1 DEF Keeps
<1>6. PotentialsInv'
  <2>1. RaisingFits(t)'
    <3>1. /\ UNCHANGED <<potential, raisedOn, supersedes>>
          /\ DOMAIN parent = Transactions
      BY DEF TypeOK, potentials
    <3>2. parent'[t] \in PotentialFindings \cup {None}
          /\ (parent'[t] = None => Raised(r) = {})
          /\ (parent'[t] # None => raisedOn[parent'[t]] = r /\ potential[parent'[t]] = "RETURNED")
      BY <1>2, <3>1
    <3> HIDE DEF BeginCreatePotentialFinding, IInv
    <3> QED
      BY <1>1, <3>1, <3>2, NoneIsNoId DEF RaisingFits, Raised
  <2>2. ASSUME NEW u \in Transactions \ {t} PROVE RaisingFits(u)'
    BY <1>5 DEF PotentialsInv, RaisingFits, Keeps, Raised, potentials
  <2>3. \A u \in Transactions \ {t} : ~(step[u] = "raise" /\ on[u] = r)
    BY DEF ResponseLocked
  <2>4. ResponseLocks'
    BY <1>1, <2>3 DEF PotentialsInv, ResponseLocks
  <2>5. /\ (\A p \in PotentialFindings : PotentialFits(p))'
        /\ OneActive'
        /\ OneLineagePerResponse'
    BY DEF PotentialsInv, PotentialFits, OneActive, OneLineagePerResponse, Raised, potentials
  <2> QED
    BY <2>1, <2>2, <2>4, <2>5 DEF PotentialsInv
<1>7. ApprovalsInv'
    BY <1>1, <1>5, ApprovalsFrame DEF Holders, Kinds, approvals, snapshots
<1>8. DecisionsLeadToStage'
    BY DecisionsFrame DEF approvals
<1>9. SnapshotsInv'
  <2>1. \A u \in Transactions : seenFindings'[u] \in {seenFindings[u], {}}
    OBVIOUS
  <2>2. \A u \in Transactions :
              step'[u] = "counted" => step[u] = "counted" /\ on'[u] = on[u]
    BY <1>1
  <2>3. linked \in [Versions -> SUBSET PotentialFindings]
    BY DEF TypeOK
  <2> QED
    BY <2>1, <2>2, <2>3, SnapshotsFrame DEF approvals, snapshots
<1>10. FamiliesInv'
  <2>1. \A u \in Transactions :
              step'[u] \in Holders => step[u] \in Holders /\ on'[u] = on[u]
    BY <1>1 DEF Holders
  <2> QED
    BY <2>1, FamiliesFrame DEF approvals, snapshots
<1>11. IssuedBeforeFinding'
    BY IssuedFrame DEF approvals, snapshots
<1> QED
    BY <1>4, <1>6, <1>7, <1>8, <1>9, <1>10, <1>11

\* The end of a transaction that wrote no report version.
LEMMA EndKeepsReports ==
    ASSUME IInv, NEW t \in Transactions, Finish(t), UNCHANGED <<finding, snapshots, approvals>>
    PROVE  ApprovalsInv' /\ DecisionsLeadToStage' /\ SnapshotsInv' /\ FamiliesInv'
<1> USE DEF IInv, snapshots, approvals
<1>1. /\ step'[t] = "idle" /\ on'[t] = None /\ seenFindings'[t] = {}
      /\ \A u \in Transactions \ {t} : step'[u] = step[u] /\ Keeps(u)
    BY FinishEnds
<1>2. \A u \in Transactions :
         /\ step'[u] \in Holders => step[u] \in Holders /\ on'[u] = on[u]
         /\ step'[u] = "counted" => step[u] = "counted" /\ on'[u] = on[u]
         /\ seenFindings'[u] \in {seenFindings[u], {}}
    BY <1>1 DEF Holders, Keeps
<1>3. ApprovalsInv'
    BY <1>1, ApprovalsFrame DEF Holders, Kinds
<1>4. linked \in [Versions -> SUBSET PotentialFindings]
    BY DEF TypeOK
<1>5. SnapshotsInv'
    BY <1>2, <1>4, SnapshotsFrame
<1> QED
    BY <1>2, <1>3, <1>5, DecisionsFrame, FamiliesFrame

LEMMA CreatePotentialFindingIInv ==
    ASSUME IInv, NEW t \in Transactions, NEW p \in PotentialFindings,
           CreatePotentialFinding(t, p)
    PROVE  IInv'
<1> DEFINE r == on[t]
<1>1. /\ potential[p] = "ABSENT" /\ raisedOn[p] = None /\ finding[p] = "NONE"
      /\ step[t] = "raise" /\ r \in Responses /\ r # None
  <2>1. potential[p] = "ABSENT" /\ step[t] = "raise"
    BY DEF CreatePotentialFinding
  <2>2. PotentialFits(p) /\ RaisingFits(t)
    BY DEF IInv, PotentialsInv
  <2>3. finding[p] \in {"NONE", "OPEN", "CLOSED"}
    BY DEF IInv, TypeOK
  <2> QED
    BY <2>1, <2>2, <2>3, NoneIsNoId DEF PotentialFits, RaisingFits
<1>2. /\ potential' = [potential EXCEPT ![p] = "PENDING_LEAD_REVIEW"]
      /\ raisedOn' = [raisedOn EXCEPT ![p] = r]
      /\ supersedes' = [supersedes EXCEPT ![p] = parent[t]]
      /\ Finish(t) /\ finding' = finding
      /\ UNCHANGED <<fieldwork, snapshots, approvals>>
    BY DEF CreatePotentialFinding
<1>3. /\ potential' \in [PotentialFindings ->
          {"ABSENT", "PENDING_LEAD_REVIEW", "RETURNED", "DISMISSED", "CONVERTED"}]
      /\ raisedOn' \in [PotentialFindings -> Responses \cup {None}]
      /\ supersedes' \in [PotentialFindings -> PotentialFindings \cup {None}]
    BY <1>1, <1>2 DEF IInv, TypeOK
<1>4. FlightOK'
    BY <1>2, FinishEnds DEF IInv
<1>5. TypeOK'
  <2>1. TypeOK
    BY DEF IInv
  <2> QED
    BY <1>2, <1>3, <1>4, <2>1 DEF TypeOK, FlightOK, fieldwork, snapshots, approvals
<1>6. /\ potential'[p] = "PENDING_LEAD_REVIEW" /\ raisedOn'[p] = r
      /\ supersedes'[p] = parent[t]
      /\ \A q \in PotentialFindings \ {p} : /\ potential'[q] = potential[q]
                                            /\ raisedOn'[q] = raisedOn[q]
                                            /\ supersedes'[q] = supersedes[q]
  <2>1. /\ DOMAIN potential = PotentialFindings /\ DOMAIN raisedOn = PotentialFindings
        /\ DOMAIN supersedes = PotentialFindings
    BY DEF IInv, TypeOK
  <2> QED
    BY <1>2, <2>1
<1>7. ASSUME NEW s \in Responses
      PROVE  /\ s # r => {q \in PotentialFindings : raisedOn'[q] = s} = Raised(s)
             /\ s = r => {q \in PotentialFindings : raisedOn'[q] = s} = Raised(s) \cup {p}
  <2>1. s # None
    BY NoneIsNoId
  <2>2. \A q \in PotentialFindings :
           raisedOn'[q] = s <=> raisedOn[q] = s \/ (s = r /\ q = p)
    BY <1>1, <1>6, <2>1
  <2> QED
    BY <2>2 DEF Raised
<1>8. PotentialsInv'
  <2> USE DEF IInv
  <2>1. \A q \in PotentialFindings : PotentialFits(q)'
    BY <1>1, <1>2, <1>6 DEF PotentialsInv, PotentialFits
  <2>2. \A q \in PotentialFindings : raisedOn[q] = r => potential[q] = "RETURNED"
    BY <1>1 DEF CreatePotentialFinding, Active, Raised
  <2>3. OneActive'
    BY <1>1, <1>6, <2>2 DEF PotentialsInv, OneActive
  <2>4. /\ parent[t] = None => Raised(r) = {}
        /\ parent[t] # None => raisedOn[parent[t]] = r /\ potential[parent[t]] = "RETURNED"
        /\ parent[t] \in PotentialFindings \cup {None}
    BY <1>1 DEF PotentialsInv, RaisingFits, TypeOK
  <2>5. OneLineagePerResponse'
    <3> SUFFICES ASSUME NEW s \in Responses
                 PROVE  /\ \A a, b \in Raised(s)' :
                              supersedes'[a] = None /\ supersedes'[b] = None => a = b
                        /\ \A a \in Raised(s)' : supersedes'[a] # None =>
                              /\ supersedes'[a] \in Raised(s)'
                              /\ potential'[supersedes'[a]] = "RETURNED"
        BY DEF OneLineagePerResponse
    <3>1. /\ s # r => Raised(s)' = Raised(s)
          /\ s = r => Raised(s)' = Raised(s) \cup {p}
        BY <1>7 DEF Raised
    <3>2. p \notin Raised(s)
        BY <1>1, NoneIsNoId DEF Raised
    <3>3. /\ \A a, b \in Raised(s) : supersedes[a] = None /\ supersedes[b] = None => a = b
          /\ \A a \in Raised(s) : supersedes[a] # None =>
                supersedes[a] \in Raised(s) /\ potential[supersedes[a]] = "RETURNED"
        BY DEF PotentialsInv, OneLineagePerResponse
    <3>4. \A a \in Raised(s) : a \in PotentialFindings \ {p}
        BY <3>2 DEF Raised
    <3>5. CASE s # r
        BY <1>6, <3>1, <3>3, <3>4, <3>5
    <3>6. CASE s = r /\ parent[t] = None
        BY <1>6, <2>4, <3>1, <3>6
    <3>7. CASE s = r /\ parent[t] # None
      <4>1. parent[t] \in Raised(s) /\ potential'[parent[t]] = "RETURNED"
          BY <1>1, <1>6, <2>4, <3>7 DEF Raised
      <4>2. \A a \in Raised(s) : supersedes'[a] = supersedes[a]
          BY <1>6, <3>4
      <4>3. \A a \in Raised(s) : supersedes'[a] # None =>
                supersedes'[a] \in Raised(s)' /\ potential'[supersedes'[a]] = "RETURNED"
          BY <1>6, <3>1, <3>3, <3>4, <3>7, <4>2
      <4> QED
          BY <1>6, <3>1, <3>3, <3>7, <4>1, <4>2, <4>3
    <3> QED
        BY <3>5, <3>6, <3>7
  <2>6. /\ step'[t] = "idle" /\ parent'[t] = None
        /\ \A u \in Transactions \ {t} : step'[u] = step[u] /\ Keeps(u)
    BY <1>2, FinishEnds
  <2>7. ASSUME NEW u \in Transactions PROVE RaisingFits(u)'
    <3>1. CASE u = t
        BY <2>6, <3>1 DEF RaisingFits
    <3>2. CASE u # t /\ step[u] = "raise"
      <4>1. on[u] # r /\ on[u] \in Responses
          BY <1>1, <3>2 DEF PotentialsInv, ResponseLocks, RaisingFits
      <4>2. {q \in PotentialFindings : raisedOn'[q] = on[u]} = Raised(on[u])
          BY <1>7, <4>1
      <4>3. /\ step'[u] = "raise" /\ on'[u] = on[u] /\ parent'[u] = parent[u]
            /\ parent[u] \in PotentialFindings \cup {None}
          BY <2>6, <3>2 DEF Keeps, TypeOK
      <4>4. RaisingFits(u)
          BY DEF PotentialsInv
      <4>5. parent[u] # None => parent[u] \in PotentialFindings \ {p}
          BY <1>1, <3>2, <4>3, <4>4 DEF RaisingFits
      <4> QED
          BY <1>6, <3>2, <4>1, <4>2, <4>3, <4>4, <4>5 DEF RaisingFits, Raised
    <3>3. CASE u # t /\ step[u] # "raise"
        BY <2>6, <3>3 DEF PotentialsInv, RaisingFits, Keeps
    <3> QED
        BY <3>1, <3>2, <3>3
  <2>8. ResponseLocks'
    BY <2>6 DEF PotentialsInv, ResponseLocks, Keeps
  <2> QED
    BY <2>1, <2>3, <2>5, <2>7, <2>8 DEF PotentialsInv
<1>9. IssuedBeforeFinding'
  <2> SUFFICES ASSUME NEW q \in PotentialFindings, finding[q] # "NONE"
               PROVE  \E v \in Versions :
                         /\ kind[v] = "PRELIMINARY" /\ approval[v] = "LOCKED"
                         /\ frozen[v] \cap {a \in PotentialFindings :
                                              raisedOn'[a] = raisedOn'[q]} # {}
    BY <1>2 DEF IssuedBeforeFinding, AllFindings, Raised, snapshots, approvals
  <2>1. PICK v \in Versions :
           /\ kind[v] = "PRELIMINARY" /\ approval[v] = "LOCKED"
           /\ frozen[v] \cap Raised(raisedOn[q]) # {}
    BY DEF IInv, IssuedBeforeFinding, AllFindings
  <2>2. PICK a \in PotentialFindings : a \in frozen[v] /\ raisedOn[a] = raisedOn[q]
    BY <2>1 DEF Raised
  <2>3. q # p /\ raisedOn[q] # None
    BY <1>1 DEF IInv, PotentialsInv, PotentialFits
  <2>4. a # p
    BY <1>1, <2>2, <2>3
  <2>5. raisedOn'[a] = raisedOn'[q]
    BY <1>6, <2>2, <2>3, <2>4
  <2> QED
    BY <2>1, <2>2, <2>5
<1> QED
    BY <1>2, <1>5, <1>8, <1>9, EndKeepsReports DEF IInv

\* A step of the Lead Inspector, or of a Finding, that moves no transaction.
LEMMA RowsKeepReports ==
    ASSUME IInv, UNCHANGED <<snapshots, approvals, flight>>,
           \A p \in PotentialFindings :
              /\ finding[p] # "NONE" => finding'[p] # "NONE"
              /\ finding[p] = "CLOSED" => finding'[p] = "CLOSED"
    PROVE  ApprovalsInv' /\ DecisionsLeadToStage' /\ SnapshotsInv' /\ FamiliesInv'
<1> USE DEF IInv, snapshots, approvals, flight, reads
<1>1. ApprovalsInv'
    BY ApprovalsFrame DEF Keeps
<1>2. linked \in [Versions -> SUBSET PotentialFindings]
    BY DEF TypeOK
<1>3. SnapshotsInv'
    BY <1>2, SnapshotsFrame
<1> QED
    BY <1>1, <1>3, DecisionsFrame, FamiliesFrame

\* A pending Potential Finding is decided on.
LEMMA LeadDecides ==
    ASSUME IInv, NEW p \in PotentialFindings, potential[p] = "PENDING_LEAD_REVIEW",
           potential'[p] \in {"RETURNED", "DISMISSED", "CONVERTED"},
           finding'[p] # "NONE" /\ finding'[p] # finding[p] => potential'[p] = "CONVERTED",
           \A q \in PotentialFindings \ {p} :
              potential'[q] = potential[q] /\ finding'[q] = finding[q],
           UNCHANGED <<raisedOn, supersedes, flight>>
    PROVE  PotentialsInv'
<1> USE DEF IInv, PotentialsInv, flight
<1>1. \A q \in PotentialFindings : PotentialFits(q)'
    BY DEF PotentialFits
<1>2. OneActive'
    BY DEF OneActive
<1>3. OneLineagePerResponse'
    BY DEF OneLineagePerResponse, Raised
<1>4. \A t \in Transactions : RaisingFits(t)'
  <2> SUFFICES ASSUME NEW t \in Transactions PROVE RaisingFits(t)'
    OBVIOUS
  <2>1. parent[t] \in PotentialFindings \cup {None}
    BY Zenon DEF TypeOK
  <2> QED
    BY <2>1 DEF RaisingFits, Raised
<1>5. ResponseLocks'
    BY DEF ResponseLocks
<1> QED
    BY <1>1, <1>2, <1>3, <1>4, <1>5

LEMMA DecidePotentialFindingIInv ==
    ASSUME IInv, NEW p \in PotentialFindings, DecidePotentialFinding(p) PROVE IInv'
<1>1. PICK status \in {"RETURNED", "DISMISSED"} :
         potential' = [potential EXCEPT ![p] = status]
    BY DEF DecidePotentialFinding
<1>2. /\ potential[p] = "PENDING_LEAD_REVIEW"
      /\ UNCHANGED <<raisedOn, supersedes, fieldwork, finding, snapshots, approvals, flight>>
    BY DEF DecidePotentialFinding
<1>3. /\ potential'[p] = status
      /\ \A q \in PotentialFindings \ {p} : potential'[q] = potential[q]
      /\ potential' \in [PotentialFindings ->
            {"ABSENT", "PENDING_LEAD_REVIEW", "RETURNED", "DISMISSED", "CONVERTED"}]
    BY <1>1 DEF IInv, TypeOK
<1>4. TypeOK'
    BY <1>2, <1>3 DEF IInv, TypeOK, fieldwork, snapshots, approvals, flight, reads
<1>5. PotentialsInv'
    BY <1>2, <1>3, LeadDecides
<1>6. IssuedBeforeFinding'
    BY <1>2 DEF IInv, IssuedBeforeFinding, AllFindings, Raised, snapshots, approvals
<1> QED
    BY <1>2, <1>4, <1>5, <1>6, RowsKeepReports DEF IInv

\* The lineage of a Potential Finding stays on its response: the Potential
\* Findings of a response are a set that has what its members supersede.
LEMMA LineageOfResponse ==
    ASSUME IInv, NEW p \in PotentialFindings, potential[p] # "ABSENT"
    PROVE  Lineage(p) \subseteq Raised(raisedOn[p])
<1>1. raisedOn[p] \in Responses
  <2>1. raisedOn \in [PotentialFindings -> Responses \cup {None}]
    BY DEF IInv, TypeOK
  <2>2. PotentialFits(p)
    BY DEF IInv, PotentialsInv
  <2> QED
    BY <2>1, <2>2 DEF PotentialFits
<1>2. ClosedUpwards(Raised(raisedOn[p]))
    BY <1>1 DEF ClosedUpwards, IInv, PotentialsInv, OneLineagePerResponse
<1> QED
    BY <1>2 DEF Lineage, Raised

LEMMA ConvertPotentialFindingIInv ==
    ASSUME IInv, NEW p \in PotentialFindings, ConvertPotentialFinding(p) PROVE IInv'
<1>1. /\ potential[p] = "PENDING_LEAD_REVIEW"
      /\ potential' = [potential EXCEPT ![p] = "CONVERTED"]
      /\ finding' = [finding EXCEPT ![p] = "OPEN"]
      /\ UNCHANGED <<raisedOn, supersedes, fieldwork, snapshots, approvals, flight>>
    BY DEF ConvertPotentialFinding
<1>2. /\ potential'[p] = "CONVERTED" /\ finding'[p] = "OPEN"
      /\ \A q \in PotentialFindings \ {p} :
            potential'[q] = potential[q] /\ finding'[q] = finding[q]
      /\ potential' \in [PotentialFindings ->
            {"ABSENT", "PENDING_LEAD_REVIEW", "RETURNED", "DISMISSED", "CONVERTED"}]
      /\ finding' \in [PotentialFindings -> {"NONE", "OPEN", "CLOSED"}]
    BY <1>1 DEF IInv, TypeOK
<1>3. finding[p] = "NONE"
    BY <1>1 DEF IInv, TypeOK, PotentialsInv, PotentialFits
<1>4. TypeOK'
    BY <1>1, <1>2 DEF IInv, TypeOK, fieldwork, snapshots, approvals, flight, reads
<1>5. PotentialsInv'
    BY <1>1, <1>2, LeadDecides
<1>6. IssuedBeforeFinding'
  <2>1. \E v \in Versions : /\ kind[v] = "PRELIMINARY" /\ approval[v] = "LOCKED"
                            /\ frozen[v] \cap Raised(raisedOn[p]) # {}
    BY <1>1, LineageOfResponse DEF ConvertPotentialFinding, NamedInIssued
  <2> QED
    BY <1>1, <1>2, <2>1
    DEF IInv, IssuedBeforeFinding, AllFindings, Raised, snapshots, approvals
<1>7. \A q \in PotentialFindings :
         /\ finding[q] # "NONE" => finding'[q] # "NONE"
         /\ finding[q] = "CLOSED" => finding'[q] = "CLOSED"
    BY <1>2, <1>3
<1> QED
    BY <1>1, <1>4, <1>5, <1>6, <1>7, RowsKeepReports DEF IInv

LEMMA CloseFindingIInv ==
    ASSUME IInv, NEW p \in PotentialFindings, CloseFinding(p) PROVE IInv'
<1>1. /\ finding[p] = "OPEN"
      /\ finding' = [finding EXCEPT ![p] = "CLOSED"]
      /\ UNCHANGED <<fieldwork, potentials, snapshots, approvals, flight>>
    BY DEF CloseFinding
<1>2. /\ finding'[p] = "CLOSED"
      /\ \A q \in PotentialFindings \ {p} : finding'[q] = finding[q]
      /\ finding' \in [PotentialFindings -> {"NONE", "OPEN", "CLOSED"}]
    BY <1>1 DEF IInv, TypeOK
<1>3. TypeOK'
    BY <1>1, <1>2 DEF IInv, TypeOK, fieldwork, potentials, snapshots, approvals, flight, reads
<1>4. PotentialsInv'
    BY <1>1, <1>2
    DEF IInv, PotentialsInv, PotentialFits, OneActive, OneLineagePerResponse, Raised,
        RaisingFits, ResponseLocks, potentials, flight
<1>5. IssuedBeforeFinding'
    BY <1>1, <1>2
    DEF IInv, IssuedBeforeFinding, AllFindings, Raised, potentials, snapshots, approvals
<1>6. \A q \in PotentialFindings :
         /\ finding[q] # "NONE" => finding'[q] # "NONE"
         /\ finding[q] = "CLOSED" => finding'[q] = "CLOSED"
    BY <1>1, <1>2
<1> QED
    BY <1>1, <1>3, <1>4, <1>5, <1>6, RowsKeepReports DEF IInv

\* A transaction on the reports that goes on leaves the Potential Findings.
LEMMA ReachKeepsPotentials ==
    ASSUME IInv, NEW t \in Transactions, NEW s, NEW row, Reach(t, s, row),
           s # "raise", step[t] # "raise",
           UNCHANGED <<parent, potentials, finding>>
    PROVE  PotentialsInv'
<1>1. /\ step'[t] = s
      /\ \A u \in Transactions \ {t} : step'[u] = step[u] /\ on'[u] = on[u]
    BY ReachGoesOn DEF IInv
<1> QED
    BY <1>1
    DEF IInv, PotentialsInv, PotentialFits, OneActive, OneLineagePerResponse, Raised,
        RaisingFits, ResponseLocks, potentials

LEMMA LinkReportVersionIInv ==
    ASSUME IInv, NEW t \in Transactions, LinkReportVersion(t) PROVE IInv'
<1>1. PICK v \in Versions : /\ kind[v] = "NONE"
                            /\ \A u \in Transactions : on[u] # v
                            /\ Reach(t, step[t], v)
    BY DEF LinkReportVersion
<1>2. /\ step[t] \in Kinds
      /\ seenFindings' = [seenFindings EXCEPT ![t] = AllFindings]
      /\ seenPotentials' = [seenPotentials EXCEPT ![t] =
             {p \in PotentialFindings : potential[p] # "ABSENT"}]
      /\ UNCHANGED <<parent, seenStage, seenRevision, fieldwork, potentials, finding,
                     snapshots, approvals>>
    BY DEF LinkReportVersion
<1>3. /\ step'[t] = step[t] /\ on'[t] = v
      /\ \A u \in Transactions \ {t} : step'[u] = step[u] /\ on'[u] = on[u]
      /\ step' \in [Transactions ->
                       {"idle", "reopen", "raise", "decide", "counted"} \cup Kinds]
      /\ on' \in [Transactions -> Ids]
    BY <1>1, <1>2, ReachGoesOn DEF IInv, Ids
<1>4. /\ seenFindings' \in [Transactions -> SUBSET PotentialFindings]
      /\ seenPotentials' \in [Transactions -> SUBSET PotentialFindings]
      /\ seenFindings'[t] = AllFindings
      /\ \A u \in Transactions \ {t} : seenFindings'[u] = seenFindings[u]
    BY <1>2 DEF IInv, TypeOK, AllFindings
<1>5. TypeOK'
    BY <1>2, <1>3, <1>4 DEF IInv, TypeOK, fieldwork, potentials, snapshots, approvals
<1>6. step[t] \notin Holders \cup {"raise"}
    BY <1>2 DEF Kinds, Holders
<1>7. PotentialsInv'
    BY <1>1, <1>2, <1>6, ReachKeepsPotentials
<1>8. ApprovalsInv'
  <2> USE <1>2, <1>3 DEF IInv, ApprovalsInv, snapshots, approvals
  <2>1. \A w \in Versions : ApprovalFits(w)'
    BY DEF ApprovalFits
  <2>2. ASSUME NEW u \in Transactions PROVE DecidingFits(u)' /\ CreatingFits(u)'
    <3>1. CASE u = t
        BY <1>1, <1>6, <3>1 DEF DecidingFits, CreatingFits
    <3>2. CASE u # t
        BY <3>2 DEF DecidingFits, CreatingFits
    <3> QED
        BY <3>1, <3>2
  <2>3. ApprovalLocks'
    BY <1>6 DEF ApprovalLocks
  <2>4. (\A a, b \in Transactions :
            step[a] \in Kinds /\ step[b] \in Kinds /\ on[a] # None /\ on[a] = on[b]
            => a = b)'
    BY <1>1
  <2> QED
    BY <2>1, <2>2, <2>3, <2>4
<1>9. DecisionsLeadToStage'
    BY <1>2, DecisionsFrame DEF IInv, approvals
<1>10. SnapshotsInv'
  <2>1. \A u \in Transactions : step'[u] = "counted" => on'[u] = on[u] /\ step[u] = "counted"
    BY <1>2, <1>3 DEF Kinds
  <2>2. \A u \in Transactions : step[u] = "counted" => on[u] \in Versions
    BY DEF IInv, ApprovalsInv, DecidingFits, Holders
  <2>3. (\A u \in Transactions : seenFindings[u] \subseteq AllFindings)'
    BY <1>2, <1>4 DEF IInv, SnapshotsInv, AllFindings
  <2> QED
    BY <1>2, <2>1, <2>2, <2>3
    DEF IInv, SnapshotsInv, AllFindings, FinalIsOfClosedFindings, AllClosed, snapshots,
        approvals
<1>11. FamiliesInv'
  <2>1. \A u \in Transactions :
              step'[u] \in Holders => step[u] \in Holders /\ on'[u] = on[u]
    BY <1>3, <1>6
  <2> QED
    BY <1>2, <2>1, FamiliesFrame DEF IInv, approvals, snapshots
<1>12. IssuedBeforeFinding'
    BY <1>2, IssuedFrame DEF IInv, approvals, snapshots
<1> QED
    BY <1>5, <1>7, <1>8, <1>9, <1>10, <1>11, <1>12 DEF IInv

LEMMA BeginDecideReportIInv ==
    ASSUME IInv, NEW t \in Transactions, NEW v \in Versions, BeginDecideReport(t, v)
    PROVE  IInv'
<1>1. /\ step[t] = "idle" /\ ~ApprovalLocked(v) /\ approval[v] \in Stages
      /\ \A w \in Created : report[w] = report[v] => kind[w] = kind[v]
      /\ Reach(t, "decide", v)
      /\ UNCHANGED <<parent, seenFindings, seenPotentials, fieldwork, potentials,
                     finding, snapshots, approvals>>
    BY DEF BeginDecideReport, Decidable, Family
<1>2. /\ seenStage' = [seenStage EXCEPT ![t] = approval[v]]
      /\ seenRevision' = [seenRevision EXCEPT ![t] = revision[v]]
    BY DEF BeginDecideReport, ReadApproval
<1>3. revision[v] \in 1..3 /\ kind[v] # "NONE"
    BY <1>1 DEF IInv, ApprovalsInv, ApprovalFits, Stages
<1>4. /\ step'[t] = "decide" /\ on'[t] = v
      /\ \A u \in Transactions \ {t} : step'[u] = step[u] /\ on'[u] = on[u]
      /\ step' \in [Transactions ->
                       {"idle", "reopen", "raise", "decide", "counted"} \cup Kinds]
      /\ on' \in [Transactions -> Ids]
    BY <1>1, ReachGoesOn DEF IInv, Ids
<1>5. /\ seenStage' \in [Transactions -> Stages \cup {"NONE"}]
      /\ seenStage'[t] = approval[v]
      /\ \A u \in Transactions \ {t} : seenStage'[u] = seenStage[u]
    BY <1>1, <1>2 DEF IInv, TypeOK
<1>6. /\ seenRevision' \in [Transactions -> 0..3]
      /\ seenRevision'[t] = revision[v]
      /\ \A u \in Transactions \ {t} : seenRevision'[u] = seenRevision[u]
  <2>1. seenRevision \in [Transactions -> 0..3]
    BY Zenon DEF IInv, TypeOK
  <2>2. revision[v] \in 0..3
    BY <1>3
  <2> QED
    BY <1>2, <2>1, <2>2
<1>7. TypeOK'
    BY <1>1, <1>4, <1>5, <1>6 DEF IInv, TypeOK, fieldwork, potentials, snapshots, approvals
<1>8. PotentialsInv'
    BY <1>1, ReachKeepsPotentials
<1>9. ApprovalsInv'
  <2> USE <1>1, <1>4, <1>5, <1>6 DEF IInv, ApprovalsInv, snapshots, approvals
  <2>1. \A w \in Versions : ApprovalFits(w)'
    BY DEF ApprovalFits
  <2>2. ASSUME NEW u \in Transactions PROVE DecidingFits(u)' /\ CreatingFits(u)'
    <3>1. CASE u = t
        BY <3>1 DEF DecidingFits, CreatingFits, Kinds
    <3>2. CASE u # t
        BY <3>2 DEF DecidingFits, CreatingFits
    <3> QED
        BY <3>1, <3>2
  <2>3. \A u \in Transactions : step[u] \in Holders => on[u] # v
    BY DEF ApprovalLocked, Holders
  <2>4. ApprovalLocks'
    BY <2>3 DEF ApprovalLocks
  <2>5. (\A a, b \in Transactions :
            step[a] \in Kinds /\ step[b] \in Kinds /\ on[a] # None /\ on[a] = on[b]
            => a = b)'
    BY DEF Kinds
  <2> QED
    BY <2>1, <2>2, <2>4, <2>5
<1>10. DecisionsLeadToStage'
    BY <1>1, DecisionsFrame DEF IInv, approvals
<1>11. SnapshotsInv'
  <2>1. \A u \in Transactions :
              step'[u] = "counted" => step[u] = "counted" /\ on'[u] = on[u]
    BY <1>4
  <2>2. linked \in [Versions -> SUBSET PotentialFindings]
    BY DEF IInv, TypeOK
  <2> QED
    BY <1>1, <2>1, <2>2, SnapshotsFrame DEF IInv, approvals, snapshots
<1>12. FamiliesInv'
  <2>1. v \in Created
    BY <1>3 DEF Created
  <2>2. \A w \in Created : Deciding(w)' => Deciding(w) \/ w = v
    BY <1>1, <1>4 DEF Deciding, approvals
  <2>3. (report' = report) /\ kind' = kind /\ Created' = Created
    BY <1>1 DEF Created, snapshots
  <2> QED
    BY <1>1, <2>1, <2>2, <2>3 DEF IInv, FamiliesInv
<1>13. IssuedBeforeFinding'
    BY <1>1, IssuedFrame DEF IInv, approvals, snapshots
<1> QED
    BY <1>7, <1>8, <1>9, <1>10, <1>11, <1>12, <1>13 DEF IInv

LEMMA CountOpenFindingsIInv ==
    ASSUME IInv, NEW t \in Transactions, CountOpenFindings(t) PROVE IInv'
<1> DEFINE v == on[t]
<1>1. /\ step[t] = "decide" /\ MayBeDecided(v) /\ Reach(t, "counted", v)
      /\ UNCHANGED <<parent, reads, fieldwork, potentials, finding, snapshots, approvals>>
    BY DEF CountOpenFindings
<1>2. v \in Versions
    BY <1>1 DEF IInv, ApprovalsInv, DecidingFits, Holders
<1>3. /\ step'[t] = "counted" /\ on'[t] = v
      /\ \A u \in Transactions \ {t} : step'[u] = step[u] /\ on'[u] = on[u]
      /\ step' \in [Transactions ->
                       {"idle", "reopen", "raise", "decide", "counted"} \cup Kinds]
      /\ on' \in [Transactions -> Ids]
    BY <1>1, <1>2, ReachGoesOn DEF IInv, Ids
<1>4. TypeOK'
    BY <1>1, <1>3 DEF IInv, TypeOK, fieldwork, potentials, snapshots, approvals, reads
<1>5. PotentialsInv'
    BY <1>1, ReachKeepsPotentials
<1>6. ApprovalsInv'
    BY <1>1, <1>3, ApprovalsFrame DEF IInv, Holders, Keeps, reads, approvals, snapshots
<1>7. DecisionsLeadToStage'
    BY <1>1, DecisionsFrame DEF IInv, approvals
<1>8. SnapshotsInv'
  <2>1. kind[v] = "FINAL" => AllClosed(v)
    <3> SUFFICES ASSUME kind[v] = "FINAL", NEW p \in linked[v] PROVE finding[p] = "CLOSED"
        BY DEF AllClosed
    <3>1. p \in PotentialFindings /\ finding[p] # "NONE"
        BY <1>2 DEF IInv, SnapshotsInv, AllFindings
    <3>2. finding[p] # "OPEN"
        BY <1>1, <3>1 DEF MayBeDecided, OpenFindings
    <3>3. finding[p] \in {"NONE", "OPEN", "CLOSED"}
        BY <3>1 DEF IInv, TypeOK
    <3> QED
        BY <3>1, <3>2, <3>3
  <2>2. \A u \in Transactions : on'[u] = on[u]
    BY <1>3
  <2> QED
    BY <1>1, <1>3, <2>1, <2>2
    DEF IInv, SnapshotsInv, AllFindings, FinalIsOfClosedFindings, AllClosed, reads, snapshots,
        approvals
<1>9. FamiliesInv'
    BY <1>1, <1>3, FamiliesFrame DEF IInv, Holders, approvals, snapshots
<1>10. IssuedBeforeFinding'
    BY <1>1, IssuedFrame DEF IInv, approvals, snapshots
<1> QED
    BY <1>4, <1>5, <1>6, <1>7, <1>8, <1>9, <1>10 DEF IInv

\* The end of a transaction that wrote reports leaves the Potential Findings.
LEMMA EndKeepsPotentials ==
    ASSUME IInv, NEW t \in Transactions, Finish(t), UNCHANGED <<potentials, finding>>
    PROVE  PotentialsInv'
<1>1. /\ step'[t] = "idle" /\ parent'[t] = None
      /\ \A u \in Transactions \ {t} : step'[u] = step[u] /\ Keeps(u)
    BY FinishEnds DEF IInv
<1> QED
    BY <1>1, PotentialsFrame DEF IInv

LEMMA CreateReportVersionIInv ==
    ASSUME IInv, NEW t \in Transactions, CreateReportVersion(t) PROVE IInv'
<1>0. PICK v \in Versions : v = on[t] /\ kind[v] = "NONE"
    BY DEF CreateReportVersion, IInv, ApprovalsInv, CreatingFits
<1>1. /\ step[t] \in Kinds /\ v # None /\ v = on[t]
      /\ kind' = [kind EXCEPT ![v] = step[t]]
      /\ linked' = [linked EXCEPT ![v] = seenFindings[t]]
      /\ frozen' = [frozen EXCEPT ![v] = seenPotentials[t]]
      /\ revision' = [revision EXCEPT ![v] = 1]
      /\ Finish(t)
      /\ UNCHANGED <<fieldwork, potentials, finding, decisions>>
    BY <1>0 DEF CreateReportVersion
<1>2. PICK r \in Reports, n \in 1..MaxNumber :
         report' = [report EXCEPT ![v] = r] /\ number' = [number EXCEPT ![v] = n]
    BY <1>0 DEF CreateReportVersion
<1>3. PICK s \in {"RETURNED", "DEPARTMENT_REVIEW"} : approval' = [approval EXCEPT ![v] = s]
    BY <1>0 DEF CreateReportVersion
<1>4. /\ v \in Versions /\ kind[v] = "NONE" /\ approval[v] = "NONE" /\ revision[v] = 0
    BY <1>0, <1>1 DEF IInv, ApprovalsInv, CreatingFits, ApprovalFits
<1>5. /\ step'[t] = "idle" /\ on'[t] = None /\ seenFindings'[t] = {}
      /\ \A u \in Transactions \ {t} : step'[u] = step[u] /\ Keeps(u)
      /\ FlightOK'
    BY <1>1, FinishEnds DEF IInv
<1>6. /\ kind'[v] = step[t] /\ linked'[v] = seenFindings[t]
      /\ \A w \in Versions \ {v} : kind'[w] = kind[w] /\ linked'[w] = linked[w]
      /\ kind' \in [Versions -> Kinds \cup {"NONE"}]
      /\ linked' \in [Versions -> SUBSET PotentialFindings]
  <2>1. /\ kind \in [Versions -> Kinds \cup {"NONE"}]
        /\ linked \in [Versions -> SUBSET PotentialFindings]
        /\ seenFindings[t] \in SUBSET PotentialFindings
    BY DEF IInv, TypeOK
  <2> QED
    BY <1>1, <1>4, <2>1
<1>7. /\ \A w \in Versions \ {v} : frozen'[w] = frozen[w] /\ report'[w] = report[w]
      /\ frozen' \in [Versions -> SUBSET PotentialFindings]
      /\ report' \in [Versions -> Reports \cup {None}]
  <2>1. /\ frozen \in [Versions -> SUBSET PotentialFindings]
        /\ report \in [Versions -> Reports \cup {None}]
        /\ seenPotentials[t] \in SUBSET PotentialFindings
    BY DEF IInv, TypeOK
  <2> QED
    BY <1>1, <1>2, <1>4, <2>1
<1>8. number' \in [Versions -> 0..MaxNumber]
  <2>1. number \in [Versions -> 0..MaxNumber]
    BY Zenon DEF IInv, TypeOK
  <2>2. n \in 0..MaxNumber
    BY MaxNumberAssumption
  <2> QED
    BY <1>2, <2>1, <2>2
<1>9. /\ approval'[v] = s
      /\ \A w \in Versions \ {v} : approval'[w] = approval[w]
      /\ approval' \in [Versions -> Stages \cup {"NONE", "RETURNED", "LOCKED"}]
    BY <1>3, <1>4 DEF IInv, TypeOK, Stages
<1>10. /\ revision'[v] = 1
       /\ \A w \in Versions \ {v} : revision'[w] = revision[w]
       /\ revision' \in [Versions -> 0..4]
  <2>1. revision \in [Versions -> 0..4]
    BY Zenon DEF IInv, TypeOK
  <2> QED
    BY <1>1, <1>4, <2>1
<1>11. TypeOK'
    BY <1>1, <1>5, <1>6, <1>7, <1>8, <1>9, <1>10
    DEF IInv, TypeOK, FlightOK, fieldwork, potentials
<1>12. PotentialsInv'
    BY <1>1, EndKeepsPotentials
<1>13. ApprovalsInv'
  <2> USE DEF IInv, ApprovalsInv
  <2>1. \A w \in Versions : ApprovalFits(w)'
    BY <1>1, <1>6, <1>9, <1>10 DEF ApprovalFits, Kinds
  <2>2. ASSUME NEW u \in Transactions PROVE DecidingFits(u)'
    <3>1. step[u] \in Holders => on[u] \in Versions \ {v}
        BY <1>4 DEF DecidingFits, ApprovalFits, Stages
    <3> QED
        BY <1>5, <1>9, <1>10, <3>1 DEF DecidingFits, Keeps, Holders
  <2>3. ASSUME NEW u \in Transactions PROVE CreatingFits(u)'
    <3>1. step[u] \in Kinds /\ u # t => on[u] # v
        BY <1>1
    <3> QED
        BY <1>5, <1>6, <3>1 DEF CreatingFits, Keeps
  <2>4. ApprovalLocks'
    BY <1>5 DEF ApprovalLocks, Keeps, Holders
  <2>5. (\A a, b \in Transactions :
            step[a] \in Kinds /\ step[b] \in Kinds /\ on[a] # None /\ on[a] = on[b]
            => a = b)'
    BY <1>5 DEF Keeps
  <2> QED
    BY <2>1, <2>2, <2>3, <2>4, <2>5
<1>14. DecisionsLeadToStage'
  <2>1. UNCHANGED decisions
    BY <1>1
  <2>2. HistoriesTo(approval[v]) = {{}} /\ {} \in HistoriesTo(s)
    BY <1>4 DEF HistoriesTo
  <2>3. \A w \in Versions : Decided(w) \in HistoriesTo(approval[w])
    BY DEF IInv, DecisionsLeadToStage
  <2>4. ASSUME NEW w \in Versions PROVE Decided(w) \in HistoriesTo(approval'[w])
    <3>1. CASE w = v
        BY <1>9, <2>2, <2>3, <3>1
    <3>2. CASE w # v
        BY <1>9, <2>3, <3>2
    <3> QED
        BY <3>1, <3>2
  <2> QED
    BY <2>1, <2>4 DEF DecisionsLeadToStage, Decided
<1>15. SnapshotsInv'
  <2> USE DEF IInv, SnapshotsInv
  <2>1. (\A u \in Transactions : seenFindings[u] \subseteq AllFindings)'
    BY <1>1, <1>5 DEF AllFindings, Keeps
  <2>2. (\A w \in Versions : linked[w] \subseteq AllFindings)'
    BY <1>1, <1>6 DEF AllFindings
  <2>3. FinalIsOfClosedFindings'
    BY <1>1, <1>6, <1>10 DEF FinalIsOfClosedFindings
  <2>4. ASSUME NEW u \in Transactions, step'[u] = "counted"
        PROVE  step[u] = "counted" /\ on'[u] = on[u] /\ on[u] \in Versions \ {v}
    BY <1>4, <1>5, <2>4 DEF Keeps, Holders, ApprovalsInv, DecidingFits, Stages
  <2>5. (\A u \in Transactions :
            step[u] = "counted" /\ kind[on[u]] = "FINAL" => AllClosed(on[u]))'
    BY <1>1, <1>6, <2>4 DEF AllClosed
  <2> QED
    BY <2>1, <2>2, <2>3, <2>5
<1>16. FamiliesInv'
  <2>1. ~Deciding(v)'
    <3>1. \A u \in Transactions : step'[u] \in Holders => on'[u] # v
        BY <1>4, <1>5 DEF IInv, ApprovalsInv, DecidingFits, Keeps, Holders, Stages
    <3> QED
        BY <1>10, <3>1 DEF Deciding
  <2>2. \A w \in Versions \ {v} : Deciding(w)' => Deciding(w)
    BY <1>5, <1>10 DEF Deciding, Keeps, Holders
  <2>3. \A w \in Versions \ {v} : w \in Created' => w \in Created
    BY <1>6 DEF Created
  <2>4. SUFFICES ASSUME NEW a \in Created', NEW b \in Created', report'[a] = report'[b],
                        Deciding(a)', Deciding(b)'
                 PROVE  kind'[a] = kind'[b]
    BY DEF FamiliesInv
  <2>5. a \in Created \ {v} /\ b \in Created \ {v}
    BY <2>1, <2>3, <2>4 DEF Created
  <2>6. Deciding(a) /\ Deciding(b)
    BY <2>2, <2>4, <2>5 DEF Created
  <2> QED
    BY <1>6, <1>7, <2>4, <2>5, <2>6 DEF IInv, FamiliesInv, Created
<1>17. IssuedBeforeFinding'
    BY <1>1, <1>4, <1>6, <1>7, <1>9
    DEF IInv, IssuedBeforeFinding, AllFindings, Raised, potentials
<1> QED
    BY <1>11, <1>12, <1>13, <1>14, <1>15, <1>16, <1>17 DEF IInv

\* The decision of a stage leads to the next stage, back, or to the lock.
LEMMA DecisionLeads ==
    ASSUME NEW stage \in Stages, NEW d \in Allowed(stage)
    PROVE  \/ /\ stage = "DEPARTMENT_REVIEW" /\ d = "FORWARD"
              /\ AfterDecision(stage, d) = "GM_REVIEW"
           \/ /\ stage = "GM_REVIEW" /\ d = "FORWARD"
              /\ AfterDecision(stage, d) = "EXECUTIVE_DIRECTOR_REVIEW"
           \/ /\ stage = "EXECUTIVE_DIRECTOR_REVIEW" /\ d = "ISSUE"
              /\ AfterDecision(stage, d) = "LOCKED"
           \/ /\ stage \in {"DEPARTMENT_REVIEW", "GM_REVIEW"} /\ d = "RETURN"
              /\ AfterDecision(stage, d) = "RETURNED"
BY DEF Stages, Allowed, AfterDecision

LEMMA DecidedGrows ==
    ASSUME NEW v, NEW n, NEW d, decisions' = decisions \cup {<<v, n, d>>}
    PROVE  /\ Decided(v)' = Decided(v) \cup {<<n, d>>}
           /\ \A w \in Versions : w # v => Decided(w)' = Decided(w)
<1> DEFINE e == <<v, n, d>>
           Of(w, D) == {x \in D : x[1] = w}
<1>1. e[1] = v /\ <<e[2], e[3]>> = <<n, d>>
    OBVIOUS
<1> HIDE DEF e
<1>2. decisions' = decisions \cup {e}
    BY DEF e
<1>3. Of(v, decisions') = Of(v, decisions) \cup {e}
    BY <1>1, <1>2
<1>4. \A w \in Versions : w # v => Of(w, decisions') = Of(w, decisions)
    BY <1>1, <1>2
<1>5. \A w : /\ Decided(w) = {<<x[2], x[3]>> : x \in Of(w, decisions)}
             /\ Decided(w)' = {<<x[2], x[3]>> : x \in Of(w, decisions')}
    BY DEF Decided
<1> HIDE DEF Of
<1>6. {<<x[2], x[3]>> : x \in Of(v, decisions')}
        = {<<x[2], x[3]>> : x \in Of(v, decisions)} \cup {<<e[2], e[3]>>}
    BY <1>3, Zenon
<1> QED
    BY <1>1, <1>4, <1>5, <1>6

LEMMA DecideReportIInv ==
    ASSUME IInv, NEW t \in Transactions, DecideReport(t) PROVE IInv'
<1>1. PICK v \in Versions : v = on[t] /\ step[t] = "counted"
    BY DEF DecideReport, IInv, ApprovalsInv, DecidingFits, Holders
<1>2. /\ approval[v] \in Stages /\ seenStage[t] = approval[v]
      /\ seenRevision[t] = revision[v]
    BY <1>1 DEF IInv, ApprovalsInv, DecidingFits, Holders
<1>3. PICK d \in Allowed(approval[v]) :
         /\ approval' = [approval EXCEPT ![v] = AfterDecision(approval[v], d)]
         /\ decisions' = decisions \cup {<<v, revision[v], d>>}
    BY <1>1, <1>2 DEF DecideReport
<1>4. /\ revision' = [revision EXCEPT ![v] = revision[v] + 1]
      /\ Finish(t)
      /\ UNCHANGED <<fieldwork, potentials, finding, snapshots>>
    BY <1>1, <1>2 DEF DecideReport
<1> DEFINE next == AfterDecision(approval[v], d)
           n == revision[v]
<1>5. \/ approval[v] = "DEPARTMENT_REVIEW" /\ n = 1 /\ d = "FORWARD" /\ next = "GM_REVIEW"
      \/ approval[v] = "GM_REVIEW" /\ n = 2 /\ d = "FORWARD"
         /\ next = "EXECUTIVE_DIRECTOR_REVIEW"
      \/ approval[v] = "EXECUTIVE_DIRECTOR_REVIEW" /\ n = 3 /\ d = "ISSUE"
         /\ next = "LOCKED"
      \/ approval[v] = "DEPARTMENT_REVIEW" /\ n = 1 /\ d = "RETURN" /\ next = "RETURNED"
      \/ approval[v] = "GM_REVIEW" /\ n = 2 /\ d = "RETURN" /\ next = "RETURNED"
  <2>1. /\ approval[v] = "DEPARTMENT_REVIEW" => n = 1
        /\ approval[v] = "GM_REVIEW" => n = 2
        /\ approval[v] = "EXECUTIVE_DIRECTOR_REVIEW" => n = 3
    BY DEF IInv, ApprovalsInv, ApprovalFits
  <2> QED
    BY <1>2, <2>1, DecisionLeads
<1>6. /\ step'[t] = "idle" /\ on'[t] = None /\ seenFindings'[t] = {}
      /\ \A u \in Transactions \ {t} : step'[u] = step[u] /\ Keeps(u)
      /\ FlightOK'
    BY <1>4, FinishEnds DEF IInv
<1>7. /\ approval'[v] = next
      /\ \A w \in Versions \ {v} : approval'[w] = approval[w]
      /\ approval' \in [Versions -> Stages \cup {"NONE", "RETURNED", "LOCKED"}]
  <2>1. next \in Stages \cup {"NONE", "RETURNED", "LOCKED"}
    BY <1>5 DEF Stages
  <2> QED
    BY <1>3, <2>1 DEF IInv, TypeOK
<1>8. n \in 1..3
    BY <1>5
<1>9. /\ revision'[v] = n + 1
      /\ \A w \in Versions \ {v} : revision'[w] = revision[w]
      /\ revision' \in [Versions -> 0..4]
  <2>1. revision \in [Versions -> 0..4]
    BY Zenon DEF IInv, TypeOK
  <2> QED
    BY <1>4, <1>8, <2>1
<1>10. decisions' \subseteq Versions \X (1..3) \X {"FORWARD", "RETURN", "ISSUE"}
  <2>1. d \in {"FORWARD", "RETURN", "ISSUE"}
    BY <1>5
  <2>2. decisions \subseteq Versions \X (1..3) \X {"FORWARD", "RETURN", "ISSUE"}
    BY Zenon DEF IInv, TypeOK
  <2> QED
    BY <1>3, <1>8, <2>1, <2>2
<1>11. TypeOK'
    BY <1>4, <1>6, <1>7, <1>9, <1>10
    DEF IInv, TypeOK, FlightOK, fieldwork, potentials, snapshots
<1>12. PotentialsInv'
    BY <1>4, EndKeepsPotentials
<1>13. ApprovalsInv'
  <2> USE DEF IInv, ApprovalsInv, snapshots
  <2>1. ASSUME NEW w \in Versions PROVE ApprovalFits(w)'
    <3>1. ApprovalFits(w)
        OBVIOUS
    <3>2. CASE w = v
        BY <1>4, <1>5, <1>7, <1>9, <3>1, <3>2 DEF ApprovalFits
    <3>3. CASE w # v
        BY <1>4, <1>7, <1>9, <3>1, <3>3 DEF ApprovalFits
    <3> QED
        BY <3>2, <3>3
  <2>2. ASSUME NEW u \in Transactions PROVE DecidingFits(u)'
    <3>1. step[u] \in Holders /\ u # t => on[u] # v
        BY <1>1 DEF ApprovalLocks, Holders
    <3> QED
        BY <1>6, <1>7, <1>9, <3>1 DEF DecidingFits, Keeps, Holders
  <2>3. ASSUME NEW u \in Transactions PROVE CreatingFits(u)'
    BY <1>4, <1>6 DEF CreatingFits, Keeps, Kinds
  <2>4. ApprovalLocks'
    BY <1>6 DEF ApprovalLocks, Keeps, Holders
  <2>5. (\A a, b \in Transactions :
            step[a] \in Kinds /\ step[b] \in Kinds /\ on[a] # None /\ on[a] = on[b]
            => a = b)'
    BY <1>6 DEF Keeps, Kinds
  <2> QED
    BY <2>1, <2>2, <2>3, <2>4, <2>5
<1>14. DecisionsLeadToStage'
  <2>1. \A w \in Versions : Decided(w) \in HistoriesTo(approval[w])
    BY DEF IInv, DecisionsLeadToStage
  <2>2. /\ Decided(v)' = Decided(v) \cup {<<n, d>>}
        /\ \A w \in Versions : w # v => Decided(w)' = Decided(w)
    BY <1>3, DecidedGrows
  <2>3. Decided(v) \cup {<<n, d>>} \in HistoriesTo(next)
    <3>1. Decided(v) \in HistoriesTo(approval[v])
        BY <2>1
    <3> HIDE DEF next, n
    <3>2. CASE approval[v] = "DEPARTMENT_REVIEW"
      <4>1. Decided(v) = {}
          BY <3>1, <3>2 DEF HistoriesTo
      <4>2. n = 1 /\ \/ d = "FORWARD" /\ next = "GM_REVIEW"
                     \/ d = "RETURN" /\ next = "RETURNED"
          BY <1>5, <3>2
      <4> QED
          BY <4>1, <4>2 DEF HistoriesTo
    <3>3. CASE approval[v] = "GM_REVIEW"
      <4>1. Decided(v) = {<<1, "FORWARD">>}
          BY <3>1, <3>3 DEF HistoriesTo
      <4>2. n = 2 /\ \/ d = "FORWARD" /\ next = "EXECUTIVE_DIRECTOR_REVIEW"
                     \/ d = "RETURN" /\ next = "RETURNED"
          BY <1>5, <3>3
      <4>3. HistoriesTo("EXECUTIVE_DIRECTOR_REVIEW") = {{<<1, "FORWARD">>, <<2, "FORWARD">>}}
            /\ {<<1, "FORWARD">>, <<2, "RETURN">>} \in HistoriesTo("RETURNED")
          BY DEF HistoriesTo
      <4> QED
          BY <4>1, <4>2, <4>3
    <3>4. CASE approval[v] = "EXECUTIVE_DIRECTOR_REVIEW"
      <4>1. Decided(v) = {<<1, "FORWARD">>, <<2, "FORWARD">>}
          BY <3>1, <3>4 DEF HistoriesTo
      <4>2. n = 3 /\ d = "ISSUE" /\ next = "LOCKED"
          BY <1>5, <3>4
      <4>3. HistoriesTo("LOCKED") = {{<<1, "FORWARD">>, <<2, "FORWARD">>, <<3, "ISSUE">>}}
          BY DEF HistoriesTo
      <4> QED
          BY <4>1, <4>2, <4>3
    <3> QED
        BY <1>2, <3>2, <3>3, <3>4 DEF Stages
  <2>4. ASSUME NEW w \in Versions PROVE Decided(w)' \in HistoriesTo(approval'[w])
    <3> HIDE DEF next, n
    <3>1. CASE w = v
        BY <1>7, <2>2, <2>3, <3>1
    <3>2. CASE w # v
        BY <1>7, <2>1, <2>2, <3>2
    <3> QED
        BY <3>1, <3>2
  <2> HIDE DEF next, n
  <2> QED
    BY <2>4 DEF DecisionsLeadToStage
<1>15. SnapshotsInv'
  <2> USE DEF IInv, SnapshotsInv, snapshots
  <2>1. (\A u \in Transactions : seenFindings[u] \subseteq AllFindings)'
    BY <1>4, <1>6 DEF AllFindings, Keeps
  <2>2. (\A w \in Versions : linked[w] \subseteq AllFindings)'
    BY <1>4 DEF AllFindings
  <2>3. kind[v] = "FINAL" => \A p \in linked[v] : finding[p] = "CLOSED"
    BY <1>1 DEF AllClosed
  <2>4. FinalIsOfClosedFindings'
    BY <1>4, <1>9, <2>3 DEF FinalIsOfClosedFindings
  <2>5. (\A u \in Transactions :
            step[u] = "counted" /\ kind[on[u]] = "FINAL" => AllClosed(on[u]))'
    BY <1>4, <1>6 DEF AllClosed, Keeps
  <2> QED
    BY <2>1, <2>2, <2>4, <2>5
<1>16. FamiliesInv'
  <2>1. Deciding(v)
    BY <1>1 DEF Deciding, Holders
  <2>2. \A w \in Versions : Deciding(w)' => Deciding(w)
    BY <1>6, <1>9, <2>1 DEF Deciding, Keeps, Holders
  <2> QED
    BY <1>4, <2>2 DEF IInv, FamiliesInv, Created, snapshots
<1>17. IssuedBeforeFinding'
    BY <1>2, <1>4, <1>7
    DEF IInv, IssuedBeforeFinding, AllFindings, Raised, potentials, snapshots, Stages
<1> QED
    BY <1>11, <1>12, <1>13, <1>14, <1>15, <1>16, <1>17 DEF IInv

-----------------------------------------------------------------------------
(* The invariant and what follows from it. *)

LEMMA NextIInv == IInv /\ [Next]_vars => IInv'
<1> SUFFICES ASSUME IInv, [Next]_vars PROVE IInv'
    OBVIOUS
<1>1. ASSUME NEW t \in Transactions, NEW k \in Kinds, BeginCreateReportVersion(t, k)
      PROVE  IInv'
    BY <1>1, BeginsIInv DEF BeginCreateReportVersion
<1>2. ASSUME NEW t \in Transactions, BeginReopenChecklist(t) PROVE IInv'
    BY <1>2, BeginsIInv DEF BeginReopenChecklist
<1>3. ASSUME NEW p \in PotentialFindings,
             DecidePotentialFinding(p) \/ ConvertPotentialFinding(p) \/ CloseFinding(p)
      PROVE  IInv'
    BY <1>3, DecidePotentialFindingIInv, ConvertPotentialFindingIInv, CloseFindingIInv
<1>4. ASSUME NEW t \in Transactions,
             \/ ReopenChecklist(t) \/ Rollback(t)
             \/ \E r \in Responses : BeginCreatePotentialFinding(t, r)
             \/ \E p \in PotentialFindings : CreatePotentialFinding(t, p)
      PROVE  IInv'
    BY <1>4, RollbackIInv, BeginCreatePotentialFindingIInv, CreatePotentialFindingIInv
<1>5. ASSUME NEW t \in Transactions,
             \/ LinkReportVersion(t) \/ CreateReportVersion(t)
             \/ \E v \in Versions : BeginDecideReport(t, v)
             \/ CountOpenFindings(t) \/ DecideReport(t)
      PROVE  IInv'
    BY <1>5, LinkReportVersionIInv, CreateReportVersionIInv, BeginDecideReportIInv,
       CountOpenFindingsIInv, DecideReportIInv
<1> QED
    BY <1>1, <1>2, <1>3, <1>4, <1>5, StutterIInv, SubmitIInv, UpsertIInv DEF Next

(* The inductive invariant holds in every state of the audit. *)
THEOREM Invariance == Spec => []IInv
BY InitIInv, NextIInv, PTL DEF Spec

(* The tables and the transactions hold values of the program. *)
THEOREM TypeCorrect == Spec => []TypeOK
BY Invariance, PTL DEF IInv

LEMMA FindingIsActive == IInv => OneFindingPerResponse
<1> SUFFICES ASSUME IInv, NEW p \in AllFindings, NEW q \in AllFindings,
                    raisedOn[p] = raisedOn[q]
             PROVE  p = q
    BY DEF OneFindingPerResponse
<1>1. /\ p \in PotentialFindings /\ potential[p] = "CONVERTED"
      /\ q \in PotentialFindings /\ potential[q] = "CONVERTED"
    BY DEF AllFindings, IInv, PotentialsInv, PotentialFits
<1>2. raisedOn[p] # None
    BY <1>1 DEF IInv, PotentialsInv, PotentialFits
<1> QED
    BY <1>1, <1>2 DEF IInv, PotentialsInv, OneActive

(* At most one Potential Finding of a response becomes a Finding, in any order
   of the Inspector's and the Lead's commands (field_workflow.go
   CreatePotentialFinding, service.go ConvertPotentialFinding). *)
THEOREM ResponseHasOneFinding == Spec => []OneFindingPerResponse
BY Invariance, FindingIsActive, PTL

(* The Potential Findings of a response form one chain of returned ones and
   its end (field_workflow.go CreatePotentialFinding). *)
THEOREM ResponseHasOneLineage == Spec => []OneLineagePerResponse
BY Invariance, PTL DEF IInv, PotentialsInv

(* A Finding has an issued Preliminary Report that froze a Potential Finding
   of its response: the lineage the conversion walks never leaves the response
   (service.go ConvertPotentialFinding). *)
THEOREM FindingWasAnnounced == Spec => []IssuedBeforeFinding
BY Invariance, PTL DEF IInv

(* The decisions recorded on a report version are the history that led it to its
   stage, one for each revision it left behind: no two managers decide on the
   same state, and an issued report went through the three stages (service.go
   DecideReport, reports/state.go Decide). *)
THEOREM DecisionsAreOneHistory == Spec => []DecisionsLeadToStage
BY Invariance, PTL DEF IInv

(* A Final Report that was decided on names closed Findings only, whatever is
   converted meanwhile (clean_state_creation.go CreateReportVersion, service.go
   DecideReport). *)
THEOREM FinalNamesClosedFindings == Spec => []FinalIsOfClosedFindings
BY Invariance, PTL DEF IInv, SnapshotsInv

LEMMA DecidedFamilies == IInv => FamiliesDoNotMix
BY DEF IInv, FamiliesInv, Deciding, FamiliesDoNotMix

(* Decided versions of one report are of one kind (service.go DecideReport). *)
THEOREM DecidedFamiliesDoNotMix == Spec => []FamiliesDoNotMix
BY Invariance, DecidedFamilies, PTL
===============================================================================
