-------------------------- MODULE AuditPromiseProofs --------------------------
(***************************************************************************)
(* The audit implements AuditPromise, for any number of responses,         *)
(* versions and transactions: transactions in flight, rows that supersede  *)
(* each other and snapshots taken in two reads look, from outside, like    *)
(* one matter on each question and one step of a report at a time.         *)
(***************************************************************************)
EXTENDS AuditReportsProofs

Present == {p \in PotentialFindings : potential[p] # "ABSENT"}

(***************************************************************************)
(* What the invariant of the audit does not say of snapshots: what a       *)
(* version names it also announces, all of it was raised before, and a     *)
(* Final Report is created and counted only after a Preliminary Report was *)
(* issued.                                                                 *)
(***************************************************************************)
FrozenInv ==
    /\ \A v \in Versions : linked[v] \subseteq frozen[v] /\ frozen[v] \subseteq Present
    /\ \A t \in Transactions :
          seenFindings[t] \subseteq seenPotentials[t] /\ seenPotentials[t] \subseteq Present
    /\ \A t \in Transactions :
          step[t] = "FINAL" \/ (step[t] = "counted" /\ kind[on[t]] = "FINAL")
              => PreliminaryIssued

-----------------------------------------------------------------------------
(* What steps keep. *)

\* No step takes back what was raised, or an issued report.
LEMMA RaisedStays ==
    ASSUME IInv, [Next]_vars
    PROVE  Present \subseteq Present' /\ \A p \in Present : raisedOn'[p] = raisedOn[p]
<1> USE DEF Present, potentials
<1>1. potential \in [PotentialFindings ->
          {"ABSENT", "PENDING_LEAD_REVIEW", "RETURNED", "DISMISSED", "CONVERTED"}]
      /\ raisedOn \in [PotentialFindings -> Responses \cup {None}]
    BY DEF IInv, TypeOK
<1>2. ASSUME NEW t \in Transactions, NEW p \in PotentialFindings, CreatePotentialFinding(t, p)
      PROVE  Present \subseteq Present' /\ \A q \in Present : raisedOn'[q] = raisedOn[q]
    BY <1>1, <1>2 DEF CreatePotentialFinding
<1>3. ASSUME NEW p \in PotentialFindings,
             DecidePotentialFinding(p) \/ ConvertPotentialFinding(p)
      PROVE  Present \subseteq Present' /\ \A q \in Present : raisedOn'[q] = raisedOn[q]
    BY <1>1, <1>3 DEF DecidePotentialFinding, ConvertPotentialFinding
<1>4. CASE UNCHANGED potentials
    BY <1>4
<1> QED
    BY <1>2, <1>3, <1>4
    DEF Next, vars, SubmitChecklist, UpsertChecklistResponse, CloseFinding,
        BeginReopenChecklist, ReopenChecklist, BeginCreatePotentialFinding,
        BeginCreateReportVersion, LinkReportVersion, CreateReportVersion,
        BeginDecideReport, CountOpenFindings, DecideReport, Rollback

LEMMA IssuedStays ==
    ASSUME IInv, [Next]_vars
    PROVE  /\ \A v \in Created : kind'[v] = kind[v]
           /\ PreliminaryIssued => PreliminaryIssued'
<1> USE DEF snapshots, approvals
<1>1. kind \in [Versions -> Kinds \cup {"NONE"}]
      /\ approval \in [Versions -> Stages \cup {"NONE", "RETURNED", "LOCKED"}]
    BY DEF IInv, TypeOK
<1>2. ASSUME NEW t \in Transactions, CreateReportVersion(t)
      PROVE  /\ \A v \in Created : kind'[v] = kind[v]
             /\ PreliminaryIssued => PreliminaryIssued'
  <2>1. on[t] \in Versions /\ kind[on[t]] = "NONE" /\ approval[on[t]] = "NONE"
    BY <1>2 DEF CreateReportVersion, IInv, ApprovalsInv, CreatingFits, ApprovalFits
  <2>2. \A v \in Versions \ {on[t]} : kind'[v] = kind[v] /\ approval'[v] = approval[v]
    BY <1>1, <1>2, <2>1 DEF CreateReportVersion
  <2> QED
    BY <2>1, <2>2 DEF Created, PreliminaryIssued
<1>3. ASSUME NEW t \in Transactions, DecideReport(t)
      PROVE  /\ \A v \in Created : kind'[v] = kind[v]
             /\ PreliminaryIssued => PreliminaryIssued'
  <2>1. on[t] \in Versions /\ approval[on[t]] \in Stages
    BY <1>3 DEF DecideReport, IInv, ApprovalsInv, DecidingFits, Holders
  <2>2. /\ UNCHANGED kind
        /\ \A v \in Versions \ {on[t]} : approval'[v] = approval[v]
    BY <1>1, <1>3, <2>1 DEF DecideReport
  <2> QED
    BY <2>1, <2>2 DEF Created, PreliminaryIssued, Stages
<1>4. CASE UNCHANGED <<kind, approval>>
    BY <1>4 DEF PreliminaryIssued
<1> QED
    BY <1>2, <1>3, <1>4
    DEF Next, vars, SubmitChecklist, UpsertChecklistResponse, CloseFinding,
        DecidePotentialFinding, ConvertPotentialFinding, CreatePotentialFinding,
        BeginReopenChecklist, ReopenChecklist, BeginCreatePotentialFinding,
        BeginCreateReportVersion, LinkReportVersion, BeginDecideReport,
        CountOpenFindings, Rollback

-----------------------------------------------------------------------------
(* The snapshots. *)

LEMMA InitFrozen == Init => FrozenInv
BY DEF Init, FrozenInv, Kinds

\* A transaction that reads nothing new, or ends, keeps the snapshots.
LEMMA FrozenFrame ==
    ASSUME IInv, FrozenInv, [Next]_vars, UNCHANGED <<linked, frozen>>,
           \A t \in Transactions :
              \/ seenFindings'[t] = seenFindings[t] /\ seenPotentials'[t] = seenPotentials[t]
              \/ seenFindings'[t] = {} /\ seenPotentials'[t] = {},
           \A t \in Transactions :
              \/ step'[t] \notin {"FINAL", "counted"}
              \/ step'[t] = step[t] /\ on'[t] = on[t]
              \/ step'[t] = "FINAL" /\ (step[t] = "FINAL" \/ PreliminaryIssued)
              \/ step'[t] = "counted" /\ (kind'[on'[t]] = "FINAL" => PreliminaryIssued)
    PROVE  FrozenInv'
<1>1. Present \subseteq Present'
    BY RaisedStays
<1>2. /\ \A v \in Created : kind'[v] = kind[v]
      /\ PreliminaryIssued => PreliminaryIssued'
    BY IssuedStays
<1>3. (\A v \in Versions : linked[v] \subseteq frozen[v] /\ frozen[v] \subseteq Present)'
    BY <1>1 DEF FrozenInv
<1>4. (\A t \in Transactions :
          seenFindings[t] \subseteq seenPotentials[t] /\ seenPotentials[t] \subseteq Present)'
    BY <1>1 DEF FrozenInv
<1>5. ASSUME NEW t \in Transactions,
             step'[t] = "FINAL" \/ (step'[t] = "counted" /\ kind'[on'[t]] = "FINAL")
      PROVE  PreliminaryIssued'
  <2>1. CASE step'[t] = step[t] /\ on'[t] = on[t]
    <3>1. CASE step[t] = "FINAL"
        BY <1>2, <3>1 DEF FrozenInv
    <3>2. CASE step[t] = "counted"
      <4>1. on[t] \in Created
          BY <3>2 DEF IInv, ApprovalsInv, DecidingFits, ApprovalFits, Holders, Created, Stages
      <4>2. kind[on[t]] = "FINAL"
          BY <1>2, <1>5, <2>1, <3>2, <4>1
      <4> QED
          BY <1>2, <3>2, <4>2 DEF FrozenInv
    <3> QED
        BY <1>5, <2>1, <3>1, <3>2
  <2>2. CASE step'[t] = "FINAL" /\ (step[t] = "FINAL" \/ PreliminaryIssued)
    BY <1>2, <2>2 DEF FrozenInv
  <2>3. CASE step'[t] = "counted" /\ (kind'[on'[t]] = "FINAL" => PreliminaryIssued)
    BY <1>2, <1>5, <2>3
  <2> QED
    BY <1>5, <2>1, <2>2, <2>3
<1> QED
    BY <1>3, <1>4, <1>5 DEF FrozenInv
\* The seven variables of a transaction after it ends.
LEMMA FinishClears ==
    ASSUME IInv, NEW t \in Transactions, Finish(t)
    PROVE  /\ step'[t] = "idle" /\ seenFindings'[t] = {} /\ seenPotentials'[t] = {}
           /\ \A u \in Transactions \ {t} :
                 /\ step'[u] = step[u] /\ on'[u] = on[u]
                 /\ seenFindings'[u] = seenFindings[u]
                 /\ seenPotentials'[u] = seenPotentials[u]
<1>1. /\ step \in [Transactions -> {"idle", "reopen", "raise", "decide", "counted"} \cup Kinds]
      /\ on \in [Transactions -> Ids]
      /\ seenFindings \in [Transactions -> SUBSET PotentialFindings]
      /\ seenPotentials \in [Transactions -> SUBSET PotentialFindings]
    BY DEF IInv, TypeOK
<1> QED
    BY <1>1 DEF Finish

LEMMA EndFrozen ==
    ASSUME IInv, FrozenInv, [Next]_vars, UNCHANGED <<linked, frozen>>,
           NEW t \in Transactions, Finish(t)
    PROVE  FrozenInv'
BY FinishClears, FrozenFrame

LEMMA ReachFrozen ==
    ASSUME IInv, FrozenInv, [Next]_vars,
           UNCHANGED <<linked, frozen, kind, seenFindings, seenPotentials>>,
           NEW t \in Transactions, NEW s, NEW row, Reach(t, s, row),
           s = "FINAL" => PreliminaryIssued,
           s = "counted" /\ kind[row] = "FINAL" => PreliminaryIssued
    PROVE  FrozenInv'
<1>1. /\ step'[t] = s /\ on'[t] = row
      /\ \A u \in Transactions \ {t} : step'[u] = step[u] /\ on'[u] = on[u]
    BY ReachGoesOn DEF IInv
<1> QED
    BY <1>1, FrozenFrame

LEMMA LinkFrozen ==
    ASSUME IInv, FrozenInv, [Next]_vars, NEW t \in Transactions, LinkReportVersion(t)
    PROVE  FrozenInv'
<1>1. PICK v \in Versions : step[t] \in Kinds /\ Reach(t, step[t], v)
    BY DEF LinkReportVersion
<1>2. /\ step'[t] = step[t]
      /\ \A u \in Transactions \ {t} : step'[u] = step[u] /\ on'[u] = on[u]
    BY <1>1, ReachGoesOn DEF IInv
<1>3. /\ seenFindings'[t] = AllFindings /\ seenPotentials'[t] = Present
      /\ \A u \in Transactions \ {t} : /\ seenFindings'[u] = seenFindings[u]
                                       /\ seenPotentials'[u] = seenPotentials[u]
      /\ UNCHANGED <<potential, kind, approval, linked, frozen>>
  <2>1. /\ seenFindings \in [Transactions -> SUBSET PotentialFindings]
        /\ seenPotentials \in [Transactions -> SUBSET PotentialFindings]
    BY DEF IInv, TypeOK
  <2> QED
    BY <2>1 DEF LinkReportVersion, Present, potentials, snapshots, approvals
<1>4. AllFindings \subseteq Present
    BY DEF AllFindings, Present, IInv, PotentialsInv, PotentialFits
<1>5. PreliminaryIssued' = PreliminaryIssued /\ Present' = Present
    BY <1>3 DEF PreliminaryIssued, Present
<1>6. (\A u \in Transactions :
          seenFindings[u] \subseteq seenPotentials[u] /\ seenPotentials[u] \subseteq Present)'
    BY <1>3, <1>4, <1>5 DEF FrozenInv
<1>7. (\A u \in Transactions :
          step[u] = "FINAL" \/ (step[u] = "counted" /\ kind[on[u]] = "FINAL")
              => PreliminaryIssued)'
    BY <1>1, <1>2, <1>3, <1>5 DEF FrozenInv, Kinds
<1> QED
    BY <1>3, <1>5, <1>6, <1>7 DEF FrozenInv

LEMMA CreateFrozen ==
    ASSUME IInv, FrozenInv, [Next]_vars, NEW t \in Transactions, CreateReportVersion(t)
    PROVE  FrozenInv'
<1> DEFINE v == on[t]
<1>1. /\ v \in Versions /\ kind[v] = "NONE"
      /\ linked' = [linked EXCEPT ![v] = seenFindings[t]]
      /\ frozen' = [frozen EXCEPT ![v] = seenPotentials[t]]
      /\ Finish(t)
    BY DEF CreateReportVersion, IInv, ApprovalsInv, CreatingFits
<1>2. /\ linked'[v] = seenFindings[t] /\ frozen'[v] = seenPotentials[t]
      /\ \A w \in Versions \ {v} : linked'[w] = linked[w] /\ frozen'[w] = frozen[w]
    BY <1>1 DEF IInv, TypeOK
<1>3. /\ step'[t] = "idle" /\ seenFindings'[t] = {} /\ seenPotentials'[t] = {}
      /\ \A u \in Transactions \ {t} :
            /\ step'[u] = step[u] /\ on'[u] = on[u]
            /\ seenFindings'[u] = seenFindings[u] /\ seenPotentials'[u] = seenPotentials[u]
    BY <1>1, FinishClears
<1>4. Present \subseteq Present'
    BY RaisedStays
<1>5. /\ \A w \in Created : kind'[w] = kind[w]
      /\ PreliminaryIssued => PreliminaryIssued'
    BY IssuedStays
<1> HIDE DEF v
<1>6. (\A w \in Versions : linked[w] \subseteq frozen[w] /\ frozen[w] \subseteq Present)'
    BY <1>2, <1>4 DEF FrozenInv
<1>7. (\A u \in Transactions :
          seenFindings[u] \subseteq seenPotentials[u] /\ seenPotentials[u] \subseteq Present)'
    BY <1>3, <1>4 DEF FrozenInv
<1>8. ASSUME NEW u \in Transactions,
             step'[u] = "FINAL" \/ (step'[u] = "counted" /\ kind'[on'[u]] = "FINAL")
      PROVE  PreliminaryIssued'
  <2>1. u # t /\ step'[u] = step[u] /\ on'[u] = on[u]
    BY <1>3, <1>8
  <2>2. CASE step[u] = "counted"
    <3>1. on[u] \in Created
        BY <2>2 DEF IInv, ApprovalsInv, DecidingFits, ApprovalFits, Holders, Created, Stages
    <3> QED
        BY <1>5, <1>8, <2>1, <2>2, <3>1 DEF FrozenInv
  <2> QED
    BY <1>5, <1>8, <2>1, <2>2 DEF FrozenInv
<1> QED
    BY <1>6, <1>7, <1>8 DEF FrozenInv

LEMMA StillFrozen ==
    ASSUME IInv, FrozenInv, [Next]_vars,
           UNCHANGED <<linked, frozen, seenFindings, seenPotentials, step, on>>
    PROVE  FrozenInv'
BY FrozenFrame

LEMMA NextFrozen == IInv /\ FrozenInv /\ [Next]_vars => FrozenInv'
<1> SUFFICES ASSUME IInv, FrozenInv, [Next]_vars PROVE FrozenInv'
    OBVIOUS
<1> USE DEF snapshots, flight, reads
<1>1. ASSUME NEW t \in Transactions, LinkReportVersion(t) \/ CreateReportVersion(t)
      PROVE  FrozenInv'
    BY <1>1, LinkFrozen, CreateFrozen
<1>2. ASSUME NEW t \in Transactions, CountOpenFindings(t) PROVE FrozenInv'
    BY <1>2, ReachFrozen DEF CountOpenFindings, MayBeDecided
<1>3. ASSUME NEW t \in Transactions, NEW k \in Kinds, BeginCreateReportVersion(t, k)
      PROVE  FrozenInv'
    BY <1>3, ReachFrozen DEF BeginCreateReportVersion, ReadyFor, Kinds
<1>4. ASSUME NEW t \in Transactions,
             \/ BeginReopenChecklist(t)
             \/ \E r \in Responses : BeginCreatePotentialFinding(t, r)
             \/ \E v \in Versions : BeginDecideReport(t, v)
      PROVE  FrozenInv'
    BY <1>4, ReachFrozen
    DEF BeginReopenChecklist, BeginCreatePotentialFinding, BeginDecideReport, ReadApproval
<1>5. ASSUME NEW t \in Transactions,
             \/ ReopenChecklist(t) \/ DecideReport(t) \/ Rollback(t)
             \/ \E p \in PotentialFindings : CreatePotentialFinding(t, p)
      PROVE  FrozenInv'
    BY <1>5, EndFrozen
    DEF ReopenChecklist, DecideReport, Rollback, CreatePotentialFinding
<1>6. ASSUME SubmitChecklist \/ \E r \in Responses : UpsertChecklistResponse(r)
      PROVE  FrozenInv'
    BY <1>6, StillFrozen DEF SubmitChecklist, UpsertChecklistResponse
<1>7. ASSUME NEW p \in PotentialFindings,
             DecidePotentialFinding(p) \/ ConvertPotentialFinding(p) \/ CloseFinding(p)
      PROVE  FrozenInv'
    BY <1>7, StillFrozen DEF DecidePotentialFinding, ConvertPotentialFinding, CloseFinding
<1>8. CASE UNCHANGED vars
    BY <1>8, StillFrozen DEF vars
<1> QED
    BY <1>1, <1>2, <1>3, <1>4, <1>5, <1>6, <1>7, <1>8 DEF Next

(* What a report version names it also announces, and what it announces had
   been raised when it was drafted (clean_state_creation.go
   CreateReportVersion). *)
THEOREM SnapshotsAreTaken == Spec => []FrozenInv
BY InitFrozen, NextFrozen, Invariance, PTL DEF Spec
-----------------------------------------------------------------------------
(* The matter of a response. *)

MatterOf(status, found) ==
    CASE status = "PENDING_LEAD_REVIEW" -> "RAISED"
      [] status = "DISMISSED" -> "DISMISSED"
      [] OTHER -> IF found = "CLOSED" THEN "CLOSED" ELSE "FOUND"

\* The Potential Finding that was not returned says it.
LEMMA MatterIs ==
    ASSUME NEW r \in Responses, NEW p, Active(r) = {p}
    PROVE  matter[r] = MatterOf(potential[p], finding[p])
<1>1. (CHOOSE q \in Active(r) : TRUE) = p
    OBVIOUS
<1> QED
    BY <1>1, Zenon DEF matter, Matter, MatterOf

LEMMA MatterBecomes ==
    ASSUME NEW r \in Responses, NEW p, Active(r)' = {p}
    PROVE  matter'[r] = MatterOf(potential'[p], finding'[p])
<1>1. (CHOOSE q \in Active(r)' : TRUE) = p
    OBVIOUS
<1> QED
    BY <1>1, Zenon DEF matter, Matter, MatterOf

LEMMA RaisedOnResponse == ASSUME IInv, NEW p \in Present PROVE raisedOn[p] \in Responses
<1>1. raisedOn \in [PotentialFindings -> Responses \cup {None}]
    BY DEF IInv, TypeOK
<1>2. p \in PotentialFindings /\ raisedOn[p] # None
    BY DEF IInv, PotentialsInv, PotentialFits, Present
<1> QED
    BY <1>1, <1>2

\* The Potential Finding that was not returned is the only one.
LEMMA OnlyActive ==
    ASSUME IInv, NEW p \in Present, potential[p] # "RETURNED"
    PROVE  raisedOn[p] \in Responses /\ Active(raisedOn[p]) = {p}
<1>1. raisedOn[p] \in Responses
    BY RaisedOnResponse
<1>2. \A q \in Active(raisedOn[p]) : q = p
    BY <1>1, NoneIsNoId DEF IInv, PotentialsInv, OneActive, Active, Raised, Present
<1> QED
    BY <1>1, <1>2 DEF Active, Raised, Present

\* A step that leaves the Potential Findings of r alone leaves its matter.
LEMMA MatterStays ==
    ASSUME NEW r \in Responses, Raised(r)' = Raised(r),
           \A p \in Raised(r) : potential'[p] = potential[p] /\ finding'[p] = finding[p]
    PROVE  matter'[r] = matter[r]
<1>1. Active(r)' = Active(r) /\ Active(r) \subseteq Raised(r)
    BY DEF Active
<1>2. CASE Active(r) = {}
    BY <1>1, <1>2, Zenon DEF matter, Matter
<1>3. CASE Active(r) # {}
  <2> DEFINE p == CHOOSE q \in Active(r) : TRUE
  <2>1. p \in Active(r)
    BY <1>3
  <2>2. p = CHOOSE q \in Active(r)' : TRUE
    BY <1>1
  <2>3. potential'[p] = potential[p] /\ finding'[p] = finding[p]
    BY <1>1, <2>1
  <2>4. matter[r] = MatterOf(potential[p], finding[p])
    BY <1>3, Zenon DEF matter, Matter, MatterOf
  <2>5. matter'[r] = MatterOf(potential'[p], finding'[p])
    BY <1>1, <1>3, <2>2, Zenon DEF matter, Matter, MatterOf
  <2> QED
    BY <2>3, <2>4, <2>5
<1> QED
    BY <1>2, <1>3

\* One row of response r changes, and nothing of another response.
LEMMA OneMoves ==
    ASSUME IInv, NEW p \in PotentialFindings, NEW r \in Responses,
           raisedOn[p] \in {r, None}, raisedOn'[p] = r,
           \A q \in PotentialFindings \ {p} :
              /\ raisedOn'[q] = raisedOn[q] /\ potential'[q] = potential[q]
              /\ finding'[q] = finding[q]
    PROVE  matter' = [matter EXCEPT ![r] = matter'[r]]
<1>1. ASSUME NEW s \in Responses, s # r PROVE matter'[s] = matter[s]
  <2>1. Raised(s)' = Raised(s)
    BY <1>1, NoneIsNoId DEF Raised
  <2>2. \A q \in Raised(s) : q \in PotentialFindings \ {p}
    BY <1>1, NoneIsNoId DEF Raised
  <2> QED
    BY <2>1, <2>2, MatterStays
<1>2. /\ matter = [s \in Responses |-> matter[s]]
      /\ matter' = [s \in Responses |-> matter'[s]]
    BY Zenon DEF matter
<1> QED
    BY <1>1, <1>2

-----------------------------------------------------------------------------
(* What versions say. *)

LEMMA PapersStay ==
    ASSUME IInv, FrozenInv, [Next]_vars, UNCHANGED <<kind, approval, linked, frozen>>
    PROVE  UNCHANGED <<kind, approval, announces, names>>
<1>1. \A p \in Present : raisedOn'[p] = raisedOn[p]
    BY RaisedStays
<1>2. \A v \in Versions : /\ \A p \in frozen[v] : raisedOn'[p] = raisedOn[p]
                          /\ \A p \in linked[v] : raisedOn'[p] = raisedOn[p]
    BY <1>1 DEF FrozenInv
<1>3. \A v \in Versions : /\ Questions(frozen[v])' = Questions(frozen[v])
                          /\ Questions(linked[v])' = Questions(linked[v])
    BY <1>2 DEF Questions
<1>4. announces' = announces
    BY <1>3 DEF announces
<1>5. names' = names
    BY <1>3 DEF names
<1> QED
    BY <1>4, <1>5
-----------------------------------------------------------------------------
(* One lemma for each action that shows. *)

LEMMA QuietPromise ==
    ASSUME IInv, FrozenInv, [Next]_vars,
           UNCHANGED <<potential, raisedOn, finding, kind, approval, linked, frozen>>
    PROVE  UNCHANGED Promise!vars
<1>1. UNCHANGED <<kind, approval, announces, names>>
    BY PapersStay
<1>2. \A r \in Responses : Raised(r)' = Raised(r)
    BY DEF Raised
<1>3. \A r \in Responses : matter'[r] = matter[r]
    BY <1>2, MatterStays
<1>4. /\ matter = [r \in Responses |-> matter[r]]
      /\ matter' = [r \in Responses |-> matter'[r]]
    BY Zenon DEF matter
<1> QED
    BY <1>1, <1>3, <1>4 DEF Promise!vars, Promise!papers

LEMMA RaisePromise ==
    ASSUME IInv, IInv', FrozenInv, [Next]_vars,
           NEW t \in Transactions, NEW p \in PotentialFindings, CreatePotentialFinding(t, p)
    PROVE  Promise!Raise(on[t])
<1>0. on[t] \in Responses /\ Active(on[t]) = {} /\ potential[p] = "ABSENT" /\ raisedOn[p] = None
    BY DEF CreatePotentialFinding, IInv, PotentialsInv, RaisingFits, PotentialFits
<1> PICK r \in Responses : r = on[t]
    BY <1>0
<1>1. r \in Responses /\ Active(r) = {} /\ potential[p] = "ABSENT" /\ raisedOn[p] = None
    BY <1>0
<1>2. /\ potential'[p] = "PENDING_LEAD_REVIEW" /\ raisedOn'[p] = r
      /\ \A q \in PotentialFindings \ {p} :
            raisedOn'[q] = raisedOn[q] /\ potential'[q] = potential[q]
      /\ UNCHANGED <<finding, kind, approval, linked, frozen>>
  <2>1. /\ potential \in [PotentialFindings ->
              {"ABSENT", "PENDING_LEAD_REVIEW", "RETURNED", "DISMISSED", "CONVERTED"}]
        /\ raisedOn \in [PotentialFindings -> Responses \cup {None}]
    BY DEF IInv, TypeOK
  <2>2. /\ potential' = [potential EXCEPT ![p] = "PENDING_LEAD_REVIEW"]
        /\ raisedOn' = [raisedOn EXCEPT ![p] = r]
        /\ UNCHANGED <<finding, snapshots, approvals>>
    BY DEF CreatePotentialFinding
  <2> QED
    BY <2>1, <2>2 DEF snapshots, approvals
<1>3. matter[r] \in {"NONE", "RETURNED"}
    BY <1>1, Zenon DEF matter, Matter
<1>4. Active(r)' = {p}
    BY <1>1, <1>2 DEF Active, Raised
<1>5. matter'[r] = "RAISED"
    BY <1>1, <1>2, <1>4, MatterBecomes DEF MatterOf
<1>6. matter' = [matter EXCEPT ![r] = "RAISED"]
    BY <1>1, <1>2, <1>5, OneMoves
<1>7. UNCHANGED <<kind, approval, announces, names>>
    BY <1>2, PapersStay
<1> QED
    BY <1>3, <1>6, <1>7 DEF Promise!Raise, Promise!Becomes, Promise!papers

LEMMA RejectPromise ==
    ASSUME IInv, FrozenInv, [Next]_vars, NEW p \in PotentialFindings, DecidePotentialFinding(p)
    PROVE  Promise!Reject(raisedOn[p])
<1>1. p \in Present /\ potential[p] = "PENDING_LEAD_REVIEW"
    BY DEF DecidePotentialFinding, Present
<1> PICK r \in Responses : r = raisedOn[p] /\ Active(r) = {p}
    BY <1>1, OnlyActive
<1>2. r = raisedOn[p] /\ Active(r) = {p}
    OBVIOUS
<1>3. /\ potential'[p] \in {"RETURNED", "DISMISSED"}
      /\ \A q \in PotentialFindings \ {p} : potential'[q] = potential[q]
      /\ UNCHANGED <<raisedOn, finding, kind, approval, linked, frozen>>
    BY DEF DecidePotentialFinding, snapshots, approvals, IInv, TypeOK
<1>4. p \in Raised(r)' /\ Raised(r)' = Raised(r)
    BY <1>3 DEF Raised
<1>5. matter[r] = "RAISED"
    BY <1>1, <1>2, MatterIs DEF MatterOf
<1>6. matter'[r] \in {"RETURNED", "DISMISSED"}
  <2>1. CASE potential'[p] = "DISMISSED"
    <3>1. Active(r)' = {p}
        BY <1>2, <1>3, <1>4, <2>1 DEF Active, Raised
    <3> QED
        BY <1>2, <2>1, <3>1, MatterBecomes DEF MatterOf
  <2>2. CASE potential'[p] = "RETURNED"
    <3>1. Active(r)' = {}
        BY <1>2, <1>3, <1>4, <2>2 DEF Active, Raised
    <3>2. Raised(r)' # {}
        BY <1>4
    <3> QED
        BY <1>2, <3>1, <3>2, Zenon DEF matter, Matter
  <2> QED
    BY <1>3, <2>1, <2>2
<1>7. matter' = [matter EXCEPT ![r] = matter'[r]]
    BY <1>2, <1>3, OneMoves
<1>8. UNCHANGED <<kind, approval, announces, names>>
    BY <1>3, PapersStay
<1> QED
    BY <1>5, <1>6, <1>7, <1>8 DEF Promise!Reject, Promise!Becomes, Promise!papers

LEMMA FindPromise ==
    ASSUME IInv, FrozenInv, [Next]_vars, NEW p \in PotentialFindings, ConvertPotentialFinding(p)
    PROVE  Promise!Find(raisedOn[p])
<1>1. p \in Present /\ potential[p] = "PENDING_LEAD_REVIEW"
    BY DEF ConvertPotentialFinding, Present
<1> PICK r \in Responses : r = raisedOn[p] /\ Active(r) = {p}
    BY <1>1, OnlyActive
<1>2. r = raisedOn[p] /\ Active(r) = {p}
    OBVIOUS
<1>3. /\ potential'[p] = "CONVERTED" /\ finding'[p] = "OPEN"
      /\ \A q \in PotentialFindings \ {p} :
            potential'[q] = potential[q] /\ finding'[q] = finding[q]
      /\ UNCHANGED <<raisedOn, kind, approval, linked, frozen>>
    BY DEF ConvertPotentialFinding, snapshots, approvals, IInv, TypeOK
<1>4. \E v \in Versions : Promise!Issued(v) /\ r \in announces[v]
  <2>1. PICK v \in Versions : /\ kind[v] = "PRELIMINARY" /\ approval[v] = "LOCKED"
                              /\ frozen[v] \cap Lineage(p) # {}
    BY DEF ConvertPotentialFinding, NamedInIssued
  <2>2. PICK q \in frozen[v] : q \in Lineage(p)
    BY <2>1
  <2>3. raisedOn[q] = r
    BY <1>1, <2>2, LineageOfResponse DEF Raised, Present
  <2>4. r \in announces[v]
    BY <2>3 DEF announces, Questions
  <2> QED
    BY <2>1, <2>4 DEF Promise!Issued
<1>5. Active(r)' = {p}
  <2>1. p \in Raised(r)' /\ Raised(r)' = Raised(r)
    BY <1>3 DEF Raised
  <2> QED
    BY <1>2, <1>3, <2>1 DEF Active, Raised
<1>6. matter[r] = "RAISED"
    BY <1>1, <1>2, MatterIs DEF MatterOf
<1>7. matter'[r] = "FOUND"
    BY <1>2, <1>3, <1>5, MatterBecomes DEF MatterOf
<1>8. matter' = [matter EXCEPT ![r] = "FOUND"]
    BY <1>2, <1>3, <1>7, OneMoves
<1>9. UNCHANGED <<kind, approval, announces, names>>
    BY <1>3, PapersStay
<1> QED
    BY <1>4, <1>6, <1>8, <1>9 DEF Promise!Find, Promise!Becomes, Promise!papers

LEMMA ClosePromise ==
    ASSUME IInv, FrozenInv, [Next]_vars, NEW p \in PotentialFindings, CloseFinding(p)
    PROVE  Promise!Close(raisedOn[p])
<1>1. p \in Present /\ potential[p] = "CONVERTED" /\ finding[p] = "OPEN"
    BY DEF CloseFinding, IInv, PotentialsInv, PotentialFits, Present
<1> PICK r \in Responses : r = raisedOn[p] /\ Active(r) = {p}
    BY <1>1, OnlyActive
<1>2. r = raisedOn[p] /\ Active(r) = {p}
    OBVIOUS
<1>3. /\ finding'[p] = "CLOSED"
      /\ \A q \in PotentialFindings \ {p} : finding'[q] = finding[q]
      /\ UNCHANGED <<potential, raisedOn, kind, approval, linked, frozen>>
    BY DEF CloseFinding, potentials, snapshots, approvals, IInv, TypeOK
<1>4. Active(r)' = {p}
    BY <1>2, <1>3 DEF Active, Raised
<1>5. matter[r] = "FOUND"
    BY <1>1, <1>2, MatterIs DEF MatterOf
<1>6. matter'[r] = "CLOSED"
    BY <1>1, <1>2, <1>3, <1>4, MatterBecomes DEF MatterOf
<1>7. matter' = [matter EXCEPT ![r] = "CLOSED"]
    BY <1>2, <1>3, <1>6, OneMoves
<1>8. UNCHANGED <<kind, approval, announces, names>>
    BY <1>3, PapersStay
<1> QED
    BY <1>5, <1>7, <1>8 DEF Promise!Close, Promise!Becomes, Promise!papers

\* What was raised is a matter, and a Finding is one that was found.
LEMMA PresentMatters ==
    ASSUME IInv, NEW p \in Present
    PROVE  raisedOn[p] \in Responses /\ matter[raisedOn[p]] # "NONE"
<1>1. PICK r \in Responses : r = raisedOn[p]
    BY RaisedOnResponse
<1>2. Raised(r) # {}
    BY <1>1 DEF Raised, Present
<1>3. Matter(r) # "NONE"
  <2>1. CASE Active(r) = {}
    BY <1>2, <2>1, Zenon DEF Matter
  <2>2. CASE Active(r) # {}
    BY <2>2 DEF Matter
  <2> QED
    BY <2>1, <2>2
<1> QED
    BY <1>1, <1>3 DEF matter

LEMMA FindingMatters ==
    ASSUME IInv, NEW p \in AllFindings
    PROVE  /\ raisedOn[p] \in Responses
           /\ matter[raisedOn[p]] = IF finding[p] = "CLOSED" THEN "CLOSED" ELSE "FOUND"
<1>1. p \in Present /\ potential[p] = "CONVERTED"
    BY DEF AllFindings, Present, IInv, PotentialsInv, PotentialFits
<1>2. PICK r \in Responses : r = raisedOn[p] /\ Active(r) = {p}
    BY <1>1, OnlyActive
<1> QED
    BY <1>1, <1>2, MatterIs DEF MatterOf

LEMMA DraftPromise ==
    ASSUME IInv, FrozenInv, [Next]_vars, NEW t \in Transactions, CreateReportVersion(t)
    PROVE  Promise!Draft(on[t])
<1>1. PICK v \in Versions : v = on[t] /\ kind[v] = "NONE" /\ approval[v] = "NONE"
    BY DEF CreateReportVersion, IInv, ApprovalsInv, ApprovalFits, CreatingFits
<1>2. /\ step[t] \in Kinds
      /\ kind' = [kind EXCEPT ![v] = step[t]]
      /\ linked' = [linked EXCEPT ![v] = seenFindings[t]]
      /\ frozen' = [frozen EXCEPT ![v] = seenPotentials[t]]
      /\ \E s \in {"RETURNED", "DEPARTMENT_REVIEW"} : approval' = [approval EXCEPT ![v] = s]
      /\ UNCHANGED <<potential, raisedOn, finding>>
    BY <1>1 DEF CreateReportVersion, potentials
<1>3. /\ linked'[v] = seenFindings[t] /\ frozen'[v] = seenPotentials[t]
      /\ \A w \in Versions \ {v} : linked'[w] = linked[w] /\ frozen'[w] = frozen[w]
    BY <1>2 DEF IInv, TypeOK
<1>4. /\ announces'[v] = Questions(seenPotentials[t]) /\ names'[v] = Questions(seenFindings[t])
      /\ \A w \in Versions \ {v} : announces'[w] = announces[w] /\ names'[w] = names[w]
    BY <1>2, <1>3 DEF announces, names, Questions
<1>5. /\ announces' = [announces EXCEPT ![v] = announces'[v]]
      /\ names' = [names EXCEPT ![v] = names'[v]]
  <2>1. /\ announces = [w \in Versions |-> announces[w]]
        /\ announces' = [w \in Versions |-> announces'[w]]
        /\ names = [w \in Versions |-> names[w]]
        /\ names' = [w \in Versions |-> names'[w]]
    BY Zenon DEF announces, names
  <2> QED
    BY <1>4, <2>1
<1>6. names'[v] \subseteq announces'[v]
    BY <1>4 DEF FrozenInv, Questions
<1>7. announces'[v] \subseteq {r \in Responses : matter[r] # "NONE"}
  <2>1. seenPotentials[t] \subseteq Present
    BY DEF FrozenInv
  <2> QED
    BY <1>4, <2>1, PresentMatters DEF Questions
<1>8. names'[v] \subseteq {r \in Responses : matter[r] \in {"FOUND", "CLOSED"}}
  <2>1. seenFindings[t] \subseteq AllFindings
    BY DEF IInv, SnapshotsInv
  <2> QED
    BY <1>4, <2>1, FindingMatters DEF Questions
<1>9. step[t] = "FINAL" => \E w \in Versions : Promise!Issued(w)
    BY DEF FrozenInv, PreliminaryIssued, Promise!Issued
<1>10. UNCHANGED matter
  <2>1. \A r \in Responses : Raised(r)' = Raised(r)
    BY <1>2 DEF Raised
  <2>2. \A r \in Responses : matter'[r] = matter[r]
    BY <1>2, <2>1, MatterStays
  <2>3. /\ matter = [r \in Responses |-> matter[r]]
        /\ matter' = [r \in Responses |-> matter'[r]]
    BY Zenon DEF matter
  <2> QED
    BY <2>2, <2>3
<1> QED
    BY <1>1, <1>2, <1>5, <1>6, <1>7, <1>8, <1>9, <1>10 DEF Promise!Draft, Kinds

LEMMA DecidePromise ==
    ASSUME IInv, FrozenInv, [Next]_vars, NEW t \in Transactions, DecideReport(t)
    PROVE  Promise!Decide(on[t])
<1>1. PICK v \in Versions : v = on[t] /\ step[t] = "counted"
    BY DEF DecideReport, IInv, ApprovalsInv, DecidingFits, Holders
<1>2. approval[v] \in Stages /\ seenStage[t] = approval[v]
    BY <1>1 DEF IInv, ApprovalsInv, DecidingFits, Holders
<1>3. PICK d \in Allowed(approval[v]) :
         approval' = [approval EXCEPT ![v] = AfterDecision(approval[v], d)]
    BY <1>1, <1>2 DEF DecideReport
<1>4. <<approval[v], AfterDecision(approval[v], d)>> \in Promise!Following
    BY <1>2 DEF AfterDecision, Allowed, Stages, Promise!Following
<1>5. \E pair \in Promise!Following :
         pair[1] = approval[v] /\ approval' = [approval EXCEPT ![v] = pair[2]]
    BY <1>3, <1>4
<1>6. UNCHANGED <<potential, raisedOn, finding, kind, linked, frozen>>
    BY DEF DecideReport, potentials, snapshots
<1>7. \A r \in names[v] : kind[v] = "FINAL" => matter[r] = "CLOSED"
  <2>1. linked[v] \subseteq AllFindings
    BY DEF IInv, SnapshotsInv
  <2>2. kind[v] = "FINAL" => AllClosed(v)
    BY <1>1 DEF IInv, SnapshotsInv
  <2>3. \A p \in linked[v] : kind[v] = "FINAL" => matter[raisedOn[p]] = "CLOSED"
    BY <2>1, <2>2, FindingMatters DEF AllClosed
  <2>4. names[v] = Questions(linked[v])
    BY DEF names
  <2> QED
    BY <2>3, <2>4 DEF Questions
<1>8. kind[v] = "FINAL" => \E w \in Versions : Promise!Issued(w)
    BY <1>1 DEF FrozenInv, PreliminaryIssued, Promise!Issued
<1>9. UNCHANGED <<matter, kind, announces, names>>
  <2>1. \A r \in Responses : Raised(r)' = Raised(r)
    BY <1>6 DEF Raised
  <2>2. \A r \in Responses : matter'[r] = matter[r]
    BY <1>6, <2>1, MatterStays
  <2>3. /\ matter = [r \in Responses |-> matter[r]]
        /\ matter' = [r \in Responses |-> matter'[r]]
    BY Zenon DEF matter
  <2>4. UNCHANGED <<announces, names>>
    BY <1>6 DEF announces, names, Questions
  <2> QED
    BY <1>6, <2>2, <2>3, <2>4
<1> QED
    BY <1>1, <1>5, <1>7, <1>8, <1>9 DEF Promise!Decide

-----------------------------------------------------------------------------
(* The refinement. *)

LEMMA InitPromise == Init => Promise!Init
<1> SUFFICES ASSUME Init PROVE Promise!Init
    OBVIOUS
<1>1. \A r \in Responses : Raised(r) = {}
    BY NoneIsNoId DEF Init, Raised
<1>2. \A r \in Responses : Active(r) = {}
    BY <1>1 DEF Active
<1>3. \A r \in Responses : Matter(r) = "NONE"
    BY <1>1, <1>2, Zenon DEF Matter
<1>4. matter = [r \in Responses |-> "NONE"]
    BY <1>3 DEF matter
<1>5. /\ \A v \in Versions : Questions(frozen[v]) = {} /\ Questions(linked[v]) = {}
      /\ kind = [v \in Versions |-> "NONE"] /\ approval = [v \in Versions |-> "NONE"]
    BY DEF Init, Questions
<1>6. /\ announces = [v \in Versions |-> {}]
      /\ names = [v \in Versions |-> {}]
    BY <1>5 DEF announces, names
<1> QED
    BY <1>4, <1>5, <1>6 DEF Promise!Init

LEMMA NextPromise ==
    IInv /\ IInv' /\ FrozenInv /\ [Next]_vars => [Promise!Next]_Promise!vars
<1> SUFFICES ASSUME IInv, IInv', FrozenInv, [Next]_vars
             PROVE  [Promise!Next]_Promise!vars
    OBVIOUS
<1>1. ASSUME NEW t \in Transactions, NEW p \in PotentialFindings, CreatePotentialFinding(t, p)
      PROVE  Promise!Next
  <2>1. on[t] \in Responses
    BY <1>1 DEF CreatePotentialFinding, IInv, PotentialsInv, RaisingFits
  <2> QED
    BY <1>1, <2>1, RaisePromise DEF Promise!Next
<1>2. ASSUME NEW p \in PotentialFindings,
             DecidePotentialFinding(p) \/ ConvertPotentialFinding(p) \/ CloseFinding(p)
      PROVE  Promise!Next
  <2>1. p \in Present
    BY <1>2 DEF DecidePotentialFinding, ConvertPotentialFinding, CloseFinding, Present,
                IInv, PotentialsInv, PotentialFits
  <2>2. raisedOn[p] \in Responses
    BY <2>1, PresentMatters
  <2> QED
    BY <1>2, <2>2, RejectPromise, FindPromise, ClosePromise DEF Promise!Next
<1>3. ASSUME NEW t \in Transactions, CreateReportVersion(t)
      PROVE  Promise!Next
  <2>1. on[t] \in Versions
    BY <1>3 DEF CreateReportVersion, IInv, ApprovalsInv, CreatingFits
  <2> QED
    BY <1>3, <2>1, DraftPromise DEF Promise!Next
<1>4. ASSUME NEW t \in Transactions, DecideReport(t)
      PROVE  Promise!Next
  <2>1. on[t] \in Versions
    BY <1>4 DEF DecideReport, IInv, ApprovalsInv, DecidingFits, Holders
  <2> QED
    BY <1>4, <2>1, DecidePromise DEF Promise!Next
<1>5. CASE UNCHANGED <<potential, raisedOn, finding, kind, approval, linked, frozen>>
    BY <1>5, QuietPromise
<1> QED
    BY <1>1, <1>2, <1>3, <1>4, <1>5
    DEF Next, vars, potentials, snapshots, approvals, SubmitChecklist, UpsertChecklistResponse,
        BeginReopenChecklist, ReopenChecklist, BeginCreatePotentialFinding,
        BeginCreateReportVersion, LinkReportVersion, BeginDecideReport, CountOpenFindings,
        Rollback

(* Transactions that read before they write, rows that replace each other and
   snapshots of an audit that goes on implement the promise: one matter on each
   question, announced before it is a Finding, and a Final Report that advances
   over closed Findings alone (application/service.go ConvertPotentialFinding,
   DecideReport; clean_state_creation.go CreateReportVersion). *)
THEOREM AuditKeepsPromise == Spec => KeepsPromise
<1> QED
    BY InitPromise, NextPromise, Invariance, SnapshotsAreTaken, PTL
    DEF Spec, KeepsPromise, Promise!Spec
=============================================================================
