----------------------------- MODULE AuditReports -----------------------------
(***************************************************************************)
(* One audit from its checklist to its reports: the answers, the Potential *)
(* Findings raised on them, the versions of the Preliminary and the Final  *)
(* Report with their three approval stages, and the conversion of a        *)
(* Potential Finding to a Finding (apps/api/internal/application,          *)
(* internal/checklists, internal/potentialfindings, internal/reports).     *)
(*                                                                         *)
(* Every command is one READ COMMITTED transaction.  A command is a single *)
(* action when the rows it locks, or facts that never become false again,  *)
(* make all it read still true when it commits; the other four commands,   *)
(* which read rows they do not lock, take one step for each group of reads *)
(* and one to commit, and other commands commit in between.                *)
(*                                                                         *)
(* A Finding is named by the Potential Finding it was converted from; its  *)
(* own life, to its closure, is FindingLifecycle.                          *)
(***************************************************************************)
EXTENDS Naturals, FiniteSets

CONSTANTS
    Responses,        \* the assigned questions, one response each
    PotentialFindings,
    Versions,         \* report version ids
    Reports,          \* report ids, the families of versions
    Transactions,     \* transactions that may be in flight at the same time
    None,             \* no Potential Finding, no subject
    MaxNumber         \* bound of the model: version numbers of a report

ASSUME MaxNumberAssumption == MaxNumber \in Nat \ {0}

ASSUME NoneIsNoId == None \notin Responses \cup PotentialFindings \cup Versions

Kinds == {"PRELIMINARY", "FINAL"}
Stages == {"DEPARTMENT_REVIEW", "GM_REVIEW", "EXECUTIVE_DIRECTOR_REVIEW"}

VARIABLES
    checklist,        \* inspection_checklists.status
    answer,           \* checklist_responses.response_value, "" when absent
    potential,        \* potential_findings.status, "ABSENT" when absent
    raisedOn,         \* checklist_response_id of a Potential Finding
    supersedes,       \* supersedes_potential_finding_id
    finding,          \* the Finding of a Potential Finding: NONE, OPEN, CLOSED
    kind, report, number, \* a report version: snapshot kind, report_id, version
    linked, frozen,   \* its snapshot: findingIds and potentialFindingIds
    approval, revision, \* report_approval_states
    decisions,        \* report_decisions: version, expected revision, decision
    step, on, parent, \* a transaction: how far it got, its row, its supersedes
    seenFindings, seenPotentials, \* what it has read for a snapshot
    seenStage, seenRevision       \* and of an approval state

fieldwork == <<checklist, answer>>
potentials == <<potential, raisedOn, supersedes>>
snapshots == <<kind, report, number, linked, frozen>>
approvals == <<approval, revision, decisions>>
reads == <<seenFindings, seenPotentials, seenStage, seenRevision>>
flight == <<step, on, parent, reads>>
vars == <<fieldwork, potentials, finding, snapshots, approvals, flight>>

Init ==
    /\ checklist = "IN_PROGRESS"
    /\ answer = [r \in Responses |-> ""]
    /\ potential = [p \in PotentialFindings |-> "ABSENT"]
    /\ raisedOn = [p \in PotentialFindings |-> None]
    /\ supersedes = [p \in PotentialFindings |-> None]
    /\ finding = [p \in PotentialFindings |-> "NONE"]
    /\ kind = [v \in Versions |-> "NONE"]
    /\ report = [v \in Versions |-> None]
    /\ number = [v \in Versions |-> 0]
    /\ linked = [v \in Versions |-> {}]
    /\ frozen = [v \in Versions |-> {}]
    /\ approval = [v \in Versions |-> "NONE"]
    /\ revision = [v \in Versions |-> 0]
    /\ decisions = {}
    /\ step = [t \in Transactions |-> "idle"]
    /\ on = [t \in Transactions |-> None]
    /\ parent = [t \in Transactions |-> None]
    /\ seenFindings = [t \in Transactions |-> {}]
    /\ seenPotentials = [t \in Transactions |-> {}]
    /\ seenStage = [t \in Transactions |-> "NONE"]
    /\ seenRevision = [t \in Transactions |-> 0]

-----------------------------------------------------------------------------
(* What the statements read. *)

Created == {v \in Versions : kind[v] # "NONE"}
Raised(r) == {p \in PotentialFindings : raisedOn[p] = r}
AllFindings == {p \in PotentialFindings : finding[p] # "NONE"}
OpenFindings == {p \in PotentialFindings : finding[p] = "OPEN"}

Pending(r) == {p \in Raised(r) : potential[p] = "PENDING_LEAD_REVIEW"}

\* Broken: the index covers the undecided ones alone.
ActivePending(r) == Pending(r)

\* The unique index potential_findings_active_response_idx: a response has at
\* most one Potential Finding that was not returned.
Active(r) == {p \in Raised(r) : potential[p] # "RETURNED"}

\* The row that ORDER BY revision DESC, id DESC puts first: a decided one, at
\* revision 2, comes before the one that is still pending, at revision 1, and
\* ids say nothing of the order in which the decided ones were created.
Latest(r) ==
    IF Raised(r) = Pending(r) THEN Pending(r) ELSE Raised(r) \ Pending(r)

PreliminaryIssued == \E v \in Versions : kind[v] = "PRELIMINARY" /\ approval[v] = "LOCKED"

\* A set of Potential Findings that has what each of its members supersedes.
ClosedUpwards(S) == \A q \in S : supersedes[q] # None => supersedes[q] \in S

\* A Potential Finding and those it supersedes, directly or not: the recursive
\* query computes the least set that has p and is closed upwards.
Lineage(p) ==
    {q \in PotentialFindings :
        \A S \in SUBSET PotentialFindings : p \in S /\ ClosedUpwards(S) => q \in S}

\* Rows a transaction in flight holds FOR UPDATE.
ChecklistLocked == \E t \in Transactions : step[t] = "reopen"
ResponseLocked(r) == \E t \in Transactions : step[t] = "raise" /\ on[t] = r
ApprovalLocked(v) == \E t \in Transactions : step[t] \in {"decide", "counted"} /\ on[t] = v

\* Transaction t has read what it needs so far.
Reach(t, s, row) ==
    /\ step' = [step EXCEPT ![t] = s]
    /\ on' = [on EXCEPT ![t] = row]

\* Transaction t commits, or is rolled back.
Finish(t) ==
    /\ step' = [step EXCEPT ![t] = "idle"]
    /\ on' = [on EXCEPT ![t] = None]
    /\ parent' = [parent EXCEPT ![t] = None]
    /\ seenFindings' = [seenFindings EXCEPT ![t] = {}]
    /\ seenPotentials' = [seenPotentials EXCEPT ![t] = {}]
    /\ seenStage' = [seenStage EXCEPT ![t] = "NONE"]
    /\ seenRevision' = [seenRevision EXCEPT ![t] = 0]

-----------------------------------------------------------------------------
(* The checklist. *)

\* An Inspector answers a question, or changes an answer.
UpsertChecklistResponse(r) ==
    /\ checklist = "IN_PROGRESS"
    /\ ~ChecklistLocked
    /\ ~ResponseLocked(r)
    /\ \E value \in {"COMPLIANT", "NON_COMPLIANT"} : answer' = [answer EXCEPT ![r] = value]
    /\ UNCHANGED <<checklist, potentials, finding, snapshots, approvals, flight>>

SubmitChecklist ==
    /\ checklist = "IN_PROGRESS"
    /\ ~ChecklistLocked
    /\ \A r \in Responses : answer[r] # ""
    /\ checklist' = "SUBMITTED"
    /\ UNCHANGED <<answer, potentials, finding, snapshots, approvals, flight>>

\* Reopening locks the checklist and looks for anything downstream of it ...
BeginReopenChecklist(t) ==
    /\ step[t] = "idle"
    /\ checklist = "SUBMITTED"
    /\ ~ChecklistLocked
    /\ Created = {}
    /\ AllFindings = {}
    /\ Reach(t, "reopen", None)
    /\ UNCHANGED <<parent, reads, fieldwork, potentials, finding, snapshots, approvals>>

\* ... and then reopens it.
ReopenChecklist(t) ==
    /\ step[t] = "reopen"
    /\ checklist' = "IN_PROGRESS"
    /\ Finish(t)
    /\ UNCHANGED <<answer, potentials, finding, snapshots, approvals>>

-----------------------------------------------------------------------------
(* Potential Findings. *)

\* Broken: the response is read and not locked.
BeginCreatePotentialFindingUnlocked(t, r) ==
    /\ step[t] = "idle"
    /\ checklist = "IN_PROGRESS"
    /\ answer[r] = "NON_COMPLIANT"
    /\ \/ /\ Raised(r) = {}
          /\ parent' = parent
       \/ \E p \in Latest(r) :
             /\ potential[p] = "RETURNED"
             /\ parent' = [parent EXCEPT ![t] = p]
    /\ Reach(t, "raise", r)
    /\ UNCHANGED <<reads, fieldwork, potentials, finding, snapshots, approvals>>

\* An Inspector raises a Potential Finding on a response.  The response is
\* locked, the checklist is not ...
BeginCreatePotentialFinding(t, r) ==
    /\ step[t] = "idle"
    /\ checklist = "IN_PROGRESS"
    /\ ~ResponseLocked(r)
    /\ answer[r] = "NON_COMPLIANT"
    /\ \/ /\ Raised(r) = {}
          /\ parent' = parent
       \/ \E p \in Latest(r) :
             /\ potential[p] = "RETURNED"
             /\ parent' = [parent EXCEPT ![t] = p]
    /\ Reach(t, "raise", r)
    /\ UNCHANGED <<reads, fieldwork, potentials, finding, snapshots, approvals>>

\* ... and the insert has only the unique index to pass.
CreatePotentialFinding(t, p) ==
    /\ step[t] = "raise"
    /\ potential[p] = "ABSENT"
    /\ Active(on[t]) = {}
    /\ potential' = [potential EXCEPT ![p] = "PENDING_LEAD_REVIEW"]
    /\ raisedOn' = [raisedOn EXCEPT ![p] = on[t]]
    /\ supersedes' = [supersedes EXCEPT ![p] = parent[t]]
    /\ Finish(t)
    /\ UNCHANGED <<fieldwork, finding, snapshots, approvals>>

\* The Lead Inspector returns or dismisses it.
DecidePotentialFinding(p) ==
    /\ potential[p] = "PENDING_LEAD_REVIEW"
    /\ \E status \in {"RETURNED", "DISMISSED"} :
          potential' = [potential EXCEPT ![p] = status]
    /\ UNCHANGED <<raisedOn, supersedes, fieldwork, finding, snapshots, approvals, flight>>

\* Broken: any issued Preliminary Report will do.
NamedInIssuedAny(p) == PreliminaryIssued

\* An issued Preliminary Report froze the lineage of p.
NamedInIssued(p) ==
    \E v \in Versions : /\ kind[v] = "PRELIMINARY"
                        /\ approval[v] = "LOCKED"
                        /\ frozen[v] \cap Lineage(p) # {}

\* The Lead Inspector converts it to a Finding.
ConvertPotentialFinding(p) ==
    /\ potential[p] = "PENDING_LEAD_REVIEW"
    /\ NamedInIssued(p)
    /\ potential' = [potential EXCEPT ![p] = "CONVERTED"]
    /\ finding' = [finding EXCEPT ![p] = "OPEN"]
    /\ UNCHANGED <<raisedOn, supersedes, fieldwork, snapshots, approvals, flight>>

\* The Finding reaches CLOSED, a status it never leaves (FindingLifecycle).
CloseFinding(p) ==
    /\ finding[p] = "OPEN"
    /\ finding' = [finding EXCEPT ![p] = "CLOSED"]
    /\ UNCHANGED <<fieldwork, potentials, snapshots, approvals, flight>>

-----------------------------------------------------------------------------
(* Report versions.  Nothing is locked while one is created. *)

\* What the audit must have reached for a version of each kind.
ReadyFor(k) ==
    IF k = "PRELIMINARY" THEN checklist = "SUBMITTED"
                         ELSE PreliminaryIssued /\ OpenFindings = {}

BeginCreateReportVersion(t, k) ==
    /\ step[t] = "idle"
    /\ ReadyFor(k)
    /\ Reach(t, k, None)
    /\ UNCHANGED <<parent, reads, fieldwork, potentials, finding, snapshots, approvals>>

\* The command must name exactly the Findings of the audit; its Potential
\* Findings are frozen with them.  The two reads are a step: a conversion
\* changes no id of the second, a new Potential Finding none of the first.
LinkReportVersion(t) ==
    /\ step[t] \in Kinds
    /\ on[t] = None
    /\ \E v \in Versions : /\ kind[v] = "NONE"
                           /\ \A u \in Transactions : on[u] # v
                           /\ Reach(t, step[t], v)
    /\ seenFindings' = [seenFindings EXCEPT ![t] = AllFindings]
    /\ seenPotentials' = [seenPotentials EXCEPT ![t] =
          {p \in PotentialFindings : potential[p] # "ABSENT"}]
    /\ UNCHANGED <<parent, seenStage, seenRevision, fieldwork, potentials, finding,
                   snapshots, approvals>>

\* The insert: the caller chose the report, the number, which the table keeps
\* unique in a report, and whether the version starts as returned.
CreateReportVersion(t) ==
    LET v == on[t] IN
    /\ step[t] \in Kinds
    /\ v # None
    /\ kind' = [kind EXCEPT ![v] = step[t]]
    /\ \E r \in Reports, n \in 1..MaxNumber :
          /\ ~\E w \in Created : report[w] = r /\ number[w] = n
          /\ report' = [report EXCEPT ![v] = r]
          /\ number' = [number EXCEPT ![v] = n]
    /\ linked' = [linked EXCEPT ![v] = seenFindings[t]]
    /\ frozen' = [frozen EXCEPT ![v] = seenPotentials[t]]
    /\ \E s \in {"RETURNED", "DEPARTMENT_REVIEW"} : approval' = [approval EXCEPT ![v] = s]
    /\ revision' = [revision EXCEPT ![v] = 1]
    /\ Finish(t)
    /\ UNCHANGED <<fieldwork, potentials, finding, decisions>>

Family(v) == {w \in Created : report[w] = report[v]}

\* Broken: a family may hold versions of both kinds.
DecidableMixed(v) ==
    /\ approval[v] \in Stages
    /\ \A w \in Family(v) : number[w] <= number[v]
    /\ linked[v] = AllFindings

\* Version v is the latest of a family of one kind and names every Finding.
Decidable(v) ==
    /\ approval[v] \in Stages
    /\ \A w \in Family(v) : number[w] <= number[v] /\ kind[w] = kind[v]
    /\ linked[v] = AllFindings

ReadApproval(t, v) ==
    /\ seenStage' = [seenStage EXCEPT ![t] = approval[v]]
    /\ seenRevision' = [seenRevision EXCEPT ![t] = revision[v]]

\* Broken: the approval state is read and not locked.
BeginDecideReportUnlocked(t, v) ==
    /\ step[t] = "idle"
    /\ Decidable(v)
    /\ ReadApproval(t, v)
    /\ Reach(t, "decide", v)
    /\ UNCHANGED <<parent, seenFindings, seenPotentials, fieldwork, potentials,
                   finding, snapshots, approvals>>

\* A manager decides on a version: its approval state is locked, the versions
\* and the Findings are not ...
BeginDecideReport(t, v) ==
    /\ step[t] = "idle"
    /\ ~ApprovalLocked(v)
    /\ Decidable(v)
    /\ ReadApproval(t, v)
    /\ Reach(t, "decide", v)
    /\ UNCHANGED <<parent, seenFindings, seenPotentials, fieldwork, potentials,
                   finding, snapshots, approvals>>

\* Broken: closure is asked of the first Final Report version and not again.
MayBeDecidedOpen(v) == kind[v] = "FINAL" => PreliminaryIssued

\* A Final Report asks for an issued Preliminary Report and no open Finding.
MayBeDecided(v) == kind[v] = "FINAL" => PreliminaryIssued /\ OpenFindings = {}

\* ... then the open Findings are counted ...
CountOpenFindings(t) ==
    /\ step[t] = "decide"
    /\ MayBeDecided(on[t])
    /\ Reach(t, "counted", on[t])
    /\ UNCHANGED <<parent, reads, fieldwork, potentials, finding, snapshots, approvals>>

\* Broken: the last decision issues the report without locking it.
AfterDecisionIssued(stage, decision) ==
    CASE decision = "RETURN" -> "RETURNED"
      [] decision = "ISSUE" -> "ISSUED"
      [] decision = "FORWARD" -> IF stage = "DEPARTMENT_REVIEW" THEN "GM_REVIEW"
                                                          ELSE "EXECUTIVE_DIRECTOR_REVIEW"

\* Broken: the General Manager's decision issues the report.
AfterDecisionShort(stage, decision) ==
    CASE decision = "RETURN" -> "RETURNED"
      [] decision = "ISSUE" -> "LOCKED"
      [] decision = "FORWARD" -> IF stage = "DEPARTMENT_REVIEW" THEN "GM_REVIEW" ELSE "LOCKED"

\* reports.Decide: the stage a decision leads to.
AfterDecision(stage, decision) ==
    CASE decision = "RETURN" -> "RETURNED"
      [] decision = "ISSUE" -> "LOCKED"
      [] decision = "FORWARD" -> IF stage = "DEPARTMENT_REVIEW" THEN "GM_REVIEW"
                                                          ELSE "EXECUTIVE_DIRECTOR_REVIEW"

Allowed(stage) == IF stage = "EXECUTIVE_DIRECTOR_REVIEW" THEN {"ISSUE"} ELSE {"FORWARD", "RETURN"}

\* ... and the decision is recorded against the revision that was locked.
DecideReport(t) ==
    LET v == on[t] IN
    /\ step[t] = "counted"
    /\ \E d \in Allowed(seenStage[t]) :
          /\ approval' = [approval EXCEPT ![v] = AfterDecision(seenStage[t], d)]
          /\ decisions' = decisions \cup {<<v, seenRevision[t], d>>}
    /\ revision' = [revision EXCEPT ![v] = seenRevision[t] + 1]
    /\ Finish(t)
    /\ UNCHANGED <<fieldwork, potentials, finding, snapshots>>

-----------------------------------------------------------------------------

\* A command in flight fails: a condition it reads next is false, an insert
\* meets the unique index, or its connection is lost.
Rollback(t) ==
    /\ step[t] # "idle"
    /\ Finish(t)
    /\ UNCHANGED <<fieldwork, potentials, finding, snapshots, approvals>>

Next ==
    \/ SubmitChecklist
    \/ \E r \in Responses : UpsertChecklistResponse(r)
    \/ \E p \in PotentialFindings : \/ DecidePotentialFinding(p)
                                    \/ ConvertPotentialFinding(p)
                                    \/ CloseFinding(p)
    \/ \E t \in Transactions :
          \/ BeginReopenChecklist(t)
          \/ ReopenChecklist(t)
          \/ \E r \in Responses : BeginCreatePotentialFinding(t, r)
          \/ \E p \in PotentialFindings : CreatePotentialFinding(t, p)
          \/ \E k \in Kinds : BeginCreateReportVersion(t, k)
          \/ LinkReportVersion(t)
          \/ CreateReportVersion(t)
          \/ \E v \in Versions : BeginDecideReport(t, v)
          \/ CountOpenFindings(t)
          \/ DecideReport(t)
          \/ Rollback(t)

Spec == Init /\ [][Next]_vars

-----------------------------------------------------------------------------
(* Properties. *)

Ids == Responses \cup PotentialFindings \cup Versions \cup {None}

\* Every variable holds what its column, or the memory of a transaction, may.
TypeOK ==
    /\ checklist \in {"IN_PROGRESS", "SUBMITTED"}
    /\ answer \in [Responses -> {"", "COMPLIANT", "NON_COMPLIANT"}]
    /\ potential \in [PotentialFindings ->
          {"ABSENT", "PENDING_LEAD_REVIEW", "RETURNED", "DISMISSED", "CONVERTED"}]
    /\ raisedOn \in [PotentialFindings -> Responses \cup {None}]
    /\ supersedes \in [PotentialFindings -> PotentialFindings \cup {None}]
    /\ finding \in [PotentialFindings -> {"NONE", "OPEN", "CLOSED"}]
    /\ kind \in [Versions -> Kinds \cup {"NONE"}]
    /\ report \in [Versions -> Reports \cup {None}]
    /\ number \in [Versions -> 0..MaxNumber]
    /\ linked \in [Versions -> SUBSET PotentialFindings]
    /\ frozen \in [Versions -> SUBSET PotentialFindings]
    /\ approval \in [Versions -> Stages \cup {"NONE", "RETURNED", "LOCKED"}]
    /\ revision \in [Versions -> 0..4]
    /\ decisions \subseteq Versions \X (1..3) \X {"FORWARD", "RETURN", "ISSUE"}
    /\ step \in [Transactions -> {"idle", "reopen", "raise", "decide", "counted"} \cup Kinds]
    /\ on \in [Transactions -> Ids]
    /\ parent \in [Transactions -> PotentialFindings \cup {None}]
    /\ seenFindings \in [Transactions -> SUBSET PotentialFindings]
    /\ seenPotentials \in [Transactions -> SUBSET PotentialFindings]
    /\ seenStage \in [Transactions -> Stages \cup {"NONE"}]
    /\ seenRevision \in [Transactions -> 0..3]

\* However often a response is raised, returned and raised again, and with any
\* interleaving of the Inspector and the Lead, at most one of its Potential
\* Findings becomes a Finding.
OneFindingPerResponse ==
    \A p, q \in AllFindings : raisedOn[p] = raisedOn[q] => p = q

\* A response has one lineage: only its first Potential Finding supersedes
\* nothing, and every later one supersedes a returned one of that response,
\* which the conversion's walk up the lineage relies on.
OneLineagePerResponse ==
    \A r \in Responses :
        /\ \A p, q \in Raised(r) : supersedes[p] = None /\ supersedes[q] = None => p = q
        /\ \A p \in Raised(r) : supersedes[p] # None =>
              supersedes[p] \in Raised(r) /\ potential[supersedes[p]] = "RETURNED"

\* Every Finding was announced: an issued Preliminary Report froze a Potential
\* Finding that was raised on its response, also when the Potential Finding
\* was created after the checklist was submitted.
IssuedBeforeFinding ==
    \A p \in AllFindings : \E v \in Versions :
        /\ kind[v] = "PRELIMINARY" /\ approval[v] = "LOCKED"
        /\ frozen[v] \cap Raised(raisedOn[p]) # {}

Decided(v) == {<<d[2], d[3]>> : d \in {e \in decisions : e[1] = v}}

\* The decisions, each with the revision it was taken on, that lead to a stage.
HistoriesTo(stage) ==
    CASE stage \in {"NONE", "DEPARTMENT_REVIEW"} -> {{}}
      [] stage = "GM_REVIEW" -> {{<<1, "FORWARD">>}}
      [] stage = "EXECUTIVE_DIRECTOR_REVIEW" -> {{<<1, "FORWARD">>, <<2, "FORWARD">>}}
      [] stage = "LOCKED" -> {{<<1, "FORWARD">>, <<2, "FORWARD">>, <<3, "ISSUE">>}}
      [] stage = "RETURNED" -> {{}, {<<1, "RETURN">>}, {<<1, "FORWARD">>, <<2, "RETURN">>}}

\* The decisions on record are the ones that led a version to its stage: no two
\* managers decided on the same revision of it, none was skipped, and an issued
\* report was forwarded by the Department Manager and by the General Manager
\* and issued by the Executive Director.
DecisionsLeadToStage == \A v \in Versions : Decided(v) \in HistoriesTo(approval[v])

\* A Final Report on which any decision was taken names closed Findings only,
\* although conversions run while it is created and decided.
FinalIsOfClosedFindings ==
    \A v \in Versions : kind[v] = "FINAL" /\ revision[v] > 1 =>
        \A p \in linked[v] : finding[p] = "CLOSED"

\* In a report that has versions of both kinds, only those of one kind were
\* ever decided on.
FamiliesDoNotMix ==
    \A v, w \in Created :
        report[v] = report[w] /\ revision[v] > 1 /\ revision[w] > 1 => kind[v] = kind[w]

\* What the product plan asks of a Final Report: it is issued when no Finding
\* is open, and none is opened afterwards.
FinalFollowsClosure ==
    (\E v \in Versions : kind[v] = "FINAL" /\ approval[v] = "LOCKED") => OpenFindings = {}

\* What the comment in ReopenChecklist asks: the checklist is not open for
\* changes once there is a report.
ReopenIsFieldStageOnly == Created # {} => checklist = "SUBMITTED"

-----------------------------------------------------------------------------
(* The audit as it is promised. *)

\* What became of what was raised on response r: the Potential Finding that
\* was not returned says it.
Matter(r) ==
    IF Active(r) # {}
    THEN LET p == CHOOSE q \in Active(r) : TRUE IN
         CASE potential[p] = "PENDING_LEAD_REVIEW" -> "RAISED"
           [] potential[p] = "DISMISSED" -> "DISMISSED"
           [] OTHER -> IF finding[p] = "CLOSED" THEN "CLOSED" ELSE "FOUND"
    ELSE IF Raised(r) = {} THEN "NONE" ELSE "RETURNED"

Questions(S) == {raisedOn[p] : p \in S}

matter == [r \in Responses |-> Matter(r)]
announces == [v \in Versions |-> Questions(frozen[v])]
names == [v \in Versions |-> Questions(linked[v])]

Promise == INSTANCE AuditPromise WITH form <- kind, stage <- approval

\* However its commands interleave, the audit keeps AuditPromise: one matter
\* on each question, which is dismissed or closed for good and is announced
\* before it is a Finding; each report goes through its stages, and no stage
\* of a Final Report is passed while a Finding it names is open.
KeepsPromise == Promise!Spec
=============================================================================
