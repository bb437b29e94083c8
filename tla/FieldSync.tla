----------------------------- MODULE FieldSync -----------------------------
(* Offline field work of one inspector on one checked-out package: the        *)
(* browser's outbox, the foreground engine that pushes it one operation at a   *)
(* time and then pulls, and the server that applies each operation at most     *)
(* once.  One question of the package is modelled: its response, the Potential *)
(* Finding raised on it, and the submission of the checklist.                  *)
(*                                                                             *)
(* An operation is its position in the outbox, which is the order of creation  *)
(* (the engine sorts by createdAt).  The text of an edit is the operation that *)
(* wrote it; text 0 is an edit that was not made on this device.  Revision 0   *)
(* stands for "no revision" (null).  A request that the engine gave up waiting *)
(* for may still reach the server later: it stays in "late".                   *)
EXTENDS Naturals, Sequences

CONSTANTS MaxOps,          \* operations the inspector may queue
          MaxGrants,       \* checkouts of the package, each with its own grant
          MaxFaults,       \* lost requests or answers and closed browsers
          MaxOffice,       \* connected edits and submissions, ends of grants, withdrawals
          EditAnswers,     \* the answers the inspector gives on the device
          InspectionRevision  \* of the inspection, which no longer changes once it is in progress

ASSUME FieldBounds == /\ MaxOps \in Nat /\ MaxGrants \in Nat \ {0} /\ MaxFaults \in Nat
                      /\ MaxOffice \in Nat /\ InspectionRevision \in Nat \ {0}
                      /\ EditAnswers \subseteq {"COMPLIANT", "NON_COMPLIANT"}

VARIABLES
  \* the device
  outbox,      \* operation -> its row
  response,    \* the local response: its text, answer, revision and unsent operation
  draft,       \* the local Potential Finding
  checklist,   \* local status of the checklist
  grant,       \* the grant of the last checkout
  usable,      \* the package is neither locked nor quarantined
  cursor,      \* where pulling resumes, and the grant the cursor was issued for
  \* the engine and the network
  eng, bound, target, request, result, page, late, faults,
  \* the server
  log,         \* applied operations, with the stored answer of each
  held,        \* the authoritative response
  submitted, version,   \* the authoritative checklist: its status and its revision
  ended, withdrawn, office

device == <<outbox, response, draft, checklist, grant, usable, cursor>>
engine == <<eng, bound, target, request, result, page>>
server == <<log, held, submitted, version, ended, withdrawn, office>>
vars == <<device, engine, late, faults, server>>

Ops == DOMAIN outbox
Answers == {"COMPLIANT", "NON_COMPLIANT"}
Terminal == {"ACKNOWLEDGED", "SUPERSEDED", "REJECTED"}
Unsent == {"PENDING", "BLOCKED_ON_DEPENDENCY", "FAILED_RETRYABLE"}
States == Terminal \union Unsent \union {"IN_FLIGHT", "CONFLICT"}
Kinds == {"UPSERT_CHECKLIST_RESPONSE", "CREATE_POTENTIAL_FINDING", "SUBMIT_CHECKLIST"}

Active(o) == outbox[o].state \notin Terminal
Edits == {o \in Ops : outbox[o].kind = "UPSERT_CHECKLIST_RESPONSE"}
NoResult == [status |-> "none", revision |-> 0, code |-> "none"]

\* What is sent: the content of the row, without its state and its dependencies.
Request(o) == [op |-> o, kind |-> outbox[o].kind, base |-> outbox[o].base,
               grant |-> outbox[o].grant, answer |-> outbox[o].answer]
\* Revision of a checklist that was created, then started, then checked out.
CheckedOut == 2
Requests == [op : 1..MaxOps, kind : Kinds, base : Nat, grant : 1..MaxGrants, answer : Answers]

Row(kind, base, answer, deps) ==
  [kind |-> kind, base |-> base, answer |-> answer, grant |-> grant, deps |-> deps,
   state |-> IF deps = {} THEN "PENDING" ELSE "BLOCKED_ON_DEPENDENCY"]

Init ==
  /\ outbox = <<>>
  /\ response = [text |-> 0, answer |-> "COMPLIANT", revision |-> 0, op |-> 0, exists |-> FALSE]
  /\ draft = [op |-> 0, sync |-> "NONE", known |-> FALSE, echoed |-> FALSE]
  /\ checklist = "IN_PROGRESS" /\ grant = 1 /\ usable = TRUE
  /\ cursor = [mark |-> 0, grant |-> 1]
  /\ eng = "idle" /\ bound = 1 /\ target = 0 /\ request = <<>> /\ result = NoResult /\ page = 0
  /\ late = {} /\ faults = 0
  /\ log = <<>> /\ held = [text |-> 0, answer |-> "COMPLIANT", revision |-> 0]
  /\ submitted = FALSE /\ version = CheckedOut
  /\ ended = [g \in 1..MaxGrants |-> "no"] /\ withdrawn = FALSE /\ office = 0

-----------------------------------------------------------------------------
(* The inspector, possibly offline.  Every command is one transaction that     *)
(* writes the entity and its outbox row.                                       *)

\* The stored package may be used: not locked, and its grant has not run out.
Available == usable /\ ended[grant] # "expired"
Editable == Available /\ checklist = "IN_PROGRESS" /\ Len(outbox) < MaxOps

\* A row that waited for an edit which gave way waits for the newer edit o instead.
NotRewired(row, dropped, o) == row
Rewired(row, dropped, o) ==
  IF row.deps \intersect dropped = {} THEN row
  ELSE [row EXCEPT !.deps = (@ \ dropped) \union {o}, !.state = "BLOCKED_ON_DEPENDENCY"]

SaveResponse(answer) ==
  LET o == Len(outbox) + 1
      mine == {i \in Edits : Active(i)}
      flying == {i \in mine : outbox[i].state = "IN_FLIGHT"}
      dropped == mine \ flying
      Supersede(i) == IF i \in dropped THEN [outbox[i] EXCEPT !.state = "SUPERSEDED"]
                                       ELSE outbox[i]
      base == IF flying # {} THEN 0 ELSE response.revision
  IN /\ Editable
     /\ outbox' = Append([i \in Ops |-> Rewired(Supersede(i), dropped, o)],
                         Row("UPSERT_CHECKLIST_RESPONSE", base, answer, flying))
     /\ response' = [response EXCEPT !.text = o, !.answer = answer, !.op = o, !.exists = TRUE]
     /\ UNCHANGED <<draft, checklist, grant, usable, cursor, engine, late, faults, server>>

CreatePotentialFindingDraft ==
  /\ Editable
  /\ response.exists /\ response.answer = "NON_COMPLIANT"
  /\ draft.sync \in {"NONE", "REJECTED"} /\ ~draft.echoed
  /\ outbox' = Append(outbox, Row("CREATE_POTENTIAL_FINDING", response.revision, "NON_COMPLIANT",
                                  {i \in Edits : Active(i)}))
  /\ draft' = [draft EXCEPT !.op = Len(outbox) + 1, !.sync = "PENDING", !.known = FALSE]
  /\ UNCHANGED <<response, checklist, grant, usable, cursor, engine, late, faults, server>>

\* What a submission waits for.
PendingWork == {i \in Ops : outbox[i].state = "PENDING"}
OpenWork == {i \in Ops : Active(i)}

SubmitChecklist ==
  /\ Editable
  /\ response.exists
  /\ outbox' = Append(outbox, Row("SUBMIT_CHECKLIST", CheckedOut, "COMPLIANT", OpenWork))
  /\ checklist' = "SUBMITTED"
  /\ UNCHANGED <<response, draft, grant, usable, cursor, engine, late, faults, server>>

\* A new grant for the package; the local work, the local status and the cursor stay.
CheckoutPackage ==
  /\ grant < MaxGrants
  /\ ~submitted /\ ~withdrawn
  /\ grant' = grant + 1 /\ usable' = TRUE
  /\ UNCHANGED <<outbox, response, draft, checklist, cursor, engine, late, faults, server>>

-----------------------------------------------------------------------------
(* The server.  One push is one transaction.                                   *)

Result(status, revision, code) == [status |-> status, revision |-> revision, code |-> code]
Stored(o) == {i \in DOMAIN log : log[i].request.op = o}

\* The authority checks in their order; "ok" lets the command through.
Authority(g) ==
  IF submitted THEN Result("conflict", InspectionRevision, "ASSIGNMENT_CHANGED")
  ELSE IF ended[g] # "no" THEN Result("forbidden", 0, "GRANT")
  ELSE IF withdrawn THEN Result("conflict", 0, "PACKAGE_REVOKED")
  ELSE Result("ok", 0, "none")

\* What each command answers once the authority is in order.
Stale == Result("conflict", held.revision, "STALE_REVISION")
Upserted(r) == IF r.base = held.revision
               THEN Result("accepted", held.revision + 1, "none") ELSE Stale
Raised(r) ==
  IF r.base = 0 THEN Result("invalid", 0, "VALIDATION")
  ELSE IF held.revision = 0 THEN Result("forbidden", 0, "GRANT")
  ELSE IF r.base # held.revision THEN Stale
  ELSE IF held.answer # "NON_COMPLIANT" THEN Result("invalid", 0, "VALIDATION")
  ELSE IF \E i \in DOMAIN log : log[i].request.kind = r.kind
       THEN Result("conflict", 1, "STALE_REVISION")
  ELSE Result("accepted", 1, "none")
Submitted(r) == IF r.base # version THEN Result("conflict", version, "STALE_REVISION")
                ELSE IF held.revision = 0 THEN Result("invalid", 0, "VALIDATION")
                ELSE Result("accepted", version + 1, "none")

Command(r) == IF r.kind = "UPSERT_CHECKLIST_RESPONSE" THEN Upserted(r)
              ELSE IF r.kind = "CREATE_POTENTIAL_FINDING" THEN Raised(r) ELSE Submitted(r)

\* Mutant of Pushed: the authority is asked before the stored answer is looked for.
PushedByAuthority(r) ==
  IF Authority(r.grant).status # "ok" THEN Authority(r.grant)
  ELSE IF Stored(r.op) # {} THEN Result("accepted", log[CHOOSE i \in Stored(r.op) : TRUE].revision, "none")
  ELSE Command(r)

\* The answer to a push: a stored one is replayed before the authority is looked at,
\* and an identifier that comes back with another content is an error.
Pushed(r) ==
  IF Stored(r.op) # {}
  THEN LET entry == log[CHOOSE i \in Stored(r.op) : TRUE]
       IN IF entry.request = r THEN Result("accepted", entry.revision, "none")
          ELSE Result("retryable", 0, "OPERATION_ID_REUSE")
  ELSE IF Authority(r.grant).status = "ok" THEN Command(r) ELSE Authority(r.grant)

\* Mutant: a stored answer is replayed together with its effect.
AppliesAgain(r, answer) == answer.status = "accepted"
Applies(r, answer) == answer.status = "accepted" /\ Stored(r.op) = {}

\* Applying: the entity, the change that pulling hands out and the stored answer.
Handle(r) ==
  LET answer == Pushed(r)
  IN IF Applies(r, answer)
     THEN /\ log' = Append(log, [request |-> r, revision |-> answer.revision])
          /\ held' = IF r.kind # "UPSERT_CHECKLIST_RESPONSE" THEN held
                     ELSE [text |-> r.op, answer |-> r.answer, revision |-> answer.revision]
          /\ submitted' = (submitted \/ r.kind = "SUBMIT_CHECKLIST")
          /\ version' = IF r.kind = "SUBMIT_CHECKLIST" THEN answer.revision ELSE version
          /\ UNCHANGED <<ended, withdrawn, office>>
     ELSE UNCHANGED server

\* The same response edited, and the checklist submitted, through the connected application.
\* What happens there is not among the changes of the package that a device pulls.
EditOnline(answer) ==
  /\ office < MaxOffice /\ held.revision > 0 /\ ~submitted /\ ~withdrawn
  /\ held' = [text |-> 0, answer |-> answer, revision |-> held.revision + 1]
  /\ office' = office + 1
  /\ UNCHANGED <<device, engine, late, faults, log, submitted, version, ended, withdrawn>>

SubmitOnline ==
  /\ office < MaxOffice /\ held.revision > 0 /\ ~submitted /\ ~withdrawn
  /\ submitted' = TRUE /\ version' = version + 1 /\ office' = office + 1
  /\ UNCHANGED <<device, engine, late, faults, log, held, ended, withdrawn>>

ReopenChecklist ==
  /\ submitted
  /\ submitted' = FALSE /\ version' = version + 1
  /\ UNCHANGED <<device, engine, late, faults, log, held, ended, withdrawn, office>>

\* The current grant ends: revoked (or the session it belongs to closed), or run out.
EndGrant(cause) ==
  /\ office < MaxOffice /\ ended[grant] = "no"
  /\ ended' = [ended EXCEPT ![grant] = cause] /\ office' = office + 1
  /\ UNCHANGED <<device, engine, late, faults, log, held, submitted, version, withdrawn>>

WithdrawPackage ==
  /\ office < MaxOffice /\ ~withdrawn
  /\ withdrawn' = TRUE /\ office' = office + 1
  /\ UNCHANGED <<device, engine, late, faults, log, held, submitted, version, ended>>

-----------------------------------------------------------------------------
(* The foreground engine.  One tab owns the package at a time.                 *)

NotRecovered(row) == row
Recovered(row) == IF row.state = "IN_FLIGHT" THEN [row EXCEPT !.state = "FAILED_RETRYABLE"] ELSE row
ReleasedRebased(row) == IF row.state # "FAILED_RETRYABLE" THEN row
                        ELSE [row EXCEPT !.state = "PENDING", !.base = response.revision]
Released(row) ==
  IF row.state # "FAILED_RETRYABLE" THEN row
  ELSE IF row.deps # {} THEN [row EXCEPT !.state = "BLOCKED_ON_DEPENDENCY"]
  ELSE [row EXCEPT !.state = "PENDING"]

\* A trigger loads the package, which refuses one that is not available, and starts a cycle under
\* the grant of that moment.  Interrupted operations become retryable; those whose backoff has run
\* out (all of them on a manual trigger) are released.
StartCycle(due) ==
  /\ eng = "idle" /\ Available
  /\ outbox' = [o \in Ops |-> IF due THEN Released(Recovered(outbox[o])) ELSE Recovered(outbox[o])]
  /\ eng' = "push" /\ bound' = grant
  /\ UNCHANGED <<response, draft, checklist, grant, usable, cursor, target, request, result, page,
                 late, faults, server>>

Deliverable == {o \in Ops : outbox[o].state = "PENDING"}
Oldest(S) == CHOOSE o \in S : \A p \in S : o <= p

\* The oldest deliverable operation is read in one transaction ...
ListDeliverable ==
  /\ eng = "push"
  /\ IF Deliverable = {} THEN eng' = "pull" /\ UNCHANGED target
     ELSE eng' = "mark" /\ target' = Oldest(Deliverable)
  /\ UNCHANGED <<device, bound, request, result, page, late, faults, server>>

\* ... and put in flight in the next: an edit in between may have superseded it, and then the
\* cycle is abandoned.
MarkInFlight ==
  /\ eng = "mark"
  /\ IF outbox[target].state = "PENDING"
     THEN /\ outbox' = [outbox EXCEPT ![target].state = "IN_FLIGHT"]
          /\ request' = Request(target) /\ result' = NoResult /\ eng' = "wait"
          /\ UNCHANGED target
     ELSE /\ eng' = "idle" /\ target' = 0
          /\ UNCHANGED <<outbox, request, result>>
  /\ UNCHANGED <<response, draft, checklist, grant, usable, cursor, bound, page, late, faults, server>>

\* The server receives the request the engine waits for.
Serve ==
  /\ eng = "wait" /\ result = NoResult
  /\ result' = Pushed(request)
  /\ Handle(request)
  /\ UNCHANGED <<device, eng, bound, target, request, page, late, faults>>

\* A request the engine no longer waits for reaches the server: nobody reads the answer.
ServeLate(r) ==
  /\ late' = late \ {r}
  /\ Handle(r)
  /\ UNCHANGED <<device, engine, faults>>

\* The rows after operation o was acknowledged with the given revision.
Unblocked(o, revision) ==
  [i \in Ops |->
     LET row == outbox[i]
         deps == row.deps \ {o}
     IN IF i = o THEN [row EXCEPT !.state = "ACKNOWLEDGED"]
        ELSE IF o \notin row.deps THEN row
        ELSE [row EXCEPT !.deps = deps,
                         !.base = IF row.kind = "SUBMIT_CHECKLIST" THEN @ ELSE revision,
                         !.state = IF deps = {} THEN "PENDING" ELSE @]]

\* The local response takes the revision, and forgets its operation if it was this one.
ResponseForgets(o, revision) == [response EXCEPT !.revision = revision, !.op = 0]
ResponseKeeps(o, revision) ==
  [response EXCEPT !.revision = revision, !.op = IF @ = o THEN 0 ELSE @]

Acknowledge(o, revision) ==
  /\ outbox' = Unblocked(o, revision)
  /\ response' = IF outbox[o].kind = "UPSERT_CHECKLIST_RESPONSE"
                 THEN ResponseKeeps(o, revision) ELSE response
  /\ draft' = IF outbox[o].kind # "CREATE_POTENTIAL_FINDING" THEN draft
              ELSE [draft EXCEPT !.known = TRUE, !.op = 0, !.sync = "ACKNOWLEDGED"]
  /\ UNCHANGED <<checklist, grant, usable, cursor>>

Retry(o) ==
  /\ outbox' = [outbox EXCEPT ![o].state = "FAILED_RETRYABLE"]
  /\ UNCHANGED <<response, draft, checklist, grant, usable, cursor>>

\* A conflict hands over the revision the server named; a withdrawn package is quarantined.
RawOutcome(answer) == answer.status
Outcome(answer) == IF answer.status = "conflict" THEN "CONFLICT" ELSE "REJECTED"

Refuse(o, answer) ==
  LET outcome == Outcome(answer)
  IN /\ outbox' = [outbox EXCEPT ![o].state = outcome]
     /\ response' = IF outbox[o].kind = "UPSERT_CHECKLIST_RESPONSE" /\ outcome = "CONFLICT"
                       /\ answer.revision # 0
                    THEN [response EXCEPT !.revision = answer.revision] ELSE response
     /\ draft' = IF outbox[o].kind = "CREATE_POTENTIAL_FINDING"
                 THEN [draft EXCEPT !.sync = outcome] ELSE draft
     /\ usable' = (usable /\ answer.code # "PACKAGE_REVOKED")
     /\ UNCHANGED <<checklist, grant, cursor>>

\* The answer arrives.  An accepted push lets the cycle go on, a retryable one ends it, a
\* refused one ends the pushing.
Receive ==
  /\ eng = "wait" /\ result # NoResult
  /\ \/ /\ result.status = "accepted" /\ Acknowledge(target, result.revision) /\ eng' = "push"
     \/ /\ result.status = "retryable" /\ Retry(target) /\ eng' = "idle"
     \/ /\ result.status \in {"conflict", "forbidden", "invalid"}
        /\ Refuse(target, result) /\ eng' = "pull"
  /\ target' = 0 /\ request' = <<>> /\ result' = NoResult
  /\ UNCHANGED <<bound, page, late, faults, server>>

\* The call fails: the request is lost or late, or its answer is lost.
CallFails ==
  /\ eng = "wait" /\ faults < MaxFaults
  /\ Retry(target)
  /\ late' = IF result = NoResult THEN late \union {request} ELSE late
  /\ faults' = faults + 1
  /\ eng' = "idle" /\ target' = 0 /\ request' = <<>> /\ result' = NoResult
  /\ UNCHANGED <<bound, page, server>>

\* The browser is closed in the middle of a cycle: what is in flight stays in flight.
Crash ==
  /\ eng # "idle" /\ faults < MaxFaults
  /\ late' = IF eng = "wait" /\ result = NoResult THEN late \union {request} ELSE late
  /\ faults' = faults + 1
  /\ eng' = "idle" /\ target' = 0 /\ request' = <<>> /\ result' = NoResult /\ page' = 0
  /\ UNCHANGED <<device, bound, server>>

\* Pulling asks for the changes after the cursor.  A cursor issued for another grant is
\* refused, as is a grant that no longer stands; a withdrawn package may still pull.
PullAllowed == /\ bound = grant
               /\ \/ Authority(bound).status = "ok"
                  \/ Authority(bound).code = "PACKAGE_REVOKED"
               /\ cursor.mark = 0 \/ cursor.grant = grant
Changes(from) == {i \in DOMAIN log : i > from /\ log[i].request.kind # "SUBMIT_CHECKLIST"}
Latest(S) == CHOOSE i \in S : \A j \in S : i >= j

FetchPage ==
  /\ eng = "pull"
  /\ IF PullAllowed /\ Changes(cursor.mark) # {}
     THEN page' = Latest(Changes(cursor.mark)) /\ eng' = "apply"
     ELSE eng' = "idle" /\ UNCHANGED page
  /\ UNCHANGED <<device, bound, target, request, result, late, faults, server>>

\* The page and the new cursor are written in one transaction, unless the package is no longer
\* available.  A response with unacknowledged local work keeps its text; a Potential Finding the
\* device does not know under the server's identifier becomes a second local one.
ApplyPage ==
  LET seen == {i \in Changes(cursor.mark) : i <= page}
      edits == {i \in seen : log[i].request.kind = "UPSERT_CHECKLIST_RESPONSE"}
      last == log[Latest(edits)]
      busy == response.op # 0 /\ outbox[response.op].state # "ACKNOWLEDGED"
  IN /\ eng = "apply"
     /\ IF ~Available \/ bound # grant
        THEN UNCHANGED <<response, draft, cursor>>
        ELSE /\ response' = IF edits = {} THEN response
                            ELSE IF busy THEN [response EXCEPT !.revision = last.revision]
                            ELSE [text |-> last.request.op, answer |-> last.request.answer,
                                  revision |-> last.revision, op |-> 0, exists |-> TRUE]
             /\ draft' = IF seen = edits THEN draft
                         ELSE IF draft.known
                         THEN [draft EXCEPT !.sync = IF @ = "PENDING" THEN @ ELSE "ACKNOWLEDGED"]
                         ELSE [draft EXCEPT !.echoed = TRUE]
             /\ cursor' = [mark |-> page, grant |-> grant]
     /\ eng' = "idle" /\ page' = 0
     /\ UNCHANGED <<outbox, checklist, grant, usable, bound, target, request, result, late, faults,
                    server>>

-----------------------------------------------------------------------------
Inspector == \/ \E a \in EditAnswers : SaveResponse(a)
             \/ CreatePotentialFindingDraft \/ SubmitChecklist \/ CheckoutPackage
Engine == \/ \E due \in BOOLEAN : StartCycle(due)
          \/ ListDeliverable \/ MarkInFlight \/ Serve \/ Receive \/ FetchPage \/ ApplyPage
Office == \/ \E a \in Answers : EditOnline(a)
          \/ SubmitOnline \/ ReopenChecklist
          \/ \E cause \in {"revoked", "expired"} : EndGrant(cause)
          \/ WithdrawPackage
Faults == CallFails \/ Crash \/ \E r \in late : ServeLate(r)

Next == Inspector \/ Engine \/ Office \/ Faults
Spec == Init /\ [][Next]_vars

\* Foreground triggers keep coming and, a backoff being at most 300 s, now and then one finds
\* every backoff run out; a started cycle runs on, and the server answers what it receives.
FairSpec == /\ Spec
            /\ SF_vars(StartCycle(TRUE))
            /\ WF_vars(ListDeliverable) /\ WF_vars(MarkInFlight) /\ WF_vars(Serve)
            /\ WF_vars(Receive) /\ WF_vars(FetchPage) /\ WF_vars(ApplyPage)

-----------------------------------------------------------------------------
\* The type of every variable.
TypeOK ==
  /\ outbox \in Seq([kind : Kinds, base : Nat, answer : Answers, grant : 1..MaxGrants,
                     deps : SUBSET (1..MaxOps), state : States])
  /\ Len(outbox) <= MaxOps
  /\ response \in [text : 0..MaxOps, answer : Answers, revision : Nat, op : 0..MaxOps,
                   exists : BOOLEAN]
  /\ draft \in [op : 0..MaxOps, sync : {"NONE", "PENDING", "ACKNOWLEDGED", "CONFLICT", "REJECTED"},
                known : BOOLEAN, echoed : BOOLEAN]
  /\ checklist \in {"IN_PROGRESS", "SUBMITTED"} /\ grant \in 1..MaxGrants /\ usable \in BOOLEAN
  /\ cursor \in [mark : 0..Len(log), grant : 1..MaxGrants]
  /\ eng \in {"idle", "push", "mark", "wait", "pull", "apply"} /\ bound \in 1..MaxGrants
  /\ target \in 0..MaxOps /\ page \in 0..Len(log) /\ late \in SUBSET Requests
  /\ faults \in 0..MaxFaults
  /\ log \in Seq([request : Requests, revision : Nat])
  /\ held \in [text : 0..MaxOps, answer : Answers, revision : Nat]
  /\ submitted \in BOOLEAN /\ version \in Nat /\ withdrawn \in BOOLEAN
  /\ ended \in [1..MaxGrants -> {"no", "revoked", "expired"}]
  /\ office \in 0..MaxOffice

\* One operation identifier never stands for two different requests: what was sent once, and may
\* still arrive, is what the row would send now.  The server refuses another content under a known
\* identifier, so a row whose content moved after it was sent could never be acknowledged.
OneRequestPerOperation ==
  \A r \in late \union {log[i].request : i \in DOMAIN log}
                \union (IF eng = "wait" THEN {request} ELSE {}) :
     r = Request(r.op)

\* A lost answer never turns into a refusal: an operation the server has applied is answered as
\* accepted when it is pushed again, whatever happened meanwhile to the grant, the checklist or
\* the package on the server and to the row on the device.
AppliedIsNeverRefused ==
  [][eng = "wait" /\ result = NoResult /\ result' # NoResult /\ Stored(request.op) # {}
       => result'.status = "accepted"]_vars

\* The newest local edit keeps its place: as long as its row is unfinished the local response
\* shows it and points at it, whatever is acknowledged, refused or pulled meanwhile, and the
\* response never points at a row that is done.
LocalEditIsQueued ==
  LET newest == Latest(Edits)
  IN /\ response.op # 0 => outbox[response.op].state \notin {"ACKNOWLEDGED", "SUPERSEDED"}
     /\ Edits # {} /\ Active(newest) => response.op = newest /\ response.text = newest

\* No release is missed: a blocked row waits for something, and for no operation that has already
\* released what waited for it (an acknowledged one) or handed it over (a superseded one), since
\* neither does so twice.  A refused operation releases nothing, and what waits for it stays blocked.
NoReleaseIsMissed ==
  \A o \in Ops : outbox[o].state = "BLOCKED_ON_DEPENDENCY" =>
     /\ outbox[o].deps # {}
     /\ \A d \in outbox[o].deps : outbox[d].state \notin {"ACKNOWLEDGED", "SUPERSEDED"}

\* When the server has the submission it has the work before it: the last edit made before the
\* checklist was submitted on the device was applied, unless it was refused for good.
SubmissionCarriesTheWork ==
  \A i \in DOMAIN log : log[i].request.kind = "SUBMIT_CHECKLIST" =>
     LET before == {u \in Edits : u < log[i].request.op}
     IN /\ before # {}
        /\ outbox[Latest(before)].state = "REJECTED" \/ Stored(Latest(before)) # {}

\* "Unsent response edits supersede earlier unsent rows": a newer edit that the server has is not
\* overwritten by an older one of the same device.
NewestEditStands ==
  \A i, j \in DOMAIN log :
     /\ i < j
     /\ log[i].request.kind = "UPSERT_CHECKLIST_RESPONSE"
     /\ log[j].request.kind = "UPSERT_CHECKLIST_RESPONSE"
     => log[i].request.op < log[j].request.op

\* What an operation that was refused, or is in conflict, holds up: all that waits for it, directly
\* or through others.  Rows that only wait for each other are not held up by anything.
HeldUp(o) ==
  LET refused == {i \in Ops : outbox[i].state \in {"REJECTED", "CONFLICT"}}
      Closed(S) == \A i \in Ops : outbox[i].state = "BLOCKED_ON_DEPENDENCY"
                                   /\ outbox[i].deps \intersect S # {} => i \in S
  IN \A S \in SUBSET Ops : refused \subseteq S /\ Closed(S) => o \in S

\* What is ready to be sent does not stay so: it is acknowledged, superseded or refused, as long
\* as the package stays available on the device.  What is blocked does not stay so either, unless
\* an operation that was refused or is in conflict holds it up.
Waiting(o) == o \in Ops /\ outbox[o].state \in {"PENDING", "IN_FLIGHT", "FAILED_RETRYABLE"}
Blocked(o) == o \in Ops /\ outbox[o].state = "BLOCKED_ON_DEPENDENCY"
QueueSettles ==
  \A o \in 1..MaxOps : /\ Waiting(o) ~> (~Waiting(o) \/ ~Available)
                       /\ Blocked(o) ~> (~Blocked(o) \/ HeldUp(o) \/ ~Available)

-----------------------------------------------------------------------------
\* What the device's work has come to, as FieldPromise sees it.
AppliedOf(kind) == {log[i].request.op : i \in {j \in DOMAIN log : log[j].request.kind = kind}}
Told == {o \in Ops : outbox[o].state = "ACKNOWLEDGED"}

Promise == INSTANCE FieldPromise WITH
  Operations <- 1..MaxOps, Grants <- 1..MaxGrants, Start <- CheckedOut,
  applied <- [kind \in Kinds |-> AppliedOf(kind)], told <- Told,
  text <- held.text, revision <- held.revision,
  standing <- {g \in 1..MaxGrants : ended[g] = "no"}

\* Outbox, engine, lost answers and late requests keep FieldPromise: an operation takes effect
\* once, while a grant stands and the checklist is open, and is acknowledged only after that and
\* for good; nothing else that happens on a device shows on the server.
KeepsPromise == Promise!Spec
=============================================================================
