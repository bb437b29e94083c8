------------------------ MODULE MembershipPromiseProofs ------------------------
(***************************************************************************)
(* The lifecycle implements MembershipPromise, for any number of requests, *)
(* replicas, calls and sessions: claims, comparisons, calls of the         *)
(* provider and observations do not show, and what is left of a request or *)
(* of a login is one step.                                                 *)
(***************************************************************************)
EXTENDS UserLifecycleProofs

(* What the rows show. *)

LEMMA Numbers ==
    ASSUME IInv
    PROVE  /\ DOMAIN requests \subseteq 1..MaxRequests
           /\ \A i \in 1..MaxRequests : Filed(i) <=> i \in DOMAIN requests
BY Rows, BoundsAssumption DEF IInv, Filed

LEMMA RequestShows ==
    ASSUME IInv, NEW i \in DOMAIN requests
    PROVE  /\ answer[i] = AnswerOf(requests[i].status)
           /\ order[i].action = requests[i].action
           /\ order[i].authority = requests[i].authority
           /\ order[i].number = requests[i].expected
BY Numbers DEF answer, order

\* Requests look the same after a step that answers none of them.
LEMMA AnswersStay ==
    ASSUME IInv, Len(requests') = Len(requests),
           \A i \in DOMAIN requests :
              /\ AnswerOf(requests'[i].status) = AnswerOf(requests[i].status)
              /\ requests'[i].action = requests[i].action
              /\ requests'[i].authority = requests[i].authority
              /\ requests'[i].expected = requests[i].expected
    PROVE  UNCHANGED <<answer, order>>
<1>1. \A i \in 1..MaxRequests : Filed(i)' = Filed(i)
    BY DEF Filed
<1>2. \A i \in 1..MaxRequests : Filed(i) => i \in DOMAIN requests
    BY Numbers
<1>3. answer' = answer
    BY <1>1, <1>2 DEF answer
<1>4. order' = order
    BY <1>1, <1>2 DEF order
<1> QED
    BY <1>3, <1>4

LEMMA OneAnswered ==
    ASSUME IInv, NEW i \in DOMAIN requests, Len(requests') = Len(requests),
           \A j \in DOMAIN requests : j # i => requests'[j] = requests[j],
           requests'[i].action = requests[i].action,
           requests'[i].authority = requests[i].authority,
           requests'[i].expected = requests[i].expected
    PROVE  /\ answer' = [answer EXCEPT ![i] = AnswerOf(requests'[i].status)]
           /\ UNCHANGED order
<1>1. \A j \in 1..MaxRequests : Filed(j)' = Filed(j)
    BY DEF Filed
<1>2. i \in 1..MaxRequests /\ \A j \in 1..MaxRequests : Filed(j) <=> j \in DOMAIN requests
    BY Numbers
<1>3. answer' = [answer EXCEPT ![i] = AnswerOf(requests'[i].status)]
    BY <1>1, <1>2 DEF answer
<1>4. order' = order
    BY <1>1, <1>2 DEF order
<1> QED
    BY <1>3, <1>4

LEMMA VisitsStay ==
    ASSUME \A s \in Sessions : /\ UseOf(sessions'[s].state) = UseOf(sessions[s].state)
                               /\ sessions'[s].authority = sessions[s].authority
    PROVE  UNCHANGED <<use, badge>>
BY DEF use, badge

\* Some sessions end and nothing else shows.
LEMMA SessionsEnd ==
    ASSUME UNCHANGED <<versions, requests>>,
           \A s \in Sessions :
              /\ \/ UseOf(sessions'[s].state) = UseOf(sessions[s].state)
                 \/ UseOf(sessions[s].state) = "LIVE" /\ UseOf(sessions'[s].state) = "ENDED"
              /\ sessions'[s].authority = sessions[s].authority
    PROVE  Promise!End
<1>1. /\ use' = [s \in Sessions |-> use'[s]]
      /\ \A s \in Sessions : use'[s] = use[s] \/ (use[s] = "LIVE" /\ use'[s] = "ENDED")
    BY DEF use
<1>2. badge' = badge
    BY DEF badge
<1>3. UNCHANGED <<Latest, Len(versions), answer, order>>
    BY DEF Latest, answer, order, Filed
<1> QED
    BY <1>1, <1>2, <1>3 DEF Promise!End, Promise!filed

\* All live sessions are revoked.
LEMMA AllEnd ==
    ASSUME IInv, sessions' = Revoked(Live)
    PROVE  Promise!EndAll
<1>1. sessions \in [Sessions -> SessionRows]
    BY DEF IInv, TypeOK, SessionRows
<1>2. \A s \in Sessions : /\ sessions'[s].authority = sessions[s].authority
                          /\ s \in Live => sessions'[s].state = "REVOKED"
                          /\ s \notin Live => sessions'[s] = sessions[s]
    BY <1>1 DEF Revoked, SessionRows
<1>3. \A s \in Sessions : UseOf(sessions'[s].state) =
         IF UseOf(sessions[s].state) = "LIVE" THEN "ENDED" ELSE UseOf(sessions[s].state)
  <2>1. \A s \in Sessions : s \in Live <=> UseOf(sessions[s].state) = "LIVE"
      BY <1>1 DEF Live, UseOf, SessionRows
  <2> QED
      BY <1>2, <2>1 DEF UseOf
<1> QED
    BY <1>2, <1>3 DEF Promise!EndAll, use, badge

-----------------------------------------------------------------------------
(* Steps that do not show. *)

LEMMA QuietPromise ==
    ASSUME UNCHANGED <<versions, requests, sessions>>
    PROVE  UNCHANGED Promise!vars
BY DEF Promise!vars, Promise!filed, Promise!visits, Latest, answer, order, use, badge, Filed

LEMMA ClaimPromise ==
    ASSUME IInv, NEW w \in Replicas, NEW i \in 1..MaxRequests, Claim(w, i)
    PROVE  UNCHANGED Promise!vars
<1>1. /\ i \in DOMAIN requests /\ requests[i].status \in {"PENDING", "FAILED_RETRYABLE"}
      /\ requests' = [requests EXCEPT ![i].status = "RUNNING", ![i].attempts = @ + 1]
      /\ UNCHANGED <<versions, sessions>>
    BY DEF Claim, Claimable, store
<1>2. requests \in Seq(RequestRows) /\ requests[i] \in RequestRows
      /\ \A j \in DOMAIN requests : requests[j] \in RequestRows
    BY <1>1, Rows DEF IInv
<1>3. Len(requests') = Len(requests)
    BY <1>1, <1>2, LenProperties
<1>4. \A j \in DOMAIN requests :
         /\ AnswerOf(requests'[j].status) = AnswerOf(requests[j].status)
         /\ requests'[j].action = requests[j].action
         /\ requests'[j].authority = requests[j].authority
         /\ requests'[j].expected = requests[j].expected
    BY <1>1, <1>2 DEF RequestRows, AnswerOf, Open
<1>5. UNCHANGED <<answer, order>>
    BY <1>3, <1>4, AnswersStay
<1> QED
    BY <1>1, <1>5 DEF Promise!vars, Promise!filed, Promise!visits, Latest, use, badge

-----------------------------------------------------------------------------
(* Requests. *)

LEMMA FilePromise ==
    ASSUME IInv, NEW action \in Actions, NEW a \in Authorities, RequestLifecycle(action, a)
    PROVE  Len(requests) + 1 \in 1..MaxRequests /\ Promise!File(Len(requests) + 1)
<1> DEFINE r == [action |-> action, authority |-> a, attempts |-> 0,
                 expected |-> Len(versions), status |-> "PENDING"]
           asked == [action |-> action, authority |-> a, number |-> Len(versions)]
<1>1. /\ Len(requests) < MaxRequests /\ Conflicts = {} /\ MayRequest(action)
      /\ requests' = Append(requests, r)
      /\ UNCHANGED <<versions, sessions>>
    BY DEF RequestLifecycle, store
<1>2. /\ requests \in Seq(RequestRows) /\ Len(requests) \in Nat
      /\ DOMAIN requests = 1..Len(requests)
    BY Rows DEF IInv
<1>3. PICK n \in 1..MaxRequests : n = Len(requests) + 1
    BY <1>1, <1>2, BoundsAssumption
<1>4. r \in RequestRows
  <2>1. Len(versions) \in DOMAIN versions
      BY Rows DEF IInv
  <2> QED
      BY <2>1, BoundsAssumption DEF RequestRows, Open
<1>5. /\ Len(requests') = n /\ requests'[n] = r
      /\ \A j \in 1..Len(requests) : requests'[j] = requests[j]
    BY <1>1, <1>2, <1>3, <1>4, AppendProperties
<1>6. r.status = "PENDING" /\ asked = [action |-> r.action, authority |-> r.authority,
                                       number |-> r.expected]
    OBVIOUS
<1> HIDE DEF r
<1>7. \A j \in 1..MaxRequests : /\ Filed(j) <=> j \in 1..Len(requests)
                                /\ Filed(j)' <=> j = n \/ j \in 1..Len(requests)
    BY <1>2, <1>3, <1>5 DEF Filed
<1>8. answer[n] = "ABSENT"
    BY <1>3, <1>7 DEF answer
<1>9. answer' = [answer EXCEPT ![n] = "OPEN"]
  <2>1. AnswerOf(requests'[n].status) = "OPEN"
      BY <1>5, <1>6 DEF AnswerOf, Open
  <2> QED
      BY <1>3, <1>5, <1>7, <2>1 DEF answer
<1>10. order' = [order EXCEPT ![n] = asked]
  <2>1. [action |-> requests'[n].action, authority |-> requests'[n].authority,
         number |-> requests'[n].expected] = asked
      BY <1>5, <1>6
  <2> HIDE DEF asked
  <2> QED
      BY <1>3, <1>5, <1>7, <2>1 DEF order
<1>11. \A j \in 1..MaxRequests : answer[j] = "OPEN" => order[j].number # Len(versions)
  <2> SUFFICES ASSUME NEW j \in 1..MaxRequests, answer[j] = "OPEN"
               PROVE  order[j].number # Len(versions)
      OBVIOUS
  <2>1. j \in DOMAIN requests
      BY Numbers DEF answer
  <2>2. requests[j].status \in Open
      BY <2>1, RequestShows DEF AnswerOf
  <2> QED
      BY <1>1, <2>1, <2>2, RequestShows DEF Conflicts
<1>12. Promise!MakesSense(action)
    BY <1>1 DEF MayRequest, Promise!MakesSense, Actions
<1>13. UNCHANGED <<Latest, Len(versions), use, badge>>
    BY <1>1 DEF Latest, use, badge
<1>14. action \in Promise!Actions
    BY DEF Actions, AuthorityActions, Promise!Actions, Promise!Changes
<1>15. Promise!File(n)
    BY <1>8, <1>9, <1>10, <1>11, <1>12, <1>13, <1>14 DEF Promise!File, Promise!visits
<1> QED
    BY <1>3, <1>15

LEMMA RecordFailurePromise ==
    ASSUME IInv, NEW w \in Replicas, NEW late \in BOOLEAN, RecordFailure(w, late)
    PROVE  \/ UNCHANGED Promise!vars
           \/ \E i \in 1..MaxRequests : Promise!Fail(i)
<1>1. PICK i \in DOMAIN requests : i = jobs[w].request /\ jobs[w].step = "FAILED"
    BY JobInHand DEF RecordFailure
<1>2. requests[i].status = "RUNNING" /\ requests[i] \in RequestRows
    BY <1>1, JobInHand DEF Job
<1> DEFINE s == FailedStatus(requests[i], jobs[w].class, late)
<1>3. s \in {"FAILED_RETRYABLE", "FAILED_PERMANENT", "MANUAL_REVIEW"}
    BY DEF FailedStatus
<1>4. requests' = [requests EXCEPT ![i].status = s] /\ UNCHANGED <<versions, sessions>>
    BY <1>1 DEF RecordFailure, store
<1> HIDE DEF s
<1>5. requests \in Seq(RequestRows) /\ \A j \in DOMAIN requests : requests[j] \in RequestRows
    BY Rows DEF IInv
<1>6. Len(requests') = Len(requests)
    BY <1>4, <1>5, LenProperties
<1>7. /\ requests'[i].status = s /\ requests'[i].action = requests[i].action
      /\ requests'[i].authority = requests[i].authority
      /\ requests'[i].expected = requests[i].expected
      /\ \A j \in DOMAIN requests : j # i => requests'[j] = requests[j]
    BY <1>2, <1>4, <1>5 DEF RequestRows
<1>8. UNCHANGED <<Latest, Len(versions), use, badge>>
    BY <1>4 DEF Latest, use, badge
<1>9. CASE s = "FAILED_RETRYABLE"
  <2>1. AnswerOf(requests'[i].status) = AnswerOf(requests[i].status)
      BY <1>2, <1>7, <1>9 DEF AnswerOf, Open
  <2>2. UNCHANGED <<answer, order>>
      BY <1>6, <1>7, <2>1, AnswersStay
  <2> QED
      BY <1>8, <2>2 DEF Promise!vars, Promise!filed, Promise!visits
<1>10. CASE s # "FAILED_RETRYABLE"
  <2>1. AnswerOf(requests'[i].status) = "FAILED"
      BY <1>3, <1>7, <1>10 DEF AnswerOf, Open
  <2>2. answer' = [answer EXCEPT ![i] = "FAILED"] /\ UNCHANGED order
      BY <1>6, <1>7, <2>1, OneAnswered
  <2>3. answer[i] = "OPEN" /\ i \in 1..MaxRequests
      BY <1>2, RequestShows, Numbers DEF AnswerOf, Open
  <2> QED
      BY <1>8, <2>2, <2>3 DEF Promise!Fail, Promise!Answer, Promise!visits
<1> QED
    BY <1>9, <1>10

LEMMA FinalizeSuccessPromise ==
    ASSUME IInv, NEW w \in Replicas, FinalizeSuccess(w)
    PROVE  \E i \in 1..MaxRequests : Promise!Succeed(i)
<1>1. PICK i \in DOMAIN requests : i = jobs[w].request /\ jobs[w].step = "APPLIED"
    BY JobInHand DEF FinalizeSuccess
<1>2. requests[i].status = "RUNNING" /\ requests[i] \in RequestRows
    BY <1>1, JobInHand DEF Job
<1> DEFINE r == requests[i]
<1>3. /\ r.action \in AuthorityActions => AppendVersion(r)
      /\ r.action \notin AuthorityActions => UNCHANGED <<versions, sync>>
      /\ r.action = "RESEND_INVITATION" => UNCHANGED sessions
      /\ r.action # "RESEND_INVITATION" => sessions' = Revoked(Live)
      /\ requests' = [requests EXCEPT ![i].status = "SUCCEEDED"]
    BY <1>1 DEF FinalizeSuccess
<1>4. requests \in Seq(RequestRows) /\ \A j \in DOMAIN requests : requests[j] \in RequestRows
    BY Rows DEF IInv
<1>5. Len(requests') = Len(requests)
    BY <1>3, <1>4, LenProperties
<1>6. /\ requests'[i].status = "SUCCEEDED" /\ requests'[i].action = requests[i].action
      /\ requests'[i].authority = requests[i].authority
      /\ requests'[i].expected = requests[i].expected
      /\ \A j \in DOMAIN requests : j # i => requests'[j] = requests[j]
    BY <1>2, <1>3, <1>4 DEF RequestRows
<1>7. Promise!Answer(i, "DONE") /\ i \in 1..MaxRequests
  <2>1. answer[i] = "OPEN" /\ i \in 1..MaxRequests
      BY <1>2, RequestShows, Numbers DEF AnswerOf, Open
  <2>2. AnswerOf(requests'[i].status) = "DONE"
      BY <1>6 DEF AnswerOf, Open
  <2>3. answer' = [answer EXCEPT ![i] = "DONE"] /\ UNCHANGED order
      BY <1>5, <1>6, <2>2, OneAnswered
  <2> QED
      BY <2>1, <2>3 DEF Promise!Answer
<1>8. /\ order[i].action = r.action /\ order[i].authority = r.authority
      /\ order[i].number = r.expected
    BY RequestShows
<1>9. r.action \in Promise!Changes <=> r.action \in AuthorityActions
    BY DEF Promise!Changes, AuthorityActions
<1>10. CASE r.action \in AuthorityActions
  <2>1. /\ r.expected = Len(versions) /\ versions' = Append(versions, AfterAction(r))
        /\ versions[r.expected] = Latest
      BY <1>3, <1>10 DEF AppendVersion, Latest
  <2>2. Latest \in VersionRows /\ r.authority \in Authorities
      BY <1>2, Rows DEF IInv, RequestRows
  <2>3. AfterAction(r) =
           CASE r.action = "UPDATE_ROLES" -> [Latest EXCEPT !.authority = r.authority]
             [] r.action = "SUSPEND" -> [Latest EXCEPT !.state = "SUSPENDED"]
             [] r.action = "DEACTIVATE" -> [Latest EXCEPT !.state = "DEACTIVATED"]
             [] r.action = "REACTIVATE" -> [Latest EXCEPT !.state = "INVITED"]
      BY <2>1 DEF AfterAction
  <2>4. AfterAction(r) \in VersionRows
      BY <1>10, <2>2, <2>3 DEF VersionRows, States, AuthorityActions
  <2>5. Len(versions)' = Len(versions) + 1 /\ Latest' = AfterAction(r)
      BY <2>1, <2>4, VersionAppended
  <2>6. Promise!EndAll
      BY <1>3, <1>10, AllEnd DEF AuthorityActions
  <2>7. Promise!Change(i)
      BY <1>7, <1>8, <2>1, <2>3, <2>5, <2>6 DEF Promise!Change
  <2> QED
      BY <1>7, <1>8, <1>9, <1>10, <2>7 DEF Promise!Succeed
<1>11. CASE r.action \notin AuthorityActions
  <2>1. UNCHANGED <<Latest, Len(versions)>>
      BY <1>3, <1>11 DEF Latest
  <2>2. IF order[i].action = "RESEND_INVITATION" THEN UNCHANGED <<use, badge>> ELSE Promise!EndAll
      BY <1>3, <1>8, AllEnd DEF use, badge
  <2>3. Promise!Attend(i)
      BY <1>7, <2>1, <2>2 DEF Promise!Attend, Promise!visits
  <2> QED
      BY <1>7, <1>8, <1>9, <1>11, <2>3 DEF Promise!Succeed
<1> QED
    BY <1>10, <1>11

-----------------------------------------------------------------------------
(* Logins and sessions. *)

LEMMA ActivatePromise ==
    ASSUME IInv, NEW c \in Calls, ReconcileActivatedMembership(c)
    PROVE  Promise!Activate
<1>1. /\ Latest.state = "INVITED" /\ Latest \in VersionRows
      /\ versions' = Append(versions, [Latest EXCEPT !.state = "ACTIVE"])
      /\ UNCHANGED <<requests, sessions>>
    BY Rows DEF ReconcileActivatedMembership, Agrees, IInv
<1>2. [Latest EXCEPT !.state = "ACTIVE"] \in VersionRows
    BY <1>1 DEF VersionRows, States
<1>3. Len(versions)' = Len(versions) + 1 /\ Latest' = [Latest EXCEPT !.state = "ACTIVE"]
    BY <1>1, <1>2, VersionAppended
<1>4. \A s \in Sessions : use[s] # "LIVE"
    BY <1>1 DEF use, UseOf, IInv, LiveSessionsAreCurrent, Live
<1>5. UNCHANGED <<answer, order, use, badge>>
    BY <1>1 DEF answer, order, use, badge, Filed
<1> QED
    BY <1>1, <1>3, <1>4, <1>5 DEF Promise!Activate, Promise!filed, Promise!visits

LEMMA OpenPromise ==
    ASSUME IInv, NEW c \in Calls, NEW s \in Sessions, OpenSession(c, s)
    PROVE  Promise!Open(s)
<1>1. /\ calls[c].stage = "OPENING" /\ calls[c].revision = Len(versions)
      /\ sessions[s].state = "NONE"
      /\ UNCHANGED <<versions, requests>>
    BY DEF OpenSession, StillDesired, IInv, SyncIsLatest
<1>2. Latest = [state |-> "ACTIVE", authority |-> calls[c].authority]
    BY <1>1 DEF IInv, CallsFit, CallFits
<1>3. PICK a : a = calls[c].authority
    OBVIOUS
<1>4. /\ sessions'[s].state = "ACTIVE" /\ sessions'[s].authority = a
      /\ \A t \in Sessions : t # s => sessions'[t] = sessions[t]
    BY <1>3 DEF OpenSession, IInv, TypeOK
<1>5. UseOf(sessions[s].state) = "NEW" /\ UseOf(sessions'[s].state) = "LIVE"
    BY <1>1, <1>4 DEF UseOf
<1>6. use[s] = "NEW" /\ use' = [use EXCEPT ![s] = "LIVE"]
    BY <1>4, <1>5 DEF use
<1>7. badge' = [badge EXCEPT ![s] = a]
    BY <1>4 DEF badge
<1>8. UNCHANGED <<Latest, Len(versions), answer, order>>
    BY <1>1 DEF Latest, answer, order, Filed
<1> QED
    BY <1>2, <1>3, <1>6, <1>7, <1>8 DEF Promise!Open, Promise!filed

LEMMA EndPromise ==
    ASSUME IInv,
           \/ \E c \in Calls : RecordObservation(c)
           \/ \E s \in Sessions : PassDeadline(s) \/ AuthenticateDenies(s) \/ Revoke(s)
           \/ \E w \in Replicas : InvalidateRecoverySessions(w)
    PROVE  Promise!End
<1>1. sessions \in [Sessions -> SessionRows] /\ UNCHANGED <<versions, requests>>
    BY DEF IInv, TypeOK, SessionRows, RecordObservation, PassDeadline, AuthenticateDenies,
           Revoke, InvalidateRecoverySessions, store
<1> DEFINE Seen(s) ==
             /\ \/ UseOf(sessions'[s].state) = UseOf(sessions[s].state)
                \/ UseOf(sessions[s].state) = "LIVE" /\ UseOf(sessions'[s].state) = "ENDED"
             /\ sessions'[s].authority = sessions[s].authority
<1>2. ASSUME NEW s \in Sessions, NEW r \in SessionRows,
             sessions' = [sessions EXCEPT ![s] = r], r.authority = sessions[s].authority,
             \/ r.state = sessions[s].state
             \/ /\ sessions[s].state \in {"ACTIVE", "PENDING"}
                /\ r.state \in {"ACTIVE", "PENDING", "DENIED", "REVOKED"}
      PROVE  \A t \in Sessions : Seen(t)
  <2>1. sessions'[s] = r /\ \A t \in Sessions : t # s => sessions'[t] = sessions[t]
      BY <1>1, <1>2
  <2> QED
      BY <1>2, <2>1 DEF UseOf
<1>3. ASSUME NEW s \in Sessions, PassDeadline(s) PROVE \A t \in Sessions : Seen(t)
  <2>1. /\ [sessions[s] EXCEPT !.late = TRUE] \in SessionRows
        /\ sessions' = [sessions EXCEPT ![s] = [sessions[s] EXCEPT !.late = TRUE]]
      BY <1>1, <1>3 DEF PassDeadline, SessionRows
  <2> QED
      BY <1>1, <1>2, <2>1 DEF SessionRows
<1>4. ASSUME NEW s \in Sessions, sessions[s].state \in {"ACTIVE", "PENDING"},
             NEW state \in {"DENIED", "PENDING"},
             sessions' = [sessions EXCEPT ![s].state = state]
      PROVE  \A t \in Sessions : Seen(t)
  <2>1. /\ [sessions[s] EXCEPT !.state = state] \in SessionRows
        /\ sessions' = [sessions EXCEPT ![s] = [sessions[s] EXCEPT !.state = state]]
      BY <1>1, <1>4 DEF SessionRows
  <2> QED
      BY <1>1, <1>2, <1>4, <2>1 DEF SessionRows
<1>5. ASSUME NEW S \in SUBSET Live, sessions' = Revoked(S)
      PROVE  \A t \in Sessions : Seen(t)
  <2>1. \A t \in Sessions : /\ sessions'[t].authority = sessions[t].authority
                            /\ t \in S => sessions'[t].state = "REVOKED"
                            /\ t \notin S => sessions'[t] = sessions[t]
      BY <1>1, <1>5 DEF Revoked, SessionRows
  <2> QED
      BY <1>5, <2>1 DEF Live, UseOf
<1>6. ASSUME NEW c \in Calls, RecordObservation(c) PROVE \A t \in Sessions : Seen(t)
  <2>1. PICK s \in Sessions : s = calls[c].session /\ sessions[s].state = "ACTIVE"
      BY <1>6 DEF RecordObservation, IInv, CallsFit, CallFits
  <2>2. \/ sessions' = [sessions EXCEPT ![s].late = FALSE]
        \/ sessions' = [sessions EXCEPT ![s].state = "DENIED"]
        \/ sessions' = [sessions EXCEPT ![s].state = "PENDING"]
      BY <1>6, <2>1 DEF RecordObservation, Denied
  <2>3. CASE sessions' = [sessions EXCEPT ![s].late = FALSE]
    <3>1. /\ [sessions[s] EXCEPT !.late = FALSE] \in SessionRows
          /\ sessions' = [sessions EXCEPT ![s] = [sessions[s] EXCEPT !.late = FALSE]]
        BY <1>1, <2>3 DEF SessionRows
    <3> QED
        BY <1>1, <1>2, <3>1 DEF SessionRows
  <2> QED
      BY <1>4, <2>1, <2>2, <2>3
<1>7. ASSUME NEW s \in Sessions, AuthenticateDenies(s) PROVE \A t \in Sessions : Seen(t)
    BY <1>4, <1>7 DEF AuthenticateDenies, Denied
<1>8. \A t \in Sessions : Seen(t)
    BY <1>3, <1>5, <1>6, <1>7 DEF Revoke, InvalidateRecoverySessions
<1> QED
    BY <1>1, <1>8, SessionsEnd

-----------------------------------------------------------------------------
(* The refinement. *)

LEMMA InitPromise == Init => Promise!Init
<1> SUFFICES ASSUME Init PROVE Promise!Init
    OBVIOUS
<1>1. Latest = [state |-> "INVITED", authority |-> Initial] /\ Len(versions) = 1
    BY DEF Init, Latest
<1>2. \A i \in 1..MaxRequests : ~Filed(i)
  <2>1. Len(requests) = 0
      BY EmptySeq DEF Init
  <2> QED
      BY <2>1, BoundsAssumption DEF Filed
<1>3. /\ answer = [i \in 1..MaxRequests |-> "ABSENT"]
      /\ order = [i \in 1..MaxRequests |-> Promise!Unasked]
    BY <1>2 DEF answer, order, Promise!Unasked
<1>4. /\ use = [s \in Sessions |-> "NEW"]
      /\ badge = [s \in Sessions |-> None]
  <2>1. \A s \in Sessions : sessions[s].state = "NONE" /\ sessions[s].authority = None
      BY DEF Init
  <2> QED
      BY <2>1 DEF use, badge, UseOf
<1> QED
    BY <1>1, <1>3, <1>4 DEF Promise!Init

LEMMA WorkerPromise ==
    ASSUME IInv, NEW w \in Replicas, WorkerStep(w)
    PROVE  [Promise!Next]_Promise!vars
<1>1. ASSUME NEW i \in 1..MaxRequests, Claim(w, i) PROVE UNCHANGED Promise!vars
    BY <1>1, ClaimPromise
<1>2. ASSUME Validate(w) \/ BeginProviderAction(w) \/ ApplyProviderAction(w)
             \/ FinalizeIsRefused(w)
      PROVE  UNCHANGED Promise!vars
    BY <1>2, QuietPromise
    DEF Validate, BeginProviderAction, ApplyProviderAction, FinalizeIsRefused, store
<1>3. ASSUME InvalidateRecoverySessions(w) PROVE Promise!Next
    BY <1>3, EndPromise DEF Promise!Next
<1>4. ASSUME NEW late \in BOOLEAN, RecordFailure(w, late) PROVE [Promise!Next]_Promise!vars
    BY <1>4, RecordFailurePromise DEF Promise!Next
<1>5. ASSUME FinalizeSuccess(w) PROVE Promise!Next
    BY <1>5, FinalizeSuccessPromise DEF Promise!Next
<1> QED
    BY <1>1, <1>2, <1>3, <1>4, <1>5 DEF WorkerStep

LEMMA NextPromise == IInv /\ [Next]_vars => [Promise!Next]_Promise!vars
<1> SUFFICES ASSUME IInv, [Next]_vars PROVE [Promise!Next]_Promise!vars
    OBVIOUS
<1>1. ASSUME NEW action \in Actions, NEW a \in Authorities, RequestLifecycle(action, a)
      PROVE  Promise!Next
    BY <1>1, FilePromise DEF Promise!Next
<1>2. ASSUME NEW w \in Replicas, WorkerStep(w) PROVE [Promise!Next]_Promise!vars
    BY <1>2, WorkerPromise
<1>3. ASSUME NEW w \in Replicas,
             \/ \E class \in Classes, applied, mailed \in BOOLEAN :
                   ProviderActionFails(w, class, applied, mailed)
             \/ Crash(w)
             \/ \E c \in Calls : Deadlock(w, c)
      PROVE  UNCHANGED Promise!vars
    BY <1>3, QuietPromise DEF ProviderActionFails, Crash, Deadlock, store
<1>4. ASSUME NEW c \in Calls,
             \/ BeginLogin(c) \/ ReadAuthority(c) \/ EndCall(c)
             \/ \E s \in Sessions : AuthenticateObserves(c, s)
      PROVE  UNCHANGED Promise!vars
    BY <1>4, QuietPromise DEF BeginLogin, ReadAuthority, EndCall, AuthenticateObserves, store
<1>5. ASSUME NEW c \in Calls,
             \/ ReconcileActivatedMembership(c)
             \/ \E s \in Sessions : OpenSession(c, s)
             \/ RecordObservation(c)
      PROVE  Promise!Next
    BY <1>5, ActivatePromise, OpenPromise, EndPromise DEF Promise!Next
<1>6. ASSUME NEW s \in Sessions, PassDeadline(s) \/ AuthenticateDenies(s) \/ Revoke(s)
      PROVE  Promise!Next
    BY <1>6, EndPromise DEF Promise!Next
<1>7. ASSUME NEW i \in 0..MaxRequests, ExpireInvitation(i) PROVE UNCHANGED Promise!vars
    BY <1>7, QuietPromise DEF ExpireInvitation, store
<1>8. CASE UNCHANGED vars
    BY <1>8, QuietPromise DEF vars, store
<1> QED
    BY <1>1, <1>2, <1>3, <1>4, <1>5, <1>6, <1>7, <1>8 DEF Next

(* Claims, comparisons without a lock, half-done changes of the provider and
   observations in progress implement the promise: a request is answered once,
   and what succeeds changes the revision it was filed for together with the end
   of every session (user_lifecycle_worker.go Finalize, session/manager.go). *)
THEOREM LifecycleKeepsPromise == Spec => KeepsPromise
<1> QED
    BY InitPromise, NextPromise, Invariance, PTL DEF Spec, KeepsPromise, Promise!Spec
=============================================================================
