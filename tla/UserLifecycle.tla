----------------------------- MODULE UserLifecycle -----------------------------
(***************************************************************************)
(* One membership of one person: the desired versions an administrator     *)
(* asks for, the worker that carries each request to the identity provider *)
(* and records what came of it, and the browser sessions that live on the  *)
(* version they were opened under.                                         *)
(*                                                                         *)
(* Three kinds of processes write the same rows.  Administrators file      *)
(* requests.  Replicas of the worker claim a request, compare its revision *)
(* without a lock, change the provider and finalize in one transaction.    *)
(* Calls of the browser log in (which may activate an invited membership)  *)
(* or authenticate a session, with an observation of the provider between  *)
(* what they read and what they write.                                     *)
(*                                                                         *)
(* The module begins after a successful PROVISION: revision 1 is INVITED   *)
(* and its invitation (number 0) was accepted by the provider.  An         *)
(* authority stands for the organization and role of a membership, so      *)
(* UPDATE_ROLES stands for TRANSFER_ORGANIZATION too; LOGOUT is            *)
(* FORCE_LOGOUT, RECOVER is RESET_PASSWORD and RESET_MFA.                  *)
(***************************************************************************)
EXTENDS Integers, Sequences, FiniteSets

CONSTANTS
    Replicas,     \* processes of the worker, which share one worker id
    Calls,        \* requests of browsers served at the same time
    Sessions,     \* sessions that may be opened
    Authorities,  \* organization and role of a membership
    Initial,      \* the authority the membership was provisioned with
    None,         \* no request, no session, no application authority
    MaxRequests,  \* bound: lifecycle requests filed
    MaxAttempts,  \* claims after which a failure is not retried
    MaxFaults     \* bound: crashes and failed calls of the provider

ASSUME BoundsAssumption ==
    /\ MaxRequests \in Nat /\ MaxAttempts \in Nat \ {0} /\ MaxFaults \in Nat
    /\ Initial \in Authorities
    /\ None \notin Authorities \cup Sessions

VARIABLES
    versions,     \* desired_membership_versions: the revision is the index
    sync,         \* desired_membership_sync: what was last observed
    deactivated,  \* identity_references.deactivated_at is set
    requests,     \* user_lifecycle_requests with their outbox messages
    invitations,  \* the last fact of each request's invitation
    newest,       \* the request whose invitation fact sorts last
    account,      \* the user at the identity provider
    jobs,         \* what each replica has in hand
    calls,        \* what each call of a browser has in hand
    sessions,     \* session_references
    faults,       \* faults so far
    touched       \* history: requests that changed the provider, or may have

store == <<versions, sync, deactivated>>
facts == <<invitations, newest>>
vars == <<store, requests, facts, account, jobs, calls, sessions, faults, touched>>

States == {"INVITED", "ACTIVE", "SUSPENDED", "DEACTIVATED"}
AuthorityActions == {"UPDATE_ROLES", "SUSPEND", "DEACTIVATE", "REACTIVATE"}
Actions == AuthorityActions \cup {"RESEND_INVITATION", "RECOVER", "LOGOUT"}
Open == {"PENDING", "RUNNING", "FAILED_RETRYABLE"}
Settled == {"SUCCEEDED", "FAILED_PERMANENT", "MANUAL_REVIEW"}
Classes == {"RETRYABLE", "PERMANENT", "MANUAL_REVIEW"}

Latest == versions[Len(versions)]
NoJob == [request |-> 0, step |-> "IDLE", class |-> None, mailed |-> FALSE]
NoCall == [stage |-> "IDLE", session |-> None, authority |-> None,
           revision |-> 0, seen |-> None]
Job(w) == requests[jobs[w].request]

Init ==
    /\ versions = <<[state |-> "INVITED", authority |-> Initial]>>
    /\ sync = [revision |-> 1, enabled |-> TRUE, authority |-> Initial, drift |-> "IN_SYNC"]
    /\ account = [enabled |-> TRUE, authority |-> Initial]
    /\ deactivated = FALSE
    /\ requests = << >>
    /\ invitations = [i \in 0..MaxRequests |-> IF i = 0 THEN "ACCEPTED" ELSE "NONE"]
    /\ newest = 0
    /\ jobs = [w \in Replicas |-> NoJob]
    /\ calls = [c \in Calls |-> NoCall]
    /\ sessions = [s \in Sessions |->
                     [state |-> "NONE", revision |-> 0, authority |-> None, late |-> FALSE]]
    /\ faults = 0
    /\ touched = {}

-----------------------------------------------------------------------------
(* The administrator.                                                      *)

MayRequest(action) ==
    CASE action = "RESEND_INVITATION" -> Latest.state = "INVITED"
      [] action = "REACTIVATE" -> Latest.state \in {"SUSPENDED", "DEACTIVATED"}
      [] action = "DEACTIVATE" -> Latest.state # "DEACTIVATED"
      [] OTHER -> TRUE

\* One request may be open for a revision of the membership.
Conflicts == {i \in DOMAIN requests : /\ requests[i].expected = Len(versions)
                                      /\ requests[i].status \in Open}

RequestLifecycle(action, a) ==
    /\ Len(requests) < MaxRequests
    /\ Conflicts = {}
    /\ MayRequest(action)
    /\ action # "UPDATE_ROLES" => a = Latest.authority
    /\ requests' = Append(requests, [action |-> action, authority |-> a, attempts |-> 0,
                                     expected |-> Len(versions), status |-> "PENDING"])
    /\ UNCHANGED <<store, facts, account, jobs, calls, sessions, faults, touched>>

-----------------------------------------------------------------------------
(* The worker, up to its transaction.                                      *)

\* Mutant: what failed once is never claimed again.
ClaimableFresh(i) == requests[i].status = "PENDING"

\* Mutant: a request that is RUNNING is claimed again.
ClaimableRunning(i) == requests[i].status \in {"PENDING", "RUNNING", "FAILED_RETRYABLE"}

Claimable(i) == requests[i].status \in {"PENDING", "FAILED_RETRYABLE"}

Claim(w, i) ==
    /\ jobs[w] = NoJob
    /\ i \in DOMAIN requests
    /\ Claimable(i)
    /\ requests' = [requests EXCEPT ![i].status = "RUNNING", ![i].attempts = @ + 1]
    /\ jobs' = [jobs EXCEPT ![w] = [NoJob EXCEPT !.request = i, !.step = "CLAIMED"]]
    /\ UNCHANGED <<store, facts, account, calls, sessions, faults, touched>>

\* The revision is compared outside a transaction: it may change before Finalize.
Validate(w) ==
    /\ jobs[w].step = "CLAIMED"
    /\ jobs' = [jobs EXCEPT ![w] =
         IF Job(w).expected # Len(versions)
         THEN [@ EXCEPT !.step = "FAILED", !.class = "PERMANENT"]
         ELSE [@ EXCEPT !.step = IF Job(w).action = "RECOVER" THEN "INVALIDATE"
                                                              ELSE "VALIDATED"]]
    /\ UNCHANGED <<store, requests, facts, account, calls, sessions, faults, touched>>

\* Authenticate holds the row of its session from its first statement on.
Locked(s) == \E c \in Calls : calls[c].stage = "CHECK" /\ calls[c].session = s
Live == {s \in Sessions : sessions[s].state \in {"ACTIVE", "PENDING"}}
Revoked(S) == [s \in Sessions |-> IF s \in S THEN [sessions[s] EXCEPT !.state = "REVOKED"]
                                             ELSE sessions[s]]

InvalidateRecoverySessions(w) ==
    /\ jobs[w].step = "INVALIDATE"
    /\ \A s \in Live : ~Locked(s)
    /\ sessions' = Revoked(Live)
    /\ jobs' = [jobs EXCEPT ![w].step = "VALIDATED"]
    /\ UNCHANGED <<store, requests, facts, account, calls, faults, touched>>

\* The provider's roles are removed before the new ones are mapped.
Effects(r) ==
    CASE r.action = "UPDATE_ROLES" -> <<[account EXCEPT !.authority = None],
                                        [account EXCEPT !.authority = r.authority]>>
      [] r.action \in {"SUSPEND", "DEACTIVATE"} -> <<[account EXCEPT !.enabled = FALSE]>>
      [] r.action = "REACTIVATE" -> <<[account EXCEPT !.enabled = TRUE]>>
      [] OTHER -> << >>

Touch(w) == touched' = IF Job(w).action \in AuthorityActions
                       THEN touched \cup {jobs[w].request} ELSE touched

\* A role change is seen half done between its two calls.
BeginProviderAction(w) ==
    /\ jobs[w].step = "VALIDATED"
    /\ Job(w).action = "UPDATE_ROLES"
    /\ account' = Effects(Job(w))[1]
    /\ jobs' = [jobs EXCEPT ![w].step = "CLEARED"]
    /\ Touch(w)
    /\ UNCHANGED <<store, requests, facts, calls, sessions, faults>>

ApplyProviderAction(w) ==
    /\ \/ jobs[w].step = "CLEARED"
       \/ jobs[w].step = "VALIDATED" /\ Job(w).action # "UPDATE_ROLES"
    /\ LET e == Effects(Job(w)) IN account' = IF e = << >> THEN account ELSE e[Len(e)]
    /\ jobs' = [jobs EXCEPT ![w].step = "APPLIED"]
    /\ Touch(w)
    /\ UNCHANGED <<store, requests, facts, calls, sessions, faults>>

\* A call of the provider fails, before it took effect, or after it: the answer
\* was lost, or a later call (logout, e-mail) failed.  A failed e-mail is a fact
\* of the invitation.
ProviderActionFails(w, class, applied, mailed) ==
    /\ jobs[w].step \in {"VALIDATED", "CLEARED"}
    /\ faults < MaxFaults
    /\ LET e == Effects(Job(w)) IN
         /\ applied => e # << >>
         /\ Job(w).action = "UPDATE_ROLES" /\ jobs[w].step = "VALIDATED" => ~applied
         /\ account' = IF applied THEN e[Len(e)] ELSE account
    /\ mailed => \/ Job(w).action = "RESEND_INVITATION"
                 \/ Job(w).action = "REACTIVATE" /\ applied
    /\ jobs' = [jobs EXCEPT ![w].step = "FAILED", ![w].class = class, ![w].mailed = mailed]
    /\ Touch(w)
    /\ faults' = faults + 1
    /\ UNCHANGED <<store, requests, facts, calls, sessions>>

-----------------------------------------------------------------------------
(* The worker's two transactions.                                          *)

\* Mutant: the failure is recorded with the status of an earlier schema.
FailedStatusLegacy(r, class, late) ==
    IF class = "RETRYABLE" /\ r.attempts < MaxAttempts /\ ~late THEN "FAILED"
    ELSE IF class = "PERMANENT" THEN "FAILED_PERMANENT" ELSE "MANUAL_REVIEW"

\* The budget of attempts, or of time, may be spent.
FailedStatus(r, class, late) ==
    IF class = "RETRYABLE" /\ r.attempts < MaxAttempts /\ ~late THEN "FAILED_RETRYABLE"
    ELSE IF class = "PERMANENT" THEN "FAILED_PERMANENT" ELSE "MANUAL_REVIEW"

RecordFailure(w, late) ==
    /\ jobs[w].step = "FAILED"
    /\ LET i == jobs[w].request IN
         /\ requests' = [requests EXCEPT ![i].status =
                           FailedStatus(requests[i], jobs[w].class, late)]
         /\ IF jobs[w].mailed
            THEN invitations' = [invitations EXCEPT ![i] = "FAILED"] /\ newest' = i
            ELSE UNCHANGED facts
    /\ jobs' = [jobs EXCEPT ![w] = NoJob]
    /\ UNCHANGED <<store, account, calls, sessions, faults, touched>>

AfterAction(r) ==
    LET v == versions[r.expected] IN
    CASE r.action = "UPDATE_ROLES" -> [v EXCEPT !.authority = r.authority]
      [] r.action = "SUSPEND" -> [v EXCEPT !.state = "SUSPENDED"]
      [] r.action = "DEACTIVATE" -> [v EXCEPT !.state = "DEACTIVATED"]
      [] r.action = "REACTIVATE" -> [v EXCEPT !.state = "INVITED"]

Enabled(v) == v.state \notin {"SUSPENDED", "DEACTIVATED"}

\* Mutant: the new version takes the next free revision.
AppendVersionNext(r) ==
    /\ versions' = Append(versions, AfterAction(r))
    /\ sync' = [revision |-> Len(versions) + 1, enabled |-> Enabled(AfterAction(r)),
                authority |-> AfterAction(r).authority, drift |-> "IN_SYNC"]

\* The unique key (subject_id, revision) refuses a version of a revision taken.
AppendVersion(r) ==
    /\ r.expected = Len(versions)
    /\ versions' = Append(versions, AfterAction(r))
    /\ sync' = [revision |-> Len(versions) + 1, enabled |-> Enabled(AfterAction(r)),
                authority |-> AfterAction(r).authority, drift |-> "IN_SYNC"]

Accepted == {i \in DOMAIN invitations : invitations[i] = "ACCEPTED"}

\* The cancellation of an older invitation and the two facts of the new one carry
\* the same time to the microsecond; the longer history sorts last, which is the
\* cancelled one but for retries and the rare tick between them.
AppendIdentityActionFacts(i, action) ==
    CASE action = "RESEND_INVITATION" ->
           \E old \in IF Accepted = {} THEN {{}}
                      ELSE {{j} : j \in {k \in Accepted : newest \in Accepted => k = newest}} :
             /\ invitations' = [j \in DOMAIN invitations |->
                   IF j = i THEN "ACCEPTED" ELSE IF j \in old THEN "CANCELLED"
                   ELSE invitations[j]]
             /\ newest' \in {i} \cup old
      [] action = "REACTIVATE" ->
           /\ invitations' = [invitations EXCEPT ![i] = "ACCEPTED"]
           /\ newest' = i
      [] action \in {"SUSPEND", "DEACTIVATE"} ->
           /\ invitations' = [j \in DOMAIN invitations |->
                 IF j \in Accepted THEN "CANCELLED" ELSE invitations[j]]
           /\ newest' \in IF Accepted = {} THEN {newest} ELSE Accepted
      [] OTHER -> UNCHANGED facts

FinalizeSuccess(w) ==
    /\ jobs[w].step = "APPLIED"
    /\ LET i == jobs[w].request
           r == requests[i]
       IN /\ IF r.action \in AuthorityActions THEN AppendVersion(r)
                                              ELSE UNCHANGED <<versions, sync>>
          /\ deactivated' = (deactivated \/ r.action = "DEACTIVATE")
          /\ IF r.action = "RESEND_INVITATION"
             THEN UNCHANGED sessions
             ELSE /\ \A s \in Live : ~Locked(s)
                  /\ sessions' = Revoked(Live)
          /\ AppendIdentityActionFacts(i, r.action)
          /\ requests' = [requests EXCEPT ![i].status = "SUCCEEDED"]
    /\ jobs' = [jobs EXCEPT ![w] = NoJob]
    /\ UNCHANGED <<account, calls, faults, touched>>

\* The revision was taken after Validate: the transaction fails, nothing records
\* the failure, and the request stays RUNNING, which no claim selects.
FinalizeIsRefused(w) ==
    /\ jobs[w].step = "APPLIED"
    /\ Job(w).action \in AuthorityActions
    /\ Job(w).expected # Len(versions)
    /\ jobs' = [jobs EXCEPT ![w] = NoJob]
    /\ UNCHANGED <<store, requests, facts, account, calls, sessions, faults, touched>>

\* Finalize takes the sync row and then the sessions, Authenticate its session and
\* then the sync row; a deactivation takes the identity last, a login first.  The
\* database aborts one of the two.
Deadlock(w, c) ==
    /\ jobs[w].step = "APPLIED"
    /\ Job(w).action \in AuthorityActions
    /\ Job(w).expected = Len(versions)
    /\ \/ calls[c].stage = "CHECK"
       \/ calls[c].stage = "OPENING" /\ Job(w).action = "DEACTIVATE"
    /\ \/ jobs' = [jobs EXCEPT ![w] = NoJob] /\ UNCHANGED calls
       \/ calls' = [calls EXCEPT ![c] = NoCall] /\ UNCHANGED jobs
    /\ UNCHANGED <<store, requests, facts, account, sessions, faults, touched>>

\* The process ends with its request RUNNING.
Crash(w) ==
    /\ jobs[w] # NoJob
    /\ faults < MaxFaults
    /\ jobs' = [jobs EXCEPT ![w] = NoJob]
    /\ faults' = faults + 1
    /\ UNCHANGED <<store, requests, facts, account, calls, sessions, touched>>

\* An invitation lapses, found by the worker or by the login that came too late.
ExpireInvitation(i) ==
    /\ i \in Accepted
    /\ invitations' = [invitations EXCEPT ![i] = "EXPIRED"]
    /\ newest' = i
    /\ UNCHANGED <<store, requests, account, jobs, calls, sessions, faults, touched>>

-----------------------------------------------------------------------------
(* A login.                                                                *)

\* What login and every request ask of the membership and its last observation.
Agrees(state, a) ==
    /\ Latest = [state |-> state, authority |-> a]
    /\ sync = [revision |-> Len(versions), enabled |-> TRUE, authority |-> a,
               drift |-> "IN_SYNC"]

\* The provider is observed before anything is read.
BeginLogin(c) ==
    /\ calls[c] = NoCall
    /\ account.enabled /\ account.authority # None
    /\ calls' = [calls EXCEPT ![c].stage = "LOGIN", ![c].authority = account.authority]
    /\ UNCHANGED <<store, requests, facts, account, jobs, sessions, faults, touched>>

\* First login of an invited membership: a transaction of its own.
ReconcileActivatedMembership(c) ==
    /\ calls[c].stage = "LOGIN"
    /\ Agrees("INVITED", calls[c].authority)
    /\ invitations[newest] = "ACCEPTED"
    /\ versions' = Append(versions, [Latest EXCEPT !.state = "ACTIVE"])
    /\ sync' = [sync EXCEPT !.revision = Len(versions) + 1]
    /\ invitations' = [invitations EXCEPT ![newest] = "CONSUMED"]
    /\ UNCHANGED <<deactivated, requests, newest, account, jobs, calls, sessions,
                   faults, touched>>

ReadAuthority(c) ==
    /\ calls[c].stage = "LOGIN"
    /\ Agrees("ACTIVE", calls[c].authority)
    /\ calls' = [calls EXCEPT ![c].stage = "OPENING", ![c].revision = Len(versions)]
    /\ UNCHANGED <<store, requests, facts, account, jobs, sessions, faults, touched>>

\* Mutant: the observation is stored whatever the revision.
StillDesiredAny(c) == TRUE

\* The update of the sync row finds the revision that was read.
StillDesired(c) == sync.revision = calls[c].revision

\* The row of a deactivated identity is not found.
IdentityIsOpen == ~deactivated

OpenSession(c, s) ==
    /\ calls[c].stage = "OPENING"
    /\ IdentityIsOpen
    /\ StillDesired(c)
    /\ sessions[s].state = "NONE"
    /\ sync' = [sync EXCEPT !.enabled = TRUE, !.authority = calls[c].authority,
                            !.drift = "IN_SYNC"]
    /\ sessions' = [sessions EXCEPT ![s] =
          [state |-> "ACTIVE", revision |-> calls[c].revision,
           authority |-> calls[c].authority, late |-> FALSE]]
    /\ calls' = [calls EXCEPT ![c] = NoCall]
    /\ UNCHANGED <<versions, deactivated, requests, facts, account, jobs, faults, touched>>

\* A call is refused, or its client goes away: its transaction is undone.
EndCall(c) ==
    /\ calls[c] # NoCall
    /\ calls' = [calls EXCEPT ![c] = NoCall]
    /\ UNCHANGED <<store, requests, facts, account, jobs, sessions, faults, touched>>

-----------------------------------------------------------------------------
(* A session.                                                              *)

\* The last good observation is older than the denial deadline.
PassDeadline(s) ==
    /\ s \in Live
    /\ ~sessions[s].late
    /\ sessions' = [sessions EXCEPT ![s].late = TRUE]
    /\ UNCHANGED <<store, requests, facts, account, jobs, calls, faults, touched>>

BoundToLatest(s) ==
    /\ sessions[s].revision = Len(versions)
    /\ Agrees("ACTIVE", sessions[s].authority)

Denied(s) == [sessions EXCEPT ![s].state = "DENIED"]

\* The stored rows alone refuse the session, for ever.
AuthenticateDenies(s) ==
    /\ ~Locked(s)
    /\ \/ sessions[s].state = "ACTIVE" /\ ~BoundToLatest(s)
       \/ sessions[s].state = "PENDING" /\ sessions[s].late
    /\ sessions' = Denied(s)
    /\ UNCHANGED <<store, requests, facts, account, jobs, calls, faults, touched>>

\* A request past the heartbeat, or on a route that wants a fresh observation,
\* observes the provider with the session locked.
AuthenticateObserves(c, s) ==
    /\ calls[c] = NoCall
    /\ ~Locked(s)
    /\ sessions[s].state = "ACTIVE"
    /\ BoundToLatest(s)
    /\ \/ calls' = [calls EXCEPT ![c] = [NoCall EXCEPT !.stage = "CHECK",
                      !.session = s, !.seen = account]] /\ UNCHANGED faults
       \/ /\ faults < MaxFaults
          /\ faults' = faults + 1
          /\ calls' = [calls EXCEPT ![c] = [NoCall EXCEPT !.stage = "CHECK",
                         !.session = s]]
    /\ UNCHANGED <<store, requests, facts, account, jobs, sessions, touched>>

RecordObservation(c) ==
    LET s == calls[c].session
        o == calls[c].seen
    IN /\ calls[c].stage = "CHECK"
       /\ \/ /\ o # None
             /\ o = [enabled |-> TRUE, authority |-> sessions[s].authority]
             /\ sync' = [sync EXCEPT !.enabled = TRUE, !.authority = o.authority,
                                     !.drift = "IN_SYNC"]
             /\ sessions' = [sessions EXCEPT ![s].late = FALSE]
          \/ /\ o # None
             /\ o # [enabled |-> TRUE, authority |-> sessions[s].authority]
             /\ sync' = [sync EXCEPT !.enabled = o.enabled, !.authority = o.authority,
                                     !.drift = "DRIFTED"]
             /\ sessions' = Denied(s)
          \/ /\ o = None
             /\ sessions[s].late
             /\ sessions' = Denied(s)
             /\ UNCHANGED sync
          \/ /\ o = None
             /\ ~sessions[s].late
             /\ sync' = [sync EXCEPT !.drift = "PROVIDER_UNAVAILABLE"]
             /\ sessions' = [sessions EXCEPT ![s].state = "PENDING"]
       /\ calls' = [calls EXCEPT ![c] = NoCall]
       /\ UNCHANGED <<versions, deactivated, requests, facts, account, jobs, faults, touched>>

Revoke(s) ==
    /\ s \in Live
    /\ ~Locked(s)
    /\ sessions' = Revoked({s})
    /\ UNCHANGED <<store, requests, facts, account, jobs, calls, faults, touched>>

-----------------------------------------------------------------------------
WorkerStep(w) ==
    \/ \E i \in 1..MaxRequests : Claim(w, i)
    \/ Validate(w)
    \/ InvalidateRecoverySessions(w)
    \/ BeginProviderAction(w)
    \/ ApplyProviderAction(w)
    \/ \E late \in BOOLEAN : RecordFailure(w, late)
    \/ FinalizeSuccess(w)
    \/ FinalizeIsRefused(w)

Next ==
    \/ \E action \in Actions, a \in Authorities : RequestLifecycle(action, a)
    \/ \E w \in Replicas :
        \/ WorkerStep(w)
        \/ \E class \in Classes, applied, mailed \in BOOLEAN :
             ProviderActionFails(w, class, applied, mailed)
        \/ Crash(w)
        \/ \E c \in Calls : Deadlock(w, c)
    \/ \E i \in 0..MaxRequests : ExpireInvitation(i)
    \/ \E c \in Calls :
        \/ BeginLogin(c) \/ ReconcileActivatedMembership(c) \/ ReadAuthority(c)
        \/ EndCall(c) \/ RecordObservation(c)
        \/ \E s \in Sessions : OpenSession(c, s) \/ AuthenticateObserves(c, s)
    \/ \E s \in Sessions : PassDeadline(s) \/ AuthenticateDenies(s) \/ Revoke(s)

Spec == Init /\ [][Next]_vars

(***************************************************************************)
(* Every replica polls, and the database grants a row lock in the order it *)
(* was asked for: a step that waits for sessions in use is enabled again   *)
(* and again and is taken.  Calls end.  Nothing makes anyone file a        *)
(* request, log in or succeed at the provider.                             *)
(***************************************************************************)
FairSpec ==
    /\ Spec
    /\ \A w \in Replicas : SF_vars(WorkerStep(w))
    /\ \A c \in Calls : WF_vars(EndCall(c) \/ RecordObservation(c))

-----------------------------------------------------------------------------
(* Every variable has its type.                                            *)
TypeOK ==
    /\ versions \in Seq([state : States, authority : Authorities])
    /\ versions # << >>
    /\ sync \in [revision : DOMAIN versions, enabled : BOOLEAN,
                 authority : Authorities \cup {None},
                 drift : {"IN_SYNC", "DRIFTED", "PROVIDER_UNAVAILABLE"}]
    /\ deactivated \in BOOLEAN
    /\ requests \in Seq([action : Actions, authority : Authorities,
                         attempts : 0..MaxAttempts, expected : DOMAIN versions,
                         status : Open \cup Settled])
    /\ Len(requests) \in 0..MaxRequests
    /\ invitations \in [0..MaxRequests -> {"NONE", "ACCEPTED", "FAILED", "CANCELLED",
                                           "EXPIRED", "CONSUMED"}]
    /\ newest \in 0..Len(requests)
    /\ account \in [enabled : BOOLEAN, authority : Authorities \cup {None}]
    /\ jobs \in [Replicas -> [request : 0..Len(requests), class : Classes \cup {None},
                              step : {"IDLE", "CLAIMED", "INVALIDATE", "VALIDATED",
                                      "CLEARED", "APPLIED", "FAILED"}, mailed : BOOLEAN]]
    /\ calls \in [Calls -> [stage : {"IDLE", "LOGIN", "OPENING", "CHECK"},
                            session : Sessions \cup {None},
                            authority : Authorities \cup {None},
                            revision : 0..Len(versions),
                            seen : {None} \cup [enabled : BOOLEAN,
                                                authority : Authorities \cup {None}]]]
    /\ sessions \in [Sessions -> [state : {"NONE", "ACTIVE", "PENDING", "DENIED", "REVOKED"},
                                  revision : 0..Len(versions),
                                  authority : Authorities \cup {None}, late : BOOLEAN]]
    /\ faults \in 0..MaxFaults
    /\ touched \subseteq DOMAIN requests

(***************************************************************************)
(* A session that was not refused is bound to the latest version of the    *)
(* membership, which is ACTIVE with the session's authority: no login that *)
(* read an older version, and no request served while a version is being   *)
(* replaced, leaves a session of the old authority behind.                 *)
(***************************************************************************)
LiveSessionsAreCurrent ==
    \A s \in Live : /\ sessions[s].revision = Len(versions)
                    /\ Latest = [state |-> "ACTIVE", authority |-> sessions[s].authority]

(***************************************************************************)
(* When every request that reached the provider has succeeded, the account *)
(* there is the one the latest version asks for: requests that succeed do  *)
(* so one after the other, however many replicas carry them and whatever   *)
(* logins activate in between.                                             *)
(***************************************************************************)
ProviderAgrees ==
    (\A i \in touched : requests[i].status = "SUCCEEDED")
        => account = [enabled |-> Enabled(Latest), authority |-> Latest.authority]

(***************************************************************************)
(* Every request is settled, or was abandoned RUNNING: its worker died,    *)
(* lost a deadlock, or found its revision taken after it had changed the   *)
(* provider.                                                               *)
(***************************************************************************)
Abandoned(i) ==
    /\ requests[i].status = "RUNNING"
    /\ \A w \in Replicas : jobs[w].request # i

RequestsSettle ==
    []<>(\A i \in DOMAIN requests : requests[i].status \in Settled \/ Abandoned(i))

(***************************************************************************)
(* A membership that is ACTIVE, observed in sync, with an account that     *)
(* agrees may open a session: the returning subject logs in again.         *)
(***************************************************************************)
ActiveMayLogIn ==
    Agrees("ACTIVE", account.authority) /\ account.enabled => IdentityIsOpen

-----------------------------------------------------------------------------
(* The membership as it is promised. *)

AnswerOf(status) ==
    CASE status \in Open -> "OPEN" [] status = "SUCCEEDED" -> "DONE" [] OTHER -> "FAILED"

UseOf(state) ==
    CASE state = "NONE" -> "NEW" [] state \in {"ACTIVE", "PENDING"} -> "LIVE" [] OTHER -> "ENDED"

Filed(i) == i <= Len(requests)

answer == [i \in 1..MaxRequests |-> IF Filed(i) THEN AnswerOf(requests[i].status) ELSE "ABSENT"]
order == [i \in 1..MaxRequests |->
    IF Filed(i) THEN [action |-> requests[i].action, authority |-> requests[i].authority,
                      number |-> requests[i].expected]
    ELSE [action |-> "NONE", authority |-> None, number |-> 0]]
use == [s \in Sessions |-> UseOf(sessions[s].state)]
badge == [s \in Sessions |-> sessions[s].authority]

Promise == INSTANCE MembershipPromise
           WITH Requests <- 1..MaxRequests, member <- Latest, number <- Len(versions)

(***************************************************************************)
(* However replicas, calls, crashes and lost answers interleave, requests  *)
(* and logins look like single steps: a request is answered once and, if   *)
(* it succeeds, changes the revision it was filed for and ends all         *)
(* sessions at once; a session opens on an active membership with the      *)
(* authority of that moment and is live for no longer than it stands.      *)
(***************************************************************************)
KeepsPromise == Promise!Spec

=============================================================================
