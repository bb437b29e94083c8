------------------------- MODULE UserLifecycleProofs --------------------------
(* Theorems about UserLifecycle, for every set of replicas, calls, sessions  *)
(* and authorities and every number of requests, attempts and faults.        *)
EXTENDS UserLifecycle, SequenceTheorems, TLAPS

(***************************************************************************)
(* The inductive invariant.  First what the processes hold: a replica its  *)
(* own RUNNING request, a call its own ACTIVE session.                     *)
(***************************************************************************)
JobFits(w) ==
    /\ jobs[w].step = "IDLE" => jobs[w] = NoJob
    /\ jobs[w].step # "IDLE" =>
          /\ jobs[w].request \in DOMAIN requests
          /\ Job(w).status = "RUNNING"
    /\ jobs[w].step = "CLEARED" => Job(w).action = "UPDATE_ROLES"

JobsFit ==
    /\ \A w \in Replicas : JobFits(w)
    /\ \A v, w \in Replicas :
          v # w /\ jobs[v].step # "IDLE" => jobs[v].request # jobs[w].request

AttemptsRemain ==
    \A i \in DOMAIN requests :
        requests[i].status \in {"PENDING", "FAILED_RETRYABLE"} => requests[i].attempts < MaxAttempts

InvitationsFit == \A i \in DOMAIN invitations : invitations[i] # "NONE" => i <= Len(requests)

SyncIsLatest == sync.revision = Len(versions)

CallFits(c) ==
    /\ calls[c].stage = "CHECK" =>
          calls[c].session \in Sessions /\ sessions[calls[c].session].state = "ACTIVE"
    /\ calls[c].stage = "OPENING" /\ calls[c].revision = Len(versions) =>
          Latest = [state |-> "ACTIVE", authority |-> calls[c].authority]

CallsFit ==
    /\ \A c \in Calls : CallFits(c)
    /\ \A b, c \in Calls :
          b # c /\ calls[b].stage = "CHECK" /\ calls[c].stage = "CHECK"
              => calls[b].session # calls[c].session

(***************************************************************************)
(* Then the account.  A request that touched it and has not succeeded      *)
(* excuses it; when only one such request is left, and its revision is     *)
(* still the latest, it has changed nothing but what it is about, and once *)
(* it was applied the account is the one its version will ask for.         *)
(***************************************************************************)
Unsettled == {i \in touched : requests[i].status # "SUCCEEDED"}

Wanted(v) == [enabled |-> Enabled(v), authority |-> v.authority]

Current(i) ==
    /\ i \in DOMAIN requests
    /\ requests[i].action \in AuthorityActions
    /\ requests[i].expected = Len(versions)
    /\ Unsettled \subseteq {i}

OthersKept ==
    \A i \in DOMAIN requests : Current(i) /\ requests[i].status \in Open =>
        IF requests[i].action = "UPDATE_ROLES" THEN account.enabled = Enabled(Latest)
                                               ELSE account.authority = Latest.authority

AppliedIsWanted ==
    \A w \in Replicas : jobs[w].step = "APPLIED" /\ Current(jobs[w].request) =>
        account = Wanted(AfterAction(Job(w)))

TouchedHaveAuthority == \A i \in touched : requests[i].action \in AuthorityActions

IInv ==
    /\ TypeOK
    /\ JobsFit
    /\ AttemptsRemain
    /\ InvitationsFit
    /\ SyncIsLatest
    /\ CallsFit
    /\ LiveSessionsAreCurrent
    /\ TouchedHaveAuthority
    /\ ProviderAgrees
    /\ OthersKept
    /\ AppliedIsWanted

-----------------------------------------------------------------------------
(* The types of the rows. *)
VersionRows == [state : States, authority : Authorities]
RequestRows == [action : Actions, authority : Authorities, attempts : 0..MaxAttempts,
                expected : DOMAIN versions, status : Open \cup Settled]
JobRows == [request : 0..Len(requests), class : Classes \cup {None},
            step : {"IDLE", "CLAIMED", "INVALIDATE", "VALIDATED",
                    "CLEARED", "APPLIED", "FAILED"}, mailed : BOOLEAN]

(* Versions and requests are functions of their revisions and numbers. *)
LEMMA Rows ==
    ASSUME TypeOK
    PROVE  /\ Len(versions) \in Nat \ {0} /\ DOMAIN versions = 1..Len(versions)
           /\ Len(versions) \in DOMAIN versions
           /\ \A n \in DOMAIN versions : versions[n] \in VersionRows
           /\ Latest \in VersionRows
           /\ Len(requests) \in Nat /\ DOMAIN requests = 1..Len(requests)
           /\ Len(requests) <= MaxRequests
           /\ requests \in Seq(RequestRows)
           /\ \A i \in DOMAIN requests : requests[i] \in RequestRows
<1>1. versions \in Seq(VersionRows) /\ requests \in Seq(RequestRows) /\ versions # << >>
    BY DEF TypeOK, VersionRows, RequestRows
<1>2. Len(versions) \in Nat \ {0} /\ DOMAIN versions = 1..Len(versions)
    BY <1>1, EmptySeq, LenProperties
<1>3. \A n \in DOMAIN versions : versions[n] \in VersionRows
    BY <1>1, <1>2, ElementOfSeq
<1>4. Len(requests) \in Nat /\ DOMAIN requests = 1..Len(requests)
    BY <1>1, LenProperties
<1>5. \A i \in DOMAIN requests : requests[i] \in RequestRows
    BY <1>1, <1>4, ElementOfSeq
<1>6. Len(requests) <= MaxRequests
    BY <1>4, BoundsAssumption DEF TypeOK
<1> QED
    BY <1>1, <1>2, <1>3, <1>4, <1>5, <1>6 DEF Latest

(* One row of the requests is written. *)
LEMMA RequestWritten ==
    ASSUME TypeOK, NEW i \in DOMAIN requests, NEW r \in RequestRows,
           requests' = [requests EXCEPT ![i] = r]
    PROVE  /\ requests' \in Seq(RequestRows)
           /\ Len(requests') = Len(requests) /\ DOMAIN requests' = DOMAIN requests
           /\ \A j \in DOMAIN requests : requests'[j] = IF j = i THEN r ELSE requests[j]
<1>1. requests \in Seq(RequestRows) /\ DOMAIN requests = 1..Len(requests)
    BY Rows
<1> QED
    BY <1>1, ExceptSeq, LenProperties

-----------------------------------------------------------------------------
(* What a step that writes neither versions nor sessions leaves alone. *)
LEMMA CallsSideKept ==
    ASSUME IInv, UNCHANGED <<versions, sync, calls, sessions>>
    PROVE  SyncIsLatest' /\ CallsFit' /\ LiveSessionsAreCurrent'
BY DEF IInv, SyncIsLatest, CallsFit, CallFits, LiveSessionsAreCurrent, Live, Latest

(* And what one leaves alone that writes neither versions nor account, and *)
(* makes no request succeed that touched the account.                      *)
LEMMA AccountSideKept ==
    ASSUME IInv, TypeOK', UNCHANGED <<versions, account, touched>>,
           \A i \in DOMAIN requests :
               /\ i \in DOMAIN requests'
               /\ requests'[i].action = requests[i].action
               /\ requests'[i].authority = requests[i].authority
               /\ requests'[i].expected = requests[i].expected
               /\ requests'[i].status \in Open => requests[i].status \in Open
               /\ i \in touched =>
                     (requests'[i].status = "SUCCEEDED" <=> requests[i].status = "SUCCEEDED"),
           \A w \in Replicas : jobs'[w].step = "APPLIED" =>
               \/ jobs'[w] = jobs[w]
               \/ requests'[jobs'[w].request].action \notin AuthorityActions
    PROVE  TouchedHaveAuthority' /\ ProviderAgrees' /\ OthersKept' /\ AppliedIsWanted'
<1>1. touched \subseteq DOMAIN requests /\ touched' = touched
    BY DEF IInv, TypeOK
<1>2. Unsettled' = Unsettled
    BY <1>1 DEF Unsettled
<1>3. TouchedHaveAuthority'
    BY <1>1 DEF IInv, TouchedHaveAuthority
<1>4. ProviderAgrees'
    BY <1>1 DEF IInv, ProviderAgrees, Enabled, Latest
<1>5. OthersKept'
  <2> SUFFICES ASSUME NEW i \in DOMAIN requests', Current(i)', requests'[i].status \in Open
               PROVE  IF requests'[i].action = "UPDATE_ROLES"
                      THEN account.enabled = Enabled(Latest)
                      ELSE account.authority = Latest.authority
      BY DEF OthersKept, Enabled, Latest
  <2>1. CASE i \in DOMAIN requests
    <3>1. Current(i)
        BY <1>2, <2>1 DEF Current
    <3> QED
        BY <2>1, <3>1 DEF IInv, OthersKept
  <2>2. CASE i \notin DOMAIN requests
    <3>1. Unsettled \subseteq {i} /\ i \notin touched
        BY <1>1, <1>2, <2>2 DEF Current
    <3>2. \A j \in touched : requests[j].status = "SUCCEEDED"
        BY <3>1 DEF Unsettled
    <3> QED
        BY <3>2 DEF IInv, ProviderAgrees
  <2> QED
      BY <2>1, <2>2
<1>6. AppliedIsWanted'
  <2> SUFFICES ASSUME NEW w \in Replicas, jobs'[w].step = "APPLIED", Current(jobs[w].request)'
               PROVE  account = Wanted(AfterAction(Job(w)))'
      BY DEF AppliedIsWanted
  <2>1. jobs'[w] = jobs[w] /\ jobs[w].request \in DOMAIN requests
      BY DEF IInv, JobsFit, JobFits, Current
  <2>2. Current(jobs[w].request)
      BY <1>2, <2>1 DEF Current
  <2>3. AfterAction(Job(w))' = AfterAction(Job(w))
      BY <2>1 DEF AfterAction, Job
  <2> QED
      BY <2>1, <2>2, <2>3 DEF IInv, AppliedIsWanted, Wanted, Enabled
<1> QED
    BY <1>3, <1>4, <1>5, <1>6

-----------------------------------------------------------------------------
(* A request is filed. *)
LEMMA RequestLifecycleKeeps ==
    ASSUME IInv, NEW action \in Actions, NEW a \in Authorities, RequestLifecycle(action, a)
    PROVE  IInv'
<1> USE DEF store, facts
<1> DEFINE r == [action |-> action, authority |-> a, attempts |-> 0,
                 expected |-> Len(versions), status |-> "PENDING"]
           n == Len(requests)
<1>1. r \in RequestRows
    BY Rows, BoundsAssumption DEF RequestRows, Open, Settled, IInv
<1>2. /\ requests' \in Seq(RequestRows) /\ Len(requests') = n + 1
      /\ DOMAIN requests' = 1..(n + 1) /\ requests'[n + 1] = r
      /\ \A i \in DOMAIN requests : i \in DOMAIN requests' /\ requests'[i] = requests[i]
  <2>1. requests' = Append(requests, r) /\ requests \in Seq(RequestRows)
        /\ n \in Nat /\ DOMAIN requests = 1..n
      BY Rows DEF RequestLifecycle, IInv
  <2> HIDE DEF r
  <2> QED
      BY <1>1, <2>1, AppendProperties, LenProperties
<1>3. n \in Nat /\ n < MaxRequests /\ DOMAIN requests = 1..n
    BY Rows DEF RequestLifecycle, IInv
<1>4. TypeOK'
  <2>1. /\ Len(requests') \in 0..MaxRequests /\ newest \in 0..Len(requests')
        /\ touched \subseteq DOMAIN requests'
      BY <1>2, <1>3, BoundsAssumption DEF IInv, TypeOK
  <2>2. jobs \in [Replicas -> [request : 0..(n + 1), class : Classes \cup {None},
                              step : {"IDLE", "CLAIMED", "INVALIDATE", "VALIDATED",
                                      "CLEARED", "APPLIED", "FAILED"}, mailed : BOOLEAN]]
      BY <1>3 DEF IInv, TypeOK
  <2> QED
      BY <1>2, <2>1, <2>2 DEF RequestLifecycle, IInv, TypeOK, RequestRows
<1>5. JobsFit'
    BY <1>2 DEF IInv, JobsFit, JobFits, Job, RequestLifecycle
<1>6. AttemptsRemain'
    BY <1>2, <1>3, BoundsAssumption DEF IInv, AttemptsRemain
<1>7. InvitationsFit'
    BY <1>2, <1>3 DEF IInv, TypeOK, InvitationsFit, RequestLifecycle
<1>8. SyncIsLatest' /\ CallsFit' /\ LiveSessionsAreCurrent'
    BY CallsSideKept DEF RequestLifecycle
<1>9. TouchedHaveAuthority' /\ ProviderAgrees' /\ OthersKept' /\ AppliedIsWanted'
    BY <1>2, <1>4, AccountSideKept DEF RequestLifecycle
<1> QED
    BY <1>4, <1>5, <1>6, <1>7, <1>8, <1>9 DEF IInv

(* A replica takes its job one step further, or puts it away, and the       *)
(* status of its request with it.                                           *)
LEMMA JobStepKeeps ==
    ASSUME IInv, NEW w \in Replicas, NEW i \in DOMAIN requests, NEW r \in RequestRows,
           NEW job \in JobRows,
           DOMAIN requests' = DOMAIN requests,
           \A j \in DOMAIN requests : requests'[j] = IF j = i THEN r ELSE requests[j],
           jobs'[w] = job, \A v \in Replicas : v # w => jobs'[v] = jobs[v],
           \A v \in Replicas : v # w => jobs[v].request # i \/ jobs[v].step = "IDLE",
           job = NoJob \/ (job.step # "IDLE" /\ job.request = i /\ r.status = "RUNNING"
                           /\ (job.step = "CLEARED" => r.action = "UPDATE_ROLES")),
           r.status \in {"PENDING", "FAILED_RETRYABLE"} => r.attempts < MaxAttempts
    PROVE  JobsFit' /\ AttemptsRemain'
<1>1. /\ DOMAIN requests' = DOMAIN requests
      /\ \A j \in DOMAIN requests : requests'[j] = IF j = i THEN r ELSE requests[j]
    OBVIOUS
<1>2. AttemptsRemain'
    BY <1>1 DEF IInv, AttemptsRemain
<1>3. jobs'[w] = job /\ \A v \in Replicas : v # w => jobs'[v] = jobs[v]
    OBVIOUS
<1>4. \A v \in Replicas : JobFits(v) /\ (v # w /\ jobs[v].step # "IDLE" => jobs[v].request # i)
    BY DEF IInv, JobsFit
<1>5. \A v \in Replicas : JobFits(v)'
  <2> SUFFICES ASSUME NEW v \in Replicas PROVE JobFits(v)'
      OBVIOUS
  <2>1. CASE v # w
      BY <1>1, <1>3, <1>4, <2>1 DEF JobFits, Job
  <2>2. CASE v = w /\ job = NoJob
    <3>1. jobs'[v].step = "IDLE" /\ jobs'[v] = NoJob
        BY <1>3, <2>2 DEF NoJob
    <3> QED
        BY <3>1 DEF JobFits, NoJob
  <2>3. CASE v = w /\ job # NoJob
      BY <1>1, <1>3, <2>3 DEF JobFits, Job
  <2> QED
      BY <2>1, <2>2, <2>3
<1>6. i # 0
    BY Rows DEF IInv
<1>7. \A u, v \in Replicas : u # v /\ jobs'[u].step # "IDLE" => jobs'[u].request # jobs'[v].request
  <2> SUFFICES ASSUME NEW u \in Replicas, NEW v \in Replicas, u # v, jobs'[u].step # "IDLE"
               PROVE  jobs'[u].request # jobs'[v].request
      OBVIOUS
  <2>1. CASE u # w /\ v # w
      BY <1>3, <2>1 DEF IInv, JobsFit
  <2>2. CASE u = w
    <3>1. job.request = i
        BY <1>3, <2>2 DEF NoJob
    <3>2. jobs[v].request # i
        BY <1>4, <1>6, <2>2 DEF JobFits, NoJob
    <3> QED
        BY <1>3, <2>2, <3>1, <3>2
  <2>3. CASE v = w
    <3>1. jobs[u].request # i /\ jobs[u].request # 0
      <4>1. jobs[u].step # "IDLE" /\ jobs[u].request # i
          BY <1>3, <1>4, <2>3
      <4> QED
          BY <1>4, <4>1, Rows DEF JobFits, IInv
    <3> QED
        BY <1>3, <2>3, <3>1 DEF NoJob
  <2> QED
      BY <2>1, <2>2, <2>3
<1> QED
    BY <1>2, <1>5, <1>7 DEF JobsFit

(* A replica that has something in hand is alone with it. *)
LEMMA JobInHand ==
    ASSUME IInv, NEW w \in Replicas, jobs[w].step # "IDLE"
    PROVE  /\ jobs[w].request \in DOMAIN requests /\ Job(w) \in RequestRows
           /\ Job(w).status = "RUNNING"
           /\ \A v \in Replicas : v # w => jobs[v].request # jobs[w].request
           /\ jobs[w] \in JobRows
BY Rows DEF IInv, JobsFit, JobFits, Job, TypeOK, JobRows

LEMMA NoJobType ==
    ASSUME TypeOK
    PROVE  NoJob \in JobRows
BY Rows DEF NoJob, JobRows

(* A replica claims a request. *)
LEMMA ClaimKeeps ==
    ASSUME IInv, NEW w \in Replicas, NEW i \in 1..MaxRequests, Claim(w, i)
    PROVE  IInv'
<1> USE DEF store, facts
<1> DEFINE r == [requests[i] EXCEPT !.status = "RUNNING", !.attempts = @ + 1]
           job == [NoJob EXCEPT !.request = i, !.step = "CLAIMED"]
<1>1. i \in DOMAIN requests /\ requests[i].status \in {"PENDING", "FAILED_RETRYABLE"}
    BY DEF Claim, Claimable
<1>2. requests[i] \in RequestRows /\ requests[i].attempts < MaxAttempts
    BY <1>1, Rows DEF IInv, AttemptsRemain
<1>3. /\ r \in RequestRows /\ r.status = "RUNNING" /\ r.action = requests[i].action
      /\ r.authority = requests[i].authority /\ r.expected = requests[i].expected
  <2>1. requests[i].attempts + 1 \in 0..MaxAttempts
      BY <1>2, BoundsAssumption DEF RequestRows
  <2> QED
      BY <1>2, <2>1 DEF RequestRows, Open
<1>4. requests' = [requests EXCEPT ![i] = r] /\ jobs' = [jobs EXCEPT ![w] = job]
    BY DEF Claim
<1>5. job \in JobRows
      /\ job.step = "CLAIMED" /\ job.request = i
  <2>1. i \in 0..Len(requests)
      BY <1>1, Rows DEF IInv
  <2>2. NoJob \in JobRows
      BY NoJobType DEF IInv
  <2> QED
      BY <2>1, <2>2 DEF JobRows
<1>6. \A v \in Replicas : v # w => jobs[v].request # i \/ jobs[v].step = "IDLE"
    BY <1>1 DEF IInv, JobsFit, JobFits, Job
<1>7. /\ requests' \in Seq(RequestRows)
      /\ Len(requests') = Len(requests) /\ DOMAIN requests' = DOMAIN requests
      /\ \A j \in DOMAIN requests : requests'[j] = IF j = i THEN r ELSE requests[j]
    BY <1>1, <1>3, <1>4, RequestWritten DEF IInv
<1> HIDE DEF job, r
<1>8. TypeOK'
  <2>1. UNCHANGED <<store, facts, account, calls, sessions, faults, touched>>
      BY DEF Claim
  <2>2. jobs' \in [Replicas -> JobRows]
      BY <1>4, <1>5 DEF IInv, TypeOK, JobRows
  <2> QED
      BY <1>7, <2>1, <2>2 DEF IInv, TypeOK, RequestRows, JobRows
<1>9. JobsFit' /\ AttemptsRemain'
  <2>1. jobs'[w] = job /\ \A v \in Replicas : v # w => jobs'[v] = jobs[v]
      BY <1>4 DEF IInv, TypeOK
  <2> QED
      BY <1>1, <1>3, <1>5, <1>6, <1>7, <2>1, JobStepKeeps
<1>10. InvitationsFit'
    BY <1>7 DEF IInv, InvitationsFit, Claim
<1>11. SyncIsLatest' /\ CallsFit' /\ LiveSessionsAreCurrent'
    BY CallsSideKept DEF Claim
<1>12. TouchedHaveAuthority' /\ ProviderAgrees' /\ OthersKept' /\ AppliedIsWanted'
  <2>1. \A v \in Replicas : jobs'[v].step = "APPLIED" => jobs'[v] = jobs[v]
      BY <1>4, <1>5 DEF IInv, TypeOK
  <2>2. \A j \in DOMAIN requests :
           /\ requests'[j].action = requests[j].action
           /\ requests'[j].authority = requests[j].authority
           /\ requests'[j].expected = requests[j].expected
           /\ requests'[j].status \in Open => requests[j].status \in Open
           /\ requests'[j].status = "SUCCEEDED" <=> requests[j].status = "SUCCEEDED"
      BY <1>1, <1>3, <1>7 DEF Open
  <2> QED
      BY <1>7, <1>8, <2>1, <2>2, AccountSideKept DEF Claim
<1> QED
    BY <1>8, <1>9, <1>10, <1>11, <1>12 DEF IInv

(* A replica goes on to another step, or drops its job, and leaves its      *)
(* request RUNNING and the account alone.                                   *)
LEMMA JobOnlyKeeps ==
    ASSUME IInv, NEW w \in Replicas, jobs[w].step # "IDLE",
           NEW job \in JobRows,
           jobs' = [jobs EXCEPT ![w] = job],
           job = NoJob \/ (job.step \notin {"IDLE", "CLEARED", "APPLIED"}
                           /\ job.request = jobs[w].request),
           UNCHANGED <<versions, requests, facts, account, touched>>,
           TypeOK'
    PROVE  /\ JobsFit' /\ AttemptsRemain' /\ InvitationsFit'
           /\ TouchedHaveAuthority' /\ ProviderAgrees' /\ OthersKept' /\ AppliedIsWanted'
<1> USE DEF facts
<1>1. PICK i \in DOMAIN requests, r \in RequestRows :
        /\ i = jobs[w].request /\ r = requests[i] /\ r.status = "RUNNING"
        /\ \A v \in Replicas : v # w => jobs[v].request # i
    BY JobInHand DEF Job
<1>2. JobsFit' /\ AttemptsRemain'
  <2>1. job = NoJob \/ (job.step # "IDLE" /\ job.request = i /\ r.status = "RUNNING"
                       /\ (job.step = "CLEARED" => r.action = "UPDATE_ROLES"))
      BY <1>1
  <2>2. DOMAIN requests' = DOMAIN requests
        /\ \A j \in DOMAIN requests : requests'[j] = IF j = i THEN r ELSE requests[j]
      BY <1>1
  <2>3. r.status \in {"PENDING", "FAILED_RETRYABLE"} => r.attempts < MaxAttempts
      BY <1>1
  <2>4. \A v \in Replicas : v # w => jobs[v].request # i \/ jobs[v].step = "IDLE"
      BY <1>1
  <2>5. jobs'[w] = job /\ \A v \in Replicas : v # w => jobs'[v] = jobs[v]
      BY DEF IInv, TypeOK
  <2> QED
      BY <1>1, <2>1, <2>2, <2>3, <2>4, <2>5, JobStepKeeps
<1>3. InvitationsFit'
    BY DEF IInv, InvitationsFit
<1>4. \A v \in Replicas : jobs'[v].step = "APPLIED" => jobs'[v] = jobs[v]
    BY DEF IInv, TypeOK, NoJob
<1> QED
    BY <1>2, <1>3, <1>4, AccountSideKept

LEMMA ValidateKeeps ==
    ASSUME IInv, NEW w \in Replicas, Validate(w) PROVE IInv'
<1> USE DEF store, facts
<1>1. jobs[w].step = "CLAIMED"
    BY DEF Validate
<1>2. PICK job \in {[jobs[w] EXCEPT !.step = "FAILED", !.class = "PERMANENT"],
                    [jobs[w] EXCEPT !.step = "INVALIDATE"],
                    [jobs[w] EXCEPT !.step = "VALIDATED"]} : jobs' = [jobs EXCEPT ![w] = job]
  <2>1. jobs' = [jobs EXCEPT ![w] =
            IF Job(w).expected # Len(versions)
            THEN [jobs[w] EXCEPT !.step = "FAILED", !.class = "PERMANENT"]
            ELSE [jobs[w] EXCEPT !.step = IF Job(w).action = "RECOVER" THEN "INVALIDATE"
                                                                       ELSE "VALIDATED"]]
      BY DEF Validate, IInv, TypeOK
  <2> QED
      BY <2>1
<1>3. /\ job \in JobRows
      /\ job.step \in {"FAILED", "INVALIDATE", "VALIDATED"} /\ job.request = jobs[w].request
    BY <1>1, <1>2, JobInHand DEF Classes, JobRows
<1>4. TypeOK'
  <2>1. jobs' \in [Replicas -> JobRows]
      BY <1>2, <1>3 DEF IInv, TypeOK, JobRows
  <2> QED
      BY <2>1 DEF Validate, IInv, TypeOK, JobRows
<1>5. SyncIsLatest' /\ CallsFit' /\ LiveSessionsAreCurrent'
    BY CallsSideKept DEF Validate
<1>6. /\ JobsFit' /\ AttemptsRemain' /\ InvitationsFit'
      /\ TouchedHaveAuthority' /\ ProviderAgrees' /\ OthersKept' /\ AppliedIsWanted'
    BY <1>1, <1>2, <1>3, <1>4, JobOnlyKeeps DEF Validate
<1> QED
    BY <1>4, <1>5, <1>6 DEF IInv

(* A replica lets go of its job. *)
LEMMA LetGoKeeps ==
    ASSUME IInv, NEW w \in Replicas, jobs[w].step # "IDLE",
           jobs' = [jobs EXCEPT ![w] = NoJob], faults' \in 0..MaxFaults,
           UNCHANGED <<store, requests, facts, account, calls, sessions, touched>>
    PROVE  IInv'
<1> USE DEF store, facts
<1>1. TypeOK'
    BY NoJobType DEF IInv, TypeOK, JobRows
<1>2. SyncIsLatest' /\ CallsFit' /\ LiveSessionsAreCurrent'
    BY CallsSideKept
<1>3. /\ JobsFit' /\ AttemptsRemain' /\ InvitationsFit'
      /\ TouchedHaveAuthority' /\ ProviderAgrees' /\ OthersKept' /\ AppliedIsWanted'
    BY <1>1, NoJobType, JobOnlyKeeps DEF IInv
<1> QED
    BY <1>1, <1>2, <1>3 DEF IInv

LEMMA CrashKeeps ==
    ASSUME IInv, NEW w \in Replicas, Crash(w) PROVE IInv'
<1>1. jobs[w].step # "IDLE"
    BY DEF Crash, IInv, JobsFit, JobFits
<1>2. faults' \in 0..MaxFaults
    BY BoundsAssumption DEF Crash, IInv, TypeOK
<1> QED
    BY <1>1, <1>2, LetGoKeeps DEF Crash

LEMMA FinalizeIsRefusedKeeps ==
    ASSUME IInv, NEW w \in Replicas, FinalizeIsRefused(w) PROVE IInv'
BY LetGoKeeps DEF FinalizeIsRefused, IInv, TypeOK

(* A failure is recorded. *)
LEMMA RecordFailureKeeps ==
    ASSUME IInv, NEW w \in Replicas, NEW late \in BOOLEAN, RecordFailure(w, late)
    PROVE  IInv'
<1> USE DEF store, facts
<1>1. PICK i \in DOMAIN requests : i = jobs[w].request /\ jobs[w].step = "FAILED"
    BY JobInHand DEF RecordFailure
<1> DEFINE s == FailedStatus(requests[i], jobs[w].class, late)
           r == [requests[i] EXCEPT !.status = s]
<1>2. requests[i] \in RequestRows /\ requests[i].status = "RUNNING"
      /\ \A v \in Replicas : v # w => jobs[v].request # i
    BY <1>1, JobInHand DEF Job
<1>3. /\ s \in {"FAILED_RETRYABLE", "FAILED_PERMANENT", "MANUAL_REVIEW"}
      /\ s = "FAILED_RETRYABLE" => requests[i].attempts < MaxAttempts
    BY DEF FailedStatus
<1>4. requests' = [requests EXCEPT ![i] = r] /\ jobs' = [jobs EXCEPT ![w] = NoJob]
    BY <1>1 DEF RecordFailure
<1> HIDE DEF s
<1>5. /\ r \in RequestRows /\ r.status = s /\ r.attempts = requests[i].attempts
      /\ r.authority = requests[i].authority /\ r.expected = requests[i].expected
      /\ r.action = requests[i].action
    BY <1>2, <1>3 DEF RequestRows, Open, Settled
<1> HIDE DEF r
<1>6. /\ requests' \in Seq(RequestRows)
      /\ Len(requests') = Len(requests) /\ DOMAIN requests' = DOMAIN requests
      /\ \A j \in DOMAIN requests : requests'[j] = IF j = i THEN r ELSE requests[j]
    BY <1>4, <1>5, RequestWritten DEF IInv
<1>7. i \in 0..MaxRequests /\ i \in 0..Len(requests) /\ i <= Len(requests)
    BY Rows, BoundsAssumption DEF IInv
<1>8. \/ invitations' = [invitations EXCEPT ![i] = "FAILED"] /\ newest' = i
      \/ UNCHANGED facts
    BY <1>1 DEF RecordFailure
<1>9. TypeOK'
  <2>1. /\ invitations' \in [0..MaxRequests -> {"NONE", "ACCEPTED", "FAILED", "CANCELLED",
                                              "EXPIRED", "CONSUMED"}]
        /\ newest' \in 0..Len(requests)
      BY <1>7, <1>8 DEF IInv, TypeOK
  <2>2. jobs' \in [Replicas -> JobRows]
      BY <1>4, NoJobType DEF IInv, TypeOK, JobRows
  <2> QED
      BY <1>6, <2>1, <2>2 DEF RecordFailure, IInv, TypeOK, RequestRows, JobRows
<1>10. JobsFit' /\ AttemptsRemain'
  <2>1. NoJob \in JobRows
      BY NoJobType DEF IInv
  <2>2. r.status \in {"PENDING", "FAILED_RETRYABLE"} => r.attempts < MaxAttempts
      BY <1>3, <1>5
  <2>3. \A v \in Replicas : v # w => jobs[v].request # i \/ jobs[v].step = "IDLE"
      BY <1>2
  <2>4. DOMAIN requests' = DOMAIN requests
        /\ \A j \in DOMAIN requests : requests'[j] = IF j = i THEN r ELSE requests[j]
      BY <1>6
  <2>5. r \in RequestRows /\ jobs'[w] = NoJob
        /\ \A v \in Replicas : v # w => jobs'[v] = jobs[v]
      BY <1>4, <1>5 DEF IInv, TypeOK
  <2> QED
      BY <2>1, <2>2, <2>3, <2>4, <2>5, JobStepKeeps
<1>11. InvitationsFit'
    BY <1>6, <1>7, <1>8 DEF IInv, TypeOK, InvitationsFit
<1>12. SyncIsLatest' /\ CallsFit' /\ LiveSessionsAreCurrent'
    BY CallsSideKept DEF RecordFailure
<1>13. TouchedHaveAuthority' /\ ProviderAgrees' /\ OthersKept' /\ AppliedIsWanted'
  <2>1. \A v \in Replicas : jobs'[v].step = "APPLIED" => jobs'[v] = jobs[v]
      BY <1>4 DEF IInv, TypeOK, NoJob
  <2>2. \A j \in DOMAIN requests :
           /\ requests'[j].action = requests[j].action
           /\ requests'[j].authority = requests[j].authority
           /\ requests'[j].expected = requests[j].expected
           /\ requests'[j].status \in Open => requests[j].status \in Open
           /\ requests'[j].status = "SUCCEEDED" <=> requests[j].status = "SUCCEEDED"
      BY <1>2, <1>3, <1>5, <1>6 DEF Open
  <2> QED
      BY <1>6, <1>9, <2>1, <2>2, AccountSideKept DEF RecordFailure
<1> QED
    BY <1>9, <1>10, <1>11, <1>12, <1>13 DEF IInv

-----------------------------------------------------------------------------
(* Sessions that nobody checks are revoked. *)
SessionRows == [state : {"NONE", "ACTIVE", "PENDING", "DENIED", "REVOKED"},
                revision : 0..Len(versions),
                authority : Authorities \cup {None}, late : BOOLEAN]

LEMMA RevokedSessions ==
    ASSUME IInv, NEW S \in SUBSET Live, \A s \in S : ~Locked(s), sessions' = Revoked(S),
           UNCHANGED calls
    PROVE  /\ sessions' \in [Sessions -> SessionRows]
           /\ \A s \in Sessions :
                 /\ s \in S => sessions'[s].state = "REVOKED"
                 /\ s \notin S => sessions'[s] = sessions[s]
           /\ \A c \in Calls : calls[c].stage = "CHECK" =>
                 /\ calls[c].session \in Sessions
                 /\ sessions'[calls[c].session].state = "ACTIVE"
<1>1. sessions \in [Sessions -> SessionRows]
    BY DEF IInv, TypeOK, SessionRows
<1>2. sessions' \in [Sessions -> SessionRows]
    BY <1>1 DEF Revoked, SessionRows
<1>3. \A s \in Sessions : /\ s \in S => sessions'[s].state = "REVOKED"
                          /\ s \notin S => sessions'[s] = sessions[s]
    BY <1>1 DEF Revoked, SessionRows
<1>4. \A c \in Calls : calls[c].stage = "CHECK" =>
         calls[c].session \in Sessions \ S /\ sessions[calls[c].session].state = "ACTIVE"
    BY DEF Locked, IInv, CallsFit, CallFits
<1> QED
    BY <1>2, <1>3, <1>4

LEMMA RevokedKeeps ==
    ASSUME IInv, NEW S \in SUBSET Live, \A s \in S : ~Locked(s), sessions' = Revoked(S),
           UNCHANGED <<versions, sync, calls>>
    PROVE  SyncIsLatest' /\ CallsFit' /\ LiveSessionsAreCurrent'
<1>1. SyncIsLatest'
    BY DEF IInv, SyncIsLatest
<1>2. CallsFit'
    BY RevokedSessions DEF IInv, CallsFit, CallFits, Latest
<1>3. LiveSessionsAreCurrent'
    BY RevokedSessions DEF IInv, LiveSessionsAreCurrent, Live, Latest
<1> QED
    BY <1>1, <1>2, <1>3

LEMMA InvalidateRecoverySessionsKeeps ==
    ASSUME IInv, NEW w \in Replicas, InvalidateRecoverySessions(w) PROVE IInv'
<1> USE DEF store, facts
<1> DEFINE job == [jobs[w] EXCEPT !.step = "VALIDATED"]
<1>1. jobs[w].step # "IDLE" /\ jobs' = [jobs EXCEPT ![w] = job]
    BY DEF InvalidateRecoverySessions
<1>2. job \in JobRows /\ job.step = "VALIDATED" /\ job.request = jobs[w].request
    BY <1>1, JobInHand DEF JobRows
<1> HIDE DEF job
<1>3. sessions' \in [Sessions -> SessionRows]
    BY RevokedSessions DEF InvalidateRecoverySessions
<1>4. TypeOK'
  <2>1. jobs' \in [Replicas -> JobRows]
      BY <1>1, <1>2 DEF IInv, TypeOK, JobRows
  <2> QED
      BY <1>3, <2>1 DEF InvalidateRecoverySessions, IInv, TypeOK, JobRows, SessionRows
<1>5. SyncIsLatest' /\ CallsFit' /\ LiveSessionsAreCurrent'
    BY RevokedKeeps DEF InvalidateRecoverySessions
<1>6. /\ JobsFit' /\ AttemptsRemain' /\ InvitationsFit'
      /\ TouchedHaveAuthority' /\ ProviderAgrees' /\ OthersKept' /\ AppliedIsWanted'
    BY <1>1, <1>2, <1>4, JobOnlyKeeps DEF InvalidateRecoverySessions
<1> QED
    BY <1>4, <1>5, <1>6 DEF IInv

(* A call ends, whatever it had in hand. *)
LEMMA CallEndKeeps ==
    ASSUME IInv, NEW c \in Calls, calls' = [calls EXCEPT ![c] = NoCall],
           UNCHANGED <<store, requests, facts, account, jobs, sessions, faults, touched>>
    PROVE  IInv'
<1> USE DEF store, facts
<1>1. /\ calls'[c] = NoCall
      /\ \A b \in Calls : b # c => calls'[b] = calls[b]
    BY DEF IInv, TypeOK
<1>2. TypeOK'
    BY Rows DEF IInv, TypeOK, NoCall
<1>3. CallsFit'
    BY <1>1 DEF IInv, CallsFit, CallFits, NoCall, Latest
<1>4. SyncIsLatest' /\ LiveSessionsAreCurrent'
    BY DEF IInv, SyncIsLatest, LiveSessionsAreCurrent, Live, Latest
<1>5. JobsFit' /\ AttemptsRemain' /\ InvitationsFit'
    BY DEF IInv, JobsFit, JobFits, Job, AttemptsRemain, InvitationsFit
<1>6. TouchedHaveAuthority' /\ ProviderAgrees' /\ OthersKept' /\ AppliedIsWanted'
    BY <1>2, AccountSideKept
<1> QED
    BY <1>2, <1>3, <1>4, <1>5, <1>6 DEF IInv

LEMMA DeadlockKeeps ==
    ASSUME IInv, NEW w \in Replicas, NEW c \in Calls, Deadlock(w, c) PROVE IInv'
<1>1. CASE jobs' = [jobs EXCEPT ![w] = NoJob] /\ UNCHANGED calls
    BY <1>1, LetGoKeeps DEF Deadlock, IInv, TypeOK
<1>2. CASE calls' = [calls EXCEPT ![c] = NoCall] /\ UNCHANGED jobs
    BY <1>2, CallEndKeeps DEF Deadlock
<1> QED
    BY <1>1, <1>2 DEF Deadlock

-----------------------------------------------------------------------------
(* A replica acts on the account: it changes what its request is about, and *)
(* from now on the request excuses it.                                      *)
LEMMA TouchKeeps ==
    ASSUME IInv, TypeOK', NEW w \in Replicas, jobs[w].step # "IDLE", NEW job \in JobRows,
           jobs'[w] = job, \A v \in Replicas : v # w => jobs'[v] = jobs[v],
           job.step # "IDLE" /\ job.request = jobs[w].request,
           job.step = "CLEARED" => Job(w).action = "UPDATE_ROLES",
           UNCHANGED <<versions, requests, invitations>>,
           Touch(w),
           Job(w).action \notin AuthorityActions => account' = account,
           Job(w).action = "UPDATE_ROLES" => account'.enabled = account.enabled,
           Job(w).action \in AuthorityActions \ {"UPDATE_ROLES"} =>
               account'.authority = account.authority,
           job.step = "APPLIED" =>
               /\ Job(w).action = "UPDATE_ROLES" => account'.authority = Job(w).authority
               /\ Job(w).action \in {"SUSPEND", "DEACTIVATE"} => account'.enabled = FALSE
               /\ Job(w).action = "REACTIVATE" => account'.enabled = TRUE
    PROVE  /\ JobsFit' /\ AttemptsRemain' /\ InvitationsFit'
           /\ TouchedHaveAuthority' /\ ProviderAgrees' /\ OthersKept' /\ AppliedIsWanted'
<1>1. PICK i \in DOMAIN requests, r \in RequestRows :
        /\ i = jobs[w].request /\ r = requests[i] /\ r.status = "RUNNING" /\ r = Job(w)
        /\ \A v \in Replicas : v # w => jobs[v].request # i
    BY JobInHand DEF Job
<1>2. JobsFit' /\ AttemptsRemain'
  <2>1. job = NoJob \/ (job.step # "IDLE" /\ job.request = i /\ r.status = "RUNNING"
                       /\ (job.step = "CLEARED" => r.action = "UPDATE_ROLES"))
      BY <1>1
  <2>2. DOMAIN requests' = DOMAIN requests
        /\ \A j \in DOMAIN requests : requests'[j] = IF j = i THEN r ELSE requests[j]
      BY <1>1
  <2>3. r.status \in {"PENDING", "FAILED_RETRYABLE"} => r.attempts < MaxAttempts
      BY <1>1
  <2>4. \A v \in Replicas : v # w => jobs[v].request # i \/ jobs[v].step = "IDLE"
      BY <1>1
  <2> QED
      BY <1>1, <2>1, <2>2, <2>3, <2>4, JobStepKeeps
<1>3. InvitationsFit'
    BY DEF IInv, InvitationsFit
<1>4. CASE r.action \notin AuthorityActions
  <2>1. account' = account /\ touched' = touched
      BY <1>1, <1>4 DEF Touch
  <2>2. \A v \in Replicas : jobs'[v].step = "APPLIED" =>
           jobs'[v] = jobs[v] \/ requests'[jobs'[v].request].action \notin AuthorityActions
      BY <1>1, <1>4
  <2> QED
      BY <1>2, <1>3, <2>1, <2>2, AccountSideKept
<1>5. CASE r.action \in AuthorityActions
  <2>1. touched' = touched \cup {i}
      BY <1>1, <1>5 DEF Touch
  <2>2. Unsettled' = Unsettled \cup {i}
      BY <1>1, <2>1 DEF Unsettled
  <2>3. TouchedHaveAuthority'
      BY <1>1, <1>5, <2>1 DEF IInv, TouchedHaveAuthority
  <2>4. ProviderAgrees'
      BY <1>1, <2>1 DEF ProviderAgrees
  <2>5. \A j : Current(j)' => j = i /\ Current(i)
      BY <2>2 DEF Current
  <2>6. Current(i) => IF r.action = "UPDATE_ROLES" THEN account'.enabled = Enabled(Latest)
                                                   ELSE account'.authority = Latest.authority
      BY <1>1, <1>5 DEF IInv, OthersKept, Open
  <2>7. OthersKept'
    <3>1. requests'[i].action = r.action /\ Latest' = Latest
        BY <1>1 DEF Latest
    <3>2. Current(i)' =>
             IF requests'[i].action = "UPDATE_ROLES" THEN account'.enabled = Enabled(Latest')
                                                    ELSE account'.authority = Latest'.authority
        BY <2>5, <2>6, <3>1
    <3> QED
        BY <2>5, <3>2 DEF OthersKept, Enabled
  <2>8. AppliedIsWanted'
    <3> SUFFICES ASSUME NEW v \in Replicas, jobs'[v].step = "APPLIED",
                        Current(jobs[v].request)'
                 PROVE  account' = Wanted(AfterAction(Job(v)))'
        BY DEF AppliedIsWanted
    <3>1. jobs'[v].request = i /\ Current(i)
        BY <2>5
    <3>2. v = w
        BY <1>1, <3>1
    <3>3. Latest \in VersionRows /\ r.expected = Len(versions)
        BY <1>1, <3>1, Rows DEF IInv, Current
    <3>4. AfterAction(r) = CASE r.action = "UPDATE_ROLES" -> [Latest EXCEPT !.authority = r.authority]
                             [] r.action = "SUSPEND" -> [Latest EXCEPT !.state = "SUSPENDED"]
                             [] r.action = "DEACTIVATE" -> [Latest EXCEPT !.state = "DEACTIVATED"]
                             [] r.action = "REACTIVATE" -> [Latest EXCEPT !.state = "INVITED"]
        BY <3>3 DEF AfterAction, Latest
    <3>5. /\ account'.enabled = Enabled(AfterAction(r))
          /\ account'.authority = AfterAction(r).authority
      <4>1. CASE r.action = "UPDATE_ROLES"
          BY <1>1, <2>6, <3>1, <3>2, <3>3, <3>4, <4>1 DEF VersionRows, Enabled
      <4>2. CASE r.action \in {"SUSPEND", "DEACTIVATE"}
          BY <1>1, <2>6, <3>1, <3>2, <3>3, <3>4, <4>2
          DEF VersionRows, Enabled, AuthorityActions
      <4>3. CASE r.action = "REACTIVATE"
          BY <1>1, <2>6, <3>1, <3>2, <3>3, <3>4, <4>3
          DEF VersionRows, Enabled, AuthorityActions
      <4> QED
          BY <1>5, <4>1, <4>2, <4>3 DEF AuthorityActions
    <3>6. account' = [enabled |-> account'.enabled, authority |-> account'.authority]
        BY DEF TypeOK
    <3>7. AfterAction(Job(v))' = AfterAction(r)
        BY <1>1, <3>1 DEF Job, AfterAction
    <3> QED
        BY <3>5, <3>6, <3>7 DEF Wanted, Enabled
  <2> QED
      BY <1>2, <1>3, <2>3, <2>4, <2>7, <2>8
<1> QED
    BY <1>4, <1>5

(* What a job may become. *)
LEMMA JobBecomes ==
    ASSUME IInv, NEW w \in Replicas, jobs[w].step # "IDLE",
           NEW job \in JobRows, jobs' = [jobs EXCEPT ![w] = job],
           account' \in [enabled : BOOLEAN, authority : Authorities \cup {None}],
           faults' \in 0..MaxFaults, Touch(w),
           UNCHANGED <<store, requests, facts, calls, sessions>>
    PROVE  /\ TypeOK'
           /\ jobs'[w] = job /\ \A v \in Replicas : v # w => jobs'[v] = jobs[v]
           /\ SyncIsLatest' /\ CallsFit' /\ LiveSessionsAreCurrent'
<1> USE DEF store, facts
<1>1. jobs' \in [Replicas -> JobRows] /\ touched' \subseteq DOMAIN requests
    BY JobInHand DEF IInv, TypeOK, JobRows, Touch
<1>2. TypeOK'
    BY <1>1 DEF IInv, TypeOK, JobRows
<1>3. jobs'[w] = job /\ \A v \in Replicas : v # w => jobs'[v] = jobs[v]
    BY DEF IInv, TypeOK
<1> QED
    BY <1>2, <1>3, CallsSideKept

(* The account after the calls of a request. *)
LEMMA EffectsOf ==
    ASSUME TypeOK, NEW r \in RequestRows
    PROVE  /\ r.action = "UPDATE_ROLES" =>
                 /\ Len(Effects(r)) = 2
                 /\ Effects(r)[1] = [account EXCEPT !.authority = None]
                 /\ Effects(r)[2] = [account EXCEPT !.authority = r.authority]
           /\ r.action \in {"SUSPEND", "DEACTIVATE"} =>
                 Len(Effects(r)) = 1 /\ Effects(r)[1] = [account EXCEPT !.enabled = FALSE]
           /\ r.action = "REACTIVATE" =>
                 Len(Effects(r)) = 1 /\ Effects(r)[1] = [account EXCEPT !.enabled = TRUE]
           /\ r.action \notin AuthorityActions => Effects(r) = << >>
           /\ r.action \in AuthorityActions => Effects(r) # << >>
BY DEF Effects, AuthorityActions

(* The account after the last of them. *)
LEMMA LastEffect ==
    ASSUME TypeOK, NEW r \in RequestRows,
           account' = LET e == Effects(r) IN IF e = << >> THEN account ELSE e[Len(e)]
    PROVE  /\ account' \in [enabled : BOOLEAN, authority : Authorities \cup {None}]
           /\ r.action \notin AuthorityActions => account' = account
           /\ r.action = "UPDATE_ROLES" =>
                 account'.enabled = account.enabled /\ account'.authority = r.authority
           /\ r.action \in AuthorityActions \ {"UPDATE_ROLES"} =>
                 account'.authority = account.authority
           /\ r.action \in {"SUSPEND", "DEACTIVATE"} => account'.enabled = FALSE
           /\ r.action = "REACTIVATE" => account'.enabled = TRUE
<1>1. account \in [enabled : BOOLEAN, authority : Authorities \cup {None}]
      /\ r.authority \in Authorities
    BY DEF TypeOK, RequestRows
<1>2. \/ r.action = "UPDATE_ROLES" /\ account' = [account EXCEPT !.authority = r.authority]
      \/ r.action \in {"SUSPEND", "DEACTIVATE"} /\ account' = [account EXCEPT !.enabled = FALSE]
      \/ r.action = "REACTIVATE" /\ account' = [account EXCEPT !.enabled = TRUE]
      \/ r.action \notin AuthorityActions /\ account' = account
    BY EffectsOf DEF AuthorityActions
<1> QED
    BY <1>1, <1>2 DEF AuthorityActions

LEMMA BeginProviderActionKeeps ==
    ASSUME IInv, NEW w \in Replicas, BeginProviderAction(w) PROVE IInv'
<1> DEFINE job == [jobs[w] EXCEPT !.step = "CLEARED"]
<1>1. jobs[w].step # "IDLE" /\ jobs' = [jobs EXCEPT ![w] = job]
      /\ Job(w).action = "UPDATE_ROLES" /\ Touch(w)
    BY DEF BeginProviderAction
<1>2. job \in JobRows /\ job.step = "CLEARED" /\ job.request = jobs[w].request
    BY <1>1, JobInHand DEF JobRows
<1> HIDE DEF job
<1>3. account' = [account EXCEPT !.authority = None]
    BY <1>1, EffectsOf, JobInHand DEF BeginProviderAction, IInv
<1>4. account' \in [enabled : BOOLEAN, authority : Authorities \cup {None}]
      /\ account'.enabled = account.enabled
    BY <1>3 DEF IInv, TypeOK
<1>5. faults' \in 0..MaxFaults
    BY DEF BeginProviderAction, IInv, TypeOK
<1>6. UNCHANGED <<store, requests, facts, calls, sessions>>
    BY DEF BeginProviderAction
<1>7. /\ TypeOK'
      /\ jobs'[w] = job /\ \A v \in Replicas : v # w => jobs'[v] = jobs[v]
      /\ SyncIsLatest' /\ CallsFit' /\ LiveSessionsAreCurrent'
    BY <1>1, <1>2, <1>4, <1>5, <1>6, JobBecomes
<1>8. /\ JobsFit' /\ AttemptsRemain' /\ InvitationsFit'
      /\ TouchedHaveAuthority' /\ ProviderAgrees' /\ OthersKept' /\ AppliedIsWanted'
    BY <1>1, <1>2, <1>4, <1>6, <1>7, TouchKeeps DEF AuthorityActions, store, facts
<1> QED
    BY <1>7, <1>8 DEF IInv

LEMMA ApplyProviderActionKeeps ==
    ASSUME IInv, NEW w \in Replicas, ApplyProviderAction(w) PROVE IInv'
<1> DEFINE job == [jobs[w] EXCEPT !.step = "APPLIED"]
<1>1. jobs[w].step # "IDLE" /\ jobs' = [jobs EXCEPT ![w] = job] /\ Touch(w)
    BY DEF ApplyProviderAction
<1>2. job \in JobRows /\ job.step = "APPLIED" /\ job.request = jobs[w].request
    BY <1>1, JobInHand DEF JobRows
<1> HIDE DEF job
<1>3. Job(w) \in RequestRows
    BY <1>1, JobInHand
<1>4. /\ account' \in [enabled : BOOLEAN, authority : Authorities \cup {None}]
      /\ Job(w).action \notin AuthorityActions => account' = account
      /\ Job(w).action = "UPDATE_ROLES" =>
            account'.enabled = account.enabled /\ account'.authority = Job(w).authority
      /\ Job(w).action \in AuthorityActions \ {"UPDATE_ROLES"} =>
            account'.authority = account.authority
      /\ Job(w).action \in {"SUSPEND", "DEACTIVATE"} => account'.enabled = FALSE
      /\ Job(w).action = "REACTIVATE" => account'.enabled = TRUE
    BY <1>3, LastEffect DEF ApplyProviderAction, IInv
<1>5. faults' \in 0..MaxFaults
    BY DEF ApplyProviderAction, IInv, TypeOK
<1>6. UNCHANGED <<store, requests, facts, calls, sessions>>
    BY DEF ApplyProviderAction
<1>7. /\ TypeOK'
      /\ jobs'[w] = job /\ \A v \in Replicas : v # w => jobs'[v] = jobs[v]
      /\ SyncIsLatest' /\ CallsFit' /\ LiveSessionsAreCurrent'
    BY <1>1, <1>2, <1>4, <1>5, <1>6, JobBecomes
<1>8. /\ JobsFit' /\ AttemptsRemain' /\ InvitationsFit'
      /\ TouchedHaveAuthority' /\ ProviderAgrees' /\ OthersKept' /\ AppliedIsWanted'
    BY <1>1, <1>2, <1>4, <1>6, <1>7, TouchKeeps DEF store, facts
<1> QED
    BY <1>7, <1>8 DEF IInv

LEMMA ProviderActionFailsKeeps ==
    ASSUME IInv, NEW w \in Replicas, NEW class \in Classes, NEW applied \in BOOLEAN,
           NEW mailed \in BOOLEAN, ProviderActionFails(w, class, applied, mailed)
    PROVE  IInv'
<1> DEFINE job == [jobs[w] EXCEPT !.step = "FAILED", !.class = class, !.mailed = mailed]
<1>1. jobs[w].step # "IDLE" /\ jobs' = [jobs EXCEPT ![w] = job] /\ Touch(w)
    BY DEF ProviderActionFails
<1>2. job \in JobRows /\ job.step = "FAILED" /\ job.request = jobs[w].request
    BY <1>1, JobInHand DEF JobRows
<1> HIDE DEF job
<1>3. Job(w) \in RequestRows
    BY <1>1, JobInHand
<1>4. /\ account' \in [enabled : BOOLEAN, authority : Authorities \cup {None}]
      /\ Job(w).action \notin AuthorityActions => account' = account
      /\ Job(w).action = "UPDATE_ROLES" => account'.enabled = account.enabled
      /\ Job(w).action \in AuthorityActions \ {"UPDATE_ROLES"} =>
            account'.authority = account.authority
  <2>1. CASE account' = account
      BY <2>1 DEF IInv, TypeOK
  <2>2. CASE applied
    <3>1. account' = LET e == Effects(Job(w)) IN IF e = << >> THEN account ELSE e[Len(e)]
        BY <2>2 DEF ProviderActionFails
    <3> QED
        BY <1>3, <3>1, LastEffect DEF IInv
  <2> QED
      BY <2>1, <2>2 DEF ProviderActionFails
<1>5. faults' \in 0..MaxFaults
    BY BoundsAssumption DEF ProviderActionFails, IInv, TypeOK
<1>6. UNCHANGED <<store, requests, facts, calls, sessions>>
    BY DEF ProviderActionFails
<1>7. /\ TypeOK'
      /\ jobs'[w] = job /\ \A v \in Replicas : v # w => jobs'[v] = jobs[v]
      /\ SyncIsLatest' /\ CallsFit' /\ LiveSessionsAreCurrent'
    BY <1>1, <1>2, <1>4, <1>5, <1>6, JobBecomes
<1>8. /\ JobsFit' /\ AttemptsRemain' /\ InvitationsFit'
      /\ TouchedHaveAuthority' /\ ProviderAgrees' /\ OthersKept' /\ AppliedIsWanted'
    BY <1>1, <1>2, <1>4, <1>6, <1>7, TouchKeeps DEF store, facts
<1> QED
    BY <1>7, <1>8 DEF IInv

-----------------------------------------------------------------------------
(* A version is appended: what was read under an older one is no longer of   *)
(* the latest, and no open request is.                                       *)
LEMMA VersionAppended ==
    ASSUME IInv, NEW v \in VersionRows, versions' = Append(versions, v)
    PROVE  /\ versions' \in Seq(VersionRows) /\ versions' # << >>
           /\ Len(versions') = Len(versions) + 1 /\ Len(versions) \in Nat
           /\ DOMAIN versions' = 1..Len(versions')
           /\ DOMAIN versions \subseteq DOMAIN versions'
           /\ Latest' = v
           /\ \A n \in DOMAIN versions : n < Len(versions')
<1>1. versions \in Seq(VersionRows) /\ Len(versions) \in Nat /\ DOMAIN versions = 1..Len(versions)
    BY Rows DEF IInv, TypeOK, VersionRows
<1>2. /\ versions' \in Seq(VersionRows) /\ Len(versions') = Len(versions) + 1
      /\ versions'[Len(versions) + 1] = v
    BY <1>1, AppendProperties
<1>3. DOMAIN versions' = 1..Len(versions')
    BY <1>2, LenProperties
<1>4. versions' # << >>
    BY <1>1, <1>2, EmptySeq
<1> QED
    BY <1>1, <1>2, <1>3, <1>4 DEF Latest

LEMMA OlderNoLongerCurrent ==
    ASSUME IInv, NEW v \in VersionRows, versions' = Append(versions, v), UNCHANGED calls,
           DOMAIN requests' = DOMAIN requests,
           \A j \in DOMAIN requests : requests'[j].expected = requests[j].expected
    PROVE  /\ \A j : ~Current(j)'
           /\ \A c \in Calls : calls[c].revision # Len(versions')
           /\ OthersKept' /\ AppliedIsWanted'
<1>1. \A j \in DOMAIN requests : requests[j].expected \in DOMAIN versions
    BY Rows DEF IInv, RequestRows
<1>2. \A j \in DOMAIN requests : requests[j].expected # Len(versions')
    BY <1>1, VersionAppended, Rows DEF IInv
<1>3. \A j : ~Current(j)'
    BY <1>2 DEF Current
<1>4. \A c \in Calls : calls[c].revision # Len(versions')
    BY VersionAppended, Rows DEF IInv, TypeOK
<1>5. OthersKept' /\ AppliedIsWanted'
    BY <1>3 DEF OthersKept, AppliedIsWanted
<1> QED
    BY <1>3, <1>4, <1>5

(* The types of what refers to a revision outlive the next version. *)
CallRows == [stage : {"IDLE", "LOGIN", "OPENING", "CHECK"},
             session : Sessions \cup {None}, authority : Authorities \cup {None},
             revision : 0..Len(versions),
             seen : {None} \cup [enabled : BOOLEAN, authority : Authorities \cup {None}]]

LEMMA RowsOutlive ==
    ASSUME IInv, NEW v \in VersionRows, versions' = Append(versions, v)
    PROVE  /\ \A s \in Seq(RequestRows) : s \in Seq(RequestRows')
           /\ calls \in [Calls -> CallRows']
           /\ \A f \in [Sessions -> SessionRows] : f \in [Sessions -> SessionRows']
<1>1. DOMAIN versions \subseteq DOMAIN versions' /\ 0..Len(versions) \subseteq 0..Len(versions')
    BY VersionAppended
<1>2. RequestRows \subseteq RequestRows'
    BY <1>1 DEF RequestRows
<1>3. \A s \in Seq(RequestRows) : s \in Seq(RequestRows')
    BY <1>2, SeqMonotonic
<1>4. CallRows \subseteq CallRows' /\ SessionRows \subseteq SessionRows'
    BY <1>1 DEF CallRows, SessionRows
<1>5. calls \in [Calls -> CallRows]
    BY DEF IInv, TypeOK, CallRows
<1> QED
    BY <1>3, <1>4, <1>5

-----------------------------------------------------------------------------
(* The facts of invitations belong to requests that were filed. *)
InvitationStates == {"NONE", "ACCEPTED", "FAILED", "CANCELLED", "EXPIRED", "CONSUMED"}

LEMMA AcceptedWereFiled ==
    ASSUME IInv
    PROVE  /\ Accepted \subseteq 0..Len(requests) /\ Accepted \subseteq 0..MaxRequests
           /\ newest \in 0..Len(requests)
           /\ invitations \in [0..MaxRequests -> InvitationStates]
<1>1. invitations \in [0..MaxRequests -> InvitationStates] /\ newest \in 0..Len(requests)
    BY DEF IInv, TypeOK, InvitationStates
<1>2. \A i \in Accepted : i \in 0..MaxRequests /\ i <= Len(requests)
    BY <1>1 DEF Accepted, IInv, InvitationsFit
<1>3. Len(requests) \in Nat
    BY Rows DEF IInv
<1> QED
    BY <1>1, <1>2, <1>3, BoundsAssumption

LEMMA FactsFit ==
    ASSUME IInv, NEW i \in DOMAIN requests, NEW action \in Actions,
           AppendIdentityActionFacts(i, action)
    PROVE  /\ invitations' \in [0..MaxRequests -> InvitationStates]
           /\ newest' \in 0..Len(requests)
           /\ \A j \in 0..MaxRequests : invitations'[j] # "NONE" => j <= Len(requests)
<1>1. i \in 0..Len(requests) /\ i \in 0..MaxRequests /\ i <= Len(requests)
    BY Rows, BoundsAssumption DEF IInv
<1>2. \A j \in 0..MaxRequests : invitations[j] # "NONE" => j <= Len(requests)
    BY DEF IInv, InvitationsFit, TypeOK
<1>3. DOMAIN invitations = 0..MaxRequests
    BY AcceptedWereFiled
<1>4. CASE action = "RESEND_INVITATION"
  <2>1. PICK old \in SUBSET Accepted :
           /\ invitations' = [j \in DOMAIN invitations |->
                 IF j = i THEN "ACCEPTED" ELSE IF j \in old THEN "CANCELLED"
                 ELSE invitations[j]]
           /\ newest' \in {i} \cup old
      BY <1>4 DEF AppendIdentityActionFacts
  <2> QED
      BY <1>1, <1>2, <1>3, <2>1, AcceptedWereFiled DEF InvitationStates
<1>5. CASE action = "REACTIVATE"
    BY <1>1, <1>2, <1>3, <1>5, AcceptedWereFiled
    DEF AppendIdentityActionFacts, InvitationStates
<1>6. CASE action \in {"SUSPEND", "DEACTIVATE"}
  <2>1. /\ invitations' = [j \in DOMAIN invitations |->
              IF j \in Accepted THEN "CANCELLED" ELSE invitations[j]]
        /\ newest' \in IF Accepted = {} THEN {newest} ELSE Accepted
      BY <1>6 DEF AppendIdentityActionFacts
  <2> QED
      BY <1>2, <1>3, <2>1, AcceptedWereFiled DEF InvitationStates
<1>7. CASE action \notin {"RESEND_INVITATION", "REACTIVATE", "SUSPEND", "DEACTIVATE"}
    BY <1>2, <1>7, AcceptedWereFiled DEF AppendIdentityActionFacts, facts
<1> QED
    BY <1>4, <1>5, <1>6, <1>7

(* A request succeeds. *)
LEMMA FinalizeSuccessKeeps ==
    ASSUME IInv, NEW w \in Replicas, FinalizeSuccess(w) PROVE IInv'
<1> USE DEF store, facts
<1>1. PICK i \in DOMAIN requests, q \in RequestRows :
        /\ i = jobs[w].request /\ q = requests[i] /\ q.status = "RUNNING" /\ q = Job(w)
        /\ \A v \in Replicas : v # w => jobs[v].request # i
        /\ jobs[w].step = "APPLIED"
    BY JobInHand DEF FinalizeSuccess, Job
<1> DEFINE r == [q EXCEPT !.status = "SUCCEEDED"]
<1>2. /\ r \in RequestRows /\ r.status = "SUCCEEDED" /\ r.action = q.action
      /\ r.authority = q.authority /\ r.expected = q.expected
    BY DEF RequestRows, Settled
<1>3. requests' = [requests EXCEPT ![i] = r]
    BY <1>1 DEF FinalizeSuccess
<1> HIDE DEF r
<1>4. /\ requests' \in Seq(RequestRows)
      /\ Len(requests') = Len(requests) /\ DOMAIN requests' = DOMAIN requests
      /\ \A j \in DOMAIN requests : requests'[j] = IF j = i THEN r ELSE requests[j]
    BY <1>2, <1>3, RequestWritten DEF IInv
<1>5. jobs' = [jobs EXCEPT ![w] = NoJob] /\ UNCHANGED <<account, calls, faults, touched>>
    BY DEF FinalizeSuccess
<1>6. jobs'[w] = NoJob /\ \A v \in Replicas : v # w => jobs'[v] = jobs[v]
    BY <1>5 DEF IInv, TypeOK
<1>7. /\ jobs' \in [Replicas -> JobRows] /\ JobRows' = JobRows
      /\ deactivated' \in BOOLEAN
  <2>1. JobRows' = JobRows
      BY <1>4 DEF JobRows
  <2>2. jobs' \in [Replicas -> JobRows]
      BY <1>5, NoJobType DEF IInv, TypeOK, JobRows
  <2>3. deactivated' \in BOOLEAN
      BY DEF FinalizeSuccess, IInv, TypeOK
  <2> QED
      BY <2>1, <2>2, <2>3
<1>8. /\ invitations' \in [0..MaxRequests -> InvitationStates]
      /\ newest' \in 0..Len(requests')
      /\ InvitationsFit'
  <2>1. AppendIdentityActionFacts(i, q.action) /\ q.action \in Actions
      BY <1>1 DEF FinalizeSuccess, RequestRows
  <2>2. /\ invitations' \in [0..MaxRequests -> InvitationStates]
        /\ newest' \in 0..Len(requests)
        /\ \A j \in 0..MaxRequests : invitations'[j] # "NONE" => j <= Len(requests)
      BY <2>1, FactsFit
  <2> QED
      BY <1>4, <2>2 DEF InvitationsFit
<1>9. JobsFit' /\ AttemptsRemain'
  <2>1. NoJob \in JobRows
      BY NoJobType DEF IInv
  <2>2. r.status \in {"PENDING", "FAILED_RETRYABLE"} => r.attempts < MaxAttempts
      BY <1>2
  <2>3. \A v \in Replicas : v # w => jobs[v].request # i \/ jobs[v].step = "IDLE"
      BY <1>1
  <2> QED
      BY <1>2, <1>4, <1>6, <2>1, <2>2, <2>3, JobStepKeeps
<1>10. CASE q.action \in AuthorityActions
  <2> DEFINE v == AfterAction(q)
  <2>1. /\ q.expected = Len(versions) /\ versions' = Append(versions, v)
        /\ sync' = [revision |-> Len(versions) + 1, enabled |-> Enabled(v),
                    authority |-> v.authority, drift |-> "IN_SYNC"]
        /\ \A s \in Live : ~Locked(s)
        /\ sessions' = Revoked(Live)
      BY <1>1, <1>10 DEF FinalizeSuccess, AppendVersion, AuthorityActions
  <2>2. v \in VersionRows
    <3>1. versions[q.expected] \in VersionRows
        BY Rows DEF IInv, RequestRows
    <3>2. q.authority \in Authorities
        BY DEF RequestRows
    <3> QED
        BY <1>10, <3>1, <3>2 DEF AfterAction, VersionRows, AuthorityActions, States
  <2> HIDE DEF v
  <2>3. /\ versions' \in Seq(VersionRows) /\ versions' # << >>
        /\ Len(versions') = Len(versions) + 1 /\ Len(versions) \in Nat
        /\ DOMAIN versions' = 1..Len(versions')
        /\ DOMAIN versions \subseteq DOMAIN versions' /\ Latest' = v
      BY <2>1, <2>2, VersionAppended
  <2>4. /\ sessions' \in [Sessions -> SessionRows]
        /\ \A s \in Sessions : s \in Live => sessions'[s].state = "REVOKED"
        /\ \A s \in Sessions : s \notin Live => sessions'[s] = sessions[s]
        /\ \A c \in Calls : calls[c].stage = "CHECK" =>
              calls[c].session \in Sessions /\ sessions'[calls[c].session].state = "ACTIVE"
      BY <1>5, <2>1, RevokedSessions
  <2>5. /\ requests' \in Seq(RequestRows') /\ calls \in [Calls -> CallRows']
        /\ sessions' \in [Sessions -> SessionRows']
      BY <1>4, <2>1, <2>2, <2>4, RowsOutlive
  <2>6. sync' \in [revision : DOMAIN versions', enabled : BOOLEAN,
                   authority : Authorities \cup {None},
                   drift : {"IN_SYNC", "DRIFTED", "PROVIDER_UNAVAILABLE"}]
      BY <2>1, <2>2, <2>3 DEF VersionRows, Enabled
  <2>7. TypeOK'
    <3>1. /\ Len(requests') \in 0..MaxRequests /\ touched' \subseteq DOMAIN requests'
          /\ account' \in [enabled : BOOLEAN, authority : Authorities \cup {None}]
          /\ faults' \in 0..MaxFaults
        BY <1>4, <1>5 DEF IInv, TypeOK
    <3>2. versions' \in Seq([state : States, authority : Authorities])
        BY <2>3 DEF VersionRows
    <3>3. calls' \in [Calls -> CallRows']
        BY <1>5, <2>5
    <3> QED
        BY <1>7, <1>8, <2>3, <2>5, <2>6, <3>1, <3>2, <3>3
        DEF TypeOK, RequestRows, JobRows, CallRows, SessionRows, InvitationStates
  <2>8. (\A c \in Calls : calls[c].revision # Len(versions')) /\ OthersKept' /\ AppliedIsWanted'
      BY <1>2, <1>1, <1>4, <1>5, <2>1, <2>2, OlderNoLongerCurrent
  <2>9. SyncIsLatest'
      BY <2>1, <2>3 DEF SyncIsLatest
  <2>10. CallsFit'
      BY <1>5, <2>4, <2>8 DEF IInv, CallsFit, CallFits
  <2>11. LiveSessionsAreCurrent'
      BY <2>4 DEF LiveSessionsAreCurrent, Live
  <2>12. TouchedHaveAuthority'
    <3>1. touched \subseteq DOMAIN requests
        BY DEF IInv, TypeOK
    <3>2. \A j \in DOMAIN requests : requests'[j].action = requests[j].action
        BY <1>1, <1>2, <1>4
    <3> QED
        BY <1>5, <3>1, <3>2 DEF IInv, TouchedHaveAuthority
  <2>13. ProviderAgrees'
    <3> SUFFICES ASSUME \A j \in touched : requests'[j].status = "SUCCEEDED"
                 PROVE  account = [enabled |-> Enabled(v), authority |-> v.authority]
        BY <1>5, <2>3 DEF ProviderAgrees, Enabled
    <3>1. touched \subseteq DOMAIN requests
        BY DEF IInv, TypeOK
    <3>2. Unsettled \subseteq {i}
        BY <1>4, <3>1 DEF Unsettled
    <3>3. Current(i)
        BY <1>1, <1>10, <2>1, <3>2 DEF Current
    <3> QED
        BY <1>1, <3>3 DEF IInv, AppliedIsWanted, Wanted, v
  <2> QED
      BY <1>8, <1>9, <2>7, <2>8, <2>9, <2>10, <2>11, <2>12, <2>13 DEF IInv
<1>11. CASE q.action \notin AuthorityActions
  <2>1. /\ UNCHANGED <<versions, sync>>
        /\ \/ UNCHANGED sessions
           \/ /\ \A s \in Live : ~Locked(s)
              /\ sessions' = Revoked(Live)
      BY <1>1, <1>11 DEF FinalizeSuccess
  <2>2. sessions' \in [Sessions -> SessionRows]
      BY <1>5, <2>1, RevokedSessions DEF IInv, TypeOK, SessionRows
  <2>3. TypeOK'
      BY <1>4, <1>5, <1>7, <1>8, <2>1, <2>2
      DEF IInv, TypeOK, RequestRows, JobRows, SessionRows, InvitationStates
  <2>4. SyncIsLatest' /\ CallsFit' /\ LiveSessionsAreCurrent'
      BY <1>5, <2>1, RevokedKeeps, CallsSideKept
  <2>5. TouchedHaveAuthority' /\ ProviderAgrees' /\ OthersKept' /\ AppliedIsWanted'
    <3>1. i \notin touched
        BY <1>1, <1>11 DEF IInv, TouchedHaveAuthority
    <3>2. \A j \in DOMAIN requests :
             /\ j \in DOMAIN requests'
             /\ requests'[j].action = requests[j].action
             /\ requests'[j].authority = requests[j].authority
             /\ requests'[j].expected = requests[j].expected
             /\ requests'[j].status \in Open => requests[j].status \in Open
             /\ j \in touched =>
                   (requests'[j].status = "SUCCEEDED" <=> requests[j].status = "SUCCEEDED")
        BY <1>1, <1>2, <1>4, <3>1 DEF Open
    <3>3. \A v \in Replicas : jobs'[v].step = "APPLIED" => jobs'[v] = jobs[v]
        BY <1>6 DEF NoJob
    <3> QED
        BY <1>5, <2>1, <2>3, <3>2, <3>3, AccountSideKept
  <2> QED
      BY <1>8, <1>9, <2>3, <2>4, <2>5 DEF IInv
<1> QED
    BY <1>10, <1>11

-----------------------------------------------------------------------------
(* What a step of a browser leaves alone. *)
LEMMA WorkerSideKept ==
    ASSUME IInv, TypeOK', UNCHANGED <<versions, requests, invitations, jobs, account, touched>>
    PROVE  /\ JobsFit' /\ AttemptsRemain' /\ InvitationsFit'
           /\ TouchedHaveAuthority' /\ ProviderAgrees' /\ OthersKept' /\ AppliedIsWanted'
<1>1. JobsFit' /\ AttemptsRemain' /\ InvitationsFit'
    BY DEF IInv, JobsFit, JobFits, Job, AttemptsRemain, InvitationsFit
<1> QED
    BY <1>1, AccountSideKept

LEMMA ExpireInvitationKeeps ==
    ASSUME IInv, NEW i \in 0..MaxRequests, ExpireInvitation(i) PROVE IInv'
<1> USE DEF store, facts
<1>1. i \in 0..Len(requests) /\ i <= Len(requests)
    BY AcceptedWereFiled, Rows DEF ExpireInvitation, IInv
<1>2. invitations' = [invitations EXCEPT ![i] = "EXPIRED"] /\ newest' = i
    BY DEF ExpireInvitation
<1>3. /\ invitations' \in [0..MaxRequests -> InvitationStates]
      /\ \A j \in 0..MaxRequests : j # i => invitations'[j] = invitations[j]
    BY <1>2, AcceptedWereFiled DEF InvitationStates
<1>4. TypeOK'
    BY <1>1, <1>2, <1>3 DEF ExpireInvitation, IInv, TypeOK, InvitationStates
<1>5. InvitationsFit'
    BY <1>1, <1>3, AcceptedWereFiled DEF ExpireInvitation, IInv, InvitationsFit
<1>6. JobsFit' /\ AttemptsRemain'
    BY DEF IInv, JobsFit, JobFits, Job, AttemptsRemain, ExpireInvitation
<1>7. TouchedHaveAuthority' /\ ProviderAgrees' /\ OthersKept' /\ AppliedIsWanted'
    BY <1>4, AccountSideKept DEF ExpireInvitation
<1>8. SyncIsLatest' /\ CallsFit' /\ LiveSessionsAreCurrent'
    BY CallsSideKept DEF ExpireInvitation
<1> QED
    BY <1>4, <1>5, <1>6, <1>7, <1>8 DEF IInv

-----------------------------------------------------------------------------
(* A call takes something in hand: an observation, the version it read, or a *)
(* session that nobody else holds.                                           *)
LEMMA CallTakesKeeps ==
    ASSUME IInv, NEW c \in Calls, NEW n \in CallRows, calls' = [calls EXCEPT ![c] = n],
           UNCHANGED <<store, requests, facts, account, jobs, sessions, touched>>,
           faults' \in 0..MaxFaults,
           \/ n.stage = "LOGIN"
           \/ n.stage = "OPENING" /\ Latest = [state |-> "ACTIVE", authority |-> n.authority]
           \/ /\ n.stage = "CHECK" /\ n.session \in Sessions /\ ~Locked(n.session)
              /\ sessions[n.session].state = "ACTIVE"
    PROVE  IInv'
<1> USE DEF store, facts
<1>1. calls' \in [Calls -> CallRows]
    BY DEF IInv, TypeOK, CallRows
<1>2. TypeOK'
    BY <1>1 DEF IInv, TypeOK, CallRows
<1>3. calls'[c] = n /\ \A b \in Calls : b # c => calls'[b] = calls[b]
    BY DEF IInv, TypeOK
<1>4. ASSUME NEW b \in Calls PROVE CallFits(b)'
  <2>1. CASE b = c
      BY <1>3, <2>1 DEF CallFits, Latest
  <2>2. CASE b # c
      BY <1>3, <2>2 DEF IInv, CallsFit, CallFits, Latest
  <2> QED
      BY <2>1, <2>2
<1>5. ASSUME NEW a \in Calls, NEW b \in Calls, a # b,
             calls'[a].stage = "CHECK", calls'[b].stage = "CHECK"
      PROVE  calls'[a].session # calls'[b].session
  <2>1. CASE a # c /\ b # c
      BY <1>3, <1>5, <2>1 DEF IInv, CallsFit
  <2>2. CASE a = c
      BY <1>3, <1>5, <2>2 DEF Locked
  <2>3. CASE b = c
      BY <1>3, <1>5, <2>3 DEF Locked
  <2> QED
      BY <2>1, <2>2, <2>3
<1>6. CallsFit'
    BY <1>4, <1>5 DEF CallsFit
<1>7. SyncIsLatest' /\ LiveSessionsAreCurrent'
    BY DEF IInv, SyncIsLatest, LiveSessionsAreCurrent, Live, Latest
<1> QED
    BY <1>2, <1>6, <1>7, WorkerSideKept DEF IInv

(* A login. *)
LEMMA BeginLoginKeeps ==
    ASSUME IInv, NEW c \in Calls, BeginLogin(c) PROVE IInv'
<1> DEFINE n == [calls[c] EXCEPT !.stage = "LOGIN", !.authority = account.authority]
<1>1. calls' = [calls EXCEPT ![c] = n] /\ calls[c] \in CallRows
    BY DEF BeginLogin, IInv, TypeOK, CallRows
<1>2. n \in CallRows /\ n.stage = "LOGIN"
    BY <1>1 DEF CallRows, IInv, TypeOK
<1> HIDE DEF n
<1>3. faults' \in 0..MaxFaults
    BY DEF BeginLogin, IInv, TypeOK
<1> QED
    BY <1>1, <1>2, <1>3, CallTakesKeeps DEF BeginLogin

LEMMA ReadAuthorityKeeps ==
    ASSUME IInv, NEW c \in Calls, ReadAuthority(c) PROVE IInv'
<1> DEFINE n == [calls[c] EXCEPT !.stage = "OPENING", !.revision = Len(versions)]
<1>1. calls' = [calls EXCEPT ![c] = n] /\ calls[c] \in CallRows
    BY DEF ReadAuthority, IInv, TypeOK, CallRows
<1>2. n \in CallRows /\ n.stage = "OPENING" /\ n.authority = calls[c].authority
  <2>1. Len(versions) \in 0..Len(versions)
      BY Rows DEF IInv
  <2> QED
      BY <1>1, <2>1 DEF CallRows
<1> HIDE DEF n
<1>3. faults' \in 0..MaxFaults
    BY DEF ReadAuthority, IInv, TypeOK
<1>4. Latest = [state |-> "ACTIVE", authority |-> n.authority]
    BY <1>2 DEF ReadAuthority, Agrees
<1> QED
    BY <1>1, <1>2, <1>3, <1>4, CallTakesKeeps DEF ReadAuthority

LEMMA EndCallKeeps ==
    ASSUME IInv, NEW c \in Calls, EndCall(c) PROVE IInv'
BY CallEndKeeps DEF EndCall

LEMMA OpenSessionKeeps ==
    ASSUME IInv, NEW c \in Calls, NEW s \in Sessions, OpenSession(c, s) PROVE IInv'
<1> USE DEF store, facts
<1> DEFINE n == [state |-> "ACTIVE", revision |-> calls[c].revision,
                 authority |-> calls[c].authority, late |-> FALSE]
<1>1. /\ calls[c] \in CallRows /\ sync.revision = Len(versions)
      /\ calls[c].stage = "OPENING" /\ calls[c].revision = Len(versions)
    BY DEF OpenSession, StillDesired, IInv, TypeOK, CallRows, SyncIsLatest
<1>2. Latest = [state |-> "ACTIVE", authority |-> calls[c].authority]
    BY <1>1 DEF IInv, CallsFit, CallFits
<1>3. n \in SessionRows
    BY <1>1 DEF CallRows, SessionRows
<1>4. /\ calls' = [calls EXCEPT ![c] = NoCall] /\ sessions' = [sessions EXCEPT ![s] = n]
      /\ sync' = [sync EXCEPT !.enabled = TRUE, !.authority = calls[c].authority,
                              !.drift = "IN_SYNC"]
    BY DEF OpenSession
<1>5. n.revision = calls[c].revision /\ n.authority = calls[c].authority /\ n.state = "ACTIVE"
    OBVIOUS
<1> HIDE DEF n
<1>6. /\ sync' \in [revision : DOMAIN versions, enabled : BOOLEAN,
                    authority : Authorities \cup {None},
                    drift : {"IN_SYNC", "DRIFTED", "PROVIDER_UNAVAILABLE"}]
      /\ sync'.revision = sync.revision
    BY <1>1, <1>4 DEF CallRows, IInv, TypeOK
<1>7. calls' \in [Calls -> CallRows]
    BY <1>4, Rows DEF NoCall, CallRows, IInv, TypeOK
<1>8. TypeOK'
    BY <1>3, <1>4, <1>6, <1>7 DEF OpenSession, IInv, TypeOK, CallRows, SessionRows
<1>9. /\ calls'[c] = NoCall /\ \A b \in Calls : b # c => calls'[b] = calls[b]
      /\ sessions'[s] = n /\ \A t \in Sessions : t # s => sessions'[t] = sessions[t]
      /\ UNCHANGED versions /\ sessions[s].state = "NONE"
    BY <1>4 DEF OpenSession, IInv, TypeOK
<1>10. CallsFit'
    BY <1>9 DEF IInv, CallsFit, CallFits, NoCall, Latest
<1>11. LiveSessionsAreCurrent'
    BY <1>1, <1>2, <1>5, <1>9 DEF IInv, LiveSessionsAreCurrent, Live, Latest
<1>12. SyncIsLatest'
    BY <1>6, <1>9 DEF IInv, SyncIsLatest
<1> QED
    BY <1>8, <1>10, <1>11, <1>12, WorkerSideKept DEF OpenSession, IInv

(* The first login of an invited membership appends the version ACTIVE. *)
LEMMA ReconcileActivatedMembershipKeeps ==
    ASSUME IInv, NEW c \in Calls, ReconcileActivatedMembership(c) PROVE IInv'
<1> USE DEF store, facts
<1> DEFINE v == [Latest EXCEPT !.state = "ACTIVE"]
<1>1. /\ Latest \in VersionRows /\ Latest.state = "INVITED"
      /\ versions' = Append(versions, v)
      /\ sync' = [sync EXCEPT !.revision = Len(versions) + 1]
      /\ invitations' = [invitations EXCEPT ![newest] = "CONSUMED"]
      /\ invitations[newest] = "ACCEPTED"
    BY Rows DEF ReconcileActivatedMembership, Agrees, IInv
<1>2. v \in VersionRows /\ v.state = "ACTIVE" /\ v.authority = Latest.authority
    BY <1>1 DEF VersionRows, States
<1> HIDE DEF v
<1>3. /\ versions' \in Seq(VersionRows) /\ versions' # << >>
      /\ Len(versions') = Len(versions) + 1 /\ Len(versions) \in Nat
      /\ DOMAIN versions' = 1..Len(versions')
      /\ DOMAIN versions \subseteq DOMAIN versions' /\ Latest' = v
    BY <1>1, <1>2, VersionAppended
<1>4. requests \in Seq(RequestRows) /\ sessions \in [Sessions -> SessionRows]
    BY Rows DEF IInv, TypeOK, SessionRows
<1>5. /\ requests \in Seq(RequestRows') /\ calls \in [Calls -> CallRows']
      /\ sessions \in [Sessions -> SessionRows']
    BY <1>1, <1>2, <1>4, RowsOutlive
<1>6. UNCHANGED <<deactivated, requests, newest, account, jobs, calls, sessions, faults, touched>>
    BY DEF ReconcileActivatedMembership
<1>7. /\ sync' \in [revision : DOMAIN versions', enabled : BOOLEAN,
                    authority : Authorities \cup {None},
                    drift : {"IN_SYNC", "DRIFTED", "PROVIDER_UNAVAILABLE"}]
      /\ sync'.revision = Len(versions')
  <2>1. Len(versions) + 1 \in DOMAIN versions'
      BY <1>3
  <2>2. sync \in [revision : DOMAIN versions, enabled : BOOLEAN,
                  authority : Authorities \cup {None},
                  drift : {"IN_SYNC", "DRIFTED", "PROVIDER_UNAVAILABLE"}]
      BY DEF IInv, TypeOK
  <2> QED
      BY <1>1, <1>3, <2>1, <2>2
<1>8. /\ newest \in 0..MaxRequests
      /\ invitations' \in [0..MaxRequests -> InvitationStates]
      /\ \A j \in 0..MaxRequests : j # newest => invitations'[j] = invitations[j]
    BY <1>1, AcceptedWereFiled, Rows, BoundsAssumption DEF InvitationStates, IInv
<1>9. TypeOK'
  <2>1. versions' \in Seq([state : States, authority : Authorities])
      BY <1>3 DEF VersionRows
  <2> QED
      BY <1>3, <1>5, <1>6, <1>7, <1>8, <2>1
      DEF IInv, TypeOK, RequestRows, CallRows, SessionRows, InvitationStates
<1>10. (\A b \in Calls : calls[b].revision # Len(versions')) /\ OthersKept' /\ AppliedIsWanted'
    BY <1>1, <1>2, <1>6, OlderNoLongerCurrent
<1>11. CallsFit'
    BY <1>6, <1>10 DEF IInv, CallsFit, CallFits
<1>12. LiveSessionsAreCurrent'
  <2>1. Live = {}
      BY <1>1 DEF IInv, LiveSessionsAreCurrent
  <2> QED
      BY <1>6, <2>1 DEF LiveSessionsAreCurrent, Live
<1>13. SyncIsLatest'
    BY <1>7 DEF SyncIsLatest
<1>14. JobsFit' /\ AttemptsRemain' /\ TouchedHaveAuthority'
    BY <1>6 DEF IInv, JobsFit, JobFits, Job, AttemptsRemain, TouchedHaveAuthority
<1>15. InvitationsFit'
    BY <1>1, <1>6, <1>8, AcceptedWereFiled DEF IInv, InvitationsFit
<1>16. ProviderAgrees'
    BY <1>1, <1>2, <1>3, <1>6 DEF IInv, ProviderAgrees, Enabled
<1> QED
    BY <1>9, <1>10, <1>11, <1>12, <1>13, <1>14, <1>15, <1>16 DEF IInv

-----------------------------------------------------------------------------
(* A session. *)
LEMMA PassDeadlineKeeps ==
    ASSUME IInv, NEW s \in Sessions, PassDeadline(s) PROVE IInv'
<1> USE DEF store, facts
<1>1. sessions \in [Sessions -> SessionRows] /\ sessions' = [sessions EXCEPT ![s].late = TRUE]
    BY DEF PassDeadline, IInv, TypeOK, SessionRows
<1>2. /\ sessions' \in [Sessions -> SessionRows]
      /\ \A t \in Sessions : /\ sessions'[t].state = sessions[t].state
                             /\ sessions'[t].revision = sessions[t].revision
                             /\ sessions'[t].authority = sessions[t].authority
    BY <1>1 DEF SessionRows
<1>3. UNCHANGED <<store, requests, facts, account, jobs, calls, faults, touched>>
    BY DEF PassDeadline
<1>4. TypeOK'
    BY <1>2, <1>3 DEF IInv, TypeOK, SessionRows
<1>5. SyncIsLatest' /\ CallsFit'
    BY <1>2, <1>3 DEF IInv, SyncIsLatest, CallsFit, CallFits, Latest
<1>6. LiveSessionsAreCurrent'
    BY <1>2, <1>3 DEF IInv, LiveSessionsAreCurrent, Live, Latest
<1> QED
    BY <1>3, <1>4, <1>5, <1>6, WorkerSideKept DEF IInv

(* An unlocked session is refused or revoked. *)
LEMMA SessionEndKeeps ==
    ASSUME IInv, NEW s \in Sessions, ~Locked(s),
           NEW state \in {"DENIED", "REVOKED"},
           sessions' \in [Sessions -> SessionRows],
           sessions'[s].state = state,
           \A t \in Sessions : t # s => sessions'[t] = sessions[t],
           UNCHANGED <<store, requests, facts, account, jobs, calls, faults, touched>>
    PROVE  IInv'
<1> USE DEF store, facts
<1>1. TypeOK'
    BY DEF IInv, TypeOK, SessionRows
<1>2. SyncIsLatest' /\ LiveSessionsAreCurrent'
    BY DEF IInv, SyncIsLatest, LiveSessionsAreCurrent, Live, Latest
<1>3. CallsFit'
    BY DEF IInv, CallsFit, CallFits, Latest, Locked
<1> QED
    BY <1>1, <1>2, <1>3, WorkerSideKept DEF IInv

LEMMA AuthenticateDeniesKeeps ==
    ASSUME IInv, NEW s \in Sessions, AuthenticateDenies(s) PROVE IInv'
<1>1. /\ sessions' \in [Sessions -> SessionRows] /\ sessions'[s].state = "DENIED"
      /\ \A t \in Sessions : t # s => sessions'[t] = sessions[t]
  <2>1. sessions \in [Sessions -> SessionRows]
      BY DEF IInv, TypeOK, SessionRows
  <2>2. sessions' = [sessions EXCEPT ![s].state = "DENIED"]
      BY DEF AuthenticateDenies, Denied
  <2> QED
      BY <2>1, <2>2 DEF SessionRows
<1> QED
    BY <1>1, SessionEndKeeps DEF AuthenticateDenies

LEMMA RevokeKeeps ==
    ASSUME IInv, NEW s \in Sessions, Revoke(s) PROVE IInv'
<1>1. /\ {s} \in SUBSET Live /\ ~Locked(s) /\ sessions' = Revoked({s}) /\ UNCHANGED calls
    BY DEF Revoke
<1>2. /\ sessions' \in [Sessions -> SessionRows]
      /\ sessions'[s].state = "REVOKED"
      /\ \A t \in Sessions : t # s => sessions'[t] = sessions[t]
    BY <1>1, RevokedSessions
<1> QED
    BY <1>2, SessionEndKeeps DEF Revoke

LEMMA AuthenticateObservesKeeps ==
    ASSUME IInv, NEW c \in Calls, NEW s \in Sessions, AuthenticateObserves(c, s) PROVE IInv'
<1>1. NoCall \in CallRows
    BY Rows DEF NoCall, CallRows, IInv
<1>2. PICK n \in CallRows :
         n.stage = "CHECK" /\ n.session = s /\ calls' = [calls EXCEPT ![c] = n]
  <2>1. CASE calls' = [calls EXCEPT ![c] = [NoCall EXCEPT !.stage = "CHECK", !.session = s,
                                                          !.seen = account]]
    <3>1. [NoCall EXCEPT !.stage = "CHECK", !.session = s, !.seen = account] \in CallRows
        BY <1>1 DEF CallRows, IInv, TypeOK
    <3> QED
        BY <1>1, <2>1, <3>1 DEF CallRows
  <2>2. CASE calls' = [calls EXCEPT ![c] = [NoCall EXCEPT !.stage = "CHECK", !.session = s]]
    <3>1. [NoCall EXCEPT !.stage = "CHECK", !.session = s] \in CallRows
        BY <1>1 DEF CallRows
    <3> QED
        BY <1>1, <2>2, <3>1 DEF CallRows
  <2> QED
      BY <2>1, <2>2 DEF AuthenticateObserves
<1>3. faults' \in 0..MaxFaults
    BY BoundsAssumption DEF AuthenticateObserves, IInv, TypeOK
<1> QED
    BY <1>2, <1>3, CallTakesKeeps DEF AuthenticateObserves

LEMMA RecordObservationKeeps ==
    ASSUME IInv, NEW c \in Calls, RecordObservation(c) PROVE IInv'
<1> USE DEF store, facts
<1>1. PICK s \in Sessions : s = calls[c].session /\ calls[c].stage = "CHECK"
    BY DEF RecordObservation, IInv, CallsFit, CallFits
<1>2. /\ calls[c] \in CallRows /\ sessions \in [Sessions -> SessionRows]
      /\ sessions[s].state = "ACTIVE"
    BY <1>1 DEF IInv, TypeOK, CallRows, SessionRows, CallsFit, CallFits
<1>3. /\ sync' \in [revision : DOMAIN versions, enabled : BOOLEAN,
                    authority : Authorities \cup {None},
                    drift : {"IN_SYNC", "DRIFTED", "PROVIDER_UNAVAILABLE"}]
      /\ sync'.revision = sync.revision
  <2>1. sync \in [revision : DOMAIN versions, enabled : BOOLEAN,
                  authority : Authorities \cup {None},
                  drift : {"IN_SYNC", "DRIFTED", "PROVIDER_UNAVAILABLE"}]
      BY DEF IInv, TypeOK
  <2>2. calls[c].seen # None =>
           calls[c].seen \in [enabled : BOOLEAN, authority : Authorities \cup {None}]
      BY <1>2 DEF CallRows
  <2>3. \/ /\ calls[c].seen # None
           /\ \E d \in {"IN_SYNC", "DRIFTED"}, e \in {TRUE, calls[c].seen.enabled} :
                 sync' = [sync EXCEPT !.enabled = e,
                                      !.authority = calls[c].seen.authority, !.drift = d]
        \/ sync' = sync
        \/ sync' = [sync EXCEPT !.drift = "PROVIDER_UNAVAILABLE"]
      BY DEF RecordObservation
  <2>4. ASSUME calls[c].seen # None, NEW d \in {"IN_SYNC", "DRIFTED"},
               NEW e \in {TRUE, calls[c].seen.enabled},
               sync' = [sync EXCEPT !.enabled = e, !.authority = calls[c].seen.authority,
                                    !.drift = d]
        PROVE  <1>3!1 /\ <1>3!2
    <3>1. e \in BOOLEAN /\ calls[c].seen.authority \in Authorities \cup {None}
        BY <2>2, <2>4
    <3> QED
        BY <2>1, <2>4, <3>1
  <2>5. CASE sync' = sync
      BY <2>1, <2>5
  <2>6. CASE sync' = [sync EXCEPT !.drift = "PROVIDER_UNAVAILABLE"]
      BY <2>1, <2>6
  <2> QED
      BY <2>3, <2>4, <2>5, <2>6
<1>4. /\ sessions' \in [Sessions -> SessionRows]
      /\ \A t \in Sessions : t # s => sessions'[t] = sessions[t]
      /\ sessions'[s].state \in {"ACTIVE", "PENDING", "DENIED"}
      /\ sessions'[s].revision = sessions[s].revision
      /\ sessions'[s].authority = sessions[s].authority
  <2>1. \/ sessions' = [sessions EXCEPT ![s].late = FALSE]
        \/ sessions' = [sessions EXCEPT ![s].state = "DENIED"]
        \/ sessions' = [sessions EXCEPT ![s].state = "PENDING"]
      BY <1>1 DEF RecordObservation, Denied
  <2>2. PICK r \in {[sessions[s] EXCEPT !.late = FALSE], [sessions[s] EXCEPT !.state = "DENIED"],
                    [sessions[s] EXCEPT !.state = "PENDING"]} :
           sessions' = [sessions EXCEPT ![s] = r]
      BY <2>1
  <2>3. /\ r \in SessionRows
        /\ r.state \in {"ACTIVE", "PENDING", "DENIED"}
        /\ r.revision = sessions[s].revision /\ r.authority = sessions[s].authority
    <3>1. sessions[s] \in SessionRows
        BY <1>2
    <3>2. CASE r = [sessions[s] EXCEPT !.late = FALSE]
        BY <1>2, <3>1, <3>2 DEF SessionRows
    <3>3. CASE r = [sessions[s] EXCEPT !.state = "DENIED"]
        BY <3>1, <3>3 DEF SessionRows
    <3>4. CASE r = [sessions[s] EXCEPT !.state = "PENDING"]
        BY <3>1, <3>4 DEF SessionRows
    <3> QED
        BY <2>2, <3>2, <3>3, <3>4
  <2>4. sessions'[s] = r /\ \A t \in Sessions : t # s => sessions'[t] = sessions[t]
      BY <1>2, <2>2
  <2> QED
      BY <1>2, <2>2, <2>3, <2>4
<1>5. calls' = [calls EXCEPT ![c] = NoCall]
      /\ UNCHANGED <<versions, deactivated, requests, facts, account, jobs, faults, touched>>
    BY DEF RecordObservation
<1>6. calls'[c] = NoCall /\ \A b \in Calls : b # c => calls'[b] = calls[b]
    BY <1>5 DEF IInv, TypeOK
<1>7. calls' \in [Calls -> CallRows]
    BY <1>5, Rows DEF NoCall, CallRows, IInv, TypeOK
<1>8. TypeOK'
    BY <1>3, <1>4, <1>5, <1>7 DEF IInv, TypeOK, CallRows, SessionRows
<1>9. CallsFit'
    BY <1>1, <1>4, <1>5, <1>6 DEF IInv, CallsFit, CallFits, NoCall, Latest
<1>10. LiveSessionsAreCurrent'
    BY <1>2, <1>4, <1>5 DEF IInv, LiveSessionsAreCurrent, Live, Latest
<1>11. SyncIsLatest'
    BY <1>3, <1>5 DEF IInv, SyncIsLatest
<1> QED
    BY <1>5, <1>8, <1>9, <1>10, <1>11, WorkerSideKept DEF IInv

-----------------------------------------------------------------------------
(* The invariant holds at the start. *)
LEMMA InitIInv == Init => IInv
<1> SUFFICES ASSUME Init PROVE IInv
    OBVIOUS
<1> DEFINE v == [state |-> "INVITED", authority |-> Initial]
<1>1. v \in VersionRows
    BY BoundsAssumption DEF VersionRows, States
<1>2. /\ versions = <<v>> /\ versions \in Seq(VersionRows) /\ Len(versions) = 1
      /\ DOMAIN versions = {1} /\ Latest = v /\ versions # << >>
    BY <1>1 DEF Init, Latest
<1>3. requests = << >> /\ Len(requests) = 0 /\ DOMAIN requests = {}
      /\ requests \in Seq(RequestRows)
    BY EmptySeq DEF Init
<1>4. TypeOK
  <2>1. versions \in Seq([state : States, authority : Authorities])
      BY <1>2 DEF VersionRows
  <2>2. jobs \in [Replicas -> JobRows] /\ calls \in [Calls -> CallRows]
        /\ sessions \in [Sessions -> SessionRows]
      BY <1>2, <1>3 DEF Init, NoJob, NoCall, JobRows, CallRows, SessionRows
  <2>3. /\ sync \in [revision : DOMAIN versions, enabled : BOOLEAN,
                     authority : Authorities \cup {None},
                     drift : {"IN_SYNC", "DRIFTED", "PROVIDER_UNAVAILABLE"}]
        /\ account \in [enabled : BOOLEAN, authority : Authorities \cup {None}]
        /\ invitations \in [0..MaxRequests -> InvitationStates]
      BY <1>2, BoundsAssumption DEF Init, InvitationStates
  <2>4. /\ deactivated \in BOOLEAN /\ newest \in 0..Len(requests) /\ faults \in 0..MaxFaults
        /\ touched \subseteq DOMAIN requests /\ Len(requests) \in 0..MaxRequests
    <3>1. deactivated = FALSE /\ newest = 0 /\ faults = 0 /\ touched = {}
        BY DEF Init
    <3>2. 0 \in 0..MaxFaults /\ 0 \in 0..MaxRequests
        BY BoundsAssumption
    <3>3. newest \in 0..Len(requests) /\ Len(requests) \in 0..MaxRequests
        BY <1>3, <3>1, <3>2
    <3>4. touched \subseteq DOMAIN requests
        BY <3>1
    <3> QED
        BY <3>1, <3>2, <3>3, <3>4
  <2> QED
      BY <1>2, <1>3, <2>1, <2>2, <2>3, <2>4
      DEF TypeOK, RequestRows, JobRows, CallRows, SessionRows, InvitationStates
<1>5. JobsFit /\ AttemptsRemain /\ CallsFit
    BY <1>3 DEF Init, JobsFit, JobFits, NoJob, AttemptsRemain, CallsFit, CallFits, NoCall
<1>6. InvitationsFit
    BY <1>3 DEF Init, InvitationsFit
<1>7. SyncIsLatest /\ LiveSessionsAreCurrent
    BY <1>2 DEF Init, SyncIsLatest, LiveSessionsAreCurrent, Live
<1>8. TouchedHaveAuthority /\ OthersKept /\ AppliedIsWanted
    BY <1>3 DEF Init, TouchedHaveAuthority, OthersKept, AppliedIsWanted, NoJob
<1>9. ProviderAgrees
    BY <1>2 DEF Init, ProviderAgrees, Enabled
<1> QED
    BY <1>4, <1>5, <1>6, <1>7, <1>8, <1>9 DEF IInv

(* Every step keeps the invariant. *)
LEMMA NextKeepsIInv == IInv /\ [Next]_vars => IInv'
<1> SUFFICES ASSUME IInv, [Next]_vars PROVE IInv'
    OBVIOUS
<1>1. CASE \E action \in Actions, a \in Authorities : RequestLifecycle(action, a)
    BY <1>1, RequestLifecycleKeeps
<1>2. ASSUME NEW w \in Replicas, WorkerStep(w) PROVE IInv'
    BY <1>2, ClaimKeeps, ValidateKeeps, InvalidateRecoverySessionsKeeps,
       BeginProviderActionKeeps, ApplyProviderActionKeeps, RecordFailureKeeps,
       FinalizeSuccessKeeps, FinalizeIsRefusedKeeps DEF WorkerStep
<1>3. ASSUME NEW w \in Replicas,
             \/ \E class \in Classes, applied, mailed \in BOOLEAN :
                   ProviderActionFails(w, class, applied, mailed)
             \/ Crash(w)
             \/ \E c \in Calls : Deadlock(w, c)
      PROVE  IInv'
    BY <1>3, ProviderActionFailsKeeps, CrashKeeps, DeadlockKeeps
<1>4. CASE \E i \in 0..MaxRequests : ExpireInvitation(i)
    BY <1>4, ExpireInvitationKeeps
<1>5. ASSUME NEW c \in Calls,
             \/ BeginLogin(c) \/ ReconcileActivatedMembership(c) \/ ReadAuthority(c)
             \/ EndCall(c) \/ RecordObservation(c)
             \/ \E s \in Sessions : OpenSession(c, s) \/ AuthenticateObserves(c, s)
      PROVE  IInv'
    BY <1>5, BeginLoginKeeps, ReconcileActivatedMembershipKeeps, ReadAuthorityKeeps,
       EndCallKeeps, RecordObservationKeeps, OpenSessionKeeps, AuthenticateObservesKeeps
<1>6. CASE \E s \in Sessions : PassDeadline(s) \/ AuthenticateDenies(s) \/ Revoke(s)
    BY <1>6, PassDeadlineKeeps, AuthenticateDeniesKeeps, RevokeKeeps
<1>7. CASE UNCHANGED vars
  <2>1. TypeOK'
      BY <1>7 DEF vars, store, facts, IInv, TypeOK
  <2>2. SyncIsLatest' /\ CallsFit' /\ LiveSessionsAreCurrent'
      BY <1>7, CallsSideKept DEF vars, store, facts
  <2> QED
      BY <1>7, <2>1, <2>2, WorkerSideKept DEF vars, store, facts, IInv
<1> QED
    BY <1>1, <1>2, <1>3, <1>4, <1>5, <1>6, <1>7 DEF Next

(* The inductive invariant holds of the specification. *)
THEOREM Invariance == Spec => []IInv
<1> QED
    BY InitIInv, NextKeepsIInv, PTL DEF Spec

(* Every variable has its type; no request is claimed more often than its   *)
(* attempts allow.                                                          *)
THEOREM TypeCorrect == Spec => []TypeOK
<1>1. IInv => TypeOK
    BY DEF IInv
<1> QED
    BY <1>1, Invariance, PTL

(* No session outlives the version it was opened under: logins that read an *)
(* older version, and requests served while the version was replaced, leave *)
(* none behind.                                                             *)
THEOREM SessionsAreCurrent == Spec => []LiveSessionsAreCurrent
<1>1. IInv => LiveSessionsAreCurrent
    BY DEF IInv
<1> QED
    BY <1>1, Invariance, PTL

(* When every request that reached the provider has succeeded, the account  *)
(* is the one the latest version asks for.                                  *)
THEOREM ProviderIsInAgreement == Spec => []ProviderAgrees
<1>1. IInv => ProviderAgrees
    BY DEF IInv
<1> QED
    BY <1>1, Invariance, PTL

===============================================================================
