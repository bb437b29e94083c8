---------------------------- MODULE DeliveryWorkers ----------------------------
(***************************************************************************)
(* The last two loops of the worker process: documents of issued reports   *)
(* are rendered and stored, e-mails of notifications are sent.  Both claim *)
(* a message of the outbox under a lease, act outside the database and     *)
(* record what came of it; all replicas claim under one worker id, so the  *)
(* owner of a lease cannot tell two of them apart.  They differ in what    *)
(* tells an old claim from a new one: e-mails compare the attempt that was *)
(* claimed, documents compare nothing and rely on an object that is        *)
(* written once; e-mails record a failure in the transaction of a success, *)
(* documents in two statements without one.                                *)
(***************************************************************************)
EXTENDS Integers

CONSTANTS
    Documents,    \* render jobs, each with its outbox message
    Emails,       \* delivery jobs, each with its outbox message
    Replicas,     \* worker processes: each has one job in hand at a time
    Renders,      \* what the renderer in use makes of a document
    None,
    MaxAttempts,  \* attempts after which an e-mail is given up
    MaxFaults     \* bound: crashes, failed calls, leases outlived, upgrades

Jobs == Documents \cup Emails

ASSUME LimitsAssumption ==
    /\ MaxAttempts \in Nat \ {0} /\ MaxFaults \in Nat
    /\ Documents \cap Emails = {}
    /\ None \notin Jobs \cup Renders

VARIABLES
    status,    \* of the job
    attempts,  \* claims of an e-mail
    outbox,    \* whether the message is open, delivered or given up
    lease,     \* of the message: FREE has no owner
    renderer,  \* the renderer and template in use
    object,    \* the object of a document in the bucket
    version,   \* the released document version
    sent,      \* e-mails the mail server accepted at least once
    hand,      \* what each replica has in hand
    faults     \* faults so far

rows == <<status, attempts, outbox, lease, version>>
world == <<renderer, object, sent>>
vars == <<rows, world, hand, faults>>

Idle == [job |-> None, step |-> "IDLE", attempt |-> 0, render |-> None]

Init ==
    /\ status = [j \in Jobs |-> "PENDING"]
    /\ attempts = [e \in Emails |-> 0]
    /\ outbox = [j \in Jobs |-> "OPEN"]
    /\ lease = [j \in Jobs |-> "FREE"]
    /\ renderer \in Renders
    /\ object = [d \in Documents |-> None]
    /\ version = [d \in Documents |-> None]
    /\ sent = {}
    /\ hand = [w \in Replicas |-> Idle]
    /\ faults = 0

Fault == faults < MaxFaults /\ faults' = faults + 1
Step(w, step) == hand' = [hand EXCEPT ![w].step = step]
Done(w) == hand' = [hand EXCEPT ![w] = Idle]

\* Mutant: a job that is RUNNING is left to the replica that claimed it.
ClaimedStatesPending == {"PENDING", "FAILED"}

\* A document is claimed again while it is RUNNING, once its lease is over.
ClaimedStates == {"PENDING", "RUNNING", "FAILED"}

Available(j) == outbox[j] = "OPEN" /\ lease[j] # "HELD"

-----------------------------------------------------------------------------
(* Documents.                                                              *)

ClaimDocument(w, d) ==
    /\ hand[w] = Idle
    /\ Available(d)
    /\ status[d] \in ClaimedStates
    /\ status' = [status EXCEPT ![d] = "RUNNING"]
    /\ lease' = [lease EXCEPT ![d] = "HELD"]
    /\ hand' = [hand EXCEPT ![w] = [Idle EXCEPT !.job = d, !.step = "RENDER"]]
    /\ UNCHANGED <<attempts, outbox, version, world, faults>>

Render(w) ==
    /\ hand[w].step = "RENDER"
    /\ \/ /\ hand' = [hand EXCEPT ![w].step = "WRITE", ![w].render = renderer]
          /\ UNCHANGED faults
       \/ Step(w, "FAILED") /\ Fault
    /\ UNCHANGED <<rows, world>>

\* Mutant: an object that exists is taken for the one that was rendered.
SameObjectAny(d, r) == object[d] # None

\* Its bytes and the digests of renderer, template and source are compared.
SameObject(d, r) == object[d] = r

\* An object is written once.  A call of the bucket may fail, a write even after
\* it took effect.
WriteObject(w) ==
    LET d == hand[w].job
        r == hand[w].render
    IN /\ hand[w].step = "WRITE"
       /\ \/ /\ object[d] = None
             /\ object' = [object EXCEPT ![d] = r]
             /\ Step(w, "FINALIZE") /\ UNCHANGED faults
          \/ /\ object' \in {object, [object EXCEPT ![d] = IF @ = None THEN r ELSE @]}
             /\ Step(w, "FAILED") /\ Fault
          \/ /\ object[d] # None
             /\ Step(w, IF SameObject(d, r) THEN "FINALIZE" ELSE "FAILED")
             /\ UNCHANGED <<object, faults>>
       /\ UNCHANGED <<rows, renderer, sent>>

\* The version is released, unless one is, and the message delivered in one
\* transaction, if the job was not failed meanwhile and the message has an owner;
\* otherwise nothing changes.
FinalizeDocument(w) ==
    LET d == hand[w].job IN
    /\ hand[w].step = "FINALIZE"
    /\ IF status[d] \in {"RUNNING", "SUCCEEDED"} /\ outbox[d] = "OPEN" /\ lease[d] # "FREE"
       THEN /\ status' = [status EXCEPT ![d] = "SUCCEEDED"]
            /\ version' = [version EXCEPT ![d] = IF @ = None THEN hand[w].render ELSE @]
            /\ outbox' = [outbox EXCEPT ![d] = "DELIVERED"]
            /\ lease' = [lease EXCEPT ![d] = "FREE"]
       ELSE UNCHANGED <<status, version, outbox, lease>>
    /\ Done(w)
    /\ UNCHANGED <<attempts, world, faults>>

\* The failure is written to the job first, whatever became of it meanwhile.
RecordFailureOfJob(w) ==
    /\ hand[w].step = "FAILED"
    /\ status' = [status EXCEPT ![hand[w].job] = "FAILED"]
    /\ Step(w, "RELEASE")
    /\ UNCHANGED <<attempts, outbox, lease, version, world, faults>>

\* Then the message loses its lease, whoever holds it.
RecordFailureOfMessage(w) ==
    /\ hand[w].step = "RELEASE"
    /\ lease' = [lease EXCEPT ![hand[w].job] = "FREE"]
    /\ Done(w)
    /\ UNCHANGED <<status, attempts, outbox, version, world, faults>>

\* A new renderer or template gives other bytes.
Upgrade(r) ==
    /\ r # renderer
    /\ renderer' = r
    /\ Fault
    /\ UNCHANGED <<rows, object, sent, hand>>

-----------------------------------------------------------------------------
(* E-mails.                                                                *)

\* The claim leaves the status alone: the lease keeps others away.
ClaimEmail(w, e) ==
    /\ hand[w] = Idle
    /\ Available(e)
    /\ status[e] \in {"PENDING", "FAILED"}
    /\ attempts' = [attempts EXCEPT ![e] = @ + 1]
    /\ lease' = [lease EXCEPT ![e] = "HELD"]
    /\ hand' = [hand EXCEPT ![w] =
          [Idle EXCEPT !.job = e, !.step = "SEND", !.attempt = attempts[e] + 1]]
    /\ UNCHANGED <<status, outbox, version, world, faults>>

\* The server accepts the e-mail, refuses it, or its answer is lost.
Deliver(w) ==
    /\ hand[w].step = "SEND"
    /\ \/ sent' = sent \cup {hand[w].job} /\ Step(w, "ACCEPTED") /\ UNCHANGED faults
       \/ sent' = sent /\ Step(w, "REFUSED") /\ Fault
       \/ sent' \in {sent, sent \cup {hand[w].job}} /\ Step(w, "UNKNOWN") /\ Fault
    /\ UNCHANGED <<rows, renderer, object>>

\* Mutant: the job takes the terminal state of its message.
EmailStatusTerminal(step, attempt) ==
    CASE step = "ACCEPTED" -> "DELIVERED"
      [] step = "REFUSED" \/ (step = "UNKNOWN" /\ attempt >= MaxAttempts) -> "PERMANENT_FAILURE"
      [] OTHER -> "FAILED"

EmailStatus(step, attempt) ==
    CASE step = "ACCEPTED" -> "DELIVERED"
      [] step = "REFUSED" \/ (step = "UNKNOWN" /\ attempt >= MaxAttempts) -> "DEAD_LETTER"
      [] OTHER -> "FAILED"

\* Mutant: an outcome is recorded whatever became of the message since.
CountsAlways(e, attempt) == TRUE

\* An outcome counts if the message has an owner and no later claim was made.
Counts(e, attempt) == outbox[e] = "OPEN" /\ lease[e] # "FREE" /\ attempts[e] = attempt

FinalizeEmail(w) ==
    LET e == hand[w].job
        s == EmailStatus(hand[w].step, hand[w].attempt)
    IN /\ hand[w].step \in {"ACCEPTED", "REFUSED", "UNKNOWN"}
       /\ IF Counts(e, hand[w].attempt)
          THEN /\ status' = [status EXCEPT ![e] = s]
               /\ outbox' = [outbox EXCEPT ![e] = CASE s = "DELIVERED" -> "DELIVERED"
                                                    [] s = "FAILED" -> "OPEN"
                                                    [] OTHER -> "PERMANENT_FAILURE"]
               /\ lease' = [lease EXCEPT ![e] = "FREE"]
          ELSE UNCHANGED <<status, outbox, lease>>
       /\ Done(w)
       /\ UNCHANGED <<attempts, version, world, faults>>

-----------------------------------------------------------------------------
(* Time and crashes.                                                       *)

InHand(j) == \E w \in Replicas : hand[w].job = j

\* The lease of a replica that died runs out.
ExpireAbandoned(j) ==
    /\ lease[j] = "HELD"
    /\ ~InHand(j)
    /\ lease' = [lease EXCEPT ![j] = "EXPIRED"]
    /\ UNCHANGED <<status, attempts, outbox, version, world, hand, faults>>

\* Work takes longer than its lease.
Outlive(j) ==
    /\ lease[j] = "HELD"
    /\ InHand(j)
    /\ lease' = [lease EXCEPT ![j] = "EXPIRED"]
    /\ Fault
    /\ UNCHANGED <<status, attempts, outbox, version, world, hand>>

Crash(w) ==
    /\ hand[w] # Idle
    /\ Done(w)
    /\ Fault
    /\ UNCHANGED <<rows, world>>

Claim(w, j) == \/ j \in Documents /\ ClaimDocument(w, j)
               \/ j \in Emails /\ ClaimEmail(w, j)

Work(w) ==
    \/ Render(w) \/ WriteObject(w) \/ FinalizeDocument(w)
    \/ RecordFailureOfJob(w) \/ RecordFailureOfMessage(w)
    \/ Deliver(w) \/ FinalizeEmail(w)

Next ==
    \/ \E w \in Replicas, j \in Jobs : Claim(w, j)
    \/ \E w \in Replicas : Work(w) \/ Crash(w)
    \/ \E j \in Jobs : ExpireAbandoned(j) \/ Outlive(j)
    \/ \E r \in Renders : Upgrade(r)

Spec == Init /\ [][Next]_vars

(***************************************************************************)
(* A replica goes on with what it has in hand, time passes, and a message  *)
(* that is available again and again is claimed: one that failed waits     *)
(* behind the others.  That no job ahead of it makes every claim fail (its *)
(* snapshot does not decode) and that no other part of the worker's loop   *)
(* fails each time before the claim is reached is assumed.                 *)
(***************************************************************************)
FairSpec ==
    /\ Spec
    /\ \A w \in Replicas : WF_vars(Work(w))
    /\ \A j \in Jobs : /\ WF_vars(ExpireAbandoned(j))
                       /\ SF_vars(\E w \in Replicas : Claim(w, j))

-----------------------------------------------------------------------------
(* Every variable has its type.                                            *)
TypeOK ==
    /\ status \in [Jobs -> {"PENDING", "RUNNING", "FAILED", "SUCCEEDED", "DELIVERED",
                            "DEAD_LETTER"}]
    /\ attempts \in [Emails -> 0..(MaxFaults + 1)]
    /\ outbox \in [Jobs -> {"OPEN", "DELIVERED", "PERMANENT_FAILURE"}]
    /\ lease \in [Jobs -> {"FREE", "HELD", "EXPIRED"}]
    /\ renderer \in Renders
    /\ object \in [Documents -> Renders \cup {None}]
    /\ version \in [Documents -> Renders \cup {None}]
    /\ sent \subseteq Emails
    /\ hand \in [Replicas -> [job : Jobs \cup {None}, attempt : 0..(MaxFaults + 1),
                              render : Renders \cup {None},
                              step : {"IDLE", "RENDER", "WRITE", "FINALIZE", "FAILED",
                                      "RELEASE", "SEND", "ACCEPTED", "REFUSED",
                                      "UNKNOWN"}]]
    /\ faults \in 0..MaxFaults

\* A released version is the object in the bucket, and is released exactly when its
\* message is delivered.
VersionsAgree ==
    \A d \in Documents :
        /\ version[d] # None => object[d] = version[d]
        /\ outbox[d] = "DELIVERED" <=> version[d] # None

\* A job that reads SUCCEEDED has released its version.  One whose version is released
\* may read FAILED, and then for ever, but it takes two faults: a lease that was
\* outlived, so that two replicas are at work, and an attempt of one that fails.
StatusesAgree ==
    \A d \in Documents :
        /\ status[d] = "SUCCEEDED" => version[d] # None
        /\ version[d] # None =>
              status[d] = "SUCCEEDED" \/ (status[d] = "FAILED" /\ faults >= 2)

\* The message of an e-mail is settled exactly as its job is, and one that is
\* reported delivered was sent.
EmailsAgree ==
    \A e \in Emails :
        /\ outbox[e] = "DELIVERED" <=> status[e] = "DELIVERED"
        /\ outbox[e] = "PERMANENT_FAILURE" <=> status[e] = "DEAD_LETTER"
        /\ status[e] = "DELIVERED" => e \in sent

(***************************************************************************)
(* Database, bucket and mail server agree on what was released and sent,   *)
(* although replicas outlive their leases and each other's failures: the   *)
(* version that was released is the object that was stored, and job and    *)
(* message tell the same story of an e-mail.  The status of a render job,  *)
(* which the API shows, is only as good as one fault: after two the        *)
(* unfenced recordFailure may leave the job of a released version FAILED.  *)
(***************************************************************************)
OutcomesAgree == VersionsAgree /\ StatusesAgree /\ EmailsAgree

(***************************************************************************)
(* Every e-mail is delivered or given up, and every document is released   *)
(* unless another renderer's output already stands in its place: that one  *)
(* is refused for ever.                                                    *)
(***************************************************************************)
JobsSettle ==
    []<>(/\ \A e \in Emails : outbox[e] # "OPEN"
         /\ \A d \in Documents : outbox[d] = "OPEN" => object[d] \notin {None, renderer})

Promise == INSTANCE OutcomePromise WITH
    outcome <- outbox, stored <- object, released <- version

(***************************************************************************)
(* The workers keep OutcomePromise, whichever replica is late: an object   *)
(* that was written is never replaced, a release and the report of an      *)
(* e-mail are final, and neither comes before the effect it tells of.      *)
(***************************************************************************)
KeepsPromise == Promise!Spec

=============================================================================
