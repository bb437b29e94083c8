------------------------- MODULE DeliveryWorkersProofs -------------------------
(* Theorems about DeliveryWorkers, for every set of documents, e-mails and   *)
(* replicas, every limit of attempts and every number of faults.             *)
EXTENDS DeliveryWorkers, TLAPS

(***************************************************************************)
(* The inductive invariant.  What is recorded agrees with the world because *)
(* of what a replica may hold: a render it is about to release is the       *)
(* object that is stored, an e-mail it is about to report was sent.         *)
(***************************************************************************)
DocumentSteps == {"RENDER", "WRITE", "FINALIZE", "FAILED", "RELEASE"}
EmailSteps == {"SEND", "ACCEPTED", "REFUSED", "UNKNOWN"}

HandFits(w) ==
    /\ hand[w].step = "IDLE" => hand[w] = Idle
    /\ hand[w].step \in DocumentSteps => hand[w].job \in Documents
    /\ hand[w].step \in {"WRITE", "FINALIZE"} => hand[w].render \in Renders
    /\ hand[w].step = "FINALIZE" => object[hand[w].job] = hand[w].render
    /\ hand[w].step \in EmailSteps =>
          hand[w].job \in Emails /\ hand[w].attempt <= attempts[hand[w].job]
    /\ hand[w].step = "ACCEPTED" => hand[w].job \in sent

HandsFit == \A w \in Replicas : HandFits(w)

SettledIsFree == \A e \in Emails : outbox[e] # "OPEN" => lease[e] = "FREE"

(* An e-mail is claimed once more only after a fault: each attempt but the   *)
(* last has cost one, and the last has too unless its replica is at work.    *)
Claimant(w, e) == hand[w].job = e /\ hand[w].attempt = attempts[e]

BudgetOf(e) ==
    /\ attempts[e] <= faults + 1
    /\ outbox[e] = "OPEN" /\ lease[e] # "HELD" => attempts[e] <= faults
    /\ (\A w \in Replicas : ~Claimant(w, e)) /\ lease[e] = "HELD" => attempts[e] <= faults
    /\ \A w \in Replicas : Claimant(w, e) /\ hand[w].step \in {"REFUSED", "UNKNOWN"}
                               => attempts[e] <= faults

Budget == \A e \in Emails : BudgetOf(e)

IInv ==
    /\ TypeOK
    /\ HandsFit
    /\ SettledIsFree
    /\ Budget
    /\ VersionsAgree
    /\ EmailsAgree

-----------------------------------------------------------------------------
(* The invariant holds at the start. *)
LEMMA InitIInv == Init => IInv
<1> SUFFICES ASSUME Init PROVE IInv
    OBVIOUS
<1>1. TypeOK
    BY LimitsAssumption DEF Init, TypeOK, Idle
<1>2. HandsFit /\ SettledIsFree
    BY DEF Init, HandsFit, HandFits, SettledIsFree, Idle, DocumentSteps, EmailSteps, Jobs
<1>3. Budget
    BY LimitsAssumption DEF Init, Budget, BudgetOf, Claimant, Idle
<1>4. VersionsAgree /\ EmailsAgree
    BY DEF Init, VersionsAgree, EmailsAgree, Jobs
<1> QED
    BY <1>1, <1>2, <1>3, <1>4 DEF IInv

-----------------------------------------------------------------------------
(* A fault is one more, and within its bound. *)
LEMMA FaultCounts ==
    ASSUME TypeOK, Fault PROVE faults' = faults + 1 /\ faults' \in 0..MaxFaults
BY LimitsAssumption DEF TypeOK, Fault

(* Documents and e-mails are different jobs, and None is neither. *)
LEMMA JobsDiffer ==
    /\ \A d \in Documents : d \in Jobs /\ d \notin Emails /\ d # None
    /\ \A e \in Emails : e \in Jobs /\ e \notin Documents /\ e # None
BY LimitsAssumption DEF Jobs

(* A replica with a document, or with nothing, is no claimant of an e-mail. *)
LEMMA ClaimantIsEmail ==
    ASSUME IInv, NEW w \in Replicas, NEW e \in Emails, hand[w].job = e
    PROVE  hand[w].step \in EmailSteps
BY JobsDiffer DEF IInv, TypeOK, HandsFit, HandFits, Idle, DocumentSteps, EmailSteps

(* A replica's step leaves what the others hold true: objects stay, attempts *)
(* only grow, and what was sent stays sent.                                  *)
LEMMA OthersFit ==
    ASSUME IInv, NEW w \in Replicas, HandFits(w)',
           \A v \in Replicas : v # w => hand'[v] = hand[v],
           \A d \in Documents : object[d] # None => object'[d] = object[d],
           \A e \in Emails : attempts'[e] \in Nat /\ attempts'[e] >= attempts[e],
           sent \subseteq sent'
    PROVE  HandsFit'
<1> SUFFICES ASSUME NEW v \in Replicas, v # w PROVE HandFits(v)'
    BY DEF HandsFit
<1>1. HandFits(v) /\ hand'[v] = hand[v]
    BY DEF IInv, HandsFit
<1>2. \A r \in Renders : r # None
    BY LimitsAssumption
<1>3. hand[v].step \in EmailSteps => hand'[v].attempt <= attempts'[hand'[v].job]
  <2> SUFFICES ASSUME hand[v].step \in EmailSteps
               PROVE  hand'[v].attempt <= attempts'[hand'[v].job]
      OBVIOUS
  <2>1. PICK e \in Emails : e = hand[v].job
      BY <1>1 DEF HandFits
  <2>2. hand[v].attempt <= attempts[e] /\ attempts'[e] >= attempts[e] /\ attempts'[e] \in Nat
      BY <1>1, <2>1 DEF HandFits
  <2>3. hand[v].attempt \in Int /\ attempts[e] \in Int
      BY <2>1 DEF IInv, TypeOK
  <2> QED
      BY <1>1, <2>1, <2>2, <2>3
<1>4. hand[v].step = "FINALIZE" => object'[hand'[v].job] = hand'[v].render
    BY <1>1, <1>2 DEF HandFits, DocumentSteps
<1> QED
    BY <1>1, <1>3, <1>4 DEF HandFits, Idle

(* What a step on a document leaves alone.                                   *)
LEMMA DocumentStepKeepsEmails ==
    ASSUME IInv, NEW w \in Replicas,
           hand[w].job \notin Emails, hand'[w].job \notin Emails,
           \A v \in Replicas : v # w => hand'[v] = hand[v],
           UNCHANGED <<attempts, sent>>, faults' \in {faults, faults + 1},
           \A e \in Emails : /\ status'[e] = status[e]
                             /\ outbox'[e] = outbox[e] /\ lease'[e] = lease[e]
    PROVE  SettledIsFree' /\ Budget' /\ EmailsAgree'
<1>1. SettledIsFree' /\ EmailsAgree'
    BY DEF IInv, SettledIsFree, EmailsAgree
<1>2. ASSUME NEW e \in Emails PROVE BudgetOf(e)'
  <2>1. BudgetOf(e)
      BY DEF IInv, Budget
  <2>2. attempts[e] \in Nat /\ faults \in Nat /\ attempts'[e] = attempts[e] /\ faults' >= faults
        /\ faults' \in Nat
      BY LimitsAssumption DEF IInv, TypeOK
  <2>3. \A v \in Replicas : /\ Claimant(v, e)' <=> Claimant(v, e)
                            /\ Claimant(v, e)' => hand'[v] = hand[v]
      BY <2>2 DEF Claimant
  <2>4. outbox'[e] = outbox[e] /\ lease'[e] = lease[e]
      OBVIOUS
  <2> QED
      BY <2>1, <2>2, <2>3, <2>4 DEF BudgetOf
<1> QED
    BY <1>1, <1>2 DEF Budget

(* A fault pays for the attempt that is at work.                             *)
LEMMA FaultPays ==
    ASSUME IInv, Fault, UNCHANGED attempts
    PROVE  Budget'
<1> SUFFICES ASSUME NEW e \in Emails PROVE BudgetOf(e)'
    BY DEF Budget
<1>1. attempts[e] <= faults + 1
    BY DEF IInv, Budget, BudgetOf
<1>2. faults' = faults + 1 /\ attempts'[e] = attempts[e] /\ faults \in Nat /\ attempts[e] \in Nat
    BY LimitsAssumption DEF IInv, TypeOK, Fault
<1> QED
    BY <1>1, <1>2 DEF BudgetOf

-----------------------------------------------------------------------------
(* What a replica has in hand. *)
LEMMA JobInHand ==
    ASSUME IInv, NEW w \in Replicas
    PROVE  /\ hand[w] \in [job : Jobs \cup {None}, attempt : 0..(MaxFaults + 1),
                           render : Renders \cup {None},
                           step : {"IDLE"} \cup DocumentSteps \cup EmailSteps]
           /\ hand[w].step \in DocumentSteps => hand[w].job \in Documents
           /\ hand[w].step \in EmailSteps => hand[w].job \in Emails
           /\ hand[w] = Idle => hand[w].job \notin Jobs
<1>1. HandFits(w) /\ None \notin Jobs
    BY LimitsAssumption DEF IInv, HandsFit
<1>2. hand[w] \in [job : Jobs \cup {None}, attempt : 0..(MaxFaults + 1),
                   render : Renders \cup {None},
                   step : {"IDLE"} \cup DocumentSteps \cup EmailSteps]
    BY DEF IInv, TypeOK, DocumentSteps, EmailSteps
<1> QED
    BY <1>1, <1>2 DEF HandFits, Idle

(* A document is claimed. *)
LEMMA ClaimDocumentKeeps ==
    ASSUME IInv, NEW w \in Replicas, NEW d \in Documents, ClaimDocument(w, d) PROVE IInv'
<1> USE DEF rows, world, Step, Done
<1>1. TypeOK'
    BY JobInHand, JobsDiffer, LimitsAssumption DEF IInv, TypeOK, ClaimDocument, Idle, Fault
<1>2. HandsFit'
  <2>1. HandFits(w)'
      BY JobInHand, JobsDiffer DEF ClaimDocument, HandFits, HandsFit, Idle, DocumentSteps, EmailSteps, IInv, TypeOK
  <2> QED
      BY <2>1, OthersFit DEF ClaimDocument, IInv, TypeOK
<1>3. SettledIsFree' /\ Budget' /\ EmailsAgree'
    BY DocumentStepKeepsEmails, JobsDiffer, JobInHand DEF ClaimDocument, Idle, DocumentSteps, EmailSteps, Fault, IInv, TypeOK
<1>4. VersionsAgree'
    BY JobsDiffer, JobInHand DEF IInv, VersionsAgree, ClaimDocument, DocumentSteps, EmailSteps
<1> QED
    BY <1>1, <1>2, <1>3, <1>4 DEF IInv

(* A document is rendered. *)
LEMMA RenderKeeps ==
    ASSUME IInv, NEW w \in Replicas, Render(w) PROVE IInv'
<1> USE DEF rows, world, Step, Done
<1>1. TypeOK'
    BY JobInHand, JobsDiffer, LimitsAssumption DEF IInv, TypeOK, Render, Idle, Fault
<1>2. HandsFit'
  <2>1. HandFits(w)'
      BY JobInHand, JobsDiffer DEF Render, HandFits, HandsFit, Idle, DocumentSteps, EmailSteps, IInv, TypeOK
  <2> QED
      BY <2>1, OthersFit DEF Render, IInv, TypeOK
<1>3. SettledIsFree' /\ Budget' /\ EmailsAgree'
    BY DocumentStepKeepsEmails, JobsDiffer, JobInHand DEF Render, Idle, DocumentSteps, EmailSteps, Fault, IInv, TypeOK
<1>4. VersionsAgree'
    BY JobsDiffer, JobInHand DEF IInv, VersionsAgree, Render, DocumentSteps, EmailSteps
<1> QED
    BY <1>1, <1>2, <1>3, <1>4 DEF IInv

(* An object is written, once. *)
LEMMA WriteObjectKeeps ==
    ASSUME IInv, NEW w \in Replicas, WriteObject(w) PROVE IInv'
<1> USE DEF rows, world, Step, Done
<1>1. PICK d \in Documents, r \in Renders :
        /\ d = hand[w].job /\ r = hand[w].render /\ hand[w].step = "WRITE"
        /\ object' \in {object, [object EXCEPT ![d] = IF @ = None THEN r ELSE @]}
        /\ \E s \in {"FINALIZE", "FAILED"} :
              /\ hand' = [hand EXCEPT ![w].step = s]
              /\ s = "FINALIZE" => object'[d] = r
        /\ faults' = faults \/ Fault
        /\ UNCHANGED <<rows, renderer, sent>>
  <2>1. hand[w].step = "WRITE"
      BY DEF WriteObject
  <2>2. hand[w].job \in Documents /\ hand[w].render \in Renders
      BY <2>1, JobInHand DEF IInv, HandsFit, HandFits, DocumentSteps
  <2>3. object \in [Documents -> Renders \cup {None}]
      BY DEF IInv, TypeOK
  <2>4. \E s \in {"FINALIZE", "FAILED"} :
           /\ hand' = [hand EXCEPT ![w].step = s]
           /\ s = "FINALIZE" => object'[hand[w].job] = hand[w].render
      BY <2>2, <2>3 DEF WriteObject, SameObject
  <2>5. object' \in {object, [object EXCEPT ![hand[w].job] =
                                 IF @ = None THEN hand[w].render ELSE @]}
      BY <2>2, <2>3 DEF WriteObject
  <2> QED
      BY <2>1, <2>2, <2>4, <2>5 DEF WriteObject
<1>2. /\ object' \in [Documents -> Renders \cup {None}]
      /\ \A c \in Documents : object[c] # None => object'[c] = object[c]
    BY <1>1 DEF IInv, TypeOK
<1>3. /\ hand'[w].job = d /\ hand'[w].render = r /\ hand'[w].step \in {"FINALIZE", "FAILED"}
      /\ hand'[w].step = "FINALIZE" => object'[d] = r
      /\ \A v \in Replicas : v # w => hand'[v] = hand[v]
    BY <1>1 DEF IInv, TypeOK
<1>4. faults' \in {faults, faults + 1} /\ faults' \in 0..MaxFaults
    BY <1>1, LimitsAssumption DEF Fault, IInv, TypeOK
<1>5. TypeOK'
    BY <1>1, <1>2, <1>4 DEF IInv, TypeOK
<1>6. HandsFit'
  <2>1. HandFits(w)'
      BY <1>1, <1>3 DEF HandFits, DocumentSteps, EmailSteps
  <2> QED
      BY <1>1, <1>2, <1>3, <2>1, OthersFit DEF IInv, TypeOK
<1>7. SettledIsFree' /\ Budget' /\ EmailsAgree'
    BY <1>1, <1>3, <1>4, DocumentStepKeepsEmails, JobsDiffer
<1>8. VersionsAgree'
    BY <1>1, <1>2, LimitsAssumption DEF IInv, VersionsAgree, TypeOK
<1> QED
    BY <1>5, <1>6, <1>7, <1>8 DEF IInv

(* A version is released. *)
LEMMA FinalizeDocumentKeeps ==
    ASSUME IInv, NEW w \in Replicas, FinalizeDocument(w) PROVE IInv'
<1> USE DEF rows, world, Step, Done
<1>1. TypeOK'
  <2>1. PICK d \in Documents : d = hand[w].job /\ d \in Jobs
      BY JobInHand, JobsDiffer DEF FinalizeDocument, DocumentSteps
  <2>2. hand[w].render \in Renders \cup {None}
      BY JobInHand
  <2>3. hand' \in [Replicas -> [job : Jobs \cup {None}, attempt : 0..(MaxFaults + 1),
                               render : Renders \cup {None},
                               step : {"IDLE"} \cup DocumentSteps \cup EmailSteps]]
      BY JobInHand, LimitsAssumption
      DEF FinalizeDocument, Idle, IInv, TypeOK, DocumentSteps, EmailSteps
  <2> QED
      BY <2>1, <2>2, <2>3
      DEF IInv, TypeOK, FinalizeDocument, DocumentSteps, EmailSteps
<1>2. HandsFit'
  <2>1. HandFits(w)'
      BY JobInHand, JobsDiffer DEF FinalizeDocument, HandFits, HandsFit, Idle, DocumentSteps, EmailSteps, IInv, TypeOK
  <2> QED
      BY <2>1, OthersFit DEF FinalizeDocument, IInv, TypeOK
<1>3. SettledIsFree' /\ Budget' /\ EmailsAgree'
    BY DocumentStepKeepsEmails, JobsDiffer, JobInHand DEF FinalizeDocument, Idle, DocumentSteps, EmailSteps, Fault, IInv, TypeOK
<1>4. VersionsAgree'
  <2>1. PICK d \in Documents : d = hand[w].job
      BY JobInHand DEF FinalizeDocument, DocumentSteps
  <2>2. hand[w].render \in Renders /\ object[d] = hand[w].render /\ hand[w].render # None
      BY <2>1, LimitsAssumption DEF IInv, HandsFit, HandFits, FinalizeDocument
  <2>3. version[d] # None => object[d] = version[d]
      BY DEF IInv, VersionsAgree
  <2>4. \A c \in Documents : c # d => version'[c] = version[c] /\ outbox'[c] = outbox[c]
      BY <2>1, JobsDiffer DEF FinalizeDocument, IInv, TypeOK
  <2>5. \/ /\ version'[d] = IF version[d] = None THEN hand[w].render ELSE version[d]
           /\ outbox'[d] = "DELIVERED"
        \/ version'[d] = version[d] /\ outbox'[d] = outbox[d]
      BY <2>1, JobsDiffer DEF FinalizeDocument, IInv, TypeOK
  <2>6. object' = object
      BY DEF FinalizeDocument
  <2> QED
      BY <2>2, <2>3, <2>4, <2>5, <2>6 DEF IInv, VersionsAgree
<1> QED
    BY <1>1, <1>2, <1>3, <1>4 DEF IInv

(* The failure reaches the job. *)
LEMMA RecordFailureOfJobKeeps ==
    ASSUME IInv, NEW w \in Replicas, RecordFailureOfJob(w) PROVE IInv'
<1> USE DEF rows, world, Step, Done
<1>1. TypeOK'
    BY JobInHand, JobsDiffer, LimitsAssumption DEF IInv, TypeOK, RecordFailureOfJob, Idle, Fault
<1>2. HandsFit'
  <2>1. HandFits(w)'
      BY JobInHand, JobsDiffer DEF RecordFailureOfJob, HandFits, HandsFit, Idle, DocumentSteps, EmailSteps, IInv, TypeOK
  <2> QED
      BY <2>1, OthersFit DEF RecordFailureOfJob, IInv, TypeOK
<1>3. SettledIsFree' /\ Budget' /\ EmailsAgree'
    BY DocumentStepKeepsEmails, JobsDiffer, JobInHand DEF RecordFailureOfJob, Idle, DocumentSteps, EmailSteps, Fault, IInv, TypeOK
<1>4. VersionsAgree'
    BY JobsDiffer, JobInHand DEF IInv, VersionsAgree, RecordFailureOfJob, DocumentSteps, EmailSteps
<1> QED
    BY <1>1, <1>2, <1>3, <1>4 DEF IInv

(* Then the message. *)
LEMMA RecordFailureOfMessageKeeps ==
    ASSUME IInv, NEW w \in Replicas, RecordFailureOfMessage(w) PROVE IInv'
<1> USE DEF rows, world, Step, Done
<1>1. TypeOK'
    BY JobInHand, JobsDiffer, LimitsAssumption DEF IInv, TypeOK, RecordFailureOfMessage, Idle, Fault
<1>2. HandsFit'
  <2>1. HandFits(w)'
      BY JobInHand, JobsDiffer DEF RecordFailureOfMessage, HandFits, HandsFit, Idle, DocumentSteps, EmailSteps, IInv, TypeOK
  <2> QED
      BY <2>1, OthersFit DEF RecordFailureOfMessage, IInv, TypeOK
<1>3. SettledIsFree' /\ Budget' /\ EmailsAgree'
    BY DocumentStepKeepsEmails, JobsDiffer, JobInHand DEF RecordFailureOfMessage, Idle, DocumentSteps, EmailSteps, Fault, IInv, TypeOK
<1>4. VersionsAgree'
    BY JobsDiffer, JobInHand DEF IInv, VersionsAgree, RecordFailureOfMessage, DocumentSteps, EmailSteps
<1> QED
    BY <1>1, <1>2, <1>3, <1>4 DEF IInv

(* The renderer is upgraded. *)
LEMMA UpgradeKeeps ==
    ASSUME IInv, NEW r \in Renders, Upgrade(r) PROVE IInv'
<1> USE DEF rows, world
<1>1. TypeOK'
    BY LimitsAssumption DEF IInv, TypeOK, Upgrade, Fault
<1>2. HandsFit' /\ SettledIsFree' /\ EmailsAgree' /\ VersionsAgree'
    BY DEF IInv, HandsFit, HandFits, SettledIsFree, EmailsAgree, VersionsAgree, Upgrade
<1>3. Budget'
    BY FaultPays DEF Upgrade
<1> QED
    BY <1>1, <1>2, <1>3 DEF IInv

-----------------------------------------------------------------------------
(* An e-mail is claimed: its attempt is paid for by the faults before it. *)
LEMMA ClaimEmailKeeps ==
    ASSUME IInv, NEW w \in Replicas, NEW e \in Emails, ClaimEmail(w, e) PROVE IInv'
<1> USE DEF rows, world
<1>1. attempts[e] \in Nat /\ faults \in Nat /\ attempts[e] <= faults /\ e \in Jobs
    BY LimitsAssumption, JobsDiffer
    DEF ClaimEmail, Available, IInv, TypeOK, Budget, BudgetOf
<1>2. /\ \A f \in Emails : attempts'[f] = IF f = e THEN attempts[e] + 1 ELSE attempts[f]
      /\ \A j \in Jobs : lease'[j] = IF j = e THEN "HELD" ELSE lease[j]
      /\ hand'[w] = [Idle EXCEPT !.job = e, !.step = "SEND", !.attempt = attempts[e] + 1]
      /\ \A v \in Replicas : v # w => hand'[v] = hand[v]
      /\ hand[w] = Idle /\ outbox[e] = "OPEN"
    BY <1>1 DEF ClaimEmail, Available, IInv, TypeOK
<1>3. TypeOK'
  <2>1. attempts[e] + 1 \in 0..(MaxFaults + 1)
      BY <1>1, LimitsAssumption DEF IInv, TypeOK
  <2>2. attempts' \in [Emails -> 0..(MaxFaults + 1)]
      BY <2>1 DEF ClaimEmail, IInv, TypeOK
  <2> QED
      BY <1>1, <2>1, <2>2 DEF ClaimEmail, IInv, TypeOK, Idle
<1>4. HandsFit'
  <2>1. HandFits(w)'
      BY <1>1, <1>2 DEF HandFits, Idle, DocumentSteps, EmailSteps
  <2>2. \A f \in Emails : attempts'[f] \in Nat /\ attempts'[f] >= attempts[f]
      BY <1>2, <1>3 DEF TypeOK, IInv
  <2> QED
      BY <1>2, <2>1, <2>2, OthersFit DEF ClaimEmail
<1>5. SettledIsFree'
    BY <1>2, JobsDiffer DEF IInv, SettledIsFree, ClaimEmail
<1>6. ASSUME NEW f \in Emails PROVE BudgetOf(f)'
  <2>1. CASE f = e
    <3>1. Claimant(w, e)' /\ lease'[e] = "HELD" /\ attempts'[e] = attempts[e] + 1
        BY <1>1, <1>2 DEF Claimant, Idle
    <3>2. \A v \in Replicas : Claimant(v, e)' => v = w
      <4> SUFFICES ASSUME NEW v \in Replicas, v # w, Claimant(v, e)' PROVE FALSE
          OBVIOUS
      <4>1. hand[v].job = e /\ hand[v].attempt = attempts[e] + 1
          BY <1>2 DEF Claimant
      <4>2. hand[v].attempt <= attempts[e]
          BY <4>1, ClaimantIsEmail DEF IInv, HandsFit, HandFits
      <4>3. attempts[e] \in Nat
          BY DEF IInv, TypeOK
      <4> QED
          BY <4>1, <4>2, <4>3
    <3>3. hand'[w].step = "SEND"
        BY <1>2 DEF Idle
    <3>4. attempts'[e] <= faults' + 1
      <4>1. faults' = faults
          BY DEF ClaimEmail
      <4> QED
          BY <1>1, <3>1, <4>1
    <3>5. \A v \in Replicas : Claimant(v, e)' => hand'[v].step = "SEND"
        BY <3>2, <3>3 DEF Claimant
    <3> QED
        BY <2>1, <3>1, <3>4, <3>5 DEF BudgetOf, Claimant
  <2>2. CASE f # e
    <3>1. attempts'[f] = attempts[f] /\ lease'[f] = lease[f] /\ UNCHANGED <<outbox, faults>>
        BY <1>2, <2>2, JobsDiffer DEF ClaimEmail
    <3>2. \A v \in Replicas : /\ Claimant(v, f)' <=> Claimant(v, f)
                              /\ Claimant(v, f)' => hand'[v] = hand[v]
      <4>1. ~Claimant(w, f) /\ ~Claimant(w, f)'
          BY <1>2, <2>2, JobsDiffer DEF Claimant, Idle
      <4> QED
          BY <1>2, <3>1, <4>1 DEF Claimant
    <3> QED
        BY <3>1, <3>2 DEF BudgetOf, IInv, Budget
  <2> QED
      BY <2>1, <2>2
<1>7. Budget'
    BY <1>6 DEF Budget
<1>8. EmailsAgree' /\ VersionsAgree'
    BY DEF ClaimEmail, IInv, EmailsAgree, VersionsAgree
<1> QED
    BY <1>3, <1>4, <1>5, <1>7, <1>8 DEF IInv

(* What a step of a replica on an e-mail it keeps does to the budget. *)
LEMMA DeliverKeeps ==
    ASSUME IInv, NEW w \in Replicas, Deliver(w) PROVE IInv'
<1> USE DEF rows, world, Step
<1>1. PICK e \in Emails : e = hand[w].job /\ hand[w].step = "SEND"
    BY JobInHand DEF Deliver, EmailSteps
<1>2. /\ sent \subseteq sent' /\ sent' \subseteq sent \cup {e}
      /\ hand'[w].job = e /\ hand'[w].attempt = hand[w].attempt
      /\ hand'[w].step \in {"ACCEPTED", "REFUSED", "UNKNOWN"}
      /\ hand'[w].step = "ACCEPTED" => e \in sent'
      /\ \A v \in Replicas : v # w => hand'[v] = hand[v]
      /\ UNCHANGED <<rows, renderer, object>>
    BY <1>1 DEF Deliver, IInv, TypeOK
<1>3. (faults' = faults /\ hand'[w].step = "ACCEPTED") \/ Fault
    BY <1>1 DEF Deliver, IInv, TypeOK
<1>4. TypeOK'
    BY <1>1, LimitsAssumption DEF Deliver, Fault, IInv, TypeOK
<1>5. HandsFit'
  <2>1. HandFits(w) /\ hand[w].attempt <= attempts[e]
      BY <1>1 DEF IInv, HandsFit, HandFits, EmailSteps
  <2>2. HandFits(w)'
      BY <1>1, <1>2, <2>1 DEF HandFits, DocumentSteps, EmailSteps
  <2> QED
      BY <1>2, <2>2, OthersFit DEF IInv, TypeOK
<1>6. Budget'
  <2>1. CASE Fault
      BY <1>2, <2>1, FaultPays
  <2>2. CASE faults' = faults /\ hand'[w].step = "ACCEPTED"
    <3> SUFFICES ASSUME NEW f \in Emails PROVE BudgetOf(f)'
        BY DEF Budget
    <3>1. UNCHANGED <<outbox, lease, attempts, faults>>
        BY <1>2, <2>2
    <3>2. \A v \in Replicas : /\ Claimant(v, f)' <=> Claimant(v, f)
                              /\ v # w => hand'[v] = hand[v]
        BY <1>1, <1>2, <3>1 DEF Claimant
    <3> QED
        BY <2>2, <3>1, <3>2 DEF BudgetOf, IInv, Budget
  <2> QED
      BY <1>3, <2>1, <2>2
<1>7. SettledIsFree' /\ EmailsAgree' /\ VersionsAgree'
    BY <1>2 DEF IInv, SettledIsFree, EmailsAgree, VersionsAgree
<1> QED
    BY <1>4, <1>5, <1>6, <1>7 DEF IInv

(* A replica whose e-mail is out of its hands. *)
LEMMA EmailOutOfHand ==
    ASSUME IInv, NEW w \in Replicas, hand' = [hand EXCEPT ![w] = Idle],
           UNCHANGED <<attempts, sent, object>>
    PROVE  /\ HandsFit'
           /\ \A f \in Emails, v \in Replicas :
                 Claimant(v, f)' <=> v # w /\ Claimant(v, f)
           /\ \A v \in Replicas : v # w => hand'[v] = hand[v]
<1>1. hand'[w] = Idle /\ \A v \in Replicas : v # w => hand'[v] = hand[v]
    BY DEF IInv, TypeOK
<1>2. HandsFit'
  <2>1. HandFits(w)'
      BY <1>1 DEF HandFits, Idle, DocumentSteps, EmailSteps
  <2> QED
      BY <1>1, <2>1, OthersFit DEF IInv, TypeOK
<1>3. \A f \in Emails : ~Claimant(w, f)'
    BY <1>1, JobsDiffer DEF Claimant, Idle
<1> QED
    BY <1>1, <1>2, <1>3 DEF Claimant

(* An outcome that counts settles message and job alike. *)
LEMMA OutcomeCounts ==
    ASSUME IInv, NEW w \in Replicas, NEW e \in Emails, NEW s, hand[w].job = e,
           attempts[e] = hand[w].attempt,
           hand[w].step \in {"ACCEPTED", "REFUSED", "UNKNOWN"},
           s \in {"DELIVERED", "FAILED", "DEAD_LETTER"},
           s = "DELIVERED" <=> hand[w].step = "ACCEPTED",
           status' = [status EXCEPT ![e] = s],
           outbox' = [outbox EXCEPT ![e] = CASE s = "DELIVERED" -> "DELIVERED"
                                             [] s = "FAILED" -> "OPEN"
                                             [] OTHER -> "PERMANENT_FAILURE"],
           lease' = [lease EXCEPT ![e] = "FREE"],
           hand' = [hand EXCEPT ![w] = Idle],
           UNCHANGED <<attempts, version, world, faults>>
    PROVE  IInv'
<1> USE DEF world
<1>1. e \in Jobs
    BY JobsDiffer
<1> DEFINE o == CASE s = "DELIVERED" -> "DELIVERED"
                  [] s = "FAILED" -> "OPEN"
                  [] OTHER -> "PERMANENT_FAILURE"
<1>2. /\ o = "DELIVERED" <=> s = "DELIVERED"
      /\ o = "PERMANENT_FAILURE" <=> s = "DEAD_LETTER"
      /\ o = "OPEN" <=> s = "FAILED"
      /\ o \in {"OPEN", "DELIVERED", "PERMANENT_FAILURE"}
    OBVIOUS
<1>3. outbox' = [outbox EXCEPT ![e] = o]
    OBVIOUS
<1> HIDE DEF o
<1>4. \A j \in Jobs : /\ status'[j] = IF j = e THEN s ELSE status[j]
                      /\ outbox'[j] = IF j = e THEN o ELSE outbox[j]
                      /\ lease'[j] = IF j = e THEN "FREE" ELSE lease[j]
    BY <1>3 DEF IInv, TypeOK
<1>5. TypeOK'
  <2>1. /\ outbox' \in [Jobs -> {"OPEN", "DELIVERED", "PERMANENT_FAILURE"}]
        /\ lease' \in [Jobs -> {"FREE", "HELD", "EXPIRED"}]
        /\ status' \in [Jobs -> {"PENDING", "RUNNING", "FAILED", "SUCCEEDED", "DELIVERED",
                                 "DEAD_LETTER"}]
      BY <1>1, <1>2, <1>3 DEF IInv, TypeOK
  <2>2. hand' \in [Replicas -> [job : Jobs \cup {None}, attempt : 0..(MaxFaults + 1),
                                render : Renders \cup {None},
                                step : {"IDLE"} \cup DocumentSteps \cup EmailSteps]]
      BY JobInHand, LimitsAssumption DEF Idle, IInv, TypeOK, DocumentSteps, EmailSteps
  <2> QED
      BY <2>1, <2>2 DEF IInv, TypeOK, DocumentSteps, EmailSteps
<1>6. HandsFit'
    BY EmailOutOfHand
<1>7. SettledIsFree'
    BY <1>1, <1>4, JobsDiffer DEF IInv, SettledIsFree
<1>8. ASSUME NEW f \in Emails PROVE BudgetOf(f)'
  <2>1. BudgetOf(f) /\ f \in Jobs /\ UNCHANGED <<attempts, faults>>
      BY JobsDiffer DEF IInv, Budget
  <2>2. \A v \in Replicas : Claimant(v, f)' => Claimant(v, f) /\ hand'[v] = hand[v]
      BY EmailOutOfHand
  <2>3. CASE f = e
    <3>1. Claimant(w, e)
        BY DEF Claimant
    <3>2. hand[w].step \in {"REFUSED", "UNKNOWN"} => attempts[e] <= faults
        BY <2>1, <2>3, <3>1 DEF BudgetOf
    <3>3. lease'[e] = "FREE" /\ (outbox'[e] = "OPEN" => attempts[e] <= faults)
        BY <1>1, <1>2, <1>4, <3>2
    <3> QED
        BY <2>1, <2>2, <2>3, <3>3 DEF BudgetOf
  <2>4. CASE f # e
    <3>1. ~Claimant(w, f)
        BY <2>4 DEF Claimant
    <3>2. \A v \in Replicas : Claimant(v, f)' <=> Claimant(v, f)
        BY <3>1, EmailOutOfHand
    <3> QED
        BY <1>4, <2>1, <2>2, <2>4, <3>2 DEF BudgetOf
  <2> QED
      BY <2>3, <2>4
<1>9. Budget'
    BY <1>8 DEF Budget
<1>10. EmailsAgree'
  <2>1. s = "DELIVERED" => e \in sent
      BY DEF IInv, HandsFit, HandFits
  <2> QED
      BY <1>1, <1>2, <1>4, <2>1, JobsDiffer DEF IInv, EmailsAgree
<1>11. VersionsAgree'
    BY <1>4, JobsDiffer DEF IInv, VersionsAgree
<1> QED
    BY <1>5, <1>6, <1>7, <1>9, <1>10, <1>11 DEF IInv

(* One that comes too late changes nothing but the replica. *)
LEMMA OutcomeTooLate ==
    ASSUME IInv, NEW w \in Replicas, NEW e \in Emails, hand[w].job = e,
           ~(outbox[e] = "OPEN" /\ lease[e] # "FREE" /\ attempts[e] = hand[w].attempt),
           hand' = [hand EXCEPT ![w] = Idle],
           UNCHANGED <<rows, world, faults>>
    PROVE  IInv'
<1> USE DEF rows, world
<1>1. TypeOK'
    BY LimitsAssumption DEF Idle, IInv, TypeOK
<1>2. HandsFit'
    BY EmailOutOfHand
<1>3. ASSUME NEW f \in Emails PROVE BudgetOf(f)'
  <2>1. BudgetOf(f) /\ UNCHANGED <<attempts, faults, outbox, lease>>
      BY DEF IInv, Budget
  <2>2. \A v \in Replicas : Claimant(v, f)' => Claimant(v, f) /\ hand'[v] = hand[v]
      BY EmailOutOfHand
  <2>3. CASE Claimant(w, f)
    <3>1. f = e /\ attempts[e] = hand[w].attempt
        BY <2>3 DEF Claimant
    <3>2. lease[e] # "HELD" \/ outbox[e] # "OPEN"
        BY <3>1
        DEF IInv, TypeOK
    <3> QED
        BY <2>1, <2>2, <3>1, <3>2 DEF BudgetOf, IInv, SettledIsFree
  <2>4. CASE ~Claimant(w, f)
    <3>1. \A v \in Replicas : Claimant(v, f)' <=> Claimant(v, f)
        BY <2>4, EmailOutOfHand
    <3> QED
        BY <2>1, <2>2, <3>1 DEF BudgetOf
  <2> QED
      BY <2>3, <2>4
<1>4. Budget'
    BY <1>3 DEF Budget
<1>5. SettledIsFree' /\ EmailsAgree' /\ VersionsAgree'
    BY DEF IInv, SettledIsFree, EmailsAgree, VersionsAgree
<1> QED
    BY <1>1, <1>2, <1>4, <1>5 DEF IInv

(* The outcome of an e-mail is recorded, or comes too late. *)
LEMMA FinalizeEmailKeeps ==
    ASSUME IInv, NEW w \in Replicas, FinalizeEmail(w) PROVE IInv'
<1> USE DEF rows, world, Done
<1>1. PICK e \in Emails : e = hand[w].job /\ hand[w].step \in {"ACCEPTED", "REFUSED", "UNKNOWN"}
    BY JobInHand DEF FinalizeEmail, EmailSteps
<1> DEFINE s == EmailStatus(hand[w].step, hand[w].attempt)
<1>2. /\ s \in {"DELIVERED", "FAILED", "DEAD_LETTER"}
      /\ s = "DELIVERED" <=> hand[w].step = "ACCEPTED"
    BY <1>1 DEF EmailStatus
<1> HIDE DEF s
<1>3. e \in Jobs /\ hand' = [hand EXCEPT ![w] = Idle]
      /\ UNCHANGED <<attempts, version, world, faults>>
    BY <1>1, JobsDiffer DEF FinalizeEmail
<1>4. CASE Counts(e, hand[w].attempt)
  <2>1. /\ status' = [status EXCEPT ![e] = s]
        /\ outbox' = [outbox EXCEPT ![e] = CASE s = "DELIVERED" -> "DELIVERED"
                                             [] s = "FAILED" -> "OPEN"
                                             [] OTHER -> "PERMANENT_FAILURE"]
        /\ lease' = [lease EXCEPT ![e] = "FREE"]
      BY <1>1, <1>4 DEF FinalizeEmail, s
  <2> QED
      BY <1>1, <1>2, <1>3, <1>4, <2>1, OutcomeCounts DEF Counts
<1>5. CASE ~Counts(e, hand[w].attempt)
  <2>1. UNCHANGED <<status, outbox, lease>>
      BY <1>1, <1>5 DEF FinalizeEmail
  <2> QED
      BY <1>1, <1>3, <1>5, <2>1, OutcomeTooLate DEF Counts
<1> QED
    BY <1>4, <1>5

-----------------------------------------------------------------------------
(* A lease runs out. *)
LEMMA LeaseEndKeeps ==
    ASSUME IInv, NEW j \in Jobs, ExpireAbandoned(j) \/ Outlive(j) PROVE IInv'
<1> USE DEF rows, world
<1>1. TypeOK'
    BY LimitsAssumption DEF IInv, TypeOK, ExpireAbandoned, Outlive, Fault
<1>2. HandsFit' /\ EmailsAgree' /\ VersionsAgree'
    BY DEF IInv, HandsFit, HandFits, EmailsAgree, VersionsAgree, ExpireAbandoned, Outlive
<1>3. /\ lease[j] = "HELD" /\ UNCHANGED <<outbox, attempts, hand>>
      /\ \A i \in Jobs : lease'[i] = IF i = j THEN "EXPIRED" ELSE lease[i]
    BY DEF ExpireAbandoned, Outlive, IInv, TypeOK
<1>4. SettledIsFree'
    BY <1>3, JobsDiffer DEF IInv, SettledIsFree
<1>5. Budget'
  <2>1. CASE Outlive(j)
      BY <2>1, FaultPays DEF Outlive
  <2>2. CASE ExpireAbandoned(j)
    <3> SUFFICES ASSUME NEW e \in Emails PROVE BudgetOf(e)'
        BY DEF Budget
    <3>1. BudgetOf(e) /\ e \in Jobs /\ UNCHANGED faults
        BY <2>2, JobsDiffer DEF IInv, Budget, ExpireAbandoned
    <3>2. \A v \in Replicas : Claimant(v, e)' <=> Claimant(v, e)
        BY <1>3 DEF Claimant
    <3>3. CASE e = j
      <4>1. \A v \in Replicas : ~Claimant(v, e)
          BY <2>2, <3>3 DEF ExpireAbandoned, InHand, Claimant
      <4> QED
          BY <1>3, <3>1, <3>2, <3>3, <4>1 DEF BudgetOf
    <3>4. CASE e # j
        BY <1>3, <3>1, <3>2, <3>4 DEF BudgetOf
    <3> QED
        BY <3>3, <3>4
  <2> QED
      BY <2>1, <2>2
<1> QED
    BY <1>1, <1>2, <1>4, <1>5 DEF IInv

(* A replica dies with what it had in hand. *)
LEMMA CrashKeeps ==
    ASSUME IInv, NEW w \in Replicas, Crash(w) PROVE IInv'
<1> USE DEF rows, world, Done
<1>1. TypeOK'
    BY LimitsAssumption DEF IInv, TypeOK, Crash, Idle, Fault
<1>2. HandsFit'
    BY EmailOutOfHand DEF Crash
<1>3. SettledIsFree' /\ EmailsAgree' /\ VersionsAgree'
    BY DEF IInv, SettledIsFree, EmailsAgree, VersionsAgree, Crash
<1>4. Budget'
    BY FaultPays DEF Crash
<1> QED
    BY <1>1, <1>2, <1>3, <1>4 DEF IInv

-----------------------------------------------------------------------------
(* Every step keeps the invariant. *)
LEMMA NextKeepsIInv == IInv /\ [Next]_vars => IInv'
<1> SUFFICES ASSUME IInv, [Next]_vars PROVE IInv'
    OBVIOUS
<1>1. CASE \E w \in Replicas, j \in Jobs : Claim(w, j)
    BY <1>1, ClaimDocumentKeeps, ClaimEmailKeeps DEF Claim
<1>2. CASE \E w \in Replicas : Work(w)
    BY <1>2, RenderKeeps, WriteObjectKeeps, FinalizeDocumentKeeps, RecordFailureOfJobKeeps,
       RecordFailureOfMessageKeeps, DeliverKeeps, FinalizeEmailKeeps DEF Work
<1>3. CASE \E w \in Replicas : Crash(w)
    BY <1>3, CrashKeeps
<1>4. CASE \E j \in Jobs : ExpireAbandoned(j) \/ Outlive(j)
    BY <1>4, LeaseEndKeeps
<1>5. CASE \E r \in Renders : Upgrade(r)
    BY <1>5, UpgradeKeeps
<1>6. CASE UNCHANGED vars
    BY <1>6 DEF vars, rows, world, IInv, TypeOK, HandsFit, HandFits, SettledIsFree, Budget,
       BudgetOf, Claimant, VersionsAgree, EmailsAgree
<1> QED
    BY <1>1, <1>2, <1>3, <1>4, <1>5, <1>6 DEF Next

(* The inductive invariant holds of the specification. *)
THEOREM Invariance == Spec => []IInv
<1> QED
    BY InitIInv, NextKeepsIInv, PTL DEF Spec

(* Every variable of the two loops has its type; in particular no e-mail is *)
(* attempted more than once beyond the faults that befell its replicas.     *)
THEOREM TypeCorrect == Spec => []TypeOK
<1>1. IInv => TypeOK
    BY DEF IInv
<1> QED
    BY <1>1, Invariance, PTL

(* An e-mail is claimed again only after a fault: its attempts never exceed *)
(* the faults so far by more than the one at work.                          *)
THEOREM AttemptsArePaidFor == Spec => [](\A e \in Emails : attempts[e] <= faults + 1)
<1>1. IInv => \A e \in Emails : attempts[e] <= faults + 1
    BY DEF IInv, Budget, BudgetOf
<1> QED
    BY <1>1, Invariance, PTL

-----------------------------------------------------------------------------
(* What the status of a render job is worth.  A failure reaches the job of a *)
(* released version only from a second replica at work on it, which costs a  *)
(* fault, and failing costs another: by a failed call, or by an upgrade that *)
(* makes its output differ from the object.                                  *)
Alone(d) == \A w \in Replicas : hand[w].job = d =>
                lease[d] = "HELD" /\ \A v \in Replicas : hand[v].job = d => v = w
Mixed(d) == \/ object[d] \notin {None, renderer}
            \/ \E w \in Replicas : hand[w].job = d /\ hand[w].render \notin {None, renderer}
Failing(d) == \E w \in Replicas : hand[w].job = d /\ hand[w].step \in {"FAILED", "RELEASE"}

PaidFor(d) ==
    /\ ~Alone(d) \/ Mixed(d) \/ Failing(d) => faults >= 1
    /\ ~Alone(d) /\ (Mixed(d) \/ Failing(d)) => faults >= 2

ReleasedIsFree == \A d \in Documents : version[d] # None => lease[d] = "FREE"

StatusInv ==
    /\ IInv
    /\ \A d \in Documents : PaidFor(d)
    /\ ReleasedIsFree
    /\ StatusesAgree

LEMMA InitStatusInv == Init => StatusInv
<1> SUFFICES ASSUME Init PROVE StatusInv
    OBVIOUS
<1>1. ASSUME NEW d \in Documents PROVE Alone(d) /\ ~Mixed(d) /\ ~Failing(d)
    BY JobsDiffer DEF Init, Idle, Alone, Mixed, Failing
<1>2. ReleasedIsFree /\ StatusesAgree
    BY JobsDiffer DEF Init, ReleasedIsFree, StatusesAgree
<1> QED
    BY <1>1, <1>2, InitIInv DEF StatusInv, PaidFor

(* A step that breaks nothing needs no fault. *)
LEMMA NothingBroken ==
    ASSUME StatusInv, NEW d \in Documents, faults' \in Nat, faults' >= faults,
           Alone(d) => Alone(d)', Mixed(d)' => Mixed(d), Failing(d)' => Failing(d)
    PROVE  PaidFor(d)'
<1>1. PaidFor(d) /\ faults \in Nat
    BY LimitsAssumption DEF StatusInv, IInv, TypeOK
<1> QED
    BY <1>1 DEF PaidFor

(* A fault pays for one thing that breaks. *)
LEMMA OneThingBroken ==
    ASSUME StatusInv, NEW d \in Documents, faults' = faults + 1,
           \/ Alone(d) => Alone(d)'
           \/ (Mixed(d)' => Mixed(d)) /\ (Failing(d)' => Failing(d))
    PROVE  PaidFor(d)'
<1>1. PaidFor(d) /\ faults \in Nat
    BY LimitsAssumption DEF StatusInv, IInv, TypeOK
<1> QED
    BY <1>1 DEF PaidFor

(* Where statuses, versions and leases of documents stay, what is said of    *)
(* them stays true.                                                          *)
LEMMA StatusesStay ==
    ASSUME StatusInv, faults' \in Nat, faults' >= faults, UNCHANGED version,
           \A d \in Documents : status'[d] = status[d] /\ lease'[d] \in {lease[d], "FREE"}
    PROVE  ReleasedIsFree' /\ StatusesAgree'
<1>1. faults \in Nat
    BY LimitsAssumption DEF StatusInv, IInv, TypeOK
<1> QED
    BY <1>1 DEF StatusInv, ReleasedIsFree, StatusesAgree

(* A replica lets go of what it has in hand. *)
LEMMA LettingGo ==
    ASSUME StatusInv, NEW w \in Replicas, Done(w), UNCHANGED <<object, renderer>>,
           faults' \in Nat, faults' >= faults, NEW d \in Documents,
           lease'[d] = lease[d] \/ hand[w].job = d
    PROVE  PaidFor(d)'
<1>1. /\ hand'[w] = Idle
      /\ \A v \in Replicas : v # w => hand'[v] = hand[v]
      /\ Idle.job # d
    BY JobsDiffer DEF Done, StatusInv, IInv, TypeOK, Idle
<1>2. Alone(d) => Alone(d)'
    BY <1>1 DEF Alone
<1>3. (Mixed(d)' => Mixed(d)) /\ (Failing(d)' => Failing(d))
    BY <1>1 DEF Mixed, Failing
<1> QED
    BY <1>2, <1>3, NothingBroken

(* A document is claimed: whoever else has it in hand no longer holds it. *)
LEMMA ClaimDocumentStatus ==
    ASSUME StatusInv, IInv', NEW w \in Replicas, NEW c \in Documents, ClaimDocument(w, c)
    PROVE  StatusInv'
<1>1. /\ hand[w].job = None /\ lease[c] # "HELD" /\ outbox[c] = "OPEN"
      /\ hand'[w].job = c /\ hand'[w].step = "RENDER" /\ hand'[w].render = None
      /\ \A v \in Replicas : v # w => hand'[v] = hand[v]
      /\ \A d \in Documents : d # c => lease'[d] = lease[d] /\ status'[d] = status[d]
      /\ lease'[c] = "HELD" /\ status'[c] = "RUNNING"
      /\ UNCHANGED <<version, object, renderer, faults>>
    BY JobsDiffer DEF ClaimDocument, Available, Idle, StatusInv, IInv, TypeOK, world
<1>2. faults \in Nat
    BY LimitsAssumption DEF StatusInv, IInv, TypeOK
<1>3. ASSUME NEW d \in Documents PROVE PaidFor(d)'
  <2>1. Alone(d) => Alone(d)'
      BY <1>1, JobsDiffer DEF Alone
  <2>2. (Mixed(d)' => Mixed(d)) /\ (Failing(d)' => Failing(d))
      BY <1>1 DEF Mixed, Failing
  <2> QED
      BY <1>1, <1>2, <2>1, <2>2, NothingBroken
<1>4. version[c] = None
    BY <1>1 DEF StatusInv, IInv, VersionsAgree
<1>5. ReleasedIsFree' /\ StatusesAgree'
    BY <1>1, <1>4 DEF StatusInv, ReleasedIsFree, StatusesAgree
<1> QED
    BY <1>3, <1>5 DEF StatusInv

(* A replica that goes on, and does not fail, breaks nothing. *)
LEMMA RenderStatus ==
    ASSUME StatusInv, IInv', NEW w \in Replicas, Render(w)
    PROVE  StatusInv'
<1>1. /\ hand'[w].job = hand[w].job
      /\ \A v \in Replicas : v # w => hand'[v] = hand[v]
      /\ UNCHANGED <<status, lease, version, object, renderer>>
      /\ \/ faults' = faults /\ hand'[w].step = "WRITE" /\ hand'[w].render = renderer
         \/ faults' = faults + 1 /\ hand'[w].render = hand[w].render
    BY DEF Render, Step, Fault, StatusInv, IInv, TypeOK, rows, world
<1>2. faults \in Nat /\ faults' \in Nat /\ faults' >= faults
    BY <1>1, LimitsAssumption DEF StatusInv, IInv, TypeOK
<1>3. ASSUME NEW d \in Documents PROVE PaidFor(d)'
  <2>1. Alone(d) => Alone(d)'
      BY <1>1 DEF Alone
  <2>2. CASE faults' = faults + 1
      BY <2>1, <2>2, OneThingBroken
  <2>3. CASE faults' = faults /\ hand'[w].step = "WRITE" /\ hand'[w].render = renderer
    <3>1. (Mixed(d)' => Mixed(d)) /\ (Failing(d)' => Failing(d))
        BY <1>1, <2>3 DEF Mixed, Failing
    <3> QED
        BY <1>2, <2>1, <3>1, NothingBroken
  <2> QED
      BY <1>1, <2>2, <2>3
<1>4. ReleasedIsFree' /\ StatusesAgree'
    BY <1>1, <1>2, StatusesStay
<1> QED
    BY <1>3, <1>4 DEF StatusInv

(* An object is refused only where outputs are mixed, and that was paid for. *)
LEMMA WriteObjectStatus ==
    ASSUME StatusInv, IInv', NEW w \in Replicas, WriteObject(w)
    PROVE  StatusInv'
<1>1. PICK c \in Documents, r \in Renders : c = hand[w].job /\ r = hand[w].render /\ r # None
  <2>1. hand[w].step = "WRITE"
      BY DEF WriteObject
  <2> QED
      BY <2>1, JobInHand, LimitsAssumption DEF StatusInv, IInv, HandsFit, HandFits, DocumentSteps
<1>2. /\ hand'[w].job = c /\ hand'[w].render = r
      /\ \A v \in Replicas : v # w => hand'[v] = hand[v]
      /\ UNCHANGED <<status, lease, version, renderer>>
      /\ \A d \in Documents : object'[d] = object[d] \/ (d = c /\ object'[d] = r)
    BY <1>1 DEF WriteObject, Step, StatusInv, IInv, TypeOK, rows
<1>3. \/ faults' = faults + 1
      \/ faults' = faults /\ hand'[w].step = "FINALIZE"
      \/ faults' = faults /\ object[c] \notin {None, r}
    BY <1>1 DEF WriteObject, SameObject, Step, Fault, StatusInv, IInv, TypeOK
<1>4. faults \in Nat /\ faults' \in Nat /\ faults' >= faults
    BY <1>3, LimitsAssumption DEF StatusInv, IInv, TypeOK
<1>5. ASSUME NEW d \in Documents PROVE PaidFor(d)'
  <2>1. Alone(d) => Alone(d)'
      BY <1>1, <1>2 DEF Alone
  <2>2. Mixed(d)' => Mixed(d)
      BY <1>1, <1>2 DEF Mixed
  <2>3. CASE faults' = faults + 1
      BY <2>1, <2>3, OneThingBroken
  <2>4. CASE Failing(d)' => Failing(d)
      BY <1>4, <2>1, <2>2, <2>4, NothingBroken
  <2>5. CASE faults' = faults /\ object[c] \notin {None, r} /\ d = c
    <3>1. Mixed(d)
        BY <1>1, <2>5 DEF Mixed
    <3>2. PaidFor(d)
        BY DEF StatusInv
    <3> QED
        BY <1>4, <2>1, <2>5, <3>1, <3>2 DEF PaidFor
  <2>6. d # c \/ hand'[w].step = "FINALIZE" => (Failing(d)' => Failing(d))
      BY <1>1, <1>2 DEF Failing
  <2> QED
      BY <1>3, <2>3, <2>4, <2>5, <2>6
<1>6. ReleasedIsFree' /\ StatusesAgree'
    BY <1>2, <1>4, StatusesStay
<1> QED
    BY <1>5, <1>6 DEF StatusInv

(* A release frees the lease and names the success. *)
LEMMA FinalizeDocumentStatus ==
    ASSUME StatusInv, IInv', NEW w \in Replicas, FinalizeDocument(w)
    PROVE  StatusInv'
<1>1. PICK c \in Documents : c = hand[w].job
    BY JobInHand DEF FinalizeDocument, DocumentSteps, StatusInv
<1>2. hand[w].render # None
    BY LimitsAssumption DEF FinalizeDocument, StatusInv, IInv, HandsFit, HandFits
<1>3. /\ Done(w) /\ UNCHANGED <<object, renderer, faults>>
      /\ \A d \in Documents : d # c =>
            lease'[d] = lease[d] /\ status'[d] = status[d] /\ version'[d] = version[d]
      /\ \/ lease'[c] = lease[c] /\ status'[c] = status[c] /\ version'[c] = version[c]
         \/ lease'[c] = "FREE" /\ status'[c] = "SUCCEEDED" /\ version'[c] # None
    BY <1>1, <1>2, JobsDiffer DEF FinalizeDocument, StatusInv, IInv, TypeOK, world
<1>4. faults \in Nat
    BY LimitsAssumption DEF StatusInv, IInv, TypeOK
<1>5. \A d \in Documents : PaidFor(d)'
    BY <1>1, <1>3, <1>4, LettingGo
<1>6. ReleasedIsFree' /\ StatusesAgree'
    BY <1>3 DEF StatusInv, ReleasedIsFree, StatusesAgree
<1> QED
    BY <1>5, <1>6 DEF StatusInv

(* The failure of a released job is that of a replica that no longer held it. *)
LEMMA RecordFailureOfJobStatus ==
    ASSUME StatusInv, IInv', NEW w \in Replicas, RecordFailureOfJob(w)
    PROVE  StatusInv'
<1>1. PICK c \in Documents : c = hand[w].job /\ hand[w].step = "FAILED"
    BY JobInHand DEF RecordFailureOfJob, DocumentSteps, StatusInv
<1>2. /\ hand'[w].job = c /\ hand'[w].render = hand[w].render
      /\ \A v \in Replicas : v # w => hand'[v] = hand[v]
      /\ UNCHANGED <<lease, version, object, renderer, faults>>
      /\ \A d \in Documents : status'[d] = IF d = c THEN "FAILED" ELSE status[d]
    BY <1>1, JobsDiffer DEF RecordFailureOfJob, Step, StatusInv, IInv, TypeOK, world
<1>3. faults \in Nat
    BY LimitsAssumption DEF StatusInv, IInv, TypeOK
<1>4. ASSUME NEW d \in Documents PROVE PaidFor(d)'
  <2>1. Alone(d) => Alone(d)'
      BY <1>1, <1>2 DEF Alone
  <2>2. Mixed(d)' => Mixed(d)
      BY <1>1, <1>2 DEF Mixed
  <2>3. Failing(d)' => Failing(d)
      BY <1>1, <1>2 DEF Failing
  <2> QED
      BY <1>2, <1>3, <2>1, <2>2, <2>3, NothingBroken
<1>5. version[c] # None => faults >= 2
  <2> SUFFICES ASSUME version[c] # None PROVE faults >= 2
      OBVIOUS
  <2>1. ~Alone(c) /\ Failing(c)
      BY <1>1 DEF StatusInv, ReleasedIsFree, Alone, Failing
  <2> QED
      BY <2>1 DEF StatusInv, PaidFor
<1>6. ReleasedIsFree' /\ StatusesAgree'
    BY <1>2, <1>5 DEF StatusInv, ReleasedIsFree, StatusesAgree
<1> QED
    BY <1>4, <1>6 DEF StatusInv

(* The message is freed by a replica that lets the document go. *)
LEMMA RecordFailureOfMessageStatus ==
    ASSUME StatusInv, IInv', NEW w \in Replicas, RecordFailureOfMessage(w)
    PROVE  StatusInv'
<1>1. PICK c \in Documents : c = hand[w].job
    BY JobInHand DEF RecordFailureOfMessage, DocumentSteps, StatusInv
<1>2. /\ Done(w) /\ UNCHANGED <<status, version, object, renderer, faults>>
      /\ \A d \in Documents : lease'[d] = IF d = c THEN "FREE" ELSE lease[d]
    BY <1>1, JobsDiffer DEF RecordFailureOfMessage, StatusInv, IInv, TypeOK, world
<1>3. faults \in Nat
    BY LimitsAssumption DEF StatusInv, IInv, TypeOK
<1>4. \A d \in Documents : PaidFor(d)'
    BY <1>1, <1>2, <1>3, LettingGo
<1>5. ReleasedIsFree' /\ StatusesAgree'
    BY <1>2, <1>3, StatusesStay
<1> QED
    BY <1>4, <1>5 DEF StatusInv

(* An upgrade is the fault that mixes outputs. *)
LEMMA UpgradeStatus ==
    ASSUME StatusInv, IInv', NEW r \in Renders, Upgrade(r)
    PROVE  StatusInv'
<1>1. UNCHANGED <<status, lease, version, hand>> /\ faults' = faults + 1
    BY DEF Upgrade, Fault, rows
<1>2. faults \in Nat /\ faults' \in Nat /\ faults' >= faults
    BY <1>1, LimitsAssumption DEF StatusInv, IInv, TypeOK
<1>3. ASSUME NEW d \in Documents PROVE PaidFor(d)'
  <2>1. Alone(d) => Alone(d)'
      BY <1>1 DEF Alone
  <2> QED
      BY <1>1, <2>1, OneThingBroken
<1>4. ReleasedIsFree' /\ StatusesAgree'
    BY <1>1, <1>2, StatusesStay
<1> QED
    BY <1>3, <1>4 DEF StatusInv

(* A lease that is outlived is the fault that leaves a replica not alone; one *)
(* that is abandoned is of a document nobody has in hand.                     *)
LEMMA LeaseEndStatus ==
    ASSUME StatusInv, IInv', NEW j \in Jobs, ExpireAbandoned(j) \/ Outlive(j)
    PROVE  StatusInv'
<1>1. /\ lease[j] = "HELD" /\ UNCHANGED <<status, version, object, renderer, hand>>
      /\ \A d \in Documents : lease'[d] = IF d = j THEN "EXPIRED" ELSE lease[d]
    BY JobsDiffer DEF ExpireAbandoned, Outlive, StatusInv, IInv, TypeOK, world
<1>2. (faults' = faults /\ ~InHand(j)) \/ faults' = faults + 1
    BY DEF ExpireAbandoned, Outlive, Fault
<1>3. faults \in Nat /\ faults' \in Nat /\ faults' >= faults
    BY <1>2, LimitsAssumption DEF StatusInv, IInv, TypeOK
<1>4. ASSUME NEW d \in Documents PROVE PaidFor(d)'
  <2>1. (Mixed(d)' => Mixed(d)) /\ (Failing(d)' => Failing(d))
      BY <1>1 DEF Mixed, Failing
  <2>2. CASE faults' = faults + 1
      BY <2>1, <2>2, OneThingBroken
  <2>3. CASE faults' = faults /\ ~InHand(j)
    <3>1. Alone(d) => Alone(d)'
        BY <1>1, <2>3 DEF Alone, InHand
    <3> QED
        BY <1>3, <2>1, <3>1, NothingBroken
  <2> QED
      BY <1>2, <2>2, <2>3
<1>5. ReleasedIsFree' /\ StatusesAgree'
    BY <1>1, <1>3 DEF StatusInv, ReleasedIsFree, StatusesAgree
<1> QED
    BY <1>4, <1>5 DEF StatusInv

(* A crash lets go, and what concerns e-mails does not concern documents. *)
LEMMA CrashStatus ==
    ASSUME StatusInv, IInv', NEW w \in Replicas, Crash(w)
    PROVE  StatusInv'
<1>1. /\ Done(w) /\ UNCHANGED <<status, lease, version, object, renderer>>
      /\ faults' = faults + 1
    BY DEF Crash, Fault, rows, world
<1>2. faults \in Nat /\ faults' \in Nat /\ faults' >= faults
    BY <1>1, LimitsAssumption DEF StatusInv, IInv, TypeOK
<1>3. \A d \in Documents : PaidFor(d)'
    BY <1>1, <1>2, LettingGo
<1>4. ReleasedIsFree' /\ StatusesAgree'
    BY <1>1, <1>2, StatusesStay
<1> QED
    BY <1>3, <1>4 DEF StatusInv

LEMMA EmailStatusInv ==
    ASSUME StatusInv, IInv', NEW w \in Replicas, NEW e \in Emails,
           ClaimEmail(w, e) \/ Deliver(w) \/ FinalizeEmail(w)
    PROVE  StatusInv'
<1>1. /\ hand[w].job \notin Documents /\ hand'[w].job \notin Documents
      /\ \A v \in Replicas : v # w => hand'[v] = hand[v]
  <2>1. CASE ClaimEmail(w, e)
      BY <2>1, JobsDiffer DEF ClaimEmail, Idle, StatusInv, IInv, TypeOK
  <2>2. CASE Deliver(w)
    <3>1. hand[w].job \in Emails
        BY <2>2, JobInHand DEF Deliver, EmailSteps, StatusInv
    <3>2. hand[w].job \notin Documents
        BY <3>1, JobsDiffer
    <3>3. \E s \in {"ACCEPTED", "REFUSED", "UNKNOWN"} : hand' = [hand EXCEPT ![w].step = s]
        BY <2>2 DEF Deliver, Step
    <3>4. hand'[w].job = hand[w].job /\ \A v \in Replicas : v # w => hand'[v] = hand[v]
        BY <3>3 DEF StatusInv, IInv, TypeOK
    <3> QED
        BY <3>2, <3>4
  <2>3. CASE FinalizeEmail(w)
    <3>1. hand[w].job \in Emails
        BY <2>3, JobInHand DEF FinalizeEmail, EmailSteps, StatusInv
    <3>2. hand[w].job \notin Documents
        BY <3>1, JobsDiffer
    <3>3. hand' = [hand EXCEPT ![w] = Idle]
        BY <2>3 DEF FinalizeEmail, Done
    <3>4. hand'[w].job = None /\ \A v \in Replicas : v # w => hand'[v] = hand[v]
        BY <3>3 DEF Idle, StatusInv, IInv, TypeOK
    <3>5. None \notin Documents
        BY LimitsAssumption DEF Jobs
    <3> QED
        BY <3>2, <3>4, <3>5
  <2> QED
      BY <2>1, <2>2, <2>3
<1>2. /\ UNCHANGED <<version, object, renderer>> /\ faults' \in {faults, faults + 1}
      /\ \A d \in Documents : status'[d] = status[d] /\ lease'[d] = lease[d]
  <2>1. CASE ClaimEmail(w, e)
      BY <2>1, JobsDiffer DEF ClaimEmail, StatusInv, IInv, TypeOK, world
  <2>2. CASE Deliver(w)
      BY <2>2 DEF Deliver, Fault, rows
  <2>3. CASE FinalizeEmail(w)
    <3>1. PICK f \in Emails : f = hand[w].job
        BY <2>3, JobInHand DEF FinalizeEmail, EmailSteps, StatusInv
    <3> QED
        BY <2>3, <3>1, JobsDiffer DEF FinalizeEmail, StatusInv, IInv, TypeOK, world
  <2> QED
      BY <2>1, <2>2, <2>3
<1>3. faults' \in Nat /\ faults' >= faults
    BY <1>2, LimitsAssumption DEF StatusInv, IInv, TypeOK
<1>4. ASSUME NEW d \in Documents PROVE PaidFor(d)'
  <2>1. Alone(d) => Alone(d)'
      BY <1>1, <1>2 DEF Alone
  <2>2. (Mixed(d)' => Mixed(d)) /\ (Failing(d)' => Failing(d))
      BY <1>1, <1>2 DEF Mixed, Failing
  <2> QED
      BY <1>3, <2>1, <2>2, NothingBroken
<1>5. ReleasedIsFree' /\ StatusesAgree'
    BY <1>2, <1>3, StatusesStay
<1> QED
    BY <1>4, <1>5 DEF StatusInv

LEMMA NextKeepsStatusInv == StatusInv /\ [Next]_vars => StatusInv'
<1> SUFFICES ASSUME StatusInv, [Next]_vars PROVE StatusInv'
    OBVIOUS
<1>1. IInv'
    BY NextKeepsIInv DEF StatusInv
<1>2. CASE \E w \in Replicas, j \in Jobs : Claim(w, j)
    BY <1>1, <1>2, ClaimDocumentStatus, EmailStatusInv DEF Claim
<1>3. CASE \E w \in Replicas : Work(w)
  <2> SUFFICES ASSUME NEW w \in Replicas, Work(w) PROVE StatusInv'
      BY <1>3
  <2>1. CASE Deliver(w) \/ FinalizeEmail(w)
    <3>1. hand[w].job \in Emails
        BY <2>1, JobInHand DEF Deliver, FinalizeEmail, EmailSteps, StatusInv
    <3> QED
        BY <1>1, <2>1, <3>1, EmailStatusInv
  <2> QED
      BY <1>1, <2>1, RenderStatus, WriteObjectStatus, FinalizeDocumentStatus,
         RecordFailureOfJobStatus, RecordFailureOfMessageStatus DEF Work
<1>4. CASE \E w \in Replicas : Crash(w)
    BY <1>1, <1>4, CrashStatus
<1>5. CASE \E j \in Jobs : ExpireAbandoned(j) \/ Outlive(j)
    BY <1>1, <1>5, LeaseEndStatus
<1>6. CASE \E r \in Renders : Upgrade(r)
    BY <1>1, <1>6, UpgradeStatus
<1>7. CASE UNCHANGED vars
    BY <1>1, <1>7 DEF vars, rows, world, StatusInv, PaidFor, Alone, Mixed, Failing,
       ReleasedIsFree, StatusesAgree
<1> QED
    BY <1>2, <1>3, <1>4, <1>5, <1>6, <1>7 DEF Next

(* Database, bucket and mail server agree on what was released and sent: a  *)
(* version that was released is the object that was stored, however many    *)
(* replicas took the document and whatever renderer they used, and job and  *)
(* message tell the same story of an e-mail, which was sent if it says so.  *)
(* The render job of a released version reads SUCCEEDED unless two faults   *)
(* met (documents/service.go:392-398 has no fence).                         *)
THEOREM OutcomesAreAgreed == Spec => []OutcomesAgree
<1>1. StatusInv => OutcomesAgree
    BY DEF StatusInv, IInv, OutcomesAgree
<1> QED
    BY <1>1, InitStatusInv, NextKeepsStatusInv, PTL DEF Spec

-----------------------------------------------------------------------------
(* The workers implement OutcomePromise. *)
promised == <<outbox, object, version, sent>>

LEMMA InitKeepsPromise == Init => Promise!Init
BY DEF Init, Promise!Init, Jobs

(* What a bucket or a mail server does is one effect of the promise, or none. *)
LEMMA WriteObjectStores ==
    ASSUME IInv, NEW w \in Replicas, WriteObject(w)
    PROVE  UNCHANGED promised \/ \E d \in Documents : Promise!Store(d)
<1>1. hand[w].step = "WRITE"
    BY DEF WriteObject
<1>2. PICK d \in Documents, r \in Renders : d = hand[w].job /\ r = hand[w].render
    BY <1>1, JobInHand DEF IInv, HandsFit, HandFits, DocumentSteps
<1>3. object \in [Documents -> Renders \cup {None}] /\ UNCHANGED <<outbox, version, sent>>
    BY DEF IInv, TypeOK, WriteObject, rows
<1>4. \/ UNCHANGED object
      \/ object[d] = None /\ object' = [object EXCEPT ![d] = r]
    BY <1>2, <1>3 DEF WriteObject
<1> QED
    BY <1>3, <1>4 DEF promised, Promise!Store

LEMMA DeliverSends ==
    ASSUME IInv, NEW w \in Replicas, Deliver(w)
    PROVE  UNCHANGED promised \/ \E e \in Emails : Promise!Send(e)
<1>1. hand[w].job \in Emails
    BY JobInHand DEF Deliver, EmailSteps
<1> QED
    BY <1>1 DEF Deliver, rows, promised, Promise!Send

(* A document is open as long as it has no version, so that a release is of the
   object that is stored. *)
LEMMA FinalizeDocumentReleases ==
    ASSUME IInv, NEW w \in Replicas, FinalizeDocument(w)
    PROVE  UNCHANGED promised \/ \E d \in Documents : Promise!Release(d)
<1>1. hand[w].step = "FINALIZE"
    BY DEF FinalizeDocument
<1>2. PICK d \in Documents : d = hand[w].job
    BY <1>1, JobInHand DEF DocumentSteps
<1>3. hand[w].render = object[d] /\ object[d] # None /\ (outbox[d] = "OPEN" => version[d] = None)
    BY <1>1, <1>2, LimitsAssumption DEF IInv, HandsFit, HandFits, VersionsAgree
<1>4. version \in [Documents -> Renders \cup {None}] /\ UNCHANGED <<object, sent>>
    BY DEF IInv, TypeOK, FinalizeDocument, world
<1> QED
    BY <1>2, <1>3, <1>4 DEF FinalizeDocument, promised, Promise!Release

(* An outcome is recorded while the message is open, and as delivered only when
   this replica saw the e-mail accepted. *)
LEMMA FinalizeEmailReports ==
    ASSUME IInv, NEW w \in Replicas, FinalizeEmail(w)
    PROVE  UNCHANGED promised \/ \E e \in Emails : Promise!Report(e)
<1>1. hand[w].step \in {"ACCEPTED", "REFUSED", "UNKNOWN"}
    BY DEF FinalizeEmail
<1>2. PICK e \in Emails : e = hand[w].job /\ (hand[w].step = "ACCEPTED" => e \in sent)
    BY <1>1, JobInHand DEF EmailSteps, IInv, HandsFit, HandFits
<1> DEFINE s == EmailStatus(hand[w].step, hand[w].attempt)
<1>3. s \in {"DELIVERED", "FAILED", "DEAD_LETTER"} /\ (s = "DELIVERED" => e \in sent)
    BY <1>1, <1>2 DEF EmailStatus
<1>4. UNCHANGED <<version, object, sent>>
    BY DEF FinalizeEmail, world
<1>5. CASE Counts(e, hand[w].attempt)
  <2>1. outbox[e] = "OPEN" /\ outbox \in [Jobs -> {"OPEN", "DELIVERED", "PERMANENT_FAILURE"}]
      BY <1>5 DEF Counts, IInv, TypeOK
  <2>2. outbox' = [outbox EXCEPT ![e] = CASE s = "DELIVERED" -> "DELIVERED"
                                           [] s = "FAILED" -> "OPEN"
                                           [] OTHER -> "PERMANENT_FAILURE"]
      BY <1>2, <1>5 DEF FinalizeEmail
  <2> HIDE DEF s
  <2>3. \/ UNCHANGED outbox
        \/ e \in sent /\ outbox' = [outbox EXCEPT ![e] = "DELIVERED"]
        \/ outbox' = [outbox EXCEPT ![e] = "PERMANENT_FAILURE"]
      BY <1>3, <2>1, <2>2
  <2> QED
      BY <1>4, <2>1, <2>3 DEF promised, Promise!Report
<1>6. CASE ~Counts(e, hand[w].attempt)
    BY <1>2, <1>4, <1>6 DEF FinalizeEmail, promised
<1> QED
    BY <1>5, <1>6

LEMMA NextKeepsPromise == IInv /\ [Next]_vars => [Promise!Next]_(Promise!vars)
<1> SUFFICES ASSUME IInv, [Next]_vars PROVE Promise!Next \/ UNCHANGED promised
    BY DEF promised, Promise!vars
<1> USE DEF promised
<1>1. CASE \E w \in Replicas, j \in Jobs : Claim(w, j)
    BY <1>1 DEF Claim, ClaimDocument, ClaimEmail, world
<1>2. CASE \E w \in Replicas : Work(w)
  <2> SUFFICES ASSUME NEW w \in Replicas, Work(w) PROVE Promise!Next \/ UNCHANGED promised
      BY <1>2
  <2>1. CASE Render(w) \/ RecordFailureOfJob(w) \/ RecordFailureOfMessage(w)
      BY <2>1 DEF Render, RecordFailureOfJob, RecordFailureOfMessage, rows, world
  <2>2. CASE WriteObject(w)
      BY <2>2, WriteObjectStores DEF Promise!Next
  <2>3. CASE FinalizeDocument(w)
      BY <2>3, FinalizeDocumentReleases DEF Promise!Next
  <2>4. CASE Deliver(w)
      BY <2>4, DeliverSends DEF Promise!Next
  <2>5. CASE FinalizeEmail(w)
      BY <2>5, FinalizeEmailReports DEF Promise!Next
  <2> QED
      BY <2>1, <2>2, <2>3, <2>4, <2>5 DEF Work
<1>3. CASE \E w \in Replicas : Crash(w)
    BY <1>3 DEF Crash, rows, world
<1>4. CASE \E j \in Jobs : ExpireAbandoned(j) \/ Outlive(j)
    BY <1>4 DEF ExpireAbandoned, Outlive, world
<1>5. CASE \E r \in Renders : Upgrade(r)
    BY <1>5 DEF Upgrade, rows
<1>6. CASE UNCHANGED vars
    BY <1>6 DEF vars, rows, world
<1> QED
    BY <1>1, <1>2, <1>3, <1>4, <1>5, <1>6 DEF Next

(* The two loops keep OutcomePromise for any number of replicas: objects, releases
   and the outcomes of e-mails are final, however late a replica is and whoever
   failed meanwhile (documents/service.go, notifications/service.go). *)
THEOREM WorkersKeepPromise == Spec => KeepsPromise
BY InitKeepsPromise, NextKeepsPromise, Invariance, PTL DEF Spec, KeepsPromise, Promise!Spec
===============================================================================
