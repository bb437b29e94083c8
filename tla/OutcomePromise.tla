---------------------------- MODULE OutcomePromise ----------------------------
(***************************************************************************)
(* What the workers promise of documents and e-mails, with no leases, no   *)
(* attempts and no replicas: an object is written once, a document is      *)
(* released once, as the object that is stored, and is never given up; an  *)
(* e-mail is reported delivered only when it was sent, and neither that    *)
(* nor giving it up is ever taken back.                                    *)
(***************************************************************************)
CONSTANTS Documents, Emails, Renders, None

VARIABLES
    outcome,  \* of the message of a document or an e-mail
    stored,   \* the object of a document
    released, \* its released version
    sent      \* e-mails the mail server accepted

vars == <<outcome, stored, released, sent>>

Init ==
    /\ outcome = [j \in Documents \cup Emails |-> "OPEN"]
    /\ stored = [d \in Documents |-> None]
    /\ released = [d \in Documents |-> None]
    /\ sent = {}

Store(d) ==
    /\ stored[d] = None
    /\ \E r \in Renders : stored' = [stored EXCEPT ![d] = r]
    /\ UNCHANGED <<outcome, released, sent>>

Release(d) ==
    /\ outcome[d] = "OPEN"
    /\ stored[d] # None
    /\ outcome' = [outcome EXCEPT ![d] = "DELIVERED"]
    /\ released' = [released EXCEPT ![d] = stored[d]]
    /\ UNCHANGED <<stored, sent>>

\* An e-mail may reach the server after it was given up, and more than once.
Send(e) ==
    /\ sent' = sent \cup {e}
    /\ UNCHANGED <<outcome, stored, released>>

Report(e) ==
    /\ outcome[e] = "OPEN"
    /\ \/ e \in sent /\ outcome' = [outcome EXCEPT ![e] = "DELIVERED"]
       \/ outcome' = [outcome EXCEPT ![e] = "PERMANENT_FAILURE"]
    /\ UNCHANGED <<stored, released, sent>>

Next ==
    \/ \E d \in Documents : Store(d) \/ Release(d)
    \/ \E e \in Emails : Send(e) \/ Report(e)

Spec == Init /\ [][Next]_vars
===============================================================================
