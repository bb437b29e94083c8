----------------------------- MODULE AuditPromise -----------------------------
(***************************************************************************)
(* What an audit promises of each question and of each report version,     *)
(* with no transactions, no locks and no rows that replace each other: one *)
(* matter is followed on a question from the time it is raised, it becomes *)
(* a Finding only when an issued Preliminary Report has announced it, and  *)
(* a Final Report advances only while all it names is closed.              *)
(***************************************************************************)
CONSTANTS Responses, Versions

VARIABLES
    matter,    \* what became of what was raised on a question
    form,      \* the kind of a report version
    stage,     \* how far it got
    announces, \* the questions on which it names a matter
    names      \* and those on which it names a Finding

papers == <<form, stage, announces, names>>
vars == <<matter, papers>>

Init ==
    /\ matter = [r \in Responses |-> "NONE"]
    /\ form = [v \in Versions |-> "NONE"]
    /\ stage = [v \in Versions |-> "NONE"]
    /\ announces = [v \in Versions |-> {}]
    /\ names = [v \in Versions |-> {}]

-----------------------------------------------------------------------------
(* The matter of a question. *)

Becomes(r, next) == matter' = [matter EXCEPT ![r] = next]

Issued(v) == form[v] = "PRELIMINARY" /\ stage[v] = "LOCKED"

\* A matter is raised again only when it was returned.
Raise(r) ==
    /\ matter[r] \in {"NONE", "RETURNED"}
    /\ Becomes(r, "RAISED")
    /\ UNCHANGED papers

Reject(r) ==
    /\ matter[r] = "RAISED"
    /\ Becomes(r, "RETURNED") \/ Becomes(r, "DISMISSED")
    /\ UNCHANGED papers

Find(r) ==
    /\ matter[r] = "RAISED"
    /\ \E v \in Versions : Issued(v) /\ r \in announces[v]
    /\ Becomes(r, "FOUND")
    /\ UNCHANGED papers

Close(r) ==
    /\ matter[r] = "FOUND"
    /\ Becomes(r, "CLOSED")
    /\ UNCHANGED papers

-----------------------------------------------------------------------------
(* The life of a report version. *)

\* What a version says is fixed when it is drafted.
Draft(v) ==
    /\ stage[v] = "NONE"
    /\ \E f \in {"PRELIMINARY", "FINAL"} :
          /\ form' = [form EXCEPT ![v] = f]
          /\ f = "FINAL" => \E w \in Versions : Issued(w)
    /\ \E s \in {"RETURNED", "DEPARTMENT_REVIEW"} : stage' = [stage EXCEPT ![v] = s]
    /\ announces' = [announces EXCEPT ![v] = announces'[v]]
    /\ names' = [names EXCEPT ![v] = names'[v]]
    /\ names'[v] \subseteq announces'[v]
    /\ announces'[v] \subseteq {r \in Responses : matter[r] # "NONE"}
    /\ names'[v] \subseteq {r \in Responses : matter[r] \in {"FOUND", "CLOSED"}}
    /\ UNCHANGED matter

\* The stages that may follow one another; RETURNED and LOCKED are final.
Following ==
    {<<"DEPARTMENT_REVIEW", "GM_REVIEW">>, <<"DEPARTMENT_REVIEW", "RETURNED">>,
     <<"GM_REVIEW", "EXECUTIVE_DIRECTOR_REVIEW">>, <<"GM_REVIEW", "RETURNED">>,
     <<"EXECUTIVE_DIRECTOR_REVIEW", "LOCKED">>}

Decide(v) ==
    /\ form[v] = "FINAL" =>
          /\ \E w \in Versions : Issued(w)
          /\ \A r \in names[v] : matter[r] = "CLOSED"
    /\ \E pair \in Following :
          pair[1] = stage[v] /\ stage' = [stage EXCEPT ![v] = pair[2]]
    /\ UNCHANGED <<matter, form, announces, names>>

-----------------------------------------------------------------------------

Next ==
    \/ \E r \in Responses : Raise(r) \/ Reject(r) \/ Find(r) \/ Close(r)
    \/ \E v \in Versions : Draft(v) \/ Decide(v)

Spec == Init /\ [][Next]_vars
=============================================================================
