--------------------------- MODULE MembershipPromise ---------------------------
(***************************************************************************)
(* What the lifecycle promises of one membership, with no worker, no       *)
(* identity provider and no calls in progress: requests are answered once, *)
(* one that succeeds changes the membership it was filed for, in one step  *)
(* with the end of all sessions, and a session is opened on an active      *)
(* membership and ends when anything about it changes.                     *)
(***************************************************************************)
EXTENDS Integers

CONSTANTS Requests, Sessions, Authorities, Initial, None

VARIABLES
    member,  \* state and authority of the membership
    number,  \* its revision
    answer,  \* what became of a request
    order,   \* what it asks, and of which revision
    use,     \* whether a session is new, live or ended
    badge    \* the authority a session was opened with

filed == <<answer, order>>
visits == <<use, badge>>
vars == <<member, number, filed, visits>>

Unasked == [action |-> "NONE", authority |-> None, number |-> 0]

Init ==
    /\ member = [state |-> "INVITED", authority |-> Initial]
    /\ number = 1
    /\ answer = [i \in Requests |-> "ABSENT"]
    /\ order = [i \in Requests |-> Unasked]
    /\ use = [s \in Sessions |-> "NEW"]
    /\ badge = [s \in Sessions |-> None]

-----------------------------------------------------------------------------
(* Requests. *)

Changes == {"UPDATE_ROLES", "SUSPEND", "DEACTIVATE", "REACTIVATE"}
Actions == Changes \cup {"RESEND_INVITATION", "RECOVER", "LOGOUT"}

MakesSense(action) ==
    /\ action = "RESEND_INVITATION" => member.state = "INVITED"
    /\ action = "REACTIVATE" => member.state \in {"SUSPENDED", "DEACTIVATED"}
    /\ action = "DEACTIVATE" => member.state # "DEACTIVATED"

\* One request at a time is open for the membership as it stands.
File(i) ==
    /\ answer[i] = "ABSENT"
    /\ \A j \in Requests : answer[j] = "OPEN" => order[j].number # number
    /\ \E action \in Actions, a \in Authorities :
          /\ MakesSense(action)
          /\ order' = [order EXCEPT ![i] = [action |-> action, authority |-> a, number |-> number]]
    /\ answer' = [answer EXCEPT ![i] = "OPEN"]
    /\ UNCHANGED <<member, number, visits>>

Answer(i, outcome) ==
    /\ answer[i] = "OPEN"
    /\ answer' = [answer EXCEPT ![i] = outcome]
    /\ UNCHANGED order

\* Nothing of the membership has changed.
Fail(i) == Answer(i, "FAILED") /\ UNCHANGED <<member, number, visits>>

EndAll ==
    /\ use' = [s \in Sessions |-> IF use[s] = "LIVE" THEN "ENDED" ELSE use[s]]
    /\ UNCHANGED badge

\* The membership is still the one the request was filed for.
Change(i) ==
    /\ Answer(i, "DONE")
    /\ order[i].number = number
    /\ number' = number + 1
    /\ member' = CASE order[i].action = "UPDATE_ROLES" -> [member EXCEPT !.authority = order[i].authority]
                   [] order[i].action = "SUSPEND" -> [member EXCEPT !.state = "SUSPENDED"]
                   [] order[i].action = "DEACTIVATE" -> [member EXCEPT !.state = "DEACTIVATED"]
                   [] order[i].action = "REACTIVATE" -> [member EXCEPT !.state = "INVITED"]
    /\ EndAll

Attend(i) ==
    /\ Answer(i, "DONE")
    /\ IF order[i].action = "RESEND_INVITATION" THEN UNCHANGED visits ELSE EndAll
    /\ UNCHANGED <<member, number>>

Succeed(i) == IF order[i].action \in Changes THEN Change(i) ELSE Attend(i)

-----------------------------------------------------------------------------
(* Logins and sessions. *)

\* Nobody is in before the first login, which makes the membership active.
Activate ==
    /\ member.state = "INVITED"
    /\ \A s \in Sessions : use[s] # "LIVE"
    /\ member' = [member EXCEPT !.state = "ACTIVE"]
    /\ number' = number + 1
    /\ UNCHANGED <<filed, visits>>

Open(s) ==
    /\ member.state = "ACTIVE"
    /\ use[s] = "NEW"
    /\ use' = [use EXCEPT ![s] = "LIVE"]
    /\ badge' = [badge EXCEPT ![s] = member.authority]
    /\ UNCHANGED <<member, number, filed>>

\* Sessions end, one or all of them, and none is live again.
End ==
    /\ use' = [s \in Sessions |-> use'[s]]
    /\ \A s \in Sessions : use'[s] = use[s] \/ (use[s] = "LIVE" /\ use'[s] = "ENDED")
    /\ UNCHANGED <<member, number, filed, badge>>

-----------------------------------------------------------------------------

Next ==
    \/ \E i \in Requests : File(i) \/ Fail(i) \/ Succeed(i)
    \/ Activate
    \/ \E s \in Sessions : Open(s)
    \/ End

Spec == Init /\ [][Next]_vars
=============================================================================
