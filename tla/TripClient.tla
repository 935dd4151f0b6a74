----------------------------- MODULE TripClient -----------------------------
(***************************************************************************)
(* The browser beside TripSharing: the trip a user has open, the fetches   *)
(* of it under way, and the events that make it fetch the trip again.      *)
(* Events and answers come over different connections, in any order.       *)
(***************************************************************************)
EXTENDS TripSharing

CONSTANT MaxFetches     \* bound on the fetches a browser has under way

VARIABLES
    open,       \* the trip of currentTrip, or NoTrip
    shown,      \* the plans in currentTrip: the revision shown, or Absent
    inbox,      \* trips named by events not yet handled
    answers     \* answers of the server on their way: what they will show

clientVars == <<open, shown, inbox, answers>>

Absent == -1
Nothing == [p \in Plans |-> Absent]

ClientInit ==
    /\ Init
    /\ open = [u \in Users |-> NoTrip] /\ shown = [u \in Users |-> Nothing]
    /\ inbox = [u \in Users |-> {}] /\ answers = [u \in Users |-> {}]

CanViewTrip(u, t) ==
    /\ trip[t].state = "live"
    /\ u \in Superusers \/ trip[t].creator = u \/ u \in Members(t)

\* getTrip: the plans of the trip that the user sees, as they are now.
VisiblePlans(u, t) ==
    [p \in Plans |-> IF LivePlan(p) /\ plan[p].trip = t /\ (u \in Superusers \/ CanViewPlan(u, p))
                     THEN plan[p].rev ELSE Absent]

\* The server reads the database; the answer is still to come.  A trip that may
\* not be seen is answered with an error, which leaves the view as it is.
Fetch(u, t) ==
    /\ Cardinality(answers[u]) < MaxFetches
    /\ answers' = IF CanViewTrip(u, t)
                  THEN [answers EXCEPT ![u] = @ \cup {[trip |-> t, plans |-> VisiblePlans(u, t)]}]
                  ELSE answers

LoadTrip(u, t) ==
    /\ u \in accounts /\ open[u] # t
    /\ Fetch(u, t)
    /\ UNCHANGED <<vars, open, shown, inbox>>

\* onTrip and onPlan: an event about another trip than the open one is ignored.
OnEvent(u, t) ==
    /\ t \in inbox[u] /\ inbox' = [inbox EXCEPT ![u] = @ \ {t}]
    /\ IF open[u] = t THEN Fetch(u, t) ELSE UNCHANGED answers
    /\ UNCHANGED <<vars, open, shown>>

\* set({ currentTrip }): whichever answer comes, it replaces the view.
Answered(u) ==
    /\ \E a \in answers[u] :
          /\ answers' = [answers EXCEPT ![u] = @ \ {a}]
          /\ open' = [open EXCEPT ![u] = a.trip]
          /\ shown' = [shown EXCEPT ![u] = a.plans]
    /\ UNCHANGED <<vars, inbox>>

ClearCurrentTrip(u) ==
    /\ open[u] # NoTrip
    /\ open' = [open EXCEPT ![u] = NoTrip] /\ shown' = [shown EXCEPT ![u] = Nothing]
    /\ UNCHANGED <<vars, inbox, answers>>

\* The hub passes the event of u's request on to those it is delivered to.
Deliver(u) ==
    /\ Send(u)
    /\ inbox' = [v \in Users |-> IF v \in Delivered(req[u].to)
                                 THEN inbox[v] \cup {req[u].trip} ELSE inbox[v]]
    /\ UNCHANGED <<open, shown, answers>>

ServerStep ==
    /\ \E u \in Users : AskAnything(u) \/ Prepare(u)
    /\ UNCHANGED clientVars

ClientNext ==
    \/ ServerStep
    \/ \E u \in Users : Deliver(u) \/ Answered(u) \/ ClearCurrentTrip(u)
    \/ \E u \in Users, t \in Trips : LoadTrip(u, t) \/ OnEvent(u, t)

ClientSpec == ClientInit /\ [][ClientNext]_<<vars, clientVars>>

-----------------------------------------------------------------------------
(* Properties                                                              *)

\* "Refetch the open trip so the shared view stays live without a manual
\* reload": when nothing is under way, and nothing failed, the open trip shows
\* every plan of it that the user sees, as it is.
ViewStaysLive ==
    (\A u \in Users : req[u] = Idle) /\ failures = 0 /\ ~undercut =>
        \A u \in Users, p \in Plans :
            /\ inbox[u] = {} /\ answers[u] = {}
            /\ CanViewPlan(u, p) /\ open[u] = plan[p].trip
            => shown[u][p] = plan[p].rev
=============================================================================
