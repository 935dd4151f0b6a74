---------------------------- MODULE TripSharing ----------------------------
(***************************************************************************)
(* Trips, the plans on them, who may see a plan, and who is told when one  *)
(* changes.  Every HTTP request is authorised first, writes afterwards, in *)
(* one or more database transactions, and only then looks up the audience  *)
(* of its event and hands the event to the hub.  Requests of different     *)
(* users interleave between any two of these steps, and a step may fail:   *)
(* the context of a request is cancelled when its client goes away.        *)
(***************************************************************************)
EXTENDS Integers, FiniteSets

CONSTANTS
    Users, Superusers,      \* everybody who ever had an account; the superusers
    ShowAll,                \* superusers whose connection asked for all events
    Trips, Plans,           \* identifiers, never used twice
    NoOne, NoTrip,          \* NULL references
    PassengerLists, Rules,  \* what createPlan and setPlanVisibility may be given
    Seeds,                  \* databases to start from: records [trip, plan]
    MaxRequests,            \* bound on requests
    MaxFailures             \* bound on failing calls

VARIABLES
    accounts,       \* users that exist
    trip,           \* trips joined to trip_members
    plan,           \* plans joined to passengers, visibility and alert opt-ins
    req,            \* the request of each user being served
    asked, failures,    \* how much of each bound is used
    owed,           \* history: <<user, plan>>: the user sees a change of the plan untold
    undercut        \* history: a plan, or a passenger of it, was taken away while another
                    \* request about the plan was at work

vars == <<accounts, trip, plan, req, asked, failures, owed, undercut>>
histVars == <<owed, undercut>>

Roles == {"none", "viewer", "editor", "owner"}
Modes == {"everyone", "hidden_from", "only_visible_to"}
States == {"unborn", "live", "gone"}

Trip == [state : States, creator : Users \cup {NoOne}, role : [Users -> Roles]]
Plan == [state : States, trip : Trips \cup {NoTrip}, creator : Users \cup {NoOne},
         pax : SUBSET Users, mode : Modes, named : SUBSET Users, optin : SUBSET Users,
         rev : Nat]

NoRoles == [u \in Users |-> "none"]
GoneTrip == [state |-> "gone", creator |-> NoOne, role |-> NoRoles]
GonePlan == [state |-> "gone", trip |-> NoTrip, creator |-> NoOne, pax |-> {},
             mode |-> "everyone", named |-> {}, optin |-> {}, rev |-> 0]

\* Foreign keys: a plan is on a live trip; no row of a trip, of a plan or of a user
\* outlives it.
Anchored(ts, ps, us) ==
    /\ \A p \in Plans : ps[p].state = "live" => ps[p].trip \in Trips /\ ts[ps[p].trip].state = "live"
    /\ \A p \in Plans : /\ ps[p].pax \subseteq us /\ ps[p].named \subseteq us
                        /\ ps[p].optin \subseteq us /\ ps[p].creator \in us \cup {NoOne}
    /\ \A p \in Plans : ps[p].state # "live" => ps[p].pax = {} /\ ps[p].named = {} /\ ps[p].optin = {}
    /\ \A t \in Trips : /\ ts[t].creator \in us \cup {NoOne}
                        /\ \A u \in Users : ts[t].role[u] # "none" => u \in us /\ ts[t].state = "live"

ASSUME SharingAssumption ==
    /\ Superusers \subseteq Users /\ ShowAll \subseteq Superusers
    /\ NoOne \notin Users /\ NoTrip \notin Trips
    /\ PassengerLists \subseteq SUBSET Users
    /\ Rules \subseteq [mode : Modes, named : SUBSET Users]
    /\ MaxRequests \in Nat /\ MaxFailures \in Nat
    /\ \A s \in Seeds : /\ s.trip \in [Trips -> Trip] /\ s.plan \in [Plans -> Plan]
                        /\ Anchored(s.trip, s.plan, Users)

Idle == [op |-> "none", at |-> "end", plan |-> {}, trip |-> NoTrip, src |-> NoTrip,
         user |-> {}, role |-> "viewer", mode |-> "everyone", named |-> {}, to |-> {}]

Ops == {"none", "createTrip", "editTrip", "deleteTrip", "addMember", "removeMember",
        "createPlan", "updatePlan", "deletePlan", "addPassenger", "removePassenger",
        "setVisibility", "movePlan", "optIn", "optOut", "deleteUser"}
Steps == {"write", "passengers", "visibility", "read", "audience", "send", "members", "tell", "end"}

\* plan and user hold the argument, or several of them, or none.
Request == [op : Ops, at : Steps, plan : SUBSET Plans, trip : Trips \cup {NoTrip},
            src : Trips \cup {NoTrip}, user : SUBSET Users, role : Roles \ {"none"},
            mode : Modes, named : SUBSET Users, to : SUBSET Users]

Init ==
    /\ accounts = Users
    /\ \E s \in Seeds : trip = s.trip /\ plan = s.plan
    /\ req = [u \in Users |-> Idle]
    /\ asked = 0 /\ failures = 0
    /\ owed = {} /\ undercut = FALSE

-----------------------------------------------------------------------------
(* Who may do and see what                                                 *)

LivePlan(p) == plan[p].state = "live"

CanEditTrip(u, t) == u \in Superusers \/ trip[t].role[u] \in {"editor", "owner"}
IsOwner(u, t) == u \in Superusers \/ trip[t].role[u] = "owner"
Members(t) == {u \in Users : trip[t].role[u] # "none"}

\* The three rules of plan_visibility.
NotHidden(u, p) ==
    \/ plan[p].mode = "everyone"
    \/ plan[p].mode = "hidden_from" /\ u \notin plan[p].named
    \/ plan[p].mode = "only_visible_to" /\ u \in plan[p].named

\* canViewPlanPredicate: what a user sees in his own right.
CanViewPlan(u, p) ==
    /\ LivePlan(p) /\ u \in accounts
    /\ LET t == plan[p].trip IN
       \/ trip[t].creator = u
       \/ u \in Members(t) /\ (plan[p].creator = u \/ u \in plan[p].pax \/ NotHidden(u, p))

OmitsTripCreator(p) ==      \* faulty: leaves out the creator of the trip
    IF ~LivePlan(p) THEN {}
    ELSE {u \in accounts : \/ plan[p].creator = u \/ u \in plan[p].pax
                           \/ u \in Members(plan[p].trip) /\ NotHidden(u, p)}

VisiblePlanUserIDs(p) ==
    IF ~LivePlan(p) THEN {}
    ELSE {u \in accounts :
            \/ plan[p].creator = u \/ trip[plan[p].trip].creator = u \/ u \in plan[p].pax
            \/ u \in Members(plan[p].trip) /\ NotHidden(u, p)}

\* shouldDeliver: an event that names nobody is public.
Delivered(audience) == IF audience = {} THEN Users ELSE audience \cup ShowAll

-----------------------------------------------------------------------------
(* Requests                                                                *)

Busy(u, op, at) == req[u].op = op /\ req[u].at = at
Continue(u, at) == req' = [req EXCEPT ![u].at = at]
Done(u) == req' = [req EXCEPT ![u] = Idle]
Served == UNCHANGED <<asked, failures>>

\* After a write: whoever sees a plan he did not see, or sees it changed or
\* elsewhere, is owed an event; whoever lost sight of it is owed nothing.
Ledger ==
    owed' = {up \in Users \X Plans :
        LET u == up[1]  p == up[2] IN
        /\ CanViewPlan(u, p)'
        /\ \/ up \in owed \/ ~CanViewPlan(u, p)
           \/ plan'[p].rev # plan[p].rev \/ plan'[p].trip # plan[p].trip}

Write == Ledger /\ Served /\ UNCHANGED undercut
Take(u) == /\ Ledger /\ Served
           /\ undercut' = (undercut \/ \E v \in Users \ {u} : req[v].plan = req[u].plan)
NoWrite(u) == Done(u) /\ Served /\ UNCHANGED <<accounts, trip, plan, histVars>>

\* A request that passed its checks.  Those that fail them change nothing.
Ask(u, r) ==
    /\ asked < MaxRequests /\ asked' = asked + 1
    /\ u \in accounts /\ req[u] = Idle
    /\ req' = [req EXCEPT ![u] = r]
    /\ UNCHANGED <<accounts, trip, plan, failures, histVars>>

AskPlan(u, p) ==
    /\ LivePlan(p) /\ CanEditTrip(u, plan[p].trip)
    /\ LET r == [Idle EXCEPT !.plan = {p}, !.at = "write"] IN
       \/ Ask(u, [r EXCEPT !.op = "updatePlan"])
       \/ Ask(u, [r EXCEPT !.op = "deletePlan", !.at = "read"])
       \/ \E v \in Users : Ask(u, [r EXCEPT !.op = "addPassenger", !.user = {v}])
       \/ \E v \in Users : Ask(u, [r EXCEPT !.op = "removePassenger", !.user = {v}])
       \/ \E n \in Rules :
             Ask(u, [r EXCEPT !.op = "setVisibility", !.mode = n.mode, !.named = n.named])
       \/ \E t \in Trips : CanEditTrip(u, t) /\ trip[t].state = "live" /\
             Ask(u, [r EXCEPT !.op = "movePlan", !.trip = t, !.src = plan[p].trip])

UncheckedRole(u, t) ==      \* faulty: takes any string for a role
    \E v \in Users, o \in Roles :
        Ask(u, [Idle EXCEPT !.op = "addMember", !.trip = t, !.at = "write", !.user = {v}, !.role = o])

\* A new member, or a new role for an old one, himself included.
AskMember(u, t) ==
    \E v \in Users, o \in Roles \ {"none"} :
        Ask(u, [Idle EXCEPT !.op = "addMember", !.trip = t, !.at = "write", !.user = {v}, !.role = o])

AskTrip(u, t) ==
    /\ trip[t].state = "live"
    /\ LET r == [Idle EXCEPT !.trip = t, !.at = "write"] IN
       \/ /\ CanEditTrip(u, t)
          /\ \/ Ask(u, [r EXCEPT !.op = "editTrip"])
             \/ \E V \in PassengerLists, n \in Rules :
                   Ask(u, [r EXCEPT !.op = "createPlan", !.user = V, !.mode = n.mode, !.named = n.named])
       \/ /\ IsOwner(u, t)
          /\ \/ Ask(u, [r EXCEPT !.op = "deleteTrip", !.at = "members"])
             \/ AskMember(u, t)
             \/ \E v \in Users : Ask(u, [r EXCEPT !.op = "removeMember", !.user = {v}])

AskOther(u) ==
    LET r == [Idle EXCEPT !.at = "write"] IN
    \/ Ask(u, [r EXCEPT !.op = "createTrip"])
    \/ \E p \in Plans : /\ CanViewPlan(u, p) \/ (u \in Superusers /\ LivePlan(p))
                        /\ Ask(u, [r EXCEPT !.op = "optIn", !.plan = {p}])
    \/ \E p \in Plans : Ask(u, [r EXCEPT !.op = "optOut", !.plan = {p}])
    \/ \E v \in Users \ {u} : u \in Superusers /\ Ask(u, [r EXCEPT !.op = "deleteUser", !.user = {v}])

-----------------------------------------------------------------------------
(* The writes, one transaction each                                        *)

CreateTrip(u) ==
    /\ Busy(u, "createTrip", "write")
    /\ IF u \in accounts
       THEN \E t \in Trips :
            /\ trip[t].state = "unborn"
            /\ trip' = [trip EXCEPT ![t] = [state |-> "live", creator |-> u,
                                            role |-> [NoRoles EXCEPT ![u] = "owner"]]]
            /\ req' = [req EXCEPT ![u].at = "members", ![u].trip = t]
            /\ UNCHANGED <<accounts, plan>> /\ Write
       ELSE NoWrite(u)

\* UpdateTrip and SetTripTags: the metadata itself is not modelled.
EditTrip(u) ==
    /\ Busy(u, "editTrip", "write")
    /\ IF trip[req[u].trip].state = "live" THEN Continue(u, "members") ELSE Done(u)
    /\ UNCHANGED <<accounts, trip, plan>> /\ Write

\* ON DELETE CASCADE removes the plans of the trip too.
DeleteTrip(u) ==
    /\ Busy(u, "deleteTrip", "write")
    /\ trip' = [trip EXCEPT ![req[u].trip] = GoneTrip]
    /\ plan' = [p \in Plans |-> IF LivePlan(p) /\ plan[p].trip = req[u].trip THEN GonePlan ELSE plan[p]]
    /\ Done(u) /\ UNCHANGED accounts /\ Write

AddTripMember(u) ==
    /\ Busy(u, "addMember", "write")
    /\ \E v \in req[u].user :
       IF trip[req[u].trip].state = "live" /\ v \in accounts
       THEN /\ trip' = [trip EXCEPT ![req[u].trip].role[v] = req[u].role]
            /\ Continue(u, "members") /\ UNCHANGED <<accounts, plan>> /\ Write
       ELSE NoWrite(u)

RemoveTripMember(u) ==
    /\ Busy(u, "removeMember", "write")
    /\ \E v \in req[u].user :
       IF v \in Members(req[u].trip)
       THEN /\ trip' = [trip EXCEPT ![req[u].trip].role[v] = "none"]
            /\ Continue(u, "members") /\ UNCHANGED <<accounts, plan>> /\ Write
       ELSE NoWrite(u)

\* createPlan is several transactions: the plan, each passenger, the visibility.
CreatePlan(u) ==
    /\ Busy(u, "createPlan", "write")
    /\ IF trip[req[u].trip].state = "live" /\ u \in accounts
       THEN \E p \in Plans :
            /\ plan[p].state = "unborn"
            /\ plan' = [plan EXCEPT ![p] = [GonePlan EXCEPT !.state = "live", !.creator = u,
                                                           !.trip = req[u].trip]]
            /\ req' = [req EXCEPT ![u].at = "passengers", ![u].plan = {p}]
            /\ UNCHANGED <<accounts, trip>> /\ Write
       ELSE NoWrite(u)

PassengerDemotes(v, p) ==       \* faulty: ON CONFLICT DO UPDATE in the trigger
    /\ plan' = [plan EXCEPT ![p].pax = @ \cup {v}]
    /\ trip' = [trip EXCEPT ![plan[p].trip].role[v] = "viewer"]

\* The insert and its trigger, which makes the passenger a viewer of the trip the
\* plan is on now, unless he has a role there.  Inserting him twice does nothing.
InsertPassenger(v, p) ==
    /\ plan' = [plan EXCEPT ![p].pax = @ \cup {v}]
    /\ trip' = [trip EXCEPT ![plan[p].trip].role[v] =
                   IF @ = "none" /\ v \notin plan[p].pax THEN "viewer" ELSE @]

\* The loop over PassengerIDs; an insert that fails ends the request there.
AddNextPassenger(u) ==
    /\ Busy(u, "createPlan", "passengers")
    /\ IF req[u].user = {} THEN /\ Continue(u, IF req[u].mode = "everyone" THEN "read" ELSE "visibility")
                                /\ UNCHANGED <<accounts, trip, plan>> /\ Write
       ELSE \E v \in req[u].user, p \in req[u].plan :
            IF LivePlan(p) /\ v \in accounts
            THEN /\ InsertPassenger(v, p)
                 /\ req' = [req EXCEPT ![u].user = @ \ {v}]
                 /\ UNCHANGED accounts /\ Write
            ELSE /\ failures' = failures + 1 /\ Done(u)
                 /\ UNCHANGED <<accounts, trip, plan, asked, histVars>>

SilentPassenger(u) ==       \* faulty: returns without the broadcast
    /\ Busy(u, "addPassenger", "write")
    /\ \E v \in req[u].user, p \in req[u].plan :
       IF LivePlan(p) /\ v \in accounts
       THEN InsertPassenger(v, p) /\ Done(u) /\ UNCHANGED accounts /\ Write
       ELSE NoWrite(u)

AddPlanPassenger(u) ==
    /\ Busy(u, "addPassenger", "write")
    /\ \E v \in req[u].user, p \in req[u].plan :
       IF LivePlan(p) /\ v \in accounts
       THEN /\ InsertPassenger(v, p)
            /\ Continue(u, "read") /\ UNCHANGED accounts /\ Write
       ELSE NoWrite(u)

RemovePlanPassenger(u) ==
    /\ Busy(u, "removePassenger", "write")
    /\ \E v \in req[u].user, p \in req[u].plan :
       IF v \in plan[p].pax
       THEN /\ plan' = [plan EXCEPT ![p].pax = @ \ {v}]
            /\ Continue(u, "read") /\ UNCHANGED <<accounts, trip>> /\ Take(u)
       ELSE NoWrite(u)

\* Replaces the rule and its list together; an unknown user rolls both back.
SetPlanVisibility(u) ==
    /\ \/ Busy(u, "setVisibility", "write") \/ Busy(u, "createPlan", "visibility")
    /\ \E p \in req[u].plan :
       IF LivePlan(p) /\ (req[u].mode # "everyone" => req[u].named \subseteq accounts)
       THEN /\ plan' = [plan EXCEPT ![p].mode = req[u].mode,
                         ![p].named = IF req[u].mode = "everyone" THEN {} ELSE req[u].named]
            /\ Continue(u, "read") /\ UNCHANGED <<accounts, trip>> /\ Write
       ELSE IF req[u].op = "createPlan"
            THEN /\ failures' = failures + 1 /\ Done(u)
                 /\ UNCHANGED <<accounts, trip, plan, asked, histVars>>
            ELSE NoWrite(u)

UpdatePlan(u) ==
    /\ Busy(u, "updatePlan", "write")
    /\ \E p \in req[u].plan :
       IF LivePlan(p)
       THEN /\ plan' = [plan EXCEPT ![p].rev = @ + 1]
            /\ Continue(u, "read") /\ UNCHANGED <<accounts, trip>> /\ Write
       ELSE NoWrite(u)

DeletePlan(u) ==
    /\ Busy(u, "deletePlan", "write")
    /\ \E p \in req[u].plan : plan' = [plan EXCEPT ![p] = IF LivePlan(p) THEN GonePlan ELSE @]
    /\ Done(u) /\ UNCHANGED <<accounts, trip>> /\ Take(u)

MoveUnchecked(u) ==         \* faulty: no foreign key from plans to trips
    /\ Busy(u, "movePlan", "write")
    /\ \E p \in req[u].plan :
          plan' = [plan EXCEPT ![p].trip = IF LivePlan(p) THEN req[u].trip ELSE @]
    /\ Continue(u, "read") /\ UNCHANGED <<accounts, trip>> /\ Take(u)

\* Only trip_id changes: passengers and visibility travel with the plan.
MovePlan(u) ==
    /\ Busy(u, "movePlan", "write")
    /\ \E p \in req[u].plan :
       IF LivePlan(p) /\ trip[req[u].trip].state = "live"
       THEN /\ plan' = [plan EXCEPT ![p].trip = req[u].trip]
            /\ Continue(u, "read")
            /\ UNCHANGED <<accounts, trip>> /\ Take(u)
       ELSE NoWrite(u)

AddPlanAlertOptin(u) ==
    /\ Busy(u, "optIn", "write")
    /\ plan' = [p \in Plans |-> IF p \in req[u].plan /\ LivePlan(p) /\ u \in accounts
                                THEN [plan[p] EXCEPT !.optin = @ \cup {u}] ELSE plan[p]]
    /\ Done(u) /\ UNCHANGED <<accounts, trip>> /\ Write

RemovePlanAlertOptin(u) ==
    /\ Busy(u, "optOut", "write")
    /\ plan' = [p \in Plans |-> IF p \in req[u].plan
                                THEN [plan[p] EXCEPT !.optin = @ \ {u}] ELSE plan[p]]
    /\ Done(u) /\ UNCHANGED <<accounts, trip>> /\ Write

RuleGoesWithList(u) ==      \* faulty: the rule is only the rows that name somebody
    /\ Busy(u, "deleteUser", "write")
    /\ \E v \in req[u].user :
       LET known(c) == IF c = v THEN NoOne ELSE c IN
       /\ accounts' = accounts \ {v}
       /\ trip' = [t \in Trips |-> [trip[t] EXCEPT !.creator = known(@), !.role[v] = "none"]]
       /\ plan' = [p \in Plans |-> [plan[p] EXCEPT !.creator = known(@), !.pax = @ \ {v},
                       !.mode = IF plan[p].named \ {v} = {} THEN "everyone" ELSE @,
                       !.named = @ \ {v}, !.optin = @ \ {v}]]
    /\ Done(u) /\ Write

\* ON DELETE CASCADE for what belongs to the user, SET NULL for what he created.
DeleteUser(u) ==
    /\ Busy(u, "deleteUser", "write")
    /\ \E v \in req[u].user :
       LET known(c) == IF c = v THEN NoOne ELSE c IN
       /\ accounts' = accounts \ {v}
       /\ trip' = [t \in Trips |-> [trip[t] EXCEPT !.creator = known(@), !.role[v] = "none"]]
       /\ plan' = [p \in Plans |-> [plan[p] EXCEPT !.creator = known(@), !.pax = @ \ {v},
                                                   !.named = @ \ {v}, !.optin = @ \ {v}]]
    /\ Done(u) /\ Write

WriteStep(u) ==
    \/ CreateTrip(u) \/ EditTrip(u) \/ DeleteTrip(u) \/ AddTripMember(u) \/ RemoveTripMember(u)
    \/ CreatePlan(u) \/ AddNextPassenger(u) \/ AddPlanPassenger(u) \/ RemovePlanPassenger(u)
    \/ SetPlanVisibility(u) \/ UpdatePlan(u) \/ DeletePlan(u) \/ MovePlan(u)
    \/ AddPlanAlertOptin(u) \/ RemovePlanAlertOptin(u) \/ DeleteUser(u)

-----------------------------------------------------------------------------
(* Telling the clients                                                     *)

\* planDTO or PlanByID: the trip the event will name is the one the plan is on
\* now, except that createPlan names the trip of its URL.
ReadPlan(u) ==
    /\ req[u].at = "read"
    /\ \E p \in req[u].plan :
       IF LivePlan(p)
       THEN req' = [req EXCEPT ![u].at = "audience",
                               ![u].trip = IF req[u].op = "createPlan" THEN @ ELSE plan[p].trip]
       ELSE Done(u)
    /\ Served /\ UNCHANGED <<accounts, trip, plan, histVars>>

PlanAudience(u) ==
    /\ req[u].at = "audience"
    /\ \E p \in req[u].plan :
          req' = [req EXCEPT ![u].at = "send", ![u].to = VisiblePlanUserIDs(p)]
    /\ Served /\ UNCHANGED <<accounts, trip, plan, histVars>>

\* Clients that have the trip of the event open fetch it again, with all its plans.
Publish(t, audience) ==
    /\ owed' = {up \in owed : ~(up[1] \in Delivered(audience) /\ plan[up[2]].trip = t)}
    /\ UNCHANGED <<accounts, trip, plan, undercut>>

\* Next comes the delete of deletePlan, or the source trip of movePlan.
SendPlanEvent(u) ==
    /\ req[u].at = "send"
    /\ Publish(req[u].trip, req[u].to)
    /\ IF req[u].op = "deletePlan" THEN Continue(u, "write")
       ELSE IF req[u].op = "movePlan" /\ req[u].src # req[u].trip
       THEN req' = [req EXCEPT ![u].at = "members", ![u].trip = req[u].src]
       ELSE Done(u)
    /\ Served

\* addTripMember reads the trip once more before, and stops when it is gone.
TripAudience(u) ==
    /\ req[u].at = "members"
    /\ \/ req' = [req EXCEPT ![u].at = "tell", ![u].to = Members(req[u].trip)]
       \/ req[u].op = "addMember" /\ trip[req[u].trip].state = "gone" /\ Done(u)
    /\ Served /\ UNCHANGED <<accounts, trip, plan, histVars>>

SendTripEvent(u) ==
    /\ req[u].at = "tell"
    /\ Publish(req[u].trip, req[u].to)
    /\ IF req[u].op = "deleteTrip" THEN Continue(u, "write") ELSE Done(u)
    /\ Served

\* The poller broadcasts a part of the plan, with its position, at any time.
PartRecipients(p) == Delivered(VisiblePlanUserIDs(p))

\* A call fails, or the client went away: the rest of the request is skipped.
\* A failed lookup of the audience skips the event but not what comes after it.
Fail(u) ==
    /\ failures < MaxFailures /\ failures' = failures + 1
    /\ req[u] # Idle
    /\ \/ Done(u)
       \/ req[u].at = "audience" /\ req[u].op = "deletePlan" /\ Continue(u, "write")
       \/ req[u].at = "members" /\ req[u].op = "deleteTrip" /\ Continue(u, "write")
       \/ /\ req[u].at = "audience" /\ req[u].op = "movePlan" /\ req[u].src # req[u].trip
          /\ req' = [req EXCEPT ![u].at = "members", ![u].trip = req[u].src]
    /\ UNCHANGED <<accounts, trip, plan, asked, histVars>>

AskAnything(u) ==
    \/ \E p \in Plans : AskPlan(u, p)
    \/ \E t \in Trips : AskTrip(u, t)
    \/ AskOther(u)
Prepare(u) == WriteStep(u) \/ ReadPlan(u) \/ PlanAudience(u) \/ TripAudience(u) \/ Fail(u)
Send(u) == SendPlanEvent(u) \/ SendTripEvent(u)

Next == \E u \in Users : AskAnything(u) \/ Prepare(u) \/ Send(u)

Spec == Init /\ [][Next]_vars

-----------------------------------------------------------------------------
(* Properties                                                              *)

\* Type invariant of the rows and the requests.
TypeOK ==
    /\ accounts \subseteq Users
    /\ trip \in [Trips -> Trip] /\ plan \in [Plans -> Plan]
    /\ req \in [Users -> Request]
    /\ asked \in Nat /\ failures \in Nat
    /\ owed \subseteq Users \X Plans /\ undercut \in BOOLEAN

\* No dangling reference survives a cascade: not even a request that was
\* authorised before the trip, the plan or the user it names was deleted writes one.
NothingDangles == Anchored(trip, plan, accounts)

\* The predicate that answers "may this user see the plan?" and the query that
\* lists whom to tell agree at least this far: who sees a plan is told about it.
ViewersAreTold ==
    \A p \in Plans, u \in Users : CanViewPlan(u, p) => u \in VisiblePlanUserIDs(p)

\* When no request is at work, nothing failed, and nobody took a plan or a
\* passenger away under another request, every user who sees a plan was sent an
\* event after the last change that showed it to him or altered it.
EveryoneTold ==
    (\A u \in Users : req[u] = Idle) /\ failures = 0 /\ ~undercut => owed = {}

\* Making somebody a passenger never costs him a role he has on the trip: only an
\* owner's request about the members, or a deletion, takes a role away.
PassengersKeepRole ==
    [][\A t \in Trips, v \in Users :
          trip[t].role[v] \in {"editor", "owner"} /\ trip'[t].role[v] # trip[t].role[v]
          => \E u \in Users : /\ req[u].at = "write"
                             /\ req[u].op \in {"addMember", "removeMember", "deleteTrip", "deleteUser"}
      ]_trip

\* Nobody comes to see a plan but by a request meant to show it: one that makes him a member
\* or a passenger, or that moves the plan or sets its rule.  Taking away is never showing: a
\* deleted account is struck off every list that names it, and a list that becomes empty by
\* it still hides the plan from the others (the mode is a row of its own, migration 0010).
SightGranted ==
    [][\A u \in Users, p \in Plans :
          LivePlan(p) /\ CanViewPlan(u, p)' /\ ~CanViewPlan(u, p)
          => \E w \in Users :
                /\ req'[w] # req[w]
                /\ \/ req[w].op \in {"createPlan", "addMember", "addPassenger"} /\ u \in req[w].user
                   \/ req[w].op \in {"createPlan", "movePlan", "setVisibility"} /\ p \in req[w].plan
      ]_<<accounts, trip, plan>>

(* What the comments and the design documents say, and the code does not do. *)

\* "Nothing leaks": what the poller broadcasts about a plan goes to users who can
\* see the plan, and to superusers who asked for all events.
PartEventsScoped ==
    \A p \in Plans : LivePlan(p) =>
        \A u \in PartRecipients(p) \ ShowAll : CanViewPlan(u, p)
=============================================================================
