------------------------- MODULE TripSharing_proofs -------------------------
(* What holds of trips and plans for every set of users, trips and plans,   *)
(* every database to start from, and any number of requests and failures.   *)
EXTENDS TripSharing, TLAPS

USE SharingAssumption

\* A request that will put a plan on a trip names that trip.
Aimed == {r \in Request : r.at = "write" /\ r.op \in {"createPlan", "movePlan"} => r.trip \in Trips}

Inv == TypeOK /\ NothingDangles /\ req \in [Users -> Aimed]

Tables == <<accounts, trip, plan>>

-----------------------------------------------------------------------------
(* Rows and requests                                                        *)

LEMMA IdleIsRequest == Idle \in Aimed
  BY DEF Idle, Aimed, Request, Ops, Steps, Roles, Modes

LEMMA GoneRows == GoneTrip \in Trip /\ GonePlan \in Plan
  BY DEF GoneTrip, GonePlan, Trip, Plan, NoRoles, States, Roles, Modes

\* A membership row is written, changed or removed.
LEMMA RoleWrite ==
  ASSUME trip \in [Trips -> Trip], NEW t \in Trips, NEW v \in Users, NEW o \in Roles,
         trip' = [trip EXCEPT ![t].role[v] = o]
  PROVE  /\ trip' \in [Trips -> Trip]
         /\ \A s \in Trips \ {t} : trip'[s] = trip[s]
         /\ trip'[t].state = trip[t].state /\ trip'[t].creator = trip[t].creator
         /\ trip'[t].role[v] = o
         /\ \A w \in Users \ {v} : trip'[t].role[w] = trip[t].role[w]
<1>1. trip[t] \in Trip
  OBVIOUS
<1> DEFINE row == [trip[t] EXCEPT !.role = [trip[t].role EXCEPT ![v] = o]]
<1>2. trip' = [trip EXCEPT ![t] = row]
  OBVIOUS
<1>3. row \in Trip
  BY <1>1 DEF Trip
<1>4. trip'[t] = row
  BY <1>2
<1>5. row.state = trip[t].state /\ row.creator = trip[t].creator /\ row.role = [trip[t].role EXCEPT ![v] = o]
  BY <1>1 DEF Trip
<1>6. row.role[v] = o /\ \A w \in Users \ {v} : row.role[w] = trip[t].role[w]
  BY <1>1, <1>5 DEF Trip
<1> QED
  BY <1>2, <1>3, <1>4, <1>5, <1>6

LEMMA Redirect ==
  ASSUME NEW r \in Aimed, NEW at \in Steps \ {"write"}, NEW t \in Trips \cup {NoTrip}
  PROVE  [r EXCEPT !.at = at, !.trip = t] \in Aimed
  BY DEF Aimed, Request

LEMMA ContinueType ==
  ASSUME req \in [Users -> Aimed], NEW u \in Users, NEW at \in Steps \ {"write"}, Continue(u, at)
  PROVE  req' \in [Users -> Aimed]
<1>1. [req[u] EXCEPT !.at = at] \in Aimed
  BY DEF Aimed, Request
<1> QED
  BY <1>1 DEF Continue

LEMMA DoneType ==
  ASSUME req \in [Users -> Aimed], NEW u \in Users, Done(u)
  PROVE  req' \in [Users -> Aimed]
  BY IdleIsRequest DEF Done

\* The fields of a request have their types.
LEMMA Fields ==
  ASSUME TypeOK, NEW u \in Users
  PROVE  /\ req[u].op \in Ops /\ req[u].at \in Steps /\ req[u].plan \subseteq Plans
         /\ req[u].trip \in Trips \cup {NoTrip} /\ req[u].src \in Trips \cup {NoTrip}
         /\ req[u].user \subseteq Users /\ req[u].role \in Roles \ {"none"}
         /\ req[u].mode \in Modes /\ req[u].named \subseteq Users /\ req[u].to \subseteq Users
  BY DEF TypeOK, Request

LEMMA LedgerType == Ledger => owed' \subseteq Users \X Plans
  BY DEF Ledger

LEMMA WriteType == ASSUME TypeOK, Write
                   PROVE  /\ asked' = asked /\ failures' = failures /\ undercut' = undercut
                          /\ asked' \in Nat /\ failures' \in Nat /\ undercut' \in BOOLEAN
                          /\ owed' \subseteq Users \X Plans
  BY LedgerType DEF Write, Served, TypeOK

LEMMA TakeType == ASSUME TypeOK, NEW u \in Users, Take(u)
                  PROVE  /\ asked' \in Nat /\ failures' \in Nat /\ undercut' \in BOOLEAN
                         /\ owed' \subseteq Users \X Plans
  BY LedgerType DEF Take, Served, TypeOK

\* A step that leaves the tables alone and keeps requests well-formed.
LEMMA RequestStep ==
  ASSUME Inv, UNCHANGED Tables, req' \in [Users -> Aimed], asked' \in Nat, failures' \in Nat,
         owed' \subseteq Users \X Plans, undercut' \in BOOLEAN
  PROVE  Inv'
  BY DEF Inv, TypeOK, NothingDangles, Anchored, Tables, Aimed

LEMMA NoWriteInv ==
  ASSUME Inv, NEW u \in Users, NoWrite(u)
  PROVE  Inv' /\ trip' = trip
  BY DoneType, RequestStep DEF NoWrite, Served, Inv, TypeOK, Tables, histVars

-----------------------------------------------------------------------------
(* Asking                                                                   *)

LEMMA AskInv ==
  ASSUME Inv, NEW u \in Users, NEW r \in Aimed, Ask(u, r)
  PROVE  Inv'
<1>1. req' \in [Users -> Aimed]
  BY DEF Ask, Inv, TypeOK
<1> QED
  BY <1>1, RequestStep DEF Ask, Inv, TypeOK, Tables, histVars

LEMMA AskPlanInv ==
  ASSUME Inv, NEW u \in Users, NEW p \in Plans, AskPlan(u, p)
  PROVE  Inv'
<1> DEFINE r == [Idle EXCEPT !.plan = {p}, !.at = "write"]
<1>0. plan[p].trip \in Trips
  BY DEF AskPlan, LivePlan, Inv, NothingDangles, Anchored
<1>1. [r EXCEPT !.op = "updatePlan"] \in Aimed
  BY DEF Idle, Aimed, Request, Ops, Steps, Roles, Modes
<1>2. [r EXCEPT !.op = "deletePlan", !.at = "read"] \in Aimed
  BY DEF Idle, Aimed, Request, Ops, Steps, Roles, Modes
<1>3. \A v \in Users : /\ [r EXCEPT !.op = "addPassenger", !.user = {v}] \in Aimed
                       /\ [r EXCEPT !.op = "removePassenger", !.user = {v}] \in Aimed
  BY ZenonT(60) DEF Idle, Aimed, Request, Ops, Steps, Roles, Modes
<1>4. \A n \in Rules : [r EXCEPT !.op = "setVisibility", !.mode = n.mode, !.named = n.named] \in Aimed
  BY DEF Idle, Aimed, Request, Ops, Steps, Roles, Modes
<1>5. \A t \in Trips : [r EXCEPT !.op = "movePlan", !.trip = t, !.src = plan[p].trip] \in Aimed
  BY <1>0 DEF Idle, Aimed, Request, Ops, Steps, Roles, Modes
<1> HIDE DEF r
<1>6. \/ Ask(u, [r EXCEPT !.op = "updatePlan"])
      \/ Ask(u, [r EXCEPT !.op = "deletePlan", !.at = "read"])
      \/ \E v \in Users : Ask(u, [r EXCEPT !.op = "addPassenger", !.user = {v}])
      \/ \E v \in Users : Ask(u, [r EXCEPT !.op = "removePassenger", !.user = {v}])
      \/ \E n \in Rules : Ask(u, [r EXCEPT !.op = "setVisibility", !.mode = n.mode, !.named = n.named])
      \/ \E t \in Trips : Ask(u, [r EXCEPT !.op = "movePlan", !.trip = t, !.src = plan[p].trip])
  BY DEF AskPlan, r
<1>7. \A s \in Aimed : Ask(u, s) => Inv'
  BY AskInv
<1> QED
  BY <1>1, <1>2, <1>3, <1>4, <1>5, <1>6, <1>7, Zenon

LEMMA AskTripInv ==
  ASSUME Inv, NEW u \in Users, NEW t \in Trips, AskTrip(u, t)
  PROVE  Inv'
<1> DEFINE r == [Idle EXCEPT !.trip = t, !.at = "write"]
           m(v, o) == [Idle EXCEPT !.op = "addMember", !.trip = t, !.at = "write",
                                   !.user = {v}, !.role = o]
<1>1. [r EXCEPT !.op = "editTrip"] \in Aimed /\ [r EXCEPT !.op = "deleteTrip", !.at = "members"] \in Aimed
  BY DEF Idle, Aimed, Request, Ops, Steps, Roles, Modes
<1>2. \A V \in PassengerLists, n \in Rules :
         [r EXCEPT !.op = "createPlan", !.user = V, !.mode = n.mode, !.named = n.named] \in Aimed
  BY ZenonT(60) DEF Idle, Aimed, Request, Ops, Steps, Roles, Modes
<1>3. \A v \in Users : [r EXCEPT !.op = "removeMember", !.user = {v}] \in Aimed
  BY DEF Idle, Aimed, Request, Ops, Steps, Roles, Modes
<1>4. \A v \in Users, o \in Roles \ {"none"} : m(v, o) \in Aimed
  BY ZenonT(60) DEF Idle, Aimed, Request, Ops, Steps, Roles, Modes
<1>5. CASE AskMember(u, t)
  <2>1. PICK v \in Users, o \in Roles \ {"none"} : Ask(u, m(v, o))
    BY <1>5 DEF AskMember
  <2>2. \A s \in Aimed : Ask(u, s) => Inv'
    BY AskInv
  <2> QED
    BY <2>1, <2>2, <1>4
<1> HIDE DEF r, m
<1>6. \/ Ask(u, [r EXCEPT !.op = "editTrip"])
      \/ Ask(u, [r EXCEPT !.op = "deleteTrip", !.at = "members"])
      \/ \E V \in PassengerLists, n \in Rules :
            Ask(u, [r EXCEPT !.op = "createPlan", !.user = V, !.mode = n.mode, !.named = n.named])
      \/ \E v \in Users : Ask(u, [r EXCEPT !.op = "removeMember", !.user = {v}])
      \/ AskMember(u, t)
  BY DEF AskTrip, r
<1>7. \A s \in Aimed : Ask(u, s) => Inv'
  BY AskInv
<1> QED
  BY <1>1, <1>2, <1>3, <1>5, <1>6, <1>7, Zenon

LEMMA AskOtherInv ==
  ASSUME Inv, NEW u \in Users, AskOther(u)
  PROVE  Inv'
<1> DEFINE r == [Idle EXCEPT !.at = "write"]
<1>1. [r EXCEPT !.op = "createTrip"] \in Aimed
  BY DEF Idle, Aimed, Request, Ops, Steps, Roles, Modes
<1>2. \A p \in Plans : /\ [r EXCEPT !.op = "optIn", !.plan = {p}] \in Aimed
                       /\ [r EXCEPT !.op = "optOut", !.plan = {p}] \in Aimed
  BY ZenonT(60) DEF Idle, Aimed, Request, Ops, Steps, Roles, Modes
<1>3. \A v \in Users : [r EXCEPT !.op = "deleteUser", !.user = {v}] \in Aimed
  BY DEF Idle, Aimed, Request, Ops, Steps, Roles, Modes
<1> HIDE DEF r
<1>4. \/ Ask(u, [r EXCEPT !.op = "createTrip"])
      \/ \E p \in Plans : Ask(u, [r EXCEPT !.op = "optIn", !.plan = {p}])
      \/ \E p \in Plans : Ask(u, [r EXCEPT !.op = "optOut", !.plan = {p}])
      \/ \E v \in Users : Ask(u, [r EXCEPT !.op = "deleteUser", !.user = {v}])
  BY DEF AskOther, r
<1>5. \A s \in Aimed : Ask(u, s) => Inv'
  BY AskInv
<1> QED
  BY <1>1, <1>2, <1>3, <1>4, <1>5, Zenon

-----------------------------------------------------------------------------
(* Writing                                                                  *)

LEMMA TablesStep ==
  ASSUME Inv, accounts' \subseteq Users, trip' \in [Trips -> Trip], plan' \in [Plans -> Plan],
         Anchored(trip', plan', accounts'), req' \in [Users -> Aimed],
         asked' \in Nat, failures' \in Nat, undercut' \in BOOLEAN, owed' \subseteq Users \X Plans
  PROVE  Inv'
  BY DEF Inv, TypeOK, NothingDangles, Anchored, Aimed

LEMMA WriteStepInv ==
  ASSUME Inv, Write, accounts' \subseteq Users, trip' \in [Trips -> Trip], plan' \in [Plans -> Plan],
         Anchored(trip', plan', accounts'), req' \in [Users -> Aimed]
  PROVE  Inv'
  BY WriteType, TablesStep DEF Inv

LEMMA TakeStepInv ==
  ASSUME Inv, NEW u \in Users, Take(u), UNCHANGED <<accounts, trip>>, plan' \in [Plans -> Plan],
         Anchored(trip, plan', accounts), req' \in [Users -> Aimed]
  PROVE  Inv'
  BY TakeType, TablesStep DEF Inv, TypeOK

LEMMA CreateTripInv ==
  ASSUME Inv, NEW u \in Users, CreateTrip(u)
  PROVE  Inv'
<1>1. CASE u \notin accounts
  BY <1>1, NoWriteInv DEF CreateTrip
<1>2. CASE u \in accounts
  <2>1. PICK t \in Trips :
          /\ trip[t].state = "unborn"
          /\ trip' = [trip EXCEPT ![t] = [state |-> "live", creator |-> u,
                                          role |-> [NoRoles EXCEPT ![u] = "owner"]]]
          /\ req' = [req EXCEPT ![u].at = "members", ![u].trip = t]
          /\ UNCHANGED <<accounts, plan>> /\ Write
    BY <1>2 DEF CreateTrip
  <2> DEFINE row == [state |-> "live", creator |-> u, role |-> [NoRoles EXCEPT ![u] = "owner"]]
  <2>2. row \in Trip /\ row.state = "live" /\ row.creator = u
        /\ \A v \in Users : row.role[v] # "none" => v = u
    BY DEF Trip, States, Roles, NoRoles
  <2> HIDE DEF row
  <2>3. trip' = [trip EXCEPT ![t] = row]
    BY <2>1 DEF row
  <2>4. trip' \in [Trips -> Trip] /\ plan' \in [Plans -> Plan] /\ accounts' \subseteq Users
    BY <2>1, <2>2, <2>3 DEF Inv, TypeOK
  <2>5. trip'[t] = row /\ \A s \in Trips \ {t} : trip'[s] = trip[s]
    BY <2>3 DEF Inv, TypeOK
  <2>6. Anchored(trip', plan', accounts')
    <3>1. trip[t].state # "live" /\ UNCHANGED <<accounts, plan>>
      BY <2>1
    <3> QED
      BY <1>2, <2>2, <2>5, <3>1 DEF Inv, NothingDangles, Anchored
  <2>7. req' \in [Users -> Aimed]
    <3>1. [req[u] EXCEPT !.at = "members", !.trip = t] \in Aimed
      BY Redirect DEF Inv, TypeOK, Steps
    <3>2. req' = [req EXCEPT ![u] = [req[u] EXCEPT !.at = "members", !.trip = t]]
      BY <2>1, ZenonT(60)
    <3> QED
      BY <3>1, <3>2 DEF Inv, TypeOK
  <2> QED
    BY <2>1, <2>4, <2>6, <2>7, WriteStepInv
<1> QED
  BY <1>1, <1>2

LEMMA EditTripInv ==
  ASSUME Inv, NEW u \in Users, EditTrip(u)
  PROVE  Inv'
<1>1. req' \in [Users -> Aimed]
  BY ContinueType, DoneType DEF EditTrip, Inv, TypeOK, Steps
<1> QED
  BY <1>1, WriteType, RequestStep DEF EditTrip, Inv, Tables

LEMMA DeleteTripInv ==
  ASSUME Inv, NEW u \in Users, DeleteTrip(u)
  PROVE  Inv'
<1> DEFINE t == req[u].trip
<1>1. trip' = [trip EXCEPT ![t] = GoneTrip]
      /\ plan' = [p \in Plans |-> IF LivePlan(p) /\ plan[p].trip = t THEN GonePlan ELSE plan[p]]
      /\ accounts' = accounts /\ Done(u) /\ Write
  BY DEF DeleteTrip
<1> HIDE DEF t
<1>2. trip' \in [Trips -> Trip] /\ plan' \in [Plans -> Plan] /\ accounts' \subseteq Users
  BY <1>1, GoneRows DEF Inv, TypeOK
<1>3. \A s \in Trips : trip'[s] = (IF s = t THEN GoneTrip ELSE trip[s])
  BY <1>1 DEF Inv, TypeOK
<1>4. /\ GoneTrip.creator = NoOne /\ \A v \in Users : GoneTrip.role[v] = "none"
      /\ GonePlan.state = "gone" /\ GonePlan.creator = NoOne /\ GonePlan.pax = {}
      /\ GonePlan.named = {} /\ GonePlan.optin = {}
  BY DEF GoneTrip, GonePlan, NoRoles
<1>5. \A p \in Plans : plan'[p] = (IF plan[p].state = "live" /\ plan[p].trip = t THEN GonePlan ELSE plan[p])
  BY <1>1 DEF LivePlan
<1>6. Anchored(trip', plan', accounts')
  BY <1>1, <1>3, <1>4, <1>5 DEF Inv, NothingDangles, Anchored
<1>7. req' \in [Users -> Aimed]
  BY <1>1, DoneType DEF Inv, TypeOK
<1> QED
  BY <1>1, <1>2, <1>6, <1>7, WriteStepInv

\* A role of an existing user on a live trip, or no role at all, is anchored.
LEMMA RoleAnchored ==
  ASSUME Inv, NEW t \in Trips, NEW v \in Users, NEW o \in Roles,
         o # "none" => v \in accounts /\ trip[t].state = "live",
         trip' = [trip EXCEPT ![t].role[v] = o]
  PROVE  trip' \in [Trips -> Trip] /\ Anchored(trip', plan, accounts)
<1>1. trip \in [Trips -> Trip]
  BY DEF Inv, TypeOK
<1>2. /\ trip' \in [Trips -> Trip]
      /\ \A s \in Trips \ {t} : trip'[s] = trip[s]
      /\ trip'[t].state = trip[t].state /\ trip'[t].creator = trip[t].creator
      /\ trip'[t].role[v] = o
      /\ \A w \in Users \ {v} : trip'[t].role[w] = trip[t].role[w]
  BY <1>1, RoleWrite
<1> QED
  BY <1>2 DEF Inv, NothingDangles, Anchored

LEMMA AddTripMemberInv ==
  ASSUME Inv, NEW u \in Users, AddTripMember(u)
  PROVE  Inv'
<1>1. PICK v \in req[u].user :
        IF trip[req[u].trip].state = "live" /\ v \in accounts
        THEN /\ trip' = [trip EXCEPT ![req[u].trip].role[v] = req[u].role]
             /\ Continue(u, "members") /\ UNCHANGED <<accounts, plan>> /\ Write
        ELSE NoWrite(u)
  BY DEF AddTripMember
<1>2. CASE trip[req[u].trip].state = "live" /\ v \in accounts /\ req[u].trip \in Trips
  <2>1. v \in Users /\ req[u].role \in Roles /\ req' \in [Users -> Aimed]
    BY <1>1, <1>2, Fields, ContinueType DEF Inv, TypeOK, Steps
  <2>2. trip' \in [Trips -> Trip] /\ Anchored(trip', plan, accounts)
    BY <1>1, <1>2, <2>1, RoleAnchored
  <2> QED
    BY <1>1, <1>2, <2>1, <2>2, WriteStepInv DEF Inv, TypeOK
<1>3. CASE trip[req[u].trip].state = "live" /\ v \in accounts /\ req[u].trip \notin Trips
  <2>1. trip' = trip
    BY <1>1, <1>3 DEF Inv, TypeOK
  <2>2. req' \in [Users -> Aimed]
    BY <1>1, <1>3, ContinueType DEF Inv, TypeOK, Steps
  <2> QED
    BY <1>1, <1>3, <2>1, <2>2, WriteStepInv DEF Inv, TypeOK, NothingDangles
<1>4. CASE ~(trip[req[u].trip].state = "live" /\ v \in accounts)
  BY <1>1, <1>4, NoWriteInv
<1> QED
  BY <1>2, <1>3, <1>4

LEMMA RemoveTripMemberInv ==
  ASSUME Inv, NEW u \in Users, RemoveTripMember(u)
  PROVE  Inv'
<1>1. PICK v \in req[u].user :
        IF v \in Members(req[u].trip)
        THEN /\ trip' = [trip EXCEPT ![req[u].trip].role[v] = "none"]
             /\ Continue(u, "members") /\ UNCHANGED <<accounts, plan>> /\ Write
        ELSE NoWrite(u)
  BY DEF RemoveTripMember
<1>2. CASE v \in Members(req[u].trip)
  <2>1. v \in Users /\ req' \in [Users -> Aimed]
    BY <1>1, <1>2, Fields, ContinueType DEF Inv, TypeOK, Steps
  <2>2. trip' \in [Trips -> Trip] /\ Anchored(trip', plan, accounts)
    <3>1. CASE req[u].trip \in Trips
      BY <1>1, <1>2, <2>1, <3>1, RoleAnchored DEF Roles
    <3>2. CASE req[u].trip \notin Trips
      <4>1. trip' = trip
        BY <1>1, <1>2, <3>2 DEF Inv, TypeOK
      <4> QED
        BY <4>1 DEF Inv, TypeOK, NothingDangles
    <3> QED
      BY <3>1, <3>2
  <2> QED
    BY <1>1, <1>2, <2>1, <2>2, WriteStepInv DEF Inv, TypeOK
<1>3. CASE v \notin Members(req[u].trip)
  BY <1>1, <1>3, NoWriteInv
<1> QED
  BY <1>2, <1>3

\* A row of a plan on a live trip that refers to existing users is anchored.
LEMMA PlanAnchored ==
  ASSUME Inv, NEW ts, Anchored(ts, plan, accounts), NEW p \in Plans, NEW r \in Plan,
         plan' = [plan EXCEPT ![p] = r],
         r.state = "live" => r.trip \in Trips /\ ts[r.trip].state = "live",
         r.state # "live" => r.pax = {} /\ r.named = {} /\ r.optin = {},
         r.pax \subseteq accounts, r.named \subseteq accounts, r.optin \subseteq accounts,
         r.creator \in accounts \cup {NoOne}
  PROVE  plan' \in [Plans -> Plan] /\ Anchored(ts, plan', accounts)
<1>1. plan \in [Plans -> Plan]
  BY DEF Inv, TypeOK
<1>2. plan' \in [Plans -> Plan] /\ plan'[p] = r /\ \A q \in Plans \ {p} : plan'[q] = plan[q]
  BY <1>1
<1> QED
  BY <1>2 DEF Anchored

\* What is known of a plan that exists.
LEMMA LiveRow ==
  ASSUME Inv, NEW p \in Plans, LivePlan(p)
  PROVE  /\ plan[p] \in Plan /\ plan[p].state = "live"
         /\ plan[p].trip \in Trips /\ trip[plan[p].trip].state = "live"
         /\ plan[p].pax \subseteq accounts /\ plan[p].named \subseteq accounts
         /\ plan[p].optin \subseteq accounts /\ plan[p].creator \in accounts \cup {NoOne}
         /\ Anchored(trip, plan, accounts) /\ accounts \subseteq Users
  BY DEF Inv, TypeOK, NothingDangles, Anchored, LivePlan

LEMMA CreatePlanInv ==
  ASSUME Inv, NEW u \in Users, CreatePlan(u)
  PROVE  Inv'
<1>1. CASE ~(trip[req[u].trip].state = "live" /\ u \in accounts)
  BY <1>1, NoWriteInv DEF CreatePlan
<1>2. CASE trip[req[u].trip].state = "live" /\ u \in accounts
  <2>1. PICK p \in Plans :
          /\ plan' = [plan EXCEPT ![p] = [GonePlan EXCEPT !.state = "live", !.creator = u,
                                                         !.trip = req[u].trip]]
          /\ req' = [req EXCEPT ![u].at = "passengers", ![u].plan = {p}]
          /\ UNCHANGED <<accounts, trip>> /\ Write
    BY <1>2 DEF CreatePlan
  <2> DEFINE row == [GonePlan EXCEPT !.state = "live", !.creator = u, !.trip = req[u].trip]
             asks == [req[u] EXCEPT !.at = "passengers", !.plan = {p}]
  <2>2. req[u].trip \in Trips /\ req[u] \in Aimed
    BY DEF CreatePlan, Busy, Inv, Aimed
  <2>3. row \in Plan /\ row.state = "live" /\ row.trip = req[u].trip /\ row.creator = u
        /\ row.pax = {} /\ row.named = {} /\ row.optin = {}
    BY <2>2 DEF GonePlan, Plan, States, Modes
  <2>4. asks \in Aimed
    BY <2>2 DEF Aimed, Request, Steps
  <2>5. plan' = [plan EXCEPT ![p] = row] /\ req' = [req EXCEPT ![u] = asks]
    BY <2>1, ZenonT(60)
  <2> HIDE DEF row, asks
  <2>6. req' \in [Users -> Aimed]
    BY <2>4, <2>5 DEF Inv, TypeOK
  <2>7. Anchored(trip, plan, accounts)
    BY DEF Inv, NothingDangles
  <2>8. plan' \in [Plans -> Plan] /\ Anchored(trip, plan', accounts)
    BY <1>2, <2>2, <2>3, <2>5, <2>7, PlanAnchored
  <2> QED
    BY <2>1, <2>6, <2>8, WriteStepInv DEF Inv, TypeOK
<1> QED
  BY <1>1, <1>2

\* The insert and its trigger, on a live plan, for an existing user.
LEMMA PassengerAnchored ==
  ASSUME Inv, NEW p \in Plans, NEW v \in Users, LivePlan(p), v \in accounts, InsertPassenger(v, p)
  PROVE  /\ trip' \in [Trips -> Trip] /\ plan' \in [Plans -> Plan]
         /\ Anchored(trip', plan', accounts)
<1> DEFINE t == plan[p].trip
           o == IF trip[t].role[v] = "none" /\ v \notin plan[p].pax THEN "viewer" ELSE trip[t].role[v]
           row == [plan[p] EXCEPT !.pax = plan[p].pax \cup {v}]
<1>1. /\ plan[p] \in Plan /\ t \in Trips /\ trip[t].state = "live" /\ plan[p].state = "live"
      /\ plan[p].pax \subseteq accounts /\ plan[p].named \subseteq accounts
      /\ plan[p].optin \subseteq accounts /\ plan[p].creator \in accounts \cup {NoOne}
  BY LiveRow
<1>2. o \in Roles
  BY <1>1 DEF Inv, TypeOK, Trip, Roles
<1>3. trip' = [trip EXCEPT ![t].role[v] = o] /\ plan' = [plan EXCEPT ![p] = row]
  BY DEF InsertPassenger
<1>4. /\ row \in Plan /\ row.state = "live" /\ row.trip = t /\ row.pax = plan[p].pax \cup {v}
      /\ row.named = plan[p].named /\ row.optin = plan[p].optin /\ row.creator = plan[p].creator
  BY <1>1 DEF Plan
<1> HIDE DEF t, o, row
<1>5. trip' \in [Trips -> Trip] /\ Anchored(trip', plan, accounts)
  BY <1>1, <1>2, <1>3, RoleAnchored
<1>6. trip'[t].state = "live"
  BY <1>1, <1>2, <1>3, RoleWrite DEF Inv, TypeOK
<1>7. row.pax \subseteq accounts
  BY <1>1, <1>4
<1>8. ASSUME NEW ts, Anchored(ts, plan, accounts), ts[t].state = "live"
      PROVE  plan' \in [Plans -> Plan] /\ Anchored(ts, plan', accounts)
  BY <1>1, <1>3, <1>4, <1>7, <1>8, PlanAnchored
<1> QED
  BY <1>5, <1>6, <1>8

LEMMA AddNextPassengerInv ==
  ASSUME Inv, NEW u \in Users, AddNextPassenger(u)
  PROVE  Inv'
<1>1. CASE req[u].user = {}
  <2>1. req' \in [Users -> Aimed] /\ UNCHANGED Tables /\ Write
    BY <1>1, ContinueType DEF AddNextPassenger, Inv, Steps, Tables
  <2> QED
    BY <2>1, WriteType, RequestStep DEF Inv
<1>2. CASE req[u].user # {}
  <2>1. PICK v \in req[u].user, p \in req[u].plan :
          IF LivePlan(p) /\ v \in accounts
          THEN /\ InsertPassenger(v, p)
               /\ req' = [req EXCEPT ![u].user = @ \ {v}]
               /\ UNCHANGED accounts /\ Write
          ELSE /\ failures' = failures + 1 /\ Done(u)
               /\ UNCHANGED <<accounts, trip, plan, asked, histVars>>
    BY <1>2 DEF AddNextPassenger
  <2>2. v \in Users /\ p \in Plans
    BY Fields DEF Inv
  <2>3. CASE LivePlan(p) /\ v \in accounts
    <3>1. [req[u] EXCEPT !.user = req[u].user \ {v}] \in Aimed
      <4>1. req[u] \in Aimed
        BY DEF Inv
      <4> QED
        BY <4>1 DEF Aimed, Request
    <3>2. req' = [req EXCEPT ![u] = [req[u] EXCEPT !.user = req[u].user \ {v}]]
      BY <2>1, <2>3
    <3>3. req' \in [Users -> Aimed]
      BY <3>1, <3>2 DEF Inv
    <3> QED
      BY <2>1, <2>2, <2>3, <3>3, PassengerAnchored, WriteStepInv DEF Inv, TypeOK
  <2>4. CASE ~(LivePlan(p) /\ v \in accounts)
    BY <2>1, <2>4, DoneType, RequestStep DEF Inv, TypeOK, Tables, histVars
  <2> QED
    BY <2>3, <2>4
<1> QED
  BY <1>1, <1>2

LEMMA AddPlanPassengerInv ==
  ASSUME Inv, NEW u \in Users, AddPlanPassenger(u)
  PROVE  Inv'
<1>1. PICK v \in req[u].user, p \in req[u].plan :
        IF LivePlan(p) /\ v \in accounts
        THEN InsertPassenger(v, p) /\ Continue(u, "read") /\ UNCHANGED accounts /\ Write
        ELSE NoWrite(u)
  BY DEF AddPlanPassenger
<1>2. v \in Users /\ p \in Plans
  BY Fields DEF Inv
<1>3. CASE LivePlan(p) /\ v \in accounts
  <2>1. req' \in [Users -> Aimed]
    BY <1>1, <1>3, ContinueType DEF Inv, Steps
  <2> QED
    BY <1>1, <1>2, <1>3, <2>1, PassengerAnchored, WriteStepInv DEF Inv, TypeOK
<1>4. CASE ~(LivePlan(p) /\ v \in accounts)
  BY <1>1, <1>4, NoWriteInv
<1> QED
  BY <1>3, <1>4

\* Fewer passengers or opt-ins are still anchored, whether or not the plan exists.
LEMMA SmallerRow ==
  ASSUME Inv, NEW p \in Plans, NEW r \in Plan, plan' = [plan EXCEPT ![p] = r],
         r.state = plan[p].state, r.trip = plan[p].trip, r.creator = plan[p].creator,
         r.named = plan[p].named, r.pax \subseteq plan[p].pax, r.optin \subseteq plan[p].optin
  PROVE  plan' \in [Plans -> Plan] /\ Anchored(trip, plan', accounts)
<1>1. Anchored(trip, plan, accounts)
  BY DEF Inv, NothingDangles
<1>2. /\ r.state = "live" => r.trip \in Trips /\ trip[r.trip].state = "live"
      /\ r.state # "live" => r.pax = {} /\ r.named = {} /\ r.optin = {}
      /\ r.pax \subseteq accounts /\ r.named \subseteq accounts /\ r.optin \subseteq accounts
      /\ r.creator \in accounts \cup {NoOne}
  BY <1>1 DEF Anchored
<1> QED
  BY <1>1, <1>2, PlanAnchored

LEMMA RemovePlanPassengerInv ==
  ASSUME Inv, NEW u \in Users, RemovePlanPassenger(u)
  PROVE  Inv'
<1>1. PICK v \in req[u].user, p \in req[u].plan :
        IF v \in plan[p].pax
        THEN /\ plan' = [plan EXCEPT ![p].pax = @ \ {v}]
             /\ Continue(u, "read") /\ UNCHANGED <<accounts, trip>> /\ Take(u)
        ELSE NoWrite(u)
  BY DEF RemovePlanPassenger
<1>2. CASE v \in plan[p].pax
  <2> DEFINE row == [plan[p] EXCEPT !.pax = plan[p].pax \ {v}]
  <2>1. p \in Plans /\ plan[p] \in Plan
    BY Fields DEF Inv, TypeOK
  <2>2. /\ row \in Plan /\ row.state = plan[p].state /\ row.trip = plan[p].trip
        /\ row.creator = plan[p].creator /\ row.named = plan[p].named
        /\ row.pax = plan[p].pax \ {v} /\ row.optin = plan[p].optin
    BY <2>1 DEF Plan
  <2>3. plan' = [plan EXCEPT ![p] = row]
    BY <1>1, <1>2
  <2> HIDE DEF row
  <2>4. plan' \in [Plans -> Plan] /\ Anchored(trip, plan', accounts)
    BY <2>1, <2>2, <2>3, SmallerRow
  <2>5. req' \in [Users -> Aimed]
    BY <1>1, <1>2, ContinueType DEF Inv, Steps
  <2> QED
    BY <1>1, <1>2, <2>4, <2>5, TakeStepInv
<1>3. CASE v \notin plan[p].pax
  BY <1>1, <1>3, NoWriteInv
<1> QED
  BY <1>2, <1>3

LEMMA SetPlanVisibilityInv ==
  ASSUME Inv, NEW u \in Users, SetPlanVisibility(u)
  PROVE  Inv'
<1> DEFINE ok(p) == LivePlan(p) /\ (req[u].mode # "everyone" => req[u].named \subseteq accounts)
           list == IF req[u].mode = "everyone" THEN {} ELSE req[u].named
<1>1. PICK p \in req[u].plan :
        IF ok(p)
        THEN /\ plan' = [plan EXCEPT ![p].mode = req[u].mode, ![p].named = list]
             /\ Continue(u, "read") /\ UNCHANGED <<accounts, trip>> /\ Write
        ELSE IF req[u].op = "createPlan"
             THEN /\ failures' = failures + 1 /\ Done(u)
                  /\ UNCHANGED <<accounts, trip, plan, asked, histVars>>
             ELSE NoWrite(u)
  BY DEF SetPlanVisibility
<1>2. CASE ok(p)
  <2> DEFINE row == [plan[p] EXCEPT !.mode = req[u].mode, !.named = list]
  <2>1. /\ p \in Plans /\ plan[p] \in Plan /\ req[u].mode \in Modes
        /\ list \subseteq Users /\ list \subseteq accounts
    BY <1>2, Fields DEF Inv, TypeOK
  <2>2. plan' = [plan EXCEPT ![p] = row]
    <3>1. plan' = [plan EXCEPT ![p].mode = req[u].mode, ![p].named = list]
      BY <1>1, <1>2
    <3> HIDE DEF list
    <3> QED
      BY <2>1, <3>1 DEF Inv, TypeOK
  <2> HIDE DEF list
  <2>3. /\ row \in Plan /\ row.state = plan[p].state /\ row.trip = plan[p].trip
        /\ row.creator = plan[p].creator /\ row.named = list
        /\ row.pax = plan[p].pax /\ row.optin = plan[p].optin
    BY <2>1 DEF Plan
  <2> HIDE DEF row
  <2>4. plan' \in [Plans -> Plan] /\ Anchored(trip, plan', accounts)
    BY <1>2, <2>1, <2>2, <2>3, LiveRow, PlanAnchored, ZenonT(60)
  <2>5. req' \in [Users -> Aimed]
    BY <1>1, <1>2, ContinueType DEF Inv, Steps
  <2> QED
    BY <1>1, <1>2, <2>4, <2>5, WriteStepInv DEF Inv, TypeOK
<1>3. CASE ~ok(p) /\ req[u].op = "createPlan"
  BY <1>1, <1>3, DoneType, RequestStep DEF Inv, TypeOK, Tables, histVars
<1>4. CASE ~ok(p) /\ req[u].op # "createPlan"
  BY <1>1, <1>4, NoWriteInv
<1> QED
  BY <1>2, <1>3, <1>4

LEMMA UpdatePlanInv ==
  ASSUME Inv, NEW u \in Users, UpdatePlan(u)
  PROVE  Inv'
<1>1. PICK p \in req[u].plan :
        IF LivePlan(p)
        THEN /\ plan' = [plan EXCEPT ![p].rev = @ + 1]
             /\ Continue(u, "read") /\ UNCHANGED <<accounts, trip>> /\ Write
        ELSE NoWrite(u)
  BY DEF UpdatePlan
<1>2. CASE LivePlan(p)
  <2> DEFINE row == [plan[p] EXCEPT !.rev = plan[p].rev + 1]
  <2>1. p \in Plans /\ plan[p] \in Plan
    BY Fields DEF Inv, TypeOK
  <2>2. /\ row \in Plan /\ row.state = plan[p].state /\ row.trip = plan[p].trip
        /\ row.creator = plan[p].creator /\ row.named = plan[p].named
        /\ row.pax = plan[p].pax /\ row.optin = plan[p].optin
    BY <2>1 DEF Plan
  <2>3. plan' = [plan EXCEPT ![p] = row]
    BY <1>1, <1>2
  <2> HIDE DEF row
  <2>4. plan' \in [Plans -> Plan] /\ Anchored(trip, plan', accounts)
    BY <2>1, <2>2, <2>3, SmallerRow
  <2>5. req' \in [Users -> Aimed]
    BY <1>1, <1>2, ContinueType DEF Inv, Steps
  <2> QED
    BY <1>1, <1>2, <2>4, <2>5, WriteStepInv DEF Inv, TypeOK
<1>3. CASE ~LivePlan(p)
  BY <1>1, <1>3, NoWriteInv
<1> QED
  BY <1>2, <1>3

LEMMA DeletePlanInv ==
  ASSUME Inv, NEW u \in Users, DeletePlan(u)
  PROVE  Inv'
<1>1. PICK p \in req[u].plan : plan' = [plan EXCEPT ![p] = IF LivePlan(p) THEN GonePlan ELSE plan[p]]
  BY DEF DeletePlan
<1>2. p \in Plans
  BY Fields DEF Inv
<1>3. plan' \in [Plans -> Plan] /\ Anchored(trip, plan', accounts)
  <2>1. CASE LivePlan(p)
    <3>1. /\ GonePlan.state = "gone" /\ GonePlan.creator = NoOne /\ GonePlan.pax = {}
          /\ GonePlan.named = {} /\ GonePlan.optin = {}
      BY DEF GonePlan
    <3> QED
      BY <1>1, <1>2, <2>1, <3>1, GoneRows, PlanAnchored DEF Inv, NothingDangles
  <2>2. CASE ~LivePlan(p)
    <3>1. plan' = plan
      BY <1>1, <1>2, <2>2 DEF Inv, TypeOK
    <3> QED
      BY <3>1 DEF Inv, TypeOK, NothingDangles
  <2> QED
    BY <2>1, <2>2
<1>4. req' \in [Users -> Aimed]
  BY DoneType DEF DeletePlan, Inv
<1> QED
  BY <1>3, <1>4, TakeStepInv DEF DeletePlan

LEMMA MovePlanInv ==
  ASSUME Inv, NEW u \in Users, MovePlan(u)
  PROVE  Inv'
<1>1. PICK p \in req[u].plan :
        IF LivePlan(p) /\ trip[req[u].trip].state = "live"
        THEN /\ plan' = [plan EXCEPT ![p].trip = req[u].trip]
             /\ Continue(u, "read")
             /\ UNCHANGED <<accounts, trip>> /\ Take(u)
        ELSE NoWrite(u)
  BY DEF MovePlan
<1>2. CASE LivePlan(p) /\ trip[req[u].trip].state = "live"
  <2> DEFINE row == [plan[p] EXCEPT !.trip = req[u].trip]
  <2>1. p \in Plans /\ plan[p] \in Plan
    BY Fields DEF Inv, TypeOK
  <2>2. req[u].trip \in Trips
    BY DEF MovePlan, Busy, Inv, Aimed
  <2>3. /\ row \in Plan /\ row.state = plan[p].state /\ row.trip = req[u].trip
        /\ row.creator = plan[p].creator /\ row.named = plan[p].named
        /\ row.pax = plan[p].pax /\ row.optin = plan[p].optin
    BY <2>1, <2>2 DEF Plan
  <2>4. plan' = [plan EXCEPT ![p] = row]
    BY <1>1, <1>2
  <2> HIDE DEF row
  <2>5. plan' \in [Plans -> Plan] /\ Anchored(trip, plan', accounts)
    BY <1>2, <2>1, <2>2, <2>3, <2>4, LiveRow, PlanAnchored, ZenonT(60)
  <2>6. req' \in [Users -> Aimed]
    BY <1>1, <1>2, ContinueType DEF Inv, Steps
  <2> QED
    BY <1>1, <1>2, <2>5, <2>6, TakeStepInv
<1>3. CASE ~(LivePlan(p) /\ trip[req[u].trip].state = "live")
  BY <1>1, <1>3, NoWriteInv
<1> QED
  BY <1>2, <1>3

LEMMA AddPlanAlertOptinInv ==
  ASSUME Inv, NEW u \in Users, AddPlanAlertOptin(u)
  PROVE  Inv'
<1>1. /\ plan' = [p \in Plans |-> IF p \in req[u].plan /\ LivePlan(p) /\ u \in accounts
                                  THEN [plan[p] EXCEPT !.optin = plan[p].optin \cup {u}] ELSE plan[p]]
      /\ Done(u) /\ UNCHANGED <<accounts, trip>> /\ Write
  BY DEF AddPlanAlertOptin
<1>2. ASSUME NEW p \in Plans
      PROVE  /\ plan'[p] \in Plan
             /\ plan'[p].state = plan[p].state /\ plan'[p].trip = plan[p].trip
             /\ plan'[p].creator = plan[p].creator /\ plan'[p].pax = plan[p].pax
             /\ plan'[p].named = plan[p].named
             /\ plan'[p].optin = plan[p].optin
                \/ (plan[p].state = "live" /\ u \in accounts /\ plan'[p].optin = plan[p].optin \cup {u})
  <2>1. plan[p] \in Plan
    BY DEF Inv, TypeOK
  <2>2. plan'[p] = plan[p] \/ (LivePlan(p) /\ u \in accounts
                               /\ plan'[p] = [plan[p] EXCEPT !.optin = plan[p].optin \cup {u}])
    BY <1>1
  <2> QED
    BY <2>1, <2>2 DEF Plan, LivePlan
<1>3. plan' \in [Plans -> Plan]
  BY <1>1, <1>2
<1>4. Anchored(trip, plan', accounts)
  BY <1>2 DEF Inv, NothingDangles, Anchored
<1>5. req' \in [Users -> Aimed]
  BY <1>1, DoneType DEF Inv
<1> QED
  BY <1>1, <1>3, <1>4, <1>5, WriteStepInv DEF Inv, TypeOK

LEMMA RemovePlanAlertOptinInv ==
  ASSUME Inv, NEW u \in Users, RemovePlanAlertOptin(u)
  PROVE  Inv'
<1>1. /\ plan' = [p \in Plans |-> IF p \in req[u].plan
                                  THEN [plan[p] EXCEPT !.optin = plan[p].optin \ {u}] ELSE plan[p]]
      /\ Done(u) /\ UNCHANGED <<accounts, trip>> /\ Write
  BY DEF RemovePlanAlertOptin
<1>2. ASSUME NEW p \in Plans
      PROVE  /\ plan'[p] \in Plan
             /\ plan'[p].state = plan[p].state /\ plan'[p].trip = plan[p].trip
             /\ plan'[p].creator = plan[p].creator /\ plan'[p].pax = plan[p].pax
             /\ plan'[p].named = plan[p].named /\ plan'[p].optin \subseteq plan[p].optin
  <2>1. plan[p] \in Plan
    BY DEF Inv, TypeOK
  <2>2. plan'[p] = plan[p] \/ plan'[p] = [plan[p] EXCEPT !.optin = plan[p].optin \ {u}]
    BY <1>1
  <2> QED
    BY <2>1, <2>2 DEF Plan
<1>3. plan' \in [Plans -> Plan]
  BY <1>1, <1>2
<1>4. Anchored(trip, plan', accounts)
  BY <1>2 DEF Inv, NothingDangles, Anchored
<1>5. req' \in [Users -> Aimed]
  BY <1>1, DoneType DEF Inv
<1> QED
  BY <1>1, <1>3, <1>4, <1>5, WriteStepInv DEF Inv, TypeOK

\* What the cascades of a deleted account leave of each row.
LEMMA Erased ==
  ASSUME Inv, NEW u \in Users, DeleteUser(u)
  PROVE  \E v \in Users :
           /\ accounts' = accounts \ {v}
           /\ \A t \in Trips :
                /\ trip'[t] \in Trip /\ trip'[t].state = trip[t].state
                /\ trip'[t].creator = IF trip[t].creator = v THEN NoOne ELSE trip[t].creator
                /\ trip'[t].role[v] = "none"
                /\ \A w \in Users \ {v} : trip'[t].role[w] = trip[t].role[w]
           /\ \A p \in Plans :
                /\ plan'[p] \in Plan /\ plan'[p].state = plan[p].state /\ plan'[p].trip = plan[p].trip
                /\ plan'[p].creator = IF plan[p].creator = v THEN NoOne ELSE plan[p].creator
                /\ plan'[p].pax = plan[p].pax \ {v} /\ plan'[p].named = plan[p].named \ {v}
                /\ plan'[p].optin = plan[p].optin \ {v}
                /\ plan'[p].mode = plan[p].mode /\ plan'[p].rev = plan[p].rev
<1> DEFINE known(v, c) == IF c = v THEN NoOne ELSE c
<1>1. PICK v \in req[u].user :
        /\ accounts' = accounts \ {v}
        /\ trip' = [t \in Trips |-> [trip[t] EXCEPT !.creator = known(v, trip[t].creator), !.role[v] = "none"]]
        /\ plan' = [p \in Plans |-> [plan[p] EXCEPT !.creator = known(v, plan[p].creator),
                                       !.pax = plan[p].pax \ {v}, !.named = plan[p].named \ {v},
                                       !.optin = plan[p].optin \ {v}]]
  BY DEF DeleteUser
<1>2. v \in Users
  BY Fields DEF Inv
<1>3. ASSUME NEW t \in Trips
      PROVE  /\ trip'[t] \in Trip /\ trip'[t].state = trip[t].state
             /\ trip'[t].creator = known(v, trip[t].creator)
             /\ trip'[t].role[v] = "none"
             /\ \A w \in Users \ {v} : trip'[t].role[w] = trip[t].role[w]
  <2>1. trip[t] \in Trip
    BY DEF Inv, TypeOK
  <2> DEFINE roles == [trip[t].role EXCEPT ![v] = "none"]
  <2>2. roles \in [Users -> Roles] /\ roles[v] = "none"
        /\ \A w \in Users \ {v} : roles[w] = trip[t].role[w]
    BY <1>2, <2>1 DEF Trip, Roles
  <2>3. trip'[t] = [trip[t] EXCEPT !.creator = known(v, trip[t].creator), !.role = roles]
    BY <1>1, ZenonT(60)
  <2>4. known(v, trip[t].creator) \in Users \cup {NoOne}
    BY <2>1 DEF Trip
  <2> HIDE DEF roles, known
  <2> QED
    BY <2>1, <2>2, <2>3, <2>4 DEF Trip
<1>4. ASSUME NEW p \in Plans
      PROVE  /\ plan'[p] \in Plan /\ plan'[p].state = plan[p].state /\ plan'[p].trip = plan[p].trip
             /\ plan'[p].creator = known(v, plan[p].creator) /\ plan'[p].pax = plan[p].pax \ {v}
             /\ plan'[p].named = plan[p].named \ {v} /\ plan'[p].optin = plan[p].optin \ {v}
             /\ plan'[p].mode = plan[p].mode /\ plan'[p].rev = plan[p].rev
  <2>1. plan[p] \in Plan
    BY DEF Inv, TypeOK
  <2>2. PICK c \in Users \cup {NoOne} : c = known(v, plan[p].creator)
    BY <2>1 DEF Plan
  <2> DEFINE row == [plan[p] EXCEPT !.creator = c, !.pax = plan[p].pax \ {v},
                                    !.named = plan[p].named \ {v}, !.optin = plan[p].optin \ {v}]
  <2>3. plan'[p] = row
    BY <1>1, <2>2
  <2>4. /\ row \in Plan /\ row.state = plan[p].state /\ row.trip = plan[p].trip
        /\ row.creator = c /\ row.pax = plan[p].pax \ {v}
        /\ row.named = plan[p].named \ {v} /\ row.optin = plan[p].optin \ {v}
        /\ row.mode = plan[p].mode /\ row.rev = plan[p].rev
    BY <2>1 DEF Plan
  <2> HIDE DEF known, row
  <2> QED
    BY <2>2, <2>3, <2>4
<1> QED
  BY <1>1, <1>2, <1>3, <1>4

LEMMA DeleteUserInv ==
  ASSUME Inv, NEW u \in Users, DeleteUser(u)
  PROVE  Inv'
<1>1. PICK v \in Users :
        /\ accounts' = accounts \ {v}
        /\ \A t \in Trips :
             /\ trip'[t] \in Trip /\ trip'[t].state = trip[t].state
             /\ trip'[t].creator = IF trip[t].creator = v THEN NoOne ELSE trip[t].creator
             /\ trip'[t].role[v] = "none"
             /\ \A w \in Users \ {v} : trip'[t].role[w] = trip[t].role[w]
        /\ \A p \in Plans :
             /\ plan'[p] \in Plan /\ plan'[p].state = plan[p].state /\ plan'[p].trip = plan[p].trip
             /\ plan'[p].creator = IF plan[p].creator = v THEN NoOne ELSE plan[p].creator
             /\ plan'[p].pax = plan[p].pax \ {v} /\ plan'[p].named = plan[p].named \ {v}
             /\ plan'[p].optin = plan[p].optin \ {v}
  BY Erased
<1>2. trip' = [t \in Trips |-> trip'[t]] /\ plan' = [p \in Plans |-> plan'[p]]
  BY DEF DeleteUser
<1>3. trip' \in [Trips -> Trip] /\ plan' \in [Plans -> Plan] /\ accounts' \subseteq Users
  BY <1>1, <1>2 DEF Inv, TypeOK
<1>4. Anchored(trip', plan', accounts')
  BY <1>1 DEF Inv, NothingDangles, Anchored
<1>5. req' \in [Users -> Aimed] /\ Write
  BY DoneType DEF DeleteUser, Inv
<1> QED
  BY <1>3, <1>4, <1>5, WriteStepInv

LEMMA WritesInv ==
  ASSUME Inv, NEW u \in Users, WriteStep(u)
  PROVE  Inv'
  BY CreateTripInv, EditTripInv, DeleteTripInv, AddTripMemberInv, RemoveTripMemberInv,
     CreatePlanInv, AddNextPassengerInv, AddPlanPassengerInv, RemovePlanPassengerInv,
     SetPlanVisibilityInv, UpdatePlanInv, DeletePlanInv, MovePlanInv,
     AddPlanAlertOptinInv, RemovePlanAlertOptinInv, DeleteUserInv DEF WriteStep

-----------------------------------------------------------------------------
(* Telling                                                                  *)

LEMMA ReadPlanInv ==
  ASSUME Inv, NEW u \in Users, ReadPlan(u)
  PROVE  Inv'
<1>1. PICK p \in req[u].plan :
        IF LivePlan(p)
        THEN req' = [req EXCEPT ![u].at = "audience",
                                ![u].trip = IF req[u].op = "createPlan" THEN @ ELSE plan[p].trip]
        ELSE Done(u)
  BY DEF ReadPlan
<1> DEFINE t == IF req[u].op = "createPlan" THEN req[u].trip ELSE plan[p].trip
<1>2. req' \in [Users -> Aimed]
  <2>1. CASE LivePlan(p)
    <3>1. t \in Trips \cup {NoTrip} /\ req[u] \in Aimed
      BY <2>1, Fields, LiveRow DEF Inv
    <3> HIDE DEF t
    <3>2. [req[u] EXCEPT !.at = "audience", !.trip = t] \in Aimed
      BY <3>1, Redirect DEF Steps
    <3>3. req' = [req EXCEPT ![u] = [req[u] EXCEPT !.at = "audience", !.trip = t]]
      <4>1. [req EXCEPT ![u].at = "audience"][u].op = req[u].op
            /\ [req EXCEPT ![u].at = "audience"][u].trip = req[u].trip
        BY <3>1 DEF Inv, Aimed, Request
      <4> QED
        BY <1>1, <2>1, <4>1 DEF t, Inv
    <3> QED
      BY <3>2, <3>3 DEF Inv
  <2>2. CASE ~LivePlan(p)
    BY <1>1, <2>2, DoneType DEF Inv
  <2> QED
    BY <2>1, <2>2
<1> QED
  BY <1>2, RequestStep DEF ReadPlan, Served, Inv, TypeOK, Tables, histVars

\* Looking an audience up.
LEMMA Listing ==
  ASSUME Inv, NEW u \in Users, NEW at \in Steps \ {"write"}, NEW V \in SUBSET Users,
         req' = [req EXCEPT ![u].at = at, ![u].to = V]
  PROVE  req' \in [Users -> Aimed]
<1>1. req[u] \in Aimed
  BY DEF Inv
<1>2. [req[u] EXCEPT !.at = at, !.to = V] \in Aimed
  BY <1>1 DEF Aimed, Request
<1>3. req' = [req EXCEPT ![u] = [req[u] EXCEPT !.at = at, !.to = V]]
  BY DEF Inv
<1> QED
  BY <1>2, <1>3 DEF Inv

LEMMA PlanAudienceInv ==
  ASSUME Inv, NEW u \in Users, PlanAudience(u)
  PROVE  Inv'
<1>1. PICK p \in req[u].plan :
        req' = [req EXCEPT ![u].at = "send", ![u].to = VisiblePlanUserIDs(p)]
  BY DEF PlanAudience
<1>2. VisiblePlanUserIDs(p) \in SUBSET Users
  BY DEF VisiblePlanUserIDs, Inv, TypeOK
<1>3. req' \in [Users -> Aimed]
  BY <1>1, <1>2, Listing DEF Steps
<1> QED
  BY <1>3, RequestStep DEF PlanAudience, Served, Inv, TypeOK, Tables, histVars

LEMMA TripAudienceInv ==
  ASSUME Inv, NEW u \in Users, TripAudience(u)
  PROVE  Inv'
<1>1. Members(req[u].trip) \in SUBSET Users
  BY DEF Members
<1>2. req' \in [Users -> Aimed]
  <2>1. CASE req' = [req EXCEPT ![u].at = "tell", ![u].to = Members(req[u].trip)]
    BY <1>1, <2>1, Listing DEF Steps
  <2>2. CASE Done(u)
    BY <2>2, DoneType DEF Inv
  <2> QED
    BY <2>1, <2>2 DEF TripAudience
<1> QED
  BY <1>2, RequestStep DEF TripAudience, Served, Inv, TypeOK, Tables, histVars

\* A deletion has its write after its event; nothing else goes back to a write.
LEMMA BackToWrite ==
  ASSUME Inv, NEW u \in Users, req[u].op \in {"deletePlan", "deleteTrip"}, Continue(u, "write")
  PROVE  req' \in [Users -> Aimed]
<1>1. req[u] \in Aimed
  BY DEF Inv
<1>2. [req[u] EXCEPT !.at = "write"] \in Aimed
  BY <1>1 DEF Aimed, Request, Steps
<1> QED
  BY <1>2 DEF Continue, Inv

\* movePlan goes on to the trip it took the plan from.
LEMMA SourceNext ==
  ASSUME Inv, NEW u \in Users, req' = [req EXCEPT ![u].at = "members", ![u].trip = req[u].src]
  PROVE  req' \in [Users -> Aimed]
<1>1. req[u] \in Aimed /\ req[u].src \in Trips \cup {NoTrip}
  BY Fields DEF Inv
<1>2. [req[u] EXCEPT !.at = "members", !.trip = req[u].src] \in Aimed
  BY <1>1, Redirect DEF Steps
<1>3. req' = [req EXCEPT ![u] = [req[u] EXCEPT !.at = "members", !.trip = req[u].src]]
  BY DEF Inv
<1> QED
  BY <1>2, <1>3 DEF Inv

LEMMA PublishType ==
  ASSUME Inv, NEW t, NEW V, Publish(t, V)
  PROVE  UNCHANGED Tables /\ undercut' \in BOOLEAN /\ owed' \subseteq Users \X Plans
  BY DEF Publish, Inv, TypeOK, Tables

LEMMA SendPlanEventInv ==
  ASSUME Inv, NEW u \in Users, SendPlanEvent(u)
  PROVE  Inv'
<1>1. req' \in [Users -> Aimed]
  BY BackToWrite, SourceNext, DoneType DEF SendPlanEvent, Inv
<1> QED
  BY <1>1, PublishType, RequestStep DEF SendPlanEvent, Served, Inv, TypeOK

LEMMA SendTripEventInv ==
  ASSUME Inv, NEW u \in Users, SendTripEvent(u)
  PROVE  Inv'
<1>1. req' \in [Users -> Aimed]
  BY BackToWrite, DoneType DEF SendTripEvent, Inv
<1> QED
  BY <1>1, PublishType, RequestStep DEF SendTripEvent, Served, Inv, TypeOK

LEMMA FailInv ==
  ASSUME Inv, NEW u \in Users, Fail(u)
  PROVE  Inv'
<1>1. req' \in [Users -> Aimed]
  BY BackToWrite, SourceNext, DoneType DEF Fail, Inv
<1> QED
  BY <1>1, RequestStep DEF Fail, Inv, TypeOK, Tables, histVars

-----------------------------------------------------------------------------
(* The invariant                                                            *)

LEMMA InitInv == Init => Inv
<1> SUFFICES ASSUME Init PROVE Inv
  OBVIOUS
<1>1. PICK s \in Seeds : trip = s.trip /\ plan = s.plan
  BY DEF Init
<1>2. trip \in [Trips -> Trip] /\ plan \in [Plans -> Plan] /\ Anchored(trip, plan, accounts)
  BY <1>1 DEF Init
<1>3. req \in [Users -> Aimed] /\ req \in [Users -> Request]
  BY IdleIsRequest DEF Init, Aimed
<1> QED
  BY <1>2, <1>3 DEF Init, Inv, TypeOK, NothingDangles

LEMMA StepInv == Inv /\ [Next]_vars => Inv'
<1> SUFFICES ASSUME Inv, [Next]_vars PROVE Inv'
  OBVIOUS
<1>1. ASSUME NEW u \in Users, AskAnything(u) PROVE Inv'
  BY <1>1, AskPlanInv, AskTripInv, AskOtherInv DEF AskAnything
<1>2. ASSUME NEW u \in Users, Prepare(u) PROVE Inv'
  BY <1>2, WritesInv, ReadPlanInv, PlanAudienceInv, TripAudienceInv, FailInv DEF Prepare
<1>3. ASSUME NEW u \in Users, Send(u) PROVE Inv'
  BY <1>3, SendPlanEventInv, SendTripEventInv DEF Send
<1>4. CASE UNCHANGED vars
  <2>1. UNCHANGED Tables /\ UNCHANGED <<req, asked, failures, owed, undercut>>
    BY <1>4 DEF vars, Tables
  <2> QED
    BY <2>1, RequestStep DEF Inv, TypeOK
<1> QED
  BY <1>1, <1>2, <1>3, <1>4 DEF Next

LEMMA Invariant == Spec => []Inv
  BY InitInv, StepInv, PTL DEF Spec

-----------------------------------------------------------------------------
(* Who will be told                                                         *)

\* A request is about one plan at most.
OnePlan == \A v \in Users : \A p, q \in req[v].plan : p = q

\* A request about a plan that will still send an event to the trip of plan q, and to user w:
\* because q is the plan, or because w is a passenger of it.
TellsOfPlan(v, w, q) ==
    \E p \in req[v].plan :
        /\ LivePlan(p) /\ plan[p].trip = plan[q].trip
        /\ q = p \/ w \in plan[p].pax
        /\ \/ /\ req[v].at \in {"passengers", "visibility", "read"}
              /\ req[v].op = "createPlan" => req[v].trip = plan[p].trip
           \/ req[v].at = "audience" /\ req[v].trip = plan[p].trip
           \/ req[v].at = "send" /\ req[v].trip = plan[p].trip /\ w \in Delivered(req[v].to)

\* A request about a trip that will still send an event to it, and to its member w.  The
\* creator of a trip need not be a member.
TellsOfTrip(v, w, q) ==
    /\ req[v].trip = plan[q].trip
    /\ \/ /\ req[v].at = "members" /\ w \in Members(req[v].trip) /\ w # trip[req[v].trip].creator
       \/ req[v].at = "tell" /\ w \in Delivered(req[v].to)

Tells(v, w, q) == TellsOfPlan(v, w, q) \/ TellsOfTrip(v, w, q)

\* What is owed is a plan the user sees, and some request at work will tell him.
Settled ==
    /\ \A d \in owed : CanViewPlan(d[1], d[2])
    /\ failures = 0 /\ ~undercut => \A d \in owed : \E v \in Users : Tells(v, d[1], d[2])

\* A plan its createPlan request still works on is on the trip of the URL.
Created ==
    \A v \in Users : req[v].op = "createPlan" =>
        \A p \in req[v].plan : /\ plan[p].state # "unborn"
                               /\ LivePlan(p) /\ ~undercut => req[v].trip = plan[p].trip

ToldInv == OnePlan /\ Created /\ Settled

\* A user who sees a plan is there, and so is the trip of the plan.
LEMMA Seen ==
  ASSUME Inv, NEW w \in Users, NEW q \in Plans, CanViewPlan(w, q)
  PROVE  w \in accounts /\ LivePlan(q) /\ plan[q].trip \in Trips /\ trip[plan[q].trip].state = "live"
  BY DEF CanViewPlan, LivePlan, Inv, NothingDangles, Anchored

\* Nobody sees more of a plan after fewer rights.
LEMMA LessView ==
  ASSUME NEW w \in Users, NEW q \in Plans, CanViewPlan(w, q)', LivePlan(q), w \in accounts,
         plan'[q].trip = plan[q].trip,
         trip'[plan[q].trip].creator = w => trip[plan[q].trip].creator = w,
         trip'[plan[q].trip].role[w] # "none" => trip[plan[q].trip].role[w] # "none",
         plan'[q].creator = w => plan[q].creator = w,
         w \in plan'[q].pax => w \in plan[q].pax,
         NotHidden(w, q)' => NotHidden(w, q)
  PROVE  CanViewPlan(w, q)
  BY DEF CanViewPlan, Members, LivePlan

\* A request that has its write before it, or is not at work, owes nobody.
LEMMA NotYet ==
  ASSUME NEW u \in Users, req[u].at \in {"write", "end"}, NEW w, NEW q
  PROVE  ~Tells(u, w, q)
  BY DEF Tells, TellsOfPlan, TellsOfTrip

\* What was undercut stays so.
StaysUndercut == undercut => undercut'

\* A write keeps what it owes, and what others will settle.
LEMMA WriteSettles ==
  ASSUME Inv, Inv', OnePlan, Settled, NEW u \in Users, Ledger, failures' = failures,
         StaysUndercut,
         \A v \in Users \ {u} : req'[v] = req[v],
         \A v \in Users \ {u}, p \in Plans : p \in req[v].plan /\ LivePlan(p) /\ ~undercut' =>
            \/ /\ LivePlan(p)' /\ plan'[p].trip = plan[p].trip
               /\ plan[p].pax \cap accounts' \subseteq plan'[p].pax
            \/ trip'[plan[p].trip].state # "live",
         \A t \in Trips : trip[t].state = "live" => trip'[t].creator \in {trip[t].creator, NoOne},
         \A w \in Users, q \in Plans :
            /\ CanViewPlan(w, q)' /\ ~undercut'
            /\ ~CanViewPlan(w, q) \/ plan'[q].rev # plan[q].rev \/ plan'[q].trip # plan[q].trip
            => Tells(u, w, q)',
         \A w \in Users, q \in Plans :
            CanViewPlan(w, q)' /\ CanViewPlan(w, q) /\ plan'[q].trip = plan[q].trip /\ ~undercut'
            /\ Tells(u, w, q) => Tells(u, w, q)'
  PROVE  Settled'
<1>1. \A d \in owed' : d[1] \in Users /\ d[2] \in Plans /\ CanViewPlan(d[1], d[2])'
  BY DEF Ledger
<1>2. ASSUME failures' = 0, ~undercut', NEW d \in owed'
      PROVE  \E v \in Users : Tells(v, d[1], d[2])'
  <2> DEFINE w == d[1]
             q == d[2]
  <2>1. w \in Users /\ q \in Plans /\ CanViewPlan(w, q)'
    BY <1>1
  <2>2. CASE ~CanViewPlan(w, q) \/ plan'[q].rev # plan[q].rev \/ plan'[q].trip # plan[q].trip
    BY <1>2, <2>1, <2>2
  <2>3. CASE CanViewPlan(w, q) /\ plan'[q].rev = plan[q].rev /\ plan'[q].trip = plan[q].trip
    <3>1. d \in owed /\ failures = 0 /\ ~undercut
      BY <1>2, <2>3 DEF Ledger, StaysUndercut
    <3>2. PICK v \in Users : Tells(v, w, q)
      BY <3>1 DEF Settled
    <3>3. CASE v = u
      BY <1>2, <2>1, <2>3, <3>2, <3>3
    <3>4. CASE v # u
      <4>1. req'[v] = req[v]
        BY <3>4
      <4>2. /\ w \in accounts' /\ LivePlan(q)' /\ plan'[q].trip \in Trips
            /\ trip'[plan'[q].trip].state = "live"
        <5>1. LivePlan(q)' /\ w \in accounts'
          BY <2>1 DEF CanViewPlan
        <5> QED
          BY <2>1, <5>1 DEF LivePlan, Inv, NothingDangles, Anchored
      <4>3. CASE TellsOfPlan(v, w, q)
        <5>1. PICK p \in req[v].plan :
                /\ LivePlan(p) /\ plan[p].trip = plan[q].trip
                /\ q = p \/ w \in plan[p].pax
                /\ \/ /\ req[v].at \in {"passengers", "visibility", "read"}
                      /\ req[v].op = "createPlan" => req[v].trip = plan[p].trip
                   \/ req[v].at = "audience" /\ req[v].trip = plan[p].trip
                   \/ req[v].at = "send" /\ req[v].trip = plan[p].trip /\ w \in Delivered(req[v].to)
          BY <4>3 DEF TellsOfPlan
        <5>2. p \in Plans
          BY Fields DEF Inv
        <5>3. /\ LivePlan(p)' /\ plan'[p].trip = plan[p].trip
              /\ plan[p].pax \cap accounts' \subseteq plan'[p].pax
          BY <1>2, <2>3, <3>4, <4>2, <5>1, <5>2
        <5> HIDE DEF w, q
        <5>4. p \in req'[v].plan /\ plan'[p].trip = plan'[q].trip /\ (q = p \/ w \in plan'[p].pax)
          BY <2>3, <4>1, <4>2, <5>1, <5>3
        <5>5. \/ /\ req'[v].at \in {"passengers", "visibility", "read"}
                 /\ req'[v].op = "createPlan" => req'[v].trip = plan'[p].trip
              \/ req'[v].at = "audience" /\ req'[v].trip = plan'[p].trip
              \/ req'[v].at = "send" /\ req'[v].trip = plan'[p].trip /\ w \in Delivered(req'[v].to)
          BY <4>1, <5>1, <5>3
        <5>6. TellsOfPlan(v, w, q)'
          BY <5>3, <5>4, <5>5 DEF TellsOfPlan, Delivered
        <5> QED
          BY <5>6 DEF Tells, w, q
      <4>4. CASE TellsOfTrip(v, w, q)
        <5>1. /\ req[v].trip = plan[q].trip
              /\ \/ /\ req[v].at = "members" /\ w \in Members(req[v].trip)
                    /\ w # trip[req[v].trip].creator
                 \/ req[v].at = "tell" /\ w \in Delivered(req[v].to)
          BY <4>4 DEF TellsOfTrip
        <5>2. CASE req[v].at = "tell" /\ w \in Delivered(req[v].to)
          BY <2>3, <4>1, <5>1, <5>2 DEF Tells, TellsOfTrip, Delivered
        <5>3. CASE req[v].at = "members" /\ w \in Members(req[v].trip) /\ w # trip[req[v].trip].creator
          <6>1. trip[plan[q].trip].state = "live" /\ plan[q].trip \in Trips
            BY <2>1, <2>3, Seen
          <6>2. w # trip'[plan'[q].trip].creator
            BY <2>1, <2>3, <5>1, <5>3, <6>1
          <6>3. trip'[plan'[q].trip].role[w] # "none"
            BY <2>1, <6>2 DEF CanViewPlan, Members
          <6> HIDE DEF w, q
          <6>4. TellsOfTrip(v, w, q)'
            BY <2>1, <2>3, <4>1, <5>1, <5>3, <6>2, <6>3 DEF TellsOfTrip, Members
          <6> QED
            BY <6>4 DEF Tells, w, q
        <5> QED
          BY <5>1, <5>2, <5>3
      <4> QED
        BY <3>2, <4>3, <4>4 DEF Tells
    <3> QED
      BY <3>3, <3>4
  <2> QED
    BY <2>2, <2>3
<1> QED
  BY <1>1, <1>2 DEF Settled

\* A step that leaves the tables alone settles what it does not keep.
LEMMA QuietSettles ==
  ASSUME Inv, Settled, NEW u \in Users, UNCHANGED Tables, owed' \subseteq owed,
         failures' = 0 => failures = 0, undercut' = undercut,
         \A v \in Users \ {u} : req'[v] = req[v],
         \A d \in owed' : failures' = 0 /\ Tells(u, d[1], d[2]) => Tells(u, d[1], d[2])'
  PROVE  Settled'
<1>0. accounts' = accounts /\ trip' = trip /\ plan' = plan
  BY DEF Tables
<1>1. \A d \in owed' : CanViewPlan(d[1], d[2])'
  BY <1>0 DEF Settled, CanViewPlan, LivePlan, Members, NotHidden
<1>2. ASSUME failures' = 0, ~undercut', NEW d \in owed'
      PROVE  \E v \in Users : Tells(v, d[1], d[2])'
  <2>1. PICK v \in Users : Tells(v, d[1], d[2])
    BY <1>2 DEF Settled
  <2>2. CASE v = u
    BY <1>2, <2>1, <2>2
  <2>3. CASE v # u
    <3>1. req'[v] = req[v]
      BY <2>3
    <3>2. Tells(v, d[1], d[2])'
      BY <1>0, <2>1, <3>1 DEF Tells, TellsOfPlan, TellsOfTrip, LivePlan, Members, Delivered
    <3> QED
      BY <3>2
  <2> QED
    BY <2>2, <2>3
<1> QED
  BY <1>1, <1>2 DEF Settled

\* A request that goes on is about the same plan and the same trip.
LEMMA Continues ==
  ASSUME Inv, NEW u \in Users, NEW at, Continue(u, at)
  PROVE  /\ \A v \in Users \ {u} : req'[v] = req[v]
         /\ req'[u].at = at /\ req'[u].op = req[u].op /\ req'[u].plan = req[u].plan
         /\ req'[u].trip = req[u].trip /\ req'[u].to = req[u].to
<1>1. req[u] \in Request
  BY DEF Inv, TypeOK
<1>2. req'[u] = [req[u] EXCEPT !.at = at]
  BY DEF Continue, Inv, TypeOK
<1> QED
  BY <1>1, <1>2 DEF Continue, Inv, TypeOK, Request

LEMMA Finishes ==
  ASSUME Inv, NEW u \in Users, Done(u)
  PROVE  /\ \A v \in Users \ {u} : req'[v] = req[v]
         /\ req'[u] = Idle /\ req'[u].plan = {} /\ req'[u].at = "end"
  BY DEF Done, Idle, Inv, TypeOK

\* Nobody else's request is touched, and that of u does not take up another plan.
Alone(u) == \A v \in Users \ {u} : req'[v] = req[v]
Proceeds(u) ==
    /\ req'[u].plan \subseteq req[u].plan
    /\ req'[u].op = "createPlan" => req[u].op = "createPlan" /\ req'[u].trip = req[u].trip

LEMMA OnePlanStep ==
  ASSUME OnePlan, NEW u \in Users, Alone(u),
         req'[u].plan \subseteq req[u].plan \/ \E p : req'[u].plan = {p}
  PROVE  OnePlan'
  BY DEF OnePlan, Alone

LEMMA CreatedStep ==
  ASSUME Inv, Created, NEW u \in Users, Alone(u), Proceeds(u), StaysUndercut,
         \A p \in Plans : plan'[p].state = "unborn" => plan[p].state = "unborn",
         \A v \in Users, p \in Plans : p \in req[v].plan /\ req'[v].op = "createPlan" /\ LivePlan(p)' /\ ~undercut' =>
            LivePlan(p) /\ plan'[p].trip = plan[p].trip
  PROVE  Created'
<1> SUFFICES ASSUME NEW v \in Users, req'[v].op = "createPlan", NEW p \in req'[v].plan
             PROVE  /\ plan'[p].state # "unborn"
                    /\ LivePlan(p)' /\ ~undercut' => req'[v].trip = plan'[p].trip
  BY DEF Created
<1>1. req[v].op = "createPlan" /\ p \in req[v].plan /\ req'[v].trip = req[v].trip
  BY DEF Alone, Proceeds
<1>2. p \in Plans
  BY <1>1, Fields DEF Inv
<1>3. /\ plan[p].state # "unborn"
      /\ LivePlan(p) /\ ~undercut => req[v].trip = plan[p].trip
  BY <1>1 DEF Created
<1> QED
  BY <1>1, <1>2, <1>3 DEF StaysUndercut

LEMMA ContinuesAlone ==
  ASSUME Inv, NEW u \in Users, NEW at, Continue(u, at)
  PROVE  Alone(u) /\ Proceeds(u)
  BY Continues DEF Alone, Proceeds

LEMMA FinishesAlone ==
  ASSUME Inv, NEW u \in Users, Done(u)
  PROVE  Alone(u) /\ Proceeds(u)
  BY Finishes DEF Alone, Proceeds, Idle

\* A write that shows nobody a plan, and takes a plan or a passenger away under no other
\* request, unless with the trip or the account.
LEMMA HidingTold ==
  ASSUME Inv, Inv', ToldInv, NEW u \in Users, Ledger, failures' = failures, StaysUndercut,
         req[u].at = "write", Alone(u), Proceeds(u),
         \A v \in Users \ {u}, p \in Plans : p \in req[v].plan /\ LivePlan(p) /\ ~undercut' =>
            \/ /\ LivePlan(p)' /\ plan'[p].trip = plan[p].trip
               /\ plan[p].pax \cap accounts' \subseteq plan'[p].pax
            \/ trip'[plan[p].trip].state # "live",
         \A p \in Plans : LivePlan(p)' => LivePlan(p) /\ plan'[p].trip = plan[p].trip /\ plan'[p].rev = plan[p].rev,
         \A p \in Plans : plan'[p].state = "unborn" => plan[p].state = "unborn",
         \A t \in Trips : trip[t].state = "live" => trip'[t].creator \in {trip[t].creator, NoOne},
         \A w \in Users, q \in Plans :
            CanViewPlan(w, q)' /\ ~CanViewPlan(w, q) => Tells(u, w, q)'
  PROVE  ToldInv'
<1>1. \A w, q : ~Tells(u, w, q)
  BY NotYet
<1>2. \A w \in Users, q \in Plans :
            CanViewPlan(w, q)' => plan'[q].rev = plan[q].rev /\ plan'[q].trip = plan[q].trip
  BY DEF CanViewPlan
<1>3. Settled'
  BY <1>1, <1>2, WriteSettles DEF ToldInv, Alone
<1>4. OnePlan'
  BY OnePlanStep DEF ToldInv, Proceeds
<1>5. Created'
  BY CreatedStep DEF ToldInv
<1> QED
  BY <1>3, <1>4, <1>5 DEF ToldInv

-----------------------------------------------------------------------------
(* The writes tell                                                          *)

\* A write that does not touch a plan leaves all there is to settle about it.
LEMMA SamePlans ==
  ASSUME Inv, Inv', ToldInv, NEW u \in Users, Write, req[u].at = "write", plan' = plan, accounts' = accounts,
         Alone(u), Proceeds(u),
         \A t \in Trips : trip[t].state = "live" => trip'[t].creator \in {trip[t].creator, NoOne},
         \A w \in Users, q \in Plans :
            CanViewPlan(w, q)' /\ ~CanViewPlan(w, q) => Tells(u, w, q)'
  PROVE  ToldInv'
<1>1. Ledger /\ failures' = failures /\ undercut' = undercut
  BY DEF Write, Served
<1>2. \A p \in Plans : LivePlan(p) => /\ LivePlan(p)' /\ plan'[p].trip = plan[p].trip
                                      /\ plan[p].pax \cap accounts' \subseteq plan'[p].pax
  BY DEF LivePlan
<1>3. \A p \in Plans : LivePlan(p)' => LivePlan(p) /\ plan'[p].trip = plan[p].trip /\ plan'[p].rev = plan[p].rev
  BY DEF LivePlan
<1> QED
  BY <1>1, <1>2, <1>3, HidingTold DEF StaysUndercut

\* A step that leaves the tables alone keeps what is said of requests.
LEMMA QuietCreated ==
  ASSUME Inv, Created, NEW u \in Users, Alone(u), Proceeds(u), plan' = plan, undercut' = undercut
  PROVE  Created'
  BY CreatedStep DEF LivePlan, StaysUndercut

LEMMA NoWriteTold ==
  ASSUME Inv, ToldInv, NEW u \in Users, req[u].at = "write", NoWrite(u)
  PROVE  ToldInv'
<1>1. /\ UNCHANGED Tables /\ owed' = owed /\ failures' = failures /\ undercut' = undercut
  BY DEF NoWrite, Served, Tables, histVars
<1>2. Alone(u) /\ Proceeds(u)
  BY FinishesAlone DEF NoWrite
<1>3. \A w, q : ~Tells(u, w, q)
  BY NotYet
<1>4. Settled'
  BY <1>1, <1>2, <1>3, QuietSettles DEF ToldInv, Alone
<1>5. Created'
  BY <1>1, <1>2, QuietCreated DEF ToldInv, Tables
<1> QED
  BY <1>2, <1>4, <1>5, OnePlanStep DEF ToldInv, Proceeds

LEMMA CreateTripTold ==
  ASSUME Inv, Inv', ToldInv, NEW u \in Users, CreateTrip(u)
  PROVE  ToldInv'
<1>1. CASE u \notin accounts
  BY <1>1, NoWriteTold DEF CreateTrip, Busy
<1>2. CASE u \in accounts
  <2>1. PICK t \in Trips :
          /\ trip[t].state = "unborn"
          /\ trip' = [trip EXCEPT ![t] = [state |-> "live", creator |-> u,
                                          role |-> [NoRoles EXCEPT ![u] = "owner"]]]
          /\ req' = [req EXCEPT ![u].at = "members", ![u].trip = t]
          /\ UNCHANGED <<accounts, plan>> /\ Write
    BY <1>2 DEF CreateTrip
  <2>2. \A s \in Trips \ {t} : trip'[s] = trip[s]
    BY <2>1 DEF Inv, TypeOK
  <2>3. Alone(u)
    BY <2>1 DEF Alone, Inv, TypeOK
  <2>4. Proceeds(u)
    <3>1. req[u] \in Request
      BY DEF Inv, TypeOK
    <3>2. req'[u] = [req[u] EXCEPT !.at = "members", !.trip = t]
      BY <2>1 DEF Inv, TypeOK
    <3>3. req'[u].plan = req[u].plan /\ req'[u].op = req[u].op
      BY <3>1, <3>2 DEF Request
    <3> QED
      BY <3>3 DEF Proceeds, CreateTrip, Busy
  <2>5. ASSUME NEW w \in Users, NEW q \in Plans, CanViewPlan(w, q)' PROVE CanViewPlan(w, q)
    <3>1. LivePlan(q) /\ w \in accounts
      BY <2>1, <2>5 DEF CanViewPlan, LivePlan
    <3>2. plan[q].trip \in Trips \ {t}
      BY <2>1, <3>1 DEF LivePlan, Inv, NothingDangles, Anchored
    <3> QED
      BY <2>1, <2>2, <2>5, <3>1, <3>2, LessView DEF NotHidden
  <2>6. \A s \in Trips : trip[s].state = "live" => trip'[s].creator \in {trip[s].creator, NoOne}
    BY <2>1, <2>2
  <2> QED
    BY <2>1, <2>3, <2>4, <2>5, <2>6, SamePlans DEF CreateTrip, Busy
<1> QED
  BY <1>1, <1>2

LEMMA EditTripTold ==
  ASSUME Inv, Inv', ToldInv, NEW u \in Users, EditTrip(u)
  PROVE  ToldInv'
<1>1. UNCHANGED <<accounts, trip, plan>> /\ Write /\ req[u].at = "write"
  BY DEF EditTrip, Busy
<1>2. Alone(u) /\ Proceeds(u)
  BY ContinuesAlone, FinishesAlone DEF EditTrip
<1>3. \A w \in Users, q \in Plans : CanViewPlan(w, q)' => CanViewPlan(w, q)
  BY <1>1 DEF CanViewPlan, LivePlan, Members, NotHidden
<1> QED
  BY <1>1, <1>2, <1>3, SamePlans

WritesRole(t, v, o) == trip' = [trip EXCEPT ![t].role[v] = o]

\* Only the user whose role is written, and who did not create the trip, gains sight.
LEMMA RoleShows ==
  ASSUME Inv, Inv', plan' = plan, accounts' = accounts, NEW t \in Trips, NEW v \in Users,
         NEW o \in Roles, WritesRole(t, v, o)
  PROVE  /\ \A s \in Trips : trip'[s].creator = trip[s].creator
         /\ \A w \in Users, q \in Plans : CanViewPlan(w, q)' /\ ~CanViewPlan(w, q) =>
               w = v /\ plan[q].trip = t /\ w # trip[t].creator
         /\ trip'[t].role[v] = o
<1>0. trip' = [trip EXCEPT ![t].role[v] = o]
  BY DEF WritesRole
<1>1. trip \in [Trips -> Trip]
  BY DEF Inv, TypeOK
<1>2. /\ trip' \in [Trips -> Trip]
      /\ \A s \in Trips \ {t} : trip'[s] = trip[s]
      /\ trip'[t].state = trip[t].state /\ trip'[t].creator = trip[t].creator
      /\ trip'[t].role[v] = o
      /\ \A w \in Users \ {v} : trip'[t].role[w] = trip[t].role[w]
  BY <1>1, <1>0, RoleWrite
<1>3. \A s \in Trips : trip'[s].creator = trip[s].creator
  BY <1>2
<1>4. ASSUME NEW w \in Users, NEW q \in Plans, CanViewPlan(w, q)', ~CanViewPlan(w, q)
      PROVE  w = v /\ plan[q].trip = t /\ w # trip[t].creator
  <2>1. LivePlan(q) /\ w \in accounts /\ plan[q].trip \in Trips
    BY <1>4 DEF CanViewPlan, LivePlan, Inv, NothingDangles, Anchored
  <2>2. NotHidden(w, q)' => NotHidden(w, q)
    BY DEF NotHidden
  <2>3. ~(trip'[plan[q].trip].role[w] # "none" => trip[plan[q].trip].role[w] # "none")
    BY <1>3, <1>4, <2>1, <2>2, LessView
  <2>4. plan[q].trip = t
    BY <1>2, <2>1, <2>3
  <2>5. w = v
    BY <1>2, <2>3, <2>4
  <2>6. w # trip[t].creator
    BY <1>4, <2>1, <2>4 DEF CanViewPlan
  <2> QED
    BY <2>4, <2>5, <2>6
<1> QED
  BY <1>2, <1>3, <1>4

LEMMA AddTripMemberTold ==
  ASSUME Inv, Inv', ToldInv, NEW u \in Users, AddTripMember(u)
  PROVE  ToldInv'
<1>1. PICK v \in req[u].user :
        IF trip[req[u].trip].state = "live" /\ v \in accounts
        THEN /\ trip' = [trip EXCEPT ![req[u].trip].role[v] = req[u].role]
             /\ Continue(u, "members") /\ UNCHANGED <<accounts, plan>> /\ Write
        ELSE NoWrite(u)
  BY DEF AddTripMember
<1>2. CASE trip[req[u].trip].state = "live" /\ v \in accounts
  <2>0. PICK t : t = req[u].trip
    OBVIOUS
  <2>1. /\ trip' = [trip EXCEPT ![t].role[v] = req[u].role]
        /\ Continue(u, "members") /\ UNCHANGED <<accounts, plan>> /\ Write
    BY <1>1, <1>2, <2>0
  <2>2. /\ v \in Users /\ req[u].role \in Roles /\ req[u].role # "none"
    BY Fields DEF Inv
  <2>3. req'[u].at = "members" /\ req'[u].trip = t
    BY <2>0, <2>1, Continues
  <2>a. CASE t \notin Trips
    <3>1. trip' = trip
      BY <2>1, <2>a DEF Inv, TypeOK
    <3>2. \A w \in Users, q \in Plans : CanViewPlan(w, q)' => CanViewPlan(w, q)
      BY <2>1, <3>1 DEF CanViewPlan, LivePlan, Members, NotHidden
    <3> QED
      BY <2>1, <3>1, <3>2, ContinuesAlone, SamePlans DEF AddTripMember, Busy
  <2>b. CASE t \in Trips
    <3>1. /\ \A s \in Trips : trip'[s].creator = trip[s].creator
          /\ \A w \in Users, q \in Plans : CanViewPlan(w, q)' /\ ~CanViewPlan(w, q) =>
                w = v /\ plan[q].trip = t /\ w # trip[t].creator
          /\ trip'[t].role[v] = req[u].role
      <4>1. PICK o \in Roles : o = req[u].role
        BY <2>2
      <4>2. WritesRole(t, v, o)
        BY <2>1, <4>1 DEF WritesRole
      <4>0. plan' = plan /\ accounts' = accounts /\ v \in Users
        BY <2>1, <2>2
      <4>3. /\ \A s \in Trips : trip'[s].creator = trip[s].creator
            /\ \A w \in Users, q \in Plans : CanViewPlan(w, q)' /\ ~CanViewPlan(w, q) =>
                  w = v /\ plan[q].trip = t /\ w # trip[t].creator
            /\ trip'[t].role[v] = o
        BY <2>b, <4>0, <4>2, RoleShows
      <4> QED
        BY <4>1, <4>3
    <3>2. ASSUME NEW w \in Users, NEW q \in Plans, CanViewPlan(w, q)', ~CanViewPlan(w, q)
          PROVE  Tells(u, w, q)'
      <4>1. w = v /\ plan[q].trip = t /\ w # trip[t].creator
        BY <3>1, <3>2
      <4>2. w \in Members(t)'
        BY <2>2, <3>1, <4>1 DEF Members
      <4>3. TellsOfTrip(u, w, q)'
        BY <2>1, <2>3, <2>b, <3>1, <4>1, <4>2 DEF TellsOfTrip
      <4> QED
        BY <4>3 DEF Tells
    <3> QED
      BY <2>1, <3>1, <3>2, ContinuesAlone, SamePlans DEF AddTripMember, Busy
  <2> QED
    BY <2>a, <2>b
<1>3. CASE ~(trip[req[u].trip].state = "live" /\ v \in accounts)
  BY <1>1, <1>3, NoWriteTold DEF AddTripMember, Busy
<1> QED
  BY <1>2, <1>3

LEMMA RemoveTripMemberTold ==
  ASSUME Inv, Inv', ToldInv, NEW u \in Users, RemoveTripMember(u)
  PROVE  ToldInv'
<1>1. PICK v \in req[u].user :
        IF v \in Members(req[u].trip)
        THEN /\ trip' = [trip EXCEPT ![req[u].trip].role[v] = "none"]
             /\ Continue(u, "members") /\ UNCHANGED <<accounts, plan>> /\ Write
        ELSE NoWrite(u)
  BY DEF RemoveTripMember
<1> DEFINE t == req[u].trip
<1>2. CASE v \in Members(t)
  <2>1. /\ trip' = [trip EXCEPT ![t].role[v] = "none"]
        /\ Continue(u, "members") /\ UNCHANGED <<accounts, plan>> /\ Write
    BY <1>1, <1>2
  <2>2. v \in Users
    BY Fields DEF Inv
  <2> HIDE DEF t
  <2>3. /\ \A s \in Trips : trip'[s].creator = trip[s].creator
        /\ \A s \in Trips, w \in Users : trip'[s].role[w] # "none" => trip[s].role[w] # "none"
    <3>1. CASE t \in Trips
      BY <2>1, <2>2, <3>1, RoleWrite DEF Inv, TypeOK, Roles
    <3>2. CASE t \notin Trips
      BY <2>1, <3>2 DEF Inv, TypeOK
    <3> QED
      BY <3>1, <3>2
  <2>4. ASSUME NEW w \in Users, NEW q \in Plans, CanViewPlan(w, q)' PROVE CanViewPlan(w, q)
    <3>1. LivePlan(q) /\ w \in accounts /\ plan[q].trip \in Trips
      BY <2>1, <2>4 DEF CanViewPlan, LivePlan, Inv, NothingDangles, Anchored
    <3> QED
      BY <2>1, <2>3, <2>4, <3>1, LessView DEF NotHidden
  <2> QED
    BY <2>1, <2>3, <2>4, ContinuesAlone, SamePlans DEF RemoveTripMember, Busy
<1>3. CASE v \notin Members(t)
  BY <1>1, <1>3, NoWriteTold DEF RemoveTripMember, Busy
<1> QED
  BY <1>2, <1>3
LEMMA DeleteTripTold ==
  ASSUME Inv, Inv', ToldInv, NEW u \in Users, DeleteTrip(u)
  PROVE  ToldInv'
<1>1. PICK t : t = req[u].trip
  OBVIOUS
<1>2. /\ Alone(u) /\ Proceeds(u) /\ req[u].at = "write" /\ accounts' = accounts
      /\ Ledger /\ failures' = failures /\ undercut' = undercut
  BY FinishesAlone DEF DeleteTrip, Busy, Write, Served
<1>3. \A s \in Trips : trip'[s] = IF s = t THEN GoneTrip ELSE trip[s]
  BY <1>1 DEF DeleteTrip, Inv, TypeOK
<1>4. \A p \in Plans : plan'[p] = IF LivePlan(p) /\ plan[p].trip = t THEN GonePlan ELSE plan[p]
  BY <1>1 DEF DeleteTrip
<1>5. GoneTrip.creator = NoOne /\ GoneTrip.state = "gone" /\ GonePlan.state = "gone"
  BY DEF GoneTrip, GonePlan
<1>6. ASSUME NEW p \in Plans, LivePlan(p)'
      PROVE  LivePlan(p) /\ plan[p].trip # t /\ plan'[p] = plan[p]
  BY <1>4, <1>5, <1>6 DEF LivePlan
<1>7. ASSUME NEW w \in Users, NEW q \in Plans, CanViewPlan(w, q)'
      PROVE  CanViewPlan(w, q)
  <2>1. /\ LivePlan(q) /\ plan[q].trip # t /\ plan'[q] = plan[q] /\ w \in accounts
        /\ plan[q].trip \in Trips
    BY <1>2, <1>6, <1>7 DEF CanViewPlan, LivePlan, Inv, NothingDangles, Anchored
  <2>2. trip'[plan[q].trip] = trip[plan[q].trip]
    BY <1>3, <2>1
  <2> QED
    BY <1>7, <2>1, <2>2, LessView DEF NotHidden
<1>8. ASSUME NEW p \in Plans, LivePlan(p)
      PROVE  \/ LivePlan(p)' /\ plan'[p] = plan[p]
             \/ trip'[plan[p].trip].state # "live"
  <2>1. plan[p].trip \in Trips
    BY <1>8 DEF LivePlan, Inv, NothingDangles, Anchored
  <2> QED
    BY <1>3, <1>4, <1>5, <1>8, <2>1 DEF LivePlan
<1>9. \A p \in Plans : plan'[p].state = "unborn" => plan[p].state = "unborn"
  BY <1>4, <1>5
<1>10. \A s \in Trips : trip[s].state = "live" => trip'[s].creator \in {trip[s].creator, NoOne}
  BY <1>3, <1>5
<1> QED
  BY <1>2, <1>6, <1>7, <1>8, <1>9, <1>10, HidingTold DEF StaysUndercut

\* A write of its plan by a request that will tell all who see it: nobody else's sight changes,
\* but that of passengers.
LEMMA PlanTold ==
  ASSUME Inv, Inv', ToldInv, NEW u \in Users, NEW p \in Plans, p \in req[u].plan, Write, Alone(u),
         req[u].at \in {"write", "passengers", "visibility"},
         req'[u].at \in {"passengers", "visibility", "read"},
         req'[u].plan = req[u].plan, req'[u].op = req[u].op, req'[u].trip = req[u].trip,
         LivePlan(p), LivePlan(p)', plan'[p].trip = plan[p].trip, plan[p].pax \subseteq plan'[p].pax,
         \A q \in Plans \ {p} : plan'[q] = plan[q],
         accounts' = accounts, \A t \in Trips : trip'[t].creator = trip[t].creator,
         \A w \in Users, t \in Trips : trip'[t].role[w] # "none" /\ trip[t].role[w] = "none" =>
            t = plan[p].trip /\ w \in plan'[p].pax
  PROVE  ToldInv'
<1>1. Ledger /\ failures' = failures /\ undercut' = undercut
  BY DEF Write, Served
<1>2. Proceeds(u)
  BY DEF Proceeds
<1>3. \A q \in req[u].plan : q = p
  BY DEF ToldInv, OnePlan
<1>4. ASSUME ~undercut'
      PROVE  req'[u].op = "createPlan" => req'[u].trip = plan'[p].trip
  BY <1>1, <1>4 DEF ToldInv, Created
<1>5. ASSUME NEW w \in Users, NEW q \in Plans, plan'[q].trip = plan[p].trip, ~undercut',
             q = p \/ w \in plan'[p].pax
      PROVE  Tells(u, w, q)'
  <2>1. TellsOfPlan(u, w, q)'
    BY <1>4, <1>5 DEF TellsOfPlan
  <2> QED
    BY <2>1 DEF Tells
<1>6. ASSUME NEW w \in Users, NEW q \in Plans, ~undercut', CanViewPlan(w, q)',
             ~CanViewPlan(w, q) \/ plan'[q].rev # plan[q].rev \/ plan'[q].trip # plan[q].trip
      PROVE  Tells(u, w, q)'
  <2>1. CASE q = p
    BY <1>5, <1>6, <2>1
  <2>2. CASE q # p
    <3>1. plan'[q] = plan[q] /\ ~CanViewPlan(w, q)
      BY <1>6, <2>2
    <3>2. LivePlan(q) /\ w \in accounts /\ plan[q].trip \in Trips
      BY <1>6, <3>1 DEF CanViewPlan, LivePlan, Inv, NothingDangles, Anchored
    <3>3. ~(trip'[plan[q].trip].role[w] # "none" => trip[plan[q].trip].role[w] # "none")
      BY <1>6, <3>1, <3>2, LessView DEF NotHidden
    <3> QED
      BY <1>5, <1>6, <3>1, <3>2, <3>3
  <2> QED
    BY <2>1, <2>2
<1>7. ASSUME NEW w \in Users, NEW q \in Plans, ~undercut', Tells(u, w, q), plan'[q].trip = plan[q].trip
      PROVE  Tells(u, w, q)'
  <2>1. TellsOfPlan(u, w, q)
    BY <1>7 DEF Tells, TellsOfTrip
  <2>2. plan[p].trip = plan[q].trip /\ (q = p \/ w \in plan[p].pax)
    BY <1>3, <2>1 DEF TellsOfPlan
  <2> QED
    BY <1>5, <1>7, <2>2
<1>8. \A q \in Plans : LivePlan(q) => /\ LivePlan(q)' /\ plan'[q].trip = plan[q].trip
                                      /\ plan[q].pax \cap accounts' \subseteq plan'[q].pax
  BY DEF LivePlan
<1>9. Settled'
  BY <1>1, <1>6, <1>7, <1>8, WriteSettles DEF StaysUndercut, ToldInv, Alone
<1>10. OnePlan'
  BY OnePlanStep DEF ToldInv
<1>11. \A q \in Plans : /\ plan'[q].state = "unborn" => plan[q].state = "unborn"
                        /\ LivePlan(q)' => LivePlan(q) /\ plan'[q].trip = plan[q].trip
  BY DEF LivePlan
<1>12. Created'
  BY <1>1, <1>2, <1>11, CreatedStep DEF StaysUndercut, ToldInv
<1> QED
  BY <1>9, <1>10, <1>12 DEF ToldInv

LEMMA CreatePlanTold ==
  ASSUME Inv, Inv', ToldInv, NEW u \in Users, CreatePlan(u)
  PROVE  ToldInv'
<1>0. req[u].at = "write" /\ req[u].op = "createPlan" /\ req[u].trip \in Trips
  BY DEF CreatePlan, Busy, Inv, Aimed
<1>1. CASE ~(trip[req[u].trip].state = "live" /\ u \in accounts)
  BY <1>0, <1>1, NoWriteTold DEF CreatePlan
<1>2. CASE trip[req[u].trip].state = "live" /\ u \in accounts
  <2> DEFINE row == [GonePlan EXCEPT !.state = "live", !.creator = u, !.trip = req[u].trip]
             asks(p) == [req[u] EXCEPT !.at = "passengers", !.plan = {p}]
  <2>1. PICK p \in Plans :
          /\ plan[p].state = "unborn" /\ plan' = [plan EXCEPT ![p] = row]
          /\ req' = [req EXCEPT ![u].at = "passengers", ![u].plan = {p}]
          /\ UNCHANGED <<accounts, trip>> /\ Write
    BY <1>2 DEF CreatePlan
  <2>2. row.state = "live" /\ row.trip = req[u].trip
    BY DEF GonePlan
  <2>3. /\ asks(p).at = "passengers" /\ asks(p).plan = {p} /\ asks(p).op = req[u].op
        /\ asks(p).trip = req[u].trip
    BY Fields DEF Inv, TypeOK, Request
  <2>4. req' = [req EXCEPT ![u] = asks(p)]
    BY <2>1, ZenonT(60)
  <2> HIDE DEF row, asks
  <2>5. /\ req'[u].at = "passengers" /\ req'[u].plan = {p} /\ req'[u].op = "createPlan"
        /\ req'[u].trip = req[u].trip /\ Alone(u)
    BY <1>0, <2>3, <2>4 DEF Alone, Inv, TypeOK
  <2>6. /\ plan'[p].state = "live" /\ plan'[p].trip = req[u].trip
        /\ \A q \in Plans \ {p} : plan'[q] = plan[q]
    BY <2>1, <2>2 DEF Inv, TypeOK
  <2>7. Ledger /\ failures' = failures /\ undercut' = undercut /\ accounts' = accounts /\ trip' = trip
    BY <2>1 DEF Write, Served
  <2>8. ASSUME NEW w \in Users, NEW q \in Plans, CanViewPlan(w, q)',
               ~CanViewPlan(w, q) \/ plan'[q].rev # plan[q].rev \/ plan'[q].trip # plan[q].trip
        PROVE  Tells(u, w, q)'
    <3>1. CASE q # p
      <4>1. plan'[q] = plan[q]
        BY <2>6, <3>1
      <4>2. CanViewPlan(w, q)
        BY <2>7, <2>8, <4>1 DEF CanViewPlan, LivePlan, Members, NotHidden
      <4> QED
        BY <2>8, <4>1, <4>2
    <3>2. CASE q = p
      <4>1. TellsOfPlan(u, w, q)'
        BY <2>5, <2>6, <3>2 DEF TellsOfPlan, LivePlan
      <4> QED
        BY <4>1 DEF Tells
    <3> QED
      BY <3>1, <3>2
  <2>9. \A w, q : ~Tells(u, w, q)
    BY <1>0, NotYet
  <2>10. \A q \in Plans : LivePlan(q) => /\ LivePlan(q)' /\ plan'[q].trip = plan[q].trip
                                         /\ plan[q].pax \cap accounts' \subseteq plan'[q].pax
    BY <2>1, <2>6 DEF LivePlan
  <2>11. Settled'
    BY <2>5, <2>7, <2>8, <2>9, <2>10, WriteSettles DEF StaysUndercut, ToldInv, Alone
  <2>12. OnePlan'
    BY <2>5, OnePlanStep DEF ToldInv
  <2>13. Created'
    <3> SUFFICES ASSUME NEW v \in Users, req'[v].op = "createPlan", NEW q \in req'[v].plan
                 PROVE  /\ plan'[q].state # "unborn"
                        /\ LivePlan(q)' /\ ~undercut' => req'[v].trip = plan'[q].trip
      BY DEF Created
    <3>1. CASE v = u
      BY <2>5, <2>6, <3>1
    <3>2. CASE v # u
      <4>1. req'[v] = req[v]
        BY <2>5, <3>2 DEF Alone
      <4>2. q \in Plans /\ plan[q].state # "unborn"
            /\ (LivePlan(q) /\ ~undercut => req[v].trip = plan[q].trip)
        BY <4>1, Fields DEF Inv, ToldInv, Created
      <4>3. plan'[q] = plan[q]
        BY <2>1, <2>6, <4>2
      <4> QED
        BY <2>7, <4>1, <4>2, <4>3 DEF LivePlan
    <3> QED
      BY <3>1, <3>2
  <2> QED
    BY <2>11, <2>12, <2>13 DEF ToldInv
<1> QED
  BY <1>1, <1>2

\* What the insert of a passenger changes.
LEMMA Inserted ==
  ASSUME Inv, NEW p \in Plans, NEW v \in Users, LivePlan(p), InsertPassenger(v, p)
  PROVE  /\ LivePlan(p)' /\ plan'[p].trip = plan[p].trip /\ plan'[p].pax = plan[p].pax \cup {v}
         /\ \A q \in Plans \ {p} : plan'[q] = plan[q]
         /\ \A t \in Trips : trip'[t].creator = trip[t].creator
         /\ \A w \in Users, t \in Trips : trip'[t].role[w] # "none" /\ trip[t].role[w] = "none" =>
               t = plan[p].trip /\ w = v
         /\ v \in plan'[p].pax
         /\ plan'[p].creator = plan[p].creator /\ plan'[p].mode = plan[p].mode
         /\ plan'[p].named = plan[p].named
<1> DEFINE t == plan[p].trip
           o == IF trip[t].role[v] = "none" /\ v \notin plan[p].pax THEN "viewer" ELSE trip[t].role[v]
           row == [plan[p] EXCEPT !.pax = plan[p].pax \cup {v}]
<1>1. plan[p] \in Plan /\ t \in Trips
  BY LiveRow
<1>2. o \in Roles
  BY <1>1 DEF Inv, TypeOK, Trip, Roles
<1>3. trip' = [trip EXCEPT ![t].role[v] = o] /\ plan' = [plan EXCEPT ![p] = row]
  BY DEF InsertPassenger
<1>4. /\ row.state = plan[p].state /\ row.trip = plan[p].trip /\ row.pax = plan[p].pax \cup {v}
      /\ row.creator = plan[p].creator /\ row.mode = plan[p].mode /\ row.named = plan[p].named
  BY <1>1 DEF Plan
<1> HIDE DEF t, o, row
<1>5. plan'[p] = row /\ \A q \in Plans \ {p} : plan'[q] = plan[q]
  BY <1>3 DEF Inv, TypeOK
<1>6. trip \in [Trips -> Trip]
  BY DEF Inv, TypeOK
<1>7. /\ trip' \in [Trips -> Trip]
      /\ \A s \in Trips \ {t} : trip'[s] = trip[s]
      /\ trip'[t].state = trip[t].state /\ trip'[t].creator = trip[t].creator
      /\ trip'[t].role[v] = o
      /\ \A w \in Users \ {v} : trip'[t].role[w] = trip[t].role[w]
  BY <1>1, <1>2, <1>3, <1>6, RoleWrite
<1>8. \A s \in Trips : trip'[s].creator = trip[s].creator
  BY <1>7
<1>9. \A w \in Users, s \in Trips : trip'[s].role[w] # "none" /\ trip[s].role[w] = "none" => s = t /\ w = v
  BY <1>7
<1> QED
  BY <1>4, <1>5, <1>8, <1>9 DEF LivePlan, t

LEMMA AddNextPassengerTold ==
  ASSUME Inv, Inv', ToldInv, NEW u \in Users, AddNextPassenger(u)
  PROVE  ToldInv'
<1>0. req[u].op = "createPlan" /\ req[u].at = "passengers"
  BY DEF AddNextPassenger, Busy
<1>1. CASE req[u].user = {}
  <2>1. PICK at \in {"read", "visibility"} : Continue(u, at)
    BY <1>1 DEF AddNextPassenger
  <2>2. UNCHANGED Tables /\ Ledger /\ failures' = failures /\ undercut' = undercut
    BY <1>1 DEF AddNextPassenger, Tables, Write, Served
  <2>3. /\ Alone(u) /\ Proceeds(u) /\ req'[u].at \in {"read", "visibility"} /\ req'[u].op = req[u].op
        /\ req'[u].plan = req[u].plan /\ req'[u].trip = req[u].trip
    BY <2>1, Continues, ContinuesAlone
  <2>4. \A w \in Users, q \in Plans :
           /\ CanViewPlan(w, q)' <=> CanViewPlan(w, q)
           /\ plan'[q] = plan[q]
    BY <2>2 DEF CanViewPlan, LivePlan, Members, NotHidden, Tables
  <2>5. owed' \subseteq owed
    BY <2>2, <2>4 DEF Ledger
  <2>6. ASSUME NEW w, NEW q, Tells(u, w, q) PROVE Tells(u, w, q)'
    <3>1. TellsOfPlan(u, w, q)
      BY <1>0, <2>6 DEF Tells, TellsOfTrip
    <3>2. TellsOfPlan(u, w, q)'
      BY <1>0, <2>2, <2>3, <3>1 DEF TellsOfPlan, LivePlan, Tables
    <3> QED
      BY <3>2 DEF Tells
  <2>7. Settled'
    BY <2>2, <2>3, <2>5, <2>6, QuietSettles DEF ToldInv, Alone
  <2>8. Created'
    BY <2>2, <2>3, QuietCreated DEF ToldInv, Tables
  <2> QED
    BY <2>3, <2>7, <2>8, OnePlanStep DEF ToldInv
<1>2. CASE req[u].user # {}
  <2>1. PICK v \in req[u].user, p \in req[u].plan :
          IF LivePlan(p) /\ v \in accounts
          THEN /\ InsertPassenger(v, p)
               /\ req' = [req EXCEPT ![u].user = @ \ {v}]
               /\ UNCHANGED accounts /\ Write
          ELSE /\ failures' = failures + 1 /\ Done(u)
               /\ UNCHANGED <<accounts, trip, plan, asked, histVars>>
    BY <1>2 DEF AddNextPassenger
  <2>2. v \in Users /\ p \in Plans
    BY Fields DEF Inv
  <2>3. CASE LivePlan(p) /\ v \in accounts
    <3>1. InsertPassenger(v, p) /\ accounts' = accounts /\ Write
      BY <2>1, <2>3
    <3> DEFINE asks == [req[u] EXCEPT !.user = req[u].user \ {v}]
    <3>2. req' = [req EXCEPT ![u] = asks]
      BY <2>1, <2>3
    <3>3. asks.at = req[u].at /\ asks.op = req[u].op /\ asks.plan = req[u].plan /\ asks.trip = req[u].trip
      BY Fields DEF Inv, TypeOK, Request
    <3> HIDE DEF asks
    <3>4. /\ Alone(u) /\ req'[u].at = "passengers" /\ req'[u].op = req[u].op
          /\ req'[u].plan = req[u].plan /\ req'[u].trip = req[u].trip
      BY <1>0, <3>2, <3>3 DEF Alone, Inv, TypeOK
    <3> QED
      BY <1>0, <2>1, <2>2, <2>3, <3>1, <3>4, Inserted, PlanTold
  <2>4. CASE ~(LivePlan(p) /\ v \in accounts)
    <3>1. /\ failures' = failures + 1 /\ Done(u) /\ UNCHANGED Tables /\ owed' = owed /\ undercut' = undercut
      BY <2>1, <2>4 DEF histVars, Tables
    <3>2. Alone(u) /\ Proceeds(u)
      BY <3>1, FinishesAlone
    <3>3. Settled'
      BY <3>1, <3>2, QuietSettles DEF ToldInv, Alone, Inv, TypeOK
    <3>4. Created'
      BY <3>1, <3>2, QuietCreated DEF ToldInv, Tables
    <3> QED
      BY <3>2, <3>3, <3>4, OnePlanStep DEF ToldInv, Proceeds
  <2> QED
    BY <2>3, <2>4
<1> QED
  BY <1>1, <1>2

LEMMA AddPlanPassengerTold ==
  ASSUME Inv, Inv', ToldInv, NEW u \in Users, AddPlanPassenger(u)
  PROVE  ToldInv'
<1>0. req[u].op = "addPassenger" /\ req[u].at = "write"
  BY DEF AddPlanPassenger, Busy
<1>1. PICK v \in req[u].user, p \in req[u].plan :
        IF LivePlan(p) /\ v \in accounts
        THEN /\ InsertPassenger(v, p)
             /\ Continue(u, "read") /\ UNCHANGED accounts /\ Write
        ELSE NoWrite(u)
  BY DEF AddPlanPassenger
<1>2. v \in Users /\ p \in Plans
  BY Fields DEF Inv
<1>3. CASE LivePlan(p) /\ v \in accounts
  <2>1. InsertPassenger(v, p) /\ accounts' = accounts /\ Write /\ Continue(u, "read")
    BY <1>1, <1>3
  <2>2. /\ Alone(u) /\ req'[u].at = "read" /\ req'[u].op = req[u].op
        /\ req'[u].plan = req[u].plan /\ req'[u].trip = req[u].trip
    BY <2>1, Continues, ContinuesAlone
  <2> QED
    BY <1>0, <1>1, <1>2, <1>3, <2>1, <2>2, Inserted, PlanTold
<1>4. CASE ~(LivePlan(p) /\ v \in accounts)
  BY <1>0, <1>1, <1>4, NoWriteTold
<1> QED
  BY <1>3, <1>4

LEMMA UpdatePlanTold ==
  ASSUME Inv, Inv', ToldInv, NEW u \in Users, UpdatePlan(u)
  PROVE  ToldInv'
<1>0. req[u].op = "updatePlan" /\ req[u].at = "write"
  BY DEF UpdatePlan, Busy
<1>1. PICK p \in req[u].plan :
        IF LivePlan(p)
        THEN /\ plan' = [plan EXCEPT ![p].rev = @ + 1]
             /\ Continue(u, "read") /\ UNCHANGED <<accounts, trip>> /\ Write
        ELSE NoWrite(u)
  BY DEF UpdatePlan
<1>2. p \in Plans
  BY Fields DEF Inv
<1>3. CASE LivePlan(p)
  <2>1. /\ plan' = [plan EXCEPT ![p].rev = plan[p].rev + 1] /\ Continue(u, "read")
        /\ accounts' = accounts /\ trip' = trip /\ Write
    BY <1>1, <1>3
  <2>2. /\ Alone(u) /\ req'[u].at = "read" /\ req'[u].op = req[u].op
        /\ req'[u].plan = req[u].plan /\ req'[u].trip = req[u].trip
    BY <2>1, Continues, ContinuesAlone
  <2> DEFINE row == [plan[p] EXCEPT !.rev = plan[p].rev + 1]
  <2>3. row.state = plan[p].state /\ row.trip = plan[p].trip /\ row.pax = plan[p].pax
    BY <1>2, <1>3, LiveRow DEF Plan
  <2>4. plan' = [plan EXCEPT ![p] = row]
    BY <2>1
  <2> HIDE DEF row
  <2>5. /\ LivePlan(p)' /\ plan'[p].trip = plan[p].trip /\ plan[p].pax \subseteq plan'[p].pax
        /\ \A q \in Plans \ {p} : plan'[q] = plan[q]
    BY <1>2, <1>3, <2>3, <2>4 DEF LivePlan, Inv, TypeOK
  <2> QED
    BY <1>0, <1>1, <1>2, <1>3, <2>1, <2>2, <2>5, PlanTold
<1>4. CASE ~LivePlan(p)
  BY <1>0, <1>1, <1>4, NoWriteTold
<1> QED
  BY <1>3, <1>4

LEMMA SetPlanVisibilityTold ==
  ASSUME Inv, Inv', ToldInv, NEW u \in Users, SetPlanVisibility(u)
  PROVE  ToldInv'
<1> DEFINE ok(p) == LivePlan(p) /\ (req[u].mode # "everyone" => req[u].named \subseteq accounts)
           list == IF req[u].mode = "everyone" THEN {} ELSE req[u].named
<1>1. PICK p \in req[u].plan :
        IF ok(p)
        THEN /\ plan' = [plan EXCEPT ![p].mode = req[u].mode, ![p].named = list]
             /\ Continue(u, "read") /\ UNCHANGED <<accounts, trip>> /\ Write
        ELSE IF req[u].op = "createPlan"
             THEN /\ failures' = failures + 1 /\ Done(u)
                  /\ UNCHANGED <<accounts, trip, plan, asked, histVars>>
             ELSE NoWrite(u)
  BY DEF SetPlanVisibility
<1>2. p \in Plans /\ plan[p] \in Plan
  BY Fields DEF Inv, TypeOK
<1>3. /\ req[u].at \in {"write", "visibility"}
      /\ req[u].op # "createPlan" => req[u].at = "write"
  BY DEF SetPlanVisibility, Busy
<1>4. CASE ok(p)
  <2> DEFINE row == [plan[p] EXCEPT !.mode = req[u].mode, !.named = list]
  <2>1. /\ Continue(u, "read") /\ accounts' = accounts /\ trip' = trip /\ Write
    BY <1>1, <1>4
  <2>2. plan' = [plan EXCEPT ![p] = row]
    <3>1. plan' = [plan EXCEPT ![p].mode = req[u].mode, ![p].named = list]
      BY <1>1, <1>4
    <3> HIDE DEF list
    <3> QED
      BY <1>2, <3>1 DEF Inv, TypeOK
  <2> HIDE DEF list
  <2>3. row.state = plan[p].state /\ row.trip = plan[p].trip /\ row.pax = plan[p].pax
    BY <1>2 DEF Plan
  <2> HIDE DEF row
  <2>4. /\ LivePlan(p)' /\ plan'[p].trip = plan[p].trip /\ plan[p].pax \subseteq plan'[p].pax
        /\ \A q \in Plans \ {p} : plan'[q] = plan[q]
    BY <1>2, <1>4, <2>2, <2>3 DEF LivePlan, Inv, TypeOK
  <2>5. /\ Alone(u) /\ req'[u].at = "read" /\ req'[u].op = req[u].op
        /\ req'[u].plan = req[u].plan /\ req'[u].trip = req[u].trip
    BY <2>1, Continues, ContinuesAlone
  <2> QED
    BY <1>2, <1>3, <1>4, <2>1, <2>4, <2>5, PlanTold
<1>5. CASE ~ok(p) /\ req[u].op = "createPlan"
  <2>1. /\ failures' = failures + 1 /\ Done(u) /\ UNCHANGED Tables /\ owed' = owed /\ undercut' = undercut
    BY <1>1, <1>5 DEF histVars, Tables
  <2>2. Alone(u) /\ Proceeds(u)
    BY <2>1, FinishesAlone
  <2>3. Settled'
    BY <2>1, <2>2, QuietSettles DEF ToldInv, Alone, Inv, TypeOK
  <2>4. Created'
    BY <2>1, <2>2, QuietCreated DEF ToldInv, Tables
  <2> QED
    BY <2>2, <2>3, <2>4, OnePlanStep DEF ToldInv, Proceeds
<1>6. CASE ~ok(p) /\ req[u].op # "createPlan"
  BY <1>1, <1>3, <1>6, NoWriteTold
<1> QED
  BY <1>4, <1>5, <1>6

\* A step under which no other request works on the plan of u, unless it undercuts that one.
LEMMA Undercuts ==
  ASSUME Inv, OnePlan, NEW u \in Users, NEW p \in req[u].plan, Take(u)
  PROVE  /\ Ledger /\ failures' = failures /\ StaysUndercut
         /\ \A v \in Users \ {u} : p \in req[v].plan => undercut'
<1>1. ASSUME NEW v \in Users \ {u}, p \in req[v].plan
      PROVE  undercut'
  <2>1. req[v].plan = {p} /\ req[u].plan = {p}
    BY <1>1 DEF OnePlan
  <2> QED
    BY <2>1 DEF Take
<1> QED
  BY <1>1 DEF Take, Served, StaysUndercut

LEMMA RemovePlanPassengerTold ==
  ASSUME Inv, Inv', ToldInv, NEW u \in Users, RemovePlanPassenger(u)
  PROVE  ToldInv'
<1>0. req[u].at = "write"
  BY DEF RemovePlanPassenger, Busy
<1>1. PICK v \in req[u].user, p \in req[u].plan :
        IF v \in plan[p].pax
        THEN /\ plan' = [plan EXCEPT ![p].pax = @ \ {v}]
             /\ Continue(u, "read") /\ UNCHANGED <<accounts, trip>> /\ Take(u)
        ELSE NoWrite(u)
  BY DEF RemovePlanPassenger
<1>2. p \in Plans /\ plan[p] \in Plan
  BY Fields DEF Inv, TypeOK
<1>3. CASE v \in plan[p].pax
  <2>1. /\ plan' = [plan EXCEPT ![p].pax = plan[p].pax \ {v}] /\ Continue(u, "read")
        /\ accounts' = accounts /\ trip' = trip /\ Take(u)
    BY <1>1, <1>3
  <2> DEFINE row == [plan[p] EXCEPT !.pax = plan[p].pax \ {v}]
  <2>2. /\ row.state = plan[p].state /\ row.trip = plan[p].trip /\ row.pax = plan[p].pax \ {v}
        /\ row.rev = plan[p].rev /\ row.creator = plan[p].creator /\ row.mode = plan[p].mode
        /\ row.named = plan[p].named
    BY <1>2 DEF Plan
  <2>3. plan' = [plan EXCEPT ![p] = row]
    BY <2>1
  <2> HIDE DEF row
  <2>4. plan'[p] = row /\ \A q \in Plans \ {p} : plan'[q] = plan[q]
    BY <1>2, <2>3 DEF Inv, TypeOK
  <2>5. \A q \in Plans : /\ plan'[q].state = plan[q].state /\ plan'[q].trip = plan[q].trip
                         /\ plan'[q].rev = plan[q].rev /\ plan'[q].creator = plan[q].creator
                         /\ plan'[q].pax \subseteq plan[q].pax
                         /\ plan'[q].mode = plan[q].mode /\ plan'[q].named = plan[q].named
    BY <2>2, <2>4
  <2>6. /\ Ledger /\ failures' = failures /\ StaysUndercut
        /\ \A w \in Users \ {u} : p \in req[w].plan => undercut'
    BY <2>1, Undercuts DEF ToldInv
  <2>7. ASSUME NEW w \in Users, NEW q \in Plans, CanViewPlan(w, q)' PROVE CanViewPlan(w, q)
    <3>1. LivePlan(q) /\ w \in accounts
      BY <2>1, <2>5, <2>7 DEF CanViewPlan, LivePlan
    <3>2. NotHidden(w, q)' => NotHidden(w, q)
      BY <2>5 DEF NotHidden
    <3> QED
      BY <2>1, <2>5, <2>7, <3>1, <3>2, LessView
  <2>8. \A w \in Users \ {u}, q \in Plans : q \in req[w].plan /\ LivePlan(q) /\ ~undercut' =>
           LivePlan(q)' /\ plan'[q] = plan[q]
    BY <2>4, <2>6 DEF LivePlan
  <2>9. \A q \in Plans : LivePlan(q)' => LivePlan(q)
    BY <2>5 DEF LivePlan
  <2>10. Alone(u) /\ Proceeds(u)
    BY <2>1, ContinuesAlone
  <2>11. \A w \in Users \ {u}, q \in Plans : q \in req[w].plan /\ LivePlan(q) /\ ~undercut' =>
            \/ /\ LivePlan(q)' /\ plan'[q].trip = plan[q].trip
               /\ plan[q].pax \cap accounts' \subseteq plan'[q].pax
            \/ trip'[plan[q].trip].state # "live"
    BY <2>8
  <2>12. \A q \in Plans :
            /\ LivePlan(q)' => LivePlan(q) /\ plan'[q].trip = plan[q].trip /\ plan'[q].rev = plan[q].rev
            /\ plan'[q].state = "unborn" => plan[q].state = "unborn"
    BY <2>5, <2>9
  <2> QED
    BY <1>0, <2>1, <2>6, <2>7, <2>10, <2>11, <2>12, HidingTold
<1>4. CASE v \notin plan[p].pax
  BY <1>0, <1>1, <1>4, NoWriteTold
<1> QED
  BY <1>3, <1>4

LEMMA DeletePlanTold ==
  ASSUME Inv, Inv', ToldInv, NEW u \in Users, DeletePlan(u)
  PROVE  ToldInv'
<1>1. /\ req[u].at = "write" /\ Alone(u) /\ Proceeds(u) /\ accounts' = accounts /\ trip' = trip /\ Take(u)
  BY FinishesAlone DEF DeletePlan, Busy
<1>2. PICK p \in req[u].plan : plan' = [plan EXCEPT ![p] = IF LivePlan(p) THEN GonePlan ELSE plan[p]]
  BY DEF DeletePlan
<1>3. p \in Plans
  BY Fields DEF Inv
<1>4. /\ plan'[p] = IF LivePlan(p) THEN GonePlan ELSE plan[p]
      /\ \A q \in Plans \ {p} : plan'[q] = plan[q]
  BY <1>2, <1>3 DEF Inv, TypeOK
<1>5. GonePlan.state = "gone"
  BY DEF GonePlan
<1>6. /\ Ledger /\ failures' = failures /\ StaysUndercut
      /\ \A w \in Users \ {u} : p \in req[w].plan => undercut'
  BY <1>1, Undercuts DEF ToldInv
<1>7. \A q \in Plans : LivePlan(q)' => LivePlan(q) /\ plan'[q] = plan[q]
  BY <1>4, <1>5 DEF LivePlan
<1>8. ASSUME NEW w \in Users, NEW q \in Plans, CanViewPlan(w, q)' PROVE CanViewPlan(w, q)
  <2>1. plan'[q] = plan[q]
    BY <1>7, <1>8 DEF CanViewPlan
  <2> QED
    BY <1>1, <1>8, <2>1 DEF CanViewPlan, LivePlan, Members, NotHidden
<1>9. \A w \in Users \ {u}, q \in Plans : q \in req[w].plan /\ LivePlan(q) /\ ~undercut' =>
         LivePlan(q)' /\ plan'[q] = plan[q]
  BY <1>4, <1>6 DEF LivePlan
<1>10. \A q \in Plans : plan'[q].state = "unborn" => plan[q].state = "unborn"
  BY <1>4, <1>5
<1>11. \A v \in Users \ {u}, q \in Plans : q \in req[v].plan /\ LivePlan(q) /\ ~undercut' =>
          \/ /\ LivePlan(q)' /\ plan'[q].trip = plan[q].trip
             /\ plan[q].pax \cap accounts' \subseteq plan'[q].pax
          \/ trip'[plan[q].trip].state # "live"
  BY <1>9
<1>12. \A q \in Plans :
          LivePlan(q)' => LivePlan(q) /\ plan'[q].trip = plan[q].trip /\ plan'[q].rev = plan[q].rev
  BY <1>7
<1> QED
  BY <1>1, <1>6, <1>8, <1>10, <1>11, <1>12, HidingTold

\* Opting in or out changes nobody's sight.
LEMMA OptinTold ==
  ASSUME Inv, Inv', ToldInv, NEW u \in Users, req[u].at = "write", Done(u), Write,
         accounts' = accounts, trip' = trip,
         \A p \in Plans : \E V : plan'[p] = [plan[p] EXCEPT !.optin = V]
  PROVE  ToldInv'
<1>1. \A p \in Plans : /\ plan'[p].state = plan[p].state /\ plan'[p].trip = plan[p].trip
                       /\ plan'[p].rev = plan[p].rev /\ plan'[p].creator = plan[p].creator
                       /\ plan'[p].pax = plan[p].pax
                       /\ plan'[p].mode = plan[p].mode /\ plan'[p].named = plan[p].named
  BY DEF Inv, TypeOK, Plan
<1>2. /\ Alone(u) /\ Proceeds(u) /\ Ledger /\ failures' = failures /\ undercut' = undercut
  BY FinishesAlone DEF Write, Served
<1>3. \A q \in Plans : LivePlan(q)' <=> LivePlan(q)
  BY <1>1 DEF LivePlan
<1>4. \A w \in Users, q \in Plans : CanViewPlan(w, q)' => CanViewPlan(w, q)
  BY <1>1, <1>3 DEF CanViewPlan, Members, NotHidden
<1> QED
  BY <1>1, <1>2, <1>3, <1>4, HidingTold DEF StaysUndercut

LEMMA AddPlanAlertOptinTold ==
  ASSUME Inv, Inv', ToldInv, NEW u \in Users, AddPlanAlertOptin(u)
  PROVE  ToldInv'
<1>1. ASSUME NEW p \in Plans PROVE \E V : plan'[p] = [plan[p] EXCEPT !.optin = V]
  <2>1. plan[p] = [plan[p] EXCEPT !.optin = plan[p].optin]
    BY DEF Inv, TypeOK, Plan
  <2>2. \/ plan'[p] = [plan[p] EXCEPT !.optin = plan[p].optin \cup {u}]
        \/ plan'[p] = plan[p]
    BY DEF AddPlanAlertOptin
  <2> QED
    BY <2>1, <2>2
<1> QED
  BY <1>1, OptinTold DEF AddPlanAlertOptin, Busy

LEMMA RemovePlanAlertOptinTold ==
  ASSUME Inv, Inv', ToldInv, NEW u \in Users, RemovePlanAlertOptin(u)
  PROVE  ToldInv'
<1>1. ASSUME NEW p \in Plans PROVE \E V : plan'[p] = [plan[p] EXCEPT !.optin = V]
  <2>1. plan[p] = [plan[p] EXCEPT !.optin = plan[p].optin]
    BY DEF Inv, TypeOK, Plan
  <2>2. \/ plan'[p] = [plan[p] EXCEPT !.optin = plan[p].optin \ {u}]
        \/ plan'[p] = plan[p]
    BY DEF RemovePlanAlertOptin
  <2> QED
    BY <2>1, <2>2
<1> QED
  BY <1>1, OptinTold DEF RemovePlanAlertOptin, Busy

LEMMA MovePlanTold ==
  ASSUME Inv, Inv', ToldInv, NEW u \in Users, MovePlan(u)
  PROVE  ToldInv'
<1>0. req[u].at = "write" /\ req[u].op = "movePlan"
  BY DEF MovePlan, Busy
<1>1. PICK p \in req[u].plan :
        IF LivePlan(p) /\ trip[req[u].trip].state = "live"
        THEN /\ plan' = [plan EXCEPT ![p].trip = req[u].trip]
             /\ Continue(u, "read")
             /\ UNCHANGED <<accounts, trip>> /\ Take(u)
        ELSE NoWrite(u)
  BY DEF MovePlan
<1>2. p \in Plans /\ plan[p] \in Plan
  BY Fields DEF Inv, TypeOK
<1>3. CASE LivePlan(p) /\ trip[req[u].trip].state = "live"
  <2>1. /\ plan' = [plan EXCEPT ![p].trip = req[u].trip] /\ Continue(u, "read")
        /\ accounts' = accounts /\ trip' = trip /\ Take(u)
    BY <1>1, <1>3
  <2> DEFINE row == [plan[p] EXCEPT !.trip = req[u].trip]
  <2>2. row.state = plan[p].state
    BY <1>2 DEF Plan
  <2>3. plan' = [plan EXCEPT ![p] = row]
    BY <2>1
  <2> HIDE DEF row
  <2>4. LivePlan(p)' /\ \A q \in Plans \ {p} : plan'[q] = plan[q]
    BY <1>2, <1>3, <2>2, <2>3 DEF LivePlan, Inv, TypeOK
  <2>5. /\ Ledger /\ failures' = failures /\ StaysUndercut
        /\ \A w \in Users \ {u} : p \in req[w].plan => undercut'
    BY <2>1, Undercuts DEF ToldInv
  <2>6. /\ Alone(u) /\ Proceeds(u) /\ req'[u].at = "read" /\ req'[u].op = "movePlan"
        /\ req'[u].plan = req[u].plan
    BY <1>0, <2>1, Continues, ContinuesAlone
  <2>7. ASSUME NEW w \in Users, NEW q \in Plans, CanViewPlan(w, q)',
               ~CanViewPlan(w, q) \/ plan'[q].rev # plan[q].rev \/ plan'[q].trip # plan[q].trip
        PROVE  Tells(u, w, q)'
    <3>1. CASE q # p
      <4>1. plan'[q] = plan[q]
        BY <2>4, <3>1
      <4>2. CanViewPlan(w, q)
        BY <2>1, <2>7, <4>1 DEF CanViewPlan, LivePlan, Members, NotHidden
      <4> QED
        BY <2>7, <4>1, <4>2
    <3>2. CASE q = p
      <4>1. TellsOfPlan(u, w, q)'
        BY <2>4, <2>6, <3>2 DEF TellsOfPlan
      <4> QED
        BY <4>1 DEF Tells
    <3> QED
      BY <3>1, <3>2
  <2>8. \A w, q : ~Tells(u, w, q)
    BY <1>0, NotYet
  <2>9. \A v \in Users \ {u}, q \in Plans : q \in req[v].plan /\ LivePlan(q) /\ ~undercut' =>
           LivePlan(q)' /\ plan'[q] = plan[q]
    BY <2>4, <2>5 DEF LivePlan
  <2>15. \A v \in Users \ {u}, q \in Plans : q \in req[v].plan /\ LivePlan(q) /\ ~undercut' =>
            \/ /\ LivePlan(q)' /\ plan'[q].trip = plan[q].trip
               /\ plan[q].pax \cap accounts' \subseteq plan'[q].pax
            \/ trip'[plan[q].trip].state # "live"
    BY <2>9
  <2>10. Settled'
    BY <2>1, <2>5, <2>6, <2>7, <2>8, <2>15, WriteSettles DEF ToldInv, Alone
  <2>11. OnePlan'
    BY <2>6, OnePlanStep DEF ToldInv
  <2>12. \A q \in Plans : plan'[q].state = "unborn" => plan[q].state = "unborn"
    BY <2>4 DEF LivePlan
  <2>13. ASSUME NEW v \in Users, NEW q \in Plans, q \in req[v].plan, req'[v].op = "createPlan",
                LivePlan(q)', ~undercut'
         PROVE  LivePlan(q) /\ plan'[q].trip = plan[q].trip
    <3>1. v # u
      BY <2>6, <2>13
    <3>2. q # p
      BY <2>5, <2>13, <3>1
    <3> QED
      BY <2>4, <2>13, <3>2 DEF LivePlan
  <2>14. Created'
    BY <2>6, <2>12, <2>13, <2>5, CreatedStep DEF ToldInv
  <2> QED
    BY <2>10, <2>11, <2>14 DEF ToldInv
<1>4. CASE ~(LivePlan(p) /\ trip[req[u].trip].state = "live")
  BY <1>0, <1>1, <1>4, NoWriteTold
<1> QED
  BY <1>3, <1>4

\* The cascades of a deleted account show nobody a plan: a rule outlives its list.
LEMMA DeletionHides ==
  ASSUME Inv, NEW u \in Users, DeleteUser(u), NEW w \in Users, NEW q \in Plans, CanViewPlan(w, q)'
  PROVE  CanViewPlan(w, q)
<1>1. PICK v \in Users :
           /\ accounts' = accounts \ {v}
           /\ \A t \in Trips :
                /\ trip'[t] \in Trip /\ trip'[t].state = trip[t].state
                /\ trip'[t].creator = IF trip[t].creator = v THEN NoOne ELSE trip[t].creator
                /\ trip'[t].role[v] = "none"
                /\ \A x \in Users \ {v} : trip'[t].role[x] = trip[t].role[x]
           /\ \A p \in Plans :
                /\ plan'[p] \in Plan /\ plan'[p].state = plan[p].state /\ plan'[p].trip = plan[p].trip
                /\ plan'[p].creator = IF plan[p].creator = v THEN NoOne ELSE plan[p].creator
                /\ plan'[p].pax = plan[p].pax \ {v} /\ plan'[p].named = plan[p].named \ {v}
                /\ plan'[p].optin = plan[p].optin \ {v}
                /\ plan'[p].mode = plan[p].mode /\ plan'[p].rev = plan[p].rev
  BY Erased
<1>2. w \in accounts /\ w # v /\ w # NoOne /\ LivePlan(q)
  BY <1>1 DEF CanViewPlan, LivePlan
<1>3. plan[q].trip \in Trips /\ plan'[q].trip = plan[q].trip
  BY <1>1, <1>2 DEF LivePlan, Inv, NothingDangles, Anchored
<1>4. /\ trip'[plan[q].trip].creator = w => trip[plan[q].trip].creator = w
      /\ trip'[plan[q].trip].role[w] # "none" => trip[plan[q].trip].role[w] # "none"
      /\ plan'[q].creator = w => plan[q].creator = w
      /\ w \in plan'[q].pax => w \in plan[q].pax
  BY <1>1, <1>2, <1>3
<1>5. NotHidden(w, q)' => NotHidden(w, q)
  BY <1>1, <1>2 DEF NotHidden
<1> QED
  BY <1>2, <1>3, <1>4, <1>5, LessView

LEMMA DeleteUserTold ==
  ASSUME Inv, Inv', ToldInv, NEW u \in Users, DeleteUser(u)
  PROVE  ToldInv'
<1>1. PICK v \in Users :
           /\ accounts' = accounts \ {v}
           /\ \A t \in Trips :
                /\ trip'[t] \in Trip /\ trip'[t].state = trip[t].state
                /\ trip'[t].creator = IF trip[t].creator = v THEN NoOne ELSE trip[t].creator
                /\ trip'[t].role[v] = "none"
                /\ \A w \in Users \ {v} : trip'[t].role[w] = trip[t].role[w]
           /\ \A p \in Plans :
                /\ plan'[p] \in Plan /\ plan'[p].state = plan[p].state /\ plan'[p].trip = plan[p].trip
                /\ plan'[p].creator = IF plan[p].creator = v THEN NoOne ELSE plan[p].creator
                /\ plan'[p].pax = plan[p].pax \ {v} /\ plan'[p].named = plan[p].named \ {v}
                /\ plan'[p].optin = plan[p].optin \ {v}
                /\ plan'[p].mode = plan[p].mode /\ plan'[p].rev = plan[p].rev
  BY Erased
<1>2. /\ req[u].at = "write" /\ Alone(u) /\ Proceeds(u)
      /\ Ledger /\ failures' = failures /\ undercut' = undercut
  BY FinishesAlone DEF DeleteUser, Busy, Write, Served
<1>3. \A w \in Users, q \in Plans : CanViewPlan(w, q)' => CanViewPlan(w, q)
  BY DeletionHides
<1>4. \A p \in Plans : LivePlan(p)' <=> LivePlan(p)
  BY <1>1 DEF LivePlan
<1>5. \A p \in Plans : plan[p].pax \cap accounts' \subseteq plan'[p].pax
  BY <1>1
<1>6. \A t \in Trips : trip[t].state = "live" => trip'[t].creator \in {trip[t].creator, NoOne}
  BY <1>1
<1>7. \A p \in Plans : /\ plan'[p].state = plan[p].state /\ plan'[p].trip = plan[p].trip
                       /\ plan'[p].rev = plan[p].rev
  BY <1>1
<1>8. StaysUndercut
  BY <1>2 DEF StaysUndercut
<1> QED
  BY <1>2, <1>3, <1>4, <1>5, <1>6, <1>7, <1>8, HidingTold

LEMMA WritesTold ==
  ASSUME Inv, Inv', ToldInv, NEW u \in Users, WriteStep(u)
  PROVE  ToldInv'
  BY CreateTripTold, EditTripTold, DeleteTripTold, AddTripMemberTold, RemoveTripMemberTold,
     CreatePlanTold, AddNextPassengerTold, AddPlanPassengerTold, RemovePlanPassengerTold,
     SetPlanVisibilityTold, UpdatePlanTold, DeletePlanTold, MovePlanTold,
     AddPlanAlertOptinTold, RemovePlanAlertOptinTold, DeleteUserTold
  DEF WriteStep

-----------------------------------------------------------------------------
(* The asking and the telling, and the invariant                            *)

\* A step between the writes: the next call of a request, or its end.
LEMMA QuietTold ==
  ASSUME Inv, ToldInv, NEW u \in Users, UNCHANGED Tables, owed' \subseteq owed,
         failures' = 0 => failures = 0, undercut' = undercut, Alone(u), Proceeds(u),
         \A w \in Users, q \in Plans :
            <<w, q>> \in owed' /\ CanViewPlan(w, q) /\ failures' = 0 /\ Tells(u, w, q) => Tells(u, w, q)'
  PROVE  ToldInv'
<1>1. \A d \in owed' : /\ d[1] \in Users /\ d[2] \in Plans /\ d = <<d[1], d[2]>>
                       /\ CanViewPlan(d[1], d[2])
  BY DEF ToldInv, Settled, Inv, TypeOK
<1>2. \A d \in owed' : failures' = 0 /\ Tells(u, d[1], d[2]) => Tells(u, d[1], d[2])'
  BY <1>1
<1>3. Settled'
  BY <1>2, QuietSettles DEF ToldInv, Alone
<1>4. Created'
  BY QuietCreated DEF ToldInv, Tables
<1>5. OnePlan'
  BY OnePlanStep DEF ToldInv, Proceeds
<1> QED
  BY <1>3, <1>4, <1>5 DEF ToldInv

\* No new request is about two plans, and one that creates a plan has none yet.
Fresh(r) == r.plan = {} \/ (r.op # "createPlan" /\ \E p : r.plan = {p})

LEMMA AskTold ==
  ASSUME Inv, ToldInv, NEW u \in Users, NEW r, Ask(u, r), Fresh(r)
  PROVE  ToldInv'
<1>1. /\ req[u] = Idle /\ req[u].at = "end" /\ UNCHANGED Tables /\ failures' = failures
      /\ owed' = owed /\ undercut' = undercut
  BY DEF Ask, Idle, Tables, histVars
<1>2. Alone(u) /\ req'[u] = r
  BY DEF Ask, Alone, Inv, TypeOK
<1>3. \A w, q : ~Tells(u, w, q)
  BY <1>1, NotYet
<1>4. Settled'
  BY <1>1, <1>2, <1>3, QuietSettles DEF ToldInv, Alone
<1>5. OnePlan'
  BY <1>2, OnePlanStep DEF ToldInv, Fresh
<1>6. Created'
  <2> SUFFICES ASSUME NEW v \in Users, req'[v].op = "createPlan", NEW q \in req'[v].plan
               PROVE  /\ plan'[q].state # "unborn"
                      /\ LivePlan(q)' /\ ~undercut' => req'[v].trip = plan'[q].trip
    BY DEF Created
  <2>1. v # u
    BY <1>2 DEF Fresh
  <2>2. req'[v] = req[v]
    BY <1>2, <2>1 DEF Alone
  <2> QED
    BY <1>1, <2>2 DEF ToldInv, Created, LivePlan, Tables
<1> QED
  BY <1>4, <1>5, <1>6 DEF ToldInv

LEMMA AskPlanTold ==
  ASSUME Inv, ToldInv, NEW u \in Users, NEW p \in Plans, AskPlan(u, p)
  PROVE  ToldInv'
<1> DEFINE r == [Idle EXCEPT !.plan = {p}, !.at = "write"]
           update == [r EXCEPT !.op = "updatePlan"]
           delete == [r EXCEPT !.op = "deletePlan", !.at = "read"]
           add(v) == [r EXCEPT !.op = "addPassenger", !.user = {v}]
           remove(v) == [r EXCEPT !.op = "removePassenger", !.user = {v}]
           rule(n) == [r EXCEPT !.op = "setVisibility", !.mode = n.mode, !.named = n.named]
           move(t) == [r EXCEPT !.op = "movePlan", !.trip = t, !.src = plan[p].trip]
<1>1. /\ Fresh(update) /\ Fresh(delete) /\ \A x : Fresh(add(x)) /\ Fresh(remove(x))
      /\ \A x : Fresh(rule(x)) /\ Fresh(move(x))
  BY DEF Idle, Fresh
<1>2. \/ Ask(u, update) \/ Ask(u, delete) \/ \E v \in Users : Ask(u, add(v))
      \/ \E v \in Users : Ask(u, remove(v)) \/ \E n \in Rules : Ask(u, rule(n))
      \/ \E t \in Trips : Ask(u, move(t))
  BY Zenon DEF AskPlan
<1> HIDE DEF r, update, delete, add, remove, rule, move
<1>3. PICK q : Ask(u, q) /\ Fresh(q)
  BY <1>1, <1>2
<1> QED
  BY <1>3, AskTold

LEMMA AskTripTold ==
  ASSUME Inv, ToldInv, NEW u \in Users, NEW t \in Trips, AskTrip(u, t)
  PROVE  ToldInv'
<1> DEFINE r == [Idle EXCEPT !.trip = t, !.at = "write"]
           edit == [r EXCEPT !.op = "editTrip"]
           create(V, n) == [r EXCEPT !.op = "createPlan", !.user = V, !.mode = n.mode, !.named = n.named]
           delete == [r EXCEPT !.op = "deleteTrip", !.at = "members"]
           add(v, o) == [Idle EXCEPT !.op = "addMember", !.trip = t, !.at = "write",
                                     !.user = {v}, !.role = o]
           remove(v) == [r EXCEPT !.op = "removeMember", !.user = {v}]
<1>1. /\ Fresh(edit) /\ Fresh(delete) /\ \A x, y : Fresh(create(x, y)) /\ Fresh(add(x, y))
      /\ \A x : Fresh(remove(x))
  BY DEF Idle, Fresh
<1>2. \/ Ask(u, edit) \/ Ask(u, delete)
      \/ \E V \in PassengerLists, n \in Rules : Ask(u, create(V, n))
      \/ \E v \in Users, o \in Roles \ {"none"} : Ask(u, add(v, o))
      \/ \E v \in Users : Ask(u, remove(v))
  BY Zenon DEF AskTrip, AskMember
<1> HIDE DEF r, edit, create, delete, add, remove
<1>3. PICK q : Ask(u, q) /\ Fresh(q)
  BY <1>1, <1>2
<1> QED
  BY <1>3, AskTold

LEMMA AskOtherTold ==
  ASSUME Inv, ToldInv, NEW u \in Users, AskOther(u)
  PROVE  ToldInv'
<1> DEFINE r == [Idle EXCEPT !.at = "write"]
           create == [r EXCEPT !.op = "createTrip"]
           optIn(x) == [r EXCEPT !.op = "optIn", !.plan = {x}]
           optOut(x) == [r EXCEPT !.op = "optOut", !.plan = {x}]
           delete(v) == [r EXCEPT !.op = "deleteUser", !.user = {v}]
<1>1. Fresh(create) /\ \A x : Fresh(optIn(x)) /\ Fresh(optOut(x)) /\ Fresh(delete(x))
  BY DEF Idle, Fresh
<1>2. \/ Ask(u, create)
      \/ \E x \in Plans : Ask(u, optIn(x))
      \/ \E x \in Plans : Ask(u, optOut(x))
      \/ \E v \in Users : Ask(u, delete(v))
  BY Zenon DEF AskOther
<1> HIDE DEF r, create, optIn, optOut, delete
<1>3. PICK q : Ask(u, q) /\ Fresh(q)
  BY <1>1, <1>2
<1> QED
  BY <1>3, AskTold

LEMMA ReadPlanTold ==
  ASSUME Inv, ToldInv, NEW u \in Users, ReadPlan(u)
  PROVE  ToldInv'
<1>1. PICK p \in req[u].plan :
        IF LivePlan(p)
        THEN req' = [req EXCEPT ![u].at = "audience",
                                ![u].trip = IF req[u].op = "createPlan" THEN @ ELSE plan[p].trip]
        ELSE Done(u)
  BY DEF ReadPlan
<1>2. /\ req[u].at = "read" /\ UNCHANGED Tables /\ owed' = owed /\ failures' = failures
      /\ undercut' = undercut
  BY DEF ReadPlan, Served, Tables, histVars
<1>3. \A q \in req[u].plan : q = p
  BY DEF ToldInv, OnePlan
<1>4. CASE LivePlan(p)
  <2> DEFINE t == IF req[u].op = "createPlan" THEN req[u].trip ELSE plan[p].trip
             asks == [req[u] EXCEPT !.at = "audience", !.trip = t]
  <2>1. req[u] \in Request
    BY DEF Inv, TypeOK
  <2> HIDE DEF t
  <2>2. asks.at = "audience" /\ asks.trip = t /\ asks.op = req[u].op /\ asks.plan = req[u].plan
    BY <2>1 DEF Request
  <2>3. req' = [req EXCEPT ![u] = asks]
    <3>1. [req EXCEPT ![u].at = "audience"][u].op = req[u].op
          /\ [req EXCEPT ![u].at = "audience"][u].trip = req[u].trip
      BY <2>1 DEF Inv, TypeOK, Request
    <3> QED
      BY <1>1, <1>4, <3>1 DEF t, Inv, TypeOK
  <2> HIDE DEF asks
  <2>4. /\ Alone(u) /\ req'[u].at = "audience" /\ req'[u].trip = t /\ req'[u].plan = req[u].plan
        /\ req'[u].op = req[u].op
    BY <2>2, <2>3 DEF Alone, Inv, TypeOK
  <2>5. Proceeds(u)
    BY <2>4 DEF Proceeds, t
  <2>6. ASSUME NEW w \in Users, NEW q \in Plans, Tells(u, w, q) PROVE Tells(u, w, q)'
    <3>1. TellsOfPlan(u, w, q)
      BY <1>2, <2>6 DEF Tells, TellsOfTrip
    <3>2. TellsOfPlan(u, w, q)'
      BY <1>2, <1>3, <2>4, <3>1 DEF TellsOfPlan, LivePlan, Tables, t
    <3> QED
      BY <3>2 DEF Tells
  <2> QED
    BY <1>2, <2>4, <2>5, <2>6, QuietTold
<1>5. CASE ~LivePlan(p)
  <2>1. Alone(u) /\ Proceeds(u)
    BY <1>1, <1>5, FinishesAlone
  <2>2. \A w, q : ~Tells(u, w, q)
    BY <1>2, <1>3, <1>5 DEF Tells, TellsOfPlan, TellsOfTrip
  <2> QED
    BY <1>2, <2>1, <2>2, QuietTold
<1> QED
  BY <1>4, <1>5

\* The fields of a request that looked its audience up.
LEMMA Listed ==
  ASSUME Inv, NEW u \in Users, NEW at, NEW V, req' = [req EXCEPT ![u].at = at, ![u].to = V]
  PROVE  /\ Alone(u) /\ Proceeds(u) /\ req'[u].at = at /\ req'[u].to = V
         /\ req'[u].trip = req[u].trip /\ req'[u].plan = req[u].plan
<1> DEFINE asks == [req[u] EXCEPT !.at = at, !.to = V]
<1>1. /\ asks.at = at /\ asks.to = V /\ asks.trip = req[u].trip /\ asks.op = req[u].op
      /\ asks.plan = req[u].plan
  BY DEF Inv, TypeOK, Request
<1>2. req' = [req EXCEPT ![u] = asks]
  BY DEF Inv, TypeOK
<1> HIDE DEF asks
<1> QED
  BY <1>1, <1>2 DEF Alone, Proceeds, Inv, TypeOK

LEMMA PlanAudienceTold ==
  ASSUME Inv, ToldInv, NEW u \in Users, PlanAudience(u)
  PROVE  ToldInv'
<1>1. PICK p \in req[u].plan :
        req' = [req EXCEPT ![u].at = "send", ![u].to = VisiblePlanUserIDs(p)]
  BY DEF PlanAudience
<1>2. /\ req[u].at = "audience" /\ UNCHANGED Tables /\ owed' = owed /\ failures' = failures
      /\ undercut' = undercut
  BY DEF PlanAudience, Served, Tables, histVars
<1>3. \A q \in req[u].plan : q = p
  BY DEF ToldInv, OnePlan
<1>4. /\ Alone(u) /\ Proceeds(u) /\ req'[u].at = "send" /\ req'[u].to = VisiblePlanUserIDs(p)
      /\ req'[u].trip = req[u].trip /\ req'[u].plan = req[u].plan
  BY <1>1, Listed
<1>5. ASSUME NEW w \in Users, NEW q \in Plans, CanViewPlan(w, q), Tells(u, w, q)
      PROVE  Tells(u, w, q)'
  <2>1. TellsOfPlan(u, w, q)
    BY <1>2, <1>5 DEF Tells, TellsOfTrip
  <2>2. /\ LivePlan(p) /\ plan[p].trip = plan[q].trip /\ (q = p \/ w \in plan[p].pax)
        /\ req[u].trip = plan[p].trip
    BY <1>2, <1>3, <2>1 DEF TellsOfPlan
  <2>3. w \in VisiblePlanUserIDs(p)
    <3>1. w \in accounts
      BY <1>5, Seen
    <3> QED
      BY <1>5, <2>2, <3>1 DEF VisiblePlanUserIDs, CanViewPlan
  <2>4. w \in Delivered(req'[u].to)
    BY <1>4, <2>3 DEF Delivered
  <2>5. TellsOfPlan(u, w, q)'
    BY <1>2, <1>4, <2>2, <2>4 DEF TellsOfPlan, LivePlan, Tables, Delivered
  <2> QED
    BY <2>5 DEF Tells
<1> QED
  BY <1>2, <1>4, <1>5, QuietTold

LEMMA TripAudienceTold ==
  ASSUME Inv, ToldInv, NEW u \in Users, TripAudience(u)
  PROVE  ToldInv'
<1>1. /\ req[u].at = "members" /\ UNCHANGED Tables /\ owed' = owed /\ failures' = failures
      /\ undercut' = undercut
  BY DEF TripAudience, Served, Tables, histVars
<1>2. CASE req' = [req EXCEPT ![u].at = "tell", ![u].to = Members(req[u].trip)]
  <2>1. /\ Alone(u) /\ Proceeds(u) /\ req'[u].at = "tell" /\ req'[u].to = Members(req[u].trip)
        /\ req'[u].trip = req[u].trip
    <3>1. PICK V : V = Members(req[u].trip)
      OBVIOUS
    <3>2. req' = [req EXCEPT ![u].at = "tell", ![u].to = V]
      BY <1>2, <3>1
    <3>3. /\ Alone(u) /\ Proceeds(u) /\ req'[u].at = "tell" /\ req'[u].to = V
          /\ req'[u].trip = req[u].trip /\ req'[u].plan = req[u].plan
      BY <3>2, Listed
    <3> QED
      BY <3>1, <3>3
  <2>2. ASSUME NEW w \in Users, NEW q \in Plans, Tells(u, w, q) PROVE Tells(u, w, q)'
    <3>1. TellsOfTrip(u, w, q)
      BY <1>1, <2>2 DEF Tells, TellsOfPlan
    <3>2. req[u].trip = plan[q].trip /\ w \in Members(req[u].trip)
      BY <1>1, <3>1 DEF TellsOfTrip
    <3>3. TellsOfTrip(u, w, q)'
      BY <1>1, <2>1, <3>2 DEF TellsOfTrip, Delivered, Tables
    <3> QED
      BY <3>3 DEF Tells
  <2> QED
    BY <1>1, <2>1, <2>2, QuietTold
<1>3. CASE trip[req[u].trip].state = "gone" /\ Done(u)
  <2>1. Alone(u) /\ Proceeds(u)
    BY <1>3, FinishesAlone
  <2>2. ASSUME NEW w \in Users, NEW q \in Plans, CanViewPlan(w, q), Tells(u, w, q) PROVE FALSE
    <3>1. TellsOfTrip(u, w, q)
      BY <1>1, <2>2 DEF Tells, TellsOfPlan
    <3>2. req[u].trip = plan[q].trip
      BY <3>1 DEF TellsOfTrip
    <3> QED
      BY <1>3, <2>2, <3>2, Seen
  <2> QED
    BY <1>1, <2>1, <2>2, QuietTold
<1> QED
  BY <1>2, <1>3 DEF TripAudience

\* An event pays all that its trip owes to whom it reaches.
LEMMA Paid ==
  ASSUME NEW t, NEW V, Publish(t, V), NEW w, NEW q, <<w, q>> \in owed'
  PROVE  ~(w \in Delivered(V) /\ plan[q].trip = t)
  BY DEF Publish

\* movePlan turns to the trip it took the plan from.
LEMMA TurnsToSource ==
  ASSUME Inv, NEW u \in Users, req[u].op = "movePlan",
         req' = [req EXCEPT ![u].at = "members", ![u].trip = req[u].src]
  PROVE  Alone(u) /\ Proceeds(u)
<1> DEFINE asks == [req[u] EXCEPT !.at = "members", !.trip = req[u].src]
<1>1. asks.op = req[u].op /\ asks.plan = req[u].plan
  BY DEF Inv, TypeOK, Request
<1>2. req' = [req EXCEPT ![u] = asks]
  BY DEF Inv, TypeOK
<1> HIDE DEF asks
<1> QED
  BY <1>1, <1>2 DEF Alone, Proceeds, Inv, TypeOK

LEMMA SendPlanEventTold ==
  ASSUME Inv, ToldInv, NEW u \in Users, SendPlanEvent(u)
  PROVE  ToldInv'
<1>1. /\ req[u].at = "send" /\ Publish(req[u].trip, req[u].to) /\ failures' = failures
  BY DEF SendPlanEvent, Served
<1>2. UNCHANGED Tables /\ undercut' = undercut /\ owed' \subseteq owed
  BY <1>1 DEF Publish, Tables
<1>3. Alone(u) /\ Proceeds(u)
  BY ContinuesAlone, FinishesAlone, TurnsToSource DEF SendPlanEvent
<1>4. ASSUME NEW w \in Users, NEW q \in Plans, <<w, q>> \in owed', Tells(u, w, q) PROVE FALSE
  <2>1. TellsOfPlan(u, w, q)
    BY <1>1, <1>4 DEF Tells, TellsOfTrip
  <2>2. req[u].trip = plan[q].trip /\ w \in Delivered(req[u].to)
    BY <1>1, <2>1 DEF TellsOfPlan
  <2> QED
    BY <1>1, <1>4, <2>2, Paid
<1> QED
  BY <1>1, <1>2, <1>3, <1>4, QuietTold

LEMMA SendTripEventTold ==
  ASSUME Inv, ToldInv, NEW u \in Users, SendTripEvent(u)
  PROVE  ToldInv'
<1>1. /\ req[u].at = "tell" /\ Publish(req[u].trip, req[u].to) /\ failures' = failures
  BY DEF SendTripEvent, Served
<1>2. UNCHANGED Tables /\ undercut' = undercut /\ owed' \subseteq owed
  BY <1>1 DEF Publish, Tables
<1>3. Alone(u) /\ Proceeds(u)
  BY ContinuesAlone, FinishesAlone DEF SendTripEvent
<1>4. ASSUME NEW w \in Users, NEW q \in Plans, <<w, q>> \in owed', Tells(u, w, q) PROVE FALSE
  <2>1. TellsOfTrip(u, w, q)
    BY <1>1, <1>4 DEF Tells, TellsOfPlan
  <2>2. req[u].trip = plan[q].trip /\ w \in Delivered(req[u].to)
    BY <1>1, <2>1 DEF TellsOfTrip
  <2> QED
    BY <1>1, <1>4, <2>2, Paid
<1> QED
  BY <1>1, <1>2, <1>3, <1>4, QuietTold

LEMMA FailTold ==
  ASSUME Inv, ToldInv, NEW u \in Users, Fail(u)
  PROVE  ToldInv'
<1>1. /\ failures' = failures + 1 /\ failures' # 0 /\ UNCHANGED Tables /\ owed' = owed
      /\ undercut' = undercut
  BY DEF Fail, Tables, histVars, Inv, TypeOK
<1>2. Alone(u) /\ Proceeds(u)
  BY ContinuesAlone, FinishesAlone, TurnsToSource DEF Fail
<1> QED
  BY <1>1, <1>2, QuietTold

LEMMA InitTold == Init => ToldInv
<1> SUFFICES ASSUME Init PROVE ToldInv
  OBVIOUS
<1>1. \A v \in Users : req[v].plan = {}
  BY DEF Init, Idle
<1> QED
  BY <1>1 DEF Init, ToldInv, OnePlan, Created, Settled

LEMMA StepTold == Inv /\ Inv' /\ ToldInv /\ [Next]_vars => ToldInv'
<1> SUFFICES ASSUME Inv, Inv', ToldInv, [Next]_vars PROVE ToldInv'
  OBVIOUS
<1>1. ASSUME NEW u \in Users, AskAnything(u) PROVE ToldInv'
  BY <1>1, AskPlanTold, AskTripTold, AskOtherTold DEF AskAnything
<1>2. ASSUME NEW u \in Users, Prepare(u) PROVE ToldInv'
  BY <1>2, WritesTold, ReadPlanTold, PlanAudienceTold, TripAudienceTold, FailTold DEF Prepare
<1>3. ASSUME NEW u \in Users, Send(u) PROVE ToldInv'
  BY <1>3, SendPlanEventTold, SendTripEventTold DEF Send
<1>4. CASE UNCHANGED vars
  <2>1. UNCHANGED <<accounts, trip, plan, req, failures, owed, undercut>>
    BY <1>4 DEF vars
  <2>2. UNCHANGED <<OnePlan, Created, Settled>>
    BY <2>1 DEF OnePlan, Created, Settled, Tells, TellsOfPlan, TellsOfTrip, CanViewPlan, LivePlan,
                Members, NotHidden, Delivered
  <2> QED
    BY <2>2 DEF ToldInv
<1> QED
  BY <1>1, <1>2, <1>3, <1>4 DEF Next

-----------------------------------------------------------------------------
(* The results                                                              *)

\* Every write, by whatever request, leaves well-formed rows and requests.
THEOREM TypeCorrect == Spec => []TypeOK
<1>1. Inv => TypeOK
  BY DEF Inv
<1> QED
  BY <1>1, Invariant, PTL

\* However requests and deletions interleave, no row refers to one that is gone.
THEOREM ReferencesHold == Spec => []NothingDangles
<1>1. Inv => NothingDangles
  BY DEF Inv
<1> QED
  BY <1>1, Invariant, PTL

\* The predicate for one user and the query for all agree: a viewer is in the audience.
THEOREM AudienceCoversViewers == Spec => []ViewersAreTold
<1>1. Inv => ViewersAreTold
  BY DEF ViewersAreTold, CanViewPlan, VisiblePlanUserIDs, Members
<1> QED
  BY <1>1, Invariant, PTL

\* Nobody is left in the dark: when every request has ended, none failed, and no plan or
\* passenger was taken away under a request at work, everybody who sees a plan was sent an event
\* after the last change that showed it to him or altered it.
THEOREM DebtsSettled == Spec => []EveryoneTold
<1>1. Inv /\ ToldInv => EveryoneTold
  <2> SUFFICES ASSUME Inv, ToldInv, \A u \in Users : req[u] = Idle, failures = 0, ~undercut,
                      NEW d \in owed
               PROVE  FALSE
    BY DEF EveryoneTold
  <2>1. PICK v \in Users : Tells(v, d[1], d[2])
    BY DEF ToldInv, Settled
  <2>2. req[v].at = "end"
    BY DEF Idle
  <2> QED
    BY <2>1, <2>2, NotYet
<1> QED
  BY <1>1, InitInv, StepInv, InitTold, StepTold, PTL DEF Spec

\* Who changes a role in one step: requests about members, and deletions.
LEMMA RoleSteps ==
  ASSUME Inv, NEW u \in Users, WriteStep(u), NEW t \in Trips, NEW v \in Users,
         trip[t].role[v] \in {"editor", "owner"}, trip'[t].role[v] # trip[t].role[v]
  PROVE  req[u].at = "write" /\ req[u].op \in {"addMember", "removeMember", "deleteTrip", "deleteUser"}
<1>1. CASE trip' = trip
  BY <1>1
<1>2. CASE CreateTrip(u)
  <2>1. trip' = trip \/ \E s \in Trips : trip[s].state = "unborn" /\ \E row : trip' = [trip EXCEPT ![s] = row]
    BY <1>2 DEF CreateTrip, NoWrite
  <2>2. trip[t].state = "live"
    BY DEF Inv, NothingDangles, Anchored
  <2> QED
    BY <2>1, <2>2 DEF Inv, TypeOK
<1>3. CASE DeleteTrip(u) \/ AddTripMember(u) \/ RemoveTripMember(u) \/ DeleteUser(u)
  BY <1>3 DEF DeleteTrip, AddTripMember, RemoveTripMember, DeleteUser, Busy
<1>4. ASSUME NEW w \in Users, NEW p \in Plans, LivePlan(p), InsertPassenger(w, p) PROVE FALSE
  <2> DEFINE s == plan[p].trip
             o == IF trip[s].role[w] = "none" /\ w \notin plan[p].pax THEN "viewer" ELSE trip[s].role[w]
  <2>1. s \in Trips /\ trip \in [Trips -> Trip]
    BY <1>4, LiveRow DEF Inv, TypeOK
  <2>2. trip' = [trip EXCEPT ![s].role[w] = o]
    BY <1>4 DEF InsertPassenger
  <2>3. o \in Roles /\ (trip[s].role[w] # "none" => o = trip[s].role[w])
    BY <2>1 DEF Trip, Roles
  <2> HIDE DEF s, o
  <2> QED
    BY <2>1, <2>2, <2>3, RoleWrite
<1>5. CASE AddNextPassenger(u) \/ AddPlanPassenger(u)
  <2>1. trip' = trip \/ \E w \in req[u].user, p \in req[u].plan : LivePlan(p) /\ InsertPassenger(w, p)
    BY <1>5 DEF AddNextPassenger, AddPlanPassenger, NoWrite
  <2> QED
    BY <1>1, <1>4, <2>1, Fields DEF Inv
<1>6. CASE EditTrip(u) \/ CreatePlan(u) \/ RemovePlanPassenger(u) \/ SetPlanVisibility(u)
           \/ UpdatePlan(u) \/ DeletePlan(u) \/ MovePlan(u) \/ AddPlanAlertOptin(u)
           \/ RemovePlanAlertOptin(u)
  BY <1>1, <1>6 DEF EditTrip, CreatePlan, RemovePlanPassenger, SetPlanVisibility, UpdatePlan,
                    DeletePlan, MovePlan, AddPlanAlertOptin, RemovePlanAlertOptin, NoWrite
<1> QED
  BY <1>2, <1>3, <1>5, <1>6 DEF WriteStep

\* The tables change by the writes of one request at a time.
LEMMA OneWriter ==
  ASSUME Next, ~UNCHANGED Tables
  PROVE  \E w \in Users : WriteStep(w)
<1>1. ASSUME NEW w \in Users, AskAnything(w) PROVE FALSE
  BY <1>1 DEF AskAnything, AskPlan, AskTrip, AskMember, AskOther, Ask, Tables
<1>2. ASSUME NEW w \in Users, Prepare(w) PROVE WriteStep(w)
  BY <1>2 DEF Prepare, ReadPlan, PlanAudience, TripAudience, Fail, Tables
<1>3. ASSUME NEW w \in Users, Send(w) PROVE FALSE
  BY <1>3 DEF Send, SendPlanEvent, SendTripEvent, Publish, Tables
<1> QED
  BY <1>1, <1>2, <1>3 DEF Next

\* However many passengers are added, and wherever their plans are, none loses a role.
THEOREM RolesSafe == Spec => PassengersKeepRole
<1> DEFINE Kept == \A t \in Trips, v \in Users :
          trip[t].role[v] \in {"editor", "owner"} /\ trip'[t].role[v] # trip[t].role[v]
          => \E u \in Users : /\ req[u].at = "write"
                             /\ req[u].op \in {"addMember", "removeMember", "deleteTrip", "deleteUser"}
<1>1. Inv /\ [Next]_vars => [Kept]_trip
  <2> SUFFICES ASSUME Inv, Next, trip' # trip PROVE Kept
    BY DEF vars
  <2>1. PICK u \in Users : WriteStep(u)
    BY OneWriter DEF Tables
  <2> QED
    BY <2>1, RoleSteps
<1> QED
  BY <1>1, Invariant, PTL DEF Spec, PassengersKeepRole

-----------------------------------------------------------------------------
(* Who comes to see a plan                                                  *)

\* Request w is meant to show plan p to user u.
Grants(w, u, p) ==
    \/ req[w].op \in {"createPlan", "addMember", "addPassenger"} /\ u \in req[w].user
    \/ req[w].op \in {"createPlan", "movePlan", "setVisibility"} /\ p \in req[w].plan

\* A plan whose row and whose trip are left alone is seen by nobody new.
LEMMA Unseen ==
  ASSUME Inv, NEW u \in Users, NEW p \in Plans, LivePlan(p), accounts' \subseteq accounts,
         plan'[p] = plan[p], trip'[plan[p].trip] = trip[plan[p].trip], CanViewPlan(u, p)'
  PROVE  CanViewPlan(u, p)
<1>1. u \in accounts
  BY DEF CanViewPlan
<1>2. NotHidden(u, p)' => NotHidden(u, p)
  BY DEF NotHidden
<1> QED
  BY <1>1, <1>2, LessView

\* Nor is one whose row loses passengers or opt-ins, or gets other contents.
LEMMA RowHides ==
  ASSUME Inv, NEW u \in Users, NEW p \in Plans, LivePlan(p), accounts' = accounts, trip' = trip,
         plan'[p].trip = plan[p].trip, plan'[p].creator = plan[p].creator,
         plan'[p].pax \subseteq plan[p].pax, plan'[p].mode = plan[p].mode,
         plan'[p].named = plan[p].named, CanViewPlan(u, p)'
  PROVE  CanViewPlan(u, p)
<1>1. u \in accounts
  BY DEF CanViewPlan
<1>2. NotHidden(u, p)' => NotHidden(u, p)
  BY DEF NotHidden
<1> QED
  BY <1>1, <1>2, LessView

\* The insert of a passenger shows plans to him alone: this one, and those of its trip.
LEMMA InsertShows ==
  ASSUME Inv, NEW p \in Plans, NEW v \in Users, LivePlan(p), InsertPassenger(v, p),
         accounts' = accounts, NEW u \in Users, NEW q \in Plans, LivePlan(q),
         CanViewPlan(u, q)', ~CanViewPlan(u, q)
  PROVE  u = v
<1> SUFFICES ASSUME u # v PROVE FALSE
  OBVIOUS
<1>1. /\ plan'[p].trip = plan[p].trip /\ plan'[p].pax = plan[p].pax \cup {v}
      /\ \A r \in Plans \ {p} : plan'[r] = plan[r]
      /\ \A t \in Trips : trip'[t].creator = trip[t].creator
      /\ \A w \in Users, t \in Trips : trip'[t].role[w] # "none" /\ trip[t].role[w] = "none" => w = v
      /\ plan'[p].creator = plan[p].creator /\ plan'[p].mode = plan[p].mode
      /\ plan'[p].named = plan[p].named
  BY Inserted
<1>2. u \in accounts /\ plan[q].trip \in Trips
  BY LiveRow DEF CanViewPlan
<1>3. /\ plan'[q].trip = plan[q].trip /\ plan'[q].creator = plan[q].creator
      /\ plan'[q].mode = plan[q].mode /\ plan'[q].named = plan[q].named
      /\ u \in plan'[q].pax => u \in plan[q].pax
  BY <1>1
<1>4. NotHidden(u, q)' => NotHidden(u, q)
  BY <1>3 DEF NotHidden
<1> QED
  BY <1>1, <1>2, <1>3, <1>4, LessView

LEMMA TripsShow ==
  ASSUME Inv, Inv', NEW w \in Users, NEW u \in Users, NEW p \in Plans,
         CreateTrip(w) \/ EditTrip(w) \/ DeleteTrip(w) \/ AddTripMember(w) \/ RemoveTripMember(w),
         LivePlan(p), CanViewPlan(u, p)', ~CanViewPlan(u, p)
  PROVE  Grants(w, u, p)
<1>0. plan[p].trip \in Trips /\ trip[plan[p].trip].state = "live"
  BY LiveRow
<1>1. CASE UNCHANGED <<accounts, trip, plan>>
  BY <1>1, Unseen
<1>2. CASE CreateTrip(w)
  <2>1. \/ UNCHANGED <<accounts, trip, plan>>
        \/ /\ UNCHANGED <<accounts, plan>>
           /\ \E s \in Trips : trip[s].state = "unborn" /\ \E row : trip' = [trip EXCEPT ![s] = row]
    BY <1>2 DEF CreateTrip, NoWrite
  <2>2. UNCHANGED <<accounts, plan>> => trip'[plan[p].trip] # trip[plan[p].trip]
    BY Unseen
  <2> QED
    BY <1>0, <1>1, <2>1, <2>2 DEF Inv, TypeOK
<1>3. CASE EditTrip(w)
  BY <1>1, <1>3 DEF EditTrip
<1>4. CASE DeleteTrip(w)
  <2>1. plan'[p] = IF plan[p].trip = req[w].trip THEN GonePlan ELSE plan[p]
    BY <1>4 DEF DeleteTrip
  <2>2. LivePlan(p)'
    BY DEF CanViewPlan
  <2>3. plan'[p] = plan[p] /\ plan[p].trip # req[w].trip
    BY <2>1, <2>2 DEF LivePlan, GonePlan
  <2>4. trip'[plan[p].trip] = trip[plan[p].trip] /\ accounts' = accounts
    BY <1>0, <1>4, <2>3 DEF DeleteTrip, Inv, TypeOK
  <2> QED
    BY <2>3, <2>4, Unseen
<1>5. ASSUME NEW t \in Trips, NEW v \in Users, NEW o \in Roles, UNCHANGED <<accounts, plan>>,
             WritesRole(t, v, o)
      PROVE  u = v /\ o # "none"
  <2>1. /\ u = v /\ plan[p].trip = t /\ u # trip[t].creator
        /\ trip'[t].creator = trip[t].creator /\ trip'[t].role[v] = o
    BY <1>5, RoleShows
  <2> QED
    BY <1>5, <2>1 DEF CanViewPlan, Members
<1>6. CASE AddTripMember(w)
  <2>1. PICK v \in req[w].user :
          \/ UNCHANGED <<accounts, trip, plan>>
          \/ /\ trip[req[w].trip].state = "live" /\ UNCHANGED <<accounts, plan>>
             /\ trip' = [trip EXCEPT ![req[w].trip].role[v] = req[w].role]
    BY <1>6 DEF AddTripMember, NoWrite
  <2>2. v \in Users /\ req[w].role \in Roles /\ req[w].op = "addMember"
    BY <1>6, Fields DEF Inv, AddTripMember, Busy
  <2>3. req[w].trip \in Trips \/ UNCHANGED <<accounts, trip, plan>>
    BY <2>1 DEF Inv, TypeOK
  <2> QED
    BY <1>1, <1>5, <2>1, <2>2, <2>3 DEF WritesRole, Grants
<1>7. CASE RemoveTripMember(w)
  <2>1. PICK v \in req[w].user :
          \/ UNCHANGED <<accounts, trip, plan>>
          \/ /\ UNCHANGED <<accounts, plan>>
             /\ trip' = [trip EXCEPT ![req[w].trip].role[v] = "none"]
    BY <1>7 DEF RemoveTripMember, NoWrite
  <2>2. v \in Users /\ "none" \in Roles
    BY Fields DEF Inv, Roles
  <2>3. req[w].trip \in Trips \/ UNCHANGED <<accounts, trip, plan>>
    BY <2>1 DEF Inv, TypeOK
  <2> QED
    BY <1>1, <1>5, <2>1, <2>2, <2>3 DEF WritesRole
<1> QED
  BY <1>2, <1>3, <1>4, <1>6, <1>7

LEMMA PassengersShow ==
  ASSUME Inv, Inv', NEW w \in Users, NEW u \in Users, NEW p \in Plans,
         AddNextPassenger(w) \/ AddPlanPassenger(w),
         LivePlan(p), CanViewPlan(u, p)', ~CanViewPlan(u, p)
  PROVE  Grants(w, u, p)
<1>1. PICK v \in req[w].user, q \in req[w].plan :
        \/ UNCHANGED <<accounts, trip, plan>>
        \/ LivePlan(q) /\ InsertPassenger(v, q) /\ accounts' = accounts
  <2>1. CASE AddNextPassenger(w) /\ req[w].user # {}
    BY <2>1 DEF AddNextPassenger
  <2>2. CASE AddNextPassenger(w) /\ req[w].user = {}
    <3>1. UNCHANGED <<accounts, trip, plan>>
      BY <2>2 DEF AddNextPassenger
    <3> QED
      BY <3>1, Unseen
  <2>3. CASE AddPlanPassenger(w)
    BY <2>3 DEF AddPlanPassenger, NoWrite
  <2> QED
    BY <2>1, <2>2, <2>3
<1>2. ~UNCHANGED <<accounts, trip, plan>>
  BY Unseen
<1>3. v \in Users /\ q \in Plans
  BY Fields DEF Inv
<1>4. u = v
  BY <1>1, <1>2, <1>3, InsertShows
<1>5. req[w].op \in {"createPlan", "addPassenger"}
  BY DEF AddNextPassenger, AddPlanPassenger, Busy
<1> QED
  BY <1>4, <1>5 DEF Grants

LEMMA PlansShow ==
  ASSUME Inv, Inv', NEW w \in Users, NEW u \in Users, NEW p \in Plans,
         \/ CreatePlan(w) \/ RemovePlanPassenger(w) \/ SetPlanVisibility(w) \/ UpdatePlan(w)
         \/ DeletePlan(w) \/ MovePlan(w) \/ AddPlanAlertOptin(w) \/ RemovePlanAlertOptin(w),
         LivePlan(p), CanViewPlan(u, p)', ~CanViewPlan(u, p)
  PROVE  Grants(w, u, p)
<1>0. plan[p] \in Plan /\ plan \in [Plans -> Plan]
  BY LiveRow DEF Inv, TypeOK
<1>1. accounts' = accounts /\ trip' = trip
  BY DEF CreatePlan, RemovePlanPassenger, SetPlanVisibility, UpdatePlan, DeletePlan, MovePlan,
         AddPlanAlertOptin, RemovePlanAlertOptin, NoWrite
<1>2. plan'[p] # plan[p]
  BY <1>1, Unseen
<1>3. LivePlan(p)'
  BY DEF CanViewPlan
<1>4. CASE CreatePlan(w)
  <2>1. plan' = plan \/ \E q \in Plans : plan[q].state = "unborn" /\ \E row : plan' = [plan EXCEPT ![q] = row]
    BY <1>4 DEF CreatePlan, NoWrite
  <2> QED
    BY <1>0, <1>2, <2>1 DEF LivePlan
<1>5. CASE RemovePlanPassenger(w)
  <2>1. plan' = plan \/ \E q \in req[w].plan, v \in req[w].user : plan' = [plan EXCEPT ![q].pax = @ \ {v}]
    BY <1>5 DEF RemovePlanPassenger, NoWrite
  <2>2. PICK v : plan'[p] = [plan[p] EXCEPT !.pax = @ \ {v}]
    BY <1>0, <1>2, <2>1
  <2>3. /\ plan'[p].trip = plan[p].trip /\ plan'[p].creator = plan[p].creator
        /\ plan'[p].pax \subseteq plan[p].pax /\ plan'[p].mode = plan[p].mode
        /\ plan'[p].named = plan[p].named
    BY <1>0, <2>2 DEF Plan
  <2> QED
    BY <1>1, <2>3, RowHides
<1>6. CASE SetPlanVisibility(w)
  <2>1. PICK q \in req[w].plan : \A r \in Plans \ {q} : plan'[r] = plan[r]
    BY <1>0, <1>6 DEF SetPlanVisibility, NoWrite
  <2>2. req[w].op \in {"createPlan", "setVisibility"}
    BY <1>6 DEF SetPlanVisibility, Busy
  <2> QED
    BY <1>2, <2>1, <2>2 DEF Grants
<1>7. CASE UpdatePlan(w)
  <2>1. plan' = plan \/ \E q \in req[w].plan : plan' = [plan EXCEPT ![q].rev = @ + 1]
    BY <1>7 DEF UpdatePlan, NoWrite
  <2>2. plan'[p] = [plan[p] EXCEPT !.rev = @ + 1]
    BY <1>0, <1>2, <2>1
  <2>3. /\ plan'[p].trip = plan[p].trip /\ plan'[p].creator = plan[p].creator
        /\ plan'[p].pax = plan[p].pax /\ plan'[p].mode = plan[p].mode
        /\ plan'[p].named = plan[p].named
    BY <1>0, <2>2 DEF Plan
  <2> QED
    BY <1>1, <2>3, RowHides
<1>8. CASE DeletePlan(w)
  <2>1. PICK q \in req[w].plan : plan' = [plan EXCEPT ![q] = IF LivePlan(q) THEN GonePlan ELSE @]
    BY <1>8 DEF DeletePlan
  <2>2. plan'[p] = plan[p] \/ plan'[p] = GonePlan
    BY <1>0, <2>1
  <2> QED
    BY <1>2, <1>3, <2>2 DEF LivePlan, GonePlan
<1>9. CASE MovePlan(w)
  <2>1. PICK q \in req[w].plan : \A r \in Plans \ {q} : plan'[r] = plan[r]
    BY <1>0, <1>9 DEF MovePlan, NoWrite
  <2> QED
    BY <1>2, <1>9, <2>1 DEF Grants, MovePlan, Busy
<1>10. CASE AddPlanAlertOptin(w) \/ RemovePlanAlertOptin(w)
  <2>1. \E V : plan'[p] = [plan[p] EXCEPT !.optin = V]
    BY <1>2, <1>10 DEF AddPlanAlertOptin, RemovePlanAlertOptin
  <2>2. /\ plan'[p].trip = plan[p].trip /\ plan'[p].creator = plan[p].creator
        /\ plan'[p].pax = plan[p].pax /\ plan'[p].mode = plan[p].mode
        /\ plan'[p].named = plan[p].named
    BY <1>0, <2>1 DEF Plan
  <2> QED
    BY <1>1, <2>2, RowHides
<1> QED
  BY <1>4, <1>5, <1>6, <1>7, <1>8, <1>9, <1>10

\* A request that writes has something else to do next.
LEMMA MovesOn ==
  ASSUME Inv, NEW w \in Users, WriteStep(w), ~UNCHANGED Tables
  PROVE  req'[w] # req[w]
<1>0. req \in [Users -> Request] /\ req[w].at \in Steps
  BY Fields DEF Inv, TypeOK
<1>1. CASE CreateTrip(w) \/ CreatePlan(w)
  <2>1. req[w].at = "write" /\ req'[w].at \in {"members", "passengers"}
    BY <1>0, <1>1 DEF CreateTrip, CreatePlan, NoWrite, Busy, Tables, Request
  <2> QED
    BY <2>1
<1>2. CASE AddNextPassenger(w)
  <2>1. PICK v \in req[w].user : req' = [req EXCEPT ![w].user = req[w].user \ {v}] \/ Done(w)
    BY <1>2 DEF AddNextPassenger, Tables
  <2>2. CASE req' = [req EXCEPT ![w].user = req[w].user \ {v}]
    <3>1. req'[w].user = req[w].user \ {v}
      BY <1>0, <2>2 DEF Request
    <3> QED
      BY <3>1
  <2> QED
    BY <1>0, <1>2, <2>1, <2>2 DEF Done, Idle, AddNextPassenger, Busy
<1>3. CASE WriteStep(w) /\ ~CreateTrip(w) /\ ~CreatePlan(w) /\ ~AddNextPassenger(w)
  <2>1. /\ req[w].at \in {"write", "visibility"}
        /\ \/ Done(w) \/ Continue(w, "members") \/ Continue(w, "read")
    BY <1>3 DEF WriteStep, EditTrip, DeleteTrip, AddTripMember, RemoveTripMember,
       AddPlanPassenger, RemovePlanPassenger, SetPlanVisibility, UpdatePlan, DeletePlan, MovePlan,
       AddPlanAlertOptin, RemovePlanAlertOptin, DeleteUser, NoWrite, Busy
  <2>2. req'[w].at \in {"end", "members", "read"}
    BY <1>0, <2>1 DEF Done, Continue, Idle, Request
  <2> QED
    BY <2>1, <2>2
<1> QED
  BY <1>1, <1>2, <1>3

\* However requests, cascades and failures interleave, a plan is shown to somebody new only by a
\* request that makes him a member or a passenger, moves the plan, or sets its rule; in particular
\* not by the deletion of the account, the member or the passenger it was meant for.
THEOREM SightSafe == Spec => SightGranted
<1> DEFINE Granted == \A u \in Users, p \in Plans :
          LivePlan(p) /\ CanViewPlan(u, p)' /\ ~CanViewPlan(u, p)
          => \E w \in Users :
                /\ req'[w] # req[w]
                /\ \/ req[w].op \in {"createPlan", "addMember", "addPassenger"} /\ u \in req[w].user
                   \/ req[w].op \in {"createPlan", "movePlan", "setVisibility"} /\ p \in req[w].plan
<1>1. Inv /\ Inv' /\ [Next]_vars => [Granted]_<<accounts, trip, plan>>
  <2> SUFFICES ASSUME Inv, Inv', Next, ~UNCHANGED Tables PROVE Granted
    BY DEF vars, Tables
  <2>1. PICK w \in Users : WriteStep(w)
    BY OneWriter
  <2>2. req'[w] # req[w]
    BY <2>1, MovesOn
  <2>3. ASSUME NEW u \in Users, NEW p \in Plans, LivePlan(p), CanViewPlan(u, p)', ~CanViewPlan(u, p)
        PROVE  Grants(w, u, p)
    BY <2>1, <2>3, TripsShow, PassengersShow, PlansShow, DeletionHides DEF WriteStep
  <2> QED
    BY <2>2, <2>3 DEF Grants
<1> QED
  BY <1>1, Invariant, PTL DEF Spec, SightGranted
=============================================================================
