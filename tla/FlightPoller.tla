---------------------------- MODULE FlightPoller ----------------------------
(***************************************************************************)
(* The background poller: one goroutine that alternates between a tick     *)
(* (refresh every active flight part) and a sweep (fill missing airport    *)
(* coordinates), reading and writing the flight rows of Postgres while     *)
(* HTTP handlers edit the same rows.  A tick works from a carrier, the     *)
(* copy of a row taken when the tick listed it; every later statement is   *)
(* a separate database call that may fail, and the process may be killed   *)
(* between any two of them.                                                *)
(*                                                                         *)
(* One unit of time is a fraction of the poll interval, so that a refresh  *)
(* can take time without spanning a whole interval.                        *)
(***************************************************************************)
EXTENDS Integers

CONSTANTS
    Parts,          \* flight parts (rows of flight_details joined to plan_parts)
    Legs,           \* the two ends of a flight: origin and destination
    Out, In,        \* scheduled_out and scheduled_in of each part
    DepDelay,       \* estimated_out - scheduled_out, written at creation only
    InTable,        \* pairs <<part, leg>> the embedded airports table can place
    Frames, NoFrame,    \* airframes (icao24), and the NULL airframe
    Gates, NoGate,      \* departure gates, and the empty gate
    Created,        \* what the client supplies when it creates a part
    Answers,        \* the flights the resolver may return
    Interval,       \* POLL_INTERVAL
    IdleFactor,     \* 5 in minPollAge
    Lead,           \* 30 minutes in ActiveFlightParts
    LateWindow, LateInterval,   \* lateRefreshWindow, lateRefreshInterval
    SweepInterval,  \* sweepInterval
    Horizon,        \* bound on the clock
    MaxTroubles     \* bound on failing database calls, crashes and requests, taken together

Never == -1
Time == 0 .. Horizon

ASSUME PollerAssumption ==
    /\ Horizon \in Nat /\ MaxTroubles \in Nat
    /\ Out \in [Parts -> Int] /\ In \in [Parts -> Int] /\ DepDelay \in [Parts -> Nat]
    /\ InTable \subseteq Parts \X Legs
    /\ NoFrame \notin Frames /\ NoGate \notin Gates
    /\ Interval \in Nat \ {0} /\ SweepInterval \in Nat \ {0} /\ LateInterval \in Nat
    /\ IdleFactor \in Nat /\ Lead \in Nat /\ LateWindow \in Nat

VARIABLES
    now,            \* the wall clock, shared by the process and the database
    mainLeft, sweepLeft,    \* time until each ticker fires
    mainDue, sweepDue,      \* a tick waits in the ticker's one-place channel
    row,            \* the database: one record per part
    pc, job, booting,       \* where the poller is, in which job, before the loop?
    queue, cur,     \* parts still to visit in this job, and the one visited
    carrier,        \* this job's copies of the rows
    tnow,           \* time.Now() taken at the start of the job
    answer,         \* what the resolver returned for cur
    fill,           \* legs of cur the sweep is about to fill
    faults, crashes, edits, \* calls that failed, crashes, and requests about a part
    lastCall,       \* history: time of the last resolver call for the part
    unalerted,      \* history: gate changes written minus alerts sent
    unannounced,    \* history: parts changed since their last broadcast
    missed,         \* history: parts whose last broadcast was given up, the row being unreadable
    cutShort        \* history: parts whose alert a crash cut short, before its signature was stamped

timerVars == <<mainLeft, sweepLeft, mainDue, sweepDue>>
localVars == <<queue, cur, carrier, tnow, answer, fill>>
histVars  == <<lastCall, unalerted, unannounced, missed, cutShort>>
vars == <<now, timerVars, row, pc, job, booting, localVars, faults, crashes, edits, histVars>>

Status == {"Scheduled", "Enroute", "Arrived", "Cancelled", "Diverted"}
Final == {"Arrived", "Cancelled", "Diverted"}
Source == {"none", "user", "filled"}   \* where a leg's coordinates came from

\* Dedupe signature: the terminal status if there is one, the delay, the gate.
Signatures == [status : {"", "Cancelled", "Diverted"}, delay : Nat, gate : Gates \cup {NoGate}]
NoSig == [status |-> "", delay |-> 0, gate |-> NoGate]   \* last_alert_sig is NULL

Row == [live : BOOLEAN, dismissed : BOOLEAN, status : Status, iata : SUBSET Legs,
        coord : [Legs -> Source], frame : Frames \cup {NoFrame},
        gate : Gates \cup {NoGate}, polled : Time \cup {Never},
        resolved : Time \cup {Never}, sig : Signatures]

Gone == [live |-> FALSE, dismissed |-> FALSE, status |-> "Scheduled", iata |-> {},
         coord |-> [l \in Legs |-> "none"], frame |-> NoFrame, gate |-> NoGate,
         polled |-> Never, resolved |-> Never, sig |-> NoSig]

\* A ResolvedFlight: the legs it places, the airframe and the gate it knows.
Found == [found : {TRUE}, legs : SUBSET Legs, frame : Frames \cup {NoFrame},
          gate : Gates \cup {NoGate}]
Creation == [status : Status, iata : SUBSET Legs, source : {"none", "user"},
             frame : Frames \cup {NoFrame}]
NotFound == [found |-> FALSE, legs |-> {}, frame |-> NoFrame, gate |-> NoGate]

ASSUME InputAssumption == Created \subseteq Creation /\ Answers \subseteq Found

\* A part as createPlan inserts it: never polled, resolved or alerted, no gate.
NewRows == {[Gone EXCEPT !.live = TRUE, !.status = n.status, !.iata = n.iata,
                         !.coord = [l \in Legs |-> n.source], !.frame = n.frame] : n \in Created}

Init ==
    /\ now = 0
    /\ mainLeft = Interval /\ sweepLeft = SweepInterval
    /\ mainDue = FALSE /\ sweepDue = FALSE
    /\ row \in [Parts -> NewRows]
    /\ pc = "sweepList" /\ job = "sweep" /\ booting = TRUE
    /\ queue = {} /\ cur \in Parts /\ carrier = [p \in Parts |-> Gone]
    /\ tnow = 0 /\ answer = NotFound /\ fill = {}
    /\ faults = 0 /\ crashes = 0 /\ edits = 0
    /\ lastCall = [p \in Parts |-> Never]
    /\ unalerted = [p \in Parts |-> 0] /\ unannounced = {} /\ missed = {} /\ cutShort = {}

-----------------------------------------------------------------------------
(* Faulty variants of definitions below, which the properties must reject  *)

RelistsFinal(p) == row[p].live /\ ~row[p].dismissed /\ now >= Out[p] - Lead

StopsAtArrival(p) == RelistsFinal(p) /\ row[p].status \notin Final /\ now <= In[p]

BackfillOverwrites(r, legs, frame) ==
    [r EXCEPT !.coord = [l \in Legs |-> IF l \in legs THEN "filled" ELSE r.coord[l]]]

StampsOnlySuccess(r, frame) ==
    IF frame = NoFrame THEN r ELSE [r EXCEPT !.frame = frame, !.resolved = now]

AnyGateIsNew(prev, r) == r.gate # NoGate

-----------------------------------------------------------------------------
(* Rows and carriers                                                       *)

Active(p) ==
    /\ row[p].live /\ ~row[p].dismissed
    /\ row[p].status \notin Final
    /\ now >= Out[p] - Lead

MissingCoords(p) == row[p].live /\ \E l \in Legs : row[p].coord[l] = "none"

MinPollAge(status) == IF status = "Enroute" THEN Interval ELSE IdleFactor * Interval

\* The guard of tick's loop: true when the carrier was polled too recently.
PolledRecently(f) == f.polled # Never /\ tnow - f.polled < MinPollAge(f.status)

NeedsBackfill(f) == f.iata # Legs \/ f.frame = NoFrame

NeedsLateRefresh(p, f) ==
    /\ tnow >= Out[p] - LateWindow
    /\ f.status \notin Final
    /\ f.resolved = Never \/ tnow - f.resolved >= LateInterval

ThrottleAllowed(f) == f.resolved = Never \/ tnow - f.resolved >= SweepInterval

\* The legs sweepOne places from the airports table, and those it cannot.
TableLegs(p, f) == {l \in f.iata : f.coord[l] = "none" /\ <<p, l>> \in InTable}
ResolverLegs(p, f) == {l \in f.iata : f.coord[l] = "none" /\ <<p, l>> \notin InTable}

BackfillRow(r, legs, frame) ==
    [r EXCEPT !.iata = @ \cup legs,
              !.coord = [l \in Legs |-> IF l \in legs /\ r.coord[l] = "none"
                                        THEN "filled" ELSE r.coord[l]],
              !.frame = IF @ = NoFrame THEN frame ELSE @]

AirframeRow(r, frame) ==
    [r EXCEPT !.frame = IF frame = NoFrame THEN @ ELSE frame, !.resolved = now]

GateRow(r, gate) == [r EXCEPT !.gate = IF gate = NoGate THEN @ ELSE gate]

DerivedStatus(p, status) ==
    IF status \in {"Cancelled", "Diverted"} THEN status
    ELSE IF now > In[p] THEN "Arrived"
    ELSE IF now >= Out[p] THEN "Enroute"
    ELSE "Scheduled"

StatusRow(p, r) == [r EXCEPT !.status = DerivedStatus(p, @), !.polled = now]

\* An UPDATE of a deleted row changes nothing and reports no error.
Write(p, r) == row' = IF row[p].live THEN [row EXCEPT ![p] = r] ELSE row

AlertSignature(p, r) ==
    [status |-> IF r.status \in {"Cancelled", "Diverted"} THEN r.status ELSE "",
     delay |-> IF r.status \in {"Cancelled", "Diverted"} THEN 0 ELSE DepDelay[p],
     gate |-> r.gate]

GateChanged(prev, r) == r.gate # NoGate /\ r.gate # prev.gate

\* Both snapshots of part p read the same estimated_out, which nothing rewrites.
DelayGrew(p, prev, r) == LET delay(f) == DepDelay[p] IN delay(r) > delay(prev)

ChangeKind(p, prev, r) ==
    IF r.status \in {"Cancelled", "Diverted"} /\ prev.status # r.status THEN r.status
    ELSE IF GateChanged(prev, r) THEN "gate"
    ELSE IF DelayGrew(p, prev, r) THEN "delayed"
    ELSE "none"

-----------------------------------------------------------------------------
(* Steps shared by both jobs                                               *)

\* What disturbs a job: a failing call, a crash, a request.
TroubleLeft == faults + crashes + edits < MaxTroubles

\* A database call fails and is logged.
Fault == TroubleLeft /\ faults' = faults + 1
NoFault == UNCHANGED faults

Goto(l) == pc' = l /\ UNCHANGED <<now, timerVars, job, booting, crashes, edits>>

\* The locals of refresh and sweepOne die with the call.
Leave(p) == /\ carrier' = [carrier EXCEPT ![p] = Gone]
            /\ answer' = NotFound /\ fill' = {}
            /\ UNCHANGED <<cur, tnow>>

Unvisited == queue' = {} /\ carrier' = [p \in Parts |-> Gone]
             /\ answer' = NotFound /\ fill' = {} /\ tnow' = 0

\* ORDER BY scheduled_out: a part with no earlier departure left in the queue.
InOrder(p) == p \in queue /\ \A q \in queue : Out[p] <= Out[q]

-----------------------------------------------------------------------------
(* The tick: refresh every active part                                     *)

StartTick ==
    /\ pc = "idle" /\ mainDue
    /\ mainDue' = FALSE /\ pc' = "tickList" /\ job' = "tick"
    /\ UNCHANGED <<now, mainLeft, sweepLeft, sweepDue, row, booting, localVars,
                   faults, crashes, edits, histVars>>

TickList ==
    /\ pc = "tickList"
    /\ tnow' = now /\ answer' = NotFound /\ fill' = {}
    /\ \/ /\ NoFault
          /\ queue' = {p \in Parts : Active(p)}
          /\ carrier' = [p \in Parts |-> IF Active(p) THEN row[p] ELSE Gone]
       \/ Fault /\ queue' = {} /\ carrier' = [p \in Parts |-> Gone]
    /\ Goto("tickPick")
    /\ UNCHANGED <<row, cur, histVars>>

TickSkip(p) ==
    /\ pc = "tickPick" /\ InOrder(p) /\ PolledRecently(carrier[p])
    /\ queue' = queue \ {p} /\ Leave(p)
    /\ Goto("tickPick")
    /\ UNCHANGED <<row, faults, histVars>>

TickPick(p) ==
    /\ pc = "tickPick" /\ InOrder(p) /\ ~PolledRecently(carrier[p])
    /\ queue' = queue \ {p} /\ cur' = p
    /\ Goto(IF NeedsBackfill(carrier[p]) \/ NeedsLateRefresh(p, carrier[p])
            THEN "resolve" ELSE "status")
    /\ UNCHANGED <<row, carrier, tnow, answer, fill, faults, histVars>>

\* The resolver may know the flight, not know it, or fail.
Resolve ==
    /\ pc = "resolve"
    /\ lastCall' = [lastCall EXCEPT ![cur] = now]
    /\ \E a \in Answers \cup {NotFound} :
          answer' = a /\ Goto(IF a.found THEN "backfill" ELSE "airframe")
    /\ UNCHANGED <<row, queue, cur, carrier, tnow, fill, faults, unalerted, unannounced, missed, cutShort>>

\* cur awaits a broadcast of its own if its coordinates or its status were just changed.
Note(changed) ==
    IF changed THEN unannounced' = unannounced \cup {cur} /\ missed' = missed \ {cur}
               ELSE UNCHANGED <<unannounced, missed>>

Backfill ==
    /\ pc = "backfill"
    /\ \/ /\ NoFault /\ Write(cur, BackfillRow(row[cur], answer.legs, answer.frame)) /\ Goto("airframe")
          /\ Note(row'[cur].coord # row[cur].coord)
       \/ Fault /\ UNCHANGED <<row, unannounced, missed>> /\ Goto("status")
    /\ UNCHANGED <<localVars, lastCall, unalerted, cutShort>>

\* Overwrites the airframe when one is known, and stamps last_resolved_at.
Airframe ==
    /\ pc = "airframe"
    /\ \/ /\ NoFault /\ Write(cur, AirframeRow(row[cur], answer.frame))
          /\ Goto(IF answer.found THEN "gate" ELSE "status")
       \/ Fault /\ UNCHANGED row /\ Goto("status")
    /\ UNCHANGED <<localVars, histVars>>

WriteGate ==
    /\ pc = "gate"
    /\ \/ /\ NoFault /\ Write(cur, GateRow(row[cur], answer.gate)) /\ Goto("reload")
          /\ unalerted' = [unalerted EXCEPT ![cur] = IF row'[cur].gate # row[cur].gate
                                                     THEN @ + 1 ELSE @]
       \/ Fault /\ UNCHANGED <<row, unalerted>> /\ Goto("status")
    /\ UNCHANGED <<localVars, lastCall, unannounced, missed, cutShort>>

\* f = fresh: the carrier becomes the row just written, unless it cannot be read.
Reload ==
    /\ pc = "reload"
    /\ \/ NoFault /\ row[cur].live /\ carrier' = [carrier EXCEPT ![cur] = row[cur]]
       \/ NoFault /\ ~row[cur].live /\ UNCHANGED carrier
       \/ Fault /\ UNCHANGED carrier
    /\ Goto("status")
    /\ UNCHANGED <<row, queue, cur, tnow, answer, fill, histVars>>

RefreshStatus ==
    /\ pc = "status"
    /\ \/ /\ NoFault /\ Write(cur, StatusRow(cur, row[cur]))
          /\ Note(row'[cur].status # row[cur].status)
       \/ Fault /\ UNCHANGED <<row, unannounced, missed>>
    /\ Goto("diff") /\ answer' = NotFound
    /\ UNCHANGED <<queue, cur, carrier, tnow, fill, lastCall, unalerted, cutShort>>

ShouldAlert(p) ==
    /\ ChangeKind(p, carrier[p], row[p]) # "none"
    /\ row[p].sig # AlertSignature(p, row[p])

\* maybeAlert up to the fan-out: re-read the row, classify, dedupe.
Diff ==
    /\ pc = "diff"
    /\ \/ NoFault /\ row[cur].live /\ ShouldAlert(cur) /\ Goto("dispatch")
       \/ NoFault /\ ~(row[cur].live /\ ShouldAlert(cur)) /\ Goto("publish")
       \/ Fault /\ Goto("publish")
    /\ UNCHANGED <<row, localVars, histVars>>

Dispatch ==
    /\ pc = "dispatch"
    /\ unalerted' = [unalerted EXCEPT ![cur] = @ - 1]
    /\ cutShort' = cutShort \ {cur}
    /\ Goto("stamp")
    /\ UNCHANGED <<row, localVars, faults, lastCall, unannounced, missed>>

Stamp ==
    /\ pc = "stamp"
    /\ \/ NoFault /\ Write(cur, [row[cur] EXCEPT !.sig = AlertSignature(cur, row[cur])])
       \/ Fault /\ UNCHANGED row
    /\ Goto("publish")
    /\ UNCHANGED <<localVars, histVars>>

\* publishPartChange: refetch the row and broadcast it; a row that is gone or
\* cannot be read is not broadcast.  Then back to the loop of the job.
Publish ==
    /\ pc = "publish"
    /\ \/ NoFault /\ unannounced' = unannounced \ {cur} /\ missed' = missed \ {cur}
       \/ Fault /\ missed' = missed \cup {cur} /\ UNCHANGED unannounced
    /\ Goto(IF job = "tick" THEN "tickPick" ELSE "sweepPick")
    /\ Leave(cur)
    /\ UNCHANGED <<row, queue, lastCall, unalerted, cutShort>>

\* The tickers are created once the startup sweep and the startup tick are done.
StartTickers ==
    IF booting THEN mainLeft' = Interval /\ sweepLeft' = SweepInterval
    ELSE UNCHANGED <<mainLeft, sweepLeft>>

EndTick ==
    /\ pc = "tickPick" /\ queue = {}
    /\ pc' = "idle" /\ booting' = FALSE
    /\ StartTickers /\ Unvisited
    /\ UNCHANGED <<now, mainDue, sweepDue, row, job, cur, faults, crashes, edits, histVars>>

-----------------------------------------------------------------------------
(* The sweep: fill missing coordinates                                     *)

StartSweep ==
    /\ pc = "idle" /\ sweepDue
    /\ sweepDue' = FALSE /\ pc' = "sweepList" /\ job' = "sweep"
    /\ UNCHANGED <<now, mainLeft, sweepLeft, mainDue, row, booting, localVars,
                   faults, crashes, edits, histVars>>

SweepList ==
    /\ pc = "sweepList"
    /\ tnow' = now /\ answer' = NotFound /\ fill' = {}
    /\ \/ /\ NoFault
          /\ queue' = {p \in Parts : MissingCoords(p)}
          /\ carrier' = [p \in Parts |-> IF MissingCoords(p) THEN row[p] ELSE Gone]
       \/ Fault /\ queue' = {} /\ carrier' = [p \in Parts |-> Gone]
    /\ Goto("sweepPick")
    /\ UNCHANGED <<row, cur, histVars>>

\* sweepOne up to the resolver call: what the table places, and whether the
\* resolver is asked for the rest.
SweepPick(p) ==
    /\ pc = "sweepPick" /\ InOrder(p)
    /\ queue' = queue \ {p} /\ cur' = p
    /\ fill' = TableLegs(p, carrier[p]) /\ answer' = NotFound
    /\ Goto(IF ResolverLegs(p, carrier[p]) # {} /\ ThrottleAllowed(carrier[p]) THEN "sweepResolve"
            ELSE IF TableLegs(p, carrier[p]) # {} THEN "sweepFill" ELSE "sweepPick")
    /\ UNCHANGED <<row, carrier, tnow, faults, histVars>>

SweepResolve ==
    /\ pc = "sweepResolve"
    /\ lastCall' = [lastCall EXCEPT ![cur] = now]
    /\ \E a \in Answers \cup {NotFound} :
          /\ answer' = a
          /\ fill' = fill \cup (ResolverLegs(cur, carrier[cur]) \cap a.legs)
    /\ Goto("sweepStamp")
    /\ UNCHANGED <<row, queue, cur, carrier, tnow, faults, unalerted, unannounced, missed, cutShort>>

\* last_resolved_at is stamped whether or not the resolver found the flight.
SweepStamp ==
    /\ pc = "sweepStamp"
    /\ \/ NoFault /\ Write(cur, AirframeRow(row[cur], answer.frame))
       \/ Fault /\ UNCHANGED row
    /\ Goto(IF answer.found \/ fill # {} THEN "sweepFill" ELSE "sweepPick")
    /\ UNCHANGED <<localVars, histVars>>

SilentSweepFill ==      \* faulty: returns without the broadcast
    /\ pc = "sweepFill"
    /\ NoFault /\ Write(cur, BackfillRow(row[cur], fill, answer.frame)) /\ Goto("sweepPick")
    /\ Note(row'[cur].coord # row[cur].coord)
    /\ UNCHANGED <<localVars, lastCall, unalerted, cutShort>>

SweepFill ==
    /\ pc = "sweepFill"
    /\ \/ /\ NoFault /\ Write(cur, BackfillRow(row[cur], fill, answer.frame)) /\ Goto("publish")
          /\ Note(row'[cur].coord # row[cur].coord)
       \/ Fault /\ UNCHANGED <<row, unannounced, missed>> /\ Goto("sweepPick")
    /\ UNCHANGED <<localVars, lastCall, unalerted, cutShort>>

\* After the startup sweep comes the startup tick.
EndSweep ==
    /\ pc = "sweepPick" /\ queue = {}
    /\ IF booting THEN pc' = "tickList" /\ job' = "tick"
                  ELSE pc' = "idle" /\ UNCHANGED job
    /\ Unvisited
    /\ UNCHANGED <<now, timerVars, row, booting, cur, faults, crashes, edits, histVars>>

-----------------------------------------------------------------------------
(* The clock, the handlers and crashes                                     *)

\* The clock moves while the process starts, and while the goroutine waits: for
\* its tickers, for the resolver it just called, for the tracker it is calling.
\* The other steps are short database calls.
Waits == {"idle", "sweepList", "backfill", "airframe", "sweepStamp", "status"}

TickersRunOut ==        \* faulty: the tickers are not rearmed
    /\ pc \in Waits /\ ~booting
    /\ mainLeft' = mainLeft - 1 /\ sweepLeft' = sweepLeft - 1
    /\ UNCHANGED <<now, mainDue, sweepDue, row, pc, job, booting, localVars,
                   faults, crashes, edits, histVars>>

\* A ticker that fires while its channel is full drops the tick.  At Horizon
\* the clock stops but the tickers go on.
AdvanceClock ==
    /\ pc \in Waits
    /\ now' = IF now < Horizon THEN now + 1 ELSE now
    /\ IF booting THEN UNCHANGED timerVars
       ELSE /\ mainLeft' = IF mainLeft = 1 THEN Interval ELSE mainLeft - 1
            /\ mainDue' = (mainDue \/ mainLeft = 1)
            /\ sweepLeft' = IF sweepLeft = 1 THEN SweepInterval ELSE sweepLeft - 1
            /\ sweepDue' = (sweepDue \/ sweepLeft = 1)
    /\ UNCHANGED <<row, pc, job, booting, localVars, faults, crashes, edits, histVars>>

\* A request about an existing part; it runs beside the poller.
Request(p) ==
    /\ TroubleLeft /\ edits' = edits + 1 /\ row[p].live
    /\ UNCHANGED <<now, timerVars, pc, job, booting, localVars, faults, crashes>>

\* updatePlanPart: the user types the coordinates of one leg.
EditCoords(p, l) ==
    /\ Request(p) /\ row' = [row EXCEPT ![p].coord[l] = "user"]
    /\ UNCHANGED histVars

DismissPart(p) ==
    /\ Request(p) /\ row' = [row EXCEPT ![p].dismissed = TRUE]
    /\ UNCHANGED histVars

\* deletePlan: the part and its flight_details cascade away.
DeletePart(p) ==
    /\ Request(p) /\ row' = [row EXCEPT ![p] = Gone]
    /\ unannounced' = unannounced \ {p} /\ cutShort' = cutShort \ {p}
    /\ lastCall' = [lastCall EXCEPT ![p] = Never]
    /\ UNCHANGED <<unalerted, missed>>

\* The process dies and is started again: only the database and the clock remain.
Crash ==
    /\ TroubleLeft /\ crashes' = crashes + 1
    /\ pc' = "sweepList" /\ job' = "sweep" /\ booting' = TRUE
    /\ mainLeft' = Interval /\ sweepLeft' = SweepInterval
    /\ mainDue' = FALSE /\ sweepDue' = FALSE
    /\ cutShort' = IF pc \in {"dispatch", "stamp"} THEN cutShort \cup {cur} ELSE cutShort
    /\ Unvisited
    /\ UNCHANGED <<now, row, cur, faults, edits, lastCall, unalerted, unannounced, missed>>

TickStep ==
    \/ TickList \/ Resolve \/ Backfill \/ Airframe \/ WriteGate \/ Reload
    \/ RefreshStatus \/ Diff \/ Dispatch \/ Stamp \/ Publish \/ EndTick
    \/ \E p \in Parts : TickSkip(p) \/ TickPick(p)

SweepStep ==
    \/ SweepList \/ SweepResolve \/ SweepStamp \/ SweepFill \/ EndSweep
    \/ \E p \in Parts : SweepPick(p)

Handler ==
    \E p \in Parts : DismissPart(p) \/ DeletePart(p) \/ \E l \in Legs : EditCoords(p, l)

Next ==
    \/ StartTick \/ StartSweep \/ TickStep \/ SweepStep
    \/ AdvanceClock \/ Handler \/ Crash

Spec == Init /\ [][Next]_vars

\* The goroutine runs, time passes, and select picks at random among the
\* tickers that are ready, so that neither waits for ever.
FairSpec ==
    /\ Spec
    /\ WF_vars(TickStep) /\ WF_vars(SweepStep) /\ WF_vars(AdvanceClock)
    /\ SF_vars(StartTick) /\ SF_vars(StartSweep)

-----------------------------------------------------------------------------
(* Properties                                                              *)

Labels == {"idle", "tickList", "tickPick", "resolve", "backfill", "airframe", "gate",
           "reload", "status", "diff", "dispatch", "stamp", "publish", "sweepList",
           "sweepPick", "sweepResolve", "sweepStamp", "sweepFill"}

\* Type invariant of the poller and of the rows it works on.
TypeOK ==
    /\ now \in Time /\ tnow \in Time
    /\ mainLeft \in 1 .. Interval /\ sweepLeft \in 1 .. SweepInterval
    /\ mainDue \in BOOLEAN /\ sweepDue \in BOOLEAN /\ booting \in BOOLEAN
    /\ row \in [Parts -> Row] /\ carrier \in [Parts -> Row]
    /\ pc \in Labels /\ job \in {"tick", "sweep"}
    /\ queue \subseteq Parts /\ cur \in Parts
    /\ answer \in Found \cup {NotFound} /\ fill \subseteq Legs
    /\ faults \in Nat /\ crashes \in Nat /\ edits \in Nat /\ faults + crashes + edits <= MaxTroubles
    /\ lastCall \in [Parts -> Time \cup {Never}]
    /\ unalerted \in [Parts -> Int]
    /\ unannounced \subseteq Parts /\ missed \subseteq Parts /\ cutShort \subseteq Parts

\* A status that ends a flight is never rewritten: such a row is not listed, no
\* row is refreshed twice in a tick, and the status refresh keeps a cancellation.
FinalStatusKept ==
    [][\A p \in Parts : row'[p].live /\ row[p].status \in Final
                            => row'[p].status = row[p].status]_row

\* Coordinates a user typed are never replaced, not even by a job whose carrier
\* was read before the user typed them.
UserCoordsKept ==
    [][\A p \in Parts, l \in Legs :
          row'[p].live /\ row[p].coord[l] = "user" => row'[p].coord[l] = "user"]_row

\* Each alert accounts for a gate change of its own, whatever calls fail and in whichever
\* later refresh: not even a change whose dedupe signature could not be stamped alerts
\* again on the next tick (alerts.go:18).  After a crash the comment at alerts.go:148 wants
\* a second alert: see CrashRealerts.
AlertsBounded == crashes = 0 => \A p \in Parts : unalerted[p] >= 0

\* Why AlertsBounded and FinalStatusKept hold.  A part waiting in a tick, or being
\* refreshed, is not final; its carrier has the row's gate until this tick writes
\* one; and when the two differ, the change is one not yet alerted.
BeforeGate == {"resolve", "backfill", "airframe", "gate"}
AfterGate == {"reload", "status", "diff"}
Refreshing == BeforeGate \cup AfterGate \cup {"dispatch", "stamp", "publish"}

JobOK ==
    /\ pc \in {"tickList", "tickPick"} \cup (Refreshing \ {"publish"}) => job = "tick"
    /\ pc \in {"sweepList", "sweepPick", "sweepResolve", "sweepStamp", "sweepFill"} => job = "sweep"
    /\ pc \in {"idle", "tickList", "sweepList"} => queue = {}
    /\ pc \in Refreshing /\ job = "tick" => cur \notin queue

WaitingOK ==
    job = "tick" => \A p \in queue :
        row[p].live => row[p].status \notin Final /\ carrier[p].gate = row[p].gate

CurrentOK ==
    /\ pc \in BeforeGate \cup AfterGate /\ row[cur].live
          => row[cur].status \notin IF pc = "diff" THEN {"Cancelled", "Diverted"} ELSE Final
    /\ pc \in BeforeGate /\ row[cur].live => carrier[cur].gate = row[cur].gate
    /\ pc \in AfterGate /\ row[cur].live /\ carrier[cur].gate # row[cur].gate => unalerted[cur] >= 1
    /\ pc = "dispatch" => unalerted[cur] >= 1

EachOnce == \A p \in Parts : unalerted[p] >= 0

AlertInv == JobOK /\ WaitingOK /\ CurrentOK /\ EachOnce

\* As long as no call failed and no crash lost a stamp, the resolver is not asked
\* about a part again within the throttle by the sweep, or by a tick that only
\* wants the airframe of the day.
ThrottleHonoured ==
    [][/\ pc \in {"resolve", "sweepResolve"} /\ faults = 0 /\ crashes = 0
       /\ pc = "resolve" => ~NeedsBackfill(carrier[cur])
       /\ lastCall[cur] # Never
       /\ crashes' = crashes /\ pc' # pc
       => now - lastCall[cur] >= IF pc = "resolve" THEN LateInterval ELSE SweepInterval]_vars

\* Whatever calls of a refresh or a sweep failed, when the poller rests every status it
\* changed and every coordinate it filled in has been broadcast since, unless the row
\* could not be read back for the broadcast itself (poller.go:173) or the process died.
ChangesAnnounced ==
    pc = "idle" /\ crashes = 0 => unannounced \subseteq missed

\* Why it holds: only the part being visited awaits its broadcast.
AnnouncedInv ==
    crashes = 0 => unannounced \ missed
        \subseteq IF pc \in (Refreshing \ {"resolve", "backfill"}) THEN {cur} ELSE {}

\* A flight that is neither dismissed nor deleted ends up in a final status,
\* whatever calls failed on the way.
EventuallyFinal ==
    \A p \in Parts : <>(~row[p].live \/ row[p].dismissed \/ row[p].status \in Final)

(* What the comments and the design documents say, and the code does not do. *)

\* "One API call per active flight per ~4h": no two resolver calls for the same
\* part within the late-refresh interval.
ResolverQuota ==
    [][/\ pc = "resolve" /\ pc' \in {"backfill", "airframe"}
       /\ faults = 0 /\ crashes = 0 /\ lastCall[cur] # Never
       => now - lastCall[cur] >= LateInterval]_vars

\* "A change is what we alert on": when the poller rests, and nothing failed, no
\* gate change it wrote is without its alert.
GateChangesAlerted ==
    pc = "idle" /\ faults = 0 /\ crashes = 0
        => \A p \in Parts : row[p].live => unalerted[p] = 0

\* "a mid-flight crash re-alerts rather than silently swallowing the change": the next
\* refresh of a part whose alert a crash cut short does not pass it over.
CrashRealerts ==
    [][pc = "diff" /\ pc' = "publish" /\ faults' = faults => cur \notin cutShort]_vars
=============================================================================
