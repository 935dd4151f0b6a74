------------------------------ MODULE Positions ------------------------------
(***************************************************************************)
(* The positions of one flight: the poller asks OpenSky where the airframe *)
(* is, the speed gate drops a fix that the newest stored position makes    *)
(* implausible, the dead reckoner fills what is missing, the row is stored *)
(* and the newest one is broadcast, while browsers read the newest         *)
(* position and the flown track in two queries.  The route is a line from  *)
(* 0 to Dest flown at constant speed, on whose other side, at Elsewhere,   *)
(* another aircraft is.  The clock moves between polls and while OpenSky   *)
(* is waited for.  How often a flight is polled is FlightPoller's matter:  *)
(* here at most once per instant.  Which airports are located is fixed.    *)
(***************************************************************************)
EXTENDS Integers, FiniteSets

CONSTANTS
    Actual,         \* the airframe that flies
    NoFrame,
    Out, In,        \* scheduled_out, scheduled_in
    Lead,           \* polling begins this long before Out
    Dest, Elsewhere,
    MaxSpeed,       \* MaxSpeedKt, in places per instant
    Delays,         \* how much later than scheduled the aircraft may fly
    Lags,           \* how old a fix may be when it is answered
    TrackLimit,     \* PartTracks' perPart
    Horizon, MaxFaults  \* bounds: on the clock and on failing queries

VARIABLES
    now,
    delay,
    flight,     \* its row: [there, frame, legs, status]
    poll,       \* the poller: [at, now, frame, fix]
    track,      \* rows of positions
    shown,      \* the position of the last broadcast
    page,       \* a browser's load: the newest position it has read, and waits for the track
    adrift,     \* history: the estimates stored since the last fix was
    faults

trackVars == <<now, delay, flight, poll, track, shown, page, adrift, faults>>

Legs == {"origin", "dest"}
Place == Elsewhere..Dest
NoFix == [ts |-> -1, place |-> 0, est |-> FALSE]
Fix(ts, place, est) == [ts |-> ts, place |-> place, est |-> est]
Idle == [at |-> "idle", now |-> 0, frame |-> NoFrame, fix |-> NoFix]
NoPage == [at |-> "none", latest |-> NoFix]
NoFlight == [there |-> FALSE, frame |-> NoFrame, legs |-> {}, status |-> "Scheduled"]

ASSUME PositionsAssumption ==
    /\ Out \in Nat /\ In \in Nat /\ Out < In /\ Lead \in 0..Out /\ Horizon \in Nat
    /\ Dest \in Nat /\ Elsewhere \in Int /\ Elsewhere < 0 /\ MaxSpeed \in Nat
    /\ Delays \subseteq Nat /\ Lags \subseteq Nat /\ TrackLimit \in Nat \ {0}
    /\ MaxFaults \in Nat

TrackInit ==
    /\ now = 0 /\ delay = 0 /\ flight = NoFlight /\ poll = Idle
    /\ track = {} /\ shown = NoFix /\ page = NoPage
    /\ adrift = {} /\ faults = 0

-----------------------------------------------------------------------------
(* Geometry.  Slerp along the route, a fraction of it given as a quotient. *)

Distance(a, b) == IF a <= b THEN b - a ELSE a - b
Along(a, b, part, whole) == a + ((b - a) * part) \div whole
TruePlace(ts) ==
    IF ts <= Out + delay THEN 0 ELSE IF ts >= In + delay THEN Dest
    ELSE Along(0, Dest, ts - Out - delay, In - Out)

-----------------------------------------------------------------------------
(* Stored positions.  The order of rows with one timestamp is not defined. *)

Newest(rows) == {p \in rows : \A q \in rows : q.ts <= p.ts}
OrNone(rows) == IF rows = {} THEN {NoFix} ELSE rows

LatestRealPosition == Newest({p \in track : ~p.est})
LatestIsReal == LatestRealPosition  \* faulty: the estimates are left out
LatestPosition == Newest(track)

EarliestTracks == {p \in track : Cardinality({q \in track : q.ts < p.ts}) < TrackLimit}  \* faulty: the first rows
\* The last rows; the page draws them by time.
PartTracks == {p \in track : Cardinality({q \in track : q.ts > p.ts}) < TrackLimit}

MayFail == faults < MaxFaults
Fails == MayFail /\ faults' = faults + 1

-----------------------------------------------------------------------------
(* One poll                                                                *)

\* Listed until a poll finds it arrived; the resolver may renew the airframe.
StartPoll(frames) ==
    /\ poll.at = "idle" /\ flight.there /\ flight.status # "Arrived"
    /\ now >= Out - Lead /\ now > poll.now
    /\ \E f \in frames \cup {flight.frame} :
         /\ poll' = [at |-> "ask", now |-> now, frame |-> f, fix |-> NoFix]
         /\ flight' = [flight EXCEPT !.frame = f]
    /\ UNCHANGED <<now, delay, track, shown, page, adrift, faults>>

\* OpenSky: nothing without an airframe; an error, no state vector, or where the aircraft of
\* that airframe was when it last reported.
OpenSky ==
    /\ poll.at = "ask"
    /\ \/ poll' = [poll EXCEPT !.at = "reckon"]
       \/ /\ poll.frame # NoFrame
          /\ \E lag \in Lags : lag <= now /\ poll' = [poll EXCEPT !.at = "gate",
                 !.fix = Fix(now - lag, IF poll.frame = Actual THEN TruePlace(now - lag) ELSE Elsewhere, FALSE)]
    /\ UNCHANGED <<now, delay, flight, track, shown, page, adrift, faults>>

Implausible(anchor, fix) ==
    /\ anchor # NoFix /\ fix.ts > anchor.ts
    /\ Distance(anchor.place, fix.place) > MaxSpeed * (fix.ts - anchor.ts)

\* A fix that cannot be compared - no position, not a newer one, a failed query - passes.
SpeedGate ==
    /\ poll.at = "gate"
    /\ \/ /\ \E anchor \in OrNone(LatestPosition) :
               poll' = [poll EXCEPT !.at = "reckon", !.fix = IF Implausible(anchor, @) THEN NoFix ELSE @]
          /\ UNCHANGED faults
       \/ Fails /\ poll' = [poll EXCEPT !.at = "reckon"]
    /\ UNCHANGED <<now, delay, flight, track, shown, page, adrift>>

\* faulty: on past the destination; backwards; with the time that is left from now on
UnclampedPlace(anchor) ==
    IF In - anchor.ts <= 0 THEN Dest ELSE Along(anchor.place, Dest, poll.now - anchor.ts, In - anchor.ts)
SwappedEnds(anchor) ==
    IF In - anchor.ts <= 0 \/ poll.now >= In THEN anchor.place
    ELSE Along(Dest, anchor.place, poll.now - anchor.ts, In - anchor.ts)
RemainingFromNow(anchor) ==
    IF poll.now - anchor.ts >= In - poll.now THEN Dest
    ELSE Along(anchor.place, Dest, poll.now - anchor.ts, In - poll.now)
\* From the last real fix to the destination, to be there when scheduled.
ExtrapolatedPlace(anchor) ==
    IF poll.now >= In THEN Dest
    ELSE Along(anchor.place, Dest, poll.now - anchor.ts, In - anchor.ts)

FromSchedule ==
    IF flight.legs = Legs /\ poll.now >= Out /\ poll.now <= In
    THEN Fix(poll.now, Along(0, Dest, poll.now - Out, In - Out), TRUE) ELSE NoFix

OnlyFreshEstimate(anchor) ==  \* faulty: once there was a fix, the schedule is no help
    IF anchor # NoFix /\ "dest" \in flight.legs
    THEN IF poll.now > anchor.ts THEN Fix(poll.now, ExtrapolatedPlace(anchor), TRUE) ELSE NoFix
    ELSE FromSchedule
Estimate(anchor) ==
    IF anchor # NoFix /\ "dest" \in flight.legs /\ poll.now > anchor.ts
    THEN Fix(poll.now, ExtrapolatedPlace(anchor), TRUE) ELSE FromSchedule

\* A fix is kept; an error of the tracker is swallowed.  The anchor's query may fail.
DeadReckon ==
    /\ poll.at = "reckon"
    /\ \/ /\ \E anchor \in OrNone(LatestRealPosition) :
               poll' = [poll EXCEPT !.at = "insert", !.fix = IF @ = NoFix THEN Estimate(anchor) ELSE @]
          /\ UNCHANGED faults
       \/ /\ poll.fix = NoFix /\ "dest" \in flight.legs
          /\ Fails /\ poll' = [poll EXCEPT !.at = "insert", !.fix = FromSchedule]
    /\ UNCHANGED <<now, delay, flight, track, shown, page, adrift>>

InsertPartPosition ==
    /\ poll.at = "insert" /\ poll' = [poll EXCEPT !.at = "publish"]
    /\ \/ /\ track' = (IF poll.fix = NoFix THEN track ELSE track \cup {poll.fix})
          /\ adrift' = (IF poll.fix = NoFix THEN adrift ELSE IF poll.fix.est THEN adrift \cup {poll.fix} ELSE {})
          /\ UNCHANGED faults
       \/ poll.fix # NoFix /\ Fails /\ UNCHANGED <<track, adrift>>
    /\ UNCHANGED <<now, delay, flight, shown, page>>

\* The status is derived from the schedule; the newest position goes out, or none if it cannot be read.
Publish ==
    /\ poll.at = "publish" /\ poll' = [Idle EXCEPT !.now = poll.now]
    /\ flight' = [flight EXCEPT !.status = IF now > In THEN "Arrived" ELSE IF now >= Out THEN "Enroute" ELSE "Scheduled"]
    /\ \/ shown' \in OrNone(LatestPosition) /\ UNCHANGED faults
       \/ Fails /\ shown' = NoFix
    /\ UNCHANGED <<now, delay, track, page, adrift>>

-----------------------------------------------------------------------------
(* Beside it: a browser loads the flight's page                            *)

\* trackerPartDetailDTO: a marker is read, then the track, and both are sent.
ReadLatest ==
    /\ page = NoPage /\ flight.there
    /\ \E p \in OrNone(LatestPosition) : page' = [at |-> "track", latest |-> p]
    /\ UNCHANGED <<now, delay, flight, poll, track, shown, adrift, faults>>

ReadTrack ==
    /\ page.at = "track" /\ page' = NoPage
    /\ UNCHANGED <<now, delay, flight, poll, track, shown, adrift, faults>>

Pass ==
    /\ flight.there /\ poll.at \in {"idle", "ask"} /\ now < Horizon /\ now' = now + 1
    /\ UNCHANGED <<delay, flight, poll, track, shown, page, adrift, faults>>

TrackNext(frames) ==
    \/ StartPoll(frames) \/ OpenSky \/ SpeedGate \/ DeadReckon \/ InsertPartPosition \/ Publish
    \/ ReadLatest \/ ReadTrack \/ Pass
-----------------------------------------------------------------------------
(* Properties                                                              *)

Fixes == [ts : 0..Horizon, place : Place, est : BOOLEAN] \cup {NoFix}

\* One type invariant; a place is never off the line (extrapolation stops at the destination).
PositionsTypeOK ==
    /\ now \in 0..Horizon /\ delay \in Delays \cup {0}
    /\ flight \in [there : BOOLEAN, frame : {NoFrame, Actual, flight.frame}, legs : SUBSET Legs,
                   status : {"Scheduled", "Enroute", "Arrived"}]
    /\ poll \in [at : {"idle", "ask", "gate", "reckon", "insert", "publish"}, now : 0..now,
                 frame : {poll.frame}, fix : Fixes]
    /\ track \subseteq Fixes \ {NoFix} /\ shown \in Fixes /\ adrift \subseteq track
    /\ page \in [at : {"none", "track"}, latest : Fixes]
    /\ faults \in 0..MaxFaults

Wrong(p) == ~p.est /\ p.place # TruePlace(p.ts)

\* How long before departure the fixes of the track were taken.
HeadStarts == {0} \cup {Out - p.ts : p \in {q \in track : ~q.est /\ q.ts < Out}}

\* What is shown of a flight none of whose fixes was another aircraft's is never farther from
\* where the aircraft was than the flight's delay, and a fix taken before departure, account
\* for: estimates do not run away (deadreckon.go:64-123, speedgate.go:53-81).
NearTruth ==
    shown # NoFix /\ (\A p \in track : ~Wrong(p))
        => \E early \in HeadStarts :
              Distance(shown.place, TruePlace(shown.ts)) <= 1 + Along(0, Dest, delay + early, In - Out + early)

Inserted == track' \ track

\* While no new fix is stored, and the anchor's query does not fail, the estimates that
\* follow the latest one never move away from the destination, not even when the flight is
\* overdue (deadreckon.go:66-85).  Of two fixes of the same moment either may be the anchor.
EstimatesAdvance ==
    faults = 0 /\ (\A r, s \in LatestRealPosition : r = s)
        => \A p, q \in adrift :
              q.ts < p.ts /\ (\A r \in track : ~r.est => r.ts < q.ts)
                  => Distance(p.place, Dest) <= Distance(q.place, Dest)

\* No query having failed, a fix stored as the newest position does not imply an impossible
\* speed from what was newest before, be that a fix or an estimate (speedgate.go:11-27;
\* main.go:112-113 "the resulting teleport would otherwise pollute the stored track").
NoTeleport ==
    [][faults' = 0 => \A p \in Inserted :
          ~p.est /\ track # {} /\ (\A q \in track : q.ts < p.ts)
              => \E q \in Newest(track) : Distance(q.place, p.place) <= MaxSpeed * (p.ts - q.ts)]_track

\* A poll that begins in the air and whose insert does not fail leaves a position, whatever
\* the tracker answered or the gate dropped, once both airports are located
\* (deadreckon.go:14-30).
PositionEachPoll ==
    [][poll.at = "insert" /\ faults' = faults /\ flight.legs = Legs /\ poll.now \in Out..In
          => poll.fix # NoFix]_poll

\* A page never draws a marker its track does not reach: the track is read after the newest
\* position, and keeps the end when it is cut to its limit (handlers_tracker.go:128-139).
TrackReachesMarker ==
    [][page.at = "track" /\ page.latest # NoFix => \E p \in PartTracks : p.ts >= page.latest.ts]_page

(* What the comments say, and the code does not do. *)

\* "The anchor stays roughly on the planned route during coverage gaps, so even an
\* all-estimated history gives the gate a usable comparison point" (speedgate.go:29-34): a
\* true fix is never dropped when no other aircraft's was stored.
TrueFixKept ==
    [][poll.at = "gate" /\ poll.fix.place = TruePlace(poll.fix.ts) /\ (\A p \in track : ~Wrong(p))
          => poll'.fix = poll.fix]_poll
=============================================================================
