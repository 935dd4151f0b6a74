------------------------ MODULE FlightPoller_proofs ------------------------
(* What holds of the poller for every set of parts, every schedule, every   *)
(* answer of the resolver and every number of failures, crashes, requests.  *)
EXTENDS FlightPoller, TLAPS

USE PollerAssumption

-----------------------------------------------------------------------------
(* Type correctness                                                         *)

\* A row or carrier stays a row under each statement that writes it.
LEMMA GoneIsRow == Gone \in Row
  BY DEF Gone, Row, Status, Source, NoSig, Signatures, Time, Never

LEMMA NewRowsAreRows == NewRows \subseteq Row
<1> SUFFICES ASSUME NEW n \in Created
             PROVE  [Gone EXCEPT !.live = TRUE, !.status = n.status, !.iata = n.iata,
                                 !.coord = [l \in Legs |-> n.source], !.frame = n.frame] \in Row
  BY DEF NewRows
<1>1. n \in Creation
  BY InputAssumption
<1>2. [l \in Legs |-> n.source] \in [Legs -> Source]
  BY <1>1 DEF Creation, Source
<1> QED
  BY <1>1, <1>2, GoneIsRow DEF Creation, Row

LEMMA BackfillRowType ==
  ASSUME NEW r \in Row, NEW legs \in SUBSET Legs, NEW frame \in Frames \cup {NoFrame}
  PROVE  BackfillRow(r, legs, frame) \in Row
  BY DEF BackfillRow, Row, Source

LEMMA AirframeRowType ==
  ASSUME NEW r \in Row, NEW frame \in Frames \cup {NoFrame}, now \in Time
  PROVE  AirframeRow(r, frame) \in Row
  BY DEF AirframeRow, Row

LEMMA GateRowType ==
  ASSUME NEW r \in Row, NEW gate \in Gates \cup {NoGate}
  PROVE  GateRow(r, gate) \in Row
  BY DEF GateRow, Row

LEMMA StatusRowType ==
  ASSUME NEW r \in Row, NEW p \in Parts, now \in Time
  PROVE  StatusRow(p, r) \in Row
  BY DEF StatusRow, DerivedStatus, Row, Status

LEMMA StampType ==
  ASSUME NEW r \in Row, NEW p \in Parts
  PROVE  [r EXCEPT !.sig = AlertSignature(p, r)] \in Row
  BY DEF AlertSignature, Row, Signatures

LEMMA CoordType ==
  ASSUME NEW r \in Row, NEW c \in [Legs -> Source]
  PROVE  [r EXCEPT !.coord = c] \in Row
  BY DEF Row

LEMMA EditType ==
  ASSUME row \in [Parts -> Row], NEW p \in Parts
  PROVE  /\ [row EXCEPT ![p].dismissed = TRUE] \in [Parts -> Row]
         /\ \A l \in Legs : [row EXCEPT ![p].coord[l] = "user"] \in [Parts -> Row]
<1>1. [row[p] EXCEPT !.dismissed = TRUE] \in Row
  BY DEF Row
<1>2. ASSUME NEW l \in Legs PROVE [row[p] EXCEPT !.coord[l] = "user"] \in Row
  <2>1. [row[p].coord EXCEPT ![l] = "user"] \in [Legs -> Source]
    BY DEF Row, Source
  <2>2. [row[p] EXCEPT !.coord = [row[p].coord EXCEPT ![l] = "user"]] \in Row
    BY <2>1, CoordType
  <2> QED
    BY <2>2
<1> QED
  BY <1>1, <1>2

LEMMA WriteType ==
  ASSUME row \in [Parts -> Row], NEW p \in Parts, NEW r \in Row, Write(p, r)
  PROVE  row' \in [Parts -> Row]
  BY DEF Write

\* What the resolver returned has the shape of a ResolvedFlight.
LEMMA AnswerFields ==
  ASSUME NEW a \in Found \cup {NotFound}
  PROVE  a.legs \subseteq Legs /\ a.frame \in Frames \cup {NoFrame}
         /\ a.gate \in Gates \cup {NoGate}
<1>1. CASE a \in Found
  BY <1>1 DEF Found
<1>2. CASE a = NotFound
  BY <1>2 DEF NotFound
<1> QED
  BY <1>1, <1>2

LEMMA InitType == Init => TypeOK
<1> SUFFICES ASSUME Init PROVE TypeOK
  OBVIOUS
<1>1. row \in [Parts -> Row] /\ carrier \in [Parts -> Row]
  BY NewRowsAreRows, GoneIsRow DEF Init
<1>2. now \in Time /\ tnow \in Time /\ mainLeft \in 1 .. Interval
      /\ sweepLeft \in 1 .. SweepInterval /\ faults + crashes + edits <= MaxTroubles
      /\ faults \in Nat /\ crashes \in Nat /\ edits \in Nat
  BY DEF Init, Time
<1>3. lastCall \in [Parts -> Time \cup {Never}] /\ unalerted \in [Parts -> Int]
  BY DEF Init
<1> QED
  BY <1>1, <1>2, <1>3 DEF Init, TypeOK, Labels

LEMMA Tickers ==
  ASSUME TypeOK
  PROVE  /\ 0 \in Time
         /\ StartTickers => mainLeft' \in 1 .. Interval /\ sweepLeft' \in 1 .. SweepInterval
         /\ Interval \in 1 .. Interval /\ SweepInterval \in 1 .. SweepInterval
  BY DEF TypeOK, StartTickers, Time

LEMMA TickType ==
  ASSUME TypeOK, StartTick \/ TickStep
  PROVE  TypeOK'
<1> USE DEF TypeOK, Labels
<1>1. CASE StartTick
  BY <1>1 DEF StartTick, localVars, histVars
<1>2. CASE TickList
  <2>1. carrier' \in [Parts -> Row] /\ queue' \subseteq Parts
    BY <1>2, GoneIsRow DEF TickList
  <2> QED
    BY <1>2, <2>1 DEF TickList, Goto, Fault, TroubleLeft, NoFault, timerVars, histVars
<1>3. ASSUME NEW p \in Parts, TickSkip(p) PROVE TypeOK'
  <2>1. carrier' \in [Parts -> Row]
    BY <1>3, GoneIsRow DEF TickSkip, Leave
  <2> QED
    BY <1>3, <2>1 DEF TickSkip, Leave, Goto, timerVars, histVars
<1>4. ASSUME NEW p \in Parts, TickPick(p) PROVE TypeOK'
  BY <1>4 DEF TickPick, Goto, timerVars, histVars
<1>5. CASE Resolve
  <2>1. answer' \in Found \cup {NotFound}
    BY <1>5, InputAssumption DEF Resolve
  <2> QED
    BY <1>5, <2>1 DEF Resolve, Goto, timerVars
<1>6. CASE Backfill
  <2>1. row' \in [Parts -> Row]
    BY <1>6, AnswerFields, BackfillRowType, WriteType DEF Backfill
  <2> QED
    BY <1>6, <2>1 DEF Backfill, Note, Goto, Fault, TroubleLeft, NoFault, timerVars, localVars, histVars
<1>7. CASE Airframe
  <2>1. row' \in [Parts -> Row]
    BY <1>7, AnswerFields, AirframeRowType, WriteType DEF Airframe
  <2> QED
    BY <1>7, <2>1 DEF Airframe, Goto, Fault, TroubleLeft, NoFault, timerVars, localVars, histVars
<1>8. CASE WriteGate
  <2>1. row' \in [Parts -> Row]
    BY <1>8, AnswerFields, GateRowType, WriteType DEF WriteGate
  <2>2. unalerted' \in [Parts -> Int]
    BY <1>8 DEF WriteGate
  <2> QED
    BY <1>8, <2>1, <2>2 DEF WriteGate, Goto, Fault, TroubleLeft, NoFault, timerVars, localVars
<1>9. CASE Reload
  <2>1. carrier' \in [Parts -> Row]
    BY <1>9 DEF Reload
  <2> QED
    BY <1>9, <2>1 DEF Reload, Goto, Fault, TroubleLeft, NoFault, timerVars, histVars
<1>10. CASE RefreshStatus
  <2>1. row' \in [Parts -> Row]
    BY <1>10, StatusRowType, WriteType DEF RefreshStatus
  <2> QED
    BY <1>10, <2>1 DEF RefreshStatus, Note, Goto, Fault, TroubleLeft, NoFault, timerVars
<1>11. CASE Diff
  BY <1>11 DEF Diff, Goto, Fault, TroubleLeft, NoFault, timerVars, localVars, histVars
<1>12. CASE Dispatch
  BY <1>12 DEF Dispatch, Goto, timerVars, localVars
<1>13. CASE Stamp
  <2>1. row' \in [Parts -> Row]
    BY <1>13, StampType, WriteType DEF Stamp
  <2> QED
    BY <1>13, <2>1 DEF Stamp, Goto, Fault, TroubleLeft, NoFault, timerVars, localVars, histVars
<1>14. CASE Publish
  <2>1. carrier' \in [Parts -> Row]
    BY <1>14, GoneIsRow DEF Publish, Leave
  <2> QED
    BY <1>14, <2>1 DEF Publish, Leave, Goto, Fault, TroubleLeft, NoFault, timerVars
<1>15. CASE EndTick
  <2>1. carrier' \in [Parts -> Row]
    BY <1>15, GoneIsRow DEF EndTick, Unvisited
  <2> QED
    BY <1>15, <2>1, Tickers DEF EndTick, Unvisited, histVars
<1> QED
  BY <1>1, <1>2, <1>3, <1>4, <1>5, <1>6, <1>7, <1>8, <1>9, <1>10, <1>11, <1>12, <1>13,
     <1>14, <1>15 DEF TickStep

LEMMA SweepType ==
  ASSUME TypeOK, StartSweep \/ SweepStep
  PROVE  TypeOK'
<1> USE DEF TypeOK, Labels
<1>1. CASE StartSweep
  BY <1>1 DEF StartSweep, localVars, histVars
<1>2. CASE SweepList
  <2>1. carrier' \in [Parts -> Row] /\ queue' \subseteq Parts
    BY <1>2, GoneIsRow DEF SweepList
  <2> QED
    BY <1>2, <2>1 DEF SweepList, Goto, Fault, TroubleLeft, NoFault, timerVars, histVars
<1>3. ASSUME NEW p \in Parts, SweepPick(p) PROVE TypeOK'
  <2>1. fill' \subseteq Legs
    BY <1>3 DEF SweepPick, TableLegs, Row
  <2> QED
    BY <1>3, <2>1 DEF SweepPick, Goto, timerVars, histVars
<1>4. CASE SweepResolve
  <2>1. answer' \in Found \cup {NotFound}
    BY <1>4, InputAssumption DEF SweepResolve
  <2>2. fill' \subseteq Legs
    BY <1>4, InputAssumption, AnswerFields DEF SweepResolve
  <2> QED
    BY <1>4, <2>1, <2>2 DEF SweepResolve, Goto, timerVars
<1>5. CASE SweepStamp
  <2>1. row' \in [Parts -> Row]
    BY <1>5, AnswerFields, AirframeRowType, WriteType DEF SweepStamp
  <2> QED
    BY <1>5, <2>1 DEF SweepStamp, Goto, Fault, TroubleLeft, NoFault, timerVars, localVars, histVars
<1>6. CASE SweepFill
  <2>1. row' \in [Parts -> Row]
    BY <1>6, AnswerFields, BackfillRowType, WriteType DEF SweepFill
  <2> QED
    BY <1>6, <2>1 DEF SweepFill, Note, Goto, Fault, TroubleLeft, NoFault, timerVars, localVars
<1>7. CASE EndSweep
  <2>1. carrier' \in [Parts -> Row]
    BY <1>7, GoneIsRow DEF EndSweep, Unvisited
  <2> QED
    BY <1>7, <2>1 DEF EndSweep, Unvisited, timerVars, histVars, Time
<1> QED
  BY <1>1, <1>2, <1>3, <1>4, <1>5, <1>6, <1>7 DEF SweepStep

LEMMA OutsideType ==
  ASSUME TypeOK, AdvanceClock \/ Handler \/ Crash
  PROVE  TypeOK'
<1> USE DEF TypeOK, Labels
<1>1. CASE AdvanceClock
  <2>1. now' \in Time
    BY <1>1 DEF AdvanceClock, Time
  <2>2. mainLeft' \in 1 .. Interval /\ sweepLeft' \in 1 .. SweepInterval
    BY <1>1, Tickers DEF AdvanceClock, timerVars
  <2>3. mainDue' \in BOOLEAN /\ sweepDue' \in BOOLEAN
    <3>1. CASE booting
      BY <1>1, <3>1 DEF AdvanceClock, timerVars
    <3>2. CASE ~booting
      BY <1>1, <3>2 DEF AdvanceClock
    <3> QED
      BY <3>1, <3>2
  <2> QED
    BY <1>1, <2>1, <2>2, <2>3 DEF AdvanceClock, localVars, histVars
<1>2. ASSUME NEW p \in Parts, NEW l \in Legs, EditCoords(p, l) PROVE TypeOK'
  <2>1. row' \in [Parts -> Row]
    BY <1>2, EditType DEF EditCoords, Request
  <2> QED
    BY <1>2, <2>1 DEF EditCoords, Request, TroubleLeft, timerVars, localVars, histVars
<1>3. ASSUME NEW p \in Parts, DismissPart(p) PROVE TypeOK'
  <2>1. row' \in [Parts -> Row]
    BY <1>3, EditType DEF DismissPart, Request
  <2> QED
    BY <1>3, <2>1 DEF DismissPart, Request, TroubleLeft, timerVars, localVars, histVars
<1>4. ASSUME NEW p \in Parts, DeletePart(p) PROVE TypeOK'
  <2>1. row' \in [Parts -> Row]
    BY <1>4, GoneIsRow DEF DeletePart
  <2> QED
    BY <1>4, <2>1 DEF DeletePart, Request, TroubleLeft, timerVars, localVars
<1>5. CASE Crash
  <2>1. carrier' \in [Parts -> Row]
    BY <1>5, GoneIsRow DEF Crash, Unvisited
  <2>2. crashes' \in Nat /\ faults + crashes' + edits <= MaxTroubles
    BY <1>5 DEF Crash, TroubleLeft
  <2>3. mainLeft' \in 1 .. Interval /\ sweepLeft' \in 1 .. SweepInterval /\ tnow' \in Time
    BY <1>5, Tickers DEF Crash, Unvisited
  <2> QED
    BY <1>5, <2>1, <2>2, <2>3 DEF Crash, Unvisited, histVars
<1> QED
  BY <1>1, <1>2, <1>3, <1>4, <1>5 DEF Handler

LEMMA StutterType == TypeOK /\ UNCHANGED vars => TypeOK'
  BY DEF TypeOK, vars, timerVars, localVars, histVars

\* In every reachable state each variable has its type: no statement of the
\* poller or of a handler writes a row outside the table's domain.
THEOREM TypeCorrect == Spec => []TypeOK
<1>1. TypeOK /\ [Next]_vars => TypeOK'
  BY TickType, SweepType, OutsideType, StutterType DEF Next
<1> QED
  BY InitType, <1>1, PTL DEF Spec

-----------------------------------------------------------------------------
(* Alerts and final statuses                                                *)

\* The step leaves what the alerts are computed from as it was.
SameFlights ==
    \A p \in Parts : /\ row'[p].live = row[p].live
                     /\ row'[p].gate = row[p].gate
                     /\ row'[p].status = row[p].status

\* Backfill, airframe and signature writes do not touch gate or status.
LEMMA QuietWrites ==
  ASSUME TypeOK, NEW p \in Parts, NEW legs, NEW frame,
         \/ Write(p, BackfillRow(row[p], legs, frame))
         \/ Write(p, AirframeRow(row[p], frame))
         \/ Write(p, [row[p] EXCEPT !.sig = AlertSignature(p, row[p])])
  PROVE  SameFlights
<1>1. row \in [Parts -> Row]
  BY DEF TypeOK
<1>2. ASSUME NEW r, Write(p, r), r.live = row[p].live, r.gate = row[p].gate,
             r.status = row[p].status
      PROVE  SameFlights
  BY <1>1, <1>2 DEF Write, SameFlights
<1>3. row[p] \in Row
  BY <1>1
<1>4. CASE Write(p, BackfillRow(row[p], legs, frame))
  BY <1>2, <1>3, <1>4 DEF BackfillRow, Row
<1>5. CASE Write(p, AirframeRow(row[p], frame))
  BY <1>2, <1>3, <1>5 DEF AirframeRow, Row
<1>6. CASE Write(p, [row[p] EXCEPT !.sig = AlertSignature(p, row[p])])
  BY <1>2, <1>3, <1>6 DEF Row
<1> QED
  BY <1>4, <1>5, <1>6

\* The gate write changes the gate of one part, and nothing else alerts look at.
LEMMA GateWrite ==
  ASSUME TypeOK, NEW p \in Parts, NEW gate, Write(p, GateRow(row[p], gate))
  PROVE  /\ \A q \in Parts : row'[q].live = row[q].live /\ row'[q].status = row[q].status
         /\ \A q \in Parts \ {p} : row'[q].gate = row[q].gate
  BY DEF TypeOK, Write, GateRow, Row

\* The status refresh keeps the gate, and never cancels or diverts a flight.
LEMMA StatusWrite ==
  ASSUME TypeOK, NEW p \in Parts, Write(p, StatusRow(p, row[p]))
  PROVE  /\ \A q \in Parts : row'[q].live = row[q].live /\ row'[q].gate = row[q].gate
         /\ \A q \in Parts \ {p} : row'[q].status = row[q].status
         /\ row[p].status \notin Final => row'[p].status \notin {"Cancelled", "Diverted"}
  BY DEF TypeOK, Write, StatusRow, DerivedStatus, Row, Status, Final

LEMMA InitAlert == Init => AlertInv
  BY DEF Init, AlertInv, JobOK, WaitingOK, CurrentOK, EachOnce, BeforeGate, AfterGate,
         Refreshing

LEMMA TickAlert ==
  ASSUME TypeOK, AlertInv, StartTick \/ TickStep
  PROVE  AlertInv'
<1> USE DEF AlertInv, JobOK, WaitingOK, CurrentOK, EachOnce, BeforeGate, AfterGate,
            Refreshing
<1>0. cur \in Parts /\ queue \subseteq Parts /\ unalerted \in [Parts -> Int]
      /\ row \in [Parts -> Row] /\ carrier \in [Parts -> Row]
  BY DEF TypeOK
<1>1. CASE StartTick
  BY <1>0, <1>1 DEF StartTick, localVars, histVars
<1>2. CASE TickList
  <2>1. \A p \in queue' : row'[p].status \notin Final /\ carrier'[p].gate = row'[p].gate
    BY <1>2 DEF TickList, Active
  <2> QED
    BY <1>0, <1>2, <2>1 DEF TickList, Goto, timerVars, histVars
<1>3. ASSUME NEW p \in Parts, TickSkip(p) PROVE AlertInv'
  <2>1. \A q \in queue' : q \in queue /\ carrier'[q] = carrier[q]
    BY <1>0, <1>3 DEF TickSkip, Leave
  <2> QED
    BY <1>0, <1>3, <2>1 DEF TickSkip, Leave, Goto, histVars
<1>4. ASSUME NEW p \in Parts, TickPick(p) PROVE AlertInv'
  BY <1>0, <1>4 DEF TickPick, InOrder, Goto, histVars
<1>5. CASE Resolve
  BY <1>0, <1>5 DEF Resolve, Goto
<1>6. CASE Backfill
  <2>1. CASE UNCHANGED row
    BY <1>0, <1>6, <2>1 DEF Backfill, Goto, localVars, histVars
  <2>2. CASE SameFlights
    BY <1>0, <1>6, <2>2 DEF Backfill, Goto, localVars, histVars, SameFlights
  <2> QED
    BY <1>0, <1>6, <2>1, <2>2, QuietWrites DEF Backfill
<1>7. CASE Airframe
  <2>1. CASE UNCHANGED row
    BY <1>0, <1>7, <2>1 DEF Airframe, Goto, localVars, histVars
  <2>2. CASE SameFlights
    BY <1>0, <1>7, <2>2 DEF Airframe, Goto, localVars, histVars, SameFlights
  <2> QED
    BY <1>0, <1>7, <2>1, <2>2, QuietWrites DEF Airframe
<1>8. CASE WriteGate
  <2>1. CASE Write(cur, GateRow(row[cur], answer.gate))
               /\ unalerted' = [unalerted EXCEPT ![cur] = IF row'[cur].gate # row[cur].gate
                                                          THEN @ + 1 ELSE @]
               /\ Goto("reload")
    <3>1. /\ \A q \in Parts : row'[q].live = row[q].live /\ row'[q].status = row[q].status
          /\ \A q \in Parts \ {cur} : row'[q].gate = row[q].gate
      BY <1>0, <2>1, GateWrite
    <3>2. /\ EachOnce'
          /\ row'[cur].gate # row[cur].gate => unalerted'[cur] >= 1
      BY <1>0, <2>1
    <3> QED
      BY <1>0, <1>8, <2>1, <3>1, <3>2 DEF WriteGate, Goto, localVars
  <2>2. CASE UNCHANGED <<row, unalerted>> /\ Goto("status")
    BY <1>0, <1>8, <2>2 DEF WriteGate, Goto, localVars
  <2> QED
    BY <1>8, <2>1, <2>2 DEF WriteGate
<1>9. CASE Reload
  BY <1>0, <1>9 DEF Reload, Goto, histVars
<1>10. CASE RefreshStatus
  <2>1. CASE UNCHANGED row
    BY <1>0, <1>10, <2>1 DEF RefreshStatus, Goto, Final
  <2>2. CASE Write(cur, StatusRow(cur, row[cur]))
    <3>1. /\ \A q \in Parts : row'[q].live = row[q].live /\ row'[q].gate = row[q].gate
          /\ \A q \in Parts \ {cur} : row'[q].status = row[q].status
          /\ row[cur].status \notin Final => row'[cur].status \notin {"Cancelled", "Diverted"}
      BY <1>0, <2>2, StatusWrite
    <3> QED
      BY <1>0, <1>10, <3>1 DEF RefreshStatus, Goto
  <2> QED
    BY <1>10, <2>1, <2>2 DEF RefreshStatus
<1>11. CASE Diff
  <2>1. row[cur].live /\ ShouldAlert(cur) => row[cur].gate # carrier[cur].gate
    <3>1. DepDelay[cur] \in Nat /\ ~DelayGrew(cur, carrier[cur], row[cur])
      BY <1>0 DEF DelayGrew
    <3>2. row[cur].live => row[cur].status \notin {"Cancelled", "Diverted"}
      BY <1>11 DEF Diff
    <3> QED
      BY <3>1, <3>2 DEF ShouldAlert, ChangeKind, GateChanged
  <2> QED
    BY <1>0, <1>11, <2>1 DEF Diff, Goto, localVars, histVars
<1>12. CASE Dispatch
  BY <1>0, <1>12 DEF Dispatch, Goto, localVars
<1>13. CASE Stamp
  <2>1. CASE UNCHANGED row
    BY <1>0, <1>13, <2>1 DEF Stamp, Goto, localVars, histVars
  <2>2. CASE SameFlights
    BY <1>0, <1>13, <2>2 DEF Stamp, Goto, localVars, histVars, SameFlights
  <2> QED
    BY <1>0, <1>13, <2>1, <2>2, QuietWrites DEF Stamp
<1>14. CASE Publish
  <2>1. job = "tick" => \A q \in queue : carrier'[q] = carrier[q]
    BY <1>0, <1>14 DEF Publish, Leave
  <2>2. pc' = (IF job = "tick" THEN "tickPick" ELSE "sweepPick") /\ UNCHANGED <<row, queue, job, cur>>
    BY <1>14 DEF Publish, Leave, Goto
  <2>3. UNCHANGED unalerted
    BY <1>14 DEF Publish
  <2> QED
    BY <1>0, <2>1, <2>2, <2>3 DEF TypeOK
<1>15. CASE EndTick
  BY <1>0, <1>15 DEF EndTick, Unvisited, histVars
<1> QED
  BY <1>1, <1>2, <1>3, <1>4, <1>5, <1>6, <1>7, <1>8, <1>9, <1>10, <1>11, <1>12, <1>13,
     <1>14, <1>15 DEF TickStep

LEMMA SweepAlert ==
  ASSUME TypeOK, AlertInv, StartSweep \/ SweepStep
  PROVE  AlertInv'
<1> USE DEF AlertInv, JobOK, WaitingOK, CurrentOK, EachOnce, BeforeGate, AfterGate,
            Refreshing
<1>0. cur \in Parts /\ queue \subseteq Parts
  BY DEF TypeOK
<1>1. CASE StartSweep
  BY <1>1 DEF StartSweep, localVars, histVars
<1>2. CASE SweepList
  BY <1>2 DEF SweepList, Goto, histVars
<1>3. ASSUME NEW p \in Parts, SweepPick(p) PROVE AlertInv'
  BY <1>3 DEF SweepPick, Goto, histVars
<1>4. CASE SweepResolve
  BY <1>4 DEF SweepResolve, Goto
<1>5. CASE SweepStamp
  BY <1>5 DEF SweepStamp, Goto, localVars, histVars
<1>6. CASE SweepFill
  BY <1>6 DEF SweepFill, Goto, localVars
<1>7. CASE EndSweep
  BY <1>7 DEF EndSweep, Unvisited, histVars
<1> QED
  BY <1>1, <1>2, <1>3, <1>4, <1>5, <1>6, <1>7 DEF SweepStep

LEMMA OutsideAlert ==
  ASSUME TypeOK, AlertInv, AdvanceClock \/ Handler \/ Crash
  PROVE  AlertInv'
<1> USE DEF AlertInv, JobOK, WaitingOK, CurrentOK, EachOnce, BeforeGate, AfterGate,
            Refreshing
<1>0. cur \in Parts /\ queue \subseteq Parts /\ row \in [Parts -> Row]
  BY DEF TypeOK
<1>1. CASE AdvanceClock
  BY <1>1 DEF AdvanceClock, localVars, histVars
<1>2. ASSUME NEW p \in Parts, NEW l \in Legs, EditCoords(p, l) PROVE AlertInv'
  <2>1. SameFlights
    BY <1>0, <1>2 DEF EditCoords, SameFlights, Row
  <2> QED
    BY <1>0, <1>2, <2>1 DEF EditCoords, Request, SameFlights, localVars, histVars
<1>3. ASSUME NEW p \in Parts, DismissPart(p) PROVE AlertInv'
  <2>1. SameFlights
    BY <1>0, <1>3 DEF DismissPart, SameFlights, Row
  <2> QED
    BY <1>0, <1>3, <2>1 DEF DismissPart, Request, SameFlights, localVars, histVars
<1>4. ASSUME NEW p \in Parts, DeletePart(p) PROVE AlertInv'
  <2>1. \A q \in Parts : row'[q].live => row'[q] = row[q] /\ row[q].live
    BY <1>0, <1>4 DEF DeletePart, Gone
  <2> QED
    BY <1>0, <1>4, <2>1 DEF DeletePart, Request, localVars
<1>5. CASE Crash
  BY <1>5 DEF Crash, Unvisited, histVars
<1> QED
  BY <1>1, <1>2, <1>3, <1>4, <1>5 DEF Handler

LEMMA StutterAlert == AlertInv /\ UNCHANGED vars => AlertInv'
  BY DEF AlertInv, JobOK, WaitingOK, CurrentOK, EachOnce, vars, localVars, histVars

LEMMA AlertInductive == Spec => []AlertInv
<1>1. TypeOK /\ AlertInv /\ [Next]_vars => AlertInv'
  BY TickAlert, SweepAlert, OutsideAlert, StutterAlert DEF Next
<1> QED
  BY InitAlert, <1>1, TypeCorrect, PTL DEF Spec

\* As long as the process does not die, no alert is sent without a gate change of its
\* own, whatever writes of the dedupe signature fail and in how many refreshes.
THEOREM NoAlertTwice == Spec => []AlertsBounded
<1>1. AlertInv => AlertsBounded
  BY DEF AlertInv, EachOnce, AlertsBounded
<1> QED
  BY <1>1, AlertInductive, PTL

\* Of the steps of the poller and the handlers only the status refresh changes
\* the status of a flight.
LEMMA OtherStatusKept ==
  ASSUME TypeOK, Next, ~RefreshStatus, NEW p \in Parts, row'[p].live
  PROVE  row'[p].status = row[p].status
<1>0. cur \in Parts /\ row \in [Parts -> Row]
  BY DEF TypeOK
<1>1. CASE SameFlights
  BY <1>1 DEF SameFlights
<1>2. CASE UNCHANGED row
  BY <1>2
<1>3. CASE Backfill \/ Airframe \/ Stamp \/ SweepStamp \/ SweepFill
  BY <1>0, <1>1, <1>2, <1>3, QuietWrites DEF Backfill, Airframe, Stamp, SweepStamp, SweepFill
<1>4. CASE WriteGate
  BY <1>0, <1>2, <1>4, GateWrite DEF WriteGate
<1>5. CASE Handler
  <2>1. ASSUME NEW q \in Parts, NEW l \in Legs, EditCoords(q, l)
        PROVE  row'[p].status = row[p].status
    BY <1>0, <2>1 DEF EditCoords, Row
  <2>2. ASSUME NEW q \in Parts, DismissPart(q)
        PROVE  row'[p].status = row[p].status
    BY <1>0, <2>2 DEF DismissPart, Row
  <2>3. ASSUME NEW q \in Parts, DeletePart(q)
        PROVE  row'[p].status = row[p].status
    BY <1>0, <2>3 DEF DeletePart, Gone
  <2> QED
    BY <1>5, <2>1, <2>2, <2>3 DEF Handler
<1>6. CASE StartTick \/ TickList \/ Resolve \/ Reload \/ Diff \/ Dispatch \/ Publish \/ EndTick
  BY <1>2, <1>6 DEF StartTick, TickList, Resolve, Reload, Diff, Dispatch, Publish, EndTick
<1>7. CASE StartSweep \/ SweepList \/ SweepResolve \/ EndSweep \/ AdvanceClock \/ Crash
  BY <1>2, <1>7 DEF StartSweep, SweepList, SweepResolve, EndSweep, AdvanceClock, Crash
<1>8. ASSUME NEW q \in Parts, TickSkip(q) \/ TickPick(q) \/ SweepPick(q)
      PROVE  row'[p].status = row[p].status
  BY <1>2, <1>8 DEF TickSkip, TickPick, SweepPick
<1> QED
  BY <1>3, <1>4, <1>5, <1>6, <1>7, <1>8 DEF Next, TickStep, SweepStep

\* A flight that has arrived, or was cancelled or diverted, stays so: the tick
\* that would refresh it has not listed it, and none refreshes a part twice.
THEOREM FinalStatusIsFinal == Spec => FinalStatusKept
<1>1. ASSUME TypeOK, AlertInv, Next
      PROVE  \A p \in Parts : row'[p].live /\ row[p].status \in Final
                                  => row'[p].status = row[p].status
  <2>1. CASE RefreshStatus
    <3>1. cur \in Parts /\ (row[cur].live => row[cur].status \notin Final)
      BY <1>1, <2>1 DEF TypeOK, AlertInv, CurrentOK, AfterGate, RefreshStatus
    <3>2. CASE UNCHANGED row
      BY <3>2
    <3>3. CASE Write(cur, StatusRow(cur, row[cur]))
      BY <1>1, <3>1, <3>3, StatusWrite
    <3> QED
      BY <2>1, <3>2, <3>3 DEF RefreshStatus
  <2>2. CASE ~RefreshStatus
    BY <1>1, <2>2, OtherStatusKept
  <2> QED
    BY <2>1, <2>2
<1>2. TypeOK /\ AlertInv /\ [Next]_vars =>
        [\A p \in Parts : row'[p].live /\ row[p].status \in Final
                              => row'[p].status = row[p].status]_row
  BY <1>1 DEF vars
<1> QED
  BY <1>2, TypeCorrect, AlertInductive, PTL DEF Spec, FinalStatusKept

-----------------------------------------------------------------------------
(* Coordinates and broadcasts                                               *)

\* Backfill fills only what is missing, so it cannot replace what a user typed
\* between the moment its carrier was read and the moment it writes.
LEMMA BackfillKeepsUser ==
  ASSUME TypeOK, NEW q \in Parts, NEW legs, NEW frame,
         Write(q, BackfillRow(row[q], legs, frame)),
         NEW p \in Parts, NEW l \in Legs, row[p].coord[l] = "user"
  PROVE  row'[p].coord[l] = "user"
<1>1. row \in [Parts -> Row]
  BY DEF TypeOK
<1>2. BackfillRow(row[q], legs, frame).coord
        = [k \in Legs |-> IF k \in legs /\ row[q].coord[k] = "none" THEN "filled"
                          ELSE row[q].coord[k]]
  BY <1>1 DEF BackfillRow, Row
<1> QED
  BY <1>1, <1>2 DEF Write

\* The other statements of the poller leave the coordinates alone.
LEMMA CoordQuiet ==
  ASSUME TypeOK, NEW q \in Parts, NEW x,
         \/ Write(q, AirframeRow(row[q], x))
         \/ Write(q, GateRow(row[q], x))
         \/ Write(q, StatusRow(q, row[q]))
         \/ Write(q, [row[q] EXCEPT !.sig = AlertSignature(q, row[q])]),
         NEW p \in Parts
  PROVE  row'[p].coord = row[p].coord
<1>1. row \in [Parts -> Row]
  BY DEF TypeOK
<1>2. ASSUME NEW r, Write(q, r), r.coord = row[q].coord
      PROVE  row'[p].coord = row[p].coord
  BY <1>1, <1>2 DEF Write
<1>3. row[q] \in Row
  BY <1>1
<1>4. CASE Write(q, AirframeRow(row[q], x))
  BY <1>2, <1>3, <1>4 DEF AirframeRow, Row
<1>5. CASE Write(q, GateRow(row[q], x))
  BY <1>2, <1>3, <1>5 DEF GateRow, Row
<1>6. CASE Write(q, StatusRow(q, row[q]))
  BY <1>2, <1>3, <1>6 DEF StatusRow, Row
<1>7. CASE Write(q, [row[q] EXCEPT !.sig = AlertSignature(q, row[q])])
  BY <1>2, <1>3, <1>7 DEF Row
<1> QED
  BY <1>4, <1>5, <1>6, <1>7

\* Coordinates a user typed are never replaced by a running job.
THEOREM UserCoordsSafe == Spec => UserCoordsKept
<1>1. ASSUME TypeOK, Next, NEW p \in Parts, NEW l \in Legs, row'[p].live,
             row[p].coord[l] = "user"
      PROVE  row'[p].coord[l] = "user"
  <2>0. cur \in Parts /\ row \in [Parts -> Row]
    BY <1>1 DEF TypeOK
  <2>1. CASE UNCHANGED row
    BY <1>1, <2>1
  <2>2. CASE Backfill \/ SweepFill
    BY <1>1, <2>0, <2>1, <2>2, BackfillKeepsUser DEF Backfill, SweepFill
  <2>3. CASE Airframe \/ WriteGate \/ RefreshStatus \/ Stamp \/ SweepStamp
    BY <1>1, <2>0, <2>1, <2>3, CoordQuiet DEF Airframe, WriteGate, RefreshStatus, Stamp, SweepStamp
  <2>4. ASSUME NEW q \in Parts, NEW k \in Legs, EditCoords(q, k)
        PROVE  row'[p].coord[l] = "user"
    <3>1. row'[p].coord = row[p].coord \/ row'[p].coord = [row[p].coord EXCEPT ![k] = "user"]
      BY <2>0, <2>4 DEF EditCoords, Row
    <3> QED
      BY <1>1, <2>0, <3>1 DEF Row
  <2>5. ASSUME NEW q \in Parts, DismissPart(q)
        PROVE  row'[p].coord[l] = "user"
    BY <1>1, <2>0, <2>5 DEF DismissPart, Row
  <2>9. ASSUME NEW q \in Parts, DeletePart(q)
        PROVE  row'[p].coord[l] = "user"
    BY <1>1, <2>0, <2>9 DEF DeletePart, Gone
  <2>6. CASE StartTick \/ TickList \/ Resolve \/ Reload \/ Diff \/ Dispatch \/ Publish \/ EndTick
    BY <2>1, <2>6 DEF StartTick, TickList, Resolve, Reload, Diff, Dispatch, Publish, EndTick
  <2>7. CASE StartSweep \/ SweepList \/ SweepResolve \/ EndSweep \/ AdvanceClock \/ Crash
    BY <2>1, <2>7 DEF StartSweep, SweepList, SweepResolve, EndSweep, AdvanceClock, Crash
  <2>8. ASSUME NEW q \in Parts, TickSkip(q) \/ TickPick(q) \/ SweepPick(q)
        PROVE  row'[p].coord[l] = "user"
    BY <2>1, <2>8 DEF TickSkip, TickPick, SweepPick
  <2> QED
    BY <1>1, <2>2, <2>3, <2>4, <2>5, <2>6, <2>7, <2>8, <2>9 DEF Next, TickStep, SweepStep, Handler
<1>2. TypeOK /\ [Next]_vars =>
        [\A p \in Parts, l \in Legs :
            row'[p].live /\ row[p].coord[l] = "user" => row'[p].coord[l] = "user"]_row
  BY <1>1 DEF vars
<1> QED
  BY <1>2, TypeCorrect, PTL DEF Spec, UserCoordsKept

\* A write of cur leaves at most cur to be announced, and cancels the excuse of an
\* earlier broadcast that failed.
LEMMA NotedChange ==
  ASSUME NEW changed, Note(changed)
  PROVE  unannounced' \ missed' \subseteq (unannounced \ missed) \cup {cur}
  BY DEF Note

\* When the poller rests, every status and every coordinate it changed, in a tick's
\* backfill and in a sweep, has been broadcast, whatever calls failed in between,
\* unless it was the read-back for the broadcast that failed.
THEOREM NothingUnannounced == Spec => []ChangesAnnounced
<1> USE DEF AnnouncedInv, Refreshing, BeforeGate, AfterGate
<1>1. Init => AnnouncedInv
  BY DEF Init
<1>2. ASSUME TypeOK, AnnouncedInv, [Next]_vars
      PROVE  AnnouncedInv'
  <2>0. crashes \in Nat
    BY <1>2 DEF TypeOK
  <2>1. CASE StartTick \/ StartSweep \/ TickList \/ SweepList \/ EndTick \/ EndSweep
    BY <1>2, <2>1 DEF StartTick, StartSweep, TickList, SweepList, EndTick, EndSweep, Goto,
       localVars, histVars
  <2>2. ASSUME NEW p \in Parts, TickSkip(p) \/ TickPick(p) \/ SweepPick(p)
        PROVE  AnnouncedInv'
    BY <1>2, <2>2 DEF TickSkip, TickPick, SweepPick, Goto, histVars
  <2>3. CASE Resolve \/ SweepResolve
    BY <1>2, <2>3 DEF Resolve, SweepResolve, Goto
  <2>4. CASE Backfill
    <3>1. /\ UNCHANGED <<crashes, cur>>
          /\ \/ pc' = "airframe" /\ Note(row'[cur].coord # row[cur].coord)
             \/ pc' = "status" /\ UNCHANGED <<unannounced, missed>>
      BY <2>4 DEF Backfill, Goto, localVars
    <3> QED
      BY <1>2, <2>4, <3>1, NotedChange DEF Backfill
  <2>5. CASE Airframe \/ Reload \/ Diff \/ Stamp \/ SweepStamp
    BY <1>2, <2>5 DEF Airframe, Reload, Diff, Stamp, SweepStamp, Goto, localVars, histVars
  <2>6. CASE WriteGate \/ Dispatch
    BY <1>2, <2>6 DEF WriteGate, Dispatch, Goto, localVars
  <2>7. CASE RefreshStatus
    <3>1. /\ UNCHANGED <<crashes, cur>> /\ pc' = "diff"
          /\ Note(row'[cur].status # row[cur].status) \/ UNCHANGED <<unannounced, missed>>
      BY <2>7 DEF RefreshStatus, Goto
    <3> QED
      BY <1>2, <2>7, <3>1, NotedChange DEF RefreshStatus
  <2>8. CASE Publish
    BY <1>2, <2>8 DEF Publish, Goto, Leave
  <2>9. CASE SweepFill
    <3>1. /\ UNCHANGED <<crashes, cur>>
          /\ \/ pc' = "publish" /\ Note(row'[cur].coord # row[cur].coord)
             \/ pc' = "sweepPick" /\ UNCHANGED <<unannounced, missed>>
      BY <2>9 DEF SweepFill, Goto, localVars
    <3> QED
      BY <1>2, <2>9, <3>1, NotedChange DEF SweepFill
  <2>10. CASE AdvanceClock \/ Handler
    BY <1>2, <2>10 DEF AdvanceClock, Handler, EditCoords, DismissPart, DeletePart, Request,
       localVars, histVars
  <2>11. CASE Crash
    BY <2>0, <2>11 DEF Crash
  <2>12. CASE UNCHANGED vars
    BY <1>2, <2>12 DEF vars, localVars, histVars
  <2> QED
    BY <1>2, <2>1, <2>2, <2>3, <2>4, <2>5, <2>6, <2>7, <2>8, <2>9, <2>10, <2>11, <2>12
       DEF Next, TickStep, SweepStep
<1>3. AnnouncedInv => ChangesAnnounced
  BY DEF ChangesAnnounced
<1> QED
  BY <1>1, <1>2, <1>3, TypeCorrect, PTL DEF Spec

-----------------------------------------------------------------------------
(* The throttle of the resolver                                             *)

\* Between picking a part and going on to the next, and between asking the
\* resolver about it and stamping last_resolved_at.
Visiting == Refreshing \cup {"sweepResolve", "sweepStamp", "sweepFill"}
Asked == {"backfill", "airframe", "sweepStamp"}

\* No part is visited twice in a job, and time does not run backwards.
VisitInv ==
    /\ tnow <= now /\ \A p \in Parts : lastCall[p] <= now
    /\ pc \in Visiting => cur \notin queue

\* Every call is on its row, but for the one that waits for its stamp; and the
\* carriers of the parts still to be asked about show it, since a job asks about
\* a part but once.
StampedInv ==
    faults = 0 /\ crashes = 0 =>
        /\ \A p \in Parts : row[p].live /\ (p = cur => pc \notin Asked)
                                => row[p].resolved >= lastCall[p]
        /\ \A p \in queue : carrier[p].resolved >= lastCall[p]
        /\ pc \in {"resolve", "sweepResolve"} => carrier[cur].resolved >= lastCall[cur]

\* Whoever is about to ask was let through by the carrier.
AdmittedInv ==
    /\ pc = "resolve" => NeedsBackfill(carrier[cur]) \/ NeedsLateRefresh(cur, carrier[cur])
    /\ pc = "sweepResolve" => ThrottleAllowed(carrier[cur])

ThrottleInv == VisitInv /\ StampedInv /\ AdmittedInv

\* Of all statements only the one that stamps a part changes last_resolved_at.
SameStamps ==
    \A p \in Parts : row'[p].live => row[p].live /\ row'[p].resolved = row[p].resolved

LEMMA StampQuiet ==
  ASSUME TypeOK, NEW q \in Parts, NEW x, NEW y,
         \/ Write(q, BackfillRow(row[q], x, y))
         \/ Write(q, GateRow(row[q], x))
         \/ Write(q, StatusRow(q, row[q]))
         \/ Write(q, [row[q] EXCEPT !.sig = AlertSignature(q, row[q])])
  PROVE  SameStamps
<1>1. row \in [Parts -> Row]
  BY DEF TypeOK
<1>2. ASSUME NEW r, Write(q, r), r.resolved = row[q].resolved
      PROVE  SameStamps
  BY <1>1, <1>2 DEF Write, SameStamps
<1>3. row[q] \in Row
  BY <1>1
<1>4. CASE Write(q, BackfillRow(row[q], x, y))
  BY <1>2, <1>3, <1>4 DEF BackfillRow, Row
<1>5. CASE Write(q, GateRow(row[q], x))
  BY <1>2, <1>3, <1>5 DEF GateRow, Row
<1>6. CASE Write(q, StatusRow(q, row[q]))
  BY <1>2, <1>3, <1>6 DEF StatusRow, Row
<1>7. CASE Write(q, [row[q] EXCEPT !.sig = AlertSignature(q, row[q])])
  BY <1>2, <1>3, <1>7 DEF Row
<1> QED
  BY <1>4, <1>5, <1>6, <1>7

LEMMA StampWrite ==
  ASSUME TypeOK, NEW q \in Parts, NEW x, Write(q, AirframeRow(row[q], x))
  PROVE  /\ \A p \in Parts : row'[p].live => row[p].live
         /\ \A p \in Parts \ {q} : row'[p].resolved = row[p].resolved
         /\ row'[q].live => row'[q].resolved = now
  BY DEF TypeOK, Write, AirframeRow, Row

\* The numbers compared are numbers.
LEMMA Stamps ==
  ASSUME TypeOK
  PROVE  /\ \A p \in Parts : /\ row[p].resolved \in Int /\ lastCall[p] \in Int
                             /\ carrier[p].resolved \in Int
         /\ now \in Int /\ tnow \in Int /\ 0 <= now /\ cur \in Parts /\ queue \subseteq Parts
         /\ faults \in Nat /\ crashes \in Nat
  BY DEF TypeOK, Row, Time, Never

\* A step that stamps nothing, moves no carrier of a part still to visit, makes no
\* call and ends no wait for a stamp keeps the stamps.
LEMMA StampsKept ==
  ASSUME TypeOK, StampedInv, SameStamps,
         faults' = 0 /\ crashes' = 0 => faults = 0 /\ crashes = 0,
         lastCall' = lastCall,
         \A p \in queue' : p \in queue /\ carrier'[p] = carrier[p],
         pc \in Asked => pc' \in Asked /\ cur' = cur,
         pc' \in {"resolve", "sweepResolve"} =>
             /\ carrier'[cur'] = carrier[cur']
             /\ \/ pc' = pc /\ cur' = cur
                \/ cur' \in queue
  PROVE  StampedInv'
<1> SUFFICES ASSUME faults' = 0, crashes' = 0
             PROVE  /\ \A p \in Parts : row'[p].live /\ (p = cur' => pc' \notin Asked)
                                            => row'[p].resolved >= lastCall'[p]
                    /\ \A p \in queue' : carrier'[p].resolved >= lastCall'[p]
                    /\ pc' \in {"resolve", "sweepResolve"} =>
                          carrier'[cur'].resolved >= lastCall'[cur']
  BY DEF StampedInv
<1>1. /\ \A p \in Parts : row[p].live /\ (p = cur => pc \notin Asked)
                             => row[p].resolved >= lastCall[p]
      /\ \A p \in queue : carrier[p].resolved >= lastCall[p]
      /\ pc \in {"resolve", "sweepResolve"} => carrier[cur].resolved >= lastCall[cur]
  BY DEF StampedInv
<1>2. ASSUME NEW p \in Parts, row'[p].live, p = cur' => pc' \notin Asked
      PROVE  row'[p].resolved >= lastCall'[p]
  BY <1>1, <1>2 DEF SameStamps
<1> QED
  BY <1>1, <1>2

LEMMA TickThrottle ==
  ASSUME TypeOK, JobOK, ThrottleInv, StartTick \/ TickStep
  PROVE  ThrottleInv'
<1> USE DEF Visiting, Refreshing, BeforeGate, AfterGate, Asked
<1>0. VisitInv /\ StampedInv /\ AdmittedInv
  BY DEF ThrottleInv
<1>1. CASE StartTick
  <2>1. /\ pc = "idle" /\ pc' = "tickList"
        /\ UNCHANGED <<now, row, localVars, faults, crashes, histVars>>
    BY <1>1 DEF StartTick
  <2>2. VisitInv' /\ AdmittedInv'
    BY <1>0, <2>1 DEF VisitInv, AdmittedInv, localVars, histVars
  <2>3. StampedInv'
    BY <1>0, <2>1, StampsKept DEF SameStamps, localVars, histVars
  <2> QED
    BY <2>2, <2>3 DEF ThrottleInv
<1>2. CASE TickList
  <2>1. /\ pc = "tickList" /\ pc' = "tickPick" /\ tnow' = now /\ now' = now /\ row' = row /\ cur' = cur
        /\ lastCall' = lastCall /\ crashes' = crashes
        /\ faults' = 0 => faults = 0
    BY <1>2, Stamps DEF TickList, Goto, Fault, TroubleLeft, NoFault, histVars
  <2>2. queue' \subseteq Parts /\ \A p \in queue' : row[p].live /\ carrier'[p] = row[p]
    BY <1>2 DEF TickList, Active
  <2>3. VisitInv' /\ AdmittedInv'
    BY <1>0, <2>1, Stamps DEF VisitInv, AdmittedInv
  <2>4. StampedInv'
    BY <1>0, <2>1, <2>2 DEF StampedInv
  <2> QED
    BY <2>3, <2>4 DEF ThrottleInv
<1>3. ASSUME NEW p \in Parts, TickSkip(p) PROVE ThrottleInv'
  <2>1. /\ pc = "tickPick" /\ pc' = "tickPick" /\ queue' = queue \ {p}
        /\ carrier' = [carrier EXCEPT ![p] = Gone]
        /\ UNCHANGED <<now, tnow, cur, row, faults, crashes, lastCall>>
    BY <1>3 DEF TickSkip, Leave, Goto, histVars
  <2>2. VisitInv' /\ AdmittedInv'
    BY <1>0, <2>1 DEF VisitInv, AdmittedInv
  <2>3. \A q \in queue' : q \in queue /\ carrier'[q] = carrier[q]
    BY <2>1 DEF TypeOK
  <2>4. StampedInv'
    BY <1>0, <2>1, <2>3, StampsKept DEF SameStamps
  <2> QED
    BY <2>2, <2>4 DEF ThrottleInv
<1>4. ASSUME NEW p \in Parts, TickPick(p) PROVE ThrottleInv'
  <2>1. /\ pc = "tickPick" /\ p \in queue /\ queue' = queue \ {p} /\ cur' = p
        /\ pc' = IF NeedsBackfill(carrier[p]) \/ NeedsLateRefresh(p, carrier[p])
                 THEN "resolve" ELSE "status"
        /\ UNCHANGED <<now, tnow, row, carrier, faults, crashes, lastCall>>
    BY <1>4 DEF TickPick, InOrder, Goto, histVars
  <2>2. VisitInv'
    BY <1>0, <2>1 DEF VisitInv
  <2>3. AdmittedInv'
    BY <2>1 DEF AdmittedInv, NeedsLateRefresh
  <2>4. StampedInv'
    BY <1>0, <2>1, StampsKept DEF SameStamps
  <2> QED
    BY <2>2, <2>3, <2>4 DEF ThrottleInv
<1>5. CASE Resolve
  <2>1. /\ pc = "resolve" /\ pc' \in {"backfill", "airframe"}
        /\ lastCall' = [lastCall EXCEPT ![cur] = now]
        /\ UNCHANGED <<now, tnow, row, queue, cur, carrier, faults, crashes>>
    BY <1>5 DEF Resolve, Goto
  <2>2. \A p \in Parts : lastCall'[p] = IF p = cur THEN now ELSE lastCall[p]
    BY <2>1 DEF TypeOK
  <2>3. VisitInv'
    BY <1>0, <2>1, <2>2, Stamps DEF VisitInv
  <2>4. AdmittedInv'
    BY <2>1 DEF AdmittedInv
  <2>5. StampedInv'
    BY <1>0, <2>1, <2>2, Stamps DEF VisitInv, StampedInv
  <2> QED
    BY <2>3, <2>4, <2>5 DEF ThrottleInv
<1>6. CASE Backfill
  <2>1. /\ pc = "backfill" /\ pc' \in {"airframe", "status"}
        /\ pc' = "status" => faults' # 0
        /\ faults' = 0 => faults = 0
        /\ UNCHANGED <<now, localVars, crashes, lastCall>>
    BY <1>6, Stamps DEF Backfill, Note, Goto, Fault, TroubleLeft, NoFault, histVars
  <2>2. SameStamps
    BY <1>6, Stamps, StampQuiet DEF Backfill, SameStamps
  <2>3. VisitInv' /\ AdmittedInv'
    BY <1>0, <2>1 DEF VisitInv, AdmittedInv, localVars
  <2>4. CASE pc' = "airframe"
    <3>1. StampedInv'
      BY <1>0, <2>1, <2>2, <2>4, StampsKept DEF localVars
    <3> QED
      BY <2>3, <3>1 DEF ThrottleInv
  <2>5. CASE faults' # 0
    BY <2>3, <2>5 DEF ThrottleInv, StampedInv
  <2> QED
    BY <2>1, <2>4, <2>5
<1>7. CASE Airframe
  <2>1. /\ pc = "airframe" /\ pc' \in {"gate", "status"}
        /\ UNCHANGED <<now, localVars, crashes, lastCall>>
    BY <1>7 DEF Airframe, Goto, histVars
  <2>2. VisitInv' /\ AdmittedInv'
    BY <1>0, <2>1 DEF VisitInv, AdmittedInv, localVars
  <2>3. CASE faults' # 0
    BY <2>2, <2>3 DEF ThrottleInv, StampedInv
  <2>4. CASE faults' = 0
    <3>1. faults = 0 /\ Write(cur, AirframeRow(row[cur], answer.frame))
      BY <1>7, <2>4, Stamps DEF Airframe, Fault, TroubleLeft, NoFault
    <3>2. /\ \A p \in Parts : row'[p].live => row[p].live
          /\ \A p \in Parts \ {cur} : row'[p].resolved = row[p].resolved
          /\ row'[cur].live => row'[cur].resolved = now
      BY <3>1, Stamps, StampWrite
    <3>3. StampedInv'
      BY <1>0, <2>1, <3>1, <3>2, Stamps DEF VisitInv, StampedInv, localVars
    <3> QED
      BY <2>2, <3>3 DEF ThrottleInv
  <2> QED
    BY <2>3, <2>4
<1>8. CASE WriteGate \/ RefreshStatus \/ Stamp
  <2>1. /\ pc \in {"gate", "status", "stamp"} /\ pc' \in {"reload", "status", "diff", "publish"}
        /\ faults' = 0 => faults = 0
        /\ UNCHANGED <<now, tnow, queue, cur, carrier, crashes, lastCall>>
    BY <1>8, Stamps DEF WriteGate, RefreshStatus, Stamp, Goto, Fault, TroubleLeft, NoFault, localVars, histVars
  <2>2. SameStamps
    <3>1. CASE UNCHANGED row
      BY <3>1 DEF SameStamps
    <3> QED
      BY <1>8, <3>1, Stamps, StampQuiet DEF WriteGate, RefreshStatus, Stamp
  <2>3. VisitInv' /\ AdmittedInv'
    BY <1>0, <2>1 DEF VisitInv, AdmittedInv
  <2>4. StampedInv'
    BY <1>0, <2>1, <2>2, StampsKept
  <2> QED
    BY <2>3, <2>4 DEF ThrottleInv
<1>9. CASE Reload \/ Diff \/ Dispatch \/ Publish
  <2>1. /\ pc \in {"reload", "diff", "dispatch", "publish"}
        /\ pc' \in {"status", "dispatch", "publish", "stamp", "tickPick", "sweepPick"}
        /\ faults' = 0 => faults = 0
        /\ UNCHANGED <<now, tnow, queue, cur, row, crashes, lastCall>>
    BY <1>9, Stamps DEF Reload, Diff, Dispatch, Publish, Leave, Goto, Fault, TroubleLeft, NoFault, localVars,
       histVars
  <2>2. \A p \in Parts \ {cur} : carrier'[p] = carrier[p]
    BY <1>9 DEF Reload, Diff, Dispatch, Publish, Leave, localVars, TypeOK
  <2>3. cur \notin queue
    BY <1>0, <2>1 DEF VisitInv
  <2>4. VisitInv' /\ AdmittedInv'
    BY <1>0, <2>1, <2>3 DEF VisitInv, AdmittedInv
  <2>5. StampedInv'
    BY <1>0, <2>1, <2>2, <2>3, Stamps, StampsKept DEF SameStamps
  <2> QED
    BY <2>4, <2>5 DEF ThrottleInv
<1>10. CASE EndTick
  <2>1. /\ pc = "tickPick" /\ pc' = "idle" /\ queue' = {} /\ tnow' = 0
        /\ UNCHANGED <<now, cur, row, faults, crashes, lastCall>>
    BY <1>10 DEF EndTick, Unvisited, histVars
  <2>2. VisitInv' /\ AdmittedInv'
    BY <1>0, <2>1, Stamps DEF VisitInv, AdmittedInv
  <2>3. StampedInv'
    BY <1>0, <2>1, StampsKept DEF SameStamps
  <2> QED
    BY <2>2, <2>3 DEF ThrottleInv
<1> QED
  BY <1>1, <1>2, <1>3, <1>4, <1>5, <1>6, <1>7, <1>8, <1>9, <1>10 DEF TickStep

LEMMA SweepThrottle ==
  ASSUME TypeOK, ThrottleInv, StartSweep \/ SweepStep
  PROVE  ThrottleInv'
<1> USE DEF Visiting, Refreshing, BeforeGate, AfterGate, Asked
<1>0. VisitInv /\ StampedInv /\ AdmittedInv
  BY DEF ThrottleInv
<1>1. CASE StartSweep
  <2>1. /\ pc = "idle" /\ pc' = "sweepList"
        /\ UNCHANGED <<now, row, localVars, faults, crashes, histVars>>
    BY <1>1 DEF StartSweep
  <2>2. VisitInv' /\ AdmittedInv'
    BY <1>0, <2>1 DEF VisitInv, AdmittedInv, localVars, histVars
  <2>3. StampedInv'
    BY <1>0, <2>1, StampsKept DEF SameStamps, localVars, histVars
  <2> QED
    BY <2>2, <2>3 DEF ThrottleInv
<1>2. CASE SweepList
  <2>1. /\ pc = "sweepList" /\ pc' = "sweepPick" /\ tnow' = now /\ now' = now /\ row' = row /\ cur' = cur
        /\ lastCall' = lastCall /\ crashes' = crashes
        /\ faults' = 0 => faults = 0
    BY <1>2, Stamps DEF SweepList, Goto, Fault, TroubleLeft, NoFault, histVars
  <2>2. queue' \subseteq Parts /\ \A p \in queue' : row[p].live /\ carrier'[p] = row[p]
    BY <1>2 DEF SweepList, MissingCoords
  <2>3. VisitInv' /\ AdmittedInv'
    BY <1>0, <2>1, Stamps DEF VisitInv, AdmittedInv
  <2>4. StampedInv'
    BY <1>0, <2>1, <2>2 DEF StampedInv
  <2> QED
    BY <2>3, <2>4 DEF ThrottleInv
<1>3. ASSUME NEW p \in Parts, SweepPick(p) PROVE ThrottleInv'
  <2>1. /\ pc = "sweepPick" /\ p \in queue /\ queue' = queue \ {p} /\ cur' = p
        /\ pc' \in {"sweepResolve", "sweepFill", "sweepPick"}
        /\ pc' = "sweepResolve" => ThrottleAllowed(carrier[p])
        /\ UNCHANGED <<now, tnow, row, carrier, faults, crashes, lastCall>>
    BY <1>3 DEF SweepPick, InOrder, Goto, histVars
  <2>2. VisitInv'
    BY <1>0, <2>1 DEF VisitInv
  <2>3. AdmittedInv'
    BY <2>1 DEF AdmittedInv, ThrottleAllowed
  <2>4. StampedInv'
    BY <1>0, <2>1, StampsKept DEF SameStamps
  <2> QED
    BY <2>2, <2>3, <2>4 DEF ThrottleInv
<1>4. CASE SweepResolve
  <2>1. /\ pc = "sweepResolve" /\ pc' = "sweepStamp"
        /\ lastCall' = [lastCall EXCEPT ![cur] = now]
        /\ UNCHANGED <<now, tnow, row, queue, cur, carrier, faults, crashes>>
    BY <1>4 DEF SweepResolve, Goto
  <2>2. \A p \in Parts : lastCall'[p] = IF p = cur THEN now ELSE lastCall[p]
    BY <2>1 DEF TypeOK
  <2>3. VisitInv'
    BY <1>0, <2>1, <2>2, Stamps DEF VisitInv
  <2>4. AdmittedInv'
    BY <2>1 DEF AdmittedInv
  <2>5. StampedInv'
    BY <1>0, <2>1, <2>2, Stamps DEF VisitInv, StampedInv
  <2> QED
    BY <2>3, <2>4, <2>5 DEF ThrottleInv
<1>5. CASE SweepStamp
  <2>1. /\ pc = "sweepStamp" /\ pc' \in {"sweepFill", "sweepPick"}
        /\ UNCHANGED <<now, localVars, crashes, lastCall>>
    BY <1>5 DEF SweepStamp, Goto, histVars
  <2>2. VisitInv' /\ AdmittedInv'
    BY <1>0, <2>1 DEF VisitInv, AdmittedInv, localVars
  <2>3. CASE faults' # 0
    BY <2>2, <2>3 DEF ThrottleInv, StampedInv
  <2>4. CASE faults' = 0
    <3>1. faults = 0 /\ Write(cur, AirframeRow(row[cur], answer.frame))
      BY <1>5, <2>4, Stamps DEF SweepStamp, Fault, TroubleLeft, NoFault
    <3>2. /\ \A p \in Parts : row'[p].live => row[p].live
          /\ \A p \in Parts \ {cur} : row'[p].resolved = row[p].resolved
          /\ row'[cur].live => row'[cur].resolved = now
      BY <3>1, Stamps, StampWrite
    <3>3. StampedInv'
      BY <1>0, <2>1, <3>1, <3>2, Stamps DEF VisitInv, StampedInv, localVars
    <3> QED
      BY <2>2, <3>3 DEF ThrottleInv
  <2> QED
    BY <2>3, <2>4
<1>6. CASE SweepFill
  <2>1. /\ pc = "sweepFill" /\ pc' \in {"publish", "sweepPick"}
        /\ faults' = 0 => faults = 0
        /\ UNCHANGED <<now, localVars, crashes, lastCall>>
    BY <1>6, Stamps DEF SweepFill, Note, Goto, Fault, TroubleLeft, NoFault
  <2>2. SameStamps
    <3>1. CASE UNCHANGED row
      BY <3>1 DEF SameStamps
    <3> QED
      BY <1>6, <3>1, Stamps, StampQuiet DEF SweepFill
  <2>3. VisitInv' /\ AdmittedInv'
    BY <1>0, <2>1 DEF VisitInv, AdmittedInv, localVars
  <2>4. StampedInv'
    BY <1>0, <2>1, <2>2, StampsKept DEF localVars
  <2> QED
    BY <2>3, <2>4 DEF ThrottleInv
<1>7. CASE EndSweep
  <2>1. /\ pc = "sweepPick" /\ pc' \in {"idle", "tickList"} /\ queue' = {} /\ tnow' = 0
        /\ UNCHANGED <<now, cur, row, faults, crashes, lastCall>>
    BY <1>7 DEF EndSweep, Unvisited, histVars
  <2>2. VisitInv' /\ AdmittedInv'
    BY <1>0, <2>1, Stamps DEF VisitInv, AdmittedInv
  <2>3. StampedInv'
    BY <1>0, <2>1, StampsKept DEF SameStamps
  <2> QED
    BY <2>2, <2>3 DEF ThrottleInv
<1> QED
  BY <1>1, <1>2, <1>3, <1>4, <1>5, <1>6, <1>7 DEF SweepStep

LEMMA OutsideThrottle ==
  ASSUME TypeOK, ThrottleInv, AdvanceClock \/ Handler \/ Crash
  PROVE  ThrottleInv'
<1> USE DEF Visiting, Refreshing, BeforeGate, AfterGate, Asked
<1>0. VisitInv /\ StampedInv /\ AdmittedInv
  BY DEF ThrottleInv
<1>1. CASE AdvanceClock
  <2>1. /\ now' >= now /\ now' \in Int /\ pc \in Waits
        /\ UNCHANGED <<row, pc, localVars, faults, crashes, histVars>>
    BY <1>1, Stamps DEF AdvanceClock
  <2>2. VisitInv'
    BY <1>0, <2>1, Stamps DEF VisitInv, localVars, histVars
  <2>3. AdmittedInv'
    BY <2>1 DEF AdmittedInv, Waits
  <2>4. StampedInv'
    BY <1>0, <2>1 DEF StampedInv, localVars, histVars
  <2> QED
    BY <2>2, <2>3, <2>4 DEF ThrottleInv
<1>2. CASE Handler
  <2>1. PICK p \in Parts :
          \/ DismissPart(p) \/ DeletePart(p)
          \/ \E l \in Legs : EditCoords(p, l)
    BY <1>2 DEF Handler
  <2>2. UNCHANGED <<now, pc, localVars, faults, crashes>>
    BY <2>1 DEF DismissPart, DeletePart, EditCoords, Request
  <2>3. SameStamps /\ \A q \in Parts : lastCall'[q] \in {lastCall[q], Never}
    <3>1. CASE DismissPart(p)
      BY <3>1 DEF DismissPart, Request, SameStamps, TypeOK, Row, histVars
    <3>2. CASE DeletePart(p)
      BY <3>2 DEF DeletePart, SameStamps, TypeOK, Gone
    <3>3. ASSUME NEW l \in Legs, EditCoords(p, l)
          PROVE  SameStamps /\ lastCall' = lastCall
      BY <3>3 DEF EditCoords, Request, SameStamps, TypeOK, Row, histVars
    <3> QED
      BY <2>1, <3>1, <3>2, <3>3
  <2>4. \A q \in Parts : /\ lastCall'[q] <= lastCall[q] /\ lastCall'[q] \in Int
    BY <2>3, Stamps DEF TypeOK, Time, Never
  <2>5. VisitInv'
    BY <1>0, <2>2, <2>4, Stamps DEF VisitInv, localVars
  <2>6. AdmittedInv'
    BY <1>0, <2>2 DEF AdmittedInv, NeedsLateRefresh, ThrottleAllowed, localVars
  <2>7. StampedInv'
    BY <1>0, <2>2, <2>3, <2>4, Stamps DEF StampedInv, SameStamps, localVars
  <2> QED
    BY <2>5, <2>6, <2>7 DEF ThrottleInv
<1>3. CASE Crash
  <2>1. /\ pc' = "sweepList" /\ queue' = {} /\ tnow' = 0 /\ crashes' # 0
        /\ UNCHANGED <<now, lastCall>>
    BY <1>3, Stamps DEF Crash, Unvisited, histVars
  <2> QED
    BY <1>0, <2>1, Stamps DEF ThrottleInv, VisitInv, StampedInv, AdmittedInv
<1> QED
  BY <1>1, <1>2, <1>3

\* While nothing failed, the resolver is asked about a flight again only after the
\* throttle of whoever asks, however ticks, sweeps and requests fall together.
THEOREM ThrottleKept == Spec => ThrottleHonoured
<1>1. Init => ThrottleInv
  <2> SUFFICES ASSUME Init PROVE ThrottleInv
    OBVIOUS
  <2>1. /\ now = 0 /\ tnow = 0 /\ pc = "sweepList" /\ queue = {}
        /\ \A p \in Parts : lastCall[p] = -1
    BY DEF Init, Never
  <2>2. \A p \in Parts : row[p].resolved >= -1
    <3>1. row \in [Parts -> Row]
      BY InitType DEF TypeOK
    <3>2. ASSUME NEW p \in Parts PROVE row[p].resolved >= -1
      <4>1. row[p].resolved \in Time \/ row[p].resolved = -1
        BY <3>1 DEF Row, Never
      <4> QED
        BY <4>1 DEF Time
    <3> QED
      BY <3>2
  <2> QED
    BY <2>1, <2>2 DEF ThrottleInv, VisitInv, StampedInv, AdmittedInv, Visiting, Refreshing,
       BeforeGate, AfterGate
<1>2. ASSUME TypeOK, AlertInv, ThrottleInv, [Next]_vars
      PROVE  ThrottleInv'
  <2>1. CASE UNCHANGED vars
    BY <1>2, <2>1 DEF vars, localVars, histVars, ThrottleInv, VisitInv, StampedInv, AdmittedInv,
       NeedsLateRefresh, ThrottleAllowed
  <2> QED
    BY <1>2, <2>1, TickThrottle, SweepThrottle, OutsideThrottle DEF Next, AlertInv
<1>3. ASSUME TypeOK, ThrottleInv, faults = 0, crashes = 0, pc \in {"resolve", "sweepResolve"},
             pc = "resolve" => ~NeedsBackfill(carrier[cur]), lastCall[cur] # Never
      PROVE  now - lastCall[cur] >= IF pc = "resolve" THEN LateInterval ELSE SweepInterval
  <2>1. carrier[cur].resolved >= lastCall[cur] /\ tnow <= now
    BY <1>3 DEF ThrottleInv, VisitInv, StampedInv
  <2>2. lastCall[cur] >= 0
    BY <1>3 DEF TypeOK, Time, Never
  <2>3. carrier[cur].resolved # Never
    BY <1>3, <2>1, <2>2, Stamps DEF Never
  <2>4. tnow - carrier[cur].resolved >= IF pc = "resolve" THEN LateInterval ELSE SweepInterval
    BY <1>3, <2>3 DEF ThrottleInv, AdmittedInv, NeedsLateRefresh, ThrottleAllowed
  <2> QED
    BY <1>3, <2>1, <2>4, Stamps
<1>4. TypeOK /\ ThrottleInv =>
        [/\ pc \in {"resolve", "sweepResolve"} /\ faults = 0 /\ crashes = 0
         /\ pc = "resolve" => ~NeedsBackfill(carrier[cur])
         /\ lastCall[cur] # Never
         /\ crashes' = crashes /\ pc' # pc
         => now - lastCall[cur] >= IF pc = "resolve" THEN LateInterval ELSE SweepInterval]_vars
  BY <1>3
<1> QED
  BY <1>1, <1>2, <1>4, TypeCorrect, AlertInductive, PTL DEF Spec, ThrottleHonoured
=============================================================================
