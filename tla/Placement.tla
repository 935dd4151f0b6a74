------------------------------ MODULE Placement ------------------------------
(***************************************************************************)
(* The pure part of plan capture: what becomes of the bookings a language  *)
(* model reads out of a text (emailingest/extract.go), how each becomes a  *)
(* proposal with instants (planops/propose.go), the trip it belongs to by  *)
(* date (planops/triptarget.go) and the flight it replaces                 *)
(* (planops/rebook.go).  Instants are hours, days are numbers.             *)
(***************************************************************************)
EXTENDS Integers, Sequences, SequencesExt

CONSTANTS
    Zone,           \* airport |-> hours ahead of UTC; 0 where the table has none
    Timetable       \* <<flight number, day>> |-> the flight the resolver knows

Zero == 0           \* time.Time{}, long before any instant of a booking
Blank == -1         \* "" or a nil pointer
NoSuchDay == -2     \* well-formed, but not in the calendar, as 31 February

ASSUME PlacementAssumption ==
    /\ \A a \in DOMAIN Zone : Zone[a] \in Int
    /\ \A x \in DOMAIN Timetable : Timetable[x].out \in Int /\ Timetable[x].in \in Int

Types == {"flight", "hotel", "train", "ground", "dining", "excursion"}
StartHour == [hotel |-> 15, train |-> 9, ground |-> 9, dining |-> 19, excursion |-> 9]

\* The elements of s that are in keep, in their order.
Only(s, keep) ==
    LET kept[n \in 0..Len(s)] ==
            IF n = 0 THEN <<>> ELSE IF s[n] \in keep THEN Append(kept[n - 1], s[n]) ELSE kept[n - 1] IN
    kept[Len(s)]

-----------------------------------------------------------------------------
(* From the answer of the language model to proposals                      *)

\* What it may answer: plans of parts, in any number.  Zone has the airports of the flights.
Booked == [type : STRING, low : BOOLEAN, ident : STRING, from : STRING, to : STRING,
           day : Int, hour : Int, endDay : Int, endHour : Int]
Texts == Seq([type : STRING, ref : STRING,
              parts : Seq({p \in Booked : p.type = "flight" => {p.from, p.to} \subseteq DOMAIN Zone})])

\* validateFlightPart for a flight, a well-formed start day for the others.
Usable(p) == /\ p.type \in Types /\ ~p.low
             /\ IF p.type = "flight" THEN p.day > 0 ELSE p.day # Blank

\* A plan of which no part is usable is left out.
WithUsable(plan) == [plan EXCEPT !.parts = Only(@, {p \in ToSet(@) : Usable(p)})]
KeepUsable(plans, plan) == IF plan.parts = <<>> THEN plans ELSE Append(plans, plan)
ExtractPlans(answer) ==
    LET plans[n \in 0..Len(answer)] ==
            IF n = 0 THEN <<>> ELSE KeepUsable(plans[n - 1], WithUsable(answer[n])) IN
    plans[Len(answer)]

CombineLocal(day, hour, default) ==
    IF day \in {Blank, NoSuchDay} THEN Zero ELSE 24 * day + (IF hour = Blank THEN default ELSE hour)

ParseLocalInTZ(day, hour, airport) == 24 * day + hour - Zone[airport]

\* An arrival without a day is taken to be on the day of departure, one without an
\* hour to be at the departure.
FlightFromLeg(p) ==
    LET out == IF p.hour # Blank THEN ParseLocalInTZ(p.day, p.hour, p.from) ELSE 24 * p.day
        arrDay == IF p.endDay \in {Blank, NoSuchDay} THEN p.day ELSE p.endDay IN
    [ident |-> p.ident, from |-> p.from, to |-> p.to, out |-> out,
     in |-> IF p.endHour # Blank THEN ParseLocalInTZ(arrDay, p.endHour, p.to) ELSE out]

\* The resolver's schedule if it answers - it does not always - or the text's own.
EnrichFlight(p, answered) ==
    IF <<p.ident, p.day>> \in answered \cap DOMAIN Timetable THEN Timetable[<<p.ident, p.day>>]
    ELSE FlightFromLeg(p)

NoFlight == [ident |-> "", from |-> "", to |-> "", out |-> Zero, in |-> Zero]

ProposePart(p, answered) ==
    LET f == EnrichFlight(p, answered) IN
    IF p.type = "flight" THEN [start |-> f.out, end |-> f.in, flight |-> f]
    ELSE [start  |-> CombineLocal(p.day, p.hour, StartHour[p.type]),
          end    |-> IF p.type = "hotel" /\ p.endDay # Blank THEN CombineLocal(p.endDay, p.endHour, 11)
                     ELSE IF p.type = "train" /\ (p.endDay # Blank \/ p.endHour # Blank)
                     THEN CombineLocal(IF p.endDay = Blank THEN p.day ELSE p.endDay, p.endHour, 9)
                     ELSE Blank,
          flight |-> NoFlight]

Proposals(answer, answered) ==
    LET plans == ExtractPlans(answer) IN
    [i \in 1..Len(plans) |->
        [type |-> plans[i].type, ref |-> plans[i].ref,
         parts |-> [k \in DOMAIN plans[i].parts |-> ProposePart(plans[i].parts[k], answered)]]]

-----------------------------------------------------------------------------
(* The trip a proposal belongs to                                          *)

Later(a, b) == IF a > b THEN a ELSE b
Earlier(a, b) == IF a < b THEN a ELSE b

NoSpan == [start |-> Zero, end |-> Zero]
EndOf(p) == IF p.end = Blank THEN p.start ELSE p.end

PlanSpan(parts) ==
    LET dated == {p \in ToSet(parts) : p.start # Zero} IN
    IF dated = {} THEN NoSpan
    ELSE [start |-> Min({p.start : p \in dated}),
          end   |-> Max({IF p.end = Zero THEN p.start ELSE EndOf(p) : p \in dated})]

\* Part by part, a zero taken for a start not yet set.
Sooner(start, p) == IF start = Zero \/ p.start < start THEN p.start ELSE start
Soonest(parts) ==
    LET start[n \in 0..Len(parts)] == IF n = 0 THEN Zero ELSE Sooner(start[n - 1], parts[n]) IN
    start[Len(parts)]
Latest(parts) == Max({Zero} \cup {EndOf(p) : p \in ToSet(parts)})

\* Over the parts still shown, or else the dates typed in; neither is put in order.
TripSpan(parts, startsOn, endsOn) ==
    IF parts # <<>> /\ (Soonest(parts) # Zero \/ Latest(parts) # Zero)
    THEN [start |-> Soonest(parts), end |-> Latest(parts)]
    ELSE IF startsOn = Blank THEN NoSpan
    ELSE [start |-> startsOn, end |-> IF endsOn = Blank THEN startsOn ELSE endsOn]

Adjacency == 24

OverlapAndGap(a, b) ==
    LET lo == Later(a.start, b.start)  hi == Earlier(a.end, b.end) IN
    IF lo <= hi THEN [overlap |-> hi - lo, gap |-> 0]
    ELSE [overlap |-> 0, gap |-> IF a.end < b.start THEN b.start - a.end ELSE a.start - b.end]

Normal(span) == IF span.end = Zero \/ span.end < span.start THEN [span EXCEPT !.end = span.start] ELSE span
Attaches(plan, span) ==
    LET og == OverlapAndGap(plan, span) IN span # NoSpan /\ (og.overlap > 0 \/ og.gap <= Adjacency)

GapForgotten(best, og) ==   \* faulty: any later trip with as much overlap wins
    best.trip = Blank \/ og.overlap >= best.overlap

Better(best, og) == \/ best.trip = Blank \/ og.overlap > best.overlap
                    \/ og.overlap = best.overlap /\ og.gap < best.gap

NoneYet == [trip |-> Blank, overlap |-> -1, gap |-> 0]
Consider(plan, best, c) ==
    LET og == OverlapAndGap(plan, c.span) IN
    IF Attaches(plan, c.span) /\ Better(best, og)
    THEN [trip |-> c.trip, overlap |-> og.overlap, gap |-> og.gap] ELSE best

\* The candidates, [trip, span], come most recently changed first; Blank for none.
SelectTrip(span, candidates) ==
    LET best[n \in 0..Len(candidates)] ==
            IF n = 0 THEN NoneYet ELSE Consider(Normal(span), best[n - 1], candidates[n]) IN
    IF span.start = Zero THEN Blank ELSE best[Len(candidates)].trip

\* What SelectTrip promises: greatest overlap, then smallest gap, then the first.
IsBestTrip(span, candidates, t) ==
    LET plan == Normal(span)
        og(i) == OverlapAndGap(plan, candidates[i].span)
        fit == {i \in DOMAIN candidates : span.start # Zero /\ Attaches(plan, candidates[i].span)} IN
    IF t = Blank THEN fit = {}
    ELSE \E i \in fit : /\ candidates[i].trip = t
                        /\ \A j \in fit \ {i} :
                              \/ og(i).overlap > og(j).overlap
                              \/ og(i).overlap = og(j).overlap /\ og(i).gap < og(j).gap
                              \/ og(i) = og(j) /\ i < j

-----------------------------------------------------------------------------
(* The flight a proposal replaces                                          *)

NoRef == ""
NoPart == <<>>
Apart(a, b) == IF a > b THEN a - b ELSE b - a

\* 2 for the same number on the same day, 1 for the same route within two days.
Likeness(f, g) ==
    IF f.ident # "" /\ f.ident = g.ident /\ f.out \div 24 = g.out \div 24 THEN 2
    ELSE IF f.from # "" /\ f.to # "" /\ f.from = g.from /\ f.to = g.to /\ Apart(f.out, g.out) <= 48 THEN 1
    ELSE 0

\* The parts that may be taken for the one replaced, of the candidates [part, start, ref,
\* flight]: they come by departure, those that leave at one time in any order.
MatchRebooking(ref, flight, candidates) ==
    LET first(S) == {c.part : c \in {d \in S : \A e \in S : d.start <= e.start}}
        sameRef == {c \in candidates : ref # NoRef /\ c.ref = ref}
        like(score) == {c \in candidates : Likeness(flight, c.flight) = score} IN
    IF sameRef # {} THEN first(sameRef)
    ELSE IF like(2) # {} THEN first(like(2))
    ELSE IF like(1) # {} THEN first(like(1)) ELSE {NoPart}
=============================================================================
