--------------------------- MODULE Placement_proofs ---------------------------
(* What the loops of plan capture compute, for any bookings and any trips.   *)
(* A loop over a sequence is a recursive function of how far it has come;    *)
(* the provers have no induction over those, so the module first derives it  *)
(* from the least element that a non-empty set of naturals has.              *)
EXTENDS Placement, WellFoundedInduction, TLAPS

Spans == [start : Int, end : Int]

-----------------------------------------------------------------------------
(* Loops                                                                     *)

\* What holds at the start of a loop, and after each step if it held before, holds throughout.
LEMMA Upwards ==
  ASSUME NEW N \in Nat, NEW T, 0 \in T, \A n \in 1..N : n - 1 \in T => n \in T
  PROVE  \A n \in 0..N : n \in T
<1> DEFINE Bad == {n \in Nat : n \in 0..N /\ n \notin T}
<1>1. SUFFICES ASSUME Bad # {} PROVE FALSE
  OBVIOUS
<1>2. Bad \subseteq Nat
  OBVIOUS
<1>3. PICK x \in Bad : \A y \in Bad : ~(<<y, x>> \in OpToRel(<, Nat))
  BY <1>1, <1>2, WFMin, NatLessThanWellFounded
<1>4. \A y \in Bad : ~(y < x)
  BY <1>2, <1>3 DEF OpToRel
<1>5. x # 0 /\ x - 1 \in Nat /\ x - 1 \in 0..N
  OBVIOUS
<1>6. x - 1 \in T
  BY <1>4, <1>5
<1> QED
  BY <1>5, <1>6

\* A loop from base, whose n-th step is step[n], has come to f[n] after it.
Comes(N, base, step, f) == \A n \in 0..N : f[n] = IF n = 0 THEN base ELSE step[n][f[n - 1]]

\* A loop whose n-th step is a function of what it has come to is a function of n.
LEMMA Loop ==
  ASSUME NEW N \in Nat, NEW S, NEW base \in S, NEW step \in [1..N -> [S -> S]]
  PROVE  \E f \in [0..N -> S] : Comes(N, base, step, f)
<1> USE DEF Comes
<1> DEFINE Reaches(f, m) == \A n \in 0..m : f[n] = IF n = 0 THEN base ELSE step[n][f[n - 1]]
           T == {m \in 0..N : \E f \in [0..m -> S] : Reaches(f, m)}
<1>1. 0 \in T
  <2> DEFINE g == [n \in 0..0 |-> base]
  <2>1. g \in [0..0 -> S] /\ Reaches(g, 0)
    OBVIOUS
  <2> HIDE DEF g, Reaches
  <2> QED
    BY <2>1
<1>2. ASSUME NEW m \in 1..N, m - 1 \in T PROVE m \in T
  <2>1. PICK f \in [0..(m - 1) -> S] : Reaches(f, m - 1)
    BY <1>2
  <2> DEFINE g == [n \in 0..m |-> IF n = m THEN step[m][f[m - 1]] ELSE f[n]]
  <2>2. f[m - 1] \in S
    OBVIOUS
  <2>3. g \in [0..m -> S]
    BY <2>2
  <2>4. ASSUME NEW n \in 0..m PROVE g[n] = IF n = 0 THEN base ELSE step[n][g[n - 1]]
    <3>1. CASE n = m
      BY <3>1
    <3>2. CASE n # m
      <4>1. n \in 0..(m - 1) /\ (n # 0 => n - 1 \in 0..(m - 1) /\ n - 1 # m)
        BY <3>2
      <4>2. g[n] = f[n] /\ (n # 0 => g[n - 1] = f[n - 1])
        BY <3>2, <4>1
      <4> QED
        BY <2>1, <4>1, <4>2
    <3> QED
      BY <3>1, <3>2
  <2> HIDE DEF g
  <2> QED
    BY <2>3, <2>4
<1> HIDE DEF T
<1>3. \A m \in 0..N : m \in T
  BY <1>1, <1>2, Upwards
<1>4. N \in T
  BY <1>3
<1> QED
  BY <1>4 DEF T

\* What such a loop holds is of the type that its steps keep.
LEMMA LoopType ==
  ASSUME NEW N \in Nat, NEW S, NEW f, f[0] \in S, \A n \in 1..N : f[n - 1] \in S => f[n] \in S
  PROVE  f[N] \in S
<1> DEFINE T == {n \in 0..N : f[n] \in S}
<1>1. 0 \in T /\ \A n \in 1..N : n - 1 \in T => n \in T
  OBVIOUS
<1> HIDE DEF T
<1>2. \A n \in 0..N : n \in T
  BY <1>1, Upwards
<1>3. N \in T
  BY <1>2
<1> QED
  BY <1>3 DEF T

-----------------------------------------------------------------------------
(* Only: a part of a sequence                                                *)

OnlyLoop(s, keep, f) ==
    f = [n \in 0..Len(s) |-> IF n = 0 THEN <<>> ELSE IF s[n] \in keep THEN Append(f[n - 1], s[n]) ELSE f[n - 1]]

LEMMA OnlyLoopExists ==
  ASSUME NEW S, NEW s \in Seq(S), NEW keep
  PROVE  \E f : OnlyLoop(s, keep, f)
<1> DEFINE N == Len(s)
           step == [n \in 1..N |-> [r \in Seq(S) |-> IF s[n] \in keep THEN Append(r, s[n]) ELSE r]]
<1>1. N \in Nat /\ <<>> \in Seq(S)
  OBVIOUS
<1>2. step \in [1..N -> [Seq(S) -> Seq(S)]]
  <2>1. \A n \in 1..N : s[n] \in S
    OBVIOUS
  <2>2. \A n \in 1..N : \A r \in Seq(S) : Append(r, s[n]) \in Seq(S)
    BY <2>1
  <2> QED
    BY <2>2
<1>3. \E f \in [0..N -> Seq(S)] : Comes(N, <<>>, step, f)
  <2> HIDE DEF step, N
  <2> QED
    BY <1>1, <1>2, Loop
<1>4. PICK f \in [0..N -> Seq(S)] : Comes(N, <<>>, step, f)
  BY <1>3
<1>5. ASSUME NEW n \in 0..N
      PROVE  f[n] = IF n = 0 THEN <<>> ELSE IF s[n] \in keep THEN Append(f[n - 1], s[n]) ELSE f[n - 1]
  <2>1. CASE n = 0
    BY <1>4, <2>1 DEF Comes
  <2>2. CASE n # 0
    <3>1. n \in 1..N /\ f[n - 1] \in Seq(S)
      BY <2>2
    <3>2. f[n] = step[n][f[n - 1]]
      BY <1>4, <2>2 DEF Comes
    <3> QED
      BY <2>2, <3>1, <3>2
  <2> QED
    BY <2>1, <2>2
<1>6. f = [n \in 0..N |-> IF n = 0 THEN <<>> ELSE IF s[n] \in keep THEN Append(f[n - 1], s[n]) ELSE f[n - 1]]
  <2> HIDE DEF N
  <2> QED
    BY <1>5
<1> QED
  BY <1>6 DEF OnlyLoop

LEMMA OnlyType ==
  ASSUME NEW S, NEW s \in Seq(S), NEW keep
  PROVE  Only(s, keep) \in Seq(S \cap keep)
<1>0. Len(s) \in Nat /\ \E f : OnlyLoop(s, keep, f)
  BY OnlyLoopExists
<1>1. PICK f : OnlyLoop(s, keep, f) /\ Only(s, keep) = f[Len(s)]
  BY Zenon, <1>0 DEF Only, OnlyLoop
<1>2. f[0] \in Seq(S \cap keep)
  BY <1>0, <1>1 DEF OnlyLoop
<1>3. ASSUME NEW n \in 1..Len(s), f[n - 1] \in Seq(S \cap keep) PROVE f[n] \in Seq(S \cap keep)
  <2>0. n \in 0..Len(s) /\ n # 0
    BY <1>0
  <2>1. f[n] = IF s[n] \in keep THEN Append(f[n - 1], s[n]) ELSE f[n - 1]
    BY Zenon, <1>1, <2>0 DEF OnlyLoop
  <2>2. s[n] \in S
    OBVIOUS
  <2> QED
    BY <1>3, <2>1, <2>2
<1>4. f[Len(s)] \in Seq(S \cap keep)
  <2> DEFINE R == Seq(S \cap keep)
             N == Len(s)
  <2>1. N \in Nat /\ f[0] \in R /\ \A n \in 1..N : f[n - 1] \in R => f[n] \in R
    BY <1>0, <1>2, <1>3
  <2> HIDE DEF R, N
  <2>2. f[N] \in R
    BY <2>1, LoopType
  <2> QED
    BY <2>2 DEF R, N
<1> QED
  BY <1>1, <1>4

-----------------------------------------------------------------------------
(* Instants                                                                  *)

\* Of finitely many numbers one is least, and one greatest.
LEMMA Least ==
  ASSUME NEW N \in Nat, NEW D \in SUBSET (1..N), D # {}, NEW g \in [D -> Int]
  PROVE  \E k \in D : \A j \in D : g[k] <= g[j]
<1> DEFINE T == {n \in 0..N : D \cap (1..n) = {} \/ \E k \in D \cap (1..n) : \A j \in D \cap (1..n) : g[k] <= g[j]}
<1>1. 0 \in T
  OBVIOUS
<1>2. ASSUME NEW n \in 1..N, n - 1 \in T PROVE n \in T
  <2>1. D \cap (1..n) = (D \cap (1..(n - 1))) \cup (D \cap {n})
    OBVIOUS
  <2>2. CASE n \notin D
    <3>1. D \cap (1..n) = D \cap (1..(n - 1))
      BY <2>1, <2>2
    <3> QED
      BY <1>2, <3>1
  <2>3. CASE n \in D /\ D \cap (1..(n - 1)) = {}
    <3>1. D \cap (1..n) = {n}
      BY <2>1, <2>3
    <3> QED
      BY <2>3, <3>1
  <2>4. CASE n \in D /\ D \cap (1..(n - 1)) # {}
    <3>1. PICK k \in D \cap (1..(n - 1)) : \A j \in D \cap (1..(n - 1)) : g[k] <= g[j]
      BY <1>2, <2>4
    <3>2. \A j \in D \cap (1..n) : j = n \/ j \in D \cap (1..(n - 1))
      BY <2>1
    <3>3. CASE g[k] <= g[n]
      <4>1. \A j \in D \cap (1..n) : g[k] <= g[j]
        BY <3>1, <3>2, <3>3
      <4> QED
        BY <2>1, <3>1, <4>1
    <3>4. CASE g[n] <= g[k]
      <4>1. ASSUME NEW j \in D \cap (1..n) PROVE g[n] <= g[j]
        <5>1. g[j] \in Int /\ g[k] \in Int /\ g[n] \in Int
          BY <2>4
        <5>2. j = n \/ g[k] <= g[j]
          BY <3>1, <3>2
        <5> QED
          BY <3>4, <5>1, <5>2
      <4> QED
        BY <2>4, <4>1
    <3> QED
      BY <2>4, <3>1, <3>3, <3>4
  <2> QED
    BY <2>2, <2>3, <2>4
<1> HIDE DEF T
<1>3. \A n \in 0..N : n \in T
  BY <1>1, <1>2, Upwards
<1>4. N \in T
  BY <1>3
<1>5. D \cap (1..N) = D
  OBVIOUS
<1> QED
  BY <1>4, <1>5 DEF T

LEMMA Extremes ==
  ASSUME NEW N \in Nat, NEW D \in SUBSET (1..N), D # {}, NEW g \in [D -> Int]
  PROVE  Min({g[k] : k \in D}) \in Int /\ Max({g[k] : k \in D}) \in Int
<1> DEFINE S == {g[k] : k \in D}
           h == [k \in D |-> -g[k]]
<1>1. S \subseteq Int
  OBVIOUS
<1>2. \E x \in S : \A y \in S : x <= y
  <2>1. PICK k \in D : \A j \in D : g[k] <= g[j]
    BY Least
  <2> QED
    BY <2>1
<1>3. \E x \in S : \A y \in S : x >= y
  <2>1. h \in [D -> Int]
    OBVIOUS
  <2>2. \E k \in D : \A j \in D : h[k] <= h[j]
    <3> HIDE DEF h
    <3> QED
      BY <2>1, Least
  <2>3. PICK k \in D : \A j \in D : h[k] <= h[j]
    BY <2>2
  <2>4. \A j \in D : g[k] >= g[j]
    BY <2>3
  <2> QED
    BY <2>4
<1> HIDE DEF S
<1>4. Min(S) \in S /\ Max(S) \in S
  BY <1>2, <1>3 DEF Min, Max
<1> QED
  BY <1>1, <1>4 DEF S

\* A part with its instants, and a sequence of those.
Dated(p) == p.start \in Int /\ p.end \in Int
DatedParts(parts) == parts \in Seq(ToSet(parts)) /\ \A k \in DOMAIN parts : Dated(parts[k])

LEMMA PlanSpanType ==
  ASSUME NEW parts, DatedParts(parts)
  PROVE  PlanSpan(parts) \in Spans
<1> DEFINE N == Len(parts)
           D == {k \in 1..N : parts[k].start # Zero}
           dated == {p \in ToSet(parts) : p.start # Zero}
           end(p) == IF p.end = Zero THEN p.start ELSE EndOf(p)
<1>1. N \in Nat /\ DOMAIN parts = 1..N
  BY DEF DatedParts
<1>2. dated = {parts[k] : k \in D}
  BY <1>1 DEF ToSet
<1>3. CASE dated = {}
  BY <1>3 DEF PlanSpan, NoSpan, Spans, Zero
<1>4. CASE dated # {}
  <2> DEFINE g == [k \in D |-> parts[k].start]
             h == [k \in D |-> end(parts[k])]
  <2>1. g \in [D -> Int] /\ h \in [D -> Int] /\ D # {} /\ D \in SUBSET (1..N)
    BY <1>1, <1>2, <1>4 DEF DatedParts, Dated, EndOf
  <2>2. {p.start : p \in dated} = {g[k] : k \in D}
    <3>1. \A k \in D : g[k] = parts[k].start
      OBVIOUS
    <3> HIDE DEF dated, D, g
    <3> QED
      BY <1>2, <3>1
  <2>5. {end(p) : p \in dated} = {h[k] : k \in D}
    <3>1. \A k \in D : h[k] = end(parts[k])
      OBVIOUS
    <3> HIDE DEF dated, D, h, end
    <3> QED
      BY <1>2, <3>1
  <2>3. Min({g[k] : k \in D}) \in Int /\ Max({h[k] : k \in D}) \in Int
    <3> HIDE DEF g, h, D, N
    <3> QED
      BY <1>1, <2>1, Extremes
  <2>4. PlanSpan(parts) = [start |-> Min({p.start : p \in dated}), end |-> Max({end(p) : p \in dated})]
    BY <1>4 DEF PlanSpan
  <2>6. Min({p.start : p \in dated}) \in Int /\ Max({end(p) : p \in dated}) \in Int
    BY <2>2, <2>3, <2>5
  <2>7. \A a, b \in Int : [start |-> a, end |-> b] \in Spans
    BY DEF Spans
  <2> HIDE DEF dated, end
  <2> QED
    BY <2>4, <2>6, <2>7
<1> QED
  BY <1>3, <1>4

SoonestLoop(parts, f) == f = [n \in 0..Len(parts) |-> IF n = 0 THEN Zero ELSE Sooner(f[n - 1], parts[n])]

LEMMA SoonestLoopExists ==
  ASSUME NEW parts, DatedParts(parts)
  PROVE  \E f : SoonestLoop(parts, f)
<1> DEFINE N == Len(parts)
           step == [n \in 1..N |-> [t \in Int |-> Sooner(t, parts[n])]]
<1>1. N \in Nat /\ DOMAIN parts = 1..N /\ Zero \in Int
  BY DEF DatedParts, Zero
<1>2. step \in [1..N -> [Int -> Int]]
  BY <1>1 DEF DatedParts, Dated, Sooner
<1>3. \E f \in [0..N -> Int] : Comes(N, Zero, step, f)
  <2> HIDE DEF step, N
  <2> QED
    BY <1>1, <1>2, Loop
<1>4. PICK f \in [0..N -> Int] : Comes(N, Zero, step, f)
  BY <1>3
<1>5. ASSUME NEW n \in 0..N PROVE f[n] = IF n = 0 THEN Zero ELSE Sooner(f[n - 1], parts[n])
  <2>1. CASE n = 0
    BY <1>4, <2>1 DEF Comes
  <2>2. CASE n # 0
    <3>1. n \in 1..N /\ f[n - 1] \in Int
      BY <2>2
    <3>2. f[n] = step[n][f[n - 1]]
      BY <1>4, <2>2 DEF Comes
    <3> QED
      BY <2>2, <3>1, <3>2
  <2> QED
    BY <2>1, <2>2
<1>6. f = [n \in 0..N |-> IF n = 0 THEN Zero ELSE Sooner(f[n - 1], parts[n])]
  <2> HIDE DEF N
  <2> QED
    BY <1>5
<1> QED
  BY <1>6 DEF SoonestLoop

LEMMA SoonestType ==
  ASSUME NEW parts, DatedParts(parts)
  PROVE  Soonest(parts) \in Int
<1> DEFINE N == Len(parts)
<1>0. N \in Nat /\ DOMAIN parts = 1..N /\ \E f : SoonestLoop(parts, f)
  BY SoonestLoopExists DEF DatedParts
<1>1. PICK f : SoonestLoop(parts, f) /\ Soonest(parts) = f[N]
  BY Zenon, <1>0 DEF Soonest, SoonestLoop
<1>2. f[0] \in Int
  BY <1>0, <1>1 DEF SoonestLoop, Zero
<1>3. ASSUME NEW n \in 1..N, f[n - 1] \in Int PROVE f[n] \in Int
  <2>0. n \in 0..Len(parts) /\ n # 0
    BY <1>0
  <2>1. f[n] = Sooner(f[n - 1], parts[n])
    BY Zenon, <1>1, <2>0 DEF SoonestLoop
  <2> QED
    BY <1>0, <1>3, <2>1 DEF Sooner, DatedParts, Dated
<1> HIDE DEF N
<1>4. f[N] \in Int
  BY <1>0, <1>2, <1>3, LoopType
<1> QED
  BY <1>1, <1>4

LEMMA LatestType ==
  ASSUME NEW parts, DatedParts(parts)
  PROVE  Latest(parts) \in Int
<1> DEFINE N == Len(parts)
           g == [k \in 1..(N + 1) |-> IF k = N + 1 THEN Zero ELSE EndOf(parts[k])]
           D == 1..(N + 1)
<1>1. N \in Nat /\ DOMAIN parts = 1..N
  BY DEF DatedParts
<1>2. g \in [D -> Int] /\ D # {} /\ D \in SUBSET (1..(N + 1)) /\ N + 1 \in Nat
  BY <1>1 DEF DatedParts, Dated, EndOf, Zero
<1>3. {Zero} \cup {EndOf(p) : p \in ToSet(parts)} = {g[k] : k \in D}
  <2>1. ToSet(parts) = {parts[k] : k \in 1..N}
    BY <1>1 DEF ToSet
  <2>2. g[N + 1] = Zero /\ (\A k \in 1..N : g[k] = EndOf(parts[k])) /\ D = (1..N) \cup {N + 1}
    BY <1>1
  <2>3. {EndOf(p) : p \in ToSet(parts)} = {g[k] : k \in 1..N}
    <3> HIDE DEF g, N
    <3> QED
      BY <2>1, <2>2
  <2> HIDE DEF g, D, N
  <2>4. {g[k] : k \in D} = {g[k] : k \in 1..N} \cup {g[N + 1]}
    BY <2>2
  <2> QED
    BY <2>2, <2>3, <2>4
<1>4. Max({g[k] : k \in D}) \in Int
  <2> HIDE DEF g, D, N
  <2>1. N + 1 \in Nat /\ D \in SUBSET (1..(N + 1)) /\ D # {} /\ g \in [D -> Int]
    BY <1>2
  <2> QED
    BY <2>1, Extremes
<1> QED
  BY <1>3, <1>4 DEF Latest

LEMMA TripSpanType ==
  ASSUME NEW parts, DatedParts(parts), NEW on \in Int, NEW off \in Int
  PROVE  TripSpan(parts, on, off) \in Spans
<1>1. Soonest(parts) \in Int /\ Latest(parts) \in Int
  BY SoonestType, LatestType
<1>2. \A a, b \in Int : [start |-> a, end |-> b] \in Spans
  BY DEF Spans
<1>3. NoSpan \in Spans
  BY DEF NoSpan, Spans, Zero
<1> QED
  BY <1>1, <1>2, <1>3 DEF TripSpan

-----------------------------------------------------------------------------
(* Proposals                                                                 *)

Bookable == {p \in Booked : p.type = "flight" => {p.from, p.to} \subseteq DOMAIN Zone}
Bookings == [type : STRING, ref : STRING, parts : Seq(Bookable)]
Kept == [type : STRING, ref : STRING, parts : Seq({p \in Bookable : Usable(p)})]

LEMMA TextsAre == Texts = Seq(Bookings)
BY DEF Texts, Bookings, Bookable

LEMMA ProposedDated ==
  ASSUME NEW p \in Bookable, Usable(p), NEW answered
  PROVE  Dated(ProposePart(p, answered))
<1>1. /\ p.day \in Int /\ p.hour \in Int /\ p.endDay \in Int /\ p.endHour \in Int
      /\ p.type = "flight" => p.from \in DOMAIN Zone /\ p.to \in DOMAIN Zone
      /\ p.type \in Types
  BY DEF Bookable, Booked, Usable
<1>2. CASE p.type = "flight"
  <2>1. /\ Zone[p.from] \in Int /\ Zone[p.to] \in Int
        /\ \A x \in DOMAIN Timetable : Timetable[x].out \in Int /\ Timetable[x].in \in Int
    BY <1>1, <1>2, PlacementAssumption
  <2>2. FlightFromLeg(p).out \in Int /\ FlightFromLeg(p).in \in Int
    BY <1>1, <2>1 DEF FlightFromLeg, ParseLocalInTZ
  <2>3. EnrichFlight(p, answered).out \in Int /\ EnrichFlight(p, answered).in \in Int
    BY <2>1, <2>2 DEF EnrichFlight
  <2>4. /\ ProposePart(p, answered).start = EnrichFlight(p, answered).out
        /\ ProposePart(p, answered).end = EnrichFlight(p, answered).in
    BY <1>2 DEF ProposePart
  <2> QED
    BY <2>3, <2>4 DEF Dated
<1>3. CASE p.type # "flight"
  <2>1. StartHour[p.type] \in Int
    BY <1>1, <1>3 DEF Types, StartHour
  <2>2. \A day, hour, default \in Int : CombineLocal(day, hour, default) \in Int
    BY DEF CombineLocal, Zero
  <2>3. ProposePart(p, answered).start = CombineLocal(p.day, p.hour, StartHour[p.type])
    BY <1>3 DEF ProposePart
  <2>4. ProposePart(p, answered).end \in
            {CombineLocal(p.endDay, p.endHour, 11), CombineLocal(p.endDay, p.endHour, 9),
             CombineLocal(p.day, p.endHour, 9), Blank}
    BY <1>3 DEF ProposePart
  <2>5. ProposePart(p, answered).start \in Int
    <3>1. CombineLocal(p.day, p.hour, StartHour[p.type]) \in Int
      BY Zenon, <1>1, <2>1, <2>2
    <3> QED
      BY Zenon, <2>3, <3>1
  <2>6. ProposePart(p, answered).end \in Int
    <3>1. 9 \in Int /\ 11 \in Int /\ Blank \in Int
      BY DEF Blank
    <3>2. \A default \in Int : /\ CombineLocal(p.endDay, p.endHour, default) \in Int
                               /\ CombineLocal(p.day, p.endHour, default) \in Int
      BY Zenon, <1>1, <2>2
    <3> QED
      BY Zenon, <2>4, <3>1, <3>2
  <2> QED
    BY <2>5, <2>6 DEF Dated
<1> QED
  BY <1>2, <1>3

ExtractLoop(answer, f) ==
    f = [n \in 0..Len(answer) |-> IF n = 0 THEN <<>> ELSE KeepUsable(f[n - 1], WithUsable(answer[n]))]

LEMMA KeptType ==
  ASSUME NEW plan \in Bookings, NEW plans \in Seq(Kept)
  PROVE  KeepUsable(plans, WithUsable(plan)) \in Seq(Kept)
<1> DEFINE usable == {p \in ToSet(plan.parts) : Usable(p)}
<1>1. plan.parts \in Seq(Bookable) /\ plan.type \in STRING /\ plan.ref \in STRING
  BY DEF Bookings
<1>2. Only(plan.parts, usable) \in Seq(Bookable \cap usable)
  <2> HIDE DEF usable
  <2> QED
    BY <1>1, OnlyType
<1>3. Only(plan.parts, usable) \in Seq({p \in Bookable : Usable(p)})
  BY <1>2
<1>4. WithUsable(plan) = [type |-> plan.type, ref |-> plan.ref, parts |-> Only(plan.parts, usable)]
  BY DEF WithUsable, Bookings
<1>5. WithUsable(plan) \in Kept
  BY <1>1, <1>3, <1>4 DEF Kept
<1> QED
  BY <1>5 DEF KeepUsable

LEMMA ExtractLoopExists ==
  ASSUME NEW answer \in Seq(Bookings)
  PROVE  \E f : ExtractLoop(answer, f)
<1> DEFINE N == Len(answer)
           step == [n \in 1..N |-> [r \in Seq(Kept) |-> KeepUsable(r, WithUsable(answer[n]))]]
<1>1. N \in Nat /\ <<>> \in Seq(Kept)
  OBVIOUS
<1>2. step \in [1..N -> [Seq(Kept) -> Seq(Kept)]]
  <2>1. \A n \in 1..N : answer[n] \in Bookings
    OBVIOUS
  <2>2. \A n \in 1..N : \A r \in Seq(Kept) : KeepUsable(r, WithUsable(answer[n])) \in Seq(Kept)
    BY <2>1, KeptType
  <2> QED
    BY <2>2
<1>3. \E f \in [0..N -> Seq(Kept)] : Comes(N, <<>>, step, f)
  <2> HIDE DEF step, N
  <2> QED
    BY <1>1, <1>2, Loop
<1>4. PICK f \in [0..N -> Seq(Kept)] : Comes(N, <<>>, step, f)
  BY <1>3
<1>5. ASSUME NEW n \in 0..N PROVE f[n] = IF n = 0 THEN <<>> ELSE KeepUsable(f[n - 1], WithUsable(answer[n]))
  <2>1. CASE n = 0
    BY <1>4, <2>1 DEF Comes
  <2>2. CASE n # 0
    <3>1. n \in 1..N /\ f[n - 1] \in Seq(Kept)
      BY <2>2
    <3>2. f[n] = step[n][f[n - 1]]
      BY <1>4, <2>2 DEF Comes
    <3> QED
      BY <2>2, <3>1, <3>2
  <2> QED
    BY <2>1, <2>2
<1>6. f = [n \in 0..N |-> IF n = 0 THEN <<>> ELSE KeepUsable(f[n - 1], WithUsable(answer[n]))]
  <2> HIDE DEF N
  <2> QED
    BY <1>5
<1> QED
  BY <1>6 DEF ExtractLoop

LEMMA ExtractPlansType ==
  ASSUME NEW answer \in Texts
  PROVE  ExtractPlans(answer) \in Seq(Kept)
<1> DEFINE N == Len(answer)
           R == Seq(Kept)
<1>0. answer \in Seq(Bookings) /\ N \in Nat /\ \E f : ExtractLoop(answer, f)
  BY TextsAre, ExtractLoopExists
<1>1. PICK f : ExtractLoop(answer, f) /\ ExtractPlans(answer) = f[N]
  BY Zenon, <1>0 DEF ExtractPlans, ExtractLoop
<1>2. f[0] \in R
  BY <1>0, <1>1 DEF ExtractLoop
<1>3. ASSUME NEW n \in 1..N, f[n - 1] \in R PROVE f[n] \in R
  <2>0. n \in 0..Len(answer) /\ n # 0 /\ answer[n] \in Bookings
    BY <1>0
  <2>1. f[n] = KeepUsable(f[n - 1], WithUsable(answer[n]))
    BY Zenon, <1>1, <2>0 DEF ExtractLoop
  <2> QED
    BY <1>3, <2>0, <2>1, KeptType
<1> HIDE DEF N, R
<1>4. f[N] \in R
  BY <1>0, <1>2, <1>3, LoopType
<1> QED
  BY <1>1, <1>4 DEF R

\* Whatever is read out of a text, each of its bookings has instants.
DatedProposals(ps) == \A i \in DOMAIN ps : DatedParts(ps[i].parts)

LEMMA ProposalsDated ==
  ASSUME NEW answer \in Texts, NEW answered
  PROVE  DatedProposals(Proposals(answer, answered))
<1> DEFINE plans == ExtractPlans(answer)
           ps == Proposals(answer, answered)
<1>1. plans \in Seq(Kept) /\ Len(plans) \in Nat
  BY ExtractPlansType
<1>2. ASSUME NEW i \in 1..Len(plans)
      PROVE  DatedParts([k \in DOMAIN plans[i].parts |-> ProposePart(plans[i].parts[k], answered)])
  <2> DEFINE parts == plans[i].parts
             made == [k \in DOMAIN parts |-> ProposePart(parts[k], answered)]
  <2>0. plans[i] \in Kept
    <3> HIDE DEF plans
    <3> QED
      BY <1>1
  <2>1. parts \in Seq({p \in Bookable : Usable(p)})
    BY <2>0 DEF Kept
  <2> HIDE DEF parts
  <2>6. Len(parts) \in Nat /\ DOMAIN parts = 1..Len(parts) /\ \A k \in DOMAIN parts : parts[k] \in Bookable /\ Usable(parts[k])
    BY <2>1
  <2>2. \A k \in DOMAIN parts : Dated(ProposePart(parts[k], answered))
    BY <2>6, ProposedDated
  <2>3. DOMAIN made = DOMAIN parts /\ \A k \in DOMAIN parts : made[k] = ProposePart(parts[k], answered)
    OBVIOUS
  <2>4. made \in Seq(ToSet(made))
    <3>1. made \in [1..Len(parts) -> ToSet(made)]
      BY <2>6 DEF ToSet
    <3> QED
      BY <2>6, <3>1
  <2>5. DatedParts(made)
    BY <2>2, <2>3, <2>4 DEF DatedParts
  <2> QED
    BY <2>5 DEF parts
<1>3. /\ DOMAIN ps = 1..Len(plans)
      /\ \A i \in 1..Len(plans) :
            ps[i].parts = [k \in DOMAIN plans[i].parts |-> ProposePart(plans[i].parts[k], answered)]
  BY DEF Proposals
<1> HIDE DEF ps, plans
<1>4. DatedProposals(ps)
  BY <1>2, <1>3 DEF DatedProposals
<1> QED
  BY <1>4 DEF ps

-----------------------------------------------------------------------------
(* The best trip                                                             *)

\* What SelectTrip makes of a trip's span, and which of two trips it prefers.
Meets(plan, candidates, i) == OverlapAndGap(plan, candidates[i].span)
Fits(plan, candidates, i) == Attaches(plan, candidates[i].span)
Beats(a, i, b, j) ==
    \/ a.overlap > b.overlap
    \/ a.overlap = b.overlap /\ a.gap < b.gap
    \/ a = b /\ i < j

\* After n candidates: none fits yet, or the best of them is the one held.
BestOf(plan, candidates, n, best) ==
    \/ best = NoneYet /\ \A i \in 1..n : ~Fits(plan, candidates, i)
    \/ \E i \in 1..n :
         /\ Fits(plan, candidates, i)
         /\ best = [trip |-> candidates[i].trip, overlap |-> Meets(plan, candidates, i).overlap,
                    gap |-> Meets(plan, candidates, i).gap]
         /\ \A j \in (1..n) \ {i} : Fits(plan, candidates, j) =>
                Beats(Meets(plan, candidates, i), i, Meets(plan, candidates, j), j)

Candidate == [trip : Nat, span : Spans]
Found == [trip : Nat \cup {Blank}, overlap : Int, gap : Int]
Touch == [overlap : Int, gap : Int]

LEMMA NormalSpan == ASSUME NEW span \in Spans PROVE Normal(span) \in Spans
BY DEF Normal, Spans, Zero

LEMMA TouchType == ASSUME NEW a \in Spans, NEW b \in Spans PROVE OverlapAndGap(a, b) \in Touch
BY DEF OverlapAndGap, Later, Earlier, Spans, Touch

LEMMA FoundType ==
  ASSUME NEW plan \in Spans, NEW best \in Found, NEW c \in Candidate
  PROVE  Consider(plan, best, c) \in Found
<1>1. OverlapAndGap(plan, c.span) \in Touch
  BY TouchType DEF Candidate
<1> QED
  BY <1>1 DEF Consider, Found, Touch, Candidate

LEMMA CandidateTypes ==
  ASSUME NEW plan \in Spans, NEW candidates \in Seq(Candidate)
  PROVE  \A i \in 1..Len(candidates) : candidates[i].trip \in Nat /\ Meets(plan, candidates, i) \in Touch
<1>1. ASSUME NEW i \in 1..Len(candidates)
      PROVE  candidates[i].trip \in Nat /\ Meets(plan, candidates, i) \in Touch
  <2>1. candidates[i] \in Candidate
    OBVIOUS
  <2> QED
    BY <2>1, TouchType DEF Candidate, Meets
<1> QED
  BY <1>1

\* One more candidate: it is passed over, or it beats all that the one held has beaten.
LEMMA BestStep ==
  ASSUME NEW plan \in Spans, NEW candidates \in Seq(Candidate), NEW n \in 1..Len(candidates),
         NEW best, BestOf(plan, candidates, n - 1, best)
  PROVE  BestOf(plan, candidates, n, Consider(plan, best, candidates[n]))
<1> DEFINE og(i) == Meets(plan, candidates, i)
           fit(i) == Fits(plan, candidates, i)
           of(i) == [trip |-> candidates[i].trip, overlap |-> og(i).overlap, gap |-> og(i).gap]
           first(i, m) == \A j \in (1..m) \ {i} : fit(j) => Beats(og(i), i, og(j), j)
           now == Consider(plan, best, candidates[n])
<1>1. \A i \in 1..Len(candidates) : /\ candidates[i].trip \in Nat
                                   /\ og(i).overlap \in Int /\ og(i).gap \in Int
  BY CandidateTypes DEF Touch
<1>2. now = IF fit(n) /\ Better(best, og(n)) THEN of(n) ELSE best
  BY DEF Consider, Meets, Fits
<1>3. \A i : /\ of(i).trip = candidates[i].trip
             /\ of(i).overlap = og(i).overlap
             /\ of(i).gap = og(i).gap
  OBVIOUS
<1>4. BestOf(plan, candidates, n, now) <=>
         \/ now = NoneYet /\ \A i \in 1..n : ~fit(i)
         \/ \E i \in 1..n : fit(i) /\ now = of(i) /\ first(i, n)
  BY DEF BestOf
<1>5. \/ best = NoneYet /\ \A i \in 1..(n - 1) : ~fit(i)
      \/ \E i \in 1..(n - 1) : fit(i) /\ best = of(i) /\ first(i, n - 1)
  BY DEF BestOf
<1>0. SUFFICES BestOf(plan, candidates, n, now)
  OBVIOUS
<1> HIDE DEF og, fit, of, now
<1>6. CASE best = NoneYet /\ \A i \in 1..(n - 1) : ~fit(i)
  <2>1. Better(best, og(n))
    BY <1>6 DEF Better, NoneYet
  <2>2. \A j \in 1..n : j # n => ~fit(j)
    BY <1>6
  <2>3. CASE fit(n)
    <3>1. now = of(n) /\ first(n, n)
      BY <1>2, <2>1, <2>2, <2>3
    <3> QED
      BY <1>4, <2>3, <3>1
  <2>4. CASE ~fit(n)
    <3>1. now = NoneYet /\ \A j \in 1..n : ~fit(j)
      BY <1>2, <1>6, <2>2, <2>4
    <3> QED
      BY <1>4, <3>1
  <2> QED
    BY <2>3, <2>4
<1>7. ASSUME NEW i \in 1..(n - 1), fit(i), best = of(i), first(i, n - 1)
      PROVE  BestOf(plan, candidates, n, now)
  <2>1. /\ i \in 1..Len(candidates) /\ n \in 1..Len(candidates) /\ i # n /\ i \in 1..n
        /\ best.trip # Blank
        /\ best.overlap = og(i).overlap /\ best.gap = og(i).gap
    BY <1>1, <1>3, <1>7 DEF Blank
  <2>2. CASE fit(n) /\ Better(best, og(n))
    <3>1. \/ og(n).overlap > og(i).overlap
          \/ og(n).overlap = og(i).overlap /\ og(n).gap < og(i).gap
      BY <2>1, <2>2 DEF Better
    <3>2. ASSUME NEW j \in (1..n) \ {n}, fit(j) PROVE Beats(og(n), n, og(j), j)
      <4>1. j = i \/ Beats(og(i), i, og(j), j)
        BY <1>7, <3>2
      <4>2. og(j).overlap \in Int /\ og(j).gap \in Int
        BY <1>1
      <4> QED
        BY <1>1, <2>1, <3>1, <4>1, <4>2 DEF Beats
    <3> QED
      BY <1>2, <1>4, <2>2, <3>2
  <2>3. CASE ~(fit(n) /\ Better(best, og(n)))
    <3>1. fit(n) => Beats(og(i), i, og(n), n)
      <4>1. SUFFICES ASSUME fit(n) PROVE Beats(og(i), i, og(n), n)
        OBVIOUS
      <4>2. ~(og(n).overlap > og(i).overlap) /\ ~(og(n).overlap = og(i).overlap /\ og(n).gap < og(i).gap)
        BY <2>1, <2>3, <4>1 DEF Better
      <4>3. \/ og(i).overlap > og(n).overlap
            \/ og(i).overlap = og(n).overlap /\ og(i).gap < og(n).gap
            \/ og(i).overlap = og(n).overlap /\ og(i).gap = og(n).gap
        BY <1>1, <2>1, <4>2
      <4>4. og(i).overlap = og(n).overlap /\ og(i).gap = og(n).gap => og(i) = og(n)
        <5>1. og(i) \in Touch /\ og(n) \in Touch
          BY <2>1, CandidateTypes DEF og
        <5> QED
          BY <5>1 DEF Touch
      <4> QED
        BY <4>3, <4>4 DEF Beats
    <3>2. first(i, n)
      BY <1>7, <3>1
    <3> QED
      BY <1>2, <1>4, <1>7, <2>1, <2>3, <3>2
  <2> QED
    BY <2>2, <2>3
<1> QED
  BY <1>5, <1>6, <1>7

\* The loop of SelectTrip: there is one, and it ends with the best trip.
SelectLoop(plan, candidates, f) ==
    f = [n \in 0..Len(candidates) |-> IF n = 0 THEN NoneYet ELSE Consider(plan, f[n - 1], candidates[n])]

LEMMA SelectLoopExists ==
  ASSUME NEW plan \in Spans, NEW candidates \in Seq(Candidate)
  PROVE  \E f : SelectLoop(plan, candidates, f)
<1> DEFINE N == Len(candidates)
           step == [n \in 1..N |-> [b \in Found |-> Consider(plan, b, candidates[n])]]
<1>1. N \in Nat /\ NoneYet \in Found
  BY DEF NoneYet, Found
<1>2. step \in [1..N -> [Found -> Found]]
  <2>1. \A n \in 1..N : candidates[n] \in Candidate
    OBVIOUS
  <2>2. \A n \in 1..N : \A b \in Found : Consider(plan, b, candidates[n]) \in Found
    BY <2>1, FoundType
  <2> QED
    BY <2>2
<1>3. \E f \in [0..N -> Found] : Comes(N, NoneYet, step, f)
  <2> HIDE DEF step, N
  <2> QED
    BY <1>1, <1>2, Loop
<1>4. PICK f \in [0..N -> Found] : Comes(N, NoneYet, step, f)
  BY <1>3
<1>5. \A n \in 1..N : f[n] = Consider(plan, f[n - 1], candidates[n])
  <2>1. ASSUME NEW n \in 1..N PROVE f[n] = Consider(plan, f[n - 1], candidates[n])
    <3>1. f[n - 1] \in Found /\ n # 0 /\ n \in 0..N
      OBVIOUS
    <3> QED
      BY <1>4, <3>1 DEF Comes
  <2> QED
    BY <2>1
<1>6. \A n \in 0..N : f[n] = IF n = 0 THEN NoneYet ELSE Consider(plan, f[n - 1], candidates[n])
  BY <1>1, <1>4, <1>5 DEF Comes
<1> QED
  BY <1>6 DEF SelectLoop

LEMMA SelectLoopEnds ==
  ASSUME NEW plan \in Spans, NEW candidates \in Seq(Candidate), NEW f, SelectLoop(plan, candidates, f)
  PROVE  BestOf(plan, candidates, Len(candidates), f[Len(candidates)])
<1> DEFINE N == Len(candidates)
           T == {n \in 0..N : BestOf(plan, candidates, n, f[n])}
<1>1. N \in Nat /\ f[0] = NoneYet /\ \A n \in 1..N : f[n] = Consider(plan, f[n - 1], candidates[n])
  BY DEF SelectLoop
<1>2. 0 \in T
  BY <1>1 DEF BestOf
<1>3. ASSUME NEW n \in 1..N, n - 1 \in T PROVE n \in T
  BY <1>1, <1>3, BestStep
<1> HIDE DEF T, N
<1>4. \A n \in 0..N : n \in T
  BY <1>1, <1>2, <1>3, Upwards
<1>5. N \in T
  BY <1>1, <1>4
<1> QED
  BY <1>5 DEF T, N

\* SelectTrip's comment (triptarget.go:52-61): of the trips that the booking overlaps or is
\* a day away from, that with the greatest overlap, then the smallest gap, then the most
\* recently changed; none only if there is none.
THEOREM BestTrip ==
  ASSUME NEW span \in Spans, NEW candidates \in Seq(Candidate)
  PROVE  IsBestTrip(span, candidates, SelectTrip(span, candidates))
<1> DEFINE plan == Normal(span)
           N == Len(candidates)
           fit == {i \in DOMAIN candidates : span.start # Zero /\ Attaches(plan, candidates[i].span)}
<1>1. plan \in Spans /\ DOMAIN candidates = 1..N
  BY NormalSpan
<1>2. CASE span.start = Zero
  <2>1. SelectTrip(span, candidates) = Blank
    BY <1>2 DEF SelectTrip
  <2> QED
    BY <1>2, <2>1 DEF IsBestTrip
<1>3. CASE span.start # Zero
  <2>1. \E f : SelectLoop(plan, candidates, f)
    BY <1>1, SelectLoopExists
  <2>2. PICK f : SelectLoop(plan, candidates, f) /\ SelectTrip(span, candidates) = f[N].trip
    BY Zenon, <1>3, <2>1 DEF SelectTrip, SelectLoop
  <2>3. BestOf(plan, candidates, N, f[N])
    BY <1>1, <2>2, SelectLoopEnds
  <2>4. fit = {i \in 1..N : Fits(plan, candidates, i)}
    BY <1>1, <1>3 DEF Fits
  <2>5. CASE f[N] = NoneYet /\ \A i \in 1..N : ~Fits(plan, candidates, i)
    <3>1. fit = {} /\ SelectTrip(span, candidates) = Blank
      BY <2>2, <2>4, <2>5 DEF NoneYet
    <3> QED
      BY <3>1 DEF IsBestTrip
  <2>6. CASE \E i \in 1..N :
               /\ Fits(plan, candidates, i)
               /\ f[N] = [trip |-> candidates[i].trip, overlap |-> Meets(plan, candidates, i).overlap,
                          gap |-> Meets(plan, candidates, i).gap]
               /\ \A j \in (1..N) \ {i} : Fits(plan, candidates, j) =>
                      Beats(Meets(plan, candidates, i), i, Meets(plan, candidates, j), j)
    <3>0. PICK i \in 1..N :
               /\ Fits(plan, candidates, i)
               /\ f[N].trip = candidates[i].trip
               /\ \A j \in (1..N) \ {i} : Fits(plan, candidates, j) =>
                      Beats(Meets(plan, candidates, i), i, Meets(plan, candidates, j), j)
      BY <2>6
    <3>1. SelectTrip(span, candidates) = candidates[i].trip /\ candidates[i].trip # Blank
      BY <1>1, <2>2, <3>0, CandidateTypes DEF Blank
    <3>2. i \in fit /\ \A j \in fit \ {i} : Beats(Meets(plan, candidates, i), i, Meets(plan, candidates, j), j)
      BY <2>4, <3>0
    <3> QED
      BY <3>1, <3>2 DEF IsBestTrip, Beats, Meets
  <2> QED
    BY <2>3, <2>5, <2>6 DEF BestOf
<1> QED
  BY <1>2, <1>3

\* That promise leaves no choice: of two trips it does not allow both.
THEOREM OneBestTrip ==
  ASSUME NEW span \in Spans, NEW candidates \in Seq(Candidate), NEW t, NEW u,
         IsBestTrip(span, candidates, t), IsBestTrip(span, candidates, u)
  PROVE  t = u
<1> DEFINE plan == Normal(span)
           N == Len(candidates)
           og(i) == Meets(plan, candidates, i)
           fit == {i \in DOMAIN candidates : span.start # Zero /\ Attaches(plan, candidates[i].span)}
           best(x) == \E i \in fit : candidates[i].trip = x /\ \A j \in fit \ {i} : Beats(og(i), i, og(j), j)
<1>1. plan \in Spans /\ DOMAIN candidates = 1..N /\ N \in Nat
  BY NormalSpan
<1>2. \A i \in fit : i \in 1..N /\ og(i).overlap \in Int /\ og(i).gap \in Int
  BY <1>1, CandidateTypes DEF Touch
<1>3. \A x \in {t, u} : IF x = Blank THEN fit = {} ELSE best(x)
  BY DEF IsBestTrip, Beats, Meets
<1> HIDE DEF fit, og, plan
<1>4. CASE t = Blank \/ u = Blank
  BY <1>3, <1>4
<1>5. CASE t # Blank /\ u # Blank
  <2>1. PICK i \in fit : candidates[i].trip = t /\ \A k \in fit \ {i} : Beats(og(i), i, og(k), k)
    BY <1>3, <1>5
  <2>2. PICK j \in fit : candidates[j].trip = u /\ \A k \in fit \ {j} : Beats(og(j), j, og(k), k)
    BY <1>3, <1>5
  <2>3. CASE i = j
    BY <2>1, <2>2, <2>3
  <2>4. CASE i # j
    <3>1. Beats(og(i), i, og(j), j) /\ Beats(og(j), j, og(i), i)
      BY <2>1, <2>2, <2>4
    <3> QED
      BY <1>2, <3>1 DEF Beats
  <2> QED
    BY <2>3, <2>4
<1> QED
  BY <1>4, <1>5
=============================================================================
