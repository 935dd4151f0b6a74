-------------------------- MODULE FlightData_proofs --------------------------
(* What holds of the lookup of a flight and of its positions for any number *)
(* of callers, any lifetime of cache entries, and any schedule and speeds.  *)
EXTENDS FlightData, FiniteSetTheorems, TLAPS

USE ResolverAssumption

-----------------------------------------------------------------------------
(* The lookup: inductive invariant                                          *)

\* What the service says it has said until today, and nothing is later than today.
Current == held[upstream] = day /\ \A x \in Says : held[x] <= day

\* Nobody came later than today, and the form that is asked is one of the ident's.
Underway ==
    \A c \in Callers : /\ call[c].asked <= day
                       /\ call[c].variant <= Len(IdentVariants(call[c].spelling))

\* An answer that waits to be stored was given after its caller came.
Unstored ==
    \A c \in Callers : call[c].at = "store" =>
        call[c].answer \in Definitive /\ held[call[c].answer] >= call[c].asked

\* An entry expires one lifetime after its caller came, and was given after that.
Entries ==
    \A s \in Spellings : cache[s].answer # None =>
        cache[s].answer \in Definitive /\ held[cache[s].answer] >= cache[s].expires - TTL

LookupInv == LookupTypeOK /\ Current /\ Underway /\ Unstored /\ Entries /\ AnswersFresh

-----------------------------------------------------------------------------
(* Lemmas about one lookup                                                  *)

LEMMA Variants ==
  /\ Len(IdentVariants("kept")) = 1 /\ IdentVariants("kept")[1] = "kept"
  /\ Len(IdentVariants("short")) = 2 /\ IdentVariants("short")[1] = "short"
  /\ IdentVariants("short")[2] = "kept"
  BY DEF IdentVariants

LEMMA AnswersDiffer ==
  /\ None \notin Definitive /\ Trouble \notin Definitive /\ Throttled \notin Definitive
  /\ Unscheduled \notin Definitive /\ NotFound \in Definitive /\ Definitive \subseteq Says
  /\ Says \subseteq Definitive \cup {Unscheduled}
  /\ Throttled # NotFound
  BY DEF None, Trouble, Throttled, Unscheduled, NotFound, Definitive, Says

LEMMA FieldsOfLookups ==
  /\ \A r \in Lookups : [r EXCEPT !.attempt = 1] \in Lookups
  /\ \A r \in Lookups, v \in 1..2 : [r EXCEPT !.variant = v] \in Lookups
  /\ \A r \in Lookups, v \in 1..2 :
        [r EXCEPT !.variant = v, !.attempt = 1] = [[r EXCEPT !.variant = v] EXCEPT !.attempt = 1]
<1>1. \A r \in Lookups : [r EXCEPT !.attempt = 1] \in Lookups
  BY DEF Lookups, MaxAttempts
<1>2. \A r \in Lookups, v \in 1..2 : [r EXCEPT !.variant = v] \in Lookups
  BY DEF Lookups
<1>3. \A r \in Lookups, v \in 1..2 :
        [r EXCEPT !.variant = v, !.attempt = 1] = [[r EXCEPT !.variant = v] EXCEPT !.attempt = 1]
  BY DEF Lookups
<1> QED
  BY <1>1, <1>2, <1>3

\* A lookup ends in a definitive answer only with what the service says of the flight.
LEMMA DefinitiveIsUpstream ==
  ASSUME LookupInv, NEW c \in Callers, call[c].at = "request",
         NEW got \in Answers(IdentVariants(call[c].spelling)[call[c].variant]),
         NEW k, k = AfterAnswer(call[c], got)
  PROVE  /\ k \in Lookups
         /\ k.asked = call[c].asked
         /\ k.variant <= Len(IdentVariants(k.spelling))
         /\ k.at \in {"request", "store", "done"}
         /\ k.at = "store" => k.answer = upstream /\ upstream \in Definitive
         /\ k.at = "done" => k.answer \notin Definitive
<1>1. call[c] \in Lookups /\ upstream \in Says
  BY DEF LookupInv, LookupTypeOK
<1>2. call[c].variant <= Len(IdentVariants(call[c].spelling)) /\ call[c].spelling \in {"short", "kept"}
  BY <1>1 DEF LookupInv, Underway, Spellings, Lookups
<1>f. /\ call[c].variant \in 1..2 /\ call[c].attempt \in 1..2 /\ call[c].asked \in 0..LastDay
      /\ call[c].answer \in Says \cup {None, Trouble}
  BY <1>1 DEF Lookups, MaxAttempts
<1>3. got \in {Throttled, Trouble, NotFound} \cup Says
  BY <1>1 DEF Answers
<1>4. CASE got = Throttled /\ call[c].attempt < MaxAttempts
  <2>1. k = [call[c] EXCEPT !.attempt = @ + 1]
    BY <1>4 DEF AfterAnswer
  <2> QED
    BY <2>1, <1>1, <1>2, <1>4 DEF MaxAttempts, Lookups
<1>5. CASE ~(got = Throttled /\ call[c].attempt < MaxAttempts) /\ got = NotFound /\ ~LastVariant(call[c])
  <2>1. k = [call[c] EXCEPT !.variant = @ + 1, !.attempt = 1]
    BY <1>5 DEF AfterAnswer
  <2>2. call[c].variant = 1 /\ call[c].spelling = "short"
    <3>1. CASE call[c].spelling = "kept"
      BY <3>1, <1>f, <1>2, <1>5 DEF LastVariant, IdentVariants
    <3>2. CASE call[c].spelling = "short"
      BY <3>2, <1>f, <1>5 DEF LastVariant, IdentVariants
    <3> QED
      BY <3>1, <3>2, <1>2
  <2>3. k.variant = 2 /\ k.spelling = "short" /\ k.asked = call[c].asked /\ k.at = "request"
    BY <2>1, <2>2, <1>1 DEF Lookups
  <2>4. k \in Lookups
    <3>a. k = [call[c] EXCEPT !.variant = 2, !.attempt = 1]
      <4>1. call[c].variant + 1 = 2
        BY <2>2
      <4> QED
        BY <4>1, <2>1, Zenon
    <3>1. k = [[call[c] EXCEPT !.variant = 2] EXCEPT !.attempt = 1]
      BY <3>a, <1>1, FieldsOfLookups
    <3>2. [call[c] EXCEPT !.variant = 2] \in Lookups
      <4>1. 2 \in 1..2
        OBVIOUS
      <4> QED
        BY <4>1, <1>1, FieldsOfLookups, Zenon
    <3> QED
      BY <3>1, <3>2, FieldsOfLookups
  <2> QED
    BY <2>3, <2>4, Variants
<1>6. CASE /\ ~(got = Throttled /\ call[c].attempt < MaxAttempts)
           /\ ~(got = NotFound /\ ~LastVariant(call[c]))
  <2>1. k = [Away EXCEPT !.spelling = call[c].spelling, !.asked = call[c].asked,
                         !.at = IF got \in Definitive THEN "store" ELSE "done",
                         !.answer = IF got = Throttled THEN Trouble ELSE got]
    BY <1>6 DEF AfterAnswer
  <2>2. ASSUME got \in Definitive PROVE got = upstream
    <3>1. got \in {NotFound, upstream}
      BY <2>2, AnswersDiffer DEF Answers
    <3>2. CASE got = NotFound
      <4>1. IdentVariants(call[c].spelling)[call[c].variant] = "kept"
        BY <1>1, <1>2, <1>6, <3>2, Variants DEF LastVariant, Lookups
      <4> QED
        BY <4>1, <2>2, AnswersDiffer DEF Answers
    <3> QED
      BY <3>1, <3>2
  <2>3. k \in Lookups
    <3>1. (IF got = Throttled THEN Trouble ELSE got) \in Says \cup {None, Trouble}
      BY <1>3 DEF Says
    <3>2. (IF got \in Definitive THEN "store" ELSE "done") \in {"away", "request", "store", "done"}
      OBVIOUS
    <3> DEFINE at == IF got \in Definitive THEN "store" ELSE "done"
               answer == IF got = Throttled THEN Trouble ELSE got
    <3>3. k = [at |-> at, spelling |-> call[c].spelling, asked |-> call[c].asked,
               variant |-> 1, attempt |-> 1, answer |-> answer]
      BY <2>1 DEF Away
    <3> HIDE DEF at, answer
    <3> QED
      BY <3>1, <3>2, <3>3, <1>1, <1>f DEF MaxAttempts, Lookups, at, answer
  <2>4. k.asked = call[c].asked /\ k.spelling = call[c].spelling /\ k.variant = 1
    BY <2>1 DEF Away
  <2>5. /\ k.at = IF got \in Definitive THEN "store" ELSE "done"
        /\ k.answer = IF got = Throttled THEN Trouble ELSE got
    BY <2>1 DEF Away
  <2>6. k.variant <= Len(IdentVariants(k.spelling))
    BY <2>4, <1>2, Variants
  <2> QED
    BY <2>2, <2>3, <2>4, <2>5, <2>6, AnswersDiffer
<1> QED
  BY <1>4, <1>5, <1>6

-----------------------------------------------------------------------------
(* The lookup: every step keeps the invariant                               *)

LEMMA LookupInitInv == DataInit => LookupInv
  <1> SUFFICES ASSUME DataInit PROVE LookupInv
    OBVIOUS
  <1> USE DEF DataInit, LookupInit
  <1>1. Away \in Lookups /\ Away.at = "away" /\ Away.asked = 0 /\ Away.variant = 1 /\ Away.spelling = "kept"
    BY DEF Away, Lookups, Spellings, MaxAttempts
  <1>2. LookupTypeOK
    BY <1>1 DEF LookupTypeOK, NoEntry
  <1>3. Current
    BY DEF Current
  <1>4. Underway
    BY <1>1, Variants DEF Underway
  <1>5. Unstored /\ AnswersFresh
    BY <1>1 DEF Unstored, AnswersFresh
  <1>6. Entries
    BY DEF Entries, NoEntry
  <1> QED
    BY <1>2, <1>3, <1>4, <1>5, <1>6 DEF LookupInv

LEMMA ResolveInv ==
  ASSUME LookupInv, NEW c \in Callers, Resolve(c)
  PROVE  LookupInv'
<1>1. PICK s \in Spellings :
        \/ /\ Hit(s)
           /\ call' = [call EXCEPT ![c] = [Away EXCEPT !.at = "done", !.spelling = s, !.asked = day,
                                                       !.answer = cache[s].answer]]
        \/ /\ ~Hit(s)
           /\ call' = [call EXCEPT ![c] = [Away EXCEPT !.at = "request", !.spelling = s, !.asked = day]]
  BY DEF Resolve
<1>2. UNCHANGED <<day, upstream, cache, amends, held>> /\ asks' \in 0..MaxAsks /\ day \in 0..LastDay
  BY DEF Resolve, LookupInv, LookupTypeOK
<1>3. Hit(s) => /\ cache[s].answer \in Definitive /\ cache[s].answer \in Says
                /\ held[cache[s].answer] > day - TTL
  BY AnswersDiffer DEF Hit, LookupInv, LookupTypeOK, Entries
<1>4. \E k \in Lookups : /\ call' = [call EXCEPT ![c] = k]
                         /\ k.at \in {"done", "request"} /\ k.spelling = s /\ k.asked = day /\ k.variant = 1
                         /\ k.at = "done" => held[k.answer] > k.asked - TTL
  <2>1. CASE Hit(s)
    <3>1. PICK k : k = [Away EXCEPT !.at = "done", !.spelling = s, !.asked = day, !.answer = cache[s].answer]
      OBVIOUS
    <3>2. k = [at |-> "done", spelling |-> s, asked |-> day, variant |-> 1, attempt |-> 1,
               answer |-> cache[s].answer]
      BY <3>1 DEF Away
    <3>3. k \in Lookups
      BY <3>2, <2>1, <1>2, <1>3 DEF Lookups, MaxAttempts
    <3>4. call' = [call EXCEPT ![c] = k]
      BY <3>1, <2>1, <1>1, Zenon
    <3> QED
      BY <3>2, <3>3, <3>4, <2>1, <1>3
  <2>2. CASE ~Hit(s)
    <3>1. PICK k : k = [Away EXCEPT !.at = "request", !.spelling = s, !.asked = day]
      OBVIOUS
    <3>2. k = [at |-> "request", spelling |-> s, asked |-> day, variant |-> 1, attempt |-> 1,
               answer |-> None]
      BY <3>1 DEF Away
    <3>3. k \in Lookups
      BY <3>2, <1>2 DEF Lookups, MaxAttempts
    <3>4. call' = [call EXCEPT ![c] = k]
      BY <3>1, <2>2, <1>1, Zenon
    <3> QED
      BY <3>2, <3>3, <3>4
  <2> QED
    BY <2>1, <2>2
<1>5. PICK k \in Lookups : /\ call' = [call EXCEPT ![c] = k]
                           /\ k.at \in {"done", "request"} /\ k.spelling = s /\ k.asked = day /\ k.variant = 1
                           /\ k.at = "done" => held[k.answer] > k.asked - TTL
  BY <1>4
<1>6. LookupTypeOK'
  BY <1>2, <1>5 DEF LookupInv, LookupTypeOK
<1>7. Underway'
  <2>1. k.variant <= Len(IdentVariants(k.spelling)) /\ k.asked <= day
    BY <1>2, <1>5, Variants DEF Spellings
  <2> QED
    BY <2>1, <1>2, <1>5 DEF LookupInv, LookupTypeOK, Underway
<1>8. Unstored' /\ AnswersFresh'
  BY <1>2, <1>5 DEF LookupInv, LookupTypeOK, Unstored, AnswersFresh
<1>9. Current' /\ Entries'
  BY <1>2 DEF LookupInv, Current, Entries
<1> QED
  BY <1>6, <1>7, <1>8, <1>9 DEF LookupInv

LEMMA RequestInv ==
  ASSUME LookupInv, NEW c \in Callers, Request(c)
  PROVE  LookupInv'
<1>1. PICK got \in Answers(IdentVariants(call[c].spelling)[call[c].variant]) :
        call' = [call EXCEPT ![c] = AfterAnswer(@, got)]
  BY DEF Request
<1>2. PICK k : k = AfterAnswer(call[c], got)
  OBVIOUS
<1>3. call' = [call EXCEPT ![c] = k] /\ call[c].at = "request" /\ UNCHANGED <<day, upstream, cache, asks, amends, held>>
  BY <1>1, <1>2 DEF Request
<1>4. /\ k \in Lookups /\ k.asked = call[c].asked /\ k.variant <= Len(IdentVariants(k.spelling))
      /\ k.at \in {"request", "store", "done"}
      /\ k.at = "store" => k.answer = upstream /\ upstream \in Definitive
      /\ k.at = "done" => k.answer \notin Definitive
  BY <1>2, <1>3, DefinitiveIsUpstream
<1>5. k.at = "store" => held[k.answer] >= k.asked
  BY <1>4 DEF LookupInv, Current, Underway
<1>6. LookupTypeOK'
  BY <1>3, <1>4 DEF LookupInv, LookupTypeOK
<1>7. Underway'
  BY <1>3, <1>4 DEF LookupInv, LookupTypeOK, Underway
<1>8. Unstored' /\ AnswersFresh'
  BY <1>3, <1>4, <1>5 DEF LookupInv, LookupTypeOK, Unstored, AnswersFresh
<1>9. Current' /\ Entries'
  BY <1>3 DEF LookupInv, Current, Entries
<1> QED
  BY <1>6, <1>7, <1>8, <1>9 DEF LookupInv

LEMMA StoreInv ==
  ASSUME LookupInv, NEW c \in Callers, Store(c)
  PROVE  LookupInv'
<1> DEFINE s == call[c].spelling
           e == [answer |-> call[c].answer, expires |-> call[c].asked + TTL]
<1>1. /\ call[c].at = "store" /\ cache' = [cache EXCEPT ![s] = e]
      /\ call' = [call EXCEPT ![c].at = "done"] /\ UNCHANGED <<day, upstream, asks, amends, held>>
  BY DEF Store, Expiry
<1>2. call[c] \in Lookups /\ call[c].asked \in 0..LastDay /\ s \in Spellings
  BY DEF LookupInv, LookupTypeOK, Lookups
<1>3. call[c].answer \in Definitive /\ held[call[c].answer] >= call[c].asked
  BY <1>1 DEF LookupInv, Unstored
<1>4. held[call[c].answer] \in -TTL..LastDay
  BY <1>3, AnswersDiffer DEF LookupInv, LookupTypeOK
<1>5. [call[c] EXCEPT !.at = "done"] \in Lookups
  BY <1>2 DEF Lookups
<1>6. /\ e \in [answer : Definitive \cup {None}, expires : 0..LastDay + TTL]
      /\ held[e.answer] >= e.expires - TTL /\ e.answer \in Definitive
  BY <1>2, <1>3, <1>4
<1> HIDE DEF e
<1>7. LookupTypeOK'
  BY <1>1, <1>2, <1>5, <1>6 DEF LookupInv, LookupTypeOK
<1>8. Underway'
  <2>1. \A d \in Callers : call'[d].asked = call[d].asked /\ call'[d].variant = call[d].variant
                             /\ call'[d].spelling = call[d].spelling
    BY <1>1, <1>2 DEF LookupInv, LookupTypeOK, Lookups
  <2> QED
    BY <2>1, <1>1 DEF LookupInv, Underway
<1>9. Unstored' /\ AnswersFresh'
  <2>1. \A d \in Callers : /\ call'[d].asked = call[d].asked /\ call'[d].answer = call[d].answer
                            /\ call'[d].at = IF d = c THEN "done" ELSE call[d].at
    BY <1>1, <1>2 DEF LookupInv, LookupTypeOK, Lookups
  <2>2. held[call[c].answer] > call[c].asked - TTL
    BY <1>2, <1>3, <1>4
  <2> QED
    BY <2>1, <2>2, <1>1 DEF LookupInv, Unstored, AnswersFresh
<1>10. Current'
  BY <1>1 DEF LookupInv, Current
<1>11. Entries'
  BY <1>1, <1>2, <1>6 DEF LookupInv, LookupTypeOK, Entries
<1> QED
  BY <1>7, <1>8, <1>9, <1>10, <1>11 DEF LookupInv

LEMMA LeaveInv ==
  ASSUME LookupInv, NEW c \in Callers, Leave(c)
  PROVE  LookupInv'
<1>1. Away \in Lookups /\ Away.at = "away" /\ Away.asked = 0 /\ Away.variant = 1 /\ Away.spelling = "kept"
  BY DEF Away, Lookups, Spellings, MaxAttempts, LookupInv, LookupTypeOK
<1>2. call' = [call EXCEPT ![c] = Away] /\ UNCHANGED <<day, upstream, cache, asks, amends, held>>
  BY DEF Leave
<1>3. LookupTypeOK'
  BY <1>1, <1>2 DEF LookupInv, LookupTypeOK
<1>4. Underway'
  BY <1>1, <1>2, Variants DEF LookupInv, LookupTypeOK, Underway
<1>5. Unstored' /\ AnswersFresh'
  BY <1>1, <1>2 DEF LookupInv, LookupTypeOK, Unstored, AnswersFresh
<1>6. Current' /\ Entries'
  BY <1>2 DEF LookupInv, Current, Entries
<1> QED
  BY <1>3, <1>4, <1>5, <1>6 DEF LookupInv

\* Time and the airline only make what was said later, never earlier.
LEMMA WorldInv ==
  ASSUME LookupInv, Amend \/ NextDay
  PROVE  LookupInv'
<1>1. /\ UNCHANGED <<cache, call, asks>> /\ upstream' \in Says /\ day' \in 0..LastDay /\ day' >= day
      /\ amends' \in 0..MaxAmends /\ held' = [held EXCEPT ![upstream'] = day']
  BY DEF Amend, NextDay, LookupInv, LookupTypeOK
<1>2. \A x \in Says : /\ held[x] \in -TTL..LastDay /\ held[x] <= day
                      /\ held'[x] \in -TTL..LastDay /\ held'[x] >= held[x] /\ held'[x] <= day'
  BY <1>1 DEF LookupInv, LookupTypeOK, Current
<1>3. LookupTypeOK'
  BY <1>1, <1>2 DEF LookupInv, LookupTypeOK
<1>4. Current'
  BY <1>1, <1>2 DEF LookupInv, LookupTypeOK, Current
<1>5. Underway'
  BY <1>1 DEF LookupInv, LookupTypeOK, Underway, Lookups
<1>6. Unstored' /\ AnswersFresh'
  BY <1>1, <1>2, AnswersDiffer DEF LookupInv, LookupTypeOK, Unstored, AnswersFresh, Lookups
<1>7. Entries'
  BY <1>1, <1>2, AnswersDiffer DEF LookupInv, LookupTypeOK, Entries
<1> QED
  BY <1>3, <1>4, <1>5, <1>6, <1>7 DEF LookupInv

LEMMA AddFlightInv ==
  ASSUME LookupInv, AddFlight
  PROVE  LookupInv'
<1>1. Away \in Lookups /\ Away.at = "away" /\ Away.asked = 0 /\ Away.variant = 1 /\ Away.spelling = "kept"
  BY DEF Away, Lookups, Spellings, MaxAttempts, LookupInv, LookupTypeOK
<1>2. /\ call' = [d \in Callers |-> Away] /\ cache' = [s \in Spellings |-> NoEntry]
      /\ day' = 0 /\ asks' = MaxAsks /\ amends' = MaxAmends /\ held' = [x \in Says |-> 0]
      /\ upstream' = upstream
  BY DEF AddFlight
<1>3. LookupTypeOK'
  BY <1>1, <1>2 DEF LookupInv, LookupTypeOK, NoEntry
<1>4. Current'
  BY <1>2 DEF Current, LookupInv, LookupTypeOK
<1>5. Underway'
  BY <1>1, <1>2, Variants DEF Underway
<1>6. Unstored' /\ AnswersFresh'
  BY <1>1, <1>2 DEF Unstored, AnswersFresh
<1>7. Entries'
  BY <1>2 DEF Entries, NoEntry
<1> QED
  BY <1>3, <1>4, <1>5, <1>6, <1>7 DEF LookupInv

LEMMA LookupStutters ==
  ASSUME LookupInv, UNCHANGED lookupVars
  PROVE  LookupInv'
  BY DEF LookupInv, LookupTypeOK, Current, Underway, Unstored, Entries, AnswersFresh, lookupVars

LEMMA LookupInvariant == DataSpec => []LookupInv
<1>1. LookupInv /\ [DataNext]_dataVars => LookupInv'
  <2> SUFFICES ASSUME LookupInv, [DataNext]_dataVars PROVE LookupInv'
    OBVIOUS
  <2>1. CASE Lookup
    BY <2>1, ResolveInv, RequestInv, StoreInv, LeaveInv, WorldInv DEF Lookup, LookupNext, LookupStep
  <2>2. CASE AddFlight
    BY <2>2, AddFlightInv
  <2>3. CASE Tracking
    BY <2>3, LookupStutters DEF Tracking
  <2>4. CASE UNCHANGED dataVars
    BY <2>4, LookupStutters DEF dataVars
  <2> QED
    BY <2>1, <2>2, <2>3, <2>4 DEF DataNext
<1> QED
  BY <1>1, LookupInitInv, PTL DEF DataSpec

\* Every lookup, entry and date keeps its type.
THEOREM LookupsTyped == DataSpec => []LookupTypeOK
  BY LookupInvariant, PTL DEF LookupInv

\* However many callers ask at once, whatever is retried, padded, stored late or overwritten,
\* nobody is answered with what the service had ceased to say a lifetime of the cache ago.
THEOREM LookupsFresh == DataSpec => []AnswersFresh
  BY LookupInvariant, PTL DEF LookupInv

-----------------------------------------------------------------------------
(* The track: inductive invariant                                           *)

HIDE ResolverAssumption
USE PositionsAssumption

\* Nothing is polled or looked at before there is a flight.
Grounded == /\ ~flight.there => poll.at = "idle" /\ page = NoPage
            /\ poll.at = "ask" => poll.fix = NoFix

\* However many rows there are, some row is the newest.
HasNewest == track # {} => Newest(track) # {}

\* What a page has read is still there.
PageStored == page.at = "track" /\ page.latest # NoFix => page.latest \in track

\* A fix on its way to the table was compared with what is the newest row there.
Near(fix) == \E q \in Newest(track) : Distance(q.place, fix.place) <= MaxSpeed * (fix.ts - q.ts)
Gated ==
    /\ poll.at \in {"reckon", "insert"} /\ faults = 0 /\ poll.fix # NoFix /\ ~poll.fix.est
    /\ track # {} /\ (\A q \in track : q.ts < poll.fix.ts)
    => Near(poll.fix)

\* Behind the dead reckoner there is a position, while the flight is in the air.
Filled == poll.at = "insert" /\ flight.legs = Legs /\ poll.now \in Out..In => poll.fix # NoFix

TrackInv == PositionsTypeOK /\ Grounded /\ HasNewest /\ PageStored /\ Gated /\ Filled

-----------------------------------------------------------------------------
(* Lemmas about places and estimates                                        *)

LEMMA Quotient ==
  ASSUME NEW x \in Nat, NEW w \in Nat \ {0}
  PROVE  (x \div w) \in Nat /\ w * (x \div w) <= x
  OBVIOUS

\* A fraction of the way from a to b is between them.
LEMMA AlongBetween ==
  ASSUME NEW a \in Int, NEW b \in Int, a <= b, NEW part \in Nat, NEW whole \in Nat \ {0}, part <= whole
  PROVE  Along(a, b, part, whole) \in a..b
<1> DEFINE d == b - a
           q == (d * part) \div whole
<1>1. d \in Nat /\ d * part \in Nat /\ d * part <= d * whole
  OBVIOUS
<1>2. q \in Nat /\ whole * q <= d * part
  BY <1>1, Quotient
<1>3. whole * q <= d * whole
  BY <1>1, <1>2
<1> HIDE DEF q
<1>4. q <= d
  BY <1>1, <1>2, <1>3
<1> QED
  BY <1>2, <1>4 DEF Along, q

LEMMA TruePlaceTyped ==
  ASSUME PositionsTypeOK, NEW ts \in Int
  PROVE  TruePlace(ts) \in Place
<1>1. delay \in Nat
  BY DEF PositionsTypeOK
<1>2. CASE ts > Out + delay /\ ts < In + delay
  <2>1. ts - Out - delay \in Nat /\ In - Out \in Nat \ {0} /\ ts - Out - delay <= In - Out
    BY <1>1, <1>2
  <2>2. Along(0, Dest, ts - Out - delay, In - Out) \in 0..Dest
    <3>1. 0 \in Int /\ Dest \in Int /\ 0 <= Dest
      OBVIOUS
    <3> QED
      BY <2>1, <3>1, AlongBetween, Zenon
  <2> QED
    BY <1>1, <1>2, <2>2 DEF TruePlace, Place
<1>3. CASE ~(ts > Out + delay /\ ts < In + delay)
  BY <1>1, <1>3 DEF TruePlace, Place
<1> QED
  BY <1>2, <1>3

LEMMA ScheduleTyped ==
  ASSUME PositionsTypeOK
  PROVE  /\ FromSchedule \in Fixes
         /\ FromSchedule # NoFix => FromSchedule.est
         /\ flight.legs = Legs /\ poll.now \in Out..In => FromSchedule # NoFix
<1>1. poll.now \in 0..Horizon
  BY DEF PositionsTypeOK
<1>2. CASE flight.legs = Legs /\ poll.now >= Out /\ poll.now <= In
  <2>1. Along(0, Dest, poll.now - Out, In - Out) \in Place
    BY <1>1, <1>2, AlongBetween, SMTT(40) DEF Place
  <2>2. FromSchedule = Fix(poll.now, Along(0, Dest, poll.now - Out, In - Out), TRUE)
    BY <1>2 DEF FromSchedule
  <2> QED
    BY <1>1, <2>1, <2>2 DEF Fix, Fixes, NoFix
<1>3. CASE ~(flight.legs = Legs /\ poll.now >= Out /\ poll.now <= In)
  <2>1. FromSchedule = NoFix
    BY <1>3 DEF FromSchedule
  <2>2. ~(flight.legs = Legs /\ poll.now \in Out..In)
    BY <1>3
  <2> QED
    BY <2>1, <2>2 DEF Fixes
<1> QED
  BY <1>2, <1>3

LEMMA EstimateTyped ==
  ASSUME PositionsTypeOK, NEW anchor \in Fixes
  PROVE  /\ Estimate(anchor) \in Fixes
         /\ Estimate(anchor) # NoFix => Estimate(anchor).est
         /\ flight.legs = Legs /\ poll.now \in Out..In => Estimate(anchor) # NoFix
<1>1. poll.now \in 0..Horizon
  BY DEF PositionsTypeOK
<1>2. CASE anchor # NoFix /\ "dest" \in flight.legs /\ poll.now > anchor.ts
  <2>1. anchor.ts \in 0..Horizon /\ anchor.place \in Place
    BY <1>2 DEF Fixes
  <2>2. ExtrapolatedPlace(anchor) \in Place
    <3>1. CASE poll.now >= In
      BY <3>1 DEF ExtrapolatedPlace, Place
    <3>2. CASE poll.now < In
      <4>1. /\ poll.now - anchor.ts \in Nat /\ In - anchor.ts \in Nat \ {0}
            /\ poll.now - anchor.ts <= In - anchor.ts /\ anchor.place \in Int /\ anchor.place <= Dest
        BY <1>1, <1>2, <2>1, <3>2 DEF Place
      <4>2. Along(anchor.place, Dest, poll.now - anchor.ts, In - anchor.ts) \in anchor.place..Dest
        <5>1. Dest \in Int
          OBVIOUS
        <5> QED
          BY <4>1, <5>1, AlongBetween, Zenon
      <4> QED
        BY <1>1, <3>2, <4>2, <2>1 DEF ExtrapolatedPlace, Place
    <3> QED
      BY <1>1, <3>1, <3>2
  <2>3. Estimate(anchor) = Fix(poll.now, ExtrapolatedPlace(anchor), TRUE)
    BY <1>2 DEF Estimate
  <2> QED
    BY <1>1, <2>2, <2>3 DEF Fix, Fixes, NoFix
<1>3. CASE ~(anchor # NoFix /\ "dest" \in flight.legs /\ poll.now > anchor.ts)
  BY <1>3, ScheduleTyped DEF Estimate
<1> QED
  BY <1>2, <1>3

LEMMA AnchorsTyped ==
  ASSUME PositionsTypeOK
  PROVE  /\ OrNone(LatestPosition) \subseteq Fixes
         /\ OrNone(LatestRealPosition) \subseteq Fixes
         /\ \A p \in OrNone(LatestPosition) : p # NoFix => p \in Newest(track)
         /\ HasNewest /\ track # {} => OrNone(LatestPosition) = Newest(track) /\ NoFix \notin Newest(track)
<1>1. track \subseteq Fixes \ {NoFix} /\ NoFix \in Fixes
  BY DEF PositionsTypeOK, Fixes
<1> QED
  BY <1>1 DEF OrNone, LatestPosition, LatestRealPosition, Newest, HasNewest

\* A row that is added is the newest, or leaves the newest as it is.
LEMMA NewestGrows ==
  ASSUME PositionsTypeOK, HasNewest, NEW p \in Fixes
  PROVE  Newest(track \cup {p}) # {}
<1>1. \A q \in track \cup {p} : q.ts \in Int
  BY DEF PositionsTypeOK, Fixes, NoFix
<1>2. CASE track = {}
  BY <1>1, <1>2 DEF Newest
<1>3. CASE track # {}
  <2>1. PICK q \in track : \A r \in track : r.ts <= q.ts
    BY <1>3 DEF HasNewest, Newest
  <2>2. CASE p.ts <= q.ts
    BY <1>1, <2>1, <2>2 DEF Newest
  <2>3. CASE q.ts < p.ts
    BY <1>1, <2>1, <2>3 DEF Newest
  <2>4. p.ts \in Int /\ q.ts \in Int
    BY <1>1, <2>1
  <2> QED
    BY <2>2, <2>3, <2>4
<1> QED
  BY <1>2, <1>3

-----------------------------------------------------------------------------
(* The track: every step keeps the invariant                                *)

LEMMA TrackInitInv == DataInit => TrackInv
  BY DEF DataInit, TrackInit, TrackInv, PositionsTypeOK, Grounded, HasNewest, PageStored, Gated, Filled,
         Idle, NoPage, NoFlight, Fixes, NoFix

LEMMA StartPollInv ==
  ASSUME TrackInv, NEW frames, StartPoll(frames)
  PROVE  TrackInv'
<1>1. PICK f : /\ poll' = [at |-> "ask", now |-> now, frame |-> f, fix |-> NoFix]
               /\ flight' = [flight EXCEPT !.frame = f]
  BY DEF StartPoll
<1>2. UNCHANGED <<now, delay, track, shown, page, adrift, faults>> /\ flight.there
  BY DEF StartPoll
<1>3. PositionsTypeOK'
  BY <1>1, <1>2 DEF TrackInv, PositionsTypeOK, Fixes
<1>4. Grounded' /\ Gated' /\ Filled'
  BY <1>1, <1>2 DEF TrackInv, PositionsTypeOK, Grounded, Gated, Filled
<1>5. HasNewest' /\ PageStored'
  BY <1>2 DEF TrackInv, HasNewest, Newest, PageStored
<1> QED
  BY <1>3, <1>4, <1>5 DEF TrackInv

\* A step of the poller that only touches the fix in its hands.
LEMMA FixInv ==
  ASSUME TrackInv, UNCHANGED <<now, delay, flight, track, shown, page, adrift>>, faults' \in 0..MaxFaults,
         NEW at \in {"gate", "reckon", "insert"}, NEW fix \in Fixes,
         poll.at # "idle", poll' = [poll EXCEPT !.at = at, !.fix = fix],
         at \in {"reckon", "insert"} /\ faults' = 0 /\ fix # NoFix /\ ~fix.est
             /\ track # {} /\ (\A q \in track : q.ts < fix.ts) => Near(fix),
         at = "insert" /\ flight.legs = Legs /\ poll.now \in Out..In => fix # NoFix
  PROVE  TrackInv'
<1>1. /\ poll' = [at |-> at, now |-> poll.now, frame |-> poll.frame, fix |-> fix]
  BY DEF TrackInv, PositionsTypeOK
<1>2. PositionsTypeOK'
  BY <1>1 DEF TrackInv, PositionsTypeOK
<1>3. Grounded' /\ Filled'
  BY <1>1 DEF TrackInv, Grounded, Filled
<1>4. Gated'
  BY <1>1 DEF Gated, Near, Newest
<1>5. HasNewest' /\ PageStored'
  BY DEF TrackInv, HasNewest, Newest, PageStored
<1> QED
  BY <1>2, <1>3, <1>4, <1>5 DEF TrackInv

LEMMA OpenSkyInv ==
  ASSUME TrackInv, OpenSky
  PROVE  TrackInv'
<1>1. /\ poll.at = "ask" /\ poll.fix = NoFix /\ faults' = faults
      /\ UNCHANGED <<now, delay, flight, track, shown, page, adrift>>
  BY DEF OpenSky, TrackInv, Grounded
<1>2. poll \in [at : {"idle", "ask", "gate", "reckon", "insert", "publish"}, now : 0..now,
                frame : {poll.frame}, fix : Fixes] /\ faults \in 0..MaxFaults /\ NoFix \in Fixes
  BY DEF TrackInv, PositionsTypeOK, Fixes
<1>3. CASE poll' = [poll EXCEPT !.at = "reckon"]
  <2>1. poll' = [poll EXCEPT !.at = "reckon", !.fix = NoFix]
    BY <1>1, <1>2, <1>3
  <2> QED
    BY <2>1, <1>1, <1>2, FixInv
<1>4. ASSUME NEW lag \in Lags, lag <= now,
             poll' = [poll EXCEPT !.at = "gate",
                 !.fix = Fix(now - lag, IF poll.frame = Actual THEN TruePlace(now - lag) ELSE Elsewhere, FALSE)]
      PROVE  TrackInv'
  <2> DEFINE fix == Fix(now - lag, IF poll.frame = Actual THEN TruePlace(now - lag) ELSE Elsewhere, FALSE)
  <2>1. now - lag \in 0..Horizon
    BY <1>4 DEF TrackInv, PositionsTypeOK
  <2>2. fix \in Fixes
    BY <2>1, TruePlaceTyped DEF TrackInv, Fix, Fixes, Place
  <2> HIDE DEF fix
  <2> QED
    BY <1>1, <1>2, <1>4, <2>2, FixInv DEF fix
<1> QED
  BY <1>3, <1>4 DEF OpenSky

LEMMA SpeedGateInv ==
  ASSUME TrackInv, SpeedGate
  PROVE  TrackInv'
<1>1. poll.at = "gate" /\ UNCHANGED <<now, delay, flight, track, shown, page, adrift>>
  BY DEF SpeedGate
<1>2. /\ poll \in [at : {"idle", "ask", "gate", "reckon", "insert", "publish"}, now : 0..now,
                   frame : {poll.frame}, fix : Fixes]
      /\ faults \in 0..MaxFaults /\ NoFix \in Fixes /\ PositionsTypeOK
  BY DEF TrackInv, PositionsTypeOK, Fixes
<1>3. CASE Fails /\ poll' = [poll EXCEPT !.at = "reckon"]
  <2>1. poll' = [poll EXCEPT !.at = "reckon", !.fix = poll.fix]
    BY <1>2, <1>3
  <2>2. faults' \in 0..MaxFaults /\ faults' # 0
    BY <1>2, <1>3 DEF Fails, MayFail
  <2> QED
    BY <2>1, <2>2, <1>1, <1>2, FixInv
<1>4. ASSUME NEW anchor \in OrNone(LatestPosition), UNCHANGED faults,
             poll' = [poll EXCEPT !.at = "reckon", !.fix = IF Implausible(anchor, @) THEN NoFix ELSE @]
      PROVE  TrackInv'
  <2> DEFINE fix == IF Implausible(anchor, poll.fix) THEN NoFix ELSE poll.fix
  <2>1. fix \in Fixes
    BY <1>2
  <2>2. ASSUME fix # NoFix, track # {}, \A q \in track : q.ts < fix.ts
        PROVE  Near(fix)
    <3>1. fix = poll.fix /\ ~Implausible(anchor, fix)
      BY <2>2
    <3>2. anchor \in Newest(track) /\ anchor # NoFix
      BY <1>2, <2>2, AnchorsTyped DEF TrackInv
    <3>3. anchor \in track
      BY <3>2 DEF Newest
    <3>4. /\ fix.ts > anchor.ts
          /\ ~(Distance(anchor.place, fix.place) > MaxSpeed * (fix.ts - anchor.ts))
      BY <2>2, <3>1, <3>2, <3>3 DEF Implausible
    <3>5. Distance(anchor.place, fix.place) \in Int /\ MaxSpeed * (fix.ts - anchor.ts) \in Int
      BY <1>2, <2>1, <2>2, <3>3 DEF PositionsTypeOK, Fixes, Place, Distance
    <3> HIDE DEF fix
    <3> QED
      BY <3>2, <3>4, <3>5 DEF Near
  <2>3. poll' = [poll EXCEPT !.at = "reckon", !.fix = fix]
    BY <1>4
  <2> HIDE DEF fix
  <2> QED
    BY <1>1, <1>2, <1>4, <2>1, <2>2, <2>3, FixInv
<1> QED
  BY <1>3, <1>4 DEF SpeedGate

LEMMA DeadReckonInv ==
  ASSUME TrackInv, DeadReckon
  PROVE  TrackInv'
<1>1. poll.at = "reckon" /\ UNCHANGED <<now, delay, flight, track, shown, page, adrift>>
  BY DEF DeadReckon
<1>2. /\ poll \in [at : {"idle", "ask", "gate", "reckon", "insert", "publish"}, now : 0..now,
                   frame : {poll.frame}, fix : Fixes]
      /\ faults \in 0..MaxFaults /\ NoFix \in Fixes /\ PositionsTypeOK
  BY DEF TrackInv, PositionsTypeOK, Fixes
<1>3. CASE Fails /\ poll' = [poll EXCEPT !.at = "insert", !.fix = FromSchedule]
  <2>1. faults' \in 0..MaxFaults /\ faults' # 0
    BY <1>2, <1>3 DEF Fails, MayFail
  <2> QED
    BY <2>1, <1>1, <1>2, <1>3, ScheduleTyped, FixInv
<1>4. ASSUME NEW anchor \in OrNone(LatestRealPosition), UNCHANGED faults,
             poll' = [poll EXCEPT !.at = "insert", !.fix = IF @ = NoFix THEN Estimate(anchor) ELSE @]
      PROVE  TrackInv'
  <2> DEFINE fix == IF poll.fix = NoFix THEN Estimate(anchor) ELSE poll.fix
  <2>1. anchor \in Fixes
    BY <1>2, AnchorsTyped
  <2>2. /\ fix \in Fixes
        /\ flight.legs = Legs /\ poll.now \in Out..In => fix # NoFix
        /\ fix # NoFix /\ ~fix.est => fix = poll.fix
    BY <1>2, <2>1, EstimateTyped
  <2>3. faults = 0 /\ fix # NoFix /\ ~fix.est /\ track # {} /\ (\A q \in track : q.ts < fix.ts) => Near(fix)
    BY <1>1, <2>2 DEF TrackInv, Gated
  <2>4. poll' = [poll EXCEPT !.at = "insert", !.fix = fix]
    BY <1>4
  <2> HIDE DEF fix
  <2> QED
    BY <1>1, <1>2, <1>4, <2>2, <2>3, <2>4, FixInv
<1> QED
  BY <1>3, <1>4 DEF DeadReckon

LEMMA InsertInv ==
  ASSUME TrackInv, InsertPartPosition
  PROVE  TrackInv'
<1>1. /\ poll' = [poll EXCEPT !.at = "publish"] /\ UNCHANGED <<now, delay, flight, shown, page>>
      /\ track' = track \/ (poll.fix # NoFix /\ track' = track \cup {poll.fix})
      /\ adrift' \subseteq track'
      /\ faults' \in 0..MaxFaults /\ poll.at = "insert"
  BY DEF InsertPartPosition, Fails, MayFail, TrackInv, PositionsTypeOK
<1>2. poll' = [at |-> "publish", now |-> poll.now, frame |-> poll.frame, fix |-> poll.fix]
  BY <1>1 DEF TrackInv, PositionsTypeOK
<1>3. PositionsTypeOK'
  BY <1>1, <1>2 DEF TrackInv, PositionsTypeOK
<1>4. HasNewest'
  <2>1. CASE track' = track
    BY <2>1 DEF TrackInv, HasNewest, Newest
  <2>2. CASE track' = track \cup {poll.fix}
    <3>1. Newest(track \cup {poll.fix}) # {}
      BY NewestGrows DEF TrackInv, PositionsTypeOK
    <3> QED
      BY <2>2, <3>1 DEF HasNewest, Newest
  <2> QED
    BY <1>1, <2>1, <2>2
<1>5. PageStored'
  BY <1>1 DEF TrackInv, PageStored
<1>6. Grounded' /\ Gated' /\ Filled'
  BY <1>1, <1>2 DEF TrackInv, Grounded, Gated, Filled
<1> QED
  BY <1>3, <1>4, <1>5, <1>6 DEF TrackInv

LEMMA PublishInv ==
  ASSUME TrackInv, Publish
  PROVE  TrackInv'
<1>1. /\ poll.at = "publish" /\ poll' = [Idle EXCEPT !.now = poll.now] /\ UNCHANGED <<now, delay, track, page, adrift>>
      /\ flight' = [flight EXCEPT !.status = IF now > In THEN "Arrived"
                                             ELSE IF now >= Out THEN "Enroute" ELSE "Scheduled"]
      /\ faults' \in 0..MaxFaults
  BY DEF Publish, Fails, MayFail, TrackInv, PositionsTypeOK
<1>2. shown' \in Fixes
  BY AnchorsTyped DEF Publish, TrackInv, Fixes
<1>3. poll' = [at |-> "idle", now |-> poll.now, frame |-> NoFrame, fix |-> NoFix]
  BY <1>1 DEF Idle
<1>4. flight.there /\ flight'.there /\ flight'.legs = flight.legs
  BY <1>1 DEF TrackInv, Grounded, PositionsTypeOK
<1>5. PositionsTypeOK'
  <2>1. PICK st \in {"Scheduled", "Enroute", "Arrived"} : flight' = [flight EXCEPT !.status = st]
    BY <1>1
  <2>2. flight' = [there |-> flight.there, frame |-> flight.frame, legs |-> flight.legs, status |-> st]
    BY <2>1 DEF TrackInv, PositionsTypeOK
  <2>3. flight' \in [there : BOOLEAN, frame : {NoFrame, Actual, flight'.frame}, legs : SUBSET Legs,
                     status : {"Scheduled", "Enroute", "Arrived"}]
    BY <2>2 DEF TrackInv, PositionsTypeOK
  <2>4. UNCHANGED <<now, delay, track, page, adrift>> /\ faults' \in 0..MaxFaults
    BY <1>1
  <2>5. poll.now \in 0..now' /\ NoFix \in Fixes
    BY <2>4 DEF TrackInv, PositionsTypeOK, Fixes
  <2>6. poll' \in [at : {"idle", "ask", "gate", "reckon", "insert", "publish"}, now : 0..now',
                   frame : {poll'.frame}, fix : Fixes]
    BY <1>3, <2>5
  <2> QED
    BY <1>2, <2>3, <2>4, <2>6 DEF TrackInv, PositionsTypeOK
<1>6. Grounded' /\ Gated' /\ Filled'
  BY <1>1, <1>3, <1>4 DEF Grounded, Gated, Filled
<1>7. HasNewest' /\ PageStored'
  BY <1>1 DEF TrackInv, HasNewest, Newest, PageStored
<1> QED
  BY <1>5, <1>6, <1>7 DEF TrackInv

\* Steps of a page, and the clock.
LEMMA BesideInv ==
  ASSUME TrackInv, ReadLatest \/ ReadTrack \/ Pass
  PROVE  TrackInv'
<1>1. /\ UNCHANGED <<delay, flight, poll, track, shown, adrift, faults>> /\ now' \in 0..Horizon /\ now' >= now
      /\ flight.there \/ page = NoPage \/ page' = NoPage
  BY DEF ReadLatest, ReadTrack, Pass, TrackInv, PositionsTypeOK
<1>2. /\ page' \in [at : {"none", "track"}, latest : Fixes]
      /\ page' # NoPage => flight.there
      /\ page'.at = "track" /\ page'.latest # NoFix => page'.latest \in track
  <2>1. CASE ReadLatest
    <3>1. PICK p \in OrNone(LatestPosition) : page' = [at |-> "track", latest |-> p]
      BY <2>1 DEF ReadLatest
    <3>2. p \in Fixes /\ (p # NoFix => p \in track)
      BY AnchorsTyped DEF TrackInv, Newest
    <3> QED
      BY <2>1, <3>1, <3>2 DEF ReadLatest
  <2>2. CASE ReadTrack
    BY <2>2 DEF ReadTrack, NoPage, Fixes
  <2>3. CASE Pass
    BY <2>3 DEF Pass, TrackInv, PositionsTypeOK, PageStored
  <2> QED
    BY <2>1, <2>2, <2>3
<1>3. PositionsTypeOK'
  BY <1>1, <1>2 DEF TrackInv, PositionsTypeOK
<1>4. Grounded'
  BY <1>1, <1>2 DEF TrackInv, Grounded
<1>5. PageStored'
  BY <1>1, <1>2 DEF PageStored
<1>6. HasNewest' /\ Gated' /\ Filled'
  BY <1>1 DEF TrackInv, HasNewest, Gated, Near, Newest, Filled
<1> QED
  BY <1>3, <1>4, <1>5, <1>6 DEF TrackInv

LEMMA DepartureInv ==
  ASSUME TrackInv, AddFlight
  PROVE  TrackInv'
<1>1. /\ UNCHANGED <<now, poll, track, shown, page, adrift, faults>> /\ delay' \in Delays
      /\ ~flight.there
  BY DEF AddFlight
<1>2. \E f : \E legs \in Located :
          flight' = [there |-> TRUE, frame |-> f, legs |-> legs, status |-> "Scheduled"]
  <2>1. PICK c \in Callers, legs \in Located :
          flight' = [NoFlight EXCEPT !.there = TRUE, !.frame = call[c].answer, !.legs = legs]
    BY Zenon DEF AddFlight
  <2>2. flight' = [there |-> TRUE, frame |-> call[c].answer, legs |-> legs, status |-> "Scheduled"]
    BY <2>1 DEF NoFlight
  <2> QED
    BY <2>2
<1>3. PositionsTypeOK'
  BY <1>1, <1>2, DataAssumption DEF TrackInv, PositionsTypeOK
<1>4. Grounded' /\ Gated' /\ Filled'
  BY <1>1, <1>2 DEF TrackInv, Grounded, Gated, Near, Newest, Filled
<1>5. HasNewest' /\ PageStored'
  BY <1>1 DEF TrackInv, HasNewest, Newest, PageStored
<1> QED
  BY <1>3, <1>4, <1>5 DEF TrackInv

LEMMA TrackStutters ==
  ASSUME TrackInv, UNCHANGED trackVars
  PROVE  TrackInv'
  BY DEF TrackInv, PositionsTypeOK, Grounded, HasNewest, Newest, PageStored, Gated, Near, Filled, trackVars

\* Only the insert writes the table.
LEMMA TrackChanges ==
  ASSUME [DataNext]_dataVars, track' # track
  PROVE  InsertPartPosition
  BY DEF DataNext, dataVars, trackVars, Lookup, AddFlight, Tracking, TrackNext, StartPoll, OpenSky, SpeedGate,
         DeadReckon, Publish, ReadLatest, ReadTrack, Pass

LEMMA TrackInvariant == DataSpec => []TrackInv
<1>1. DataInit => TrackInv
  BY TrackInitInv
<1>2. ASSUME TrackInv, [DataNext]_dataVars
      PROVE  TrackInv'
  <2>1. CASE Lookup
    BY <1>2, <2>1, TrackStutters DEF Lookup
  <2>2. CASE AddFlight
    BY <1>2, <2>2, DepartureInv
  <2>3. CASE Tracking
    <3>1. PICK frames : TrackNext(frames)
      BY <2>3 DEF Tracking
    <3> QED
      BY <1>2, <3>1, StartPollInv, OpenSkyInv, SpeedGateInv, DeadReckonInv, InsertInv, PublishInv, BesideInv
         DEF TrackNext
  <2>4. CASE UNCHANGED dataVars
    BY <1>2, <2>4, TrackStutters DEF dataVars, trackVars
  <2> QED
    BY <1>2, <2>1, <2>2, <2>3, <2>4 DEF DataNext
<1> QED
  BY <1>1, <1>2, PTL DEF DataSpec

-----------------------------------------------------------------------------
(* The track: theorems                                                      *)

\* Whatever the timetable, the speeds, the delays and the failures: no position is off the
\* line between the other aircraft and the destination, and none is dated later than the
\* clock may read.
THEOREM TrackTyped == DataSpec => []PositionsTypeOK
<1>1. TrackInv => PositionsTypeOK
  BY DEF TrackInv
<1> QED
  BY <1>1, TrackInvariant, PTL

\* Without a failed query, no fix reaches the table as its newest row at an impossible speed.
THEOREM GateHolds == DataSpec => NoTeleport
<1>1. ASSUME TrackInv, [DataNext]_dataVars, track' # track, faults' = 0, NEW p \in Inserted,
             ~p.est, track # {}, \A q \in track : q.ts < p.ts
      PROVE  \E q \in Newest(track) : Distance(q.place, p.place) <= MaxSpeed * (p.ts - q.ts)
  <2>1. InsertPartPosition
    BY <1>1, TrackChanges
  <2>2. p = poll.fix /\ p # NoFix /\ poll.at = "insert" /\ faults = 0
    BY <1>1, <2>1 DEF InsertPartPosition, Inserted, Fails, MayFail, TrackInv, PositionsTypeOK
  <2>3. Near(p)
    BY <1>1, <2>2 DEF TrackInv, Gated
  <2> QED
    BY <2>3 DEF Near
<1>2. TrackInv /\ [DataNext]_dataVars
        => [faults' = 0 => \A p \in Inserted :
              ~p.est /\ track # {} /\ (\A q \in track : q.ts < p.ts)
                 => \E q \in Newest(track) : Distance(q.place, p.place) <= MaxSpeed * (p.ts - q.ts)]_track
  BY <1>1
<1> QED
  BY <1>2, TrackInvariant, PTL DEF DataSpec, NoTeleport

\* A poll made in the air leaves a position, whatever the tracker answered or the gate dropped.
THEOREM EachPollFills == DataSpec => PositionEachPoll
<1>1. TrackInv /\ [DataNext]_dataVars
        => [poll.at = "insert" /\ faults' = faults /\ flight.legs = Legs /\ poll.now \in Out..In
              => poll.fix # NoFix]_poll
  BY DEF TrackInv, Filled
<1> QED
  BY <1>1, TrackInvariant, PTL DEF DataSpec, PositionEachPoll

\* However short the track is cut, it reaches the marker drawn on it.
THEOREM MarkerReached == DataSpec => TrackReachesMarker
<1>1. ASSUME TrackInv, page.at = "track", page.latest # NoFix
      PROVE  \E p \in PartTracks : p.ts >= page.latest.ts
  <2>1. page.latest \in track
    BY <1>1 DEF TrackInv, PageStored
  <2>2. PICK p \in track : \A q \in track : q.ts <= p.ts
    BY <1>1, <2>1 DEF TrackInv, HasNewest, Newest
  <2>3. {q \in track : q.ts > p.ts} = {}
    BY <1>1, <2>2 DEF TrackInv, PositionsTypeOK, Fixes
  <2>4. p \in PartTracks
    BY <2>2, <2>3, FS_EmptySet DEF PartTracks
  <2> QED
    BY <2>1, <2>2, <2>4 DEF TrackInv, PositionsTypeOK, Fixes
<1>2. TrackInv /\ [DataNext]_dataVars
        => [page.at = "track" /\ page.latest # NoFix => \E p \in PartTracks : p.ts >= page.latest.ts]_page
  BY <1>1
<1> QED
  BY <1>2, TrackInvariant, PTL DEF DataSpec, TrackReachesMarker

-----------------------------------------------------------------------------
(* Whole numbers and their quotients                                        *)

LEMMA Times ==
  ASSUME NEW x \in Int, NEW y \in Int, NEW k \in Nat, x <= y
  PROVE  x * k <= y * k
  OBVIOUS

LEMMA Spread ==
  ASSUME NEW x \in Int, NEW y \in Int, NEW k \in Int
  PROVE  (x - y - 1) * k = x * k - (y + 1) * k
  OBVIOUS

LEMMA Cancel ==
  ASSUME NEW x \in Int, NEW y \in Int, NEW k \in Nat \ {0}, x * k <= y * k
  PROVE  x <= y
<1> SUFFICES ASSUME y + 1 <= x PROVE FALSE
  OBVIOUS
<1>1. (y + 1) * k <= x * k
  BY Times
<1> QED
  BY <1>1

LEMMA Floor ==
  ASSUME NEW x \in Int, NEW w \in Nat \ {0}
  PROVE  /\ x \div w \in Int
         /\ (x \div w) * w <= x /\ x < (x \div w) * w + w
         /\ \A n \in Int : n * w <= x => n <= x \div w
<1>1. x \div w \in Int /\ (x \div w) * w <= x /\ x < (x \div w) * w + w
  OBVIOUS
<1>2. ASSUME NEW n \in Int, n * w <= x
      PROVE  n <= x \div w
  <2> DEFINE q == x \div w
  <2>1. q \in Int /\ n * w < (q + 1) * w
    BY <1>1, <1>2
  <2> HIDE DEF q
  <2> SUFFICES ASSUME q + 1 <= n PROVE FALSE
    BY <2>1 DEF q
  <2>2. (q + 1) * w <= n * w
    BY <2>1, Times
  <2>3. (q + 1) * w \in Int /\ n * w \in Int
    BY <2>1
  <2> QED
    BY <2>1, <2>2, <2>3
<1> QED
  BY <1>1, <1>2

\* A quotient grows when what is below one is added above and beneath.
LEMMA Extend ==
  ASSUME NEW n \in Int, NEW D \in Nat, NEW u \in Int, NEW w \in Int, NEW k \in Nat,
         n <= D, n * w <= D * u
  PROVE  n * (w + k) <= D * (u + k)
<1>1. n * k <= D * k
  BY Times
<1>2. n * (w + k) = n * w + n * k /\ D * (u + k) = D * u + D * k
  OBVIOUS
<1> QED
  BY <1>1, <1>2

\* Whoever flies from a place the timetable is not behind of, to be at D when it says, is
\* never ahead of the timetable: D places in F instants; at A after a instants, q further
\* after t.
LEMMA BehindTimetable ==
  ASSUME NEW D \in Nat, NEW F \in Nat, NEW A \in 0..D, NEW q \in Int, NEW a \in Nat, NEW t \in Nat,
         a < t, t < F, A * F <= D * a, q * (F - a) <= (D - A) * (t - a)
  PROVE  (A + q) * F <= D * t
<1> DEFINE w == F - a
           r == F - t
           m == t - a
<1>0. w \in Nat \ {0} /\ r \in Nat /\ m \in Nat /\ w = r + m
  OBVIOUS
<1>1. (A + q) * w <= A * r + D * m
  <2>1. q * w <= D * m - A * m
    OBVIOUS
  <2>2. (A + q) * w = A * r + A * m + q * w
    BY <1>0
  <2> QED
    BY <2>1, <2>2
<1>2. ((A + q) * w) * F <= (D * t) * w
  <2>1. ((A + q) * w) * F <= (A * r + D * m) * F
    <3>1. (A + q) * w \in Int /\ A * r + D * m \in Int
      OBVIOUS
    <3> HIDE DEF w, r, m
    <3> QED
      BY <1>1, <3>1, Times
  <2>2. (A * F) * r <= (D * a) * r
    <3>1. A * F \in Int /\ D * a \in Int
      OBVIOUS
    <3> HIDE DEF w, r, m
    <3> QED
      BY <1>0, <3>1, Times
  <2>3. (A * r + D * m) * F = (A * F) * r + (D * m) * F
    OBVIOUS
  <2>4. (D * a) * r + (D * m) * F = (D * t) * w
    <3>1. a * r + m * F = t * w
      OBVIOUS
    <3>2. (D * a) * r + (D * m) * F = D * (a * r + m * F) /\ (D * t) * w = D * (t * w)
      OBVIOUS
    <3> QED
      BY <3>1, <3>2
  <2> QED
    BY <2>1, <2>2, <2>3, <2>4
<1>3. ((A + q) * F) * w <= (D * t) * w
  <2>1. ((A + q) * F) * w = ((A + q) * w) * F
    OBVIOUS
  <2> QED
    BY <1>2, <2>1
<1>4. (A + q) * F \in Int /\ D * t \in Int
  OBVIOUS
<1> HIDE DEF w, r, m
<1> QED
  BY <1>0, <1>3, <1>4, Cancel

\* And never far behind the aircraft, d late, that was seen at A.
LEMMA AheadOfTruth ==
  ASSUME NEW D \in Nat, NEW F \in Nat \ {0}, NEW d \in Nat, NEW A \in 0..D, NEW T \in 0..D,
         NEW m \in Nat, NEW w \in Nat \ {0}, NEW x \in Int,
         x = F - w - d, D * x <= (A + 1) * F, A * F <= D * x, T * F <= D * (x + m)
  PROVE  (T - 1 - A) * w <= (D - A) * m
<1> DEFINE n == T - 1 - A
<1>1. n * F <= D * m
  <2>1. n * F = T * F - (A + 1) * F
    OBVIOUS
  <2>2. D * (x + m) = D * x + D * m
    OBVIOUS
  <2> QED
    BY <2>1, <2>2
<1>2. D * w <= (D - A) * F
  <2>1. (D - A) * F = D * F - A * F
    OBVIOUS
  <2>2. D * x = D * F - D * w - D * d
    OBVIOUS
  <2>3. D * d \in Nat
    OBVIOUS
  <2> QED
    BY <2>1, <2>2, <2>3
<1>3. (n * F) * w <= (D * m) * w
  <2>1. n * F \in Int /\ D * m \in Int
    OBVIOUS
  <2> HIDE DEF n
  <2> QED
    BY <1>1, <2>1, Times
<1>4. (D * w) * m <= ((D - A) * F) * m
  <2>1. D * w \in Int /\ (D - A) * F \in Int
    OBVIOUS
  <2> QED
    BY <1>2, <2>1, Times
<1>5. (n * w) * F <= ((D - A) * m) * F
  <2>1. (n * w) * F = (n * F) * w /\ (D * m) * w = (D * w) * m /\ ((D - A) * F) * m = ((D - A) * m) * F
    OBVIOUS
  <2> QED
    BY <1>3, <1>4, <2>1
<1>6. n * w \in Int /\ (D - A) * m \in Int
  OBVIOUS
<1> HIDE DEF n
<1>7. n * w <= (D - A) * m
  BY <1>5, <1>6, Cancel
<1> QED
  BY <1>7 DEF n

\* What is not ahead of t instants of the timetable is ahead of the aircraft, d late and at
\* T, by no more than its delay.
LEMMA AheadByDelay ==
  ASSUME NEW D \in Nat, NEW F \in Nat, NEW d \in Nat, NEW e \in 0..D, NEW T \in 0..D, NEW t \in Int,
         e * F <= D * t, T = D \/ D * (t - d) <= (T + 1) * F
  PROVE  (e - T - 1) * F <= D * d
<1>1. CASE T = D
  <2>1. (e - T - 1) * F <= 0 * F
    <3>1. e - T - 1 \in Int /\ e - T - 1 <= 0
      BY <1>1
    <3> QED
      BY <3>1, Times
  <2>2. D * d \in Nat
    OBVIOUS
  <2> QED
    BY <2>1, <2>2
<1>2. CASE D * (t - d) <= (T + 1) * F
  <2>1. D * (t - d) = D * t - D * d
    OBVIOUS
  <2> QED
    BY <1>2, <2>1, Spread
<1> QED
  BY <1>1, <1>2

\* From a fix h instants before departure, estimates fly D places in F + h instants.
LEMMA AheadByHeadStart ==
  ASSUME NEW D \in Nat, NEW F \in Nat, NEW d \in Nat, NEW e \in 0..D, NEW T \in 0..D, NEW t \in Int,
         NEW h \in Nat,
         e * (F + h) <= D * (t + h), T = D \/ D * (t - d) <= (T + 1) * F
  PROVE  (e - T - 1) * (F + h) <= D * (d + h)
<1> DEFINE w == F + h
<1>0. w \in Nat /\ F <= w
  OBVIOUS
<1>1. CASE T = D
  <2>1. (e - T - 1) * w <= 0 * w
    <3>1. e - T - 1 \in Int /\ e - T - 1 <= 0
      BY <1>1
    <3> HIDE DEF w
    <3> QED
      BY <1>0, <3>1, Times
  <2>2. D * (d + h) \in Nat
    OBVIOUS
  <2> QED
    BY <2>1, <2>2
<1>2. CASE D * (t - d) <= (T + 1) * F
  <2>1. (T + 1) * F <= (T + 1) * w
    <3>1. F * (T + 1) <= w * (T + 1)
      BY <1>0, Times
    <3> QED
      BY <1>0, <3>1
  <2>2. D * (t + h) - D * (t - d) = D * (d + h)
    OBVIOUS
  <2>3. (e - T - 1) * w = e * w - (T + 1) * w
    BY <1>0, Spread
  <2> QED
    BY <1>2, <2>1, <2>2, <2>3
<1> QED
  BY <1>1, <1>2

-----------------------------------------------------------------------------
(* How far an estimate is off                                               *)

Late == Out + delay

\* The aircraft flies Dest places in In - Out instants, and is where that has brought it.
LEMMA Truth ==
  ASSUME PositionsTypeOK, NEW ts \in Int
  PROVE  /\ TruePlace(ts) \in 0..Dest
         /\ TruePlace(ts) = 0 \/ TruePlace(ts) * (In - Out) <= Dest * (ts - Late)
         /\ TruePlace(ts) = Dest \/ Dest * (ts - Late) <= (TruePlace(ts) + 1) * (In - Out)
         /\ ts <= Late => TruePlace(ts) = 0
<1> DEFINE T == TruePlace(ts)
           F == In - Out
<1>1. delay \in Nat /\ Late \in Nat /\ F \in Nat \ {0} /\ Dest \in Nat
  BY DEF PositionsTypeOK, Late
<1>2. CASE ts <= Late
  <2>1. T = 0
    BY <1>1, <1>2 DEF TruePlace, Late
  <2>2. Dest * (ts - Late) <= 0
    BY <1>1, <1>2
  <2> QED
    BY <1>1, <2>1, <2>2
<1>3. CASE ts > Late /\ ts >= In + delay
  <2>1. T = Dest
    BY <1>1, <1>3 DEF TruePlace, Late
  <2>2. F \in Int /\ ts - Late \in Int /\ F <= ts - Late
    BY <1>1, <1>3 DEF Late
  <2>3. F * Dest <= (ts - Late) * Dest
    BY <1>1, <2>2, Times
  <2> QED
    BY <1>1, <1>3, <2>1, <2>3
<1>4. CASE ts > Late /\ ts < In + delay
  <2> DEFINE x == Dest * (ts - Late)
             q == x \div F
  <2>1. T = q
    <3>1. T = Along(0, Dest, ts - Out - delay, In - Out)
      BY <1>1, <1>4 DEF TruePlace, Late
    <3>2. ts - Out - delay = ts - Late
      BY <1>1 DEF Late
    <3>3. x \div F \in Int
      BY <1>1, Floor
    <3> QED
      BY <1>1, <3>1, <3>2, <3>3 DEF Along
  <2>2. x \in Nat /\ q \in Int /\ q * F <= x /\ x < q * F + F
    <3>1. x \in Nat
      BY <1>1, <1>4
    <3> HIDE DEF x, F
    <3> QED
      BY <1>1, <3>1, Floor
  <2>3. T \in 0..Dest
    <3>1. x <= Dest * F
      <4>1. ts - Late \in Int /\ F \in Int /\ ts - Late <= F
        BY <1>1, <1>4 DEF Late
      <4>2. (ts - Late) * Dest <= F * Dest
        BY <1>1, <4>1, Times
      <4> QED
        BY <1>1, <4>1, <4>2
    <3>2. q * F <= Dest * F
      BY <1>1, <2>2, <3>1
    <3>3. 0 * F <= x
      BY <1>1, <2>2
    <3>4. 0 <= q
      BY <1>1, <2>2, <3>3, Floor
    <3> HIDE DEF q, x, F
    <3>5. q <= Dest
      BY <1>1, <2>2, <3>2, Cancel
    <3> QED
      BY <2>1, <2>2, <3>4, <3>5
  <2>4. T * F <= x /\ x <= (T + 1) * F
    BY <1>1, <2>1, <2>2
  <2> QED
    BY <1>1, <1>4, <2>3, <2>4
<1> QED
  BY <1>1, <1>2, <1>3, <1>4

\* Where the dead reckoner puts a flight at an instant, from a fix or from the timetable.
FromFix(a, p) ==
    /\ ~a.est /\ a.ts < p.ts
    /\ p.place = IF p.ts >= In THEN Dest ELSE Along(a.place, Dest, p.ts - a.ts, In - a.ts)
FromTimetable(p) == p.ts \in Out..In /\ p.place = Along(0, Dest, p.ts - Out, In - Out)

\* As far ahead as the delay and the head start e of the fix account for.
Ahead(p, e) == p.place - TruePlace(p.ts) <= 1 + Along(0, Dest, delay + e, In - Out + e)

LEMMA AheadIf ==
  ASSUME PositionsTypeOK, NEW p \in Fixes, NEW e \in Nat, p.place \in 0..Dest,
         (p.place - TruePlace(p.ts) - 1) * (In - Out + e) <= Dest * (delay + e)
  PROVE  Ahead(p, e)
<1>1. delay \in Nat /\ In - Out + e \in Nat \ {0} /\ p.ts \in Int /\ TruePlace(p.ts) \in Int
      /\ Dest * (delay + e) \in Int /\ p.place \in Int
  <2>1. delay \in Nat /\ p.ts \in Int
    BY DEF PositionsTypeOK, Fixes, NoFix
  <2> QED
    BY <2>1, Truth
<1> DEFINE n == p.place - TruePlace(p.ts) - 1
           w == In - Out + e
           x == Dest * (delay + e)
<1>2. n \in Int /\ n * w <= x
  BY <1>1
<1>3. Along(0, Dest, delay + e, w) = x \div w
  <2>1. x \div w \in Int
    BY <1>1, Floor
  <2> QED
    BY <1>1, <2>1 DEF Along
<1> HIDE DEF n, w, x
<1>4. n <= x \div w /\ x \div w \in Int
  BY <1>1, <1>2, Floor DEF w, x
<1> QED
  BY <1>1, <1>3, <1>4 DEF Ahead, n, w

\* What is not ahead of the timetable is ahead of the aircraft by its delay.
LEMMA OnTimetable ==
  ASSUME PositionsTypeOK, NEW p \in Fixes, p.place \in 0..Dest,
         p.place * (In - Out) <= Dest * (p.ts - Out)
  PROVE  Ahead(p, 0)
<1>1. p.ts \in Int /\ delay \in Nat /\ In - Out \in Nat /\ Dest \in Nat /\ p.ts - Out \in Int
  BY DEF PositionsTypeOK, Fixes, NoFix
<1>2. /\ TruePlace(p.ts) \in 0..Dest
      /\ TruePlace(p.ts) = Dest \/ Dest * ((p.ts - Out) - delay) <= (TruePlace(p.ts) + 1) * (In - Out)
  <2>1. p.ts - Late = (p.ts - Out) - delay
    BY <1>1 DEF Late
  <2> QED
    BY <1>1, <2>1, Truth
<1>3. (p.place - TruePlace(p.ts) - 1) * (In - Out) <= Dest * delay
  BY <1>1, <1>2, AheadByDelay
<1> QED
  BY <1>1, <1>3, AheadIf

\* What flies to the destination from a fix taken before departure is ahead by the delay and
\* the head start.
LEMMA WithHeadStart ==
  ASSUME PositionsTypeOK, NEW p \in Fixes, p.place \in 0..Dest, NEW h \in Nat,
         p.place * (In - Out + h) <= Dest * (p.ts - Out + h)
  PROVE  Ahead(p, h)
<1>1. p.ts \in Int /\ delay \in Nat /\ In - Out \in Nat /\ Dest \in Nat /\ p.ts - Out \in Int
  BY DEF PositionsTypeOK, Fixes, NoFix
<1>2. /\ TruePlace(p.ts) \in 0..Dest
      /\ TruePlace(p.ts) = Dest \/ Dest * ((p.ts - Out) - delay) <= (TruePlace(p.ts) + 1) * (In - Out)
  <2>1. p.ts - Late = (p.ts - Out) - delay
    BY <1>1 DEF Late
  <2> QED
    BY <1>1, <2>1, Truth
<1>3. (p.place - TruePlace(p.ts) - 1) * (In - Out + h) <= Dest * (delay + h)
  BY <1>1, <1>2, AheadByHeadStart
<1> QED
  BY <1>1, <1>3, AheadIf

\* An estimate from the timetable is never behind the aircraft, and not farther ahead than its delay.
LEMMA TimetableNear ==
  ASSUME PositionsTypeOK, NEW p \in Fixes, FromTimetable(p)
  PROVE  TruePlace(p.ts) <= p.place /\ p.place \in 0..Dest /\ Ahead(p, 0)
<1> DEFINE F == In - Out
           x == Dest * (p.ts - Out)
<1>1. p.ts \in Out..In /\ p.ts - Out \in Nat /\ p.ts - Out <= F /\ F \in Nat \ {0} /\ x \in Nat /\ delay \in Nat
  BY DEF FromTimetable, PositionsTypeOK
<1>2. p.place = x \div F
  <2>1. x \div F \in Int
    BY <1>1, Floor
  <2> QED
    BY <2>1 DEF FromTimetable, Along
<1>3. /\ p.place \in Int /\ p.place * F <= x
      /\ \A n \in Int : n * F <= x => n <= p.place
  <2> HIDE DEF x, F
  <2> QED
    BY <1>1, <1>2, Floor
<1>4. p.place \in 0..Dest
  <2>1. Along(0, Dest, p.ts - Out, F) \in 0..Dest
    BY <1>1, AlongBetween
  <2> QED
    BY <2>1 DEF FromTimetable
<1>5. Ahead(p, 0)
  BY <1>3, <1>4, OnTimetable
<1>6. TruePlace(p.ts) <= p.place
  <2>1. TruePlace(p.ts) \in 0..Dest /\ (TruePlace(p.ts) = 0 \/ TruePlace(p.ts) * F <= Dest * (p.ts - Late))
    BY <1>1, Truth
  <2>2. Dest * (p.ts - Late) <= x
    <3>1. p.ts - Late \in Int /\ p.ts - Late <= p.ts - Out
      BY <1>1 DEF Late
    <3>2. (p.ts - Late) * Dest <= (p.ts - Out) * Dest
      BY <1>1, <3>1, Times
    <3> QED
      BY <1>1, <3>1, <3>2
  <2>3. CASE TruePlace(p.ts) = 0
    BY <1>4, <2>3
  <2>4. CASE TruePlace(p.ts) * F <= Dest * (p.ts - Late)
    <3>1. Dest * (p.ts - Late) \in Int /\ TruePlace(p.ts) * F \in Int
      BY <1>1, <2>1 DEF Late
    <3>2. TruePlace(p.ts) * F <= x
      BY <1>1, <2>2, <2>4, <3>1
    <3> QED
      BY <1>3, <2>1, <3>2
  <2> QED
    BY <2>1, <2>3, <2>4
<1> QED
  BY <1>4, <1>5, <1>6

\* An estimate from a true fix is at most one place behind the aircraft, and ahead by its
\* delay and the fix's head start.
LEMMA FixNear ==
  ASSUME PositionsTypeOK, NEW a \in Fixes, NEW p \in Fixes, FromFix(a, p), a.place = TruePlace(a.ts)
  PROVE  /\ TruePlace(p.ts) <= p.place + 1 /\ p.place \in 0..Dest
         /\ Ahead(p, 0) \/ (a.ts < Out /\ Ahead(p, Out - a.ts))
<1> DEFINE F == In - Out
           A == a.place
           T == TruePlace(p.ts)
           w == In - a.ts
           m == p.ts - a.ts
           q == ((Dest - A) * m) \div w
<1>1. /\ a.ts \in Int /\ p.ts \in Int /\ a.ts < p.ts /\ delay \in Nat /\ F \in Nat \ {0} /\ m \in Nat
      /\ Late \in Nat /\ Dest \in Nat
  BY DEF PositionsTypeOK, Fixes, NoFix, FromFix, Late
<1>2. /\ A \in 0..Dest
      /\ A = 0 \/ A * F <= Dest * (a.ts - Late)
      /\ A = Dest \/ Dest * (a.ts - Late) <= (A + 1) * F
      /\ a.ts <= Late => A = 0
  BY <1>1, Truth
<1>3. T \in 0..Dest /\ (T = 0 \/ T * F <= Dest * (p.ts - Late))
  BY <1>1, Truth
<1>4. CASE p.ts >= In
  <2>1. p.place = Dest
    BY <1>4 DEF FromFix
  <2>2. Dest * F <= Dest * (p.ts - Out)
    <3>1. p.ts - Out \in Int /\ F <= p.ts - Out
      BY <1>1, <1>4
    <3>2. F * Dest <= (p.ts - Out) * Dest
      BY <1>1, <3>1, Times
    <3> QED
      BY <1>1, <3>1, <3>2
  <2>3. Ahead(p, 0)
    BY <1>1, <2>1, <2>2, OnTimetable
  <2> QED
    BY <1>1, <1>3, <2>1, <2>3
<1>5. CASE p.ts < In
  <2>1. w \in Nat \ {0} /\ m <= w /\ p.place = Along(A, Dest, m, w)
    BY <1>1, <1>5 DEF FromFix
  <2>2. p.place \in A..Dest
    <3>1. A \in Int /\ A <= Dest
      BY <1>1, <1>2
    <3> HIDE DEF A, m, w
    <3> QED
      BY <1>1, <2>1, <3>1, AlongBetween
  <2>3. /\ q \in Int /\ q * w <= (Dest - A) * m
        /\ \A n \in Int : n * w <= (Dest - A) * m => n <= q
        /\ p.place = A + q
    <3>1. (Dest - A) * m \in Int
      BY <1>1, <1>2
    <3> HIDE DEF A, m, w
    <3> QED
      BY <2>1, <3>1, Floor DEF Along
  <2>4. p.place \in 0..Dest
    BY <1>2, <2>2
  <2>5. Ahead(p, 0) \/ (a.ts < Out /\ Ahead(p, Out - a.ts))
    <3>1. CASE a.ts < Out
      <4>1. A = 0
        BY <1>1, <1>2, <3>1 DEF Late
      <4>2. p.place * w <= Dest * m
        BY <1>1, <2>3, <4>1
      <4>3. Out - a.ts \in Nat /\ In - Out + (Out - a.ts) = w /\ p.ts - Out + (Out - a.ts) = m
        BY <1>1, <3>1
      <4>4. Ahead(p, Out - a.ts)
        BY <2>4, <4>2, <4>3, WithHeadStart
      <4> QED
        BY <3>1, <4>4
    <3>2. CASE a.ts >= Out
      <4>1. A * F <= Dest * (a.ts - Out)
        <5>1. a.ts - Out \in Nat /\ a.ts - Late \in Int /\ a.ts - Late <= a.ts - Out
          BY <1>1, <3>2 DEF Late
        <5>2. (a.ts - Late) * Dest <= (a.ts - Out) * Dest /\ Dest * (a.ts - Out) \in Nat
          BY <1>1, <5>1, Times
        <5>3. CASE A = 0
          BY <1>1, <5>2, <5>3
        <5>4. CASE A * F <= Dest * (a.ts - Late)
          <6>1. A * F \in Int /\ Dest * (a.ts - Late) \in Int
            BY <1>1, <1>2, <5>1
          <6> QED
            BY <1>1, <5>1, <5>2, <5>4, <6>1
        <5> QED
          BY <1>2, <5>3, <5>4
      <4>2. /\ a.ts - Out \in Nat /\ p.ts - Out \in Nat /\ a.ts - Out < p.ts - Out /\ p.ts - Out < F
            /\ F - (a.ts - Out) = w /\ (p.ts - Out) - (a.ts - Out) = m
        BY <1>1, <1>5, <3>2
      <4>3. (A + q) * F <= Dest * (p.ts - Out)
        <5> HIDE DEF A, F, q, m, w
        <5> QED
          BY <1>1, <1>2, <2>3, <4>1, <4>2, BehindTimetable
      <4>4. Ahead(p, 0)
        BY <2>3, <2>4, <4>3, OnTimetable
      <4> QED
        BY <4>4
    <3> QED
      BY <1>1, <3>1, <3>2
  <2>6. T <= p.place + 1
    <3>1. CASE T = 0 \/ A = Dest
      BY <1>1, <1>2, <1>3, <2>2, <2>4, <3>1
    <3>2. CASE T * F <= Dest * (p.ts - Late) /\ a.ts <= Late
      <4>1. A = 0
        BY <1>2, <3>2
      <4>2. T * w <= Dest * m
        <5>1. CASE a.ts >= Out
          <6>1. p.ts - Late \in Int /\ p.ts - Late <= m /\ w <= F
            BY <1>1, <3>2, <5>1
          <6>2. (p.ts - Late) * Dest <= m * Dest /\ w * T <= F * T
            BY <1>1, <1>3, <2>1, <6>1, Times
          <6>3. T * w \in Int /\ T * F \in Int /\ Dest * (p.ts - Late) \in Int /\ Dest * m \in Int
            BY <1>1, <1>3, <2>1, <6>1
          <6> HIDE DEF T, F, w, m
          <6> QED
            BY <1>1, <1>3, <2>1, <3>2, <6>1, <6>2, <6>3
        <5>2. CASE a.ts < Out
          <6> DEFINE k == Out - a.ts
                     u == p.ts - Late
          <6>1. k \in Nat /\ u \in Int /\ F + k = w /\ u + k <= m
            BY <1>1, <5>2 DEF Late
          <6>2. T * (F + k) <= Dest * (u + k)
            <7>1. T \in Int /\ T <= Dest /\ T * F <= Dest * u /\ F \in Int
              BY <1>1, <1>3, <3>2
            <7> HIDE DEF T, F, u, k
            <7> QED
              BY <1>1, <6>1, <7>1, Extend
          <6>3. (u + k) * Dest <= m * Dest
            <7>1. u + k \in Int /\ m \in Int
              BY <1>1, <6>1
            <7> HIDE DEF u, k, m
            <7> QED
              BY <1>1, <6>1, <7>1, Times
          <6>4. T * w \in Int /\ Dest * (u + k) \in Int /\ Dest * m \in Int
            BY <1>1, <1>3, <2>1, <6>1
          <6>5. (u + k) * Dest = Dest * (u + k) /\ m * Dest = Dest * m
            BY <1>1, <6>1
          <6> HIDE DEF T, F, u, k, m, w
          <6> QED
            BY <6>1, <6>2, <6>3, <6>4, <6>5
        <5> QED
          BY <1>1, <5>1, <5>2
      <4>3. T <= q
        BY <1>3, <2>3, <4>1, <4>2
      <4> QED
        BY <1>3, <2>3, <4>1, <4>3
    <3>3. CASE T * F <= Dest * (p.ts - Late) /\ a.ts > Late /\ A # Dest
      <4> DEFINE x == a.ts - Late
      <4>1. x \in Nat /\ x = F - w - delay /\ x + m = p.ts - Late
        BY <1>1, <3>3 DEF Late
      <4>2. A * F <= Dest * x /\ Dest * x <= (A + 1) * F
        <5>1. Dest * x \in Nat
          BY <1>1, <4>1
        <5>2. CASE A = 0
          BY <1>1, <1>2, <3>3, <5>1, <5>2
        <5>3. CASE A * F <= Dest * x
          BY <1>2, <3>3, <5>3
        <5> QED
          BY <1>2, <5>2, <5>3
      <4>3. (T - 1 - A) * w <= (Dest - A) * m
        <5>1. T * F <= Dest * (x + m)
          BY <3>3, <4>1
        <5> HIDE DEF T, F, x, m, w, A
        <5> QED
          BY <1>1, <1>2, <1>3, <2>1, <4>1, <4>2, <5>1, AheadOfTruth
      <4>4. T - 1 - A <= q
        <5>1. T - 1 - A \in Int
          BY <1>2, <1>3
        <5> HIDE DEF T, A, q, w, m
        <5> QED
          BY <2>3, <4>3, <5>1
      <4> QED
        BY <1>2, <1>3, <2>3, <4>4
    <3> QED
      BY <1>1, <1>3, <3>1, <3>2, <3>3
  <2> QED
    BY <2>4, <2>5, <2>6
<1> QED
  BY <1>1, <1>4, <1>5

-----------------------------------------------------------------------------
(* Where the estimates come from                                            *)

\* Every estimate was made from the timetable or from a fix of the track, and what is shown
\* is in the track.
Sourced(p) == FromTimetable(p) \/ \E a \in track : FromFix(a, p)
SoundInv ==
    /\ \A p \in track \cup {poll.fix} : p.est => Sourced(p)
    /\ shown \in track \cup {NoFix}

\* Until the next fix is stored the estimates come from the latest one, or are not later than it.
Follows(p) ==
    IF LatestRealPosition = {} THEN FromTimetable(p)
    ELSE \E a \in LatestRealPosition : p.ts <= a.ts \/ FromFix(a, p)
AdriftInv ==
    /\ \A p \in adrift : p.est
    /\ faults = 0 => \A p \in adrift \cup {poll.fix} : p.est => Follows(p)

LEMMA FromScheduleIs ==
  ASSUME FromSchedule # NoFix, PositionsTypeOK
  PROVE  FromTimetable(FromSchedule) /\ FromSchedule.ts = poll.now /\ flight.legs = Legs
<1>1. /\ flight.legs = Legs /\ poll.now >= Out /\ poll.now <= In
      /\ FromSchedule = Fix(poll.now, Along(0, Dest, poll.now - Out, In - Out), TRUE)
  BY DEF FromSchedule
<1>2. poll.now \in Nat
  BY DEF PositionsTypeOK
<1> QED
  BY <1>1, <1>2 DEF FromTimetable, Fix

LEMMA EstimateIs ==
  ASSUME PositionsTypeOK, NEW anchor \in OrNone(LatestRealPosition), Estimate(anchor) # NoFix
  PROVE  Sourced(Estimate(anchor)) /\ Follows(Estimate(anchor))
<1>1. poll.now \in Nat /\ anchor \in Fixes /\ track \subseteq Fixes \ {NoFix}
  BY AnchorsTyped DEF PositionsTypeOK
<1>2. anchor # NoFix => anchor \in LatestRealPosition /\ anchor \in track /\ ~anchor.est
  BY DEF OrNone, LatestRealPosition, Newest
<1>3. anchor = NoFix => LatestRealPosition = {}
  BY <1>1 DEF OrNone, LatestRealPosition, Newest
<1>4. CASE anchor # NoFix /\ "dest" \in flight.legs /\ poll.now > anchor.ts
  <2>1. Estimate(anchor) = Fix(poll.now, ExtrapolatedPlace(anchor), TRUE)
    BY <1>4 DEF Estimate
  <2>2. FromFix(anchor, Estimate(anchor))
    BY <1>1, <1>2, <1>4, <2>1 DEF FromFix, Fix, ExtrapolatedPlace
  <2> QED
    BY <1>2, <1>4, <2>2 DEF Sourced, Follows
<1>5. CASE ~(anchor # NoFix /\ "dest" \in flight.legs /\ poll.now > anchor.ts)
  <2>1. Estimate(anchor) = FromSchedule
    BY <1>5 DEF Estimate
  <2>2. /\ FromTimetable(Estimate(anchor)) /\ Estimate(anchor).ts = poll.now
        /\ "dest" \in flight.legs
    BY <2>1, FromScheduleIs DEF Legs
  <2>3. CASE anchor = NoFix
    BY <1>3, <2>2, <2>3 DEF Sourced, Follows
  <2>4. CASE anchor # NoFix
    <3>1. Estimate(anchor).ts <= anchor.ts
      BY <1>1, <1>5, <2>2, <2>4 DEF Fixes, NoFix
    <3> QED
      BY <1>2, <2>2, <2>4, <3>1 DEF Sourced, Follows
  <2> QED
    BY <2>3, <2>4
<1> QED
  BY <1>4, <1>5

\* A step that stores nothing, and takes up no estimate but one that is accounted for.
LEMMA EstimatesKept ==
  ASSUME SoundInv, AdriftInv, UNCHANGED <<track, adrift>>, shown' \in track \cup {NoFix},
         faults' = 0 => faults = 0,
         poll'.fix.est => \/ poll'.fix = poll.fix
                          \/ Sourced(poll'.fix) /\ (faults' = 0 => Follows(poll'.fix))
  PROVE  SoundInv' /\ AdriftInv'
<1>1. LatestRealPosition' = LatestRealPosition
  BY DEF LatestRealPosition, Newest
<1>2. \A p : (Sourced(p) => Sourced(p)') /\ (Follows(p) => Follows(p)')
  BY <1>1 DEF Sourced, Follows, FromTimetable, FromFix
<1>3. SoundInv'
  <2>1. ASSUME NEW p \in track \cup {poll'.fix}, p.est PROVE Sourced(p)
    BY <2>1 DEF SoundInv
  <2> QED
    BY <1>2, <2>1 DEF SoundInv
<1>4. AdriftInv'
  <2>1. ASSUME faults' = 0, NEW p \in adrift \cup {poll'.fix}, p.est PROVE Follows(p)
    BY <2>1 DEF AdriftInv
  <2> QED
    BY <1>2, <2>1 DEF AdriftInv
<1> QED
  BY <1>3, <1>4

LEMMA EstimatesStored ==
  ASSUME PositionsTypeOK, SoundInv, AdriftInv, InsertPartPosition
  PROVE  SoundInv' /\ AdriftInv'
<1>1. /\ poll'.fix = poll.fix /\ shown' = shown /\ (faults' = 0 => faults = 0)
      /\ NoFix.est = FALSE
  BY DEF InsertPartPosition, Fails, MayFail, PositionsTypeOK, NoFix
<1>2. CASE UNCHANGED <<track, adrift>>
  BY <1>1, <1>2, EstimatesKept DEF SoundInv
<1>3. CASE /\ poll.fix # NoFix /\ track' = track \cup {poll.fix}
           /\ adrift' = IF poll.fix.est THEN adrift \cup {poll.fix} ELSE {}
  <2>1. SoundInv'
    <3>1. \A p : Sourced(p) => Sourced(p)'
      BY <1>3 DEF Sourced, FromTimetable, FromFix
    <3>2. ASSUME NEW p \in track' \cup {poll'.fix}, p.est PROVE Sourced(p)
      BY <1>1, <1>3, <3>2 DEF SoundInv
    <3>3. shown' \in track' \cup {NoFix}
      BY <1>1, <1>3 DEF SoundInv
    <3> QED
      BY <3>1, <3>2, <3>3 DEF SoundInv
  <2>2. CASE ~poll.fix.est
    BY <1>1, <1>3, <2>1, <2>2 DEF AdriftInv
  <2>3. CASE poll.fix.est
    <3>1. {p \in track' : ~p.est} = {p \in track : ~p.est}
      BY <1>3, <2>3
    <3>2. LatestRealPosition' = LatestRealPosition
      BY <3>1 DEF LatestRealPosition, Newest
    <3>3. \A p : Follows(p) => Follows(p)'
      BY <3>2 DEF Follows, FromTimetable, FromFix
    <3>4. ASSUME faults' = 0, NEW p \in adrift' \cup {poll'.fix}, p.est PROVE Follows(p)
      BY <1>1, <1>3, <2>3, <3>4 DEF AdriftInv
    <3>5. \A p \in adrift' : p.est
      BY <1>3, <2>3 DEF AdriftInv
    <3> QED
      BY <2>1, <3>3, <3>4, <3>5 DEF AdriftInv
  <2> QED
    BY <2>2, <2>3
<1> QED
  BY <1>2, <1>3 DEF InsertPartPosition

LEMMA EstimateStep ==
  ASSUME TrackInv, SoundInv, AdriftInv, [DataNext]_dataVars
  PROVE  SoundInv' /\ AdriftInv'
<1>0. /\ PositionsTypeOK /\ faults \in Nat /\ shown \in track \cup {NoFix} /\ ~NoFix.est
      /\ poll.at = "ask" => poll.fix = NoFix
  BY DEF TrackInv, PositionsTypeOK, SoundInv, NoFix, Grounded
<1>1. CASE UNCHANGED <<poll, track, shown, adrift, faults>>
  BY <1>0, <1>1, EstimatesKept
<1>2. CASE Publish
  <2>1. shown' \in track \cup {NoFix}
    BY <1>2 DEF Publish, OrNone, LatestPosition, Newest
  <2>2. /\ UNCHANGED <<track, adrift>> /\ (faults' = 0 => faults = 0) /\ poll'.fix = NoFix
    BY <1>0, <1>2 DEF Publish, Fails, Idle
  <2> QED
    BY <1>0, <2>1, <2>2, EstimatesKept
<1>3. CASE OpenSky
  <2>1. UNCHANGED <<track, adrift, shown, faults>>
    BY <1>3 DEF OpenSky
  <2>2. poll'.fix = poll.fix \/ \E ts, place : poll'.fix = Fix(ts, place, FALSE)
    <3>1. CASE poll' = [poll EXCEPT !.at = "reckon"]
      BY <1>0, <3>1 DEF PositionsTypeOK
    <3>2. ASSUME NEW ts, NEW place, poll' = [poll EXCEPT !.at = "gate", !.fix = Fix(ts, place, FALSE)]
          PROVE  poll'.fix = Fix(ts, place, FALSE)
      BY <1>0, <3>2 DEF PositionsTypeOK
    <3> QED
      BY <1>3, <3>1, <3>2 DEF OpenSky
  <2>3. ASSUME NEW ts, NEW place, poll'.fix = Fix(ts, place, FALSE) PROVE ~poll'.fix.est
    <3>1. Fix(ts, place, FALSE).est = FALSE
      BY DEF Fix
    <3> QED
      BY <2>3, <3>1
  <2>4. poll'.fix.est => poll'.fix = poll.fix
    BY <2>2, <2>3
  <2> QED
    BY <1>0, <2>1, <2>4, EstimatesKept
<1>4. CASE SpeedGate
  <2>1. UNCHANGED <<track, adrift, shown>>
    BY <1>4 DEF SpeedGate
  <2>2. faults' = 0 => faults = 0
    <3>1. Fails \/ UNCHANGED faults
      BY Zenon, <1>4 DEF SpeedGate
    <3> QED
      BY <1>0, <3>1 DEF Fails
  <2>3. poll'.fix \in {poll.fix, NoFix}
    <3>1. CASE poll' = [poll EXCEPT !.at = "reckon"]
      BY <1>0, <3>1 DEF PositionsTypeOK
    <3>2. ASSUME NEW anchor,
                 poll' = [poll EXCEPT !.at = "reckon", !.fix = IF Implausible(anchor, @) THEN NoFix ELSE @]
          PROVE  poll'.fix \in {poll.fix, NoFix}
      BY <1>0, <3>2 DEF PositionsTypeOK
    <3> QED
      BY <1>4, <3>1, <3>2 DEF SpeedGate
  <2> QED
    BY <1>0, <2>1, <2>2, <2>3, EstimatesKept
<1>5. CASE DeadReckon
  <2>1. UNCHANGED <<track, adrift, shown>>
    BY <1>5 DEF DeadReckon
  <2>0. faults' = 0 => faults = 0
    <3>1. Fails \/ UNCHANGED faults
      BY Zenon, <1>5 DEF DeadReckon
    <3> QED
      BY <1>0, <3>1 DEF Fails
  <2>2. CASE Fails /\ poll' = [poll EXCEPT !.at = "insert", !.fix = FromSchedule]
    <3>1. faults' # 0 /\ poll'.fix = FromSchedule
      BY <1>0, <2>2 DEF Fails, PositionsTypeOK
    <3>2. FromSchedule # NoFix => Sourced(FromSchedule)
      BY <1>0, FromScheduleIs DEF Sourced
    <3> QED
      BY <1>0, <2>0, <2>1, <3>1, <3>2, EstimatesKept
  <2>3. ASSUME NEW anchor \in OrNone(LatestRealPosition),
               poll' = [poll EXCEPT !.at = "insert", !.fix = IF @ = NoFix THEN Estimate(anchor) ELSE @]
        PROVE  SoundInv' /\ AdriftInv'
    <3>1. poll'.fix = IF poll.fix = NoFix THEN Estimate(anchor) ELSE poll.fix
      BY <1>0, <2>3 DEF PositionsTypeOK
    <3>2. Estimate(anchor) # NoFix => Sourced(Estimate(anchor)) /\ Follows(Estimate(anchor))
      BY <1>0, EstimateIs
    <3> QED
      BY <1>0, <2>0, <2>1, <3>1, <3>2, EstimatesKept
  <2> QED
    BY <1>5, <2>2, <2>3 DEF DeadReckon
<1>6. ASSUME NEW frames, StartPoll(frames) PROVE SoundInv' /\ AdriftInv'
  <2>1. UNCHANGED <<track, adrift, shown, faults>> /\ poll'.fix = NoFix
    BY <1>6 DEF StartPoll
  <2> QED
    BY <1>0, <2>1, EstimatesKept
<1>7. CASE InsertPartPosition
  BY <1>0, <1>7, EstimatesStored
<1>8. CASE ReadLatest \/ ReadTrack \/ Pass
  BY <1>1, <1>8 DEF ReadLatest, ReadTrack, Pass
<1>9. CASE Lookup \/ AddFlight \/ UNCHANGED dataVars
  BY <1>1, <1>9 DEF Lookup, AddFlight, dataVars, trackVars
<1> QED
  BY <1>2, <1>3, <1>4, <1>5, <1>6, <1>7, <1>8, <1>9 DEF DataNext, Tracking, TrackNext

LEMMA EstimateInvariant == DataSpec => [](SoundInv /\ AdriftInv)
<1>1. DataInit => SoundInv /\ AdriftInv
  BY DEF DataInit, TrackInit, SoundInv, AdriftInv, Idle, NoFix
<1>2. TrackInv /\ (SoundInv /\ AdriftInv) /\ [DataNext]_dataVars => (SoundInv /\ AdriftInv)'
  BY EstimateStep
<1> QED
  BY <1>1, <1>2, TrackInvariant, PTL DEF DataSpec

LEMMA AlongGrows ==
  ASSUME NEW a \in Int, NEW b \in Int, a <= b, NEW x \in Int, NEW y \in Int, x <= y, NEW w \in Nat \ {0}
  PROVE  Along(a, b, x, w) <= Along(a, b, y, w)
<1> DEFINE X == (b - a) * x
           Y == (b - a) * y
<1>1. X \in Int /\ Y \in Int /\ X <= Y
  <2>1. x * (b - a) <= y * (b - a)
    BY Times
  <2> QED
    BY <2>1
<1> HIDE DEF X, Y
<1>2. X \div w \in Int /\ Y \div w \in Int /\ (X \div w) * w <= X
  BY <1>1, Floor
<1>3. (X \div w) * w <= Y
  <2>1. (X \div w) * w \in Int
    BY <1>2
  <2> QED
    BY <1>1, <1>2, <2>1
<1>4. X \div w <= Y \div w
  BY <1>1, <1>2, <1>3, Floor
<1> QED
  BY <1>2, <1>4 DEF Along, X, Y

\* Whatever the timetable, the fixes and the delays: what a flight is shown to do between two
\* fixes never leads it away from its destination.
THEOREM NoWayBack == DataSpec => []EstimatesAdvance
<1>1. ASSUME PositionsTypeOK, AdriftInv, faults = 0, \A r, s \in LatestRealPosition : r = s,
             NEW p \in adrift, NEW q \in adrift, q.ts < p.ts, \A r \in track : ~r.est => r.ts < q.ts
      PROVE  Distance(p.place, Dest) <= Distance(q.place, Dest)
  <2>1. p \in Fixes /\ q \in Fixes /\ p # NoFix /\ q # NoFix
    BY <1>1 DEF PositionsTypeOK
  <2>2. p.ts \in Int /\ q.ts \in Int /\ p.place \in Place /\ q.place \in Place
    BY <2>1 DEF Fixes
  <2>3. p.place \in Int /\ q.place \in Int /\ p.place <= Dest /\ q.place <= Dest
    BY <2>2 DEF Place
  <2> SUFFICES q.place <= p.place
    BY <2>3 DEF Distance
  <2>4. Follows(p) /\ Follows(q)
    BY <1>1 DEF AdriftInv
  <2>5. CASE FromTimetable(p) /\ FromTimetable(q)
    <3>1. /\ p.place = Along(0, Dest, p.ts - Out, In - Out) /\ q.place = Along(0, Dest, q.ts - Out, In - Out)
          /\ p.ts - Out \in Int /\ q.ts - Out \in Int /\ q.ts - Out <= p.ts - Out /\ In - Out \in Nat \ {0}
      BY <1>1, <2>2, <2>5 DEF FromTimetable
    <3> QED
      BY <3>1, AlongGrows
  <2>6. ASSUME NEW a \in LatestRealPosition, FromFix(a, p), FromFix(a, q)
        PROVE  q.place <= p.place
    <3>1. a \in track
      BY DEF LatestRealPosition, Newest
    <3>2. a.ts \in Int /\ a.place \in Int /\ a.place <= Dest
      BY <1>1, <3>1 DEF PositionsTypeOK, Fixes, NoFix, Place
    <3>3. CASE p.ts >= In
      BY <2>3, <2>6, <3>3 DEF FromFix
    <3>4. CASE p.ts < In
      <4>1. /\ p.place = Along(a.place, Dest, p.ts - a.ts, In - a.ts)
            /\ q.place = Along(a.place, Dest, q.ts - a.ts, In - a.ts)
            /\ p.ts - a.ts \in Int /\ q.ts - a.ts \in Int /\ q.ts - a.ts <= p.ts - a.ts
            /\ In - a.ts \in Nat \ {0}
        BY <1>1, <2>2, <2>6, <3>2, <3>4 DEF FromFix
      <4> QED
        BY <3>2, <4>1, AlongGrows
    <3> QED
      BY <2>2, <3>3, <3>4
  <2>7. CASE LatestRealPosition # {}
    <3>1. PICK a \in LatestRealPosition : p.ts <= a.ts \/ FromFix(a, p)
      BY <2>4, <2>7 DEF Follows
    <3>2. PICK b \in LatestRealPosition : q.ts <= b.ts \/ FromFix(b, q)
      BY <2>4, <2>7 DEF Follows
    <3>3. a = b
      BY <1>1
    <3>4. a.ts \in Int /\ a.ts < q.ts
      BY <1>1 DEF LatestRealPosition, Newest, PositionsTypeOK, Fixes, NoFix
    <3> QED
      BY <1>1, <2>2, <2>6, <3>1, <3>2, <3>3, <3>4
  <2> QED
    BY <2>4, <2>5, <2>7 DEF Follows
<1>2. TrackInv /\ AdriftInv => EstimatesAdvance
  BY <1>1 DEF EstimatesAdvance, TrackInv
<1> QED
  BY <1>2, TrackInvariant, EstimateInvariant, PTL

\* Whatever the timetable, the speeds, the delay, the age of the fixes and the failures: if no
\* fix was another aircraft's, a marker is never more than a place behind the aircraft, nor
\* ahead by more than its delay and the head start of a fix account for.
THEOREM MarkerNear == DataSpec => []NearTruth
<1>1. ASSUME PositionsTypeOK, SoundInv, shown # NoFix, \A p \in track : ~Wrong(p)
      PROVE  \E early \in HeadStarts :
                Distance(shown.place, TruePlace(shown.ts)) <= 1 + Along(0, Dest, delay + early, In - Out + early)
  <2>1. shown \in track /\ shown \in Fixes
    BY <1>1 DEF SoundInv, PositionsTypeOK
  <2>2. shown.ts \in Int /\ shown.place \in Int /\ TruePlace(shown.ts) \in Int
    <3>1. shown.ts \in Int /\ shown.place \in Int
      BY <1>1, <2>1 DEF Fixes, Place
    <3> QED
      BY <1>1, <3>1, Truth
  <2>3. 0 \in HeadStarts /\ HeadStarts \subseteq Nat
    BY <1>1 DEF HeadStarts, PositionsTypeOK, Fixes, NoFix
  <2>4. ASSUME NEW e \in HeadStarts, Ahead(shown, e), TruePlace(shown.ts) <= shown.place + 1
        PROVE  Distance(shown.place, TruePlace(shown.ts)) <= 1 + Along(0, Dest, delay + e, In - Out + e)
    <3>1. e \in Nat /\ delay \in Nat /\ In - Out + e \in Nat \ {0}
      BY <1>1, <2>3 DEF PositionsTypeOK
    <3> DEFINE x == Dest * (delay + e)
               w == In - Out + e
    <3>2. x \in Nat
      BY <3>1
    <3>3. Along(0, Dest, delay + e, w) = x \div w
      BY <3>1, Floor DEF Along
    <3>4. x \div w \in Int /\ 0 <= x \div w
      <4> HIDE DEF x, w
      <4>1. 0 * w <= x /\ 0 \in Int
        BY <3>1, <3>2 DEF w
      <4> QED
        BY <3>1, <3>2, <4>1, Floor DEF w
    <3> HIDE DEF x, w
    <3> QED
      BY <2>2, <2>4, <3>3, <3>4 DEF Ahead, Distance, w
  <2>5. CASE ~shown.est
    <3>1. shown.place = TruePlace(shown.ts)
      BY <1>1, <2>1, <2>5 DEF Wrong
    <3>2. Ahead(shown, 0)
      <4>1. shown.place \in 0..Dest /\ (shown.place - TruePlace(shown.ts) - 1) * (In - Out + 0) <= Dest * (delay + 0)
        <5>1. shown.place - TruePlace(shown.ts) - 1 = -1 /\ delay \in Nat /\ shown.place \in 0..Dest
          BY <1>1, <2>2, <3>1, Truth DEF PositionsTypeOK
        <5>2. Dest * (delay + 0) \in Nat
          BY <5>1
        <5> QED
          BY <5>1, <5>2
      <4> QED
        BY <1>1, <2>1, <4>1, AheadIf
    <3> QED
      BY <2>2, <2>3, <2>4, <3>1, <3>2
  <2>6. CASE shown.est /\ FromTimetable(shown)
    <3>1. Ahead(shown, 0) /\ TruePlace(shown.ts) <= shown.place
      BY <1>1, <2>1, <2>6, TimetableNear
    <3> QED
      BY <2>2, <2>3, <2>4, <3>1
  <2>7. ASSUME NEW a \in track, FromFix(a, shown)
        PROVE  \E e \in HeadStarts : Ahead(shown, e) /\ TruePlace(shown.ts) <= shown.place + 1
    <3>1. ~a.est /\ a.place = TruePlace(a.ts) /\ a \in Fixes
      BY <1>1, <2>7 DEF FromFix, Wrong, PositionsTypeOK
    <3>2. /\ TruePlace(shown.ts) <= shown.place + 1
          /\ Ahead(shown, 0) \/ (a.ts < Out /\ Ahead(shown, Out - a.ts))
      BY <1>1, <2>1, <2>7, <3>1, FixNear
    <3>3. a.ts < Out => Out - a.ts \in HeadStarts
      BY <3>1 DEF HeadStarts
    <3> QED
      BY <2>3, <3>2, <3>3
  <2> QED
    BY <1>1, <2>1, <2>4, <2>5, <2>6, <2>7 DEF SoundInv, Sourced
<1>2. TrackInv /\ SoundInv => NearTruth
  BY <1>1 DEF NearTruth, TrackInv
<1> QED
  BY <1>2, TrackInvariant, EstimateInvariant, PTL
=============================================================================
