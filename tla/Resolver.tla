------------------------------ MODULE Resolver ------------------------------
(***************************************************************************)
(* Flight lookup: the cache in front of AeroDataBox, asked by several      *)
(* callers at once for one flight and date.  The ident is typed short      *)
(* ("BA87") or in the form AeroDataBox keeps ("BA0087"); each spelling has *)
(* its own entry.  The cache is read under its lock, the service is asked  *)
(* without it, and the answer is stored with an expiry counted from the    *)
(* moment the caller came.  Time is in parts of the cache's lifetime; the  *)
(* rate limiter and the waits only delay, so they are steps that may take  *)
(* as long as they like.  Purge is never called.                           *)
(***************************************************************************)
EXTENDS Integers, Sequences, FiniteSets

CONSTANTS
    Callers,
    Schedules,      \* the flights (ResolvedFlight) that may be published, by their airframe
    TTL,            \* CachedResolver.TTL
    LastDay, MaxAsks, MaxAmends  \* bounds: on the clock, on lookups and on what the airline publishes

VARIABLES
    day,
    upstream,   \* what AeroDataBox says of the flight under the ident it keeps
    cache,      \* spelling |-> [answer, expires]
    call,       \* caller |-> the lookup he is in
    asks, amends,
    held        \* history: what upstream may say |-> the last day it said so

lookupVars == <<day, upstream, cache, call, asks, amends, held>>

Spellings == {"short", "kept"}
NotFound == "not found"         \* ErrFlightNotFound
Unscheduled == "unscheduled"    \* ErrFlightUnscheduled
Throttled == "throttled"        \* status 429
Trouble == "trouble"            \* an error: throttled twice, transport, status 5xx
None == "none"
Says == Schedules \cup {NotFound, Unscheduled}
Definitive == Schedules \cup {NotFound}
Away == [at |-> "away", spelling |-> "kept", asked |-> 0, variant |-> 1, attempt |-> 1, answer |-> None]
NoEntry == [answer |-> None, expires |-> 0]

ASSUME ResolverAssumption ==
    /\ {NotFound, Unscheduled, Throttled, Trouble, None} \cap Schedules = {}
    /\ TTL \in Nat \ {0} /\ LastDay \in Nat /\ MaxAsks \in Nat /\ MaxAmends \in Nat

LookupInit ==
    /\ day = 0 /\ upstream \in Says /\ cache = [s \in Spellings |-> NoEntry]
    /\ call = [c \in Callers |-> Away] /\ asks = 0 /\ amends = 0
    /\ held = [x \in Says |-> IF x = upstream THEN 0 ELSE -TTL]

\* What is typed, and the padded form if that is another.
IdentVariants(s) == IF s = "kept" THEN <<"kept">> ELSE <<"short", "kept">>
MaxAttempts == 2

-----------------------------------------------------------------------------
\* The lock is held for the lookup alone; an entry is good before its expiry.
Hit(s) == cache[s].answer # None /\ day < cache[s].expires
Resolve(c) ==
    /\ call[c].at = "away" /\ asks < MaxAsks
    /\ \E s \in Spellings :
         \/ /\ Hit(s)
            /\ call' = [call EXCEPT ![c] = [Away EXCEPT !.at = "done", !.spelling = s, !.asked = day,
                                                        !.answer = cache[s].answer]]
         \/ /\ ~Hit(s)
            /\ call' = [call EXCEPT ![c] = [Away EXCEPT !.at = "request", !.spelling = s, !.asked = day]]
    /\ asks' = asks + 1
    /\ UNCHANGED <<day, upstream, cache, amends, held>>

\* One request: throttled or failed, or what the service has under this form of the ident.
Answers(variant) == {Throttled, Trouble} \cup {IF variant = "kept" THEN upstream ELSE NotFound}

NeverLast(k) == k.variant > Len(IdentVariants(k.spelling))  \* faulty: off by one
LastVariant(k) == k.variant = Len(IdentVariants(k.spelling))

\* A throttled request is made once more, a form that is not known gives way to the next,
\* and anything else ends the lookup.  Only a flight and a final "not found" are stored.
AfterAnswer(k, got) ==
    IF got = Throttled /\ k.attempt < MaxAttempts THEN [k EXCEPT !.attempt = @ + 1]
    ELSE IF got = NotFound /\ ~LastVariant(k) THEN [k EXCEPT !.variant = @ + 1, !.attempt = 1]
    ELSE [Away EXCEPT !.spelling = k.spelling, !.asked = k.asked,
                      !.at = IF got \in Definitive THEN "store" ELSE "done",
                      !.answer = IF got = Throttled THEN Trouble ELSE got]

Request(c) ==
    /\ call[c].at = "request"
    /\ \E got \in Answers(IdentVariants(call[c].spelling)[call[c].variant]) :
         call' = [call EXCEPT ![c] = AfterAnswer(@, got)]
    /\ UNCHANGED <<day, upstream, cache, asks, amends, held>>

ExpiryFromNow(k) == day + TTL  \* faulty: counted from the answer
Expiry(k) == k.asked + TTL

Store(c) ==
    /\ call[c].at = "store"
    /\ cache' = [cache EXCEPT ![call[c].spelling] = [answer |-> call[c].answer, expires |-> Expiry(call[c])]]
    /\ call' = [call EXCEPT ![c].at = "done"]
    /\ UNCHANGED <<day, upstream, asks, amends, held>>

Leave(c) ==
    /\ call[c].at = "done" /\ call' = [call EXCEPT ![c] = Away]
    /\ UNCHANGED <<day, upstream, cache, asks, amends, held>>

-----------------------------------------------------------------------------
\* The airline publishes the schedule, the airframe, another airframe, or withdraws it all.
Amend ==
    /\ amends < MaxAmends /\ amends' = amends + 1
    /\ upstream' \in Says \ {upstream}
    /\ held' = [held EXCEPT ![upstream'] = day]
    /\ UNCHANGED <<day, cache, call, asks>>

NextDay ==
    /\ day < LastDay /\ day' = day + 1
    /\ held' = [held EXCEPT ![upstream] = day']
    /\ UNCHANGED <<upstream, cache, call, asks, amends>>

LookupStep(c) == Request(c) \/ Store(c)
LookupNext == (\E c \in Callers : Resolve(c) \/ LookupStep(c) \/ Leave(c)) \/ Amend \/ NextDay

-----------------------------------------------------------------------------
Lookups == [at : {"away", "request", "store", "done"}, spelling : Spellings, asked : 0..LastDay,
            variant : 1..2, attempt : 1..MaxAttempts, answer : Says \cup {None, Trouble}]

\* One type invariant.
LookupTypeOK ==
    /\ day \in 0..LastDay /\ upstream \in Says /\ asks \in 0..MaxAsks /\ amends \in 0..MaxAmends
    /\ cache \in [Spellings -> [answer : Definitive \cup {None}, expires : 0..LastDay + TTL]]
    /\ call \in [Callers -> Lookups]
    /\ held \in [Says -> -TTL..LastDay]

\* A flight, or that there is none, is only answered when AeroDataBox said so less than TTL
\* before the caller came, whoever asked it, however long that took and whatever was stored
\* in between; a throttled or failed request is never taken for an answer (cache.go:44-77,
\* "only cache definitive answers").
AnswersFresh ==
    \A c \in Callers : call[c].at = "done" /\ call[c].answer \in Definitive
        => held[call[c].answer] > call[c].asked - TTL
=============================================================================
