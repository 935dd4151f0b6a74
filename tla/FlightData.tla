----------------------------- MODULE FlightData -----------------------------
(***************************************************************************)
(* From lookup to map: a flight is looked up through the cache and added   *)
(* with the airframe it was answered with, and on the day the poller, who  *)
(* bypasses the cache, tracks it and renews the airframe from what         *)
(* AeroDataBox then says.                                                  *)
(***************************************************************************)
EXTENDS Resolver, Positions

CONSTANT Located   \* the airports whose coordinates may be known when a flight is added

ASSUME DataAssumption == Located \subseteq SUBSET Legs

dataVars == <<lookupVars, trackVars>>

DataInit == LookupInit /\ TrackInit

\* A lookup that found the flight becomes its row.  By the day of departure the entries of
\* the cache have expired and nobody is asking any more; what AeroDataBox then says of the
\* airframe it says until the flight is over.
AddFlight ==
    /\ ~flight.there
    /\ \E c \in Callers, legs \in Located :
         /\ call[c].at = "done" /\ call[c].answer \in Schedules
         /\ \A d \in Callers \ {c} : call[d].at = "away"
         /\ flight' = [NoFlight EXCEPT !.there = TRUE, !.frame = call[c].answer, !.legs = legs]
    /\ call' = [d \in Callers |-> Away] /\ cache' = [s \in Spellings |-> NoEntry]
    /\ day' = 0 /\ asks' = MaxAsks /\ amends' = MaxAmends /\ held' = [x \in Says |-> 0]
    /\ delay' \in Delays
    /\ UNCHANGED <<upstream, now, poll, track, shown, page, adrift, faults>>

Lookup == ~flight.there /\ LookupNext /\ UNCHANGED trackVars
Tracking == TrackNext({upstream} \cap (Schedules \ {NoFrame})) /\ UNCHANGED lookupVars

DataNext == Lookup \/ AddFlight \/ Tracking
DataSpec == DataInit /\ [][DataNext]_dataVars
=============================================================================
