---------------------------- MODULE MCPositions ----------------------------
(* Two callers; a flight of three instants that leaves at 1, an instant     *)
(* late, and flies three places an instant, under a gate of five.           *)
EXTENDS FlightData

CONSTANTS ann, bob, booked, flown, unknown

MCCallers == {ann, bob}
MCSchedules == {booked, flown, unknown}
MCLocated == {{"dest"}, Legs}
\* A flight of five instants, three late, whose airframe is always right.
OnlyFlown == {flown}
MCElsewhere == -20
=============================================================================
