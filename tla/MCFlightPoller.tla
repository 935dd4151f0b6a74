-------------------------- MODULE MCFlightPoller --------------------------
(* One flight, departing at 1 and due at 3, on a clock that counts half poll *)
(* intervals; the airports table knows its destination only.                *)
EXTENDS FlightPoller

CONSTANTS p1, f1, g1, g2

MCParts == {p1}
TwoLegs == {"origin", "dest"}
MCOut == [p \in MCParts |-> 1]
MCIn == [p \in MCParts |-> 3]
\* For the run with disturbances: due at 2, on a clock that stops at 4.
ShortIn == [p \in MCParts |-> 2]
MCDepDelay == [p \in MCParts |-> 1]
MCInTable == {<<p1, "dest">>} \cap (Parts \X Legs)

Made(status, iata, source, frame) ==
    [status |-> status, iata |-> iata, source |-> source, frame |-> frame]

\* Only an ident; the airports and the airframe known; typed in as already over.
MCCreated == {Made("Scheduled", {}, "none", NoFrame), Made("Scheduled", Legs, "none", f1),
              Made("Cancelled", Legs, "user", f1), Made("Arrived", Legs, "user", f1)}
\* The airports given and the airframe not, or already over.
OpenOrOver == {Made("Scheduled", Legs, "none", NoFrame), Made("Cancelled", Legs, "user", f1),
               Made("Arrived", Legs, "user", f1)}
IdentOnly == {Made("Scheduled", {}, "none", NoFrame)}

Flight(legs, frame, gate) == [found |-> TRUE, legs |-> legs, frame |-> frame, gate |-> gate]
MCAnswers == {Flight(Legs, f1, g1), Flight({}, NoFrame, g2)}
OneAnswer == {Flight(Legs, f1, g1)}
=============================================================================
