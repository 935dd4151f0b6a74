----------------------------- MODULE MCIngestion -----------------------------
(* Two users, two trips a day apart, two messages - one with a flight the     *)
(* resolver may know and a hotel that touches both trips, one that cannot be  *)
(* attributed - and one paste that replaces the flight of the first trip.     *)
EXTENDS Ingestion

CONSTANTS ann, bob, noOne, annsAddress, ingest, booking, stranger, noMail

D1 == 1000          \* the day the first trip ends
Hour(day, hour) == 24 * day + hour

Flight(ident, from, to, day, hour, endHour) ==
    [type |-> "flight", low |-> FALSE, ident |-> ident, from |-> from, to |-> to,
     day |-> day, hour |-> hour, endDay |-> Blank, endHour |-> endHour]
Stay(type, low, day, hour, endDay, endHour) ==
    [type |-> type, low |-> low, ident |-> "", from |-> "", to |-> "",
     day |-> day, hour |-> hour, endDay |-> endDay, endHour |-> endHour]
Booking(type, ref, parts) == [type |-> type, ref |-> ref, parts |-> parts]

MCZone == [LHR |-> 0, JFK |-> -5]
MCTimetable == [x \in {<<"BA1", D1 + 2>>} |->
    [ident |-> "BA1", from |-> "LHR", to |-> "JFK", out |-> Hour(D1 + 2, 9), in |-> Hour(D1 + 2, 17)]]

\* The flight lands on the clock before it leaves; the hotel is dated by the day, or by
\* one no calendar has and under a type no table has; the dinner is a guess.
MCAnswer(hotelType, hotelDay) == <<
    Booking("flight", "PNR1", <<Flight("BA1", "LHR", "JFK", D1 + 2, 23, 2)>>),
    Booking(hotelType, NoRef, <<Stay("hotel", FALSE, hotelDay, Blank, D1 + 2, Blank)>>),
    Booking("dining", NoRef, <<Stay("dining", TRUE, D1, Blank, Blank, Blank)>>)>>

MCLetter == [m \in {booking, stranger} |->
    IF m = booking THEN [garbled |-> FALSE, from |-> annsAddress, dkim |-> TRUE,
                         answers |-> {MCAnswer("hotel", D1), MCAnswer("cruise", NoSuchDay)}]
    ELSE [garbled |-> FALSE, from |-> annsAddress, dkim |-> FALSE, answers |-> {}]]

Kept(start, end, flight) == [start |-> start, end |-> end, flight |-> flight,
                             cancelled |-> FALSE, dismissed |-> FALSE, replaces |-> NoPart]
OldFlight == [ident |-> "BA9", from |-> "LHR", to |-> "JFK", out |-> Hour(D1, 10), in |-> Hour(D1, 18)]

MCSeeds == {[
    verified |-> [a \in {annsAddress} |-> ann],
    trip     |-> << [live |-> TRUE, members |-> {ann, bob}, on |-> Blank, off |-> Blank],
                    [live |-> TRUE, members |-> {ann}, on |-> Hour(D1 + 2, 0), off |-> Hour(D1 + 4, 0)] >>,
    recent   |-> <<1, 2>>,
    plan     |-> << [live |-> TRUE, trip |-> 1, type |-> "flight", ref |-> "PNR9", by |-> bob, pax |-> {bob},
                     source |-> <<noMail, 0>>, parts |-> <<Kept(Hour(D1, 10), Hour(D1, 18), OldFlight)>>] >>]}

MCPastes == {[user |-> bob, trip |-> 1,
              answer |-> <<Booking("flight", NoRef, <<Flight("BA7", "LHR", "JFK", D1 + 1, 10, 13)>>)>>]}

MCUsers == {ann, bob}
MCMails == {booking, stranger}
MCPosts == {{m} : m \in MCMails}
MCAddresses == {annsAddress}
=============================================================================
