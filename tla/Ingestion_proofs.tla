--------------------------- MODULE Ingestion_proofs ---------------------------
(* What holds of the mail and of the dialog whatever arrives, whatever the   *)
(* language model reads out of it, and however many failures, stops, edits   *)
(* and pastes there are: every message is in one place, no booking is filed  *)
(* twice, no flight is lost without a count of it, what a committed rebooking *)
(* replaces is cancelled, and a booking goes to the best trip for its dates. *)
EXTENDS Ingestion, Placement_proofs, FiniteSetTheorems, SequenceTheorems, TLAPS

\* Where the worker is within the bookings of a message, and past the last of them.
Busy == {"select", "create", "file", "seat"}
Ending == {"log", "reply", "remove"}

-----------------------------------------------------------------------------
(* The tables                                                                *)

\* A sequence, of whatever it holds.
IsList(s) == s \in Seq(ToSet(s))
RowFields == {"live", "trip", "type", "ref", "by", "pax", "source", "parts"}
PartFields == {"start", "end", "flight", "cancelled", "dismissed", "replaces"}

\* A part that is to be replaced exists, live or not: rows are never taken away.
Refers(r) == r # NoPart => r[1] \in DOMAIN plan /\ r[2] \in DOMAIN plan[r[1]].parts

\* A plan is live only if its trip is, and its passengers are members there.
RowOK(i) ==
    /\ DOMAIN plan[i] = RowFields
    /\ plan[i].live \in BOOLEAN
    /\ plan[i].trip \in DOMAIN trip
    /\ plan[i].live => trip[plan[i].trip].live
    /\ plan[i].pax \subseteq trip[plan[i].trip].members
    /\ plan[i].source \in (Mails \cup {NoMail}) \X Nat
    /\ \A k \in DOMAIN plan[i].parts : DOMAIN plan[i].parts[k] = PartFields
    /\ \A k \in DOMAIN plan[i].parts : Refers(plan[i].parts[k].replaces)

TripOK(t) ==
    /\ DOMAIN trip[t] = {"live", "members", "on", "off"}
    /\ trip[t].live \in BOOLEAN
    /\ trip[t].members \subseteq Users

TablesInv ==
    /\ IsList(trip) /\ IsList(plan)
    /\ verified \in [Addresses -> Users \cup {NoOne}]
    /\ \A t \in DOMAIN trip : TripOK(t)
    /\ \A i \in DOMAIN plan : RowOK(i)

\* A message is on its way, in new/ or in .failed/; the one at work, and those listed after
\* it, are in new/.
FilesInv ==
    /\ coming \subseteq Mails /\ inbox \subseteq Mails /\ poison \subseteq Mails
    /\ coming \cap (inbox \cup poison) = {} /\ inbox \cap poison = {}
    /\ worker.batch \subseteq inbox
    /\ worker.mail # NoMail => worker.mail \in inbox \ worker.batch

\* The rows and counters the worker writes.
NotesInv ==
    /\ audit \in [Mails -> [status : Statuses, added : Nat, failed : Nat]]
    /\ reply \in [Mails -> [added : Nat, failed : Nat]]
    /\ DOMAIN read = Mails
    /\ \A m \in Mails : IsList(read[m])
    /\ stopping \in BOOLEAN
    /\ failures \in Nat /\ stops \in Nat /\ edits \in Nat /\ pastes \in Nat

\* The worker has a message wherever it is not between two of them; what it knows of it
\* has been found by then, and is what was last read out of it.
WorkerInv ==
    /\ DOMAIN worker = DOMAIN AtRest
    /\ worker.at \in Calls \cup {"rest", "next", "remove", "rename"}
    /\ worker.added \in Nat /\ worker.failed \in Nat /\ worker.nth \in Nat /\ worker.verdict \in Statuses
    /\ worker.at \in {"rest", "next"} <=> worker.mail = NoMail
    /\ worker.at = "lookup" => Letter[worker.mail].from \in Addresses
    /\ worker.at \in {"propose"} \cup Busy => worker.user \in Users
    /\ worker.at \in Busy \cup Ending => worker.plans = read[worker.mail]
    /\ worker.at \in Busy => worker.nth \in 1..Len(worker.plans)
    /\ worker.at = "seat" => worker.row \in DOMAIN plan

\* A request of the dialog is at one of the proposals, with the row it has made.
DialogInv ==
    /\ DOMAIN dialog = DOMAIN Closed
    /\ dialog.at \in {"closed", "shown", "file", "seat", "cancel", "announce"}
    /\ dialog.at # "closed" => dialog.user \in Users /\ dialog.plans # <<>>
    /\ IsList(dialog.plans)
    /\ dialog.at \in {"file", "seat", "cancel"} => dialog.nth \in 1..Len(dialog.plans)
    /\ DOMAIN dialog.replaces = DOMAIN dialog.plans
    /\ \A i \in DOMAIN dialog.replaces : Refers(dialog.replaces[i])
    /\ IsList(dialog.made)
    /\ dialog.at \in {"seat", "cancel"} => dialog.made # <<>> /\ Last(dialog.made) \in DOMAIN plan
    /\ dialog.at = "cancel" => Replaced # NoPart

IngestInv == TablesInv /\ FilesInv /\ NotesInv /\ WorkerInv /\ DialogInv

-----------------------------------------------------------------------------
(* What is said of a message, of its flights and of what they replace        *)

\* The attempt at work is past booking n: it will not file it again.
Past(n) == \/ worker.at \in Busy /\ n < worker.nth
           \/ worker.at = "seat" /\ n = worker.nth
           \/ worker.at \in Ending

\* A row of booking n of m will have no twin: m is not in the mail any more, or is tried by
\* the attempt that filed the row and has passed it, or had an attempt cut short.
Accounted(m, n) == m = NoMail \/ m \in redo \/ m \notin inbox \cup coming \/ (worker.mail = m /\ Past(n))
FiledInv == FiledOnce /\ \A i \in DOMAIN plan : Accounted(plan[i].source[1], plan[i].source[2])

\* The flights among the first k bookings of m that are on no trip for the sender.
Unseated(m, n) == read[m][n].type = "flight" /\ <<m, n>> \notin seated
MissedTo(m, k) == {n \in 1..k : Unseated(m, n)}

\* The worker's count is of the flights it has passed without seating the sender; no booking
\* to come is seated, as the attempt has cleared what earlier ones had seated.
Counted ==
    /\ seated \subseteq Mails \X Nat
    /\ worker.at \in {"lookup", "propose"} => worker.failed = 0
    /\ worker.at \in Busy =>
         /\ worker.failed = Cardinality(MissedTo(worker.mail, worker.nth - 1))
         /\ \A s \in seated : s[1] = worker.mail => s[2] < worker.nth
    /\ worker.at \in Ending => worker.failed = Cardinality(Missing(worker.mail))

\* The count is in the audit row, or in the reply, unless the calls for both failed.
Noted ==
    /\ worker.at = "reply" =>
         audit[worker.mail].failed = worker.failed \/ failures >= 1 \/ worker.mail \in cut
    /\ worker.at = "remove" =>
         \/ audit[worker.mail].failed = worker.failed \/ reply[worker.mail].failed = worker.failed
         \/ failures >= 2 \/ worker.mail \in cut

\* A call that fails because the server stops is of a message the server stopped at, from
\* the point on where something is counted.
CutOff == stopping /\ worker.mail \notin cut => worker.at \in {"rest", "next", "lookup", "reject", "rename"}

CountInv == Counted /\ Noted /\ CutOff /\ FlightsAccounted

\* Part r, which row i replaces, needs no more cancelling, or i is the row of the request at
\* work, which goes on to cancel it.
Superseded(i, r) ==
    \/ r = NoPart \/ ~PartLives(r) \/ Part(r).cancelled
    \/ dialog.at \in {"seat", "cancel"} /\ i = Last(dialog.made) /\ r = Replaced

\* Only a failure or a stop keeps a request from its end.
CancelInv ==
    /\ stopping => stops >= 1
    /\ (failures = 0 /\ stops = 0) =>
         \A i \in DOMAIN plan : plan[i].live => \A k \in DOMAIN plan[i].parts : Superseded(i, plan[i].parts[k].replaces)

-----------------------------------------------------------------------------
(* Sequences                                                                 *)

LEMMA ListDomain ==
    ASSUME NEW s, IsList(s)
    PROVE  Len(s) \in Nat /\ DOMAIN s = 1..Len(s)
  BY DEF IsList

\* A function on 1..n is a sequence.
LEMMA Listed ==
    ASSUME NEW n \in Nat, NEW s, s = [i \in 1..n |-> s[i]]
    PROVE  IsList(s) /\ Len(s) = n
  BY DEF IsList, ToSet

\* So is one with the domain of a sequence.
LEMMA Relisted ==
    ASSUME NEW s, IsList(s), NEW t, t = [i \in DOMAIN s |-> t[i]]
    PROVE  IsList(t) /\ Len(t) = Len(s)
  BY Listed, ListDomain

LEMMA Appended ==
    ASSUME NEW s, IsList(s), NEW e
    PROVE  /\ IsList(Append(s, e))
           /\ Len(Append(s, e)) = Len(s) + 1
           /\ DOMAIN s = 1..Len(s)
           /\ DOMAIN Append(s, e) = 1..(Len(s) + 1)
           /\ \A i \in DOMAIN s : Append(s, e)[i] = s[i]
           /\ Append(s, e)[Len(s) + 1] = e
<1> DEFINE S == ToSet(s) \cup {e}
<1>1. s \in Seq(S)
  BY DEF IsList
<1>2. e \in S
  OBVIOUS
<1> HIDE DEF S
<1>3. Append(s, e) \in Seq(S) /\ Len(Append(s, e)) = Len(s) + 1
  BY <1>1, <1>2
<1>4. DOMAIN s = 1..Len(s) /\ DOMAIN Append(s, e) = 1..Len(Append(s, e))
  BY <1>1, <1>3
<1>5. IsList(Append(s, e))
  <2> DEFINE t == Append(s, e)
  <2>1. t \in [1..Len(t) -> S] /\ Len(t) \in Nat
    BY <1>3, LenProperties
  <2>2. t = [i \in 1..Len(t) |-> t[i]]
    BY <2>1
  <2> QED
    BY <2>1, <2>2, Listed
<1>6. \A i \in DOMAIN s : Append(s, e)[i] = s[i]
  BY <1>1, <1>2, <1>4
<1>7. Append(s, e)[Len(s) + 1] = e
  BY <1>1, <1>2
<1> QED
  BY <1>3, <1>4, <1>5, <1>6, <1>7

LEMMA RowsRewritten ==
    ASSUME IsList(plan), plan' = [i \in DOMAIN plan |-> plan'[i]]
    PROVE  DOMAIN plan' = DOMAIN plan /\ IsList(plan') /\ Len(plan') = Len(plan) /\ Len(plan) \in Nat
<1>1. IsList(plan') /\ Len(plan') = Len(plan)
  BY Relisted
<1>2. DOMAIN plan' = DOMAIN plan /\ Len(plan) \in Nat
  BY ListDomain
<1> QED
  BY <1>1, <1>2

-----------------------------------------------------------------------------
(* What the writes do to the tables                                          *)

\* No row is lost, revived, or made to replace another part; what is cancelled stays so.
Keeps ==
    /\ Len(plan) <= Len(plan')
    /\ \A i \in DOMAIN plan :
         /\ i \in DOMAIN plan'
         /\ plan'[i].source = plan[i].source
         /\ plan'[i].live => plan[i].live
         /\ DOMAIN plan'[i].parts = DOMAIN plan[i].parts
         /\ \A k \in DOMAIN plan[i].parts :
              /\ plan'[i].parts[k].replaces = plan[i].parts[k].replaces
              /\ plan[i].parts[k].cancelled => plan'[i].parts[k].cancelled

\* CreatePlan appends a row on a live trip.
LEMMA RowAdded ==
    ASSUME TablesInv, NEW p, NEW t, NEW u, NEW source \in (Mails \cup {NoMail}) \X Nat, NEW replaces,
           CanCreatePlan(p, t, replaces), CreatePlan(p, t, u, source, replaces), Refers(replaces),
           UNCHANGED <<trip, verified>>
    PROVE  /\ TablesInv' /\ Keeps
           /\ DOMAIN plan' = DOMAIN plan \cup {Len(plan')} /\ Len(plan') \notin DOMAIN plan
           /\ plan'[Len(plan')].source = source
           /\ \A k \in DOMAIN plan'[Len(plan')].parts : plan'[Len(plan')].parts[k].replaces \in {NoPart, replaces}
<1> DEFINE r == Row(p, t, u, source, replaces)
<1>1. /\ DOMAIN r = RowFields /\ r.live = TRUE /\ r.trip = t /\ r.pax = {} /\ r.source = source
      /\ \A k \in DOMAIN r.parts : DOMAIN r.parts[k] = PartFields /\ r.parts[k].replaces \in {NoPart, replaces}
  BY DEF Row, RowFields, PartFields
<1>2. plan' = Append(plan, r)
  BY DEF CreatePlan
<1> HIDE DEF r
<1>3. /\ IsList(plan')
      /\ Len(plan') = Len(plan) + 1 /\ Len(plan) \in Nat
      /\ DOMAIN plan = 1..Len(plan) /\ DOMAIN plan' = 1..(Len(plan) + 1)
      /\ \A i \in DOMAIN plan : plan'[i] = plan[i]
      /\ plan'[Len(plan')] = r
  BY <1>2, Appended DEF TablesInv
<1>4. t \in DOMAIN trip /\ trip[t].live
  BY DEF CanCreatePlan, Live
<1>5. ASSUME NEW x, Refers(x) PROVE Refers(x)'
  BY <1>3, <1>5 DEF Refers
<1>6. ASSUME NEW i, i = Len(plan) + 1 PROVE RowOK(i)'
  <2>1. \A k \in DOMAIN r.parts : Refers(r.parts[k].replaces)'
    BY <1>1, <1>5 DEF Refers
  <2> QED
    BY <1>1, <1>3, <1>4, <1>6, <2>1 DEF RowOK
<1>7. ASSUME NEW i \in DOMAIN plan PROVE RowOK(i)'
  BY <1>3, <1>5 DEF RowOK, TablesInv
<1>8. \A i \in DOMAIN trip : TripOK(i)'
  BY DEF TripOK, TablesInv
<1>9. TablesInv'
  <2>1. \A t1 \in DOMAIN trip' : TripOK(t1)'
    BY <1>8
  <2>2. \A i \in DOMAIN plan' : RowOK(i)'
    BY <1>3, <1>6, <1>7
  <2>3. IsList(trip)' /\ IsList(plan)'
    BY <1>3 DEF TablesInv
  <2>4. verified' \in [Addresses -> Users \cup {NoOne}]
    BY DEF TablesInv
  <2> QED
    BY <1>3, <2>1, <2>2, <2>3, <2>4 DEF TablesInv
<1>10. Keeps
  BY <1>3 DEF Keeps
<1> QED
  BY <1>1, <1>3, <1>9, <1>10

\* The rows there were, after a step that adds none.
SameRows == DOMAIN plan' = DOMAIN plan /\ Keeps

\* CreateTripForPlan.
LEMMA TripAdded ==
    ASSUME TablesInv, NEW u \in Users, NEW span, trip' = Append(trip, NewTrip(u, span)),
           UNCHANGED <<plan, verified>>
    PROVE  TablesInv' /\ SameRows
<1> DEFINE new == NewTrip(u, span)
<1>1. DOMAIN new = {"live", "members", "on", "off"} /\ new.live = TRUE /\ new.members = {u}
  BY DEF NewTrip
<1> HIDE DEF new
<1>2. /\ IsList(trip') /\ DOMAIN trip = 1..Len(trip) /\ DOMAIN trip' = 1..(Len(trip) + 1) /\ Len(trip) \in Nat
      /\ \A t \in DOMAIN trip : trip'[t] = trip[t]
      /\ trip'[Len(trip) + 1] = new
  BY Appended, ListDomain DEF TablesInv, new
<1>3. ASSUME NEW t \in DOMAIN trip' PROVE TripOK(t)'
  <2>1. CASE t \in DOMAIN trip
    BY <1>2, <2>1 DEF TablesInv, TripOK
  <2>2. CASE t = Len(trip) + 1
    BY <1>1, <1>2, <2>2 DEF TripOK
  <2> QED
    BY <1>2, <2>1, <2>2
<1>4. ASSUME NEW i \in DOMAIN plan' PROVE RowOK(i)'
  <2>1. \A r : Refers(r) => Refers(r)'
    BY DEF Refers
  <2> QED
    BY <1>2, <2>1 DEF TablesInv, RowOK
<1>5. TablesInv'
  BY <1>2, <1>3, <1>4 DEF TablesInv
<1>6. SameRows
  BY ListDomain DEF SameRows, Keeps, TablesInv
<1> QED
  BY <1>5, <1>6

\* AddPlanPassenger with its trigger.
LEMMA PassengerAdded ==
    ASSUME TablesInv, NEW i \in DOMAIN plan, plan[i].live, NEW u \in Users, AddPlanPassenger(i, u),
           UNCHANGED verified
    PROVE  TablesInv' /\ SameRows
<1> DEFINE t == plan[i].trip
<1>1. RowOK(i) /\ t \in DOMAIN trip /\ TripOK(t)
  BY DEF TablesInv, RowOK
<1>2. /\ DOMAIN trip' = DOMAIN trip /\ IsList(trip')
      /\ DOMAIN plan' = DOMAIN plan /\ IsList(plan') /\ Len(plan') = Len(plan) /\ Len(plan) \in Nat
  BY Relisted, ListDomain DEF TablesInv, AddPlanPassenger
<1>3. /\ \A s \in DOMAIN trip \ {t} : trip'[s] = trip[s]
      /\ DOMAIN trip'[t] = DOMAIN trip[t] /\ trip'[t].live = trip[t].live
      /\ trip'[t].members = trip[t].members \cup {u}
  BY <1>1 DEF AddPlanPassenger, TripOK
<1>4. /\ \A j \in DOMAIN plan \ {i} : plan'[j] = plan[j]
      /\ DOMAIN plan'[i] = RowFields /\ plan'[i].live = plan[i].live
      /\ plan'[i].trip = plan[i].trip /\ plan'[i].source = plan[i].source /\ plan'[i].parts = plan[i].parts
      /\ plan'[i].pax = plan[i].pax \cup {u}
  BY <1>1 DEF AddPlanPassenger, RowOK, RowFields
<1>5. SameRows
  BY <1>2, <1>4 DEF SameRows, Keeps
<1>6. ASSUME NEW s \in DOMAIN trip' PROVE TripOK(s)'
  <2>1. s \in DOMAIN trip /\ TripOK(s)
    BY <1>2 DEF TablesInv
  <2>2. CASE s = t
    BY <1>3, <2>1, <2>2 DEF TripOK
  <2>3. CASE s # t
    BY <1>3, <2>1, <2>3 DEF TripOK
  <2> QED
    BY <2>2, <2>3
<1>7. \A r : Refers(r) => Refers(r)'
  BY <1>2, <1>4 DEF Refers
<1>8. ASSUME NEW j \in DOMAIN plan' PROVE RowOK(j)'
  <2>1. j \in DOMAIN plan /\ RowOK(j)
    BY <1>2 DEF TablesInv
  <2>2. CASE j # i
    BY <1>2, <1>3, <1>4, <1>7, <2>1, <2>2 DEF RowOK
  <2>3. CASE j = i
    BY <1>1, <1>2, <1>3, <1>4, <1>7, <2>3 DEF RowOK
  <2> QED
    BY <2>2, <2>3
<1> QED
  BY <1>2, <1>5, <1>6, <1>8 DEF TablesInv

\* One row is changed, as no change revives it or makes it replace another part.
LEMMA RowChanged ==
    ASSUME TablesInv, NEW i \in DOMAIN plan, UNCHANGED <<trip, verified>>,
           plan' = [j \in DOMAIN plan |-> plan'[j]], \A j \in DOMAIN plan \ {i} : plan'[j] = plan[j],
           DOMAIN plan'[i] = RowFields, plan'[i].live \in BOOLEAN, plan'[i].live => plan[i].live, plan'[i].trip = plan[i].trip,
           plan'[i].source = plan[i].source, plan'[i].pax = plan[i].pax, DOMAIN plan'[i].parts = DOMAIN plan[i].parts,
           \A l \in DOMAIN plan[i].parts : /\ DOMAIN plan'[i].parts[l] = PartFields
                                           /\ plan'[i].parts[l].replaces = plan[i].parts[l].replaces
                                           /\ plan[i].parts[l].cancelled => plan'[i].parts[l].cancelled
    PROVE  TablesInv' /\ SameRows
<1>1. DOMAIN plan' = DOMAIN plan /\ IsList(plan') /\ Len(plan') = Len(plan) /\ Len(plan) \in Nat
  BY RowsRewritten DEF TablesInv
<1>2. SameRows
  BY <1>1 DEF SameRows, Keeps
<1>3. \A r : Refers(r) => Refers(r)'
  BY <1>1 DEF Refers
<1>4. RowOK(i)
  BY DEF TablesInv
<1>5. RowOK(i)'
  <2>1. \A l \in DOMAIN plan'[i].parts : DOMAIN plan'[i].parts[l] = PartFields
    OBVIOUS
  <2>2. ASSUME NEW l \in DOMAIN plan'[i].parts PROVE Refers(plan[i].parts[l].replaces)'
    <3>1. PICK r : r = plan[i].parts[l].replaces
      OBVIOUS
    <3>2. Refers(r)' /\ r = plan'[i].parts[l].replaces
      BY <1>3, <1>4, <3>1 DEF RowOK
    <3> QED
      BY <3>2 DEF Refers
  <2>3. /\ plan'[i].live \in BOOLEAN /\ plan'[i].trip \in DOMAIN trip' /\ (plan'[i].live => trip'[plan'[i].trip].live)
        /\ plan'[i].pax \subseteq trip'[plan'[i].trip].members /\ plan'[i].source \in (Mails \cup {NoMail}) \X Nat
    BY <1>4 DEF RowOK
  <2> QED
    BY <2>1, <2>2, <2>3 DEF RowOK
<1>6. ASSUME NEW j \in DOMAIN plan', j # i PROVE RowOK(j)'
  <2>1. RowOK(j) /\ plan'[j] = plan[j]
    BY <1>1, <1>6 DEF TablesInv
  <2> QED
    BY <1>3, <2>1 DEF RowOK
<1>7. \A t \in DOMAIN trip' : TripOK(t)'
  BY DEF TablesInv, TripOK
<1> QED
  BY <1>1, <1>2, <1>5, <1>6, <1>7 DEF TablesInv

\* CancelSuperseded.
LEMMA PartCancelled ==
    ASSUME TablesInv, NEW i \in DOMAIN plan, NEW k \in DOMAIN plan[i].parts,
           plan' = [plan EXCEPT ![i].parts[k].cancelled = TRUE], UNCHANGED <<trip, verified>>
    PROVE  TablesInv' /\ SameRows /\ plan'[i].parts[k].cancelled
<1>1. RowOK(i)
  BY DEF TablesInv
<1>2. /\ \A j \in DOMAIN plan \ {i} : plan'[j] = plan[j]
      /\ DOMAIN plan'[i] = RowFields /\ plan'[i].live = plan[i].live
      /\ plan'[i].trip = plan[i].trip /\ plan'[i].source = plan[i].source /\ plan'[i].pax = plan[i].pax
      /\ DOMAIN plan'[i].parts = DOMAIN plan[i].parts
      /\ \A l \in DOMAIN plan[i].parts \ {k} : plan'[i].parts[l] = plan[i].parts[l]
      /\ DOMAIN plan'[i].parts[k] = PartFields /\ plan'[i].parts[k].replaces = plan[i].parts[k].replaces
      /\ plan'[i].parts[k].cancelled = TRUE
  BY <1>1 DEF RowOK, RowFields, PartFields
<1>3. \A l \in DOMAIN plan[i].parts : /\ DOMAIN plan'[i].parts[l] = PartFields
                                      /\ plan'[i].parts[l].replaces = plan[i].parts[l].replaces
                                      /\ plan[i].parts[l].cancelled => plan'[i].parts[l].cancelled
  BY <1>1, <1>2 DEF RowOK
<1>4. plan' = [j \in DOMAIN plan |-> plan'[j]]
  OBVIOUS
<1>5. plan'[i].live \in BOOLEAN /\ plan'[i].live = plan[i].live
  BY <1>1, <1>2 DEF RowOK
<1> QED
  BY <1>2, <1>3, <1>4, <1>5, RowChanged

\* The edits: a plan goes, a part is dismissed, a trip goes with its plans.
LEMMA PlanDeleted ==
    ASSUME TablesInv, NEW i \in DOMAIN plan, plan' = [plan EXCEPT ![i].live = FALSE], UNCHANGED <<trip, verified>>
    PROVE  TablesInv' /\ SameRows
<1>1. RowOK(i)
  BY DEF TablesInv
<1>2. /\ \A j \in DOMAIN plan \ {i} : plan'[j] = plan[j]
      /\ DOMAIN plan'[i] = RowFields /\ plan'[i].live = FALSE
      /\ plan'[i].trip = plan[i].trip /\ plan'[i].source = plan[i].source /\ plan'[i].pax = plan[i].pax
      /\ plan'[i].parts = plan[i].parts
  BY <1>1 DEF RowOK, RowFields
<1>3. plan' = [j \in DOMAIN plan |-> plan'[j]]
  OBVIOUS
<1>4. \A l \in DOMAIN plan[i].parts : DOMAIN plan'[i].parts[l] = PartFields
  BY <1>1, <1>2 DEF RowOK
<1> QED
  BY <1>2, <1>3, <1>4, RowChanged

LEMMA PartDismissed ==
    ASSUME TablesInv, NEW i \in DOMAIN plan, plan' = [plan EXCEPT ![i].parts[1].dismissed = TRUE],
           UNCHANGED <<trip, verified>>
    PROVE  TablesInv' /\ SameRows
<1>1. RowOK(i)
  BY DEF TablesInv
<1>2. /\ \A j \in DOMAIN plan \ {i} : plan'[j] = plan[j]
      /\ DOMAIN plan'[i] = RowFields /\ plan'[i].live = plan[i].live
      /\ plan'[i].trip = plan[i].trip /\ plan'[i].source = plan[i].source /\ plan'[i].pax = plan[i].pax
      /\ DOMAIN plan'[i].parts = DOMAIN plan[i].parts
      /\ \A l \in DOMAIN plan[i].parts :
           /\ DOMAIN plan'[i].parts[l] = PartFields
           /\ plan'[i].parts[l].replaces = plan[i].parts[l].replaces
           /\ plan'[i].parts[l].cancelled = plan[i].parts[l].cancelled
  BY <1>1 DEF RowOK, RowFields, PartFields
<1>3. plan' = [j \in DOMAIN plan |-> plan'[j]]
  OBVIOUS
<1>4. \A l \in DOMAIN plan[i].parts : plan[i].parts[l].cancelled => plan'[i].parts[l].cancelled
  BY <1>2
<1>5. plan'[i].live \in BOOLEAN /\ plan'[i].live = plan[i].live
  BY <1>1, <1>2 DEF RowOK
<1> QED
  BY <1>2, <1>3, <1>4, <1>5, RowChanged

LEMMA TripDeleted ==
    ASSUME TablesInv, NEW t \in DOMAIN trip, trip' = [trip EXCEPT ![t].live = FALSE],
           plan' = [i \in DOMAIN plan |-> [plan[i] EXCEPT !.live = @ /\ plan[i].trip # t]],
           UNCHANGED verified
    PROVE  TablesInv' /\ SameRows
<1>1. /\ DOMAIN trip' = DOMAIN trip /\ IsList(trip')
      /\ DOMAIN plan' = DOMAIN plan /\ IsList(plan') /\ Len(plan') = Len(plan) /\ Len(plan) \in Nat
  <2>1. plan' = [j \in DOMAIN plan |-> plan'[j]] /\ trip' = [s \in DOMAIN trip |-> trip'[s]]
    OBVIOUS
  <2>2. DOMAIN trip' = DOMAIN trip /\ IsList(trip')
    BY <2>1, Relisted DEF TablesInv
  <2> QED
    BY <2>1, <2>2, RowsRewritten DEF TablesInv
<1>2. TripOK(t)
  BY DEF TablesInv
<1>3. /\ \A s \in DOMAIN trip \ {t} : trip'[s] = trip[s]
      /\ DOMAIN trip'[t] = DOMAIN trip[t] /\ trip'[t].live = FALSE /\ trip'[t].members = trip[t].members
  BY <1>2 DEF TripOK
<1>4. ASSUME NEW i \in DOMAIN plan
      PROVE  /\ DOMAIN plan'[i] = RowFields /\ plan'[i].live \in BOOLEAN
             /\ plan'[i].live => plan[i].live /\ plan[i].trip # t
             /\ plan'[i].trip = plan[i].trip /\ plan'[i].source = plan[i].source /\ plan'[i].pax = plan[i].pax
             /\ plan'[i].parts = plan[i].parts
  <2>1. RowOK(i)
    BY DEF TablesInv
  <2>2. plan'[i] = [plan[i] EXCEPT !.live = plan[i].live /\ plan[i].trip # t]
    OBVIOUS
  <2> QED
    BY <2>1, <2>2 DEF RowOK, RowFields
<1>5. SameRows
  <2>1. Len(plan) <= Len(plan')
    BY <1>1
  <2>2. ASSUME NEW i \in DOMAIN plan, NEW k \in DOMAIN plan[i].parts
        PROVE  /\ plan'[i].parts[k].replaces = plan[i].parts[k].replaces
               /\ plan[i].parts[k].cancelled => plan'[i].parts[k].cancelled
    BY <1>4, ZenonT(30)
  <2>3. ASSUME NEW i \in DOMAIN plan
        PROVE  /\ i \in DOMAIN plan' /\ plan'[i].source = plan[i].source /\ DOMAIN plan'[i].parts = DOMAIN plan[i].parts
               /\ plan'[i].live => plan[i].live
    BY <1>1, <1>4, ZenonT(30)
  <2> QED
    BY <1>1, <2>1, <2>2, <2>3, ZenonT(30) DEF SameRows, Keeps
<1>6. \A r : Refers(r) => Refers(r)'
  BY <1>1, <1>4 DEF Refers
<1>7. ASSUME NEW i \in DOMAIN plan' PROVE RowOK(i)'
  <2>1. RowOK(i) /\ i \in DOMAIN plan
    BY <1>1 DEF TablesInv
  <2>2. /\ plan'[i].trip \in DOMAIN trip' /\ (plan'[i].live => trip'[plan'[i].trip].live)
        /\ plan'[i].pax \subseteq trip'[plan'[i].trip].members
    <3>1. PICK s : s = plan[i].trip /\ s = plan'[i].trip
      BY <1>4, <2>1
    <3>2. s \in DOMAIN trip /\ (plan[i].live => trip[s].live) /\ plan[i].pax \subseteq trip[s].members
      BY <2>1, <3>1 DEF RowOK
    <3>3. s \in DOMAIN trip' /\ trip'[s].members = trip[s].members /\ (s # t => trip'[s].live = trip[s].live)
      BY <1>1, <1>3, <3>2
    <3>4. (plan'[i].live => plan[i].live /\ s # t) /\ plan'[i].pax = plan[i].pax
      BY <1>4, <2>1, <3>1
    <3> QED
      BY <3>1, <3>2, <3>3, <3>4
  <2>3. /\ DOMAIN plan'[i] = RowFields /\ plan'[i].live \in BOOLEAN /\ plan'[i].source \in (Mails \cup {NoMail}) \X Nat
        /\ \A k \in DOMAIN plan'[i].parts : DOMAIN plan'[i].parts[k] = PartFields
    BY <1>4, <2>1 DEF RowOK
  <2>4. ASSUME NEW k \in DOMAIN plan'[i].parts PROVE Refers(plan[i].parts[k].replaces)'
    <3>1. PICK r : r = plan[i].parts[k].replaces
      OBVIOUS
    <3>2. Refers(r)' /\ r = plan'[i].parts[k].replaces
      BY <1>4, <1>6, <2>1, <3>1 DEF RowOK
    <3> QED
      BY <3>2 DEF Refers
  <2> QED
    BY <2>2, <2>3, <2>4 DEF RowOK
<1>8. ASSUME NEW s \in DOMAIN trip' PROVE TripOK(s)'
  BY <1>1, <1>3 DEF TablesInv, TripOK
<1> QED
  BY <1>1, <1>5, <1>7, <1>8 DEF TablesInv

LEMMA TablesUntouched ==
    ASSUME TablesInv, UNCHANGED <<trip, plan, verified>>
    PROVE  TablesInv' /\ SameRows
<1>1. ASSUME NEW t \in DOMAIN trip' PROVE TripOK(t)'
  BY DEF TablesInv, TripOK
<1>2. ASSUME NEW i \in DOMAIN plan' PROVE RowOK(i)'
  BY DEF TablesInv, RowOK, Refers
<1>3. SameRows
  BY ListDomain DEF SameRows, Keeps, TablesInv
<1> QED
  BY <1>1, <1>2, <1>3 DEF TablesInv

\* UpsertEmail, DeleteUserEmail: an address changes hands.
LEMMA AddressMoved ==
    ASSUME TablesInv, NEW a \in Addresses, NEW u \in Users \cup {NoOne}, verified' = [verified EXCEPT ![a] = u],
           UNCHANGED <<trip, plan>>
    PROVE  TablesInv' /\ SameRows
<1>1. ASSUME NEW t \in DOMAIN trip' PROVE TripOK(t)'
  BY DEF TablesInv, TripOK
<1>2. ASSUME NEW i \in DOMAIN plan' PROVE RowOK(i)'
  BY DEF TablesInv, RowOK, Refers
<1>3. SameRows
  BY ListDomain DEF SameRows, Keeps, TablesInv
<1>4. verified' \in [Addresses -> Users \cup {NoOne}]
  BY DEF TablesInv
<1> QED
  BY <1>1, <1>2, <1>3, <1>4 DEF TablesInv

-----------------------------------------------------------------------------
(* The tables in every step                                                  *)

\* The steps that leave trips, plans and addresses alone.
Quiet == UNCHANGED <<trip, plan, verified>>

LEMMA QuietSteps ==
    ASSUME \/ FileStep \/ UserByVerifiedEmail \/ Propose \/ ChooseTrip \/ LogIngest \/ SendReply
           \/ CallFails \/ StopServer \/ Restart \/ Paste \/ Confirm \/ Dismissed \/ Announce \/ RequestFails
           \/ Deliver \/ UNCHANGED vars
    PROVE  Quiet
<1>1. CASE FileStep
  BY <1>1 DEF FileStep, ReadDir, DrainDone, ProcessOne, RemoveFile, MovePoison, world, Quiet
<1>2. CASE UserByVerifiedEmail
  BY <1>2, Zenon DEF UserByVerifiedEmail, world, Quiet
<1>9. CASE Propose
  BY <1>9, Zenon DEF Propose, world, Quiet
<1>6. CASE ChooseTrip
  BY <1>6, Zenon DEF ChooseTrip, Chosen, world, Quiet
<1>7. CASE LogIngest
  BY <1>7 DEF LogIngest, world, Quiet
<1>8. CASE SendReply
  BY <1>8 DEF SendReply, world, Quiet
<1>3. CASE CallFails \/ StopServer \/ Restart
  BY <1>3 DEF CallFails, StopServer, Restart, world, Quiet
<1>4. CASE Paste \/ Confirm \/ Dismissed \/ Announce \/ RequestFails
  BY <1>4 DEF Paste, Confirm, Dismissed, Announce, RequestFails, Beside, Quiet
<1>5. CASE Deliver \/ UNCHANGED vars
  BY <1>5 DEF Deliver, vars, world, Quiet
<1> QED
  BY <1>1, <1>2, <1>3, <1>4, <1>5, <1>6, <1>7, <1>8, <1>9

LEMMA EditTables ==
    ASSUME TablesInv, Edit
    PROVE  TablesInv' /\ SameRows
<1>1. CASE \E t \in DOMAIN trip : /\ trip' = [trip EXCEPT ![t].live = FALSE]
                                  /\ plan' = [i \in DOMAIN plan |-> [plan[i] EXCEPT !.live = @ /\ plan[i].trip # t]]
                                  /\ UNCHANGED verified
  BY <1>1, TripDeleted
<1>2. CASE UNCHANGED <<trip, plan, verified>>
  BY <1>2, TablesUntouched
<1>3. CASE \E i \in DOMAIN plan : /\ \/ plan' = [plan EXCEPT ![i].live = FALSE]
                                     \/ plan' = [plan EXCEPT ![i].parts[1].dismissed = TRUE]
                                  /\ UNCHANGED <<trip, verified>>
  BY <1>3, PlanDeleted, PartDismissed
<1>4. CASE \E a \in Addresses, u \in Users \cup {NoOne} :
             verified' = [verified EXCEPT ![a] = u] /\ UNCHANGED <<trip, plan>>
  BY <1>4, AddressMoved
<1> QED
  BY <1>1, <1>2, <1>3, <1>4, Zenon DEF Edit

\* What the request at work replaces exists.
LEMMA ReplacedRefers ==
    ASSUME DialogInv, dialog.at \in {"file", "seat", "cancel"}
    PROVE  Refers(Replaced)
<1>1. dialog.nth \in DOMAIN dialog.replaces
  BY ListDomain DEF DialogInv
<1> QED
  BY <1>1 DEF DialogInv, Replaced

\* Every step keeps the tables well-formed, and only two add a row to plans.
LEMMA TablesStep ==
    ASSUME IngestInv, [Next]_vars
    PROVE  TablesInv' /\ Keeps /\ (DOMAIN plan' = DOMAIN plan \/ FilePlan \/ CommitPlan)
<1> USE DEF IngestInv
<1>1. ASSUME SameRows PROVE Keeps /\ DOMAIN plan' = DOMAIN plan
  BY <1>1 DEF SameRows
<1>2. CASE Quiet
  BY <1>1, <1>2, TablesUntouched DEF Quiet
<1>3. CASE CreateTripForPlan
  <2>1. worker.user \in Users
    BY <1>3 DEF CreateTripForPlan, WorkerInv, At, Busy
  <2> QED
    BY <1>1, <1>3, <2>1, TripAdded DEF CreateTripForPlan
<1>4. CASE FilePlan
  <2>1. CASE plan' = plan
    BY <1>1, <1>4, <2>1, TablesUntouched DEF FilePlan
  <2>2. CASE /\ CanCreatePlan(Proposal, worker.trip, NoPart)
             /\ CreatePlan(Proposal, worker.trip, worker.user, <<worker.mail, worker.nth>>, NoPart)
    <3>1. <<worker.mail, worker.nth>> \in (Mails \cup {NoMail}) \X Nat
      BY DEF WorkerInv, FilesInv
    <3>2. Refers(NoPart)
      BY DEF Refers
    <3>3. UNCHANGED <<trip, verified>>
      BY <1>4 DEF FilePlan
    <3>4. TablesInv' /\ Keeps
      BY <2>2, <3>1, <3>2, <3>3, RowAdded
    <3> QED
      BY <1>4, <3>4
  <2> QED
    BY <1>4, <2>1, <2>2 DEF FilePlan
<1>5. CASE SeatSender
  <2>1. worker.user \in Users /\ worker.row \in DOMAIN plan
    BY <1>5 DEF SeatSender, WorkerInv, At, Busy
  <2>2. CASE UNCHANGED <<plan, trip>>
    BY <1>1, <1>5, <2>2, TablesUntouched DEF SeatSender
  <2>3. CASE plan[worker.row].live /\ AddPlanPassenger(worker.row, worker.user)
    BY <1>1, <1>5, <2>1, <2>3, PassengerAdded DEF SeatSender
  <2> QED
    BY <1>5, <2>2, <2>3 DEF SeatSender, PlanLives
<1>6. CASE CommitPlan
  <2>1. UNCHANGED <<trip, verified>> /\ dialog.at = "file"
    BY <1>6 DEF CommitPlan, Beside, D
  <2>2. CASE plan' = plan
    BY <1>1, <2>1, <2>2, TablesUntouched
  <2>3. CASE /\ CanCreatePlan(Offer, dialog.trip, Replaced)
             /\ CreatePlan(Offer, dialog.trip, dialog.user, <<NoMail, dialog.nth>>, Replaced)
    <3>1. <<NoMail, dialog.nth>> \in (Mails \cup {NoMail}) \X Nat
      BY <2>1 DEF DialogInv
    <3>2. Refers(Replaced)
      BY <2>1, ReplacedRefers
    <3>3. TablesInv' /\ Keeps
      BY <2>1, <2>3, <3>1, <3>2, RowAdded
    <3> QED
      BY <1>6, <3>3
  <2> QED
    BY <1>6, <2>2, <2>3 DEF CommitPlan
<1>7. CASE CommitPassenger
  <2>1. UNCHANGED verified /\ dialog.user \in Users /\ Last(dialog.made) \in DOMAIN plan
    BY <1>7 DEF CommitPassenger, Beside, D, DialogInv
  <2>2. CASE UNCHANGED <<plan, trip>>
    BY <1>1, <2>1, <2>2, TablesUntouched
  <2>3. CASE plan[Last(dialog.made)].live /\ AddPlanPassenger(Last(dialog.made), dialog.user)
    BY <1>1, <2>1, <2>3, PassengerAdded
  <2> QED
    BY <1>7, <2>2, <2>3 DEF CommitPassenger, PlanLives
<1>8. CASE CancelSuperseded
  <2>1. UNCHANGED <<trip, verified>> /\ dialog.at = "cancel"
    BY <1>8 DEF CancelSuperseded, Beside, D
  <2>2. Replaced[1] \in DOMAIN plan /\ Replaced[2] \in DOMAIN plan[Replaced[1]].parts
    BY <2>1, ReplacedRefers DEF DialogInv, Refers
  <2>3. CASE plan' = plan
    BY <1>1, <2>1, <2>3, TablesUntouched
  <2>4. CASE plan' = [plan EXCEPT ![Replaced[1]].parts[Replaced[2]].cancelled = TRUE]
    BY <1>1, <2>1, <2>2, <2>4, PartCancelled
  <2> QED
    BY <1>8, <2>3, <2>4 DEF CancelSuperseded
<1>9. CASE Edit
  BY <1>1, <1>9, EditTables
<1> QED
  BY <1>2, <1>3, <1>4, <1>5, <1>6, <1>7, <1>8, <1>9, QuietSteps DEF Next, WorkerStep, OtherCall, DialogStep

-----------------------------------------------------------------------------
(* What each step makes of the worker                                        *)

LEMMA ProposalsListed ==
    ASSUME NEW answer, NEW answered
    PROVE  IsList(Proposals(answer, answered))
<1> DEFINE n == Len(ExtractPlans(answer))
           ps == Proposals(answer, answered)
<1>1. n \in Nat
  OBVIOUS
<1>2. ps = [i \in 1..n |-> ps[i]]
  BY DEF Proposals
<1> HIDE DEF n, ps
<1>3. IsList(ps)
  BY <1>1, <1>2, Listed
<1> QED
  BY <1>3 DEF ps

\* What is read out of a text that may come is such a list, of bookings with instants.
LEMMA ReadingsListed ==
    ASSUME NEW a \in Answers, NEW ps \in Readings[a]
    PROVE  IsList(ps) /\ DatedProposals(ps)
<1>1. PICK answered \in SUBSET DOMAIN Timetable : ps = Proposals(a, answered)
  BY DEF Readings
<1>2. a \in Texts
  BY AnswersAssumption
<1> QED
  BY <1>1, <1>2, ProposalsListed, ProposalsDated

\* What a step within one message leaves as it is.
SameMail == /\ worker'.mail = worker.mail /\ worker'.batch = worker.batch
            /\ worker'.user = worker.user /\ worker'.plans = worker.plans

\* The end of one booking, whatever became of it.
LEMMA OnwardStep ==
    ASSUME WorkerInv, NotesInv, FilesInv, At("select") \/ At("create") \/ At("file") \/ At("seat"),
           NEW added \in BOOLEAN, NEW failed \in BOOLEAN, Onward(added, failed)
    PROVE  /\ DOMAIN worker' = DOMAIN worker /\ SameMail /\ worker'.verdict = worker.verdict
           /\ worker'.added \in Nat
           /\ worker'.failed = worker.failed + (IF failed /\ Proposal.type = "flight" THEN 1 ELSE 0)
           /\ \/ worker'.at = "log" /\ worker.nth = Len(worker.plans)
              \/ worker'.at = "select" /\ worker'.nth = worker.nth + 1
           /\ worker'.nth \in 1..Len(worker.plans)
<1>1. worker.nth \in 1..Len(worker.plans) /\ IsList(worker.plans)
  BY DEF WorkerInv, At, Busy, NotesInv, FilesInv
<1>2. Len(worker.plans) \in Nat
  BY <1>1, ListDomain
<1>3. worker.added \in Nat /\ worker.failed \in Nat /\ DOMAIN worker = DOMAIN AtRest
  BY DEF WorkerInv
<1>4. PICK n \in {0, 1} : n = IF Proposal.type = "flight" THEN 1 ELSE 0
  OBVIOUS
<1>5. PICK last \in BOOLEAN : last = (worker.nth = Len(worker.plans))
  OBVIOUS
<1>6. worker' = [worker EXCEPT !.added = worker.added + (IF added THEN n ELSE 0),
                               !.failed = worker.failed + (IF failed THEN n ELSE 0),
                               !.at = IF last THEN "log" ELSE "select",
                               !.nth = IF last THEN worker.nth ELSE worker.nth + 1]
  BY <1>4, <1>5, Zenon DEF Onward
<1>7. /\ DOMAIN worker' = DOMAIN worker /\ SameMail /\ worker'.verdict = worker.verdict
      /\ worker'.added = worker.added + (IF added THEN n ELSE 0)
      /\ worker'.failed = worker.failed + (IF failed THEN n ELSE 0)
      /\ worker'.at = IF last THEN "log" ELSE "select"
      /\ worker'.nth = IF last THEN worker.nth ELSE worker.nth + 1
  BY <1>3, <1>6 DEF AtRest, SameMail
<1>8. worker'.added \in Nat
  BY <1>3, <1>4, <1>7
<1>9. worker'.failed = worker.failed + (IF failed /\ Proposal.type = "flight" THEN 1 ELSE 0)
  BY <1>3, <1>4, <1>7
<1>10. /\ \/ worker'.at = "log" /\ worker.nth = Len(worker.plans)
          \/ worker'.at = "select" /\ worker'.nth = worker.nth + 1
       /\ worker'.nth \in 1..Len(worker.plans)
  <2>1. CASE last
    BY <1>1, <1>5, <1>7, <2>1
  <2>2. CASE ~last
    <3>1. worker.nth # Len(worker.plans) /\ worker'.at = "select" /\ worker'.nth = worker.nth + 1
      BY <1>5, <1>7, <2>2
    <3> QED
      BY <1>1, <1>2, <3>1
  <2> QED
    BY <2>1, <2>2
<1> QED
  BY <1>7, <1>8, <1>9, <1>10

\* The mail side of a step of the worker.
MailOK == (FilesInv /\ NotesInv /\ WorkerInv)'

\* The steps with the files.
LEMMA DrainSteps ==
    ASSUME IngestInv, FileStep
    PROVE  MailOK
<1> USE DEF IngestInv, MailOK
<1>1. NotesInv'
  BY DEF FileStep, ReadDir, DrainDone, ProcessOne, RemoveFile, MovePoison, NotesInv, Aside, bounds, notes, history
<1>2. CASE ReadDir \/ DrainDone
  <2>1. worker.at \in {"rest", "next"} /\ worker.mail = NoMail
    BY <1>2 DEF ReadDir, DrainDone, At, WorkerInv
  <2>2. /\ DOMAIN worker' = DOMAIN worker /\ worker'.at \in {"rest", "next"} /\ worker'.mail = NoMail
        /\ worker'.batch \subseteq inbox
        /\ worker'.added = worker.added /\ worker'.failed = worker.failed /\ worker'.nth = worker.nth
        /\ worker'.verdict = worker.verdict
    BY <1>2, <2>1 DEF ReadDir, DrainDone, At, Goto, AtRest, WorkerInv, FilesInv
  <2>3. FilesInv'
    BY <1>2, <2>2 DEF ReadDir, DrainDone, world, FilesInv
  <2>4. WorkerInv'
    BY <2>2 DEF WorkerInv, Busy, Ending
  <2> QED
    BY <1>1, <2>3, <2>4
<1>3. CASE ProcessOne
  <2>1. PICK m \in worker.batch :
          worker' = [AtRest EXCEPT !.at = Judge(m).at, !.verdict = Judge(m).verdict,
                                   !.batch = worker.batch \ {m}, !.mail = m]
    BY <1>3, Zenon DEF ProcessOne
  <2>2. m \in Mails /\ m \in inbox /\ m # NoMail
    BY IngestionAssumption DEF FilesInv
  <2>3. /\ Judge(m).at \in {"reject", "rename", "lookup"} /\ Judge(m).verdict \in Statuses
        /\ Judge(m).at = "lookup" => Letter[m].from \in Addresses
    BY <2>2, IngestionAssumption DEF Judge, Statuses
  <2>4. /\ DOMAIN worker' = DOMAIN AtRest /\ worker'.at = Judge(m).at /\ worker'.verdict = Judge(m).verdict
        /\ worker'.batch = worker.batch \ {m} /\ worker'.mail = m
        /\ worker'.added = 0 /\ worker'.failed = 0 /\ worker'.nth = 0
    BY <2>1 DEF AtRest
  <2>5. FilesInv'
    BY <1>3, <2>2, <2>4 DEF ProcessOne, world, FilesInv
  <2>6. WorkerInv'
    BY <2>2, <2>3, <2>4 DEF WorkerInv, Busy, Ending, Calls
  <2> QED
    BY <1>1, <2>5, <2>6
<1>4. CASE RemoveFile \/ MovePoison
  <2>1. worker.mail # NoMail /\ worker.mail \in inbox \ worker.batch
    BY <1>4 DEF RemoveFile, MovePoison, At, WorkerInv, FilesInv
  <2>2. /\ DOMAIN worker' = DOMAIN AtRest /\ worker'.at = "next" /\ worker'.verdict = "none"
        /\ worker'.batch = worker.batch /\ worker'.mail = NoMail
        /\ worker'.added = 0 /\ worker'.failed = 0 /\ worker'.nth = 0
    BY <1>4 DEF RemoveFile, MovePoison, Leave, AtRest
  <2>3. FilesInv'
    BY <1>4, <2>1, <2>2 DEF RemoveFile, MovePoison, FilesInv
  <2>4. WorkerInv'
    BY <2>2 DEF WorkerInv, Busy, Ending, Calls, Statuses
  <2> QED
    BY <1>1, <2>3, <2>4
<1> QED
  BY <1>2, <1>3, <1>4 DEF FileStep

\* A step that keeps the message and changes neither the files nor what was read.
LEMMA StaysOnMail ==
    ASSUME IngestInv, SameMail, UNCHANGED <<coming, inbox, poison, read>>, Keeps,
           DOMAIN worker' = DOMAIN worker, worker.mail # NoMail,
           worker'.at \in (Calls \cup {"remove", "rename"}) \ {"lookup", "propose"},
           worker'.at \in Busy \cup Ending => worker.at \in Busy \cup Ending,
           worker'.at \in Busy => worker.at \in Busy,
           worker'.added \in Nat, worker'.failed \in Nat, worker'.verdict \in Statuses, worker'.nth \in Nat,
           worker'.at \in Busy => worker'.nth \in 1..Len(worker.plans),
           worker'.at = "seat" => worker'.row \in DOMAIN plan'
    PROVE  FilesInv' /\ WorkerInv'
<1>1. FilesInv'
  BY DEF SameMail, FilesInv, IngestInv
<1>2. WorkerInv'
  BY DEF SameMail, WorkerInv, IngestInv, Busy, Ending, Calls
<1> QED
  BY <1>1, <1>2

\* A message is left for the next tick, or done with.
LEMMA LeaveStep ==
    ASSUME IngestInv, Leave, UNCHANGED <<coming, inbox, poison, read>>
    PROVE  FilesInv' /\ WorkerInv'
<1>1. /\ DOMAIN worker' = DOMAIN AtRest /\ worker'.at = "next" /\ worker'.verdict = "none"
      /\ worker'.batch = worker.batch /\ worker'.mail = NoMail
      /\ worker'.added = 0 /\ worker'.failed = 0 /\ worker'.nth = 0
  BY DEF Leave, AtRest
<1>2. FilesInv'
  BY <1>1 DEF FilesInv, IngestInv
<1>3. WorkerInv'
  BY <1>1 DEF WorkerInv, Busy, Ending, Statuses
<1> QED
  BY <1>2, <1>3

LEMMA StatusType == Status \in Statuses
  BY DEF Status, Statuses

\* The message at work.
LEMMA BusyMail ==
    ASSUME IngestInv, worker.at \notin {"rest", "next"}
    PROVE  /\ worker.mail # NoMail /\ worker.mail \in inbox /\ worker.mail \in Mails /\ DOMAIN worker = DOMAIN AtRest
           /\ worker.added \in Nat /\ worker.failed \in Nat /\ worker.nth \in Nat /\ worker.verdict \in Statuses
  BY DEF IngestInv, WorkerInv, FilesInv

\* What each call of the worker makes of its state.
Unmoved == UNCHANGED <<coming, inbox, poison, dialog, bounds, stopping, redo, cut>>

LEMMA LookupEffect ==
    ASSUME IngestInv, UserByVerifiedEmail
    PROVE  /\ Unmoved /\ UNCHANGED <<notes, read, seated>>
           /\ worker.at = "lookup" /\ DOMAIN worker' = DOMAIN worker
           /\ worker'.mail = worker.mail /\ worker'.batch = worker.batch
           /\ worker'.added = worker.added /\ worker'.failed = worker.failed /\ worker'.nth = worker.nth
           /\ \/ worker'.at = "reject" /\ worker'.verdict = "no_user"
              \/ worker'.at = "propose" /\ worker'.user \in Users /\ worker'.verdict = worker.verdict
<1>1. /\ Unmoved /\ UNCHANGED <<notes, read, seated>> /\ worker.at = "lookup"
  BY Zenon DEF UserByVerifiedEmail, Unmoved, Aside, At, world, notes, history
<1>2. PICK u : /\ u = verified[Letters.from]
               /\ worker' = IF u = NoOne THEN [worker EXCEPT !.at = "reject", !.verdict = "no_user"]
                            ELSE [worker EXCEPT !.at = "propose", !.user = u]
  BY Zenon DEF UserByVerifiedEmail
<1>3. u \in Users \cup {NoOne}
  BY <1>1, <1>2 DEF IngestInv, TablesInv, WorkerInv, Letters
<1>4. DOMAIN worker = DOMAIN AtRest
  BY DEF IngestInv, WorkerInv
<1> QED
  BY <1>1, <1>2, <1>3, <1>4 DEF AtRest

LEMMA ProposeEffect ==
    ASSUME IngestInv, Propose
    PROVE  /\ Unmoved /\ UNCHANGED notes
           /\ worker.at = "propose" /\ DOMAIN worker' = DOMAIN worker
           /\ worker'.mail = worker.mail /\ worker'.batch = worker.batch /\ worker'.user = worker.user
           /\ worker'.added = worker.added /\ worker'.failed = worker.failed /\ worker'.verdict = worker.verdict
           /\ worker'.nth = 1 /\ IsList(worker'.plans) /\ DatedProposals(worker'.plans) /\ read' = [read EXCEPT ![worker.mail] = worker'.plans]
           /\ \/ worker'.plans = <<>> /\ worker'.at = "log"
              \/ 1 \in 1..Len(worker'.plans) /\ worker'.at = "select"
           /\ seated' = {s \in seated : s[1] # worker.mail}
<1>1. /\ Unmoved /\ UNCHANGED notes /\ worker.at = "propose" /\ seated' = {s \in seated : s[1] # worker.mail}
  BY Zenon DEF Propose, Unmoved, Aside, At, world, notes, history
<1>0. PICK a \in Letters.answers : \E ps \in Readings[a] :
        /\ worker' = [worker EXCEPT !.plans = ps, !.nth = 1, !.at = IF ps = <<>> THEN "log" ELSE "select"]
        /\ read' = [read EXCEPT ![worker.mail] = ps]
  BY Zenon DEF Propose
<1>2. PICK ps \in Readings[a] :
        /\ worker' = [worker EXCEPT !.plans = ps, !.nth = 1, !.at = IF ps = <<>> THEN "log" ELSE "select"]
        /\ read' = [read EXCEPT ![worker.mail] = ps]
  BY <1>0
<1>5. a \in Answers
  BY <1>1, BusyMail DEF Letters, Answers
<1>3. IsList(ps) /\ DatedProposals(ps)
  BY <1>5, ReadingsListed
<1>4. ps # <<>> => 1 \in 1..Len(ps)
  BY <1>3, EmptySeq, ListDomain DEF IsList
<1>6. DOMAIN worker = DOMAIN AtRest
  BY DEF IngestInv, WorkerInv
<1>7. /\ DOMAIN worker' = DOMAIN worker
      /\ worker'.mail = worker.mail /\ worker'.batch = worker.batch /\ worker'.user = worker.user
      /\ worker'.added = worker.added /\ worker'.failed = worker.failed /\ worker'.verdict = worker.verdict
      /\ worker'.nth = 1 /\ worker'.plans = ps /\ worker'.at = IF ps = <<>> THEN "log" ELSE "select"
  BY <1>2, <1>6 DEF AtRest
<1>8. read' = [read EXCEPT ![worker.mail] = worker'.plans]
  BY <1>2, <1>7
<1> QED
  BY <1>1, <1>3, <1>4, <1>7, <1>8

\* The rest of a message: at the same message, with the same proposals.
Goes(l) == /\ DOMAIN worker' = DOMAIN worker /\ SameMail /\ worker'.at = l
           /\ worker'.nth = worker.nth /\ worker'.added = worker.added /\ worker'.failed = worker.failed
           /\ worker'.verdict = worker.verdict

LEMMA GotoGoes ==
    ASSUME IngestInv, NEW l, Goto(l)
    PROVE  Goes(l)
  BY DEF Goto, Goes, SameMail, IngestInv, WorkerInv, AtRest

LEMMA ChooseEffect ==
    ASSUME IngestInv, ChooseTrip
    PROVE  /\ Unmoved /\ UNCHANGED <<notes, read, seated>>
           /\ worker.at = "select" /\ (Goes("create") \/ Goes("file"))
<1>1. PICK t : worker' = [worker EXCEPT !.trip = t, !.at = IF t = Blank THEN "create" ELSE "file"]
  BY Zenon DEF ChooseTrip, Chosen
<1>2. Unmoved /\ UNCHANGED <<notes, read, seated>> /\ worker.at = "select"
  BY Zenon DEF ChooseTrip, Chosen, At, Unmoved, Aside, world, notes, history
<1> QED
  BY <1>1, <1>2 DEF Goes, SameMail, IngestInv, WorkerInv, AtRest

LEMMA CreateEffect ==
    ASSUME IngestInv, CreateTripForPlan
    PROVE  /\ Unmoved /\ UNCHANGED <<notes, read, seated>>
           /\ worker.at = "create" /\ Goes("file")
<1>1. PICK n : worker' = [worker EXCEPT !.trip = n, !.at = "file"]
  BY Zenon DEF CreateTripForPlan
<1>2. Unmoved /\ UNCHANGED <<notes, read, seated>> /\ worker.at = "create"
  BY Zenon DEF CreateTripForPlan, At, Unmoved, Aside, notes, history
<1> QED
  BY <1>1, <1>2 DEF Goes, SameMail, IngestInv, WorkerInv, AtRest

\* The counts when one booking is done with.
Moves(failed) ==
    /\ DOMAIN worker' = DOMAIN worker /\ SameMail /\ worker'.verdict = worker.verdict
    /\ worker'.added \in Nat
    /\ worker'.failed = worker.failed + (IF failed /\ Proposal.type = "flight" THEN 1 ELSE 0)
    /\ \/ worker'.at = "log" /\ worker.nth = Len(worker.plans)
       \/ worker'.at = "select" /\ worker'.nth = worker.nth + 1
    /\ worker'.nth \in 1..Len(worker.plans)

LEMMA FileEffect ==
    ASSUME IngestInv, Keeps, FilePlan
    PROVE  /\ Unmoved /\ UNCHANGED <<notes, read, seated>> /\ worker.at = "file"
           /\ \/ Goes("seat") /\ worker'.row \in DOMAIN plan'
              \/ Moves(TRUE) /\ UNCHANGED plan
<1>1. Unmoved /\ UNCHANGED <<notes, read, seated>> /\ worker.at = "file"
  BY Zenon DEF FilePlan, At, Unmoved, Aside, notes, history
<1>2. CASE /\ CanCreatePlan(Proposal, worker.trip, NoPart)
           /\ CreatePlan(Proposal, worker.trip, worker.user, <<worker.mail, worker.nth>>, NoPart)
           /\ worker' = [worker EXCEPT !.row = Len(plan'), !.at = "seat"]
  <2>1. Goes("seat") /\ worker'.row = Len(plan')
    BY <1>2 DEF Goes, SameMail, IngestInv, WorkerInv, AtRest
  <2>2. plan' = Append(plan, Row(Proposal, worker.trip, worker.user, <<worker.mail, worker.nth>>, NoPart))
    BY <1>2 DEF CreatePlan
  <2>3. Len(plan') \in DOMAIN plan'
    BY <2>2, Appended, ListDomain DEF IngestInv, TablesInv
  <2> QED
    BY <1>1, <2>1, <2>3
<1>3. CASE Onward(FALSE, TRUE) /\ UNCHANGED plan
  BY <1>1, <1>3, OnwardStep DEF Moves, IngestInv, At
<1> QED
  BY <1>1, <1>2, <1>3 DEF FilePlan

LEMMA SeatEffect ==
    ASSUME IngestInv, SeatSender
    PROVE  /\ Unmoved /\ UNCHANGED <<notes, read>> /\ worker.at = "seat"
           /\ \/ Moves(FALSE) /\ seated' = seated \cup {<<worker.mail, worker.nth>>}
              \/ Moves(TRUE) /\ UNCHANGED seated
<1>1. Unmoved /\ UNCHANGED <<notes, read>> /\ worker.at = "seat"
  BY Zenon DEF SeatSender, At, Unmoved, Aside, notes, history
<1>2. CASE Onward(TRUE, FALSE) /\ seated' = seated \cup {<<worker.mail, worker.nth>>}
  BY <1>1, <1>2, OnwardStep DEF Moves, IngestInv, At
<1>3. CASE Onward(FALSE, TRUE) /\ UNCHANGED seated
  BY <1>1, <1>3, OnwardStep DEF Moves, IngestInv, At
<1> QED
  BY <1>1, <1>2, <1>3 DEF SeatSender

LEMMA LogEffect ==
    ASSUME IngestInv, LogIngest
    PROVE  /\ Unmoved /\ UNCHANGED <<reply, read, seated>> /\ audit' \in [Mails -> [status : Statuses, added : Nat, failed : Nat]]
           /\ \A m \in Mails \ {worker.mail} : audit'[m] = audit[m]
           /\ \/ worker.at = "log" /\ Goes("reply") /\ audit'[worker.mail].failed = worker.failed
              \/ worker.at = "reject" /\ Goes("rename")
<1>1. Unmoved /\ UNCHANGED <<reply, read, seated>>
  BY Zenon DEF LogIngest, Unmoved, Aside, world, history
<1>2. worker.at \in {"log", "reject"}
  BY Zenon DEF LogIngest, At
<1>3. /\ worker.mail \in Mails /\ worker.verdict \in Statuses /\ worker.added \in Nat /\ worker.failed \in Nat
  BY <1>2, BusyMail
<1>4. PICK note : /\ note = IF At("reject") THEN [NoNote EXCEPT !.status = worker.verdict]
                            ELSE [status |-> Status, added |-> worker.added, failed |-> worker.failed]
                  /\ audit' = [audit EXCEPT ![worker.mail] = note]
  BY Zenon DEF LogIngest
<1>5. note \in [status : Statuses, added : Nat, failed : Nat]
  BY <1>3, <1>4, StatusType DEF NoNote
<1>6. worker.at = "log" => note.failed = worker.failed
  BY <1>4 DEF At
<1>7. /\ worker.at = "log" => Goes("reply")
      /\ worker.at = "reject" => Goes("rename")
  BY GotoGoes DEF LogIngest, At
<1> QED
  BY <1>1, <1>2, <1>3, <1>4, <1>5, <1>6, <1>7 DEF IngestInv, NotesInv

LEMMA ReplyEffect ==
    ASSUME IngestInv, SendReply
    PROVE  /\ Unmoved /\ UNCHANGED <<audit, read, seated>> /\ reply' \in [Mails -> [added : Nat, failed : Nat]]
           /\ \A m \in Mails \ {worker.mail} : reply'[m] = reply[m]
           /\ worker.at = "reply" /\ Goes("remove") /\ reply'[worker.mail].failed = worker.failed
<1>1. Unmoved /\ UNCHANGED <<audit, read, seated>> /\ worker.at = "reply"
  BY Zenon DEF SendReply, Unmoved, Aside, At, world, history
<1>2. worker.mail \in Mails /\ worker.added \in Nat /\ worker.failed \in Nat
  BY <1>1, BusyMail
<1>3. Goes("remove")
  BY GotoGoes DEF SendReply
<1>4. reply' = [reply EXCEPT ![worker.mail] = [added |-> worker.added, failed |-> worker.failed]]
  BY DEF SendReply
<1> QED
  BY <1>1, <1>2, <1>3, <1>4 DEF IngestInv, NotesInv

\* A call that fails is as in LeaveStep, as in OnwardStep, or on to the next call.
LEMMA FailEffect ==
    ASSUME IngestInv, CallFails
    PROVE  /\ UNCHANGED <<coming, inbox, poison, dialog, stopping, stops, edits, pastes, notes, read, seated, cut>>
           /\ worker.at \in Calls \cup {"remove", "rename"}
           /\ redo' = IF worker.at = "remove" THEN redo \cup {worker.mail} ELSE redo
           /\ \/ failures' = failures + 1
              \/ stopping /\ worker.at \in Calls /\ UNCHANGED failures
           /\ \/ worker.at \in {"lookup", "propose", "remove", "rename"} /\ Leave
              \/ worker.at \in Busy /\ Moves(TRUE)
              \/ worker.at = "log" /\ Goes("reply")
              \/ worker.at = "reject" /\ Goes("rename")
              \/ worker.at = "reply" /\ Goes("remove")
<1>1. /\ UNCHANGED <<coming, inbox, poison, dialog, stopping, stops, edits, pastes, notes, read, seated, cut>>
      /\ worker.at \in Calls \cup {"remove", "rename"} /\ OnError
      /\ redo' = IF worker.at = "remove" THEN redo \cup {worker.mail} ELSE redo
  BY Zenon DEF CallFails, At, world
<1>2. \/ failures' = failures + 1
      \/ stopping /\ worker.at \in Calls /\ UNCHANGED failures
  BY DEF CallFails
<1>3. CASE worker.at \in {"lookup", "propose", "remove", "rename"}
  <2>1. Leave
    BY <1>1, <1>3 DEF OnError
  <2> QED
    BY <1>1, <1>2, <1>3, <2>1
<1>4. CASE worker.at \in Busy
  <2>1. Onward(FALSE, TRUE)
    BY <1>1, <1>4 DEF OnError, Busy
  <2>2. Moves(TRUE)
    BY <1>4, <2>1, OnwardStep DEF Moves, IngestInv, At, Busy
  <2> QED
    BY <1>1, <1>2, <1>4, <2>2
<1>5. CASE worker.at \in {"log", "reject"}
  <2>1. Goto(IF worker.at = "reject" THEN "rename" ELSE "reply")
    BY <1>1, <1>5 DEF OnError, At
  <2>2. /\ worker.at = "log" => Goes("reply")
        /\ worker.at = "reject" => Goes("rename")
    BY <2>1, GotoGoes
  <2> QED
    BY <1>1, <1>2, <1>5, <2>2
<1>6. CASE worker.at = "reply"
  <2>1. Goto("remove")
    BY <1>1, <1>6 DEF OnError
  <2> QED
    BY <1>1, <1>2, <1>6, <2>1, GotoGoes
<1> QED
  BY <1>1, <1>3, <1>4, <1>5, <1>6 DEF Calls, Busy

\* The calls that return, and those that fail.
LEMMA CallSteps ==
    ASSUME IngestInv, Keeps, OtherCall \/ ChooseTrip
    PROVE  MailOK
<1> USE DEF MailOK
<1>1. CASE UserByVerifiedEmail
  <2>1. NotesInv'
    BY <1>1, LookupEffect DEF NotesInv, IngestInv, Unmoved, notes, bounds
  <2>2. FilesInv'
    BY <1>1, LookupEffect DEF FilesInv, IngestInv, Unmoved
  <2>3. WorkerInv'
    BY <1>1, LookupEffect, BusyMail DEF WorkerInv, Busy, Ending, Calls, Statuses
  <2> QED
    BY <2>1, <2>2, <2>3
<1>2. CASE Propose
  <2>1. NotesInv'
    BY <1>2, ProposeEffect DEF NotesInv, IngestInv, Unmoved, notes, bounds
  <2>2. FilesInv'
    BY <1>2, ProposeEffect DEF FilesInv, IngestInv, Unmoved
  <2>3. read'[worker.mail] = worker'.plans
    BY <1>2, ProposeEffect, BusyMail DEF NotesInv, IngestInv
  <2>4. worker.user \in Users
    BY <1>2, ProposeEffect DEF IngestInv, WorkerInv
  <2>5. WorkerInv'
    BY <1>2, ProposeEffect, BusyMail, <2>3, <2>4 DEF WorkerInv, Busy, Ending, Calls, Statuses
  <2> QED
    BY <2>1, <2>2, <2>5
<1>3. CASE ChooseTrip
  <2>1. NotesInv'
    BY <1>3, ChooseEffect DEF NotesInv, IngestInv, Unmoved, notes, bounds
  <2>2. FilesInv' /\ WorkerInv'
    BY <1>3, ChooseEffect, BusyMail, StaysOnMail DEF IngestInv, WorkerInv, Unmoved, Goes, Calls, Busy, Ending
  <2> QED
    BY <2>1, <2>2
<1>4. CASE CreateTripForPlan
  <2>1. NotesInv'
    BY <1>4, CreateEffect DEF NotesInv, IngestInv, Unmoved, notes, bounds
  <2>2. FilesInv' /\ WorkerInv'
    BY <1>4, CreateEffect, BusyMail, StaysOnMail DEF IngestInv, WorkerInv, Unmoved, Goes, Calls, Busy, Ending
  <2> QED
    BY <2>1, <2>2
<1>5. CASE FilePlan
  <2>1. NotesInv'
    BY <1>5, FileEffect DEF NotesInv, IngestInv, Unmoved, notes, bounds
  <2>2. worker.at = "file" /\ UNCHANGED <<coming, inbox, poison, read>>
    BY <1>5, FileEffect DEF Unmoved
  <2>3. worker.nth \in 1..Len(worker.plans)
    BY <2>2 DEF IngestInv, WorkerInv, Busy
  <2>4. CASE Goes("seat") /\ worker'.row \in DOMAIN plan'
    BY <2>1, <2>2, <2>3, <2>4, BusyMail, StaysOnMail DEF Goes, Calls, Busy, Ending
  <2>5. CASE Moves(TRUE)
    <3>1. worker'.failed \in Nat
      BY <2>2, <2>5, BusyMail DEF Moves
    <3> QED
      BY <2>1, <2>2, <2>5, <3>1, BusyMail, StaysOnMail DEF Moves, Calls, Busy, Ending
  <2> QED
    BY <1>5, <2>4, <2>5, FileEffect
<1>6. CASE SeatSender
  <2>1. NotesInv'
    BY <1>6, SeatEffect DEF NotesInv, IngestInv, Unmoved, notes, bounds
  <2>2. PICK failed \in BOOLEAN : Moves(failed)
    BY <1>6, SeatEffect
  <2>3. FilesInv' /\ WorkerInv'
    <3>1. worker.at = "seat" /\ UNCHANGED <<coming, inbox, poison, read>>
      BY <1>6, SeatEffect DEF Unmoved
    <3>2. worker'.failed \in Nat
      BY <2>2, <3>1, BusyMail DEF Moves
    <3> QED
      BY <2>2, <3>1, <3>2, BusyMail, StaysOnMail DEF IngestInv, WorkerInv, Moves, Calls, Busy, Ending
  <2> QED
    BY <2>1, <2>3
<1>7. CASE LogIngest
  <2>1. NotesInv'
    BY <1>7, LogEffect DEF NotesInv, IngestInv, Unmoved, bounds
  <2>2. FilesInv' /\ WorkerInv'
    BY <1>7, LogEffect, BusyMail, StaysOnMail DEF IngestInv, WorkerInv, Unmoved, Goes, Calls, Busy, Ending
  <2> QED
    BY <2>1, <2>2
<1>8. CASE SendReply
  <2>1. NotesInv'
    BY <1>8, ReplyEffect DEF NotesInv, IngestInv, Unmoved, bounds
  <2>2. FilesInv' /\ WorkerInv'
    BY <1>8, ReplyEffect, BusyMail, StaysOnMail DEF IngestInv, WorkerInv, Unmoved, Goes, Calls, Busy, Ending
  <2> QED
    BY <2>1, <2>2
<1> QED
  BY <1>1, <1>2, <1>3, <1>4, <1>5, <1>6, <1>7, <1>8 DEF OtherCall

LEMMA FailSteps ==
    ASSUME IngestInv, Keeps, CallFails
    PROVE  MailOK
<1> USE DEF MailOK
<1>1. NotesInv'
  <2>1. UNCHANGED <<stopping, stops, edits, pastes, notes, read>>
    BY FailEffect
  <2>2. failures' = failures + 1 \/ failures' = failures
    BY FailEffect
  <2> QED
    BY <2>1, <2>2 DEF NotesInv, IngestInv, notes
<1>2. CASE Leave
  BY <1>1, <1>2, FailEffect, LeaveStep
<1>3. CASE worker.at \in Busy /\ Moves(TRUE)
  BY <1>1, <1>3, FailEffect, BusyMail, StaysOnMail DEF IngestInv, WorkerInv, Moves, Calls, Busy, Ending
<1>4. CASE worker.at = "log" /\ Goes("reply")
  BY <1>1, <1>4, FailEffect, BusyMail, StaysOnMail DEF IngestInv, WorkerInv, Goes, Calls, Busy, Ending
<1>5. CASE worker.at = "reject" /\ Goes("rename")
  BY <1>1, <1>5, FailEffect, BusyMail, StaysOnMail DEF IngestInv, WorkerInv, Goes, Calls, Busy, Ending
<1>6. CASE worker.at = "reply" /\ Goes("remove")
  BY <1>1, <1>6, FailEffect, BusyMail, StaysOnMail DEF IngestInv, WorkerInv, Goes, Calls, Busy, Ending
<1> QED
  BY <1>2, <1>3, <1>4, <1>5, <1>6, FailEffect

-----------------------------------------------------------------------------
(* The dialog                                                                *)

LEMMA RefersKept ==
    ASSUME Keeps
    PROVE  \A r : Refers(r) => Refers(r)'
  BY DEF Keeps, Refers

\* The dialog with the same proposals, at another place.
DialogAt(d, l) == /\ DOMAIN d = DOMAIN Closed /\ d.at = l /\ d.user = dialog.user
                  /\ d.plans = dialog.plans /\ d.replaces = dialog.replaces

LEMMA DialogMoves ==
    ASSUME DialogInv, Keeps, NEW l \in {"shown", "file", "seat", "cancel", "announce"}, DialogAt(dialog', l),
           dialog.at # "closed", IsList(dialog'.made),
           l \in {"file", "seat", "cancel"} => dialog'.nth \in 1..Len(dialog.plans),
           l \in {"seat", "cancel"} => dialog'.made # <<>> /\ Last(dialog'.made) \in DOMAIN plan',
           l = "cancel" => dialog'.nth = dialog.nth /\ Replaced # NoPart
    PROVE  DialogInv'
<1>1. \A i \in DOMAIN dialog'.replaces : Refers(dialog.replaces[i])'
  BY RefersKept DEF DialogInv, DialogAt, Refers
<1>2. Replaced' = dialog.replaces[dialog'.nth]
  BY DEF Replaced, DialogAt
<1> QED
  BY <1>1, <1>2 DEF DialogInv, DialogAt, Replaced

LEMMA DialogCloses ==
    ASSUME dialog' = Closed
    PROVE  DialogInv'
<1>1. IsList(<<>>)
  BY DEF IsList
<1> QED
  BY <1>1 DEF Closed, DialogInv

\* The rows a dialog refers to outlast the steps of others.
LEMMA DialogStays ==
    ASSUME DialogInv, Keeps, UNCHANGED dialog
    PROVE  DialogInv'
<1>1. \A i \in DOMAIN dialog.replaces : Refers(dialog.replaces[i])'
  BY RefersKept DEF DialogInv, Refers
<1>2. \A i \in DOMAIN plan : i \in DOMAIN plan'
  BY DEF Keeps
<1> QED
  BY <1>1, <1>2 DEF DialogInv, Replaced, Refers

LEMMA DialogRefused ==
    ASSUME DialogInv, Keeps, Refused, dialog.at # "closed"
    PROVE  DialogInv'
<1>1. DialogAt(dialog', "shown") /\ dialog'.made = <<>>
  BY DEF Refused, DialogAt, DialogInv, Closed
<1>2. IsList(<<>>)
  BY DEF IsList
<1> QED
  BY <1>1, <1>2, DialogMoves

LEMMA DialogAfterPlan ==
    ASSUME DialogInv, Keeps, dialog' = AfterPlan, dialog.at \in {"seat", "cancel"}
    PROVE  DialogInv'
<1>1. dialog.nth \in 1..Len(dialog.plans) /\ Len(dialog.plans) \in Nat /\ IsList(dialog.made)
  BY ListDomain DEF DialogInv
<1>2. CASE dialog.nth = Len(dialog.plans)
  <2>1. DialogAt(dialog', "announce") /\ dialog'.made = dialog.made
    BY <1>2 DEF AfterPlan, DialogAt, DialogInv, Closed
  <2> QED
    BY <1>1, <2>1, DialogMoves
<1>3. CASE dialog.nth # Len(dialog.plans)
  <2>1. DialogAt(dialog', "file") /\ dialog'.made = dialog.made /\ dialog'.nth = dialog.nth + 1
    BY <1>3 DEF AfterPlan, DialogAt, DialogInv, Closed
  <2>2. dialog'.nth \in 1..Len(dialog.plans)
    BY <1>1, <1>3, <2>1
  <2> QED
    BY <1>1, <2>1, <2>2, DialogMoves
<1> QED
  BY <1>2, <1>3

\* A rebooking is matched with a part that exists.
LEMMA MatchesRefer ==
    ASSUME NEW t, NEW r \in {NoPart} \cup {c.part : c \in RebookCandidates(t)}
    PROVE  Refers(r)
  BY DEF RebookCandidates, Refers

LEMMA PasteDialog ==
    ASSUME IngestInv, Paste
    PROVE  DialogInv' /\ DatedProposals(dialog'.plans)
<1>0. PICK p \in Pastes : \E ps \in Readings[p.answer] :
        /\ Live(p.trip) /\ p.user \in trip[p.trip].members /\ ps # <<>>
        /\ \E replaces \in [DOMAIN ps -> {NoPart} \cup {c.part : c \in RebookCandidates(p.trip)}] :
              dialog' = [Closed EXCEPT !.at = "shown", !.user = p.user, !.trip = p.trip, !.plans = ps,
                             !.replaces = replaces]
  BY Zenon DEF Paste
<1>1. PICK ps \in Readings[p.answer] :
        /\ Live(p.trip) /\ p.user \in trip[p.trip].members /\ ps # <<>>
        /\ \E replaces \in [DOMAIN ps -> {NoPart} \cup {c.part : c \in RebookCandidates(p.trip)}] :
              dialog' = [Closed EXCEPT !.at = "shown", !.user = p.user, !.trip = p.trip, !.plans = ps,
                             !.replaces = replaces]
  BY <1>0
<1>2. p.answer \in Answers
  BY DEF Answers
<1>3. PICK replaces \in [DOMAIN ps -> {NoPart} \cup {c.part : c \in RebookCandidates(p.trip)}] :
        dialog' = [Closed EXCEPT !.at = "shown", !.user = p.user, !.trip = p.trip, !.plans = ps, !.replaces = replaces]
  BY <1>1
<1>4. IsList(ps) /\ IsList(<<>>) /\ ps # <<>> /\ DatedProposals(ps)
  BY <1>1, <1>2, ReadingsListed DEF IsList
<1>5. p.user \in Users
  BY <1>1 DEF Live, IngestInv, TablesInv, TripOK
<1>6. \A i \in DOMAIN replaces : Refers(replaces[i])
  BY MatchesRefer
<1>7. /\ DOMAIN dialog' = DOMAIN Closed /\ dialog'.at = "shown" /\ dialog'.user = p.user
      /\ dialog'.plans = ps /\ dialog'.replaces = replaces /\ dialog'.made = <<>>
  BY <1>3 DEF Closed
<1>8. UNCHANGED plan
  BY DEF Paste
<1>9. \A i \in DOMAIN dialog'.replaces : Refers(dialog.replaces[i])'
  BY <1>6, <1>7, <1>8 DEF Refers
<1> QED
  BY <1>4, <1>5, <1>7, <1>9 DEF DialogInv

LEMMA DialogInvStep ==
    ASSUME IngestInv, [Next]_vars, Keeps
    PROVE  DialogInv'
<1>0. DialogInv /\ DOMAIN dialog = DOMAIN Closed /\ IsList(dialog.made)
  BY DEF IngestInv, DialogInv
<1>1. CASE UNCHANGED dialog
  BY <1>0, <1>1, DialogStays
<1>2. CASE Restart
  <2>1. CASE dialog.at \in {"file", "seat", "cancel"}
    <3>1. Refused
      BY <1>2, <2>1 DEF Restart, Refused
    <3> QED
      BY <1>0, <2>1, <3>1, DialogRefused
  <2>2. CASE dialog.at = "announce"
    BY <1>2, <2>2, DialogCloses DEF Restart
  <2>3. CASE dialog.at \notin {"file", "seat", "cancel", "announce"}
    BY <1>1, <1>2, <2>3 DEF Restart
  <2> QED
    BY <2>1, <2>2, <2>3
<1>3. CASE Paste
  BY <1>3, PasteDialog
<1>4. CASE Confirm
  <2>1. dialog.at = "shown" /\ dialog' = [dialog EXCEPT !.at = "file", !.nth = 1, !.made = <<>>]
    BY <1>4 DEF Confirm, D
  <2>2. DialogAt(dialog', "file") /\ dialog'.nth = 1 /\ dialog'.made = <<>>
    BY <1>0, <2>1 DEF DialogAt, Closed
  <2>3. 1 \in 1..Len(dialog.plans)
    BY <2>1, EmptySeq, ListDomain DEF IngestInv, DialogInv, IsList
  <2>4. IsList(<<>>)
    BY DEF IsList
  <2> QED
    BY <1>0, <2>1, <2>2, <2>3, <2>4, DialogMoves
<1>5. CASE Dismissed \/ Announce
  BY <1>5, DialogCloses DEF Dismissed, Announce
<1>6. CASE CommitPlan
  <2>1. dialog.at = "file" /\ dialog.nth \in 1..Len(dialog.plans)
    BY <1>0, <1>6 DEF CommitPlan, D, DialogInv
  <2>2. CASE Refused
    BY <1>0, <2>1, <2>2, DialogRefused
  <2>3. CASE /\ CreatePlan(Offer, dialog.trip, dialog.user, <<NoMail, dialog.nth>>, Replaced)
             /\ dialog' = [dialog EXCEPT !.made = Append(@, Len(plan')), !.at = "seat"]
    <3>1. DialogAt(dialog', "seat") /\ dialog'.nth = dialog.nth /\ dialog'.made = Append(dialog.made, Len(plan'))
      BY <1>0, <2>3 DEF DialogAt, Closed
    <3>2. /\ IsList(dialog'.made) /\ Len(dialog'.made) \in Nat \ {0} /\ dialog'.made[Len(dialog'.made)] = Len(plan')
      BY <1>0, <3>1, Appended, ListDomain
    <3>3. dialog'.made # <<>> /\ Last(dialog'.made) = Len(plan')
      BY <3>2 DEF Last
    <3>4. plan' = Append(plan, Row(Offer, dialog.trip, dialog.user, <<NoMail, dialog.nth>>, Replaced))
      BY <2>3 DEF CreatePlan
    <3>5. Len(plan') \in DOMAIN plan'
      BY <3>4, Appended, ListDomain DEF IngestInv, TablesInv
    <3> QED
      BY <1>0, <2>1, <3>1, <3>2, <3>3, <3>5, DialogMoves
  <2> QED
    BY <1>6, <2>2, <2>3 DEF CommitPlan
<1>7. CASE CommitPassenger
  <2>1. dialog.at = "seat" /\ dialog.nth \in 1..Len(dialog.plans) /\ dialog.made # <<>> /\ Last(dialog.made) \in DOMAIN plan'
    BY <1>0, <1>7 DEF CommitPassenger, D, DialogInv, Keeps
  <2>2. CASE Refused
    BY <1>0, <2>1, <2>2, DialogRefused
  <2>3. CASE dialog' = AfterPlan
    BY <1>0, <2>1, <2>3, DialogAfterPlan
  <2>4. CASE Replaced # NoPart /\ dialog' = [dialog EXCEPT !.at = "cancel"]
    <3>1. DialogAt(dialog', "cancel") /\ dialog'.nth = dialog.nth /\ dialog'.made = dialog.made
      BY <1>0, <2>4 DEF DialogAt, Closed
    <3> QED
      BY <1>0, <2>1, <2>4, <3>1, DialogMoves
  <2> QED
    BY <1>7, <2>2, <2>3, <2>4 DEF CommitPassenger
<1>8. CASE CancelSuperseded
  <2>1. dialog.at = "cancel"
    BY <1>8 DEF CancelSuperseded, D
  <2>2. Refused \/ dialog' = AfterPlan
    BY <1>8 DEF CancelSuperseded
  <2> QED
    BY <1>0, <2>1, <2>2, DialogRefused, DialogAfterPlan
<1>9. CASE RequestFails
  <2>1. dialog.at # "closed"
    BY <1>9 DEF RequestFails
  <2>2. Refused \/ dialog' = Closed
    BY <1>9, Zenon DEF RequestFails
  <2> QED
    BY <1>0, <2>1, <2>2, DialogRefused, DialogCloses
<1>10. UNCHANGED dialog \/ DialogStep \/ RequestFails \/ Restart
  <2>1. CASE FileStep
    BY <2>1 DEF FileStep, ReadDir, DrainDone, ProcessOne, RemoveFile, MovePoison, Aside
  <2>2. CASE OtherCall \/ ChooseTrip
    BY <2>2, LookupEffect, ProposeEffect, ChooseEffect, CreateEffect, FileEffect, SeatEffect, LogEffect, ReplyEffect
    DEF OtherCall, Unmoved
  <2>3. CASE CallFails \/ StopServer \/ Deliver \/ Edit \/ UNCHANGED vars
    BY <2>3, FailEffect DEF StopServer, Deliver, Edit, vars
  <2> QED
    BY <2>1, <2>2, <2>3 DEF Next, WorkerStep
<1> QED
  BY <1>1, <1>2, <1>3, <1>4, <1>5, <1>6, <1>7, <1>8, <1>9, <1>10 DEF DialogStep

\* The steps of others, seen from the worker.
LEMMA OtherSteps ==
    ASSUME IngestInv, Keeps, DialogStep \/ RequestFails \/ StopServer \/ Restart \/ Deliver \/ Edit \/ UNCHANGED vars
    PROVE  MailOK
<1>1. \A i \in DOMAIN plan : i \in DOMAIN plan'
  BY DEF Keeps
<1>2. ASSUME UNCHANGED <<notes, read>>, stopping' \in BOOLEAN,
             failures' \in Nat, stops' \in Nat, edits' \in Nat, pastes' \in Nat
      PROVE  NotesInv'
  BY <1>2 DEF IngestInv, NotesInv, notes
<1>3. ASSUME UNCHANGED <<coming, inbox, poison, worker, read>>
      PROVE  FilesInv' /\ WorkerInv'
  BY <1>1, <1>3 DEF IngestInv, FilesInv, WorkerInv
<1>4. /\ stopping \in BOOLEAN /\ failures \in Nat /\ stops \in Nat /\ edits \in Nat /\ pastes \in Nat
      /\ failures + 1 \in Nat /\ stops + 1 \in Nat /\ edits + 1 \in Nat /\ pastes + 1 \in Nat
  BY DEF IngestInv, NotesInv
<1>5. CASE DialogStep \/ RequestFails
  <2>1. UNCHANGED <<coming, inbox, poison, worker, read, notes, stopping>>
    BY <1>5, Zenon DEF DialogStep, Paste, Confirm, Dismissed, CommitPlan, CommitPassenger, CancelSuperseded, Announce,
                RequestFails, Beside, history
  <2>2. failures' \in Nat /\ stops' \in Nat /\ edits' \in Nat /\ pastes' \in Nat
    BY <1>4, <1>5, ZenonT(60) DEF DialogStep, Paste, Confirm, Dismissed, CommitPlan, CommitPassenger, CancelSuperseded, Announce,
                RequestFails, bounds
  <2> QED
    BY <1>2, <1>3, <1>4, <2>1, <2>2 DEF MailOK
<1>6. CASE StopServer
  BY <1>2, <1>3, <1>4, <1>6 DEF StopServer, world, MailOK
<1>7. CASE Restart
  <2>1. UNCHANGED <<coming, inbox, poison, read, notes, failures, edits, pastes>> /\ stopping' = FALSE /\ worker' = AtRest
    BY <1>7, Zenon DEF Restart, world
  <2>2. stops' \in Nat
    BY <1>4, <1>7 DEF Restart
  <2>3. FilesInv' /\ WorkerInv'
    BY <2>1 DEF IngestInv, FilesInv, WorkerInv, AtRest, Statuses, Busy, Ending, Calls
  <2> QED
    BY <1>2, <1>4, <2>1, <2>2, <2>3 DEF MailOK
<1>8. CASE Deliver
  <2>1. NotesInv'
    BY <1>2, <1>4, <1>8 DEF Deliver, bounds, history
  <2>2. FilesInv'
    BY <1>8 DEF Deliver, IngestInv, FilesInv
  <2>3. WorkerInv'
    BY <1>1, <1>8 DEF Deliver, IngestInv, WorkerInv, history
  <2> QED
    BY <2>1, <2>2, <2>3 DEF MailOK
<1>9. CASE Edit
  <2>1. UNCHANGED <<coming, inbox, poison, worker, read, notes, stopping, failures, stops, pastes>> /\ edits' = edits + 1
    BY <1>9, Zenon DEF Edit, history
  <2> QED
    BY <1>2, <1>3, <1>4, <2>1 DEF MailOK
<1>10. CASE UNCHANGED vars
  <2>1. UNCHANGED <<coming, inbox, poison, worker, read, notes, stopping, failures, stops, pastes, edits>>
    BY <1>10, Zenon DEF vars, world, history, bounds
  <2> QED
    BY <1>2, <1>3, <1>4, <2>1 DEF MailOK
<1> QED
  BY <1>5, <1>6, <1>7, <1>8, <1>9, <1>10

-----------------------------------------------------------------------------
(* The invariant                                                             *)

LEMMA IngestStep ==
    ASSUME IngestInv, [Next]_vars
    PROVE  IngestInv' /\ Keeps
<1>1. TablesInv' /\ Keeps
  BY TablesStep
<1>2. DialogInv'
  BY <1>1, DialogInvStep
<1>3. MailOK
  BY <1>1, DrainSteps, CallSteps, FailSteps, OtherSteps DEF Next, WorkerStep
<1> QED
  BY <1>1, <1>2, <1>3 DEF IngestInv, MailOK

LEMMA IngestInit == Init => IngestInv
<1> SUFFICES ASSUME Init PROVE IngestInv
  OBVIOUS
<1>1. PICK s \in Seeds : verified = s.verified /\ trip = s.trip /\ recent = s.recent /\ plan = s.plan
  BY DEF Init
<1>2. s \in Databases
  BY <1>1, SeedsAssumption
<1>3. trip \in Seq(Trips) /\ plan \in Seq(Plans) /\ verified \in [Addresses -> Users \cup {NoOne}]
  BY <1>1, <1>2 DEF Databases
<1>4. IsList(trip) /\ IsList(plan)
  BY <1>3, LenProperties DEF IsList, ToSet
<1>5. ASSUME NEW t \in DOMAIN trip PROVE TripOK(t)
  <2>1. trip[t] \in Trips
    BY <1>3, LenProperties
  <2> QED
    BY <2>1 DEF TripOK, Trips
<1>6. ASSUME NEW i \in DOMAIN plan PROVE RowOK(i)
  <2>1. plan[i] \in Plans
    BY <1>3, LenProperties
  <2>2. /\ plan[i].trip \in DOMAIN trip
        /\ plan[i].live => trip[plan[i].trip].live
        /\ plan[i].pax \subseteq trip[plan[i].trip].members
        /\ \A k \in DOMAIN plan[i].parts : Refers(plan[i].parts[k].replaces)
    BY <1>1, SeedsAssumption DEF Replaces, Refers
  <2>3. ASSUME NEW k \in DOMAIN plan[i].parts PROVE DOMAIN plan[i].parts[k] = PartFields
    <3>1. plan[i].parts \in Seq(Parts)
      BY <2>1 DEF Plans
    <3>2. plan[i].parts[k] \in Parts
      BY <3>1, LenProperties
    <3> QED
      BY <3>2 DEF Parts, PartFields
  <2> QED
    BY <2>1, <2>2, <2>3 DEF RowOK, RowFields, Plans
<1>7. IsList(<<>>)
  BY DEF IsList
<1>8. FilesInv
  BY IngestionAssumption DEF Init, FilesInv, AtRest
<1>9. NotesInv
  BY <1>7 DEF Init, NotesInv, NoNote, NoReply, Statuses
<1>10. WorkerInv
  BY DEF Init, WorkerInv, AtRest, Statuses, Busy, Ending, Calls
<1>11. DialogInv
  BY <1>7 DEF Init, DialogInv, Closed
<1> QED
  BY <1>3, <1>4, <1>5, <1>6, <1>8, <1>9, <1>10, <1>11 DEF IngestInv, TablesInv

-----------------------------------------------------------------------------
(* Filed once                                                                *)

\* The row of FilePlan carries the booking at work, and the worker goes on to seat the sender.
LEMMA FileNew ==
    ASSUME IngestInv, FilePlan
    PROVE  \/ DOMAIN plan' = DOMAIN plan
           \/ \E r : /\ r \notin DOMAIN plan /\ DOMAIN plan' = DOMAIN plan \cup {r}
                     /\ plan'[r].source = <<worker.mail, worker.nth>>
                     /\ \A k \in DOMAIN plan'[r].parts : plan'[r].parts[k].replaces = NoPart
                     /\ Goes("seat")
<1>1. CASE UNCHANGED plan
  BY <1>1
<1>2. CASE /\ CanCreatePlan(Proposal, worker.trip, NoPart)
           /\ CreatePlan(Proposal, worker.trip, worker.user, <<worker.mail, worker.nth>>, NoPart)
           /\ worker' = [worker EXCEPT !.row = Len(plan'), !.at = "seat"]
  <2>1. Goes("seat")
    BY <1>2 DEF Goes, SameMail, IngestInv, WorkerInv, AtRest
  <2>2. <<worker.mail, worker.nth>> \in (Mails \cup {NoMail}) \X Nat
    BY DEF IngestInv, WorkerInv, FilesInv
  <2>3. Refers(NoPart) /\ UNCHANGED <<trip, verified>>
    BY Zenon DEF Refers, FilePlan
  <2>4. /\ DOMAIN plan' = DOMAIN plan \cup {Len(plan')} /\ Len(plan') \notin DOMAIN plan
        /\ plan'[Len(plan')].source = <<worker.mail, worker.nth>>
        /\ \A k \in DOMAIN plan'[Len(plan')].parts : plan'[Len(plan')].parts[k].replaces \in {NoPart, NoPart}
    <3>1. /\ TablesInv /\ CanCreatePlan(Proposal, worker.trip, NoPart)
          /\ CreatePlan(Proposal, worker.trip, worker.user, <<worker.mail, worker.nth>>, NoPart)
      BY <1>2, Zenon DEF IngestInv
    <3>2. PICK p, t, u, source, replaces : /\ source = <<worker.mail, worker.nth>> /\ replaces = NoPart
                                           /\ p = Proposal /\ t = worker.trip /\ u = worker.user
      OBVIOUS
    <3>3. /\ TablesInv /\ source \in (Mails \cup {NoMail}) \X Nat /\ CanCreatePlan(p, t, replaces)
          /\ CreatePlan(p, t, u, source, replaces) /\ Refers(replaces) /\ UNCHANGED <<trip, verified>>
      BY <2>2, <2>3, <3>1, <3>2
    <3>4. DOMAIN plan' = DOMAIN plan \cup {Len(plan')}
      BY <3>3, RowAdded
    <3>5. Len(plan') \notin DOMAIN plan
      BY <3>3, RowAdded, Zenon
    <3>6. plan'[Len(plan')].source = source
      BY <3>3, RowAdded, SMTT(30)
    <3>7. \A k \in DOMAIN plan'[Len(plan')].parts : plan'[Len(plan')].parts[k].replaces \in {NoPart, replaces}
      BY <3>3, RowAdded, SMTT(30)
    <3> QED
      BY <3>2, <3>4, <3>5, <3>6, <3>7
  <2>5. \A k \in DOMAIN plan'[Len(plan')].parts : plan'[Len(plan')].parts[k].replaces = NoPart
    BY <2>4
  <2> QED
    BY <2>1, <2>4, <2>5, Zenon
<1> QED
  BY <1>1, <1>2 DEF FilePlan

\* The row of CommitPlan replaces what its proposal was matched with, or nothing.
LEMMA CommitNew ==
    ASSUME IngestInv, CommitPlan
    PROVE  \/ DOMAIN plan' = DOMAIN plan
           \/ \E r : /\ r \notin DOMAIN plan /\ DOMAIN plan' = DOMAIN plan \cup {r}
                     /\ plan'[r].source = <<NoMail, dialog.nth>>
                     /\ \A k \in DOMAIN plan'[r].parts : plan'[r].parts[k].replaces \in {NoPart, Replaced}
                     /\ r = Last(dialog'.made) /\ dialog'.at = "seat"
                     /\ dialog'.replaces = dialog.replaces /\ dialog'.nth = dialog.nth
<1>1. CASE UNCHANGED plan
  BY <1>1
<1>2. CASE /\ CanCreatePlan(Offer, dialog.trip, Replaced)
           /\ CreatePlan(Offer, dialog.trip, dialog.user, <<NoMail, dialog.nth>>, Replaced)
           /\ dialog' = [dialog EXCEPT !.made = Append(@, Len(plan')), !.at = "seat"]
  <2>1. /\ dialog'.at = "seat" /\ dialog'.replaces = dialog.replaces /\ dialog'.nth = dialog.nth
        /\ dialog'.made = Append(dialog.made, Len(plan'))
    BY <1>2 DEF IngestInv, DialogInv, Closed
  <2>2. IsList(dialog.made)
    BY DEF IngestInv, DialogInv
  <2>3. Last(dialog'.made) = Len(plan')
    BY <2>1, <2>2, Appended DEF Last
  <2>4. <<NoMail, dialog.nth>> \in (Mails \cup {NoMail}) \X Nat /\ Refers(Replaced) /\ UNCHANGED <<trip, verified>>
    BY ReplacedRefers DEF IngestInv, DialogInv, CommitPlan, Beside, D
  <2> QED
    BY <1>2, <2>1, <2>3, <2>4, RowAdded DEF IngestInv
<1> QED
  BY <1>1, <1>2 DEF CommitPlan

\* Nothing brings a message back, and the worker takes its bookings in order.
LEMMA AccountedStays ==
    ASSUME IngestInv, [Next]_vars, NEW m \in Mails \cup {NoMail}, NEW n \in Nat, Accounted(m, n)
    PROVE  Accounted(m, n)'
<1> DEFINE held == worker.mail = m /\ Past(n)
<1>0. SUFFICES ASSUME m # NoMail, m \in Mails PROVE Accounted(m, n)'
  BY DEF Accounted
<1>1. ASSUME redo \subseteq redo', UNCHANGED <<inbox, coming>>, held => m \in redo' \/ held'
      PROVE  Accounted(m, n)'
  BY <1>1 DEF Accounted
<1>2. CASE FileStep
  <2>1. CASE ReadDir \/ DrainDone \/ ProcessOne
    <3>1. ~held
      BY <1>0, <2>1 DEF ReadDir, DrainDone, ProcessOne, At, IngestInv, WorkerInv
    <3> QED
      BY <1>1, <2>1, <3>1 DEF ReadDir, DrainDone, ProcessOne, world, history
  <2>2. CASE RemoveFile \/ MovePoison
    <3>1. redo' = redo /\ inbox' = inbox \ {worker.mail} /\ coming' = coming
      BY <2>2 DEF RemoveFile, MovePoison, history
    <3>2. held => m \in inbox /\ m \notin coming
      BY <1>0 DEF IngestInv, FilesInv
    <3> QED
      BY <3>1, <3>2 DEF Accounted
  <2> QED
    BY <1>2, <2>1, <2>2 DEF FileStep
<1>3. ASSUME Unmoved, held => held' PROVE Accounted(m, n)'
  BY <1>1, <1>3 DEF Unmoved
<1>4. CASE UserByVerifiedEmail \/ Propose
  <2>1. ~held /\ Unmoved
    BY <1>4, LookupEffect, ProposeEffect DEF Past, Busy, Ending
  <2> QED
    BY <1>3, <2>1
<1>5. CASE ChooseTrip \/ CreateTripForPlan
  <2>1. Unmoved /\ worker.at \in {"select", "create"} /\ (Goes("create") \/ Goes("file"))
    BY <1>5, ChooseEffect, CreateEffect
  <2> QED
    BY <1>3, <2>1 DEF Past, Busy, Ending, Goes, SameMail
<1>6. CASE FilePlan \/ SeatSender
  <2>1. Unmoved /\ worker.at \in {"file", "seat"}
    BY <1>6, FileEffect, SeatEffect, TablesStep
  <2>2. worker.nth \in Nat
    BY DEF IngestInv, WorkerInv
  <2>3. CASE Goes("seat") /\ worker.at = "file"
    BY <1>3, <2>1, <2>3 DEF Past, Busy, Ending, Goes, SameMail
  <2>4. CASE Moves(TRUE) \/ Moves(FALSE)
    BY <1>3, <2>1, <2>2, <2>4 DEF Past, Busy, Ending, Moves, SameMail
  <2> QED
    BY <1>6, <2>3, <2>4, FileEffect, SeatEffect, TablesStep
<1>7. CASE LogIngest \/ SendReply
  <2>1. /\ Unmoved
        /\ \/ worker.at \in {"log", "reply"} /\ (Goes("reply") \/ Goes("remove"))
           \/ worker.at = "reject"
    BY <1>7, LogEffect, ReplyEffect
  <2> QED
    BY <1>3, <2>1 DEF Past, Busy, Ending, Goes, SameMail
<1>8. CASE CallFails
  <2>1. redo \subseteq redo' /\ UNCHANGED <<inbox, coming>> /\ (worker.at = "remove" => worker.mail \in redo')
    BY <1>8, FailEffect
  <2>2. worker.nth \in Nat
    BY DEF IngestInv, WorkerInv
  <2>3. CASE worker.at \in {"lookup", "propose", "remove", "rename"}
    BY <1>1, <2>1, <2>3 DEF Past, Busy, Ending
  <2>4. CASE worker.at \in Busy /\ Moves(TRUE)
    BY <1>1, <2>1, <2>2, <2>4 DEF Past, Busy, Ending, Moves, SameMail
  <2>5. CASE (worker.at = "log" /\ Goes("reply")) \/ (worker.at = "reject" /\ Goes("rename")) \/ (worker.at = "reply" /\ Goes("remove"))
    BY <1>1, <2>1, <2>5 DEF Past, Busy, Ending, Goes, SameMail
  <2> QED
    BY <1>8, <2>3, <2>4, <2>5, FailEffect
<1>9. CASE Restart
  <2>1. redo' = redo \cup ({worker.mail} \cap Mails) /\ UNCHANGED <<inbox, coming>>
    BY <1>9 DEF Restart, world
  <2> QED
    BY <1>0, <1>1, <2>1
<1>10. CASE UNCHANGED <<worker, inbox, coming, redo>>
  BY <1>1, <1>10 DEF Past
<1>11. CASE StopServer \/ Edit \/ UNCHANGED vars
  BY <1>10, <1>11, Zenon DEF StopServer, Edit, vars, world, history
<1>12. CASE DialogStep \/ RequestFails
  BY <1>10, <1>12, Zenon DEF DialogStep, Paste, Confirm, Dismissed, CommitPlan, CommitPassenger, CancelSuperseded, Announce,
     RequestFails, Beside, history
<1>13. CASE Deliver
  BY <1>13 DEF Deliver, Accounted, Past, history
<1> QED
  BY <1>2, <1>4, <1>5, <1>6, <1>7, <1>8, <1>9, <1>11, <1>12, <1>13 DEF Next, WorkerStep, OtherCall

LEMMA RedoGrows ==
    ASSUME IngestInv, [Next]_vars
    PROVE  redo \subseteq redo'
<1>1. CASE FileStep
  BY <1>1 DEF FileStep, ReadDir, DrainDone, ProcessOne, RemoveFile, MovePoison, history
<1>2. CASE OtherCall \/ ChooseTrip
  BY <1>2, LookupEffect, ProposeEffect, ChooseEffect, CreateEffect, FileEffect, SeatEffect, LogEffect, ReplyEffect, TablesStep
  DEF OtherCall, Unmoved
<1>3. CASE CallFails
  BY <1>3, FailEffect
<1>4. CASE StopServer \/ Restart \/ Deliver \/ Edit \/ UNCHANGED vars
  BY <1>4 DEF StopServer, Restart, Deliver, Edit, vars, history
<1>5. CASE DialogStep \/ RequestFails
  <2>1. redo' = redo
    BY <1>5, Zenon DEF DialogStep, Paste, Confirm, Dismissed, CommitPlan, CommitPassenger, CancelSuperseded, Announce,
       RequestFails, Beside, history
  <2> QED
    BY <2>1
<1> QED
  BY <1>1, <1>2, <1>3, <1>4, <1>5 DEF Next, WorkerStep

\* The booking being filed is not past, so that a twin of its row would be of a mail in redo.
LEMMA FiledStep ==
    ASSUME IngestInv, FiledInv, [Next]_vars
    PROVE  FiledInv'
<1> DEFINE Twins(i, j) == plan[i].source = plan[j].source /\ plan[i].source[1] # NoMail
<1>1. \A i \in DOMAIN plan : plan[i].source \in (Mails \cup {NoMail}) \X Nat
  BY DEF IngestInv, TablesInv, RowOK
<1>2. \A i \in DOMAIN plan : i \in DOMAIN plan' /\ plan'[i].source = plan[i].source
  BY TablesStep DEF Keeps
<1>3. ASSUME NEW i \in DOMAIN plan PROVE Accounted(plan[i].source[1], plan[i].source[2])'
  <2>1. PICK m, n : m = plan[i].source[1] /\ n = plan[i].source[2]
    OBVIOUS
  <2>2. m \in Mails \cup {NoMail} /\ n \in Nat /\ Accounted(m, n)
    BY <1>1, <2>1 DEF FiledInv
  <2>3. Accounted(m, n)'
    BY <2>2, AccountedStays
  <2>4. m = plan'[i].source[1] /\ n = plan'[i].source[2]
    BY <1>2, <2>1
  <2> QED
    BY <2>3, <2>4 DEF Accounted, Past
<1>4. redo \subseteq redo'
  BY RedoGrows
<1>5. ASSUME NEW i \in DOMAIN plan, NEW j \in DOMAIN plan, i # j, Twins(i, j)'
      PROVE  plan'[i].source[1] \in redo'
  BY <1>2, <1>4, <1>5 DEF FiledInv, FiledOnce
<1>6. CASE DOMAIN plan' = DOMAIN plan
  BY <1>3, <1>5, <1>6 DEF FiledInv, FiledOnce
<1>7. CASE FilePlan /\ DOMAIN plan' # DOMAIN plan
  <2>1. PICK r : /\ r \notin DOMAIN plan /\ DOMAIN plan' = DOMAIN plan \cup {r}
                 /\ plan'[r].source = <<worker.mail, worker.nth>> /\ Goes("seat")
    BY <1>7, FileNew
  <2>2. /\ worker.at = "file" /\ worker.mail \in Mails /\ worker.mail \in inbox /\ worker.mail # NoMail
    BY <1>7, BusyMail DEF FilePlan, At
  <2>3. ASSUME NEW j \in DOMAIN plan, plan'[j].source = plan'[r].source
        PROVE  worker.mail \in redo
    <3>1. plan[j].source[1] = worker.mail /\ plan[j].source[2] = worker.nth
      BY <1>2, <2>1, <2>3
    <3>2. Accounted(worker.mail, worker.nth)
      BY <3>1 DEF FiledInv
    <3>3. ~Past(worker.nth)
      BY <2>2 DEF Past, Busy, Ending, IngestInv, WorkerInv
    <3> QED
      BY <2>2, <3>2, <3>3 DEF Accounted
  <2>4. ASSUME NEW i \in DOMAIN plan', NEW j \in DOMAIN plan', i # j, Twins(i, j)'
        PROVE  plan'[i].source[1] \in redo'
    BY <1>4, <1>5, <2>1, <2>3, <2>4
  <2>5. Accounted(plan[r].source[1], plan[r].source[2])'
    <3>1. plan'[r].source[1] = worker'.mail /\ plan'[r].source[2] = worker'.nth /\ worker'.at = "seat"
      BY <2>1 DEF Goes, SameMail
    <3> QED
      BY <3>1 DEF Accounted, Past, Busy
  <2> QED
    BY <1>3, <2>1, <2>4, <2>5 DEF FiledInv, FiledOnce
<1>8. CASE CommitPlan /\ DOMAIN plan' # DOMAIN plan
  <2>1. PICK r : /\ r \notin DOMAIN plan /\ DOMAIN plan' = DOMAIN plan \cup {r}
                 /\ plan'[r].source = <<NoMail, dialog.nth>>
    BY <1>8, CommitNew
  <2>2. plan'[r].source[1] = NoMail
    BY <2>1
  <2>3. Accounted(plan[r].source[1], plan[r].source[2])'
    BY <2>2 DEF Accounted
  <2>4. ASSUME NEW i \in DOMAIN plan', NEW j \in DOMAIN plan', i # j, Twins(i, j)'
        PROVE  plan'[i].source[1] \in redo'
    BY <1>5, <2>1, <2>2, <2>4
  <2> QED
    BY <1>3, <2>1, <2>3, <2>4 DEF FiledInv, FiledOnce
<1> QED
  BY <1>6, <1>7, <1>8, TablesStep

-----------------------------------------------------------------------------
(* Counted                                                                   *)

LEMMA MissedFinite ==
    ASSUME NEW m, NEW k \in Nat
    PROVE  IsFiniteSet(MissedTo(m, k)) /\ Cardinality(MissedTo(m, k)) \in Nat
<1>1. IsFiniteSet(1..k)
  BY FS_Interval
<1>2. MissedTo(m, k) \subseteq 1..k
  BY DEF MissedTo
<1> QED
  BY <1>1, <1>2, FS_Subset, FS_CardinalityType

\* The count of the first k bookings from that of the first k - 1.
LEMMA MissedOneMore ==
    ASSUME NEW m, NEW k \in Nat \ {0}
    PROVE  Cardinality(MissedTo(m, k)) = Cardinality(MissedTo(m, k - 1)) + (IF Unseated(m, k) THEN 1 ELSE 0)
<1>1. k - 1 \in Nat /\ IsFiniteSet(MissedTo(m, k - 1)) /\ Cardinality(MissedTo(m, k - 1)) \in Nat
  BY MissedFinite
<1>2. k \notin MissedTo(m, k - 1)
  BY DEF MissedTo
<1>3. CASE Unseated(m, k)
  <2>1. MissedTo(m, k) = MissedTo(m, k - 1) \cup {k}
    BY <1>3 DEF MissedTo
  <2> QED
    BY <1>1, <1>2, <1>3, <2>1, FS_AddElement
<1>4. CASE ~Unseated(m, k)
  <2>1. MissedTo(m, k) = MissedTo(m, k - 1)
    BY <1>4 DEF MissedTo
  <2> QED
    BY <1>1, <1>4, <2>1
<1> QED
  BY <1>3, <1>4

LEMMA MissedAll ==
    ASSUME NEW m, IsList(read[m])
    PROVE  Missing(m) = MissedTo(m, Len(read[m]))
  BY ListDomain DEF Missing, MissedTo, Unseated

\* The messages a step does not work on.
LEMMA OthersKept ==
    ASSUME IngestInv, [Next]_vars, NEW m \in Mails, m # worker.mail
    PROVE  read'[m] = read[m] /\ audit'[m] = audit[m] /\ reply'[m] = reply[m] /\ Missing(m)' = Missing(m)
<1>1. ASSUME UNCHANGED <<read, audit, reply, seated>> PROVE Missing(m)' = Missing(m)
  BY <1>1 DEF Missing
<1>2. CASE UNCHANGED <<read, audit, reply, seated>>
  BY <1>1, <1>2
<1>3. CASE Propose
  <2>1. read'[m] = read[m]
    BY <1>3, ProposeEffect DEF IngestInv, NotesInv
  <2>2. \A n : <<m, n>> \in seated' <=> <<m, n>> \in seated
    BY <1>3, ProposeEffect
  <2> QED
    BY <1>3, <2>1, <2>2, ProposeEffect DEF Missing, notes
<1>4. CASE SeatSender
  <2>1. UNCHANGED <<read, audit, reply>>
    BY <1>4, SeatEffect DEF notes
  <2>2. \A n : <<m, n>> \in seated' <=> <<m, n>> \in seated
    <3>1. seated' = seated \cup {<<worker.mail, worker.nth>>} \/ seated' = seated
      BY <1>4, SeatEffect
    <3> QED
      BY <3>1
  <2> QED
    BY <2>1, <2>2 DEF Missing
<1>5. CASE LogIngest
  BY <1>1, <1>5, LogEffect DEF Missing
<1>6. CASE SendReply
  BY <1>1, <1>6, ReplyEffect DEF Missing
<1>7. CASE FileStep
  BY <1>2, <1>7 DEF FileStep, ReadDir, DrainDone, ProcessOne, RemoveFile, MovePoison, history, notes
<1>8. CASE UserByVerifiedEmail \/ ChooseTrip \/ CreateTripForPlan \/ FilePlan
  BY <1>2, <1>8, LookupEffect, ChooseEffect, CreateEffect, FileEffect, TablesStep DEF notes
<1>9. CASE CallFails
  BY <1>2, <1>9, FailEffect DEF notes
<1>10. CASE DialogStep \/ RequestFails
  BY <1>2, <1>10, Zenon DEF DialogStep, Paste, Confirm, Dismissed, CommitPlan, CommitPassenger, CancelSuperseded, Announce,
     RequestFails, Beside, history, notes
<1>11. CASE StopServer \/ Restart \/ Deliver \/ Edit \/ UNCHANGED vars
  BY <1>2, <1>11, Zenon DEF StopServer, Restart, Deliver, Edit, vars, history, notes
<1> QED
  BY <1>3, <1>4, <1>5, <1>6, <1>7, <1>8, <1>9, <1>10, <1>11 DEF Next, WorkerStep, OtherCall

\* Failures are counted up, and a message the server stopped at stays one.
LEMMA FaultsGrow ==
    ASSUME IngestInv, [Next]_vars
    PROVE  failures' \in Nat /\ failures <= failures' /\ cut \subseteq cut'
<1>0. failures \in Nat
  BY DEF IngestInv, NotesInv
<1>1. CASE UNCHANGED <<failures, cut>>
  BY <1>0, <1>1
<1>2. CASE FileStep
  BY <1>1, <1>2 DEF FileStep, ReadDir, DrainDone, ProcessOne, RemoveFile, MovePoison, Aside, bounds, history
<1>3. CASE OtherCall \/ ChooseTrip
  BY <1>1, <1>3, LookupEffect, ProposeEffect, ChooseEffect, CreateEffect, FileEffect, SeatEffect, LogEffect, ReplyEffect, TablesStep
  DEF OtherCall, Unmoved, bounds
<1>4. CASE CallFails \/ RequestFails
  <2>1. cut' = cut /\ (failures' = failures \/ failures' = failures + 1)
    BY <1>4, FailEffect DEF RequestFails, Beside, history
  <2> QED
    BY <1>0, <2>1
<1>5. CASE StopServer
  BY <1>0, <1>5 DEF StopServer
<1>6. CASE DialogStep
  BY <1>1, <1>6, Zenon DEF DialogStep, Paste, Confirm, Dismissed, CommitPlan, CommitPassenger, CancelSuperseded, Announce,
     Beside, history, bounds
<1>7. CASE Restart \/ Deliver \/ Edit \/ UNCHANGED vars
  BY <1>1, <1>7, Zenon DEF Restart, Deliver, Edit, vars, history, bounds
<1> QED
  BY <1>2, <1>3, <1>4, <1>5, <1>6, <1>7 DEF Next, WorkerStep

\* One booking is done with: seated, or missed and counted if it is a flight.
LEMMA CountedMoves ==
    ASSUME IngestInv, Counted, worker.at \in Busy, UNCHANGED read,
           \/ Moves(TRUE) /\ UNCHANGED seated
           \/ Moves(FALSE) /\ seated' = seated \cup {<<worker.mail, worker.nth>>}
    PROVE  Counted'
<1> DEFINE m == worker.mail
           k == worker.nth
<1>1. m \in Mails /\ IsList(read[m]) /\ worker.plans = read[m] /\ k \in 1..Len(read[m]) /\ Len(read[m]) \in Nat
  BY BusyMail, ListDomain DEF IngestInv, NotesInv, WorkerInv, Busy
<1>2. k \in Nat \ {0} /\ k - 1 \in Nat
  BY <1>1
<1>3. Proposal.type = read[m][k].type
  BY <1>1 DEF Proposal
<1>4. <<m, k>> \notin seated
  BY <1>2 DEF Counted
<1>5. worker.failed = Cardinality(MissedTo(m, k - 1)) /\ Cardinality(MissedTo(m, k - 1)) \in Nat
  BY <1>2, MissedFinite DEF Counted
<1>6. PICK l : l = k
  OBVIOUS
<1>7. PICK n : n = m
  OBVIOUS
<1>8. worker'.failed = Cardinality(MissedTo(n, l)')
  <2>1. CASE Moves(TRUE) /\ UNCHANGED seated
    <3>1. Unseated(m, k) <=> Proposal.type = "flight"
      BY <1>3, <1>4 DEF Unseated
    <3>2. worker'.failed = Cardinality(MissedTo(m, k))
      BY <1>2, <1>5, <2>1, <3>1, MissedOneMore DEF Moves
    <3>3. MissedTo(n, l)' = MissedTo(m, k)
      BY <1>6, <1>7, <2>1 DEF MissedTo, Unseated
    <3> QED
      BY <3>2, <3>3
  <2>2. CASE Moves(FALSE) /\ seated' = seated \cup {<<m, k>>}
    <3>1. MissedTo(n, l)' = MissedTo(m, k - 1)
      BY <1>2, <1>6, <1>7, <2>2 DEF MissedTo, Unseated
    <3>2. worker'.failed = worker.failed
      BY <1>5, <2>2 DEF Moves
    <3> QED
      BY <1>5, <3>1, <3>2
  <2> QED
    BY <2>1, <2>2
<1>9. /\ worker'.mail = m
      /\ \/ worker'.at = "log" /\ k = Len(read[m])
         \/ worker'.at = "select" /\ worker'.nth = k + 1
  BY <1>1 DEF Moves, SameMail
<1>10. seated' \subseteq Mails \X Nat /\ \A s \in seated' : s[1] = m => s[2] < k + 1
  <2>1. seated \subseteq Mails \X Nat /\ \A s \in seated : s[1] = m => s[2] < k
    BY DEF Counted
  <2>2. seated' \subseteq seated \cup {<<m, k>>}
    OBVIOUS
  <2>3. <<m, k>> \in Mails \X Nat
    BY <1>1, <1>2
  <2>4. seated' \subseteq Mails \X Nat
    BY <2>1, <2>2, <2>3
  <2>5. ASSUME NEW s \in seated', s[1] = m PROVE s[2] < k + 1
    <3>1. s \in seated => s[2] \in Nat /\ s[2] < k
      BY <2>1, <2>5
    <3>2. s \in seated \/ s = <<m, k>>
      BY <2>2, <2>5
    <3> QED
      BY <1>2, <3>1, <3>2
  <2> QED
    BY <2>4, <2>5
<1>11. CASE worker'.at = "log" /\ k = Len(read[m])
  <2>1. Missing(n)' = MissedTo(n, l)'
    <3>1. IsList(read'[n]) /\ l = Len(read'[n])
      BY <1>1, <1>6, <1>7, <1>11
    <3> QED
      BY <3>1, ListDomain DEF Missing, MissedTo, Unseated
  <2>2. worker'.failed = Cardinality(Missing(worker.mail)')
    BY <1>7, <1>8, <1>9, <2>1 DEF Missing
  <2> QED
    BY <1>10, <1>11, <2>2 DEF Counted, Busy
<1>12. CASE worker'.at = "select" /\ worker'.nth = k + 1
  <2>1. worker'.nth - 1 = l
    BY <1>2, <1>6, <1>12
  <2>2. MissedTo(worker.mail, worker.nth - 1)' = MissedTo(n, l)'
    BY <1>7, <1>9, <2>1 DEF MissedTo, Unseated
  <2>3. \A s \in seated' : s[1] = worker'.mail => s[2] < worker'.nth
    BY <1>9, <1>10, <1>12
  <2> QED
    BY <1>8, <1>10, <1>12, <2>2, <2>3 DEF Counted, Ending
<1> QED
  BY <1>9, <1>11, <1>12

\* Where a message has no count yet, or none any more.
Uncounted == {"rest", "next", "lookup", "propose", "reject", "rename"}

LEMMA FileStepEffect ==
    ASSUME IngestInv, FileStep
    PROVE  /\ UNCHANGED <<dialog, bounds, stopping, notes, history>>
           /\ worker'.at \in {"rest", "next", "lookup", "reject", "rename"}
           /\ worker'.at = "lookup" => worker'.failed = 0
<1>1. UNCHANGED <<dialog, bounds, stopping, notes, history>>
  BY Zenon DEF FileStep, ReadDir, DrainDone, ProcessOne, RemoveFile, MovePoison, Aside
<1>2. CASE ReadDir \/ DrainDone
  <2>1. DOMAIN worker = DOMAIN AtRest
    BY DEF IngestInv, WorkerInv
  <2>2. worker'.at \in {"rest", "next"}
    BY <1>2, <2>1 DEF ReadDir, DrainDone, Goto, AtRest
  <2> QED
    BY <1>1, <2>2
<1>3. CASE ProcessOne
  <2>1. PICK m \in worker.batch :
          worker' = [AtRest EXCEPT !.at = Judge(m).at, !.verdict = Judge(m).verdict,
                                   !.batch = worker.batch \ {m}, !.mail = m]
    BY <1>3, Zenon DEF ProcessOne
  <2>2. Judge(m).at \in {"reject", "rename", "lookup"}
    BY DEF Judge
  <2>3. worker'.at = Judge(m).at /\ worker'.failed = 0
    BY <2>1 DEF AtRest
  <2> QED
    BY <1>1, <2>2, <2>3
<1>4. CASE RemoveFile \/ MovePoison
  <2>1. worker'.at = "next"
    BY <1>4 DEF RemoveFile, MovePoison, Leave, AtRest
  <2> QED
    BY <1>1, <2>1
<1> QED
  BY <1>1, <1>2, <1>3, <1>4 DEF FileStep

LEMMA CountedStep ==
    ASSUME IngestInv, Counted, [Next]_vars
    PROVE  Counted'
<1>1. ASSUME UNCHANGED <<read, seated>>,
             worker'.at \in Busy => worker.at \in Busy, worker'.at \in Ending => worker.at \in Ending,
             worker'.at \in Busy \cup Ending => SameMail /\ worker'.failed = worker.failed /\ worker'.nth = worker.nth,
             worker'.at \in {"lookup", "propose"} => worker.at \in {"lookup", "propose"} /\ worker'.failed = worker.failed
      PROVE  Counted'
  <2>1. PICK m, k : m = worker.mail /\ k = worker.nth - 1
    OBVIOUS
  <2>2. Missing(m)' = Missing(m) /\ MissedTo(m, k)' = MissedTo(m, k)
    BY <1>1 DEF Missing, MissedTo, Unseated
  <2>3. worker'.at \in Busy \cup Ending => m = worker'.mail /\ k = worker'.nth - 1
    BY <1>1, <2>1 DEF SameMail
  <2>4. worker'.at \in Busy => MissedTo(worker.mail, worker.nth - 1)' = MissedTo(m, k)
    BY <2>2, <2>3 DEF MissedTo, Unseated
  <2>5. worker'.at \in Ending => Missing(worker.mail)' = Missing(m)
    BY <2>2, <2>3 DEF Missing
  <2> QED
    BY <1>1, <2>1, <2>3, <2>4, <2>5 DEF Counted, SameMail
<1>2. ASSUME UNCHANGED <<read, seated>>, worker'.at \in Uncounted,
             worker'.at \in {"lookup", "propose"} => worker'.failed = 0
      PROVE  Counted'
  BY <1>2 DEF Counted, Uncounted, Busy, Ending
<1>3. ASSUME UNCHANGED <<read, seated, worker>> PROVE Counted'
  BY <1>1, <1>3, Zenon DEF SameMail
<1>4. CASE FileStep
  BY <1>2, <1>4, FileStepEffect DEF history, Uncounted
<1>5. CASE UserByVerifiedEmail
  BY <1>2, <1>5, LookupEffect DEF Uncounted, Counted
<1>6. CASE Propose
  <2>1. PICK m : m = worker.mail
    OBVIOUS
  <2>2. /\ m \in Mails /\ worker'.mail = m /\ worker'.nth = 1 /\ worker'.failed = worker.failed
        /\ seated' = {s \in seated : s[1] # m} /\ read'[m] = worker'.plans
    BY <1>6, <2>1, ProposeEffect, BusyMail DEF IngestInv, NotesInv
  <2>3. worker'.failed = 0
    BY <1>6, <2>2, ProposeEffect DEF Counted
  <2>4. seated' \subseteq Mails \X Nat /\ \A s \in seated' : s[1] # m
    BY <2>2 DEF Counted
  <2>5. CASE worker'.plans = <<>> /\ worker'.at = "log"
    <3>1. Missing(worker.mail)' = {}
      BY <2>2, <2>5 DEF Missing
    <3> QED
      BY <2>3, <2>4, <2>5, <3>1, FS_EmptySet DEF Counted, Busy, Ending
  <2>6. CASE worker'.at = "select"
    <3>1. MissedTo(worker.mail, worker.nth - 1)' = {}
      BY <2>2 DEF MissedTo
    <3> QED
      BY <2>2, <2>3, <2>4, <2>6, <3>1, FS_EmptySet DEF Counted, Busy, Ending
  <2> QED
    BY <1>6, <2>5, <2>6, ProposeEffect
<1>7. CASE ChooseTrip \/ CreateTripForPlan
  BY <1>1, <1>7, ChooseEffect, CreateEffect DEF Goes, Busy, Ending
<1>8. CASE FilePlan \/ SeatSender
  <2>1. UNCHANGED read /\ worker.at \in Busy
    BY <1>8, FileEffect, SeatEffect, TablesStep DEF Busy
  <2>2. CASE Goes("seat") /\ UNCHANGED seated
    BY <1>1, <2>1, <2>2 DEF Goes, Busy, Ending
  <2> QED
    BY <1>8, <2>1, <2>2, CountedMoves, FileEffect, SeatEffect, TablesStep
<1>9. CASE LogIngest \/ SendReply
  <2>1. UNCHANGED <<read, seated>>
    BY <1>9, LogEffect, ReplyEffect
  <2>2. \/ worker.at = "log" /\ Goes("reply")
        \/ worker.at = "reject" /\ Goes("rename")
        \/ worker.at = "reply" /\ Goes("remove")
    BY <1>9, LogEffect, ReplyEffect
  <2> QED
    BY <1>1, <2>1, <2>2 DEF Goes, Busy, Ending
<1>10. CASE CallFails
  <2>1. UNCHANGED <<read, seated>>
    BY <1>10, FailEffect
  <2>2. CASE Leave
    BY <1>2, <2>1, <2>2 DEF Leave, AtRest, Uncounted
  <2>3. CASE worker.at \in Busy /\ Moves(TRUE)
    BY <2>1, <2>3, CountedMoves
  <2>4. CASE \/ worker.at = "log" /\ Goes("reply")
             \/ worker.at = "reject" /\ Goes("rename")
             \/ worker.at = "reply" /\ Goes("remove")
    BY <1>1, <2>1, <2>4 DEF Goes, Busy, Ending
  <2> QED
    BY <1>10, <2>2, <2>3, <2>4, FailEffect
<1>11. CASE Restart
  BY <1>2, <1>11 DEF Restart, AtRest, Uncounted
<1>12. CASE DialogStep \/ RequestFails
  BY <1>3, <1>12, Zenon DEF DialogStep, Paste, Confirm, Dismissed, CommitPlan, CommitPassenger, CancelSuperseded, Announce,
     RequestFails, Beside, history
<1>13. CASE StopServer \/ Deliver \/ Edit \/ UNCHANGED vars
  BY <1>3, <1>13, Zenon DEF StopServer, Deliver, Edit, vars, history
<1> QED
  BY <1>4, <1>5, <1>6, <1>7, <1>8, <1>9, <1>10, <1>11, <1>12, <1>13 DEF Next, WorkerStep, OtherCall

\* While the server stops, only a failing call moves the worker on.
LEMMA CutOffStep ==
    ASSUME IngestInv, CutOff, [Next]_vars
    PROVE  CutOff'
<1>1. ASSUME UNCHANGED <<worker, stopping, cut>> PROVE CutOff'
  BY <1>1 DEF CutOff
<1>2. CASE FileStep
  BY <1>2, FileStepEffect DEF CutOff
<1>3. CASE ~stopping /\ (ChooseTrip \/ OtherCall)
  <2>1. stopping' = stopping
    BY <1>3, LookupEffect, ProposeEffect, ChooseEffect, CreateEffect, FileEffect, SeatEffect, LogEffect, ReplyEffect, TablesStep
    DEF OtherCall, Unmoved
  <2> QED
    BY <1>3, <2>1 DEF CutOff
<1>4. CASE CallFails
  <2>1. UNCHANGED <<stopping, cut>>
    BY <1>4, FailEffect
  <2>2. CASE Leave
    BY <2>2 DEF Leave, AtRest, CutOff
  <2>3. CASE SameMail /\ (worker.at = "reject" => worker'.at = "rename") /\ worker.at \in Calls \ {"lookup"}
    BY <2>1, <2>3 DEF SameMail, CutOff, Calls
  <2> QED
    BY <1>4, <2>2, <2>3, FailEffect DEF Goes, Moves, Busy, Calls
<1>5. CASE StopServer
  <2>1. worker.mail \in Mails \/ worker.at \in {"rest", "next"}
    BY BusyMail
  <2> QED
    BY <1>5, <2>1 DEF StopServer, CutOff
<1>6. CASE Restart
  BY <1>6 DEF Restart, CutOff
<1>7. CASE DialogStep \/ RequestFails
  BY <1>1, <1>7, Zenon DEF DialogStep, Paste, Confirm, Dismissed, CommitPlan, CommitPassenger, CancelSuperseded, Announce,
     RequestFails, Beside, history
<1>8. CASE Deliver \/ Edit \/ UNCHANGED vars
  BY <1>1, <1>8, Zenon DEF Deliver, Edit, vars, history
<1> QED
  BY <1>2, <1>3, <1>4, <1>5, <1>6, <1>7, <1>8 DEF Next, WorkerStep

\* Two calls have the count; both are lost only to two failures, or to the stop.
LEMMA NotedStep ==
    ASSUME IngestInv, CutOff, Noted, [Next]_vars
    PROVE  Noted'
<1>0. failures \in Nat /\ failures' \in Nat /\ failures <= failures' /\ cut \subseteq cut'
  BY FaultsGrow DEF IngestInv, NotesInv
<1>1. ASSUME worker'.at \notin {"reply", "remove"} PROVE Noted'
  BY <1>1 DEF Noted
<1>2. ASSUME UNCHANGED <<worker, audit, reply>> PROVE Noted'
  BY <1>0, <1>2 DEF Noted
<1>3. CASE FileStep
  BY <1>1, <1>3, FileStepEffect
<1>4. CASE UserByVerifiedEmail \/ Propose \/ ChooseTrip \/ CreateTripForPlan
  BY <1>1, <1>4, LookupEffect, ProposeEffect, ChooseEffect, CreateEffect DEF Goes
<1>5. CASE FilePlan \/ SeatSender
  BY <1>1, <1>5, FileEffect, SeatEffect, TablesStep DEF Goes, Moves
<1>6. CASE LogIngest
  <2>1. CASE Goes("reply") /\ audit'[worker.mail].failed = worker.failed
    BY <2>1 DEF Noted, Goes, SameMail
  <2> QED
    BY <1>1, <1>6, <2>1, LogEffect DEF Goes
<1>7. CASE SendReply
  BY <1>7, ReplyEffect DEF Noted, Goes, SameMail
<1>8. CASE CallFails
  <2>1. UNCHANGED <<audit, reply>>
    BY <1>8, FailEffect DEF notes
  <2>2. failures' = failures + 1 \/ stopping
    BY <1>8, FailEffect
  <2>3. CASE Leave
    BY <1>1, <2>3 DEF Leave, AtRest
  <2>4. CASE worker.at = "log" /\ Goes("reply")
    BY <1>0, <2>2, <2>4 DEF Noted, CutOff, Goes, SameMail
  <2>5. CASE worker.at = "reply" /\ Goes("remove")
    BY <1>0, <2>1, <2>2, <2>5 DEF Noted, CutOff, Goes, SameMail
  <2> QED
    BY <1>1, <1>8, <2>3, <2>4, <2>5, FailEffect DEF Goes, Moves
<1>9. CASE Restart
  BY <1>1, <1>9 DEF Restart, AtRest
<1>10. CASE DialogStep \/ RequestFails
  BY <1>2, <1>10, Zenon DEF DialogStep, Paste, Confirm, Dismissed, CommitPlan, CommitPassenger, CancelSuperseded, Announce,
     RequestFails, Beside, notes
<1>11. CASE StopServer \/ Deliver \/ Edit \/ UNCHANGED vars
  BY <1>2, <1>11, Zenon DEF StopServer, Deliver, Edit, vars, notes
<1> QED
  BY <1>3, <1>4, <1>5, <1>6, <1>7, <1>8, <1>9, <1>10, <1>11 DEF Next, WorkerStep, OtherCall

\* A message is done with only when the worker removes its file.
LEMMA DoneByRemoving ==
    ASSUME IngestInv, [Next]_vars, NEW m \in Mails, Done(m)'
    PROVE  Done(m) \/ (RemoveFile /\ m = worker.mail)
<1>1. CASE UNCHANGED <<coming, inbox, poison>>
  BY <1>1 DEF Done
<1>2. CASE MovePoison \/ RemoveFile \/ Deliver
  BY <1>2 DEF MovePoison, RemoveFile, Deliver, Done
<1>3. CASE ReadDir \/ DrainDone \/ ProcessOne \/ StopServer \/ Restart \/ Edit \/ UNCHANGED vars
  BY <1>1, <1>3, Zenon DEF ReadDir, DrainDone, ProcessOne, StopServer, Restart, Edit, vars, world
<1>4. CASE OtherCall \/ ChooseTrip
  BY <1>1, <1>4, LookupEffect, ProposeEffect, ChooseEffect, CreateEffect, FileEffect, SeatEffect, LogEffect, ReplyEffect, TablesStep
  DEF OtherCall, Unmoved
<1>5. CASE CallFails
  BY <1>1, <1>5, FailEffect
<1>6. CASE DialogStep \/ RequestFails
  BY <1>1, <1>6, Zenon DEF DialogStep, Paste, Confirm, Dismissed, CommitPlan, CommitPassenger, CancelSuperseded, Announce,
     RequestFails, Beside
<1> QED
  BY <1>2, <1>3, <1>4, <1>5, <1>6 DEF Next, WorkerStep, FileStep

\* So a message is removed with its flights counted, and nothing touches its counts after.
LEMMA FlightsStep ==
    ASSUME IngestInv, CountInv, [Next]_vars
    PROVE  FlightsAccounted'
<1> SUFFICES ASSUME NEW m \in Mails, Done(m)', failures' <= 1, m \notin cut'
             PROVE  Cardinality(Missing(m)') \in {audit'[m].failed, reply'[m].failed}
  BY Zenon DEF FlightsAccounted
<1>1. failures \in Nat /\ failures <= 1 /\ m \notin cut
  BY FaultsGrow DEF IngestInv, NotesInv
<1>2. CASE RemoveFile /\ m = worker.mail
  <2>1. worker.at = "remove" /\ UNCHANGED <<read, seated, audit, reply>>
    BY <1>2, Zenon DEF RemoveFile, At, notes, history
  <2>2. worker.failed = Cardinality(Missing(m))
    BY <1>2, <2>1 DEF CountInv, Counted, Ending
  <2>3. Missing(m)' = Missing(m)
    BY <2>1 DEF Missing
  <2>4. audit[m].failed = worker.failed \/ reply[m].failed = worker.failed
    BY <1>1, <1>2, <2>1 DEF CountInv, Noted
  <2> QED
    BY <2>1, <2>2, <2>3, <2>4
<1>3. CASE Done(m)
  <2>1. m # worker.mail
    BY <1>3, IngestionAssumption DEF Done, IngestInv, FilesInv
  <2>2. Cardinality(Missing(m)) \in {audit[m].failed, reply[m].failed}
    BY <1>1, <1>3, Zenon DEF CountInv, FlightsAccounted
  <2> QED
    BY <2>1, <2>2, OthersKept
<1> QED
  BY <1>2, <1>3, DoneByRemoving

LEMMA CountStep ==
    ASSUME IngestInv, CountInv, [Next]_vars
    PROVE  CountInv'
  BY CountedStep, NotedStep, CutOffStep, FlightsStep DEF CountInv

-----------------------------------------------------------------------------
(* Cancelled                                                                 *)

\* The part the request at work is to replace, for the row it has just made.
Pending(i, r) == dialog.at \in {"seat", "cancel"} /\ i = Last(dialog.made) /\ r = Replaced

LEMMA StopsGrow ==
    ASSUME IngestInv, [Next]_vars, stopping => stops >= 1
    PROVE  stops <= stops' /\ (stopping' => stops' >= 1)
<1>0. stops \in Nat
  BY DEF IngestInv, NotesInv
<1>1. CASE UNCHANGED <<stops, stopping>>
  BY <1>0, <1>1
<1>2. CASE FileStep
  BY <1>1, <1>2, FileStepEffect DEF bounds
<1>3. CASE OtherCall \/ ChooseTrip
  BY <1>1, <1>3, LookupEffect, ProposeEffect, ChooseEffect, CreateEffect, FileEffect, SeatEffect, LogEffect, ReplyEffect, TablesStep
  DEF OtherCall, Unmoved, bounds
<1>4. CASE CallFails
  BY <1>1, <1>4, FailEffect
<1>5. CASE StopServer \/ Restart
  BY <1>0, <1>5 DEF StopServer, Restart
<1>6. CASE DialogStep \/ RequestFails \/ Deliver \/ Edit \/ UNCHANGED vars
  BY <1>1, <1>6, Zenon DEF DialogStep, Paste, Confirm, Dismissed, CommitPlan, CommitPassenger, CancelSuperseded, Announce,
     RequestFails, Deliver, Edit, vars, Beside, bounds
<1> QED
  BY <1>2, <1>3, <1>4, <1>5, <1>6 DEF Next, WorkerStep

\* A part once cancelled, or gone, stays so; a part replaced that is neither is at the request's hands.
LEMMA SupersededStays ==
    ASSUME IngestInv, [Next]_vars, NEW i, NEW r, Refers(r), Superseded(i, r), Pending(i, r) => Superseded(i, r)'
    PROVE  Superseded(i, r)'
<1>1. Keeps
  BY TablesStep
<1>2. CASE r = NoPart
  BY <1>2 DEF Superseded
<1>3. CASE r # NoPart /\ ~PartLives(r)
  BY <1>1, <1>3 DEF Superseded, PartLives, Refers, Keeps
<1>4. CASE r # NoPart /\ Part(r).cancelled
  BY <1>1, <1>4 DEF Superseded, Part, Refers, Keeps
<1> QED
  BY <1>2, <1>3, <1>4 DEF Superseded, Pending

\* The dialog and the faults are as they were, or the request moves on as it should.
LEMMA PendingStays ==
    ASSUME IngestInv, [Next]_vars, failures' = 0, stops' = 0, CancelInv,
           NEW i \in DOMAIN plan, plan'[i].live, NEW r, Pending(i, r), Refers(r)
    PROVE  Superseded(i, r)'
<1>1. failures = 0 /\ stops = 0 /\ ~stopping
  BY FaultsGrow, StopsGrow DEF CancelInv, IngestInv, NotesInv
<1>2. CASE UNCHANGED dialog
  BY <1>2 DEF Superseded, Pending, Replaced
<1>3. CASE CommitPassenger
  <2>1. PlanLives(i) /\ PlanLives(Last(dialog.made))
    BY TablesStep DEF Keeps, PlanLives, Pending
  <2>2. dialog' = IF Replaced # NoPart THEN [dialog EXCEPT !.at = "cancel"] ELSE AfterPlan
    BY <1>3, <2>1 DEF CommitPassenger
  <2>3. CASE Replaced = NoPart
    BY <2>3 DEF Superseded, Pending
  <2>4. CASE Replaced # NoPart
    <3>1. dialog'.at = "cancel" /\ dialog'.made = dialog.made /\ dialog'.replaces = dialog.replaces /\ dialog'.nth = dialog.nth
      BY <2>2, <2>4 DEF IngestInv, DialogInv, Closed
    <3> QED
      BY <3>1 DEF Superseded, Pending, Replaced
  <2> QED
    BY <2>3, <2>4
<1>4. CASE CancelSuperseded
  <2>1. PICK id : id = Replaced
    OBVIOUS
  <2>2. CASE PartLives(Replaced)
    <3>1. id # NoPart => id[1] \in DOMAIN plan /\ id[2] \in DOMAIN plan[id[1]].parts
      BY <2>1 DEF Pending, Refers
    <3>2. plan' = [plan EXCEPT ![id[1]].parts[id[2]].cancelled = TRUE] /\ UNCHANGED <<trip, verified>>
      BY <1>4, <2>1, <2>2 DEF CancelSuperseded, Beside
    <3>3. id # NoPart => plan'[id[1]].parts[id[2]].cancelled
      BY <3>1, <3>2, PartCancelled DEF IngestInv
    <3> QED
      BY <2>1, <3>3 DEF Superseded, Part, Pending
  <2>3. CASE ~PartLives(Replaced)
    <3>1. UNCHANGED plan
      BY <1>4, <2>3 DEF CancelSuperseded
    <3> QED
      BY <2>3, <3>1 DEF Superseded, Pending, PartLives
  <2> QED
    BY <2>2, <2>3
<1>5. CASE Paste \/ Confirm \/ Dismissed \/ CommitPlan \/ Announce
  BY <1>5 DEF Paste, Confirm, Dismissed, CommitPlan, Announce, D, Pending
<1>6. ~RequestFails /\ ~Restart
  <2>1. RequestFails => failures' = failures + 1
    BY <1>1, Zenon DEF RequestFails
  <2>2. Restart => stops' = stops + 1
    BY <1>1, Zenon DEF Restart
  <2> QED
    BY <1>1, <2>1, <2>2
<1>7. CASE FileStep
  BY <1>2, <1>7, FileStepEffect
<1>8. CASE OtherCall \/ ChooseTrip
  BY <1>2, <1>8, LookupEffect, ProposeEffect, ChooseEffect, CreateEffect, FileEffect, SeatEffect, LogEffect, ReplyEffect, TablesStep
  DEF OtherCall, Unmoved
<1>9. CASE CallFails
  BY <1>2, <1>9, FailEffect
<1>10. CASE StopServer \/ Deliver \/ Edit \/ UNCHANGED vars
  BY <1>2, <1>10, Zenon DEF StopServer, Deliver, Edit, vars
<1> QED
  BY <1>3, <1>4, <1>5, <1>6, <1>7, <1>8, <1>9, <1>10 DEF Next, WorkerStep, DialogStep

\* Old rows are as before; a new one replaces nothing, or what its request goes on to cancel.
LEMMA CancelStep ==
    ASSUME IngestInv, CancelInv, [Next]_vars
    PROVE  CancelInv'
<1>1. stops <= stops' /\ (stopping' => stops' >= 1)
  BY StopsGrow DEF CancelInv
<1>2. SUFFICES ASSUME failures' = 0, stops' = 0
               PROVE  \A i \in DOMAIN plan' : plan'[i].live =>
                        \A k \in DOMAIN plan'[i].parts : Superseded(i, plan[i].parts[k].replaces)'
  BY <1>1, Zenon DEF CancelInv
<1>3. failures = 0 /\ stops = 0
  BY <1>1, <1>2, FaultsGrow DEF IngestInv, NotesInv
<1>4. ASSUME NEW i \in DOMAIN plan, plan'[i].live, NEW k \in DOMAIN plan'[i].parts
      PROVE  Superseded(i, plan[i].parts[k].replaces)'
  <2>1. /\ plan[i].live /\ k \in DOMAIN plan[i].parts
        /\ plan'[i].parts[k].replaces = plan[i].parts[k].replaces
    BY <1>4, TablesStep DEF Keeps
  <2>2. PICK r : r = plan[i].parts[k].replaces
    OBVIOUS
  <2>3. Refers(r)
    BY <2>1, <2>2 DEF IngestInv, TablesInv, RowOK
  <2>4. Superseded(i, r)
    BY <1>3, <2>1, <2>2 DEF CancelInv
  <2>5. Superseded(i, r)'
    BY <1>2, <1>4, <2>3, <2>4, PendingStays, SupersededStays
  <2> QED
    BY <2>1, <2>2, <2>5 DEF Superseded, PartLives, Part
<1>5. CASE DOMAIN plan' = DOMAIN plan
  BY <1>4, <1>5
<1>6. CASE FilePlan /\ DOMAIN plan' # DOMAIN plan
  <2>1. PICK n : /\ n \notin DOMAIN plan /\ DOMAIN plan' = DOMAIN plan \cup {n}
                 /\ \A k \in DOMAIN plan'[n].parts : plan'[n].parts[k].replaces = NoPart
    BY <1>6, FileNew
  <2>2. \A k \in DOMAIN plan'[n].parts : Superseded(n, plan[n].parts[k].replaces)'
    BY <2>1 DEF Superseded
  <2> QED
    BY <1>4, <2>1, <2>2
<1>7. CASE CommitPlan /\ DOMAIN plan' # DOMAIN plan
  <2>1. PICK n : /\ n \notin DOMAIN plan /\ DOMAIN plan' = DOMAIN plan \cup {n}
                 /\ \A k \in DOMAIN plan'[n].parts : plan'[n].parts[k].replaces \in {NoPart, Replaced}
                 /\ n = Last(dialog'.made) /\ dialog'.at = "seat"
                 /\ dialog'.replaces = dialog.replaces /\ dialog'.nth = dialog.nth
    BY <1>7, CommitNew
  <2>2. Replaced' = Replaced
    BY <2>1 DEF Replaced
  <2>3. \A k \in DOMAIN plan'[n].parts : Superseded(n, plan[n].parts[k].replaces)'
    BY <2>1, <2>2 DEF Superseded
  <2> QED
    BY <1>4, <2>1, <2>3
<1> QED
  BY <1>5, <1>6, <1>7, TablesStep

-----------------------------------------------------------------------------
(* The start                                                                 *)

LEMMA FiledInit == Init => FiledInv
<1> SUFFICES ASSUME Init PROVE FiledInv
  OBVIOUS
<1>1. PICK s \in Seeds : plan = s.plan
  BY DEF Init
<1>2. s.plan \in Seq(Plans)
  BY SeedsAssumption DEF Databases
<1>3. \A i \in DOMAIN plan : plan[i].source = <<NoMail, 0>>
  <2>1. \A i \in DOMAIN plan : plan[i] \in Plans
    BY <1>1, <1>2
  <2>2. \A row \in Plans : row.source = <<NoMail, 0>>
    BY DEF Plans
  <2> QED
    BY <2>1, <2>2
<1> QED
  BY <1>3 DEF FiledInv, FiledOnce, Accounted

LEMMA CountInit == Init => CountInv
<1> SUFFICES ASSUME Init PROVE CountInv
  OBVIOUS
<1>1. Counted /\ Noted /\ CutOff
  BY DEF Init, Counted, Noted, CutOff, AtRest, Busy, Ending
<1>2. \A m \in Mails : Missing(m) = {} /\ audit[m].failed = 0
  BY DEF Init, Missing, NoNote
<1> QED
  BY <1>1, <1>2, FS_EmptySet DEF CountInv, FlightsAccounted

LEMMA CancelInit == Init => CancelInv
<1> SUFFICES ASSUME Init PROVE CancelInv
  OBVIOUS
<1>1. PICK s \in Seeds : plan = s.plan
  BY DEF Init
<1>2. \A i \in DOMAIN plan : \A k \in DOMAIN plan[i].parts : Replaces(s, plan[i].parts[k].replaces)
  BY <1>1, SeedsAssumption
<1>3. \A i \in DOMAIN plan : \A k \in DOMAIN plan[i].parts : Superseded(i, plan[i].parts[k].replaces)
  BY <1>1, <1>2 DEF Replaces, Superseded, Part
<1> QED
  BY <1>3 DEF CancelInv, Init

-----------------------------------------------------------------------------
(* The best trip                                                             *)

\* Trips listed are there and have their days; bookings have instants, in the rows, in what was
\* read out of a message and in what the dialog shows.
RecentOK == recent \in Seq(DOMAIN trip)
DaysOK == \A t \in DOMAIN trip : trip[t].on \in Int /\ trip[t].off \in Int
RowsDated == \A i \in DOMAIN plan : DatedParts(plan[i].parts)
ReadDated == \A m \in Mails : DatedProposals(read[m])
OfferDated == DatedProposals(dialog.plans)
DatesInv == RecentOK /\ DaysOK /\ RowsDated /\ ReadDated /\ OfferDated

\* Of the same length and at the same instants.
SameInstants(parts, new) ==
    /\ new = [k \in DOMAIN parts |-> new[k]]
    /\ \A k \in DOMAIN parts : new[k].start = parts[k].start /\ new[k].end = parts[k].end

LEMMA StillDated ==
    ASSUME NEW parts, DatedParts(parts), NEW new, SameInstants(parts, new)
    PROVE  DatedParts(new)
<1>1. IsList(parts) /\ new = [k \in DOMAIN parts |-> new[k]]
  BY DEF DatedParts, IsList, SameInstants
<1>2. IsList(new) /\ DOMAIN new = DOMAIN parts
  BY <1>1, Relisted
<1>3. \A k \in DOMAIN new : Dated(new[k])
  BY <1>2 DEF DatedParts, Dated, SameInstants
<1> QED
  BY <1>2, <1>3 DEF DatedParts, IsList

\* A new row has the instants of its booking.
LEMMA RowDated ==
    ASSUME NEW p, DatedParts(p.parts), NEW t, NEW u, NEW source, NEW replaces
    PROVE  DatedParts(Row(p, t, u, source, replaces).parts)
<1> DEFINE made(k) == [start |-> p.parts[k].start, end |-> p.parts[k].end, flight |-> p.parts[k].flight,
                       cancelled |-> FALSE, dismissed |-> FALSE,
                       replaces |-> IF Len(p.parts) = 1 THEN replaces ELSE NoPart]
           new == Row(p, t, u, source, replaces).parts
<1>1. new = [k \in DOMAIN p.parts |-> made(k)]
  BY DEF Row
<1>2. \A k : made(k).start = p.parts[k].start /\ made(k).end = p.parts[k].end
  OBVIOUS
<1> HIDE DEF made, new
<1>3. SameInstants(p.parts, new)
  BY <1>1, <1>2 DEF SameInstants
<1>4. DatedParts(new)
  BY <1>3, StillDated
<1> QED
  BY <1>4 DEF new

LEMMA NewRowDated ==
    ASSUME IngestInv, RowsDated, NEW p, DatedParts(p.parts), NEW t, NEW u, NEW source, NEW replaces,
           CreatePlan(p, t, u, source, replaces)
    PROVE  RowsDated'
<1>1. PICK r : r = Row(p, t, u, source, replaces) /\ plan' = Append(plan, r)
  BY DEF CreatePlan
<1>2. DatedParts(r.parts)
  BY <1>1, RowDated
<1>3. /\ DOMAIN plan = 1..Len(plan) /\ DOMAIN plan' = 1..(Len(plan) + 1) /\ Len(plan) \in Nat
      /\ \A i \in DOMAIN plan : plan'[i] = plan[i]
      /\ plan'[Len(plan) + 1] = r
  BY <1>1, Appended, ListDomain DEF IngestInv, TablesInv
<1>4. ASSUME NEW i \in DOMAIN plan' PROVE DatedParts(plan'[i].parts)
  <2>1. i \in DOMAIN plan \/ i = Len(plan) + 1
    BY <1>3
  <2> QED
    BY <1>2, <1>3, <2>1 DEF RowsDated
<1> QED
  BY <1>4 DEF RowsDated

\* The steps that rewrite rows leave their instants alone.
LEMMA RowsStillDated ==
    ASSUME RowsDated, DOMAIN plan' = DOMAIN plan,
           \A i \in DOMAIN plan : plan'[i].parts = plan[i].parts \/ SameInstants(plan[i].parts, plan'[i].parts)
    PROVE  RowsDated'
<1>1. ASSUME NEW i \in DOMAIN plan PROVE DatedParts(plan'[i].parts)
  <2>1. DatedParts(plan[i].parts)
    BY DEF RowsDated
  <2> QED
    BY <2>1, StillDated
<1> QED
  BY <1>1 DEF RowsDated

LEMMA FlagSet ==
    ASSUME IngestInv, NEW i \in DOMAIN plan, NEW k,
           \/ plan' = [plan EXCEPT ![i].parts[k].cancelled = TRUE]
           \/ plan' = [plan EXCEPT ![i].parts[k].dismissed = TRUE]
    PROVE  \A j \in DOMAIN plan : plan'[j].parts = plan[j].parts \/ SameInstants(plan[j].parts, plan'[j].parts)
<1>1. RowOK(i)
  BY DEF IngestInv, TablesInv
<1>2. \A j \in DOMAIN plan \ {i} : plan'[j] = plan[j]
  OBVIOUS
<1>3. /\ plan'[i].parts = [l \in DOMAIN plan[i].parts |-> plan'[i].parts[l]]
      /\ \A l \in DOMAIN plan[i].parts : /\ plan'[i].parts[l].start = plan[i].parts[l].start
                                         /\ plan'[i].parts[l].end = plan[i].parts[l].end
  BY <1>1 DEF RowOK, RowFields, PartFields
<1>4. SameInstants(plan[i].parts, plan'[i].parts)
  BY <1>3 DEF SameInstants
<1> QED
  BY <1>2, <1>4

\* AddPlanPassenger changes neither the days of trips nor the instants of rows.
LEMMA PassengerDates ==
    ASSUME IngestInv, RecentOK, DaysOK, RowsDated, NEW i \in DOMAIN plan, NEW u, AddPlanPassenger(i, u), UNCHANGED recent
    PROVE  RecentOK' /\ DaysOK' /\ RowsDated'
<1>1. PICK t : t = plan[i].trip
  OBVIOUS
<1>2. RowOK(i) /\ TripOK(t) /\ t \in DOMAIN trip
  BY <1>1 DEF IngestInv, TablesInv, RowOK
<1>3. /\ plan' = [plan EXCEPT ![i].pax = @ \cup {u}]
      /\ trip' = [trip EXCEPT ![t].members = @ \cup {u}]
  BY <1>1 DEF AddPlanPassenger
<1>4. DOMAIN plan' = DOMAIN plan /\ \A j \in DOMAIN plan : plan'[j].parts = plan[j].parts
  BY <1>2, <1>3 DEF RowOK, RowFields
<1>5. DOMAIN trip' = DOMAIN trip /\ \A s \in DOMAIN trip : trip'[s].on = trip[s].on /\ trip'[s].off = trip[s].off
  BY <1>2, <1>3 DEF TripOK
<1>6. RowsDated'
  BY <1>4, RowsStillDated
<1> QED
  BY <1>5, <1>6 DEF RecentOK, DaysOK

\* The day of an instant.
LEMMA NewTripDays ==
    ASSUME NEW u, NEW span \in Spans
    PROVE  NewTrip(u, span).on \in Int /\ NewTrip(u, span).off \in Int
<1>1. span.start \in Int /\ span.end \in Int
  BY DEF Spans
<1>2. \A x \in Int : DateOf(x) \in Int
  <2>1. \A x \in Int : x \div 24 \in Int
    OBVIOUS
  <2> QED
    BY <2>1 DEF DateOf, Zero, Blank
<1> QED
  BY <1>1, <1>2 DEF NewTrip

LEMMA CreateDates ==
    ASSUME IngestInv, RecentOK, DaysOK, NEW u, NEW span \in Spans,
           trip' = Append(trip, NewTrip(u, span)), recent' = <<Len(trip')>> \o recent
    PROVE  RecentOK' /\ DaysOK'
<1>1. PICK new : new = NewTrip(u, span) /\ trip' = Append(trip, new)
  OBVIOUS
<1>2. new.on \in Int /\ new.off \in Int
  BY <1>1, NewTripDays
<1>3. /\ DOMAIN trip = 1..Len(trip) /\ DOMAIN trip' = 1..(Len(trip) + 1) /\ Len(trip) \in Nat /\ Len(trip') = Len(trip) + 1
      /\ \A t \in DOMAIN trip : trip'[t] = trip[t]
      /\ trip'[Len(trip) + 1] = new
  BY <1>1, Appended, ListDomain DEF IngestInv, TablesInv
<1>4. DaysOK'
  BY <1>2, <1>3 DEF DaysOK
<1>5. RecentOK'
  <2> DEFINE T == DOMAIN trip'
  <2>1. DOMAIN trip \subseteq T /\ Len(trip') \in T
    BY <1>3
  <2> HIDE DEF T
  <2>2. recent \in Seq(T) /\ <<Len(trip')>> \in Seq(T)
    BY <2>1 DEF RecentOK
  <2>3. recent' \in Seq(T)
    BY <2>2
  <2> QED
    BY <2>3 DEF RecentOK, T
<1> QED
  BY <1>4, <1>5

LEMMA EditDates ==
    ASSUME IngestInv, RecentOK, DaysOK, RowsDated, Edit
    PROVE  RecentOK' /\ DaysOK' /\ RowsDated'
<1>1. ASSUME UNCHANGED plan PROVE RowsDated'
  BY <1>1 DEF RowsDated
<1>2. ASSUME UNCHANGED trip PROVE DaysOK'
  BY <1>2 DEF DaysOK
<1>3. CASE \E t \in DOMAIN trip : /\ trip' = [trip EXCEPT ![t].live = FALSE]
                                  /\ plan' = [i \in DOMAIN plan |-> [plan[i] EXCEPT !.live = @ /\ plan[i].trip # t]]
                                  /\ UNCHANGED recent
  <2>1. PICK t \in DOMAIN trip : /\ trip' = [trip EXCEPT ![t].live = FALSE]
                                 /\ plan' = [i \in DOMAIN plan |-> [plan[i] EXCEPT !.live = @ /\ plan[i].trip # t]]
                                 /\ UNCHANGED recent
    BY <1>3
  <2>2. TripOK(t)
    BY DEF IngestInv, TablesInv
  <2>3. DOMAIN trip' = DOMAIN trip /\ \A s \in DOMAIN trip : trip'[s].on = trip[s].on /\ trip'[s].off = trip[s].off
    BY <2>1, <2>2 DEF TripOK
  <2>4. ASSUME NEW i \in DOMAIN plan PROVE plan'[i].parts = plan[i].parts
    <3>1. RowOK(i)
      BY DEF IngestInv, TablesInv
    <3>2. plan'[i] = [plan[i] EXCEPT !.live = plan[i].live /\ plan[i].trip # t]
      BY <2>1
    <3> QED
      BY <3>1, <3>2 DEF RowOK, RowFields
  <2>5. RowsDated'
    BY <2>1, <2>4, RowsStillDated
  <2> QED
    BY <2>1, <2>3, <2>5 DEF RecentOK, DaysOK
<1>4. CASE \E t \in DOMAIN trip : recent' = <<t>> \o Only(recent, DOMAIN trip \ {t}) /\ UNCHANGED <<trip, plan>>
  <2>1. PICK t \in DOMAIN trip : recent' = <<t>> \o Only(recent, DOMAIN trip \ {t}) /\ UNCHANGED <<trip, plan>>
    BY <1>4
  <2> DEFINE T == DOMAIN trip
  <2>2. Only(recent, T \ {t}) \in Seq(T \cap (T \ {t}))
    BY OnlyType DEF RecentOK
  <2>3. Only(recent, T \ {t}) \in Seq(T) /\ <<t>> \in Seq(T)
    BY <2>2
  <2>4. recent' \in Seq(T)
    <3> HIDE DEF T
    <3> QED
      BY <2>1, <2>3 DEF T
  <2> QED
    BY <1>1, <1>2, <2>1, <2>4 DEF RecentOK
<1>5. CASE \E i \in DOMAIN plan : /\ \/ plan' = [plan EXCEPT ![i].live = FALSE]
                                     \/ plan' = [plan EXCEPT ![i].parts[1].dismissed = TRUE]
                                  /\ UNCHANGED <<trip, recent>>
  <2>1. PICK i \in DOMAIN plan : /\ \/ plan' = [plan EXCEPT ![i].live = FALSE]
                                    \/ plan' = [plan EXCEPT ![i].parts[1].dismissed = TRUE]
                                 /\ UNCHANGED <<trip, recent>>
    BY <1>5
  <2>2. CASE plan' = [plan EXCEPT ![i].live = FALSE]
    <3>1. RowOK(i)
      BY DEF IngestInv, TablesInv
    <3>2. DOMAIN plan' = DOMAIN plan /\ \A j \in DOMAIN plan : plan'[j].parts = plan[j].parts
      BY <2>2, <3>1 DEF RowOK, RowFields
    <3> QED
      BY <1>2, <2>1, <3>2, RowsStillDated DEF RecentOK
  <2>3. CASE plan' = [plan EXCEPT ![i].parts[1].dismissed = TRUE]
    <3>1. DOMAIN plan' = DOMAIN plan
      BY <2>3
    <3> QED
      BY <1>2, <2>1, <2>3, <3>1, FlagSet, RowsStillDated DEF RecentOK
  <2> QED
    BY <2>1, <2>2, <2>3
<1>6. CASE UNCHANGED <<trip, recent, plan>>
  BY <1>1, <1>2, <1>6 DEF RecentOK
<1> QED
  BY <1>3, <1>4, <1>5, <1>6, Zenon DEF Edit

\* What the worker files, and what the dialog commits, has instants.
LEMMA AtWorkDated ==
    ASSUME IngestInv, DatesInv
    PROVE  /\ worker.at \in Busy => DatedParts(Proposal.parts)
           /\ dialog.at = "file" => DatedParts(Offer.parts)
<1>1. ASSUME worker.at \in Busy PROVE DatedParts(Proposal.parts)
  <2>1. worker.mail \in Mails /\ worker.plans = read[worker.mail] /\ worker.nth \in 1..Len(worker.plans)
    BY <1>1, BusyMail DEF IngestInv, WorkerInv, Busy
  <2>2. worker.nth \in DOMAIN read[worker.mail]
    BY <2>1, ListDomain DEF IngestInv, NotesInv
  <2> QED
    BY <2>1, <2>2 DEF DatesInv, ReadDated, DatedProposals, Proposal
<1>2. ASSUME dialog.at = "file" PROVE DatedParts(Offer.parts)
  <2>1. dialog.nth \in DOMAIN dialog.plans
    BY <1>2, ListDomain DEF IngestInv, DialogInv
  <2> QED
    BY <2>1 DEF DatesInv, OfferDated, DatedProposals, Offer
<1> QED
  BY <1>1, <1>2

LEMMA TableDatesStep ==
    ASSUME IngestInv, DatesInv, [Next]_vars
    PROVE  RecentOK' /\ DaysOK' /\ RowsDated'
<1> USE DEF DatesInv
<1>1. ASSUME UNCHANGED <<trip, recent>> PROVE RecentOK' /\ DaysOK'
  BY <1>1 DEF RecentOK, DaysOK
<1>2. ASSUME UNCHANGED plan PROVE RowsDated'
  BY <1>2 DEF RowsDated
<1>3. CASE CreateTripForPlan
  <2>1. worker.at \in Busy
    BY <1>3 DEF CreateTripForPlan, At, Busy
  <2>2. PlanSpan(Proposal.parts) \in Spans
    BY <2>1, AtWorkDated, PlanSpanType
  <2>3. /\ trip' = Append(trip, NewTrip(worker.user, PlanSpan(Proposal.parts)))
        /\ recent' = <<Len(trip')>> \o recent
        /\ UNCHANGED plan
    BY <1>3, Zenon DEF CreateTripForPlan
  <2> QED
    BY <1>2, <2>2, <2>3, CreateDates
<1>4. CASE FilePlan
  <2>1. worker.at \in Busy /\ UNCHANGED <<trip, recent>>
    BY <1>4 DEF FilePlan, At, Busy
  <2>2. RowsDated'
    BY <1>2, <1>4, <2>1, AtWorkDated, NewRowDated DEF FilePlan
  <2> QED
    BY <1>1, <2>1, <2>2
<1>5. CASE SeatSender
  <2>1. worker.row \in DOMAIN plan /\ UNCHANGED recent
    BY <1>5 DEF SeatSender, At, IngestInv, WorkerInv
  <2>2. UNCHANGED <<plan, trip>> \/ AddPlanPassenger(worker.row, worker.user)
    BY <1>5, Zenon DEF SeatSender
  <2> QED
    BY <1>1, <1>2, <2>1, <2>2, PassengerDates
<1>6. CASE CommitPlan
  <2>1. dialog.at = "file" /\ UNCHANGED <<trip, recent>>
    BY <1>6 DEF CommitPlan, Beside, D
  <2>2. RowsDated'
    BY <1>2, <1>6, <2>1, AtWorkDated, NewRowDated DEF CommitPlan
  <2> QED
    BY <1>1, <2>1, <2>2
<1>7. CASE CommitPassenger
  <2>1. Last(dialog.made) \in DOMAIN plan /\ UNCHANGED recent
    BY <1>7 DEF CommitPassenger, Beside, D, IngestInv, DialogInv
  <2>2. UNCHANGED <<plan, trip>> \/ AddPlanPassenger(Last(dialog.made), dialog.user)
    BY <1>7, Zenon DEF CommitPassenger
  <2> QED
    BY <1>1, <1>2, <2>1, <2>2, PassengerDates
<1>8. CASE CancelSuperseded
  <2>1. UNCHANGED <<trip, recent>> /\ dialog.at = "cancel"
    BY <1>8 DEF CancelSuperseded, Beside, D
  <2>2. Replaced[1] \in DOMAIN plan
    BY <2>1, ReplacedRefers DEF IngestInv, DialogInv, Refers
  <2>3. CASE plan' = [plan EXCEPT ![Replaced[1]].parts[Replaced[2]].cancelled = TRUE]
    <3>1. DOMAIN plan' = DOMAIN plan
      BY <2>3
    <3>2. RowsDated'
      BY <2>2, <2>3, <3>1, FlagSet, RowsStillDated
    <3> QED
      BY <1>1, <2>1, <3>2
  <2> QED
    BY <1>1, <1>2, <1>8, <2>1, <2>3 DEF CancelSuperseded
<1>9. CASE Edit
  BY <1>9, EditDates
<1>10. CASE UNCHANGED <<trip, recent, plan>>
  BY <1>1, <1>2, <1>10
<1>11. UNCHANGED <<trip, recent, plan>> \/ CreateTripForPlan \/ FilePlan \/ SeatSender \/ CommitPlan \/ CommitPassenger
       \/ CancelSuperseded \/ Edit
  <2>1. CASE FileStep
    BY <2>1 DEF FileStep, ReadDir, DrainDone, ProcessOne, RemoveFile, MovePoison, world
  <2>2. CASE UserByVerifiedEmail \/ Propose \/ ChooseTrip \/ LogIngest \/ SendReply
    BY <2>2, Zenon DEF UserByVerifiedEmail, Propose, ChooseTrip, Chosen, LogIngest, SendReply, world
  <2>3. CASE CallFails \/ StopServer \/ Restart
    BY <2>3, Zenon DEF CallFails, StopServer, Restart, world
  <2>4. CASE Paste \/ Confirm \/ Dismissed \/ Announce \/ RequestFails
    BY <2>4, Zenon DEF Paste, Confirm, Dismissed, Announce, RequestFails, Beside
  <2>5. CASE Deliver \/ UNCHANGED vars
    BY <2>5, Zenon DEF Deliver, vars, world
  <2> QED
    BY <2>1, <2>2, <2>3, <2>4, <2>5 DEF Next, WorkerStep, OtherCall, DialogStep
<1> QED
  BY <1>3, <1>4, <1>5, <1>6, <1>7, <1>8, <1>9, <1>10, <1>11

LEMMA ReadDatesStep ==
    ASSUME IngestInv, DatesInv, [Next]_vars
    PROVE  ReadDated'
<1>1. ASSUME NEW m \in Mails PROVE DatedProposals(read'[m])
  <2>1. DatedProposals(read[m])
    BY DEF DatesInv, ReadDated
  <2>2. CASE m # worker.mail
    BY <2>1, <2>2, OthersKept
  <2>3. CASE Propose
    BY <2>1, <2>3, ProposeEffect DEF IngestInv, NotesInv
  <2>4. CASE UNCHANGED read
    BY <2>1, <2>4
  <2>5. Propose \/ UNCHANGED read
    <3>1. CASE FileStep
      BY <3>1 DEF FileStep, ReadDir, DrainDone, ProcessOne, RemoveFile, MovePoison, history
    <3>2. CASE UserByVerifiedEmail \/ ChooseTrip \/ CreateTripForPlan \/ FilePlan \/ SeatSender \/ LogIngest \/ SendReply
      BY <3>2, Zenon DEF UserByVerifiedEmail, ChooseTrip, Chosen, CreateTripForPlan, FilePlan, SeatSender, LogIngest, SendReply, history
    <3>3. CASE CallFails \/ StopServer \/ Restart
      BY <3>3, Zenon DEF CallFails, StopServer, Restart
    <3>4. CASE DialogStep \/ RequestFails
      BY <3>4, Zenon DEF DialogStep, Paste, Confirm, Dismissed, CommitPlan, CommitPassenger, CancelSuperseded, Announce,
         RequestFails, Beside, history
    <3>5. CASE Deliver \/ Edit \/ UNCHANGED vars
      BY <3>5, Zenon DEF Deliver, Edit, vars, history
    <3> QED
      BY <3>1, <3>2, <3>3, <3>4, <3>5 DEF Next, WorkerStep, OtherCall
  <2> QED
    BY <2>3, <2>4, <2>5
<1> QED
  BY <1>1 DEF ReadDated

LEMMA OfferDatesStep ==
    ASSUME IngestInv, DatesInv, [Next]_vars
    PROVE  OfferDated'
<1>0. DOMAIN dialog = DOMAIN Closed /\ DatedProposals(dialog.plans) /\ DatedProposals(Closed.plans)
  BY DEF IngestInv, DialogInv, DatesInv, OfferDated, DatedProposals, Closed
<1>1. CASE dialog'.plans = dialog.plans \/ dialog' = Closed
  BY <1>0, <1>1 DEF OfferDated
<1>2. CASE Paste
  BY <1>2, PasteDialog DEF OfferDated
<1>3. CASE Refused \/ dialog' = AfterPlan
  BY <1>0, <1>1, <1>3 DEF Refused, AfterPlan, Closed
<1>4. CASE Restart
  <2>1. dialog' = [dialog EXCEPT !.at = "shown", !.made = <<>>] \/ dialog' = Closed \/ dialog' = dialog
    BY <1>4, Zenon DEF Restart
  <2> QED
    BY <1>0, <1>1, <2>1 DEF Closed
<1>5. CASE Confirm \/ Dismissed \/ Announce \/ CommitPlan \/ CommitPassenger \/ CancelSuperseded \/ RequestFails
  BY <1>0, <1>1, <1>3, <1>5 DEF Confirm, Dismissed, Announce, CommitPlan, CommitPassenger, CancelSuperseded, RequestFails, Closed
<1>6. UNCHANGED dialog \/ DialogStep \/ RequestFails \/ Restart
  <2>1. CASE FileStep
    BY <2>1 DEF FileStep, ReadDir, DrainDone, ProcessOne, RemoveFile, MovePoison, Aside
  <2>2. CASE OtherCall \/ ChooseTrip
    BY <2>2, Zenon DEF OtherCall, ChooseTrip, Chosen, UserByVerifiedEmail, Propose, CreateTripForPlan, FilePlan, SeatSender,
       LogIngest, SendReply, Aside
  <2>3. CASE CallFails \/ StopServer \/ Deliver \/ Edit \/ UNCHANGED vars
    BY <2>3, Zenon DEF CallFails, StopServer, Deliver, Edit, vars
  <2> QED
    BY <2>1, <2>2, <2>3 DEF Next, WorkerStep
<1> QED
  BY <1>1, <1>2, <1>4, <1>5, <1>6 DEF DialogStep

LEMMA DatesStep ==
    ASSUME IngestInv, DatesInv, [Next]_vars
    PROVE  DatesInv'
  BY TableDatesStep, ReadDatesStep, OfferDatesStep DEF DatesInv

LEMMA DatesInit == Init => DatesInv
<1> SUFFICES ASSUME Init PROVE DatesInv
  OBVIOUS
<1>1. PICK s \in Seeds : verified = s.verified /\ trip = s.trip /\ recent = s.recent /\ plan = s.plan
  BY DEF Init
<1>2. s \in Databases /\ ToSet(recent) \subseteq DOMAIN trip
  BY <1>1, SeedsAssumption
<1>3. trip \in Seq(Trips) /\ plan \in Seq(Plans) /\ recent \in Seq(Nat)
  BY <1>1, <1>2 DEF Databases
<1>4. RecentOK
  <2>1. recent \in [1..Len(recent) -> DOMAIN trip] /\ Len(recent) \in Nat
    BY <1>2, <1>3 DEF ToSet
  <2> QED
    BY <2>1 DEF RecentOK
<1>5. ASSUME NEW t \in DOMAIN trip PROVE trip[t].on \in Int /\ trip[t].off \in Int
  <2>1. trip[t] \in Trips
    BY <1>3, LenProperties
  <2> QED
    BY <2>1 DEF Trips
<1>6. ASSUME NEW i \in DOMAIN plan PROVE DatedParts(plan[i].parts)
  <2>1. plan[i] \in Plans
    BY <1>3, LenProperties
  <2>2. PICK parts \in Seq(Parts) : parts = plan[i].parts
    BY <2>1 DEF Plans
  <2>3. \A k \in DOMAIN parts : Dated(parts[k])
    <3>1. \A k \in DOMAIN parts : parts[k] \in Parts
      BY LenProperties
    <3> QED
      BY <3>1 DEF Parts, Dated
  <2>4. parts \in Seq(ToSet(parts))
    BY LenProperties DEF ToSet
  <2> QED
    BY <2>2, <2>3, <2>4 DEF DatedParts
<1>7. ReadDated /\ OfferDated
  BY DEF Init, ReadDated, OfferDated, DatedProposals, Closed
<1> QED
  BY <1>4, <1>5, <1>6, <1>7 DEF DatesInv, DaysOK, RowsDated

\* The parts of a trip that are shown, plan by plan.
ShownLoop(t, f) == f = [n \in 0..Len(plan) |-> IF n = 0 THEN <<>> ELSE f[n - 1] \o Undismissed(n, t)]
Instants == {p \in UNION {ToSet(plan[i].parts) : i \in DOMAIN plan} : Dated(p)}

LEMMA UndismissedDated ==
    ASSUME RowsDated, NEW i \in DOMAIN plan, NEW t
    PROVE  Undismissed(i, t) \in Seq(Instants)
<1> DEFINE parts == plan[i].parts
           keep == {p \in ToSet(parts) : ~p.dismissed}
<1>1. DatedParts(parts)
  BY DEF RowsDated
<1>2. \A k \in DOMAIN parts : parts[k] \in Instants
  BY <1>1 DEF DatedParts, Instants, ToSet
<1>3. parts \in Seq(Instants)
  <2> HIDE DEF parts
  <2>1. parts \in [1..Len(parts) -> Instants] /\ Len(parts) \in Nat
    BY <1>1, <1>2 DEF DatedParts
  <2> QED
    BY <2>1
<1>4. Only(parts, keep) \in Seq(Instants)
  <2> HIDE DEF parts, keep
  <2>1. Only(parts, keep) \in Seq(Instants \cap keep)
    BY <1>3, OnlyType
  <2> QED
    BY <2>1
<1>5. <<>> \in Seq(Instants)
  OBVIOUS
<1> QED
  BY <1>4, <1>5 DEF Undismissed

LEMMA ShownLoopExists ==
    ASSUME IngestInv, RowsDated, NEW t
    PROVE  \E f : ShownLoop(t, f)
<1> DEFINE N == Len(plan)
           S == Seq(Instants)
           step == [n \in 1..N |-> [r \in S |-> r \o Undismissed(n, t)]]
<1>1. N \in Nat /\ DOMAIN plan = 1..N /\ <<>> \in S
  BY ListDomain DEF IngestInv, TablesInv
<1>2. step \in [1..N -> [S -> S]]
  <2>1. \A n \in 1..N : Undismissed(n, t) \in Seq(Instants)
    BY <1>1, UndismissedDated
  <2>2. \A n \in 1..N : \A r \in S : r \o Undismissed(n, t) \in S
    BY <2>1
  <2> HIDE DEF S
  <2> QED
    BY <2>2
<1>3. \E f \in [0..N -> S] : Comes(N, <<>>, step, f)
  <2> HIDE DEF step, N, S
  <2> QED
    BY <1>1, <1>2, Loop
<1>4. PICK f \in [0..N -> S] : Comes(N, <<>>, step, f)
  BY <1>3
<1>5. ASSUME NEW n \in 0..N PROVE f[n] = IF n = 0 THEN <<>> ELSE f[n - 1] \o Undismissed(n, t)
  <2>1. CASE n = 0
    BY <1>4, <2>1 DEF Comes
  <2>2. CASE n # 0
    <3>1. n \in 1..N /\ f[n - 1] \in S
      BY <2>2
    <3>2. f[n] = step[n][f[n - 1]]
      BY <1>4, <2>2 DEF Comes
    <3> QED
      BY <2>2, <3>1, <3>2
  <2> QED
    BY <2>1, <2>2
<1>6. f = [n \in 0..N |-> IF n = 0 THEN <<>> ELSE f[n - 1] \o Undismissed(n, t)]
  <2> HIDE DEF N, S
  <2> QED
    BY <1>5
<1> QED
  BY <1>6 DEF ShownLoop

LEMMA ShownDated ==
    ASSUME IngestInv, RowsDated, NEW t
    PROVE  DatedParts(Shown(t))
<1> DEFINE N == Len(plan)
           S == Seq(Instants)
<1>0. N \in Nat /\ DOMAIN plan = 1..N /\ \E f : ShownLoop(t, f)
  BY ListDomain, ShownLoopExists DEF IngestInv, TablesInv
<1>1. PICK f : ShownLoop(t, f) /\ Shown(t) = f[N]
  BY Zenon, <1>0 DEF Shown, ShownLoop
<1>2. f[0] \in S
  BY <1>0, <1>1 DEF ShownLoop
<1>3. ASSUME NEW n \in 1..N, f[n - 1] \in S PROVE f[n] \in S
  <2>0. n \in 0..Len(plan) /\ n # 0
    BY <1>0
  <2>1. f[n] = f[n - 1] \o Undismissed(n, t)
    BY Zenon, <1>1, <2>0 DEF ShownLoop
  <2>2. Undismissed(n, t) \in Seq(Instants)
    BY <1>0, UndismissedDated
  <2> QED
    BY <1>3, <2>1, <2>2
<1>4. f[N] \in S
  <2> HIDE DEF N, S
  <2> QED
    BY <1>0, <1>2, <1>3, LoopType
<1>5. PICK shown \in Seq(Instants) : shown = Shown(t)
  BY <1>1, <1>4
<1>6. \A k \in DOMAIN shown : Dated(shown[k])
  BY DEF Instants
<1>7. shown \in Seq(ToSet(shown))
  BY LenProperties DEF ToSet
<1> QED
  BY <1>5, <1>6, <1>7 DEF DatedParts

\* The trips offered to SelectTrip are trips with a span.
LEMMA CandidatesType ==
    ASSUME IngestInv, DatesInv, NEW u
    PROVE  Candidates(u) \in Seq(Candidate)
<1> DEFINE T == DOMAIN trip
           yours == {t \in T : trip[t].live /\ u \in trip[t].members}
           mine == Only(recent, yours)
           span(t) == TripSpan(Shown(t), trip[t].on, trip[t].off)
           c(t) == [trip |-> t, span |-> span(t)]
<1>1. mine \in Seq(T \cap yours)
  <2> HIDE DEF yours
  <2> QED
    BY OnlyType DEF DatesInv, RecentOK
<1>2. ASSUME NEW t \in T PROVE c(t) \in Candidate
  <2>1. span(t) \in Spans
    BY ShownDated, TripSpanType DEF DatesInv, DaysOK
  <2>2. t \in Nat
    BY ListDomain DEF IngestInv, TablesInv
  <2> HIDE DEF span
  <2> QED
    BY <2>1, <2>2 DEF Candidate
<1>3. Candidates(u) = [i \in DOMAIN mine |-> c(mine[i])]
  BY DEF Candidates
<1> HIDE DEF mine, c, T, yours
<1>4. mine \in Seq(T) /\ Len(mine) \in Nat /\ DOMAIN mine = 1..Len(mine)
  BY <1>1
<1>5. \A i \in DOMAIN mine : c(mine[i]) \in Candidate
  BY <1>2, <1>4
<1>6. Candidates(u) \in [1..Len(mine) -> Candidate]
  BY <1>3, <1>4, <1>5
<1> QED
  BY <1>4, <1>6

\* The worker goes on to create a trip, or to file, from "select" only by choosing the best.
LEMMA PlacedStep ==
    ASSUME IngestInv, DatesInv, Next, worker.at = "select", worker'.at \in {"create", "file"}
    PROVE  IsBestTrip(PlanSpan(Proposal.parts), Candidates(worker.user), worker'.trip)
<1>1. CASE ChooseTrip
  <2>1. PICK t : /\ t = SelectTrip(PlanSpan(Proposal.parts), Candidates(worker.user))
                 /\ worker' = [worker EXCEPT !.trip = t, !.at = IF t = Blank THEN "create" ELSE "file"]
    BY <1>1, Zenon DEF ChooseTrip, Chosen
  <2>2. worker'.trip = t
    BY <2>1 DEF IngestInv, WorkerInv, AtRest
  <2>3. PlanSpan(Proposal.parts) \in Spans
    BY AtWorkDated, PlanSpanType DEF Busy
  <2>4. Candidates(worker.user) \in Seq(Candidate)
    BY CandidatesType
  <2> QED
    BY <2>1, <2>2, <2>3, <2>4, BestTrip
<1>2. CASE CallFails
  <2>1. worker'.at \in {"log", "select"}
    BY <1>2, FailEffect DEF Moves
  <2> QED
    BY <2>1
<1>3. CASE Restart
  BY <1>3 DEF Restart, AtRest
<1>4. CASE UNCHANGED worker
  BY <1>4
<1>5. ChooseTrip \/ CallFails \/ Restart \/ UNCHANGED worker
  <2>1. ASSUME FileStep PROVE FALSE
    BY <2>1 DEF FileStep, ReadDir, DrainDone, ProcessOne, RemoveFile, MovePoison, At
  <2>2. ASSUME OtherCall PROVE FALSE
    BY <2>2, Zenon DEF OtherCall, UserByVerifiedEmail, Propose, CreateTripForPlan, FilePlan, SeatSender, LogIngest, SendReply, At
  <2>3. CASE StopServer \/ Deliver \/ Edit \/ DialogStep \/ RequestFails
    BY <2>3, Zenon DEF StopServer, Deliver, Edit, DialogStep, Paste, Confirm, Dismissed, CommitPlan, CommitPassenger,
       CancelSuperseded, Announce, RequestFails, Beside
  <2> QED
    BY <2>1, <2>2, <2>3 DEF Next, WorkerStep
<1> QED
  BY <1>1, <1>2, <1>3, <1>4, <1>5

-----------------------------------------------------------------------------
(* The results                                                               *)

\* Whatever fails, and whatever other requests do in between: the tables stay well-formed, a
\* live plan is on a live trip whose members its passengers are, and each message is in one place.
THEOREM IngestTypes == Spec => []IngestTypeOK
<1>1. IngestInv => IngestTypeOK
  BY DEF IngestInv, TablesInv, FilesInv, NotesInv, WorkerInv, DialogInv, RowOK, TripOK, IngestTypeOK
<1> QED
  BY <1>1, IngestInit, IngestStep, PTL DEF Spec

\* No booking of a message is filed twice, however often it is tried, unless an attempt at it
\* died or could not remove the file.
THEOREM NothingTwice == Spec => []FiledOnce
<1>1. Spec => [](IngestInv /\ FiledInv)
  BY IngestInit, IngestStep, FiledInit, FiledStep, PTL DEF Spec
<1>2. FiledInv => FiledOnce
  BY DEF FiledInv
<1> QED
  BY <1>1, <1>2, PTL

\* A message that is gone leaves its lost flights counted, in the audit row or in the reply,
\* unless more than one call failed or the server was stopping.
THEOREM NoFlightLost == Spec => []FlightsAccounted
<1>1. Spec => [](IngestInv /\ CountInv)
  BY IngestInit, IngestStep, CountInit, CountStep, PTL DEF Spec
<1>2. CountInv => FlightsAccounted
  BY DEF CountInv
<1> QED
  BY <1>1, <1>2, PTL

\* What a committed rebooking replaced is cancelled, if no call failed and nothing was stopped.
THEOREM SupersededCancelled == Spec => []ReplacedIsCancelled
<1>1. Spec => [](IngestInv /\ CancelInv)
  BY IngestInit, IngestStep, CancelInit, CancelStep, PTL DEF Spec
<1>2. CancelInv => ReplacedIsCancelled
  BY DEF CancelInv, Superseded, ReplacedIsCancelled
<1> QED
  BY <1>1, <1>2, PTL

\* A booking goes to the best of the trips its sender sees, whatever trips and plans there are,
\* and to a new one only if none of them is near.
THEOREM FiledInBest == Spec => PlacedBest
<1>1. Spec => [](IngestInv /\ DatesInv)
  BY IngestInit, IngestStep, DatesInit, DatesStep, PTL DEF Spec
<1>2. IngestInv /\ DatesInv /\ [Next]_vars =>
        [At("select") /\ worker'.at \in {"create", "file"} =>
           IsBestTrip(PlanSpan(Proposal.parts), Candidates(worker.user), worker'.trip)]_vars
  BY PlacedStep DEF At
<1> QED
  BY <1>1, <1>2, PTL DEF Spec, PlacedBest
=============================================================================
