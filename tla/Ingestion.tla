------------------------------ MODULE Ingestion ------------------------------
(***************************************************************************)
(* Plan capture by e-mail and by the ingest dialog.  The worker drains the *)
(* maildir: it reads a message, judges it, looks its sender up, has its    *)
(* bookings proposed, files each in the best trip, logs, replies, and only *)
(* then removes the file; a transient error leaves it for the next tick.   *)
(* The dialog proposes against one trip and commits what its user          *)
(* confirms.  Each label is a place between two external calls, and any of *)
(* those may fail.  A stop cancels the context of every call; a crash      *)
(* loses all but the files and the database.  The reads of SelectTrip, and *)
(* those of the rebooking match, are one step.                             *)
(***************************************************************************)
EXTENDS Placement, FiniteSets

CONSTANTS
    Users, NoOne, Addresses, IngestAddress,
    Mails, NoMail, Letter,  \* file |-> [garbled, from, dkim, answers]: answers are what the
                            \* language model may read out of it
    Posts,                  \* the sets of messages that may come
    RequireDKIM,
    Pastes,                 \* what users may paste: [user, trip, answer]
    Seeds,                  \* databases to start from
    MaxFailures, MaxStops, MaxEdits, MaxPastes, MaxEvents  \* bounds on the environment: on each
                            \* kind of event besides the mail, and on all together

VARIABLES
    coming, inbox, poison,  \* mail on its way; the files of new/ and of .failed/
    verified,   \* address |-> the account it is verified for
    trip,       \* rows of trips: [live, members, on, off]
    recent,     \* trips by updated_at, newest first
    plan,       \* rows of plans: [live, trip, type, ref, by, pax, source, parts]
    worker, dialog,
    stopping,
    audit,      \* email_ingests: mail |-> its last row
    reply,      \* mail |-> the last reply sent
    failures, stops, edits, pastes,
    read,       \* history: mail |-> the proposals last read out of it
    seated,     \* history: <<mail, nth>>: filed for its sender by the attempt that read it last
    redo,       \* history: mails an attempt at which died or could not remove the file
    cut         \* history: mails at work while the server was stopping

world == <<coming, inbox, poison, verified, trip, recent, plan>>
notes == <<audit, reply>>
history == <<read, seated, redo, cut>>
bounds == <<failures, stops, edits, pastes>>
vars == <<world, worker, dialog, stopping, notes, bounds, history>>

Statuses == {"none", "parse_error", "dkim_failed", "no_user", "accepted", "no_flights", "all_failed", "partial"}
NoNote == [status |-> "none", added |-> 0, failed |-> 0]
NoReply == [added |-> 0, failed |-> 0]
AtRest == [at |-> "rest", batch |-> {}, mail |-> NoMail, user |-> NoOne, plans |-> <<>>, nth |-> 0,
           trip |-> Blank, row |-> 0, added |-> 0, failed |-> 0, verdict |-> "none"]
Closed == [at |-> "closed", user |-> NoOne, trip |-> Blank, plans |-> <<>>, replaces |-> <<>>, nth |-> 0, made |-> <<>>]

ASSUME IngestionAssumption ==
    /\ Posts \subseteq SUBSET Mails /\ NoOne \notin Users /\ NoMail \notin Mails /\ IngestAddress \notin Addresses /\ RequireDKIM \in BOOLEAN
    /\ \A m \in Mails : Letter[m].from \in Addresses \cup {IngestAddress} /\ Letter[m].garbled \in BOOLEAN /\ Letter[m].dkim \in BOOLEAN
    /\ {MaxFailures, MaxStops, MaxEdits, MaxPastes, MaxEvents} \subseteq Nat

Answers == {p.answer : p \in Pastes} \cup UNION {Letter[m].answers : m \in Mails}
ASSUME AnswersAssumption == Answers \subseteq Texts

\* What Seeds holds: databases as the requests leave them, none of them half done, and with
\* nothing filed yet for the mail to come.
Parts == [start : Int, end : Int, cancelled : BOOLEAN, dismissed : BOOLEAN, replaces : {NoPart} \cup (Nat \X Nat),
          flight : [ident : STRING, from : STRING, to : STRING, out : Int, in : Int]]
Plans == [live : BOOLEAN, trip : Nat, type : Types, ref : STRING, by : Users, pax : SUBSET Users,
          source : {<<NoMail, 0>>}, parts : Seq(Parts)]
Trips == [live : BOOLEAN, members : SUBSET Users, on : Int, off : Int]
Databases == [verified : [Addresses -> Users \cup {NoOne}], trip : Seq(Trips), recent : Seq(Nat), plan : Seq(Plans)]

Replaces(s, r) == r # NoPart =>
    r[1] \in DOMAIN s.plan /\ r[2] \in DOMAIN s.plan[r[1]].parts /\ s.plan[r[1]].parts[r[2]].cancelled
ASSUME SeedsAssumption ==
    /\ Seeds \subseteq Databases
    /\ \A s \in Seeds : ToSet(s.recent) \subseteq DOMAIN s.trip
    /\ \A s \in Seeds : \A i \in DOMAIN s.plan :
         /\ s.plan[i].trip \in DOMAIN s.trip
         /\ s.plan[i].live => s.trip[s.plan[i].trip].live
         /\ s.plan[i].pax \subseteq s.trip[s.plan[i].trip].members
         /\ \A k \in DOMAIN s.plan[i].parts : Replaces(s, s.plan[i].parts[k].replaces)

Init ==
    /\ coming \in Posts /\ inbox = {} /\ poison = {}
    /\ \E s \in Seeds : verified = s.verified /\ trip = s.trip /\ recent = s.recent /\ plan = s.plan
    /\ worker = AtRest /\ dialog = Closed /\ stopping = FALSE
    /\ audit = [m \in Mails |-> NoNote] /\ reply = [m \in Mails |-> NoReply]
    /\ failures = 0 /\ stops = 0 /\ edits = 0 /\ pastes = 0
    /\ read = [m \in Mails |-> <<>>] /\ seated = {} /\ redo = {} /\ cut = {}

Room == failures + stops + edits + pastes < MaxEvents

-----------------------------------------------------------------------------
(* The database                                                            *)

Live(t) == t \in DOMAIN trip /\ trip[t].live
Part(id) == plan[id[1]].parts[id[2]]
PartLives(id) == id[1] \in DOMAIN plan /\ plan[id[1]].live
Undismissed(i, t) == IF plan[i].live /\ plan[i].trip = t
                     THEN Only(plan[i].parts, {p \in ToSet(plan[i].parts) : ~p.dismissed}) ELSE <<>>
Shown(t) == LET shown[n \in 0..Len(plan)] ==
                    IF n = 0 THEN <<>> ELSE shown[n - 1] \o Undismissed(n, t) IN
            shown[Len(plan)]

\* ListTrips with the span of each.
Candidates(u) ==
    LET mine == Only(recent, {t \in DOMAIN trip : trip[t].live /\ u \in trip[t].members}) IN
    [i \in DOMAIN mine |-> [trip |-> mine[i], span |-> TripSpan(Shown(mine[i]), trip[mine[i]].on, trip[mine[i]].off)]]

\* starts_on and ends_on are dates.
DateOf(instant) == IF instant = Zero THEN Blank ELSE 24 * (instant \div 24)
NewTrip(u, span) == [live |-> TRUE, members |-> {u}, on |-> DateOf(span.start), off |-> DateOf(span.end)]
Row(p, t, u, source, replaces) ==
    [live |-> TRUE, trip |-> t, type |-> p.type, ref |-> p.ref, by |-> u, pax |-> {}, source |-> source,
     parts |-> [k \in DOMAIN p.parts |->
                  [start |-> p.parts[k].start, end |-> p.parts[k].end, flight |-> p.parts[k].flight,
                   cancelled |-> FALSE, dismissed |-> FALSE,
                   replaces |-> IF Len(p.parts) = 1 THEN replaces ELSE NoPart]]]

CreatesAnywhere(p, t, replaces) == p.type \in Types  \* faulty: no foreign key

\* The transaction fails on a type the table does not admit - the extractor checks those of
\* the parts - and on its foreign keys when the trip, or the part to replace, is gone.
CanCreatePlan(p, t, replaces) == p.type \in Types /\ Live(t) /\ (replaces = NoPart \/ PartLives(replaces))
CreatePlan(p, t, u, source, replaces) ==
    plan' = Append(plan, Row(p, t, u, source, replaces))
\* With the trigger that makes a passenger a member.
AddPlanPassenger(i, u) ==
    /\ plan' = [plan EXCEPT ![i].pax = @ \cup {u}]
    /\ trip' = [trip EXCEPT ![plan[i].trip].members = @ \cup {u}]
\* Deleting a trip deletes its plans.
PlanLives(i) == plan[i].live

-----------------------------------------------------------------------------
(* The worker                                                              *)

At(l) == worker.at = l
Goto(l) == worker' = [worker EXCEPT !.at = l]
Letters == Letter[worker.mail]
Proposal == worker.plans[worker.nth]
Aside == UNCHANGED <<dialog, bounds, stopping>>

\* The first drain at the start of the process, or a tick; what arrives later waits.
ReadsOnce ==                \* faulty: lists the directory only when the process starts
    /\ At("rest") /\ stops = 0 /\ redo = {} /\ poison = {} /\ \A m \in Mails : audit[m] = NoNote
    /\ worker' = [worker EXCEPT !.at = "next", !.batch = inbox]
    /\ Aside /\ UNCHANGED <<world, notes, history>>

ReadDir ==
    /\ At("rest")
    /\ worker' = [worker EXCEPT !.at = "next", !.batch = inbox]
    /\ Aside /\ UNCHANGED <<world, notes, history>>

DrainDone ==
    /\ At("next") /\ worker.batch = {}
    /\ Goto("rest")
    /\ Aside /\ UNCHANGED <<world, notes, history>>

\* The file is read and parsed; mail from oneself is refused without a row.
Judge(m) ==
    IF Letter[m].garbled THEN [at |-> "reject", verdict |-> "parse_error"]
    ELSE IF Letter[m].from = IngestAddress THEN [at |-> "rename", verdict |-> "none"]
    ELSE IF RequireDKIM /\ ~Letter[m].dkim THEN [at |-> "reject", verdict |-> "dkim_failed"]
    ELSE [at |-> "lookup", verdict |-> "none"]

ProcessOne ==
    /\ At("next")
    /\ \E m \in worker.batch :
         worker' = [AtRest EXCEPT !.at = Judge(m).at, !.verdict = Judge(m).verdict,
                                  !.batch = worker.batch \ {m}, !.mail = m]
    /\ Aside /\ UNCHANGED <<world, notes, history>>

Leave == worker' = [AtRest EXCEPT !.at = "next", !.batch = worker.batch]

UserByVerifiedEmail ==
    /\ At("lookup")
    /\ LET u == verified[Letters.from] IN
       worker' = IF u = NoOne THEN [worker EXCEPT !.at = "reject", !.verdict = "no_user"]
                 ELSE [worker EXCEPT !.at = "propose", !.user = u]
    /\ Aside /\ UNCHANGED <<world, notes, history>>

\* What extraction and resolver make of each text.
Readings == [a \in Answers |-> {Proposals(a, answered) : answered \in SUBSET DOMAIN Timetable}]

\* There is no trip yet, so nothing can be replaced.
Propose ==
    /\ At("propose")
    /\ \E a \in Letters.answers : \E ps \in Readings[a] :
         /\ worker' = [worker EXCEPT !.plans = ps, !.nth = 1, !.at = IF ps = <<>> THEN "log" ELSE "select"]
         /\ read' = [read EXCEPT ![worker.mail] = ps]
    /\ seated' = {s \in seated : s[1] # worker.mail}
    /\ Aside /\ UNCHANGED <<world, notes, redo, cut>>

\* On to the next booking, this one counted if it is a flight.
Onward(added, failed) ==
    LET n == IF Proposal.type = "flight" THEN 1 ELSE 0
        last == worker.nth = Len(worker.plans) IN
    worker' = [worker EXCEPT !.added = @ + (IF added THEN n ELSE 0), !.failed = @ + (IF failed THEN n ELSE 0),
                             !.at = IF last THEN "log" ELSE "select", !.nth = IF last THEN @ ELSE @ + 1]

Chosen(t) ==
    /\ At("select")
    /\ worker' = [worker EXCEPT !.trip = t, !.at = IF t = Blank THEN "create" ELSE "file"]
    /\ Aside /\ UNCHANGED <<world, notes, history>>

ChooseTrip == At("select") /\ Chosen(SelectTrip(PlanSpan(Proposal.parts), Candidates(worker.user)))

CreateTripForPlan ==
    /\ At("create")
    /\ \E span \in {PlanSpan(Proposal.parts)} : trip' = Append(trip, NewTrip(worker.user, span))
    /\ recent' = <<Len(trip')>> \o recent
    /\ worker' = [worker EXCEPT !.trip = Len(trip'), !.at = "file"]
    /\ Aside /\ UNCHANGED <<coming, inbox, poison, verified, plan, notes, history>>

FilePlan ==
    /\ At("file")
    /\ IF CanCreatePlan(Proposal, worker.trip, NoPart)
       THEN /\ CreatePlan(Proposal, worker.trip, worker.user, <<worker.mail, worker.nth>>, NoPart)
            /\ worker' = [worker EXCEPT !.row = Len(plan'), !.at = "seat"]
       ELSE Onward(FALSE, TRUE) /\ UNCHANGED plan
    /\ Aside /\ UNCHANGED <<coming, inbox, poison, verified, trip, recent, notes, history>>

SeatSender ==
    /\ At("seat")
    /\ IF PlanLives(worker.row)
       THEN /\ AddPlanPassenger(worker.row, worker.user)
            /\ seated' = seated \cup {<<worker.mail, worker.nth>>}
            /\ Onward(TRUE, FALSE)
       ELSE Onward(FALSE, TRUE) /\ UNCHANGED <<plan, trip, seated>>
    /\ Aside /\ UNCHANGED <<coming, inbox, poison, verified, recent, notes, read, redo, cut>>

Status ==
    IF \A i \in DOMAIN worker.plans : worker.plans[i].type # "flight" THEN "no_flights"
    ELSE IF worker.added = 0 THEN "all_failed" ELSE IF worker.failed > 0 THEN "partial" ELSE "accepted"

LogIngest ==
    /\ At("log") \/ At("reject")
    /\ audit' = [audit EXCEPT ![worker.mail] =
                    IF At("reject") THEN [NoNote EXCEPT !.status = worker.verdict]
                    ELSE [status |-> Status, added |-> worker.added, failed |-> worker.failed]]
    /\ Goto(IF At("reject") THEN "rename" ELSE "reply")
    /\ Aside /\ UNCHANGED <<world, reply, history>>

SendReply ==
    /\ At("reply")
    /\ reply' = [reply EXCEPT ![worker.mail] = [added |-> worker.added, failed |-> worker.failed]]
    /\ Goto("remove")
    /\ Aside /\ UNCHANGED <<world, audit, history>>

RemoveFile ==
    /\ At("remove")
    /\ inbox' = inbox \ {worker.mail} /\ Leave
    /\ Aside /\ UNCHANGED <<coming, poison, verified, trip, recent, plan, notes, history>>

MovePoison ==
    /\ At("rename")
    /\ inbox' = inbox \ {worker.mail} /\ poison' = poison \cup {worker.mail} /\ Leave
    /\ Aside /\ UNCHANGED <<coming, verified, trip, recent, plan, notes, history>>

-----------------------------------------------------------------------------
(* What goes wrong for the worker                                          *)

RetriesCommit ==            \* faulty: a booking that cannot be filed is a transient error
    CASE worker.at \in {"select", "create", "file", "seat", "lookup", "propose", "remove", "rename"} -> Leave
      [] worker.at \in {"log", "reject"} -> Goto(IF At("reject") THEN "rename" ELSE "reply")
      [] worker.at = "reply" -> Goto("remove")

ForgetsFailure ==           \* faulty: a booking that cannot be filed is passed over
    CASE worker.at \in {"lookup", "propose", "remove", "rename"} -> Leave
      [] worker.at \in {"select", "create", "file", "seat"} -> Onward(FALSE, FALSE)
      [] worker.at \in {"log", "reject"} -> Goto(IF At("reject") THEN "rename" ELSE "reply")
      [] worker.at = "reply" -> Goto("remove")

\* What the error of the call at this place makes of the message.
OnError ==
    CASE worker.at \in {"lookup", "propose", "remove", "rename"} -> Leave
      [] worker.at \in {"select", "create", "file", "seat"} -> Onward(FALSE, TRUE)
      [] worker.at \in {"log", "reject"} -> Goto(IF At("reject") THEN "rename" ELSE "reply")
      [] worker.at = "reply" -> Goto("remove")

Calls == {"lookup", "propose", "select", "create", "file", "seat", "log", "reject", "reply"}

CallFails ==
    /\ worker.at \in Calls \cup {"remove", "rename"}
    /\ \/ Room /\ failures < MaxFailures /\ failures' = failures + 1
       \/ stopping /\ worker.at \in Calls /\ UNCHANGED failures
    /\ OnError
    /\ redo' = IF At("remove") THEN redo \cup {worker.mail} ELSE redo
    /\ UNCHANGED <<world, dialog, stopping, notes, stops, edits, pastes, read, seated, cut>>

\* The signal: from now on every call with the context fails, files still work.
StopServer ==
    /\ ~stopping /\ Room /\ stops < MaxStops
    /\ stopping' = TRUE /\ stops' = stops + 1
    /\ cut' = cut \cup ({worker.mail} \cap Mails)
    /\ UNCHANGED <<world, worker, dialog, notes, failures, edits, pastes, read, seated, redo>>

\* The process ends, at any point, and is started again; the dialog may ask once more.
Restart ==
    /\ stopping \/ (Room /\ stops < MaxStops)
    /\ stops' = IF stopping THEN stops ELSE stops + 1
    /\ stopping' = FALSE /\ worker' = AtRest
    /\ redo' = redo \cup ({worker.mail} \cap Mails)
    /\ dialog' = IF dialog.at \in {"file", "seat", "cancel"} THEN [dialog EXCEPT !.at = "shown", !.made = <<>>]
                 ELSE IF dialog.at = "announce" THEN Closed ELSE dialog
    /\ UNCHANGED <<world, notes, failures, edits, pastes, read, seated, cut>>

OtherCall == UserByVerifiedEmail \/ Propose \/ CreateTripForPlan \/ FilePlan \/ SeatSender \/ LogIngest \/ SendReply
FileStep == ReadDir \/ DrainDone \/ ProcessOne \/ RemoveFile \/ MovePoison
WorkerStep == FileStep \/ (~stopping /\ (ChooseTrip \/ OtherCall))
\* The same, whichever the trip: fairness is about moving on.
MovesOn == FileStep \/ (~stopping /\ (OtherCall \/ \E t \in {Blank} \cup DOMAIN trip : Chosen(t)))

-----------------------------------------------------------------------------
(* The ingest dialog                                                       *)

Beside == UNCHANGED <<coming, inbox, poison, verified, recent, worker, stopping, notes, history>>
D(l) == dialog.at = l
Offer == dialog.plans[dialog.nth]
Replaced == dialog.replaces[dialog.nth]

\* The flights a viewer of the trip sees there.
RebookCandidates(t) ==
    LET ids == {id \in UNION {{i} \X DOMAIN plan[i].parts : i \in DOMAIN plan} :
                  /\ plan[id[1]].live /\ plan[id[1]].trip = t /\ plan[id[1]].type = "flight"
                  /\ ~Part(id).dismissed /\ ~Part(id).cancelled} IN
    {[part |-> id, start |-> Part(id).start, ref |-> plan[id[1]].ref, flight |-> Part(id).flight] : id \in ids}

\* ingestTrip: reads only; the proposals live in the browser.
Paste ==
    /\ D("closed") /\ ~stopping /\ Room /\ pastes < MaxPastes /\ pastes' = pastes + 1
    /\ \E p \in Pastes : \E ps \in Readings[p.answer] :
         LET candidates == RebookCandidates(p.trip)
             match(q) == IF q.type = "flight" /\ Len(q.parts) = 1
                         THEN MatchRebooking(q.ref, q.parts[1].flight, candidates) ELSE {NoPart} IN
         /\ Live(p.trip) /\ p.user \in trip[p.trip].members /\ ps # <<>>
         /\ \E replaces \in [DOMAIN ps -> {NoPart} \cup {c.part : c \in candidates}] :
              /\ \A i \in DOMAIN ps : replaces[i] \in match(ps[i])
              /\ dialog' = [Closed EXCEPT !.at = "shown", !.user = p.user, !.trip = p.trip, !.plans = ps,
                             !.replaces = replaces]
    /\ Beside /\ UNCHANGED <<trip, plan, failures, stops, edits>>

Confirm ==
    /\ D("shown") /\ ~stopping /\ Live(dialog.trip) /\ dialog.user \in trip[dialog.trip].members
    /\ dialog' = [dialog EXCEPT !.at = "file", !.nth = 1, !.made = <<>>]
    /\ Beside /\ UNCHANGED <<trip, plan, bounds>>

Dismissed ==
    /\ D("shown") /\ dialog' = Closed
    /\ Beside /\ UNCHANGED <<trip, plan, bounds>>

\* An error at any plan ends the request; what is committed stays, and the dialog stays open.
Refused == dialog' = [dialog EXCEPT !.at = "shown", !.made = <<>>]
AfterPlan == IF dialog.nth = Len(dialog.plans) THEN [dialog EXCEPT !.at = "announce"]
             ELSE [dialog EXCEPT !.at = "file", !.nth = @ + 1]

CommitPlan ==
    /\ D("file") /\ ~stopping
    /\ IF CanCreatePlan(Offer, dialog.trip, Replaced)
       THEN /\ CreatePlan(Offer, dialog.trip, dialog.user, <<NoMail, dialog.nth>>, Replaced)
            /\ dialog' = [dialog EXCEPT !.made = Append(@, Len(plan')), !.at = "seat"]
       ELSE Refused /\ UNCHANGED plan
    /\ Beside /\ UNCHANGED <<trip, bounds>>

CommitPassenger ==
    /\ D("seat") /\ ~stopping
    /\ IF PlanLives(Last(dialog.made))
       THEN /\ AddPlanPassenger(Last(dialog.made), dialog.user)
            /\ dialog' = IF Replaced # NoPart THEN [dialog EXCEPT !.at = "cancel"] ELSE AfterPlan
       ELSE Refused /\ UNCHANGED <<plan, trip>>
    /\ Beside /\ UNCHANGED bounds

CancelsNew ==               \* faulty: stamps the part just made
    /\ D("cancel") /\ ~stopping
    /\ plan' = [plan EXCEPT ![Last(dialog.made)].parts[1].cancelled = TRUE]
    /\ dialog' = AfterPlan
    /\ Beside /\ UNCHANGED <<trip, bounds>>

CancelSuperseded ==
    /\ D("cancel") /\ ~stopping
    /\ IF PartLives(Replaced)
       THEN /\ plan' = [plan EXCEPT ![Replaced[1]].parts[Replaced[2]].cancelled = TRUE]
            /\ dialog' = AfterPlan
       ELSE Refused /\ UNCHANGED plan
    /\ Beside /\ UNCHANGED <<trip, bounds>>

\* A plan.updated for each plan made.
Announce ==
    /\ D("announce") /\ ~stopping
    /\ dialog' = Closed
    /\ Beside /\ UNCHANGED <<trip, plan, bounds>>

RequestFails ==
    /\ dialog.at \in {"file", "seat", "cancel", "announce"}
    /\ stopping \/ (Room /\ failures < MaxFailures)
    /\ failures' = IF stopping THEN failures ELSE failures + 1
    /\ IF D("announce") THEN dialog' = Closed ELSE Refused
    /\ Beside /\ UNCHANGED <<trip, plan, stops, edits, pastes>>

DialogStep == Paste \/ Confirm \/ Dismissed \/ CommitPlan \/ CommitPassenger \/ CancelSuperseded \/ Announce

-----------------------------------------------------------------------------
(* The world                                                               *)

Deliver == \E m \in coming :
    /\ coming' = coming \ {m} /\ inbox' = inbox \cup {m}
    /\ UNCHANGED <<poison, verified, trip, recent, plan, worker, dialog, stopping, notes, bounds, history>>

\* Other requests: a trip is deleted with its plans, or edited; a plan is deleted, a part
\* dismissed; an address changes hands.
Edit ==
    /\ Room /\ edits < MaxEdits /\ edits' = edits + 1
    /\ \/ \E t \in DOMAIN trip : /\ Live(t)
                                 /\ trip' = [trip EXCEPT ![t].live = FALSE]
                                 /\ plan' = [i \in DOMAIN plan |-> [plan[i] EXCEPT !.live = @ /\ plan[i].trip # t]]
                                 /\ UNCHANGED <<recent, verified>>
       \/ \E t \in DOMAIN trip : /\ Live(t) /\ t # Head(recent)
                                 /\ recent' = <<t>> \o Only(recent, DOMAIN trip \ {t})
                                 /\ UNCHANGED <<trip, plan, verified>>
       \/ \E i \in DOMAIN plan : /\ PlanLives(i)
                                 /\ \/ plan' = [plan EXCEPT ![i].live = FALSE]
                                    \/ plan' = [plan EXCEPT ![i].parts[1].dismissed = TRUE]
                                 /\ UNCHANGED <<trip, recent, verified>>
       \/ \E a \in Addresses, u \in Users \cup {NoOne} :
             u # verified[a] /\ verified' = [verified EXCEPT ![a] = u] /\ UNCHANGED <<trip, recent, plan>>
    /\ UNCHANGED <<coming, inbox, poison, worker, dialog, stopping, notes, failures, stops, pastes, history>>

Next == WorkerStep \/ CallFails \/ StopServer \/ Restart \/ DialogStep \/ RequestFails \/ Deliver \/ Edit

\* The worker's goroutine runs on and its calls return, in error or not.
Spec == Init /\ [][Next]_vars /\ WF_vars(MovesOn)

-----------------------------------------------------------------------------
(* What must hold                                                          *)

IngestTypeOK ==
    /\ coming \subseteq Mails /\ inbox \subseteq Mails /\ poison \subseteq Mails
    /\ coming \cap (inbox \cup poison) = {} /\ inbox \cap poison = {}
    /\ verified \in [Addresses -> Users \cup {NoOne}]
    /\ \A t \in DOMAIN trip : trip[t].live \in BOOLEAN /\ trip[t].members \subseteq Users
    /\ \A i \in DOMAIN plan : /\ plan[i].live \in BOOLEAN /\ plan[i].trip \in DOMAIN trip
                              /\ plan[i].live => trip[plan[i].trip].live
                              /\ plan[i].pax \subseteq trip[plan[i].trip].members
    /\ worker.mail \in Mails \cup {NoMail} /\ worker.batch \subseteq inbox
    /\ worker.at \in Calls \cup {"rest", "next", "remove", "rename"} /\ stopping \in BOOLEAN
    /\ dialog.at \in {"closed", "shown", "file", "seat", "cancel", "announce"}
    /\ \A m \in Mails : audit[m].status \in Statuses

Done(m) == m \notin coming \cup inbox \cup poison
Missing(m) == {n \in DOMAIN read[m] : read[m][n].type = "flight" /\ <<m, n>> \notin seated}

\* Once a message is gone and one call at most has failed, the flights of it that were
\* not put on a trip for its sender are counted in its audit row or in the reply, unless
\* the server was stopping (ingest.go:164-192).
FlightsAccounted ==
    \A m \in Mails : (Done(m) /\ failures <= 1 /\ m \notin cut) =>
        Cardinality(Missing(m)) \in {audit[m].failed, reply[m].failed}

\* Without a crash, and unless its file could not be removed, no booking of a message is
\* filed twice, however often the message is tried (ingest.go:101, 164).
FiledOnce ==
    \A i, j \in DOMAIN plan :
        (i # j /\ plan[i].source = plan[j].source /\ plan[i].source[1] # NoMail) => plan[i].source[1] \in redo

\* A booking goes to the trip SelectTrip's comment promises - greatest overlap, then
\* smallest gap - of those its sender sees, and to a new one if none is near (triptarget.go:54).
PlacedBest ==
    [][At("select") /\ worker'.at \in {"create", "file"} =>
         IsBestTrip(PlanSpan(Proposal.parts), Candidates(worker.user), worker'.trip)]_vars

\* When no call failed and no request is under way, a flight that was replaced by one
\* still on the trip is cancelled (commit.go:138).
ReplacedIsCancelled ==
    (failures = 0 /\ stops = 0 /\ dialog.at \in {"closed", "shown"}) =>
        \A i \in DOMAIN plan : plan[i].live =>
            \A k \in DOMAIN plan[i].parts :
                LET r == plan[i].parts[k].replaces IN r # NoPart /\ PartLives(r) => Part(r).cancelled

\* Mail in new/ is dealt with in the end, as long as the server is up (ingest.go:52).
EventuallyOut == \A m \in Mails : m \in inbox ~> (m \notin inbox \/ stopping)
=============================================================================
