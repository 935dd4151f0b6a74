# A TLA+ model of Aerly (flight-tracker)

Aerly is a Go server over PostgreSQL with a React client. It keeps shared trips,
polls the flights on them, pushes changes to open browsers over server-sent events
(SSE), ties people together as friends, and turns forwarded e-mails and pasted texts into
plans. This directory models its stateful core, checks the models with TLC on small
instances, and proves with TLAPS what holds on every instance. `PROJECT.json` maps
every definition to the lines it models, and lists the hazards the properties are for.

Run `tlc -config <run>.cfg <module>` for a run, `tlapm <module>_proofs.tla` for proofs.

## The system

| Component | State it keeps | Operations | Talks to | Modelled in |
|---|---|---|---|---|
| Poller (`internal/poller`, `store/tracker.go`) | a goroutine with two tickers; the flight columns of `plan_parts` and `flight_details` | tick: list, resolve, backfill, refresh status, diff, alert, publish; sweep: fill coordinates | database, resolver, tracker, hub | `FlightPoller` |
| Resolvers (`providers/{cache,aerodatabox}.go`) | a cache of resolved flights | `Resolve` | AeroDataBox | `Resolver`, `FlightData` |
| Positions (`providers/{opensky,speedgate,deadreckon}.go`, `store/tracker.go`) | rows of `positions` | `Track`, insert, latest, track | OpenSky, poller, browsers | `Positions`, `FlightData` |
| Trips and plans (`store/{trips,plans,alerts}.go`, `handlers/handlers_{trips,plans,alerts}.go`, migration 0010) | trips, members, plans, passengers, visibility, opt-ins | one HTTP request each: authorise, write, look up the audience, publish | database, hub | `TripSharing` |
| Event hub (`internal/sse`) | a map of channels under a lock | `Publish`, `Subscribe`, the `Stream` loop | every handler, the poller, browsers | `EventHub` |
| Web client (`web/src`) | the open trip | fetch, refetch on events | HTTP, SSE | `TripClient` |
| Sign-in and accounts (`store/users.go`, `auth`, `handlers/users.go`) | users, identities, sessions | `LinkLogin`, invite, update, delete | OAuth providers, friendships | `Accounts` |
| E-mail addresses (`store/user_emails.go`, `handlers/me_emails.go`) | addresses and their tokens | add, resend, verify, delete | mail | `Accounts` |
| Friendships (`store/friends.go`, `handlers/{friends,notifications}.go`) | pairs, pending invitations | request, accept, remove, invite, cancel, consume | sign-in, mail, hub | `Friendships` |
| Plan ingestion (`planops`, `emailingest/extract.go`, `handlers_ingest.go`) | none of its own | propose, confirm, commit | store, resolver, language model | `Placement`, `Ingestion` |
| E-mail ingestion (`emailingest/ingest.go`) | a maildir, an audit log | drain: parse, authenticate, file, log, reply | planops, store, mail | `Ingestion` |
| Calendar feeds (`store/calendar.go`, `handlers/ics.go`) | feed tokens | create, revoke, render | store | - |

Hard behaviours: requests of several users interleave between authorisation, write and
event, each a transaction of its own; the poller works on copies of rows that requests
change meanwhile; a sign-in reads outside the transaction it decides in; any call may
fail alone, and the process may stop or die between two; events may be dropped, and
responses overtake them.

What makes each part correct: the poller alerts once per change, never undoes a final
status or a typed coordinate, announces what it changed, and brings each flight to its
end; a lookup is answered with what was true within the lifetime of an entry; a marker is
plausible, near the truth and never goes back; sharing never leaves a dangling row, never
shows or sends a plan to the wrong person, and tells everybody who sees a change; the
hub never blocks, never panics and keeps order; a sign-in ends in the account its
identity belongs to, and an address is its prover's; nobody is a friend who did not agree;
a message becomes its plans once, in the trip they belong to, and no flight is lost
without a word.

## Modules

* `FlightPoller` - the poller goroutine and the rows it works on. Each `pc` label is a
  place between two external calls of `tick`, `refresh`, `maybeAlert` or `sweepOne`;
  each action is what the code does up to the next call. `row` is the database;
  `carrier` the `*store.Flight` copies a job took when it listed its flights.
  `EditCoords`, `DismissPart` and `DeletePart` are the requests that write the same rows;
  `Crash` loses all but `row` and the clock. What the resolver answers is chosen
  from `Answers`; airports, airframes and gates are model values.
* `Resolver` - `CachedResolver` over AeroDataBox: callers that miss ask the service without
  a lock, one variant of the flight number after another, each once more when
  throttled, and store what they were told. `upstream` is what the airline
  publishes, and changes. `Leave` is a caller that is served and goes.
* `Positions` - one flight: the poller's chain of trackers (`OpenSky`, `SpeedGate`,
  `DeadReckon`, one action each), the insert, and a browser that opens the page by two
  queries. Places are whole numbers on the line from origin to destination; a
  wrong fix is at `Elsewhere`. `TruePlace` is where the aircraft really is, which no
  action but the fix of the service reads.
* `FlightData` - the two composed: `AddFlight` turns what a lookup found into the row
  that is tracked.
* `TripSharing` - trips, plans and requests. A request is authorised by an `Ask` action,
  then walks through its transactions (`WriteStep`), reads the plan back, looks up its
  audience and publishes. `Fail` is a call that fails at any of these points. `Ask` only
  admits requests that pass their checks; what a rejected one does is nothing.
  Contents of plans and parts are the revision number `rev`. Two queries decide who sees
  a plan and are written out as in the code: `CanViewPlan` for one viewer, and
  `VisiblePlanUserIDs` for the audience of an event. A superuser may open every plan on a trip's
  page, by the disjunct beside `CanViewPlan` in `AskOther` and `TripClient`; the tracker and the feeds
  have no such bypass. `ON DELETE CASCADE` and the passenger
  trigger are part of their writes.
* `TripClient` - `TripSharing` composed with one browser: the trip it has open, the answers
  to its fetches on their way, and the events in its stream.
* `EventHub` - the hub with its read-write lock, bounded channels, publishers visiting
  subscribers one by one, and connections that stall or go. A waiting writer
  keeps new readers out, as in Go's `sync.RWMutex`.
* `LossyBroadcast` - what a subscriber may rely on: a connection hears, at most once, only
  events it may hear, and those of one publisher in order. It may miss any.
  `EventHub` implements it.
* `Accounts` - sign-ins, identities, addresses and superusers. A call is a request, split
  where it leaves the database; `call[c]` is what it carries from step to step.
  `LinkLogin` counts the users and looks the account up in steps of their own, because its
  transaction sees a snapshot; its writes are one step, at the commit. Rows and tokens are
  numbered from `serial`, so that a row that was deleted and claimed again is another.
* `Friendships` - extends `Accounts` with requests, acceptance, removal, invitations, and
  what a sign-in (`ConsumePendingInvites`) and a deletion (`Deserted`) do to them.
  `tell` is the list of accounts whose badge a call still has to push; `untold` records every
  change of somebody's friends or requests that no push has followed, and of what kind it was.
* `FriendGraph` - what the friends feature promises, without requests or rows: ask, agree,
  part, write a letter, withdraw it, turn up, leave. `Friendships` implements it.
* `Placement` - the pure part of plan capture: `ExtractPlans`, proposals with their
  instants, `SelectTrip`, the rebooking match. The loops of the code are recursive functions
  of how far they have come, so that they can be proved about. `IsBestTrip` is the reference
  definition of the trip choice, stated by sets and distances instead of the loop. Flights
  that leave at one time come from the database in any order, so the match may be any of them.
* `Ingestion` - the maildir worker and the ingest dialog, with the files, the rows and
  the mail they leave. Each label is a place between two external calls. `StopServer`
  cancels the context of every call while file operations go on; a crash loses all but files and
  database. `Edit` is other requests; what the language model reads out of a letter is
  any of the letter's `answers`.
* `*_proofs` - the theorems about the module of that name; `Friendships_proofs` builds on
  `Accounts_proofs`, and `Ingestion_proofs` on `Placement_proofs`. `MC*` - the instances for TLC.

History variables record what happened for the properties and no action of the code's
reads one: `unalerted`, `unannounced`, `missed`, `cutShort`, `lastCall`; `held`; `owed`, `undercut`;
`accepted`, `written`, `published`; `proven`, `raced`, `crossed`, `agreed`, `untold`;
`read`, `seated`, `redo`, `cut`; `adrift`. Operators marked *faulty* are bugs the
properties must reject: each property is tried against one of them.

## Runs

| Run | Question | Result |
|---|---|---|
| `poller` | ticks and sweeps beside any two of a failing call, a crash and a request: alerts, announcements, final statuses, typed coordinates, throttle, progress | holds |
| `trips_shared` | any two requests beside each other, one failing call: references, audience, roles, who comes to see a plan, who is told | holds |
| `hub_broadcast` | two publishers, two connections: no panic, order, refinement, no blocking | holds |
| `friends` | three calls of sign-in, addresses, superusers and friends, two at a time, one failure: whose is what, consent, who is told of answers, refinement of `FriendGraph` | holds |
| `mail_drain` | two messages and a paste, with any two of a failure, a stop or crash, an edit and the paste: filed once, nothing lost silently, best trip, progress | holds |
| `positions` | two lookups, then six polls with a wrong fix, silence or a failing query: fresh answers, plausible markers and tracks | holds |
| `poller_quota` | "one call per active flight per ~4h" | violated: incomplete flights are resolved on every poll |
| `poller_gates` | "a gate change always alerts" | violated: the previous state is taken after the gate was written |
| `poller_crash` | "a mid-flight crash re-alerts rather than silently swallowing the change" | violated: after the restart the listed row already has the new gate, so there is no change to alert |
| `trips_leak` | "nothing leaks" to passengers who are not members | violated: the audience query lists them |
| `trips_live` | "the shared view stays live" | violated: an event overtakes the first load |
| `positions_late` | estimates give the speed gate "a usable comparison point" | violated: of a flight that leaves late they run ahead, and the gate drops its true fixes |

`findings` in `PROJECT.json` quotes the lines of the last six. Because of `poller_gates`, alerts
for gates arise in `FlightPoller` only where reloading the row fails, so the run needs
one failure to get an alert and a second one, of the stamp, to leave it without a signature:
`AlertsBounded` is checked with two. It speaks of a process that does not die: for a
crash the code's comment wants the alert again, which `poller_crash` shows it does not send.

Several properties exclude a case, because there the code does otherwise and no
document promises better:

* `AlertsBounded`: a crash, of which the comment in the code (`alerts.go:148`) wants the opposite.
* `ChangesAnnounced`: a crash, and a change whose read-back for the broadcast failed
  (`poller.go:173`): the code drops the event, and `missed` remembers the part until it
  changes again.
* `EveryoneTold`: a failure, or a plan or passenger taken away while another request
  about the plan was at work (`undercut`). A plan moved between another
  request's write and its event is announced on one trip only.
* `SessionIsOwners`: two overlapping sign-ins with the same new identity (`raced`). Both
  create an account; the identity keeps the first, and the second session belongs to an
  account its owner cannot come back to.
* `SuperuserRemains`: overlapping administrative calls (`crossed`). Two superusers
  who demote each other at once leave none.
* `FiledOnce`: messages whose attempt died after the commit or whose file could not be
  removed (`redo`): they are filed again. `FlightsAccounted`: messages at work while the
  server stops (`cut`): the context is cancelled but the file still removed, so that they
  can be lost without a trace.
* `AnswersReported`: failures, and the four kinds of change nobody is told of (below). It does not
  claim that the last push carries the last count.
* `NearTruth` bounds how far a marker may be off by how late the flight is, plus how long before
  departure a fix of its track was taken: an estimate counts from the fix and takes the aircraft to
  have flown since.
* `EstimatesAdvance`: a new fix stored in between, from which the estimates start anew and may
  go back; and two fixes of one moment, either of which may be taken for the latest.

### Disagreements no run shows

Where a comment says otherwise than the code, and the disagreement is in the control flow the
model follows, without a run of its own:

* `App.tsx:68` says the server pushes `notifications.updated` whenever the viewer's friendship
  state changes. It does for a request, an acceptance and a removal. It does not when a
  request meets one the other way and is accepted by itself (`friends.go:130`), when a request
  is withdrawn (`friends.go:280`), when a sign-in turns invitations into friendships - whose
  inviters `store/friends.go:349` returns "so the caller can notify them" and `users.go:345`
  drops - and when an account is deleted. `untold` records these as debts `Silent`, which stay
  in the states of `friends` and which `AnswersReported` exempts by name.
* `friends.go:127` says duplicate requests stay silent. A repeated request that is still pending
  passes its test and is mailed and pushed again; `RequestAgain` does that.
* `rebook.go:80` says that a candidate with a passenger in common is preferred: `matchRebooking`
  takes no passengers, and the model follows the function.

### Bounds

* Poller: one flight of two legs, a clock of 5 instants in half poll intervals, in which
  a flight that departs at 1 and is due at 2 passes from booking to arrival, is polled, swept and,
  where its data stay incomplete, late-refreshed; any two troubles, each a failing call, a crash
  or a request. The row is one a user left without an airframe, or one typed in as over; the
  airports table knows one of the legs. Flights share nothing but the goroutine's queue, so
  one suffices for the properties of a row; the proofs cover any number. At `Horizon` the clock stops
  and the tickers go on, so that progress does not depend on the bound. `poller_quota` and
  `poller_gates` allow no trouble at all, `poller_crash` two, on a flight with only an ident.
* Trips: two users and a superuser, two trips, one plan and one to create, two databases
  to start from (a shared trip beside a private one; a trip whose creator left). Two
  requests are the fewest that interfere; every kind of request is among them.
* Hub: two publishers, two events, channels of one place (so that a second event
  overflows), a user's connection and a superuser's that sees all; public,
  addressed and private events.
* Friends: three accounts, one of them unborn, two addresses, three identities, four databases (nobody yet; invited
  by name and by address; asked by an address; an address claimed but not proven), three
  calls, two of them at once, one failure. Two overlapping calls are the fewest that race, and the
  third comes before or after them; the proofs cover any number.
* Mail: two messages (one with a flight, a hotel and a guess, one that cannot be
  attributed), two trips a day apart, one paste, and two of one failure, one stop, one edit and one
  paste. Every call of the worker is hit by each of them.
* Positions: an entry lives two of three days, two lookups, one amendment; then a flight of three
  instants between places 0 and 9, an instant late, that flies three places
  an instant under a gate of five, polled six times, with fixes of age 0 or 1 and one
  foreign, and a track cut to two rows. A gate of five lets an estimate be off by less than a
  poll's distance and stops the foreign place. `positions_late` has
  a flight of five instants three late, so that the estimates get ahead by more than the gate.

### Fairness

* Poller: weak fairness of the goroutine's steps and of the clock; strong fairness of
  the two `select` branches, since Go picks at random among ready ones. Calls return: the code
  gives the tracker and resolver clients timeouts. Nothing is assumed of requests or crashes.
* Hub: weak fairness of a publisher's steps and of taking the lock. Nothing obliges a
  browser to read or to disconnect: `PublishReturns` holds although one may stall for ever.
* Mail: weak fairness of `MovesOn`, the worker's step to the next call, since its ticker
  drains every interval and every call has a deadline or fails. Which trip is chosen,
  whether a call fails, and what users do is left open. `EventuallyOut` is stated up to a stop.
* The other specifications state no fairness and no liveness.

## Proofs

TLAPS proves for every value of the constants, assuming only the named assumptions
(`PollerAssumption`, `InputAssumption`, `SharingAssumption`, `HubAssumption`,
`ResolverAssumption`, `PositionsAssumption`, `DataAssumption`, `AccountsAssumption`,
`FriendsAssumption`, `IngestionAssumption`, `AnswersAssumption`, `PlacementAssumption`, and the
`SeedsAssumption` of `Accounts` and that of `Ingestion`): sorts of the constants, positive
intervals and capacities, that the answers of the language model are plans of parts in the
format it is asked for, and databases to start from that the program can have left behind. TLC
evaluates each of them on the instances.

* `FlightPoller_proofs`: `TypeCorrect`; `NoAlertTwice` and `FinalStatusIsFinal` from the
  invariant `AlertInv` - a part waiting in a tick is not final and its carrier still has
  the row's gate, and where the two differ the change is one not yet alerted, with which
  a stamp that fails, in whatever refresh, cannot be confused;
  `UserCoordsSafe`, per action, from the fill-if-empty statement; `NothingUnannounced` from
  `AnnouncedInv` - only the part being visited awaits its broadcast, be it for a status or for
  coordinates, or else one whose broadcast was given up; `ThrottleKept` from
  `ThrottleInv`. The throttle is judged by a copy of the row, so it needs that every call is
  stamped on its row but the one that waits for its stamp, that the copies of parts still to be
  visited show the stamps, and that a job visits a part once.
* `TripSharing_proofs`: `TypeCorrect`; `ReferencesHold`, inductive once requests are known
  to carry a trip where their write needs one (`Aimed`): each write checks
  again, as the foreign keys do, what its authorisation saw; `AudienceCoversViewers`;
  `RolesSafe`, since the trigger inserts only where there is no role; `SightSafe`, one lemma per
  table a request writes: what a deletion cascades into takes sight and never gives it,
  and every other write that gives it is of a request made for that; `DebtsSettled`. `EveryoneTold` speaks
  only of states in which no request is under way; the invariant that carries it, `ToldInv`,
  says of every state that each debt has a request at work that will still settle it
  (`Tells`: about the plan, or about the trip it is on, at a place before its audience is looked
  up), that a request is about one plan, and that a plan just created is on the trip of its URL.
* `EventHub_proofs`: `TypeCorrect` with the capacities; `NeverPanics` - whoever has a
  connection still to visit holds the read lock since it saw the connection in the
  map (`LockHeld`); `NothingLostOnceAccepted`; and `Refinement`, the safety part of the
  hub implementing `LossyBroadcast`, from the numbering of events and `Newer`.
* `FlightData_proofs`: `LookupsFresh` from `LookupInv` - what a caller was told was
  published on or after the day it asked, and an entry expires a lifetime after the day its
  answer was asked for; `GateHolds` from `TrackInv` - what waits for the insert was
  compared with the newest row, and no row is inserted meanwhile; `EachPollFills`;
  `MarkerReached`, since rows are only added, with growing times, so that a track read after
  the marker ends at or past it; `MarkerNear` and `NoWayBack` from `SoundInv` and `AdriftInv` -
  every estimate was made from the timetable or from a fix that is in the track, and since
  the last fix was stored, from that one - with lemmas on integer quotients: how far along a leg
  an estimate is grows with time, and differs from the truth by no more than the delay does.
* `Accounts_proofs` and `Friendships_proofs` share the invariant `FriendsInv`. `Tokens`:
  a token was issued for one address, so that a link followed late proves the
  address it was mailed to, or nothing - from this follows `AddressesProven`. `Governed`: who
  administers alone is a superuser and not about to take that from himself - `SuperusersRemain`.
  `Alone`: what a sign-in found stays true until it links, if no other has its
  identity - `SessionsOwned`. `Told`: whoever waits for a count, after a change that is
  announced at all, is on some call's list - `Reported`. `Consent` is inductive with the shape of rows (`Edges`) and with
  `AddressProven` after the step, which says that only shown addresses consume invitations.
  `VerifiedStay` is shown per action. `ImplementsFriendGraph` is the refinement, one lemma per
  step that changes a pair or a letter.

* `Placement_proofs`: a loop over a sequence is a recursive function, which the provers do not
  unfold by themselves and have no induction for. `Upwards` derives the induction from the least
  element of a set of naturals, `Loop` that such a function exists, `LoopType` what its
  steps keep. From these come the types of every loop of plan capture (a booking that
  was kept has instants, so has a span of bookings or trips) and `BestTrip`: `SelectTrip`
  meets `IsBestTrip` for every list of trips, by the invariant `BestOf` of its loop - the trip held
  after n of them beats each of those before - and `OneBestTrip`: no other trip meets it.
* `Ingestion_proofs`: `IngestTypes` from `IngestInv`, which adds to the types that a row is on a
  trip that exists, that what is to be replaced exists, and what the worker knows at each label.
  `NothingTwice` from `FiledInv`: a row's booking has been passed by the attempt at work, or its
  message is gone, or an attempt at it was cut short. `NoFlightLost` from `CountInv`:
  the worker's count is the number of flights it has passed without seating the sender, which
  the audit row or the reply then carries unless both calls failed. `SupersededCancelled` from
  `CancelInv`: what a live row replaces is cancelled, or the request at work has still to do it.
  `FiledInBest` from `DatesInv`: all bookings, in the rows, in what was read and in the
  dialog, have instants, and trips listed exist - so that `BestTrip` applies.

Every safety property of a passing run is a theorem. Only model-checked are the liveness
properties (`EventuallyFinal`, `PublishReturns`, `EventuallyOut`), which need fairness and
ENABLED, out of the provers' reach. The violations are counterexamples and need no proof.

## Not modelled

* The fan-out of one alert over its recipients and their preferences, and the mail. The
  recipients are not filtered by who may see the plan (`alerts.go:90`).
* That an airborne flight is polled at the base interval: a tick that comes just short of it
  skips, and the flight waits for the next. `EventuallyFinal` only says it is not lost.
* A leg's latitude and longitude are one value; a row with only one of them is left out.
* The instant between two statements of one transaction: PostgreSQL hides it. Where a
  statement reads what was committed since the transaction began, it is a step of its own.
* Altitudes and headings; the stub tracker; `Purge` and `FreshThreshold`, which nothing uses;
  which of two positions of the same second is the latest. A late flight stays shut out by the
  speed gate until it has arrived, when nothing is inserted any more.
* Of plan capture: geocoding, documents, suggested hotel times, notes, plans with
  parts of several types (`plans.go:285`), members of a trip made passengers without being
  asked (`trips.go:69`). The trip made for a booking stays, empty, if the booking fails; and
  plans made before a failing one of the same paste are not announced
  (`handlers_ingest.go:168`): both are in the model, and no property forbids them.
* Of plan capture also: a missing type of a part or a plan filled in from the other
  (`extract.go:288`, `356`), and the refusal of an unknown type before anything is committed
  (`handlers_ingest.go:161`): answers and dialogs carry types that are there. That a booking to
  rebook has the details of a flight (`propose.go:122`) is the shape of its parts. A file of the
  maildir that cannot be read stays where it is, as if that drain had not met it.
* Keep-alives and the wire format of the hub; pages and forms of the client; MIME, DKIM
  signatures and the language model; the calendar feeds and their text: input and output. Calendar
  tokens are rows nothing else depends on; two requests at once may issue one twice (`calendar.go:48`).
* Whether a connection hears everything is decided when it opens and not revised
  (`handlers.go:148`); hiding a plan is not announced to whom it is hidden from
  (`handlers_plans.go:352`). Nothing promises otherwise.
* OAuth redirects and state cookies, cookie signatures, last-seen stamps, profile fields.
* Server wiring, configuration and migrations other than the trigger and the cascades.

## What is left

1. The poller composed with `TripSharing`: the failed visibility lookup, alert recipients
   and their opt-ins.
2. Proofs: the safety lemmas liveness rests on, such as that a final status ends a flight's
   polling; the loop of the rebooking match, which `MatchRebooking` states by its result.
