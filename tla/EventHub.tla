------------------------------ MODULE EventHub ------------------------------
(***************************************************************************)
(* The hub that fans events out to the connected browsers.  Publishers     *)
(* (request handlers and the poller) go through the subscribers under a    *)
(* read lock, several at a time, and never wait for a slow one: an event   *)
(* that finds a full buffer is dropped there.  A connection subscribes and *)
(* unsubscribes under the write lock; unsubscribing closes its channel,    *)
(* and a send on a closed channel would panic.                             *)
(***************************************************************************)
EXTENDS Integers, Sequences

CONSTANTS
    Publishers,     \* goroutines that publish
    Conns,          \* connections: one Stream goroutine and one channel each
    Viewers,        \* users
    Viewer,         \* the user of each connection
    SeesAll,        \* connections of superusers who asked for all events
    Kinds,          \* what callers publish: VisibleTo and UserPrivate
    bufSz,          \* capacity of a channel
    MaxEvents       \* bound on events

ASSUME HubAssumption ==
    /\ Viewer \in [Conns -> Viewers] /\ SeesAll \subseteq Conns
    /\ Kinds \subseteq [to : SUBSET Viewers, private : BOOLEAN]
    /\ bufSz \in Nat \ {0} /\ MaxEvents \in Nat

VARIABLES
    conn,           \* where each connection is
    queue,          \* its channel
    at, ev, todo,   \* per publisher: where, with which event, to whom still
    count,          \* events published
    published,      \* history: the events themselves
    accepted,       \* history: what went into each channel
    written         \* history: what was written to each browser

connVars == <<conn, queue, accepted, written>>
pubVars == <<at, ev, todo, count, published>>
vars == <<connVars, pubVars>>

ConnStates == {"off", "joining", "on", "leaving", "closed"}

Event == [id : 1 .. MaxEvents, from : Publishers, to : SUBSET Viewers, private : BOOLEAN]
NoEvent == [id |-> 0]

Init ==
    /\ conn = [c \in Conns |-> "off"] /\ queue = [c \in Conns |-> <<>>]
    /\ accepted = [c \in Conns |-> <<>>] /\ written = [c \in Conns |-> <<>>]
    /\ at = [p \in Publishers |-> "idle"] /\ ev = [p \in Publishers |-> NoEvent]
    /\ todo = [p \in Publishers |-> {}]
    /\ count = 0 /\ published = {}

-----------------------------------------------------------------------------
(* The lock, the map of subscribers, and who may hear what                 *)

Readers == {p \in Publishers : at[p] = "loop"}
Waiting == {c \in Conns : conn[c] \in {"joining", "leaving"}}
Subs == {c \in Conns : conn[c] \in {"on", "leaving"}}

IgnoresPrivate(c, e) == e.to = {} \/ c \in SeesAll \/ Viewer[c] \in e.to     \* faulty

ShouldDeliver(c, e) ==
    e.to = {} \/ (c \in SeesAll /\ ~e.private) \/ Viewer[c] \in e.to

-----------------------------------------------------------------------------
(* Publishing                                                              *)

Publish(p) ==
    /\ at[p] = "idle" /\ count < MaxEvents
    /\ count' = count + 1
    /\ \E k \in Kinds :
       LET e == [id |-> count + 1, from |-> p, to |-> k.to, private |-> k.private] IN
       /\ ev' = [ev EXCEPT ![p] = e] /\ published' = published \cup {e}
    /\ at' = [at EXCEPT ![p] = "lock"]
    /\ UNCHANGED <<connVars, todo>>

\* A writer that waits keeps new readers out.
RLock(p) ==
    /\ at[p] = "lock" /\ Waiting = {}
    /\ at' = [at EXCEPT ![p] = "loop"]
    /\ todo' = [todo EXCEPT ![p] = Subs]
    /\ UNCHANGED <<connVars, ev, count, published>>

Visit(p, c) ==
    /\ at[p] = "loop" /\ c \in todo[p]
    /\ todo' = [todo EXCEPT ![p] = @ \ {c}]
    /\ UNCHANGED <<conn, written, at, ev, count, published>>

Put(c, q, e) ==
    /\ queue' = [queue EXCEPT ![c] = Append(q, e)]
    /\ accepted' = [accepted EXCEPT ![c] = Append(@, e)]

UnboundedOffer(p, c) ==     \* faulty: no limit
    /\ Visit(p, c)
    /\ IF ShouldDeliver(c, ev[p]) THEN Put(c, queue[c], ev[p]) ELSE UNCHANGED <<queue, accepted>>

EvictingOffer(p, c) ==      \* faulty: makes room by dropping the oldest event
    /\ Visit(p, c)
    /\ IF ShouldDeliver(c, ev[p])
       THEN Put(c, IF Len(queue[c]) = bufSz THEN Tail(queue[c]) ELSE queue[c], ev[p])
       ELSE UNCHANGED <<queue, accepted>>

WaitingOffer(p, c) ==       \* faulty: a send without a default case
    /\ Visit(p, c)
    /\ IF ShouldDeliver(c, ev[p]) THEN Len(queue[c]) < bufSz /\ Put(c, queue[c], ev[p])
       ELSE UNCHANGED <<queue, accepted>>

Offer(p, c) ==
    /\ Visit(p, c)
    /\ IF ShouldDeliver(c, ev[p]) /\ Len(queue[c]) < bufSz THEN Put(c, queue[c], ev[p])
       ELSE UNCHANGED <<queue, accepted>>

RUnlock(p) ==
    /\ at[p] = "loop" /\ todo[p] = {}
    /\ at' = [at EXCEPT ![p] = "idle"] /\ ev' = [ev EXCEPT ![p] = NoEvent]
    /\ UNCHANGED <<connVars, todo, count, published>>

-----------------------------------------------------------------------------
(* A connection                                                            *)

Move(c, from, to) ==
    /\ conn[c] = from /\ conn' = [conn EXCEPT ![c] = to]
    /\ UNCHANGED <<accepted, pubVars>>

Connect(c) == Move(c, "off", "joining") /\ UNCHANGED <<queue, written>>

Subscribe(c) == Move(c, "joining", "on") /\ Readers = {} /\ UNCHANGED <<queue, written>>

\* The Stream loop writes the next event to the browser.
Receive(c) ==
    /\ conn[c] = "on" /\ queue[c] # <<>>
    /\ written' = [written EXCEPT ![c] = Append(@, Head(queue[c]))]
    /\ queue' = [queue EXCEPT ![c] = Tail(@)]
    /\ UNCHANGED <<conn, accepted, pubVars>>

\* The request's context is done, or a write fails after the event was taken.
Disconnect(c) ==
    /\ Move(c, "on", "leaving")
    /\ queue' \in {queue} \cup IF queue[c] = <<>> THEN {} ELSE {[queue EXCEPT ![c] = Tail(@)]}
    /\ UNCHANGED written

HastyUnsubscribe(c) ==      \* faulty: takes no lock
    Move(c, "leaving", "closed") /\ queue' = [queue EXCEPT ![c] = <<>>] /\ UNCHANGED written

\* Removes the channel from the map and closes it.
Unsubscribe(c) ==
    /\ Move(c, "leaving", "closed") /\ Readers = {}
    /\ queue' = [queue EXCEPT ![c] = <<>>] /\ UNCHANGED written

PublisherStep(p) == RLock(p) \/ RUnlock(p) \/ \E c \in Conns : Offer(p, c)
LockStep(c) == Subscribe(c) \/ Unsubscribe(c)

Next ==
    \/ \E p \in Publishers : Publish(p) \/ PublisherStep(p)
    \/ \E c \in Conns : Connect(c) \/ LockStep(c) \/ Receive(c) \/ Disconnect(c)

Spec == Init /\ [][Next]_vars

\* Goroutines that can run do, and the lock is granted to those who wait for it.
\* Nothing obliges a browser to read, or to go away.
FairSpec ==
    /\ Spec
    /\ \A p \in Publishers : WF_vars(PublisherStep(p))
    /\ \A c \in Conns : WF_vars(LockStep(c))

-----------------------------------------------------------------------------
(* Properties                                                              *)

\* Type invariant; no channel holds more than its capacity.
TypeOK ==
    /\ conn \in [Conns -> ConnStates]
    /\ queue \in [Conns -> Seq(Event)] /\ \A c \in Conns : Len(queue[c]) <= bufSz
    /\ accepted \in [Conns -> Seq(Event)] /\ written \in [Conns -> Seq(Event)]
    /\ at \in [Publishers -> {"idle", "lock", "loop"}]
    /\ ev \in [Publishers -> Event \cup {NoEvent}]
    /\ todo \in [Publishers -> SUBSET Conns]
    /\ count \in 0 .. MaxEvents /\ published \subseteq Event

\* A publisher never sends on a channel that its connection has closed.
NoSendOnClosed == \A p \in Publishers : \A c \in todo[p] : conn[c] # "closed"

\* What a browser was sent, followed by what waits for it, is what its channel
\* accepted: nothing is lost or reordered after it was accepted.
InOrder == \A c \in Conns : conn[c] = "on" => written[c] \o queue[c] = accepted[c]

\* The hub is a lossy broadcast.
Broadcast == INSTANCE LossyBroadcast WITH
                Events <- Event, heard <- accepted
IsLossyBroadcast == Broadcast!Spec

\* Publish never blocks: it returns even if no browser ever reads.
PublishReturns == \A p \in Publishers : at[p] # "idle" ~> at[p] = "idle"
=============================================================================
