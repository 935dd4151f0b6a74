-------------------------- MODULE EventHub_proofs --------------------------
(* What holds of the hub for every set of publishers, connections and       *)
(* events, and every capacity of the channels.                              *)
EXTENDS EventHub, SequenceTheorems, TLAPS

USE HubAssumption

-----------------------------------------------------------------------------
(* The inductive invariant                                                  *)

\* Only a publisher that holds the lock has connections left to visit, and
\* all of them are in the map: no writer got in since it took the lock.
LockHeld ==
    /\ \A p \in Publishers : todo[p] # {} => at[p] = "loop"
    /\ \A p \in Publishers : todo[p] \subseteq Subs

\* A publisher at work has an event of its own, which counts as published.
OwnEvent == \A p \in Publishers : at[p] # "idle" => ev[p] \in published /\ ev[p].from = p

\* Events are numbered in the order of their publication.
Numbered ==
    /\ \A e \in published : e.id <= count
    /\ \A d, e \in published : d.id = e.id => d = e

\* A channel accepts nothing before its connection is in the map.
Untouched ==
    \A c \in Conns : conn[c] \in {"off", "joining"} =>
        accepted[c] = <<>> /\ queue[c] = <<>> /\ written[c] = <<>>

\* A publisher that will visit c has an event newer than all of its own that c accepted.
Newer ==
    \A p \in Publishers, c \in Conns : at[p] = "lock" \/ c \in todo[p] =>
        \A i \in DOMAIN accepted[c] : accepted[c][i].from = p => accepted[c][i].id < ev[p].id

Accepted == \A c \in Conns : \A i \in DOMAIN accepted[c] : accepted[c][i] \in published

Inv == TypeOK /\ LockHeld /\ OwnEvent /\ Numbered /\ Untouched /\ InOrder /\ Accepted /\ Newer

-----------------------------------------------------------------------------
(* Lemmas about channels                                                    *)

LEMMA NoEventIsNone == NoEvent \notin Event
  BY DEF NoEvent, Event

LEMMA AppendToConcat ==
  ASSUME NEW S, NEW s \in Seq(S), NEW t \in Seq(S), NEW e \in S
  PROVE  s \o Append(t, e) = Append(s \o t, e)
  BY ConcatProperties, AppendProperties, SeqEqual

LEMMA HeadMoves ==
  ASSUME NEW S, NEW s \in Seq(S), NEW t \in Seq(S), t # <<>>
  PROVE  Append(s, Head(t)) \o Tail(t) = s \o t
<1>1. Len(t) \in Nat /\ Len(t) > 0 /\ Head(t) = t[1] /\ Head(t) \in S
  BY EmptySeq, LenProperties, HeadTailProperties
<1>2. /\ Append(s, Head(t)) \in Seq(S) /\ Len(Append(s, Head(t))) = Len(s) + 1
      /\ Append(s, Head(t))[Len(s) + 1] = Head(t)
      /\ \A i \in 1 .. Len(s) : Append(s, Head(t))[i] = s[i]
  BY <1>1, AppendProperties
<1>3. /\ Tail(t) \in Seq(S) /\ Len(Tail(t)) = Len(t) - 1
      /\ \A i \in 1 .. Len(Tail(t)) : Tail(t)[i] = t[i + 1]
  BY HeadTailProperties
<1>4. Len(s) \in Nat
  BY LenProperties
<1>5. /\ Append(s, Head(t)) \o Tail(t) \in Seq(S) /\ s \o t \in Seq(S)
      /\ Len(Append(s, Head(t)) \o Tail(t)) = Len(s) + Len(t) /\ Len(s \o t) = Len(s) + Len(t)
  BY <1>1, <1>2, <1>3, <1>4, ConcatProperties
<1>6. ASSUME NEW i \in 1 .. Len(s) + Len(t)
      PROVE  (Append(s, Head(t)) \o Tail(t))[i] = (s \o t)[i]
  <2>1. (s \o t)[i] = IF i <= Len(s) THEN s[i] ELSE t[i - Len(s)]
    BY ConcatProperties
  <2>2. (Append(s, Head(t)) \o Tail(t))[i] =
          IF i <= Len(s) + 1 THEN Append(s, Head(t))[i] ELSE Tail(t)[i - (Len(s) + 1)]
    BY <1>1, <1>2, <1>3, <1>4, ConcatProperties
  <2>3. CASE i <= Len(s)
    BY <2>1, <2>2, <2>3, <1>2, <1>4
  <2>4. CASE i = Len(s) + 1
    BY <2>1, <2>2, <2>4, <1>1, <1>2, <1>4
  <2>5. CASE i > Len(s) + 1
    BY <2>1, <2>2, <2>5, <1>1, <1>3, <1>4
  <2> QED
    BY <2>3, <2>4, <2>5, <1>1, <1>4
<1> QED
  BY <1>5, <1>6, SeqEqual

-----------------------------------------------------------------------------
(* The invariant holds at first, and every action keeps it                  *)

LEMMA InitInv == Init => Inv
<1> SUFFICES ASSUME Init PROVE Inv
  OBVIOUS
<1>1. TypeOK
  BY EmptySeq DEF Init, TypeOK, ConnStates
<1>2. LockHeld /\ OwnEvent /\ Numbered /\ Untouched /\ Accepted /\ Newer
  BY DEF Init, LockHeld, OwnEvent, Numbered, Untouched, Accepted, Newer
<1>3. InOrder
  BY DEF Init, InOrder
<1> QED
  BY <1>1, <1>2, <1>3 DEF Inv

LEMMA PublishInv ==
  ASSUME Inv, NEW p \in Publishers, Publish(p)
  PROVE  Inv'
<1> USE DEF Inv
<1>1. PICK k \in Kinds : LET e == [id |-> count + 1, from |-> p, to |-> k.to, private |-> k.private]
                         IN  ev' = [ev EXCEPT ![p] = e] /\ published' = published \cup {e}
  BY DEF Publish
<1> DEFINE e == [id |-> count + 1, from |-> p, to |-> k.to, private |-> k.private]
<1>2. e \in Event
  BY DEF Publish, TypeOK, Event
<1> HIDE DEF e
<1>3. e.id = count + 1 /\ e.from = p
  BY DEF e
<1>4. ev' = [ev EXCEPT ![p] = e] /\ published' = published \cup {e} /\ count' = count + 1
      /\ at[p] = "idle" /\ at' = [at EXCEPT ![p] = "lock"]
  BY <1>1 DEF e, Publish
<1>5. UNCHANGED <<conn, queue, accepted, written, todo>>
  BY DEF Publish, connVars
<1>6. TypeOK'
  BY <1>2, <1>4, <1>5 DEF TypeOK, Publish
<1>7. LockHeld'
  BY <1>4, <1>5 DEF LockHeld, TypeOK, Subs
<1>8. OwnEvent'
  BY <1>3, <1>4 DEF OwnEvent, TypeOK
<1>9. Numbered'
  BY <1>2, <1>3, <1>4 DEF Numbered, TypeOK, Event
<1>10. Untouched' /\ InOrder' /\ Accepted'
  BY <1>4, <1>5 DEF Untouched, InOrder, Accepted
<1>11. \A c \in Conns : \A i \in DOMAIN accepted[c] : accepted[c][i] \in Event /\ accepted[c][i].id < e.id
  BY <1>3 DEF Accepted, Numbered, TypeOK, Event
<1>12. Newer'
  <2> SUFFICES ASSUME NEW q \in Publishers, NEW c \in Conns, at'[q] = "lock" \/ c \in todo'[q],
                      NEW i \in DOMAIN accepted[c], accepted[c][i].from = q
               PROVE  accepted[c][i].id < ev'[q].id
    BY <1>5 DEF Newer
  <2>1. CASE q = p
    BY <2>1, <1>4, <1>11 DEF TypeOK
  <2>2. CASE q # p
    BY <2>2, <1>4, <1>5 DEF Newer, TypeOK
  <2> QED
    BY <2>1, <2>2
<1> QED
  BY <1>6, <1>7, <1>8, <1>9, <1>10, <1>12

LEMMA RLockInv ==
  ASSUME Inv, NEW p \in Publishers, RLock(p)
  PROVE  Inv'
<1> USE DEF Inv
<1>1. TypeOK'
  BY DEF RLock, TypeOK, connVars, Subs
<1>2. LockHeld'
  BY DEF RLock, LockHeld, TypeOK, connVars, Subs
<1>3. OwnEvent' /\ Numbered' /\ Untouched' /\ InOrder' /\ Accepted'
  BY DEF RLock, OwnEvent, Numbered, Untouched, InOrder, Accepted, TypeOK, connVars
<1>4. Newer'
  BY DEF RLock, Newer, TypeOK, connVars
<1> QED
  BY <1>1, <1>2, <1>3, <1>4

LEMMA RUnlockInv ==
  ASSUME Inv, NEW p \in Publishers, RUnlock(p)
  PROVE  Inv'
<1> USE DEF Inv
<1>1. TypeOK'
  BY DEF RUnlock, TypeOK, connVars
<1>2. LockHeld'
  BY DEF RUnlock, LockHeld, TypeOK, connVars, Subs
<1>3. OwnEvent' /\ Numbered' /\ Untouched' /\ InOrder' /\ Accepted'
  BY DEF RUnlock, OwnEvent, Numbered, Untouched, InOrder, Accepted, TypeOK, connVars
<1>4. Newer'
  BY DEF RUnlock, Newer, TypeOK, connVars
<1> QED
  BY <1>1, <1>2, <1>3, <1>4

LEMMA OfferInv ==
  ASSUME Inv, NEW p \in Publishers, NEW c \in Conns, Offer(p, c)
  PROVE  Inv'
<1> USE DEF Inv
<1>1. /\ at[p] = "loop" /\ c \in todo[p] /\ todo' = [todo EXCEPT ![p] = @ \ {c}]
      /\ UNCHANGED <<conn, written, at, ev, count, published>>
  BY DEF Offer, Visit
<1>2. LockHeld' /\ OwnEvent' /\ Numbered'
  BY <1>1 DEF LockHeld, OwnEvent, Numbered, TypeOK, Subs
<1>3. CASE UNCHANGED <<queue, accepted>>
  BY <1>1, <1>2, <1>3 DEF TypeOK, Untouched, InOrder, Accepted, Newer
<1>4. CASE Len(queue[c]) < bufSz /\ Put(c, queue[c], ev[p])
  <2>1. /\ queue' = [queue EXCEPT ![c] = Append(queue[c], ev[p])]
        /\ accepted' = [accepted EXCEPT ![c] = Append(accepted[c], ev[p])]
    BY <1>4 DEF Put
  <2>2. ev[p] \in published /\ ev[p] \in Event /\ ev[p].from = p
    BY <1>1 DEF OwnEvent, TypeOK
  <2>3. queue[c] \in Seq(Event) /\ accepted[c] \in Seq(Event) /\ written[c] \in Seq(Event)
    BY DEF TypeOK
  <2>4. /\ Append(queue[c], ev[p]) \in Seq(Event) /\ Append(accepted[c], ev[p]) \in Seq(Event)
        /\ Len(Append(queue[c], ev[p])) = Len(queue[c]) + 1
    BY <2>2, <2>3, AppendProperties
  <2>5. Len(Append(queue[c], ev[p])) <= bufSz
    BY <2>3, <2>4, <1>4, LenProperties
  <2>6. TypeOK'
    BY <1>1, <2>1, <2>4, <2>5 DEF TypeOK
  <2>7. conn[c] \in {"on", "leaving"}
    BY <1>1 DEF LockHeld, Subs
  <2>8. Untouched'
    BY <1>1, <2>1, <2>7 DEF Untouched, TypeOK
  <2>9. InOrder'
    <3>1. written[c] \o Append(queue[c], ev[p]) = Append(written[c] \o queue[c], ev[p])
      <4>1. ev[p] \in Event /\ queue[c] \in Seq(Event) /\ written[c] \in Seq(Event)
        BY <2>2, <2>3
      <4>2. ASSUME NEW s \in Seq(Event), NEW t \in Seq(Event), NEW e \in Event
            PROVE  s \o Append(t, e) = Append(s \o t, e)
        BY AppendToConcat
      <4> QED
        BY <4>1, <4>2, Zenon
    <3>2. \A d \in Conns \ {c} : queue'[d] = queue[d] /\ accepted'[d] = accepted[d]
      BY <2>1 DEF TypeOK
    <3>3. queue'[c] = Append(queue[c], ev[p]) /\ accepted'[c] = Append(accepted[c], ev[p])
      BY <2>1 DEF TypeOK
    <3>4. ASSUME conn[c] = "on" PROVE written[c] \o queue'[c] = accepted'[c]
      BY <3>1, <3>3, <3>4 DEF InOrder
    <3> QED
      BY <3>2, <3>4, <1>1 DEF InOrder
  <2>10. /\ DOMAIN Append(accepted[c], ev[p]) = DOMAIN accepted[c] \cup {Len(accepted[c]) + 1}
         /\ Append(accepted[c], ev[p])[Len(accepted[c]) + 1] = ev[p]
         /\ \A i \in DOMAIN accepted[c] : Append(accepted[c], ev[p])[i] = accepted[c][i]
    BY <2>2, <2>3, <2>4, LenProperties, AppendProperties
  <2>11. Accepted'
    BY <1>1, <2>1, <2>2, <2>10 DEF Accepted, TypeOK
  <2>12. Newer'
    <3> SUFFICES ASSUME NEW q \in Publishers, NEW d \in Conns, at'[q] = "lock" \/ d \in todo'[q],
                        NEW i \in DOMAIN accepted'[d], accepted'[d][i].from = q
                 PROVE  accepted'[d][i].id < ev'[q].id
      BY DEF Newer
    <3>1. q # p \/ d # c
      BY <1>1 DEF TypeOK
    <3>2. at[q] = "lock" \/ d \in todo[q]
      BY <1>1 DEF TypeOK
    <3>3. CASE d # c
      BY <3>2, <3>3, <1>1, <2>1 DEF Newer, TypeOK
    <3>4. CASE d = c /\ q # p
      <4>1. i \in DOMAIN accepted[c] /\ accepted'[d][i] = accepted[c][i]
        BY <3>4, <2>1, <2>2, <2>10 DEF TypeOK
      <4> QED
        BY <4>1, <3>2, <3>4, <1>1 DEF Newer
    <3> QED
      BY <3>1, <3>3, <3>4
  <2> QED
    BY <1>2, <2>6, <2>8, <2>9, <2>11, <2>12
<1> QED
  BY <1>3, <1>4 DEF Offer

\* While a reader is in its loop nobody subscribes or unsubscribes; the other
\* steps of a connection do not change whether it is in the map.
LEMMA MoveInv ==
  ASSUME Inv, NEW c \in Conns, NEW from \in ConnStates, NEW to \in ConnStates,
         Move(c, from, to), TypeOK', InOrder', Untouched',
         Readers = {} \/ Subs' = Subs
  PROVE  Inv'
<1> USE DEF Inv
<1>1. UNCHANGED <<accepted, at, ev, todo, count, published>>
  BY DEF Move, pubVars
<1>2. LockHeld'
  <2>1. CASE Readers = {}
    BY <2>1, <1>1 DEF LockHeld, Readers
  <2>2. CASE Subs' = Subs
    BY <2>2, <1>1 DEF LockHeld
  <2> QED
    BY <2>1, <2>2
<1>3. OwnEvent' /\ Numbered' /\ Accepted' /\ Newer'
  BY <1>1 DEF OwnEvent, Numbered, Accepted, Newer
<1> QED
  BY <1>2, <1>3

LEMMA ConnectInv ==
  ASSUME Inv, NEW c \in Conns, Connect(c)
  PROVE  Inv'
<1> USE DEF Inv, Connect, Move
<1>1. TypeOK'
  BY DEF TypeOK, ConnStates, pubVars
<1>2. InOrder' /\ Untouched'
  BY DEF InOrder, Untouched, TypeOK, pubVars
<1>3. Subs' = Subs
  BY DEF Subs, TypeOK
<1> QED
  BY <1>1, <1>2, <1>3, MoveInv DEF ConnStates

LEMMA SubscribeInv ==
  ASSUME Inv, NEW c \in Conns, Subscribe(c)
  PROVE  Inv'
<1> USE DEF Inv, Subscribe, Move
<1>1. TypeOK'
  BY DEF TypeOK, ConnStates, pubVars
<1>2. Untouched'
  BY DEF Untouched, TypeOK, pubVars
<1>3. InOrder'
  BY DEF InOrder, Untouched, TypeOK, pubVars
<1> QED
  BY <1>1, <1>2, <1>3, MoveInv DEF ConnStates

LEMMA ReceiveInv ==
  ASSUME Inv, NEW c \in Conns, Receive(c)
  PROVE  Inv'
<1> USE DEF Inv
<1>1. /\ conn[c] = "on" /\ queue[c] # <<>>
      /\ written' = [written EXCEPT ![c] = Append(written[c], Head(queue[c]))]
      /\ queue' = [queue EXCEPT ![c] = Tail(queue[c])]
      /\ UNCHANGED <<conn, accepted, at, ev, todo, count, published>>
  BY DEF Receive, pubVars
<1>2. queue[c] \in Seq(Event) /\ written[c] \in Seq(Event) /\ Len(queue[c]) <= bufSz
  BY DEF TypeOK
<1>3. /\ Append(written[c], Head(queue[c])) \in Seq(Event) /\ Tail(queue[c]) \in Seq(Event)
      /\ Len(Tail(queue[c])) = Len(queue[c]) - 1
  BY <1>1, <1>2, AppendProperties, HeadTailProperties
<1>4. Len(Tail(queue[c])) <= bufSz
  BY <1>2, <1>3, LenProperties
<1>5. TypeOK'
  BY <1>1, <1>3, <1>4 DEF TypeOK
<1>6. InOrder'
  <2>1. Append(written[c], Head(queue[c])) \o Tail(queue[c]) = written[c] \o queue[c]
    BY <1>1, <1>2, HeadMoves
  <2>2. \A d \in Conns \ {c} : queue'[d] = queue[d] /\ written'[d] = written[d]
    BY <1>1 DEF TypeOK
  <2>3. written'[c] = Append(written[c], Head(queue[c])) /\ queue'[c] = Tail(queue[c])
    BY <1>1 DEF TypeOK
  <2>4. written'[c] \o queue'[c] = accepted[c]
    BY <2>1, <2>3, <1>1 DEF InOrder
  <2> QED
    BY <2>2, <2>4, <1>1 DEF InOrder
<1>7. LockHeld' /\ OwnEvent' /\ Numbered' /\ Accepted' /\ Newer'
  BY <1>1 DEF LockHeld, OwnEvent, Numbered, Accepted, Newer, Subs
<1>8. Untouched'
  BY <1>1 DEF Untouched, TypeOK
<1> QED
  BY <1>5, <1>6, <1>7, <1>8

LEMMA DisconnectInv ==
  ASSUME Inv, NEW c \in Conns, Disconnect(c)
  PROVE  Inv'
<1> USE DEF Inv
<1>1. conn[c] = "on" /\ conn' = [conn EXCEPT ![c] = "leaving"] /\ written' = written
      /\ UNCHANGED <<accepted, at, ev, todo, count, published>>
  BY DEF Disconnect, Move, pubVars
<1>2. \/ queue' = queue
      \/ queue[c] # <<>> /\ queue' = [queue EXCEPT ![c] = Tail(queue[c])]
  BY DEF Disconnect
<1>3. queue' \in [Conns -> Seq(Event)] /\ \A d \in Conns : Len(queue'[d]) <= bufSz
  <2>1. queue[c] # <<>> => Tail(queue[c]) \in Seq(Event) /\ Len(Tail(queue[c])) <= bufSz
    BY HeadTailProperties, LenProperties DEF TypeOK
  <2> QED
    BY <2>1, <1>2 DEF TypeOK
<1>4. TypeOK'
  BY <1>1, <1>3 DEF TypeOK, ConnStates
<1>5. \A d \in Conns \ {c} : queue'[d] = queue[d] /\ conn'[d] = conn[d]
  BY <1>1, <1>2 DEF TypeOK
<1>6. InOrder' /\ Untouched'
  BY <1>1, <1>5 DEF InOrder, Untouched, TypeOK
<1>7. Subs' = Subs
  BY <1>1 DEF Subs, TypeOK
<1> QED
  BY <1>4, <1>6, <1>7, MoveInv DEF Disconnect, ConnStates

LEMMA UnsubscribeInv ==
  ASSUME Inv, NEW c \in Conns, Unsubscribe(c)
  PROVE  Inv'
<1> USE DEF Inv, Unsubscribe, Move
<1>1. TypeOK'
  BY EmptySeq DEF TypeOK, ConnStates, pubVars
<1>2. Untouched' /\ InOrder'
  BY DEF InOrder, Untouched, TypeOK, pubVars
<1> QED
  BY <1>1, <1>2, MoveInv DEF ConnStates

LEMMA StepInv == Inv /\ [Next]_vars => Inv'
<1> SUFFICES ASSUME Inv, [Next]_vars PROVE Inv'
  OBVIOUS
<1>1. ASSUME NEW p \in Publishers, Publish(p) \/ PublisherStep(p) PROVE Inv'
  BY <1>1, PublishInv, RLockInv, RUnlockInv, OfferInv DEF PublisherStep
<1>2. ASSUME NEW c \in Conns, Connect(c) \/ LockStep(c) \/ Receive(c) \/ Disconnect(c) PROVE Inv'
  BY <1>2, ConnectInv, SubscribeInv, UnsubscribeInv, ReceiveInv, DisconnectInv DEF LockStep
<1>3. CASE UNCHANGED vars
  BY <1>3 DEF vars, connVars, pubVars, Inv, TypeOK, LockHeld, OwnEvent, Numbered, Untouched,
              InOrder, Accepted, Newer, Subs
<1> QED
  BY <1>1, <1>2, <1>3 DEF Next

LEMMA Invariant == Spec => []Inv
  BY InitInv, StepInv, PTL DEF Spec

-----------------------------------------------------------------------------
(* The results                                                              *)

\* Every variable of the hub keeps its type; no channel exceeds its capacity.
THEOREM TypeCorrect == Spec => []TypeOK
<1>1. Inv => TypeOK
  BY DEF Inv
<1> QED
  BY <1>1, Invariant, PTL

\* However publishers and disconnections interleave, none sends on a closed channel.
THEOREM NeverPanics == Spec => []NoSendOnClosed
<1>1. Inv => NoSendOnClosed
  BY DEF Inv, LockHeld, Subs, NoSendOnClosed, TypeOK
<1> QED
  BY <1>1, Invariant, PTL

\* A connection is written what its channel accepted, in that order.
THEOREM NothingLostOnceAccepted == Spec => []InOrder
<1>1. Inv => InOrder
  BY DEF Inv
<1> QED
  BY <1>1, Invariant, PTL

\* Every behaviour of the hub is one of the lossy broadcast: nobody hears what is
\* not for him, nor anything twice, nor one publisher's events out of order.
THEOREM Refinement == Spec => IsLossyBroadcast
<1>1. Init => Broadcast!Init
  BY DEF Init, Broadcast!Init
<1>2. Inv /\ [Next]_vars => [Broadcast!Next]_(Broadcast!vars)
  <2> SUFFICES ASSUME Inv, [Next]_vars
               PROVE  Broadcast!Next \/ (UNCHANGED <<published, accepted>>)
    BY DEF Broadcast!vars
  <2>1. ASSUME NEW p \in Publishers, Publish(p) PROVE Broadcast!Next
    <3>1. PICK k \in Kinds :
            published' = published \cup {[id |-> count + 1, from |-> p, to |-> k.to, private |-> k.private]}
      BY <2>1 DEF Publish
    <3> DEFINE e == [id |-> count + 1, from |-> p, to |-> k.to, private |-> k.private]
    <3>2. e \in Event
      BY <2>1 DEF Publish, Inv, TypeOK, Event
    <3>3. \A d \in published : d.id # e.id
      BY DEF Inv, Numbered, TypeOK, Event
    <3>4. Broadcast!Publish(e)
      BY <2>1, <3>1, <3>3 DEF Broadcast!Publish, Publish, connVars
    <3> QED
      BY <3>2, <3>4 DEF Broadcast!Next
  <2>2. ASSUME NEW p \in Publishers, NEW c \in Conns, Offer(p, c)
        PROVE  Broadcast!Next \/ (UNCHANGED <<published, accepted>>)
    <3>1. /\ at[p] = "loop" /\ c \in todo[p] /\ published' = published
      BY <2>2 DEF Offer, Visit
    <3>2. ev[p] \in published /\ ev[p] \in Event /\ ev[p].from = p
      BY <3>1 DEF Inv, OwnEvent, TypeOK
    <3>3. CASE ShouldDeliver(c, ev[p]) /\ Put(c, queue[c], ev[p])
      <4>1. ASSUME NEW i \in DOMAIN accepted[c]
            PROVE  /\ accepted[c][i].id # ev[p].id
                   /\ accepted[c][i].from = ev[p].from => accepted[c][i].id < ev[p].id
        <5>1. accepted[c][i] \in published /\ accepted[c][i] \in Event
          BY DEF Inv, Accepted, TypeOK
        <5>2. accepted[c][i].from = p => accepted[c][i].id < ev[p].id
          BY <3>1 DEF Inv, Newer
        <5>3. accepted[c][i].id = ev[p].id => accepted[c][i] = ev[p]
          BY <5>1, <3>2 DEF Inv, Numbered
        <5> QED
          BY <5>1, <5>2, <5>3, <3>2 DEF Event
      <4>2. accepted' = [accepted EXCEPT ![c] = Append(accepted[c], ev[p])]
        BY <3>3 DEF Put
      <4>3. c \in Broadcast!Audience(ev[p])
        BY <3>3 DEF Broadcast!Audience, ShouldDeliver
      <4>4. Broadcast!Hear(c, ev[p])
        BY <3>1, <3>2, <4>1, <4>2, <4>3 DEF Broadcast!Hear
      <4> QED
        BY <3>2, <4>4 DEF Broadcast!Next
    <3>4. CASE UNCHANGED <<queue, accepted>>
      BY <3>1, <3>4
    <3> QED
      BY <2>2, <3>3, <3>4 DEF Offer
  <2>3. ASSUME NEW p \in Publishers, RLock(p) \/ RUnlock(p)
        PROVE  UNCHANGED <<published, accepted>>
    BY <2>3 DEF RLock, RUnlock, connVars
  <2>4. ASSUME NEW c \in Conns, Connect(c) \/ LockStep(c) \/ Receive(c) \/ Disconnect(c)
        PROVE  UNCHANGED <<published, accepted>>
    BY <2>4 DEF Connect, LockStep, Subscribe, Unsubscribe, Receive, Disconnect, Move, pubVars
  <2>5. CASE UNCHANGED vars
    BY <2>5 DEF vars, connVars, pubVars
  <2> QED
    BY <2>1, <2>2, <2>3, <2>4, <2>5 DEF Next, PublisherStep
<1> QED
  BY <1>1, <1>2, Invariant, PTL DEF Spec, IsLossyBroadcast, Broadcast!Spec
=============================================================================
