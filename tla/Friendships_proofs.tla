------------------------- MODULE Friendships_proofs -------------------------
(* What holds of accounts and friendships for any people and addresses, any *)
(* databases to start from, any number of calls at once and any failures,   *)
(* and that the friends feature implements FriendGraph.                     *)
EXTENDS Friendships, Accounts_proofs

USE FriendsAssumption

-----------------------------------------------------------------------------
(* The invariant                                                            *)

Debts == Accounts \X (Announced \cup Silent)

Edges ==
    /\ edge \in [Pairs -> Edge] /\ invites \subseteq Emails \X Accounts
    /\ \A p \in Pairs : IF edge[p].status = "none" THEN edge[p] = NoEdge ELSE edge[p].by \in p
    /\ agreed \subseteq Accounts \X Accounts /\ untold \subseteq Debts

\* Whoever waits for a count that is announced is on the list of some call.
Told == failures = 0 => \A d \in untold : d[2] \notin Silent => \E c \in Calls : d[1] \in call[c].tell

FriendsInv == AccountsInv /\ Edges /\ FriendsConsent /\ Told

-----------------------------------------------------------------------------
(* Pairs and calls                                                          *)

\* A change is owed to those it concerns, and nothing else is.
LEMMA ChangedIs ==
  ASSUME FriendsInv, NEW S \in SUBSET Accounts, NEW why \in Announced \cup Silent, Changed(S, why)
  PROVE  /\ untold' \subseteq Debts
         /\ \A d \in untold' : d \in untold \/ (d[1] \in S /\ d[2] = why)
  BY DEF FriendsInv, Edges, Debts, Changed

LEMMA PairsAre ==
  /\ \A a, b \in Accounts : a # b => {a, b} \in Pairs
  /\ \A p \in Pairs : \E a, b \in Accounts : a # b /\ p = {a, b}
  /\ \A p \in Pairs : p \subseteq Accounts
  BY DEF Pairs

LEMMA NoEdgeIs == NoEdge \in Edge /\ NoEdge.status = "none" /\ NoEdge.by = NoOne
  BY DEF NoEdge, Edge

\* A step of a call of the friends page: it ends, goes on, or has somebody to tell.
LEMMA EndsInv ==
  ASSUME AccountsInv, NEW c \in Calls, Done(c), UNCHANGED accountVars, asked' \in Nat, failures' \in Nat
  PROVE  /\ AccountsInv' /\ call'[c].tell = {} /\ \A d \in Calls \ {c} : call'[d] = call[d]
<1>1. AccountsInv'
  BY EndInv
<1>2. call' = [call EXCEPT ![c] = Idle] /\ call \in [Calls -> Sound] /\ Idle \in Sound /\ Idle.tell = {}
  BY IdleIsSound DEF Done, AccountsInv, Typed, Idle
<1>3. call'[c] = Idle /\ \A d \in Calls \ {c} : call'[d] = call[d]
  BY <1>2, CallSet
<1> QED
  BY <1>1, <1>2, <1>3

LEMMA GoesOnInv ==
  ASSUME AccountsInv, NEW c \in Calls, NEW k \in Call, call' = [call EXCEPT ![c] = k],
         call[c].op \in FriendOps, k.op = call[c].op, k.me = call[c].me, k.email = call[c].email,
         k.token = call[c].token, k.at # "mail",
         Meets(k) => k.who \in Accounts /\ k.me # k.who, k.tell # {} => k.at = "tell",
         UNCHANGED accountVars, asked' \in Nat, failures' \in Nat
  PROVE  /\ AccountsInv' /\ call'[c] = k /\ \A d \in Calls \ {c} : call'[d] = call[d]
<1>1. call \in [Calls -> Sound] /\ call[c] \in Sound /\ call[c].token <= serial
  BY DEF AccountsInv, Typed, Tokens
<1>2. k \in Sound
  BY <1>1 DEF Sound, Informed, MailOps, FriendOps, AdminOps
<1>3. k.op \notin AdminOps /\ k.op # "signIn" /\ ~(k.op \in {"addEmail", "resend"} /\ k.at = "mail")
  BY DEF FriendOps, AdminOps
<1>4. AccountsInv'
  BY <1>1, <1>2, <1>3, CallStep
<1> QED
  BY <1>1, <1>2, <1>4, CallSet

LEMMA TellInv ==
  ASSUME AccountsInv, NEW c \in Calls, NEW S \in SUBSET Accounts, Tell(c, S), call[c].op \in FriendOps,
         UNCHANGED accountVars, asked' \in Nat, failures' \in Nat
  PROVE  /\ AccountsInv' /\ call'[c].tell = S /\ \A d \in Calls \ {c} : call'[d] = call[d]
<1> DEFINE k == [call[c] EXCEPT !.at = "tell", !.tell = S]
<1>1. call[c] \in Sound
  BY DEF AccountsInv, Typed
<1>2. /\ k \in Call /\ k.op = call[c].op /\ k.me = call[c].me /\ k.email = call[c].email /\ k.who = call[c].who
      /\ k.token = call[c].token /\ k.at = "tell" /\ k.tell = S
  BY <1>1, ZenonT(60) DEF Sound, Call, Steps
<1>3. call' = [call EXCEPT ![c] = k]
  BY DEF Tell
<1> HIDE DEF k
<1>4. Meets(k) => k.who \in Accounts /\ k.me # k.who
  BY <1>1, <1>2 DEF Sound, Informed, Meets
<1>5. AccountsInv' /\ call'[c] = k /\ \A d \in Calls \ {c} : call'[d] = call[d]
  BY <1>2, <1>3, <1>4, GoesOnInv
<1> QED
  BY <1>2, <1>5

LEMMA ContinuesInv ==
  ASSUME AccountsInv, NEW c \in Calls, NEW at \in {"queue", "locked"}, Continue(c, at), call[c].op = "invite",
         at = "locked" => call[c].at = "insert", call[c].at # "tell",
         UNCHANGED accountVars, asked' \in Nat, failures' \in Nat
  PROVE  /\ AccountsInv' /\ call[c].tell = {} /\ \A d \in Calls \ {c} : call'[d] = call[d]
<1> DEFINE k == [call[c] EXCEPT !.at = at]
<1>1. call[c] \in Sound /\ call[c].op \in FriendOps
  BY DEF AccountsInv, Typed, FriendOps
<1>2. /\ k \in Call /\ k.op = call[c].op /\ k.me = call[c].me /\ k.email = call[c].email /\ k.who = call[c].who
      /\ k.token = call[c].token /\ k.at = at /\ k.tell = call[c].tell
  BY <1>1, ZenonT(60) DEF Sound, Call, Steps
<1>3. call' = [call EXCEPT ![c] = k]
  BY DEF Continue
<1> HIDE DEF k
<1>4. (Meets(k) => k.who \in Accounts /\ k.me # k.who) /\ call[c].tell = {}
  BY <1>1, <1>2 DEF Sound, Informed, Meets
<1>5. AccountsInv' /\ call'[c] = k /\ \A d \in Calls \ {c} : call'[d] = call[d]
  BY <1>1, <1>2, <1>3, <1>4, GoesOnInv
<1> QED
  BY <1>4, <1>5

-----------------------------------------------------------------------------
(* Steps of the friends page                                                *)

\* A step after which the same people are friends and the same wait for a count.
LEMMA Quiet ==
  ASSUME FriendsInv, AccountsInv', UNCHANGED <<edge, agreed, untold>>, invites' \subseteq Emails \X Accounts,
         NEW c \in Calls, failures' = 0 => failures = 0 /\ call[c].tell = {},
         \A d \in Calls \ {c} : call'[d] = call[d]
  PROVE  FriendsInv'
<1>1. Edges' /\ FriendsConsent'
  BY DEF FriendsInv, Edges, FriendsConsent
<1>2. Told'
  BY DEF FriendsInv, Told
<1> QED
  BY <1>1, <1>2 DEF FriendsInv

\* What a step of a call knows, and leaves.
LEMMA Context ==
  ASSUME FriendsInv, NEW c \in Calls
  PROVE  /\ AccountsInv /\ call[c] \in Sound /\ asked \in Nat /\ failures \in Nat
         /\ Served => asked' \in Nat /\ failures' = failures /\ failures' \in Nat
         /\ call[c].at # "tell" => call[c].tell = {}
         /\ call[c].op = "invite" => call[c].me \in Accounts /\ call[c].email \in Emails
         /\ Meets(call[c]) => /\ call[c].me \in Accounts /\ call[c].who \in Accounts
                              /\ call[c].me # call[c].who /\ Mine(c) \in Pairs /\ Mine(c) \subseteq Accounts
  BY PairsAre DEF FriendsInv, AccountsInv, Typed, AccountsTypeOK, Served, Sound, Informed, Meets, Mine,
                  MailOps, FriendOps

LEMMA AskAsFriendInv ==
  ASSUME FriendsInv, NEW c \in Calls, AskAsFriend(c)
  PROVE  FriendsInv'
<1>1. PICK a \in Accounts :
        /\ \/ \E e \in Emails :
                 \/ Start(c, [Idle EXCEPT !.op = "invite", !.at = "lookup", !.me = a, !.email = e])
                 \/ Start(c, [Idle EXCEPT !.op = "cancel", !.at = "write", !.me = a, !.email = e])
           \/ \E b \in Accounts \ {a} :
                 \/ Start(c, [Idle EXCEPT !.op = "accept", !.at = "write", !.me = a, !.who = b])
                 \/ Start(c, [Idle EXCEPT !.op = "remove", !.at = "write", !.me = a, !.who = b])
        /\ UNCHANGED <<accountVars, friendVars>>
  BY Zenon DEF AskAsFriend
<1>2. ASSUME NEW k \in Sound, Start(c, k), k.op \notin AdminOps \cup {"signIn"}, k.at # "mail", k.token = 0
      PROVE  FriendsInv'
  <2>1. AccountsInv'
    BY <1>1, <1>2, StartInv DEF FriendsInv
  <2>3. call[c].tell = {} /\ failures' = failures
    BY <1>2 DEF Start, Idle
  <2>2. \A d \in Calls \ {c} : call'[d] = call[d]
    BY <1>2, CallSet, Context DEF Start, FriendsInv, AccountsInv, Typed
  <2> QED
    BY <1>1, <2>1, <2>2, <2>3, Quiet DEF friendVars, FriendsInv, Edges
<1>3. ASSUME NEW e \in Emails
      PROVE  /\ Start(c, [Idle EXCEPT !.op = "invite", !.at = "lookup", !.me = a, !.email = e]) => FriendsInv'
             /\ Start(c, [Idle EXCEPT !.op = "cancel", !.at = "write", !.me = a, !.email = e]) => FriendsInv'
  <2> DEFINE k == [Idle EXCEPT !.op = "invite", !.at = "lookup", !.me = a, !.email = e]
             l == [Idle EXCEPT !.op = "cancel", !.at = "write", !.me = a, !.email = e]
  <2>1. k \in Sound /\ k.op \notin AdminOps \cup {"signIn"} /\ k.at # "mail" /\ k.token = 0
    BY DEF Idle, Sound, Informed, Call, Ops, Steps, Changes, MailOps, FriendOps, AdminOps, Meets
  <2>2. l \in Sound /\ l.op \notin AdminOps \cup {"signIn"} /\ l.at # "mail" /\ l.token = 0
    BY DEF Idle, Sound, Informed, Call, Ops, Steps, Changes, MailOps, FriendOps, AdminOps, Meets
  <2> HIDE DEF k, l
  <2> QED
    BY <1>2, <2>1, <2>2 DEF k, l
<1>4. ASSUME NEW b \in Accounts \ {a}
      PROVE  /\ Start(c, [Idle EXCEPT !.op = "accept", !.at = "write", !.me = a, !.who = b]) => FriendsInv'
             /\ Start(c, [Idle EXCEPT !.op = "remove", !.at = "write", !.me = a, !.who = b]) => FriendsInv'
  <2> DEFINE k == [Idle EXCEPT !.op = "accept", !.at = "write", !.me = a, !.who = b]
             l == [Idle EXCEPT !.op = "remove", !.at = "write", !.me = a, !.who = b]
  <2>1. k \in Sound /\ k.op \notin AdminOps \cup {"signIn"} /\ k.at # "mail" /\ k.token = 0
    BY DEF Idle, Sound, Informed, Call, Ops, Steps, Changes, MailOps, FriendOps, AdminOps, Meets
  <2>2. l \in Sound /\ l.op \notin AdminOps \cup {"signIn"} /\ l.at # "mail" /\ l.token = 0
    BY DEF Idle, Sound, Informed, Call, Ops, Steps, Changes, MailOps, FriendOps, AdminOps, Meets
  <2> HIDE DEF k, l
  <2> QED
    BY <1>2, <2>1, <2>2 DEF k, l
<1> QED
  BY <1>1, <1>3, <1>4, Zenon

LEMMA LookUpTargetInv ==
  ASSUME FriendsInv, NEW c \in Calls, LookUpTarget(c)
  PROVE  FriendsInv'
<1>1. /\ call[c].op = "invite" /\ call[c].at = "lookup" /\ Served /\ UNCHANGED <<accountVars, friendVars>>
      /\ call[c].op \in FriendOps
  BY DEF LookUpTarget, At, FriendOps
<1>2. CASE Continue(c, "queue")
  BY <1>1, <1>2, Context, ContinuesInv, Quiet DEF friendVars, FriendsInv, Edges
<1>3. CASE Done(c)
  BY <1>1, <1>3, Context, EndsInv, Quiet DEF friendVars, FriendsInv, Edges
<1>4. ASSUME NEW b \in Accounts, b # call[c].me, call' = [call EXCEPT ![c].who = b, ![c].at = "insert"]
      PROVE  FriendsInv'
  <2> DEFINE k == [call[c] EXCEPT !.who = b, !.at = "insert"]
  <2>1. /\ k \in Call /\ k.op = call[c].op /\ k.me = call[c].me /\ k.email = call[c].email /\ k.who = b
        /\ k.token = call[c].token /\ k.at = "insert" /\ k.tell = call[c].tell
    <3>1. call[c] \in Sound
      BY Context
    <3> QED
      BY <3>1, ZenonT(60) DEF Sound, Call, Steps
  <2>2. call' = [call EXCEPT ![c] = k]
    BY <1>4
  <2> HIDE DEF k
  <2>3. call[c].tell = {} /\ k.me # k.who
    BY <1>1, <1>4, <2>1, Context
  <2>4. AccountsInv' /\ \A d \in Calls \ {c} : call'[d] = call[d]
    <3>1. AccountsInv /\ asked' \in Nat /\ failures' \in Nat /\ UNCHANGED accountVars
      BY <1>1, Context
    <3>2. k.at # "mail" /\ (k.tell # {} => k.at = "tell") /\ (Meets(k) => k.who \in Accounts /\ k.me # k.who)
      BY <2>1, <2>3
    <3> QED
      BY <1>1, <2>1, <2>2, <3>1, <3>2, GoesOnInv
  <2> QED
    BY <1>1, <2>3, <2>4, Context, Quiet DEF friendVars, FriendsInv, Edges
<1>5. \/ Continue(c, "queue") \/ Done(c)
      \/ \E b \in Accounts : b # call[c].me /\ call' = [call EXCEPT ![c].who = b, ![c].at = "insert"]
  BY Zenon DEF LookUpTarget
<1> QED
  BY <1>2, <1>3, <1>4, <1>5

LEMMA UpsertPendingFriendInviteInv ==
  ASSUME FriendsInv, NEW c \in Calls, UpsertPendingFriendInvite(c)
  PROVE  FriendsInv'
<1>1. /\ call[c].op = "invite" /\ call[c].at = "queue" /\ Served /\ Done(c)
      /\ UNCHANGED <<accountVars, edge, agreed, untold>>
  BY DEF UpsertPendingFriendInvite, At
<1>2. invites' \subseteq Emails \X Accounts
  BY <1>1, Context DEF UpsertPendingFriendInvite, FriendsInv, Edges
<1> QED
  BY <1>1, <1>2, Context, EndsInv, Quiet

\* What is written about two people leaves every other pair alone.
LEMMA EdgeSet ==
  ASSUME FriendsInv, NEW p \in Pairs, NEW r \in Edge, edge' = [edge EXCEPT ![p] = r],
         IF r.status = "none" THEN r = NoEdge ELSE r.by \in p,
         invites' = invites, agreed' \subseteq Accounts \X Accounts, untold' \subseteq Debts
  PROVE  /\ Edges' /\ edge'[p] = r
         /\ \A q \in Pairs \ {p} : edge'[q] = edge[q]
  BY DEF FriendsInv, Edges

LEMMA InsertFriendshipInv ==
  ASSUME FriendsInv, NEW c \in Calls, InsertFriendship(c)
  PROVE  FriendsInv'
<1> DEFINE me == call[c].me
           who == call[c].who
           p == Mine(c)
           r == [status |-> "pending", by |-> me, email |-> call[c].email]
<1>1. /\ call[c].op = "invite" /\ call[c].at = "insert" /\ Served /\ UNCHANGED accountVars
      /\ call[c].op \in FriendOps /\ Meets(call[c])
  BY DEF InsertFriendship, At, FriendOps, Meets
<1>2. /\ me \in Accounts /\ who \in Accounts /\ me # who /\ p \in Pairs /\ p = {me, who}
      /\ call[c].email \in Emails /\ call[c].tell = {}
      /\ AccountsInv /\ asked' \in Nat /\ failures' \in Nat /\ failures' = failures
  BY <1>1, Context DEF Mine
<1>3. CASE Done(c) /\ UNCHANGED friendVars
  BY <1>1, <1>2, <1>3, EndsInv, Quiet DEF friendVars, FriendsInv, Edges
<1>4. CASE Continue(c, "locked") /\ UNCHANGED friendVars
  BY <1>1, <1>2, <1>4, ContinuesInv, Quiet DEF friendVars, FriendsInv, Edges
<1>5. CASE /\ edge' = [edge EXCEPT ![p] = r] /\ agreed' = agreed \cup {<<me, who>>}
           /\ Changed({who}, "asked") /\ Tell(c, {who}) /\ invites' = invites
  <2>0. untold' \subseteq Debts /\ \A d \in untold' : d \in untold \/ d[1] = who
    <3>1. {who} \in SUBSET Accounts /\ Changed({who}, "asked")
      BY <1>2, <1>5
    <3> QED
      BY <3>1, ChangedIs DEF Announced
  <2>1. r \in Edge /\ r.status = "pending" /\ r.by = me
    BY <1>2 DEF Edge
  <2>2. agreed' \subseteq Accounts \X Accounts /\ untold' \subseteq Debts
    BY <1>2, <1>5, <2>0 DEF FriendsInv, Edges
  <2> HIDE DEF r
  <2>3. /\ Edges' /\ edge'[p] = r
        /\ \A q \in Pairs \ {p} : edge'[q] = edge[q]
    BY <1>2, <1>5, <2>1, <2>2, EdgeSet
  <2>4. FriendsConsent'
    <3> SUFFICES ASSUME NEW a \in Accounts, NEW b \in Accounts, a # b
                 PROVE  /\ edge'[{a, b}].status = "accepted" => <<a, b>> \in agreed' /\ <<b, a>> \in agreed'
                        /\ edge'[{a, b}].status = "pending" /\ edge'[{a, b}].by = a => <<a, b>> \in agreed'
      BY DEF FriendsConsent
    <3>1. CASE {a, b} = p
      BY <1>2, <1>5, <2>1, <2>3, <3>1
    <3>2. CASE {a, b} # p
      BY <1>5, <2>3, <3>2, PairsAre DEF FriendsInv, FriendsConsent
    <3> QED
      BY <3>1, <3>2
  <2>5. AccountsInv' /\ call'[c].tell = {who} /\ \A d \in Calls \ {c} : call'[d] = call[d]
    BY <1>1, <1>2, <1>5, TellInv
  <2>6. Told'
    BY <1>2, <2>0, <2>5 DEF FriendsInv, Told
  <2> QED
    BY <2>3, <2>4, <2>5, <2>6 DEF FriendsInv
<1> QED
  BY <1>3, <1>4, <1>5 DEF InsertFriendship

\* Two people who asked each other, or one of whom agreed to what the other asked.
LEMMA Accepted ==
  ASSUME FriendsInv, NEW me \in Accounts, NEW who \in Accounts, me # who,
         edge[{me, who}].status = "pending", edge[{me, who}].by # me,
         edge' = [edge EXCEPT ![{me, who}].status = "accepted"], invites' = invites,
         agreed' = agreed \cup {<<me, who>>}, untold' \subseteq Debts
  PROVE  Edges' /\ FriendsConsent'
<1> DEFINE p == {me, who}
           r == [edge[p] EXCEPT !.status = "accepted"]
<1>1. p \in Pairs /\ edge[p] \in Edge /\ edge[p].by = who
  BY PairsAre DEF FriendsInv, Edges
<1>2. r \in Edge /\ r.status = "accepted" /\ r.by = edge[p].by
  BY <1>1 DEF Edge
<1>3. edge' = [edge EXCEPT ![p] = r] /\ agreed' \subseteq Accounts \X Accounts /\ r.by \in p
  BY <1>1, <1>2 DEF FriendsInv, Edges
<1> HIDE DEF r, p
<1>4. Edges' /\ edge'[p] = r /\ \A q \in Pairs \ {p} : edge'[q] = edge[q]
  BY <1>1, <1>2, <1>3, EdgeSet
<1>5. <<who, me>> \in agreed /\ p = {me, who}
  <2>1. p = {me, who} /\ p = {who, me}
    BY DEF p
  <2> QED
    BY <1>1, <2>1 DEF FriendsInv, FriendsConsent, p
<1>6. FriendsConsent'
  <2> SUFFICES ASSUME NEW a \in Accounts, NEW b \in Accounts, a # b
               PROVE  /\ edge'[{a, b}].status = "accepted" => <<a, b>> \in agreed' /\ <<b, a>> \in agreed'
                      /\ edge'[{a, b}].status = "pending" /\ edge'[{a, b}].by = a => <<a, b>> \in agreed'
    BY DEF FriendsConsent
  <2>1. CASE {a, b} = p
    BY <1>2, <1>4, <1>5, <2>1
  <2>2. CASE {a, b} # p
    BY <1>4, <2>2, PairsAre DEF FriendsInv, FriendsConsent
  <2> QED
    BY <2>1, <2>2
<1> QED
  BY <1>4, <1>6

LEMMA RequestAgainInv ==
  ASSUME FriendsInv, NEW c \in Calls, RequestAgain(c)
  PROVE  FriendsInv'
<1> DEFINE me == call[c].me
           who == call[c].who
           p == Mine(c)
<1>1. /\ call[c].op = "invite" /\ call[c].at = "locked" /\ Served /\ UNCHANGED accountVars
      /\ call[c].op \in FriendOps /\ Meets(call[c])
  BY DEF RequestAgain, At, FriendOps, Meets
<1>2. /\ me \in Accounts /\ who \in Accounts /\ me # who /\ p \in Pairs /\ p = {me, who}
      /\ call[c].tell = {}
      /\ AccountsInv /\ asked' \in Nat /\ failures' \in Nat /\ failures' = failures
  BY <1>1, Context DEF Mine
<1>3. CASE Done(c) /\ UNCHANGED friendVars
  BY <1>1, <1>2, <1>3, EndsInv, Quiet DEF friendVars, FriendsInv, Edges
<1>4. CASE Tell(c, {who}) /\ UNCHANGED friendVars
  BY <1>1, <1>2, <1>4, TellInv, Quiet DEF friendVars, FriendsInv, Edges
<1>5. CASE /\ edge[p].status = "pending" /\ edge[p].by # me
           /\ edge' = [edge EXCEPT ![p].status = "accepted"]
           /\ agreed' = agreed \cup {<<me, who>>}
           /\ Changed(p, "crossed") /\ Done(c) /\ UNCHANGED invites
  <2>0. untold' \subseteq Debts /\ \A d \in untold' : d \in untold \/ d[2] \in Silent
    <3>1. p \in SUBSET Accounts /\ Changed(p, "crossed")
      BY <1>2, <1>5
    <3> HIDE DEF p
    <3> QED
      BY <3>1, ChangedIs DEF Silent
  <2>1. Edges' /\ FriendsConsent'
    BY <1>2, <1>5, <2>0, Accepted
  <2>2. AccountsInv' /\ \A d \in Calls \ {c} : call'[d] = call[d]
    BY <1>1, <1>2, <1>5, EndsInv
  <2>3. Told'
    BY <1>2, <2>0, <2>2 DEF FriendsInv, Told
  <2> QED
    BY <2>1, <2>2, <2>3 DEF FriendsInv
<1> QED
  BY <1>3, <1>4, <1>5 DEF RequestAgain

LEMMA AcceptFriendshipInv ==
  ASSUME FriendsInv, NEW c \in Calls, AcceptFriendship(c)
  PROVE  FriendsInv'
<1> DEFINE me == call[c].me
           who == call[c].who
           p == Mine(c)
<1>1. /\ call[c].op = "accept" /\ call[c].at = "write" /\ Served /\ UNCHANGED accountVars
      /\ call[c].op \in FriendOps /\ Meets(call[c])
  BY DEF AcceptFriendship, At, FriendOps, Meets
<1>2. /\ me \in Accounts /\ who \in Accounts /\ me # who /\ p \in Pairs /\ p = {me, who}
      /\ call[c].tell = {} /\ p \in SUBSET Accounts
      /\ AccountsInv /\ asked' \in Nat /\ failures' \in Nat /\ failures' = failures
  BY <1>1, Context DEF Mine
<1>3. CASE Done(c) /\ UNCHANGED friendVars
  BY <1>1, <1>2, <1>3, EndsInv, Quiet DEF friendVars, FriendsInv, Edges
<1>4. CASE /\ edge[p].status = "pending" /\ edge[p].by # me
           /\ edge' = [edge EXCEPT ![p].status = "accepted"]
           /\ agreed' = agreed \cup {<<me, who>>} /\ Changed(p, "accepted")
           /\ Tell(c, p) /\ UNCHANGED invites
  <2>0. untold' \subseteq Debts /\ \A d \in untold' : d \in untold \/ d[1] \in p
    BY <1>2, <1>4, ChangedIs DEF Announced
  <2>1. Edges' /\ FriendsConsent'
    BY <1>2, <1>4, <2>0, Accepted
  <2>2. AccountsInv' /\ call'[c].tell = p /\ \A d \in Calls \ {c} : call'[d] = call[d]
    BY <1>1, <1>2, <1>4, TellInv
  <2>3. Told'
    BY <1>2, <2>0, <2>2 DEF FriendsInv, Told
  <2> QED
    BY <2>1, <2>2, <2>3 DEF FriendsInv
<1> QED
  BY <1>3, <1>4 DEF AcceptFriendship

LEMMA RemoveFriendshipInv ==
  ASSUME FriendsInv, NEW c \in Calls, RemoveFriendship(c)
  PROVE  FriendsInv'
<1> DEFINE me == call[c].me
           who == call[c].who
           p == Mine(c)
<1>1. /\ call[c].op = "remove" /\ call[c].at = "write" /\ Served /\ UNCHANGED accountVars
      /\ call[c].op \in FriendOps /\ Meets(call[c])
  BY DEF RemoveFriendship, At, FriendOps, Meets
<1>2. /\ me \in Accounts /\ who \in Accounts /\ me # who /\ p \in Pairs /\ p = {me, who}
      /\ call[c].tell = {} /\ p \in SUBSET Accounts
      /\ AccountsInv /\ asked' \in Nat /\ failures' \in Nat /\ failures' = failures
  BY <1>1, Context DEF Mine
<1>3. CASE Done(c) /\ UNCHANGED friendVars
  BY <1>1, <1>2, <1>3, EndsInv, Quiet DEF friendVars, FriendsInv, Edges
<1>4. CASE /\ edge' = [edge EXCEPT ![p] = NoEdge] /\ agreed' = agreed \ (p \X p)
           /\ Changed(p, "removed") /\ Tell(c, p) /\ UNCHANGED invites
  <2>0. untold' \subseteq Debts /\ \A d \in untold' : d \in untold \/ d[1] \in p
    BY <1>2, <1>4, ChangedIs DEF Announced
  <2>1. agreed' \subseteq Accounts \X Accounts /\ untold' \subseteq Debts
    BY <1>2, <1>4, <2>0 DEF FriendsInv, Edges
  <2>2. /\ Edges' /\ edge'[p] = NoEdge
        /\ \A q \in Pairs \ {p} : edge'[q] = edge[q]
    BY <1>2, <1>4, <2>1, NoEdgeIs, EdgeSet
  <2>3. FriendsConsent'
    <3> SUFFICES ASSUME NEW a \in Accounts, NEW b \in Accounts, a # b
                 PROVE  /\ edge'[{a, b}].status = "accepted" => <<a, b>> \in agreed' /\ <<b, a>> \in agreed'
                        /\ edge'[{a, b}].status = "pending" /\ edge'[{a, b}].by = a => <<a, b>> \in agreed'
      BY DEF FriendsConsent
    <3>1. CASE {a, b} = p
      BY <2>2, <3>1, NoEdgeIs
    <3>2. CASE {a, b} # p
      <4>1. <<a, b>> \notin p \X p /\ <<b, a>> \notin p \X p
        BY <1>2, <3>2
      <4>2. {a, b} \in Pairs /\ edge'[{a, b}] = edge[{a, b}]
        BY <2>2, <3>2, PairsAre
      <4>3. /\ edge[{a, b}].status = "accepted" => <<a, b>> \in agreed /\ <<b, a>> \in agreed
            /\ edge[{a, b}].status = "pending" /\ edge[{a, b}].by = a => <<a, b>> \in agreed
        BY DEF FriendsInv, FriendsConsent
      <4> QED
        BY <1>4, <4>1, <4>2, <4>3
    <3> QED
      BY <3>1, <3>2
  <2>4. AccountsInv' /\ call'[c].tell = p /\ \A d \in Calls \ {c} : call'[d] = call[d]
    BY <1>1, <1>2, <1>4, TellInv
  <2>5. Told'
    BY <1>2, <2>0, <2>4 DEF FriendsInv, Told
  <2> QED
    BY <2>2, <2>3, <2>4, <2>5 DEF FriendsInv
<1> QED
  BY <1>3, <1>4 DEF RemoveFriendship

\* Taking every tie of some pairs away, and what was agreed in them.
LEMMA Parted ==
  ASSUME FriendsInv, NEW S \in SUBSET Pairs,
         edge' = [p \in Pairs |-> IF p \in S THEN NoEdge ELSE edge[p]],
         agreed' \subseteq agreed,
         \A ab \in agreed : ab[1] # ab[2] /\ {ab[1], ab[2]} \notin S => ab \in agreed',
         invites' \subseteq Emails \X Accounts, untold' \subseteq Debts
  PROVE  Edges' /\ FriendsConsent'
<1>1. edge' \in [Pairs -> Edge]
  BY NoEdgeIs DEF FriendsInv, Edges
<1>2. \A p \in Pairs : IF edge'[p].status = "none" THEN edge'[p] = NoEdge ELSE edge'[p].by \in p
  BY NoEdgeIs DEF FriendsInv, Edges
<1>3. Edges'
  BY <1>1, <1>2 DEF FriendsInv, Edges
<1>4. FriendsConsent'
  <2> SUFFICES ASSUME NEW a \in Accounts, NEW b \in Accounts, a # b
               PROVE  /\ edge'[{a, b}].status = "accepted" => <<a, b>> \in agreed' /\ <<b, a>> \in agreed'
                      /\ edge'[{a, b}].status = "pending" /\ edge'[{a, b}].by = a => <<a, b>> \in agreed'
    BY DEF FriendsConsent
  <2>1. {a, b} \in Pairs /\ {a, b} = {b, a}
    BY PairsAre
  <2>2. CASE {a, b} \in S
    BY <2>1, <2>2, NoEdgeIs
  <2>3. CASE {a, b} \notin S
    <3>1. edge'[{a, b}] = edge[{a, b}]
      BY <2>1, <2>3
    <3>2. /\ <<a, b>> \in agreed => <<a, b>> \in agreed'
          /\ <<b, a>> \in agreed => <<b, a>> \in agreed'
      BY <2>1, <2>3
    <3>3. /\ edge[{a, b}].status = "accepted" => <<a, b>> \in agreed /\ <<b, a>> \in agreed
          /\ edge[{a, b}].status = "pending" /\ edge[{a, b}].by = a => <<a, b>> \in agreed
      BY DEF FriendsInv, FriendsConsent
    <3> QED
      BY <3>1, <3>2, <3>3
  <2> QED
    BY <2>2, <2>3
<1> QED
  BY <1>3, <1>4

LEMMA CancelOutgoingInviteInv ==
  ASSUME FriendsInv, NEW c \in Calls, CancelOutgoingInvite(c)
  PROVE  FriendsInv'
<1> DEFINE me == call[c].me
           S == {p \in Pairs : /\ edge[p].status = "pending" /\ edge[p].by = me
                               /\ edge[p].email = call[c].email}
<1>1. /\ call[c].at = "write" /\ Done(c) /\ Served /\ UNCHANGED accountVars
      /\ Changed(UNION S, "withdrawn")
      /\ edge' = [p \in Pairs |-> IF p \in S THEN NoEdge ELSE edge[p]]
      /\ invites' \subseteq invites /\ agreed' = {ab \in agreed : {ab[1], ab[2]} \notin S}
  BY DEF CancelOutgoingInvite, At
<1>2. S \in SUBSET Pairs
  OBVIOUS
<1> HIDE DEF S
<1>0. untold' \subseteq Debts /\ \A d \in untold' : d \in untold \/ d[2] \in Silent
  <2>1. UNION S \in SUBSET Accounts
    BY <1>2, PairsAre
  <2> HIDE DEF Changed
  <2> QED
    BY <1>1, <2>1, ChangedIs DEF Silent
<1>3. Edges' /\ FriendsConsent'
  BY <1>0, <1>1, <1>2, Parted DEF FriendsInv, Edges
<1>4. AccountsInv' /\ call[c].tell = {} /\ failures' = failures /\ \A d \in Calls \ {c} : call'[d] = call[d]
  BY <1>1, Context, EndsInv
<1>5. Told'
  BY <1>0, <1>4 DEF FriendsInv, Told
<1> QED
  BY <1>3, <1>4, <1>5 DEF FriendsInv

\* One is struck off the list; the call ends with the last.
LEMMA AfterTellingInv ==
  ASSUME FriendsInv, NEW c \in Calls, NEW a \in call[c].tell, AfterTelling(c, a), UNCHANGED accountVars,
         asked' \in Nat, failures' \in Nat
  PROVE  /\ AccountsInv' /\ call'[c].tell = call[c].tell \ {a}
         /\ \A d \in Calls \ {c} : call'[d] = call[d]
<1> DEFINE rest == call[c].tell \ {a}
           k == [call[c] EXCEPT !.tell = rest]
<1>1. call[c] \in Sound /\ call[c].at = "tell" /\ call[c].op \in FriendOps /\ AccountsInv
  BY Context DEF Sound, Informed
<1>2. CASE rest = {}
  BY <1>1, <1>2, EndsInv DEF AfterTelling
<1>3. CASE rest # {}
  <2>1. /\ k \in Call /\ k.op = call[c].op /\ k.me = call[c].me /\ k.email = call[c].email /\ k.who = call[c].who
        /\ k.token = call[c].token /\ k.at = "tell" /\ k.tell = rest
    BY <1>1, ZenonT(60) DEF Sound, Call, Steps
  <2>2. call' = [call EXCEPT ![c] = k]
    BY <1>3 DEF AfterTelling
  <2> HIDE DEF k
  <2>3. Meets(k) => k.who \in Accounts /\ k.me # k.who
    BY <1>1, <2>1 DEF Sound, Informed, Meets
  <2> QED
    BY <1>1, <2>1, <2>2, <2>3, GoesOnInv
<1> QED
  BY <1>2, <1>3

LEMMA PublishNotificationsInv ==
  ASSUME FriendsInv, NEW c \in Calls, PublishNotifications(c)
  PROVE  FriendsInv'
<1>1. PICK a \in call[c].tell :
        /\ untold' = {d \in untold : d[1] # a} /\ AfterTelling(c, a) /\ Served
        /\ UNCHANGED <<accountVars, edge, invites, agreed>>
  BY DEF PublishNotifications
<1>2. AccountsInv' /\ call'[c].tell = call[c].tell \ {a} /\ \A d \in Calls \ {c} : call'[d] = call[d]
  BY <1>1, Context, AfterTellingInv
<1>3. Edges' /\ FriendsConsent'
  BY <1>1 DEF FriendsInv, Edges, FriendsConsent
<1>4. Told'
  BY <1>1, <1>2, Context DEF FriendsInv, Told
<1> QED
  BY <1>2, <1>3, <1>4 DEF FriendsInv

LEMMA CountFailsInv ==
  ASSUME FriendsInv, NEW c \in Calls, CountFails(c)
  PROVE  FriendsInv'
<1>1. PICK a \in call[c].tell :
        /\ failures' = failures + 1 /\ asked' = asked
        /\ AfterTelling(c, a) /\ UNCHANGED <<accountVars, friendVars>>
  BY DEF CountFails
<1>2. failures' \in Nat /\ failures' # 0 /\ asked' \in Nat
  BY <1>1, Context
<1>3. AccountsInv' /\ \A d \in Calls \ {c} : call'[d] = call[d]
  BY <1>1, <1>2, AfterTellingInv
<1> QED
  BY <1>1, <1>2, <1>3, Quiet DEF friendVars, FriendsInv, Edges

LEMMA FailsInv ==
  ASSUME FriendsInv, NEW c \in Calls, Fails(c)
  PROVE  FriendsInv'
<1>1. Done(c) /\ failures' = failures + 1 /\ asked' = asked /\ UNCHANGED <<accountVars, friendVars>>
  BY DEF Fails
<1>2. failures' \in Nat /\ failures' # 0 /\ asked' \in Nat /\ AccountsInv
  BY <1>1, Context
<1>3. AccountsInv' /\ \A d \in Calls \ {c} : call'[d] = call[d]
  BY <1>1, <1>2, EndsInv
<1> QED
  BY <1>1, <1>2, <1>3, Quiet DEF friendVars, FriendsInv, Edges

-----------------------------------------------------------------------------
(* Steps on accounts                                                        *)

\* What leaves friends alone leaves the calls that have somebody to tell.
LEMMA AccountStepLeaves ==
  ASSUME AccountsInv, NEW c \in Calls, AccountStep(c)
  PROVE  /\ call[c].tell = {} /\ (failures' = 0 => failures = 0)
         /\ \A d \in Calls \ {c} : call'[d] = call[d]
<1>1. call \in [Calls -> Call] /\ call[c] \in Sound /\ failures \in Nat
  BY DEF AccountsInv, Typed, AccountsTypeOK
<1>2. call[c].op \notin FriendOps => call[c].tell = {}
  BY <1>1 DEF Sound, Informed
<1>3. ASSUME NEW k, Start(c, k)
      PROVE  /\ call[c].tell = {} /\ failures' = failures /\ \A d \in Calls \ {c} : call'[d] = call[d]
  BY <1>1, <1>3 DEF Start, Idle
<1>4. CASE AskAsMe(c)
  BY <1>3, <1>4, Zenon DEF AskAsMe
<1>5. CASE AskAsSuperuser(c)
  BY <1>3, <1>5, Zenon DEF AskAsSuperuser
<1>6. CASE BeginSignIn(c)
  BY <1>3, <1>6, Zenon DEF BeginSignIn
<1>7. CASE CountUsers(c) \/ LinkTooLate(c)
  BY <1>1, <1>2, <1>7 DEF CountUsers, LinkTooLate, At, Done, Served, FriendOps
<1>8. CASE FindUser(c)
  <2>1. call[c].op = "signIn" /\ failures' = failures
    BY <1>8 DEF FindUser, At, Served
  <2>2. ASSUME NEW k, call' = [call EXCEPT ![c] = k]
        PROVE  \A d \in Calls \ {c} : call'[d] = call[d]
    BY <1>1, <2>2
  <2>3. \/ Continue(c, "link") \/ Done(c)
        \/ \E a \in FindUserForLogin(call[c].profile).who :
              call' = [call EXCEPT ![c].by = FindUserForLogin(call[c].profile).by, ![c].who = a, ![c].at = "link"]
    BY <1>8, Zenon DEF FindUser
  <2>4. \A d \in Calls \ {c} : call'[d] = call[d]
    BY <1>1, <2>3 DEF Continue, Done
  <2> QED
    BY <1>2, <2>1, <2>4 DEF FriendOps
<1>9. CASE InsertUnverifiedEmail(c) \/ RotateToken(c)
  BY <1>1, <1>2, <1>9 DEF InsertUnverifiedEmail, RotateToken, At, Done, Served, FriendOps
<1>10. CASE ReadForResend(c)
  BY <1>1, <1>2, <1>10 DEF ReadForResend, At, Done, Continue, Served, FriendOps
<1>11. CASE SendVerifyEmail(c)
  BY <1>1, <1>2, <1>11 DEF SendVerifyEmail, At, Done, Served, FriendOps
<1>12. CASE SendFails(c)
  BY <1>1, <1>2, <1>12 DEF SendFails, At, Done, Continue, FriendOps
<1>13. CASE DeleteUserEmail(c) \/ InviteUser(c)
  BY <1>1, <1>2, <1>13 DEF DeleteUserEmail, InviteUser, At, Done, Served, FriendOps
<1>14. CASE UpdateUser(c)
  BY <1>1, <1>2, <1>14 DEF UpdateUser, At, Done, Served, FriendOps
<1> QED
  BY <1>4, <1>5, <1>6, <1>7, <1>8, <1>9, <1>10, <1>11, <1>12, <1>13, <1>14 DEF AccountStep

LEMMA AccountStepInv ==
  ASSUME FriendsInv, NEW c \in Calls, AccountStep(c), UNCHANGED friendVars
  PROVE  FriendsInv'
<1>1. AccountsInv
  BY DEF FriendsInv
<1>2. AccountsInv'
  BY <1>1, AskAsMeInv, AskAsSuperuserInv, BeginSignInInv, CountUsersInv, FindUserInv, LinkTooLateInv,
     InsertUnverifiedEmailInv, ReadForResendInv, RotateTokenInv, SendVerifyEmailInv, SendFailsInv,
     DeleteUserEmailInv, InviteUserInv, UpdateUserInv, Zenon DEF AccountStep
<1>3. /\ failures' = 0 => failures = 0 /\ call[c].tell = {}
      /\ \A d \in Calls \ {c} : call'[d] = call[d]
  BY <1>1, AccountStepLeaves
<1> QED
  BY <1>2, <1>3, Quiet DEF friendVars, FriendsInv, Edges

LEMMA DesertedInv ==
  ASSUME FriendsInv, NEW c \in Calls, NEW b \in Accounts, DeleteUser(c, b), Deserted(b)
  PROVE  FriendsInv'
<1> DEFINE S == {p \in Pairs : b \in p}
<1>1. /\ call[c].op = "deleteUser" /\ call' = [call EXCEPT ![c] = Idle] /\ failures' = failures
      /\ call \in [Calls -> Call] /\ call[c] \in Sound
  BY Context DEF DeleteUser, At, Done, Served, FriendsInv, AccountsInv, Typed, AccountsTypeOK
<1>2. call[c].tell = {} /\ \A d \in Calls \ {c} : call'[d] = call[d]
  BY <1>1 DEF Sound, Informed, FriendOps
<1>3. /\ edge' = [p \in Pairs |-> IF p \in S THEN NoEdge ELSE edge[p]]
      /\ agreed' \subseteq agreed /\ \A ab \in agreed : ab[1] # ab[2] /\ {ab[1], ab[2]} \notin S => ab \in agreed'
      /\ invites' \subseteq Emails \X Accounts /\ untold' \subseteq Debts
      /\ \A d \in untold' : d \in untold \/ d[2] \in Silent
  <2>1. edge' = [p \in Pairs |-> IF p \in S THEN NoEdge ELSE edge[p]]
    BY DEF Deserted
  <2>2. agreed' = {ab \in agreed : b \notin {ab[1], ab[2]}} /\ agreed \subseteq Accounts \X Accounts
    BY DEF Deserted, FriendsInv, Edges
  <2>3. ASSUME NEW ab \in agreed, ab[1] # ab[2], {ab[1], ab[2]} \notin S
        PROVE  ab \in agreed'
    <3>1. ab[1] \in Accounts /\ ab[2] \in Accounts
      BY <2>2
    <3>2. {ab[1], ab[2]} \in Pairs
      BY <2>3, <3>1, PairsAre
    <3> QED
      BY <2>2, <2>3, <3>2
  <2>4. invites' \subseteq Emails \X Accounts
    BY DEF Deserted, FriendsInv, Edges
  <2>5. untold' \subseteq Debts /\ \A d \in untold' : d \in untold \/ d[2] \in Silent
    <3> DEFINE left == UNION {p \in Pairs : b \in p /\ edge[p] # NoEdge}
    <3>1. untold' = {d \in untold \cup (left \X {"left"}) : d[1] # b}
      BY DEF Deserted
    <3>2. left \subseteq Accounts
      BY PairsAre
    <3> HIDE DEF left
    <3> QED
      BY <3>1, <3>2 DEF FriendsInv, Edges, Debts, Silent
  <2> QED
    BY <2>1, <2>2, <2>3, <2>4, <2>5
<1>4. S \in SUBSET Pairs
  OBVIOUS
<1> HIDE DEF S
<1>5. Edges' /\ FriendsConsent'
  BY <1>3, <1>4, Parted
<1>6. AccountsInv'
  BY DeleteUserInv DEF FriendsInv
<1>7. Told'
  BY <1>1, <1>2, <1>3 DEF FriendsInv, Told
<1> QED
  BY <1>5, <1>6, <1>7 DEF FriendsInv

\* Who turns up at proven addresses is a friend of those who wrote there.
LEMMA ConsumeInv ==
  ASSUME FriendsInv, AccountsInv', NEW a \in Accounts, ConsumePendingInvites(a)
  PROVE  Edges' /\ FriendsConsent' /\ \A d \in untold' : d \in untold \/ d[2] \in Silent
<1> DEFINE E == {e \in Emails : addr'[e].owner = a /\ addr'[e].verified}
           shown == {e \in Emails : <<a, e>> \in proven'}
           inviters(X) == {i[2] : i \in {i \in invites : i[1] \in X}} \ {a}
           bound == {p \in Pairs : a \in p /\ p \cap inviters(E) # {}}
           r(p) == IF edge[p] = NoEdge
                   THEN [status |-> "accepted", by |-> CHOOSE b \in p : b # a, email |-> NoEmail]
                   ELSE [edge[p] EXCEPT !.status = "accepted"]
<1>1. /\ edge' = [p \in Pairs |-> IF p \notin bound THEN edge[p] ELSE r(p)]
      /\ invites' = {i \in invites : i[1] \notin E}
      /\ agreed' = agreed \cup ({a} \X inviters(shown)) \cup (inviters(shown) \X {a})
      /\ Changed(UNION {p \in bound : edge[p].status # "accepted"}, "joined")
  BY Zenon DEF ConsumePendingInvites, Consume
<1>0. untold' \subseteq Debts /\ \A d \in untold' : d \in untold \/ d[2] \in Silent
  <2> DEFINE S == UNION {p \in bound : edge[p].status # "accepted"}
  <2>1. S \in SUBSET Accounts
    BY PairsAre
  <2>2. Changed(S, "joined")
    BY <1>1
  <2> HIDE DEF S, bound
  <2> QED
    BY <2>1, <2>2, ChangedIs DEF Silent
<1>2. E \subseteq shown
  BY DEF AccountsInv, AddressProven
<1>3. inviters(E) \subseteq inviters(shown) /\ inviters(shown) \subseteq Accounts
  BY <1>2 DEF FriendsInv, Edges
<1>4. /\ edge \in [Pairs -> Edge] /\ invites \subseteq Emails \X Accounts
      /\ \A p \in Pairs : IF edge[p].status = "none" THEN edge[p] = NoEdge ELSE edge[p].by \in p
      /\ agreed \subseteq Accounts \X Accounts /\ untold \subseteq Debts
  BY DEF FriendsInv, Edges
<1>5. ASSUME NEW p \in bound
      PROVE  r(p) \in Edge /\ r(p).status = "accepted" /\ r(p).by \in p
  <2>1. PICK x \in Accounts, y \in Accounts : x # y /\ p = {x, y}
    BY PairsAre
  <2>2. (CHOOSE b \in p : b # a) \in p
    BY <2>1
  <2>3. p \in Pairs /\ p \subseteq Accounts /\ edge[p] \in Edge
    BY <1>4, PairsAre
  <2>4. CASE edge[p] = NoEdge
    <3> DEFINE w == CHOOSE b \in p : b # a
    <3>1. w \in p
      BY <2>2
    <3> HIDE DEF w
    <3>2. [status |-> "accepted", by |-> w, email |-> NoEmail] \in Edge
      BY <2>3, <3>1 DEF Edge
    <3>3. r(p) = [status |-> "accepted", by |-> w, email |-> NoEmail]
      BY <2>4 DEF w
    <3> QED
      BY <3>1, <3>2, <3>3
  <2>5. CASE edge[p] # NoEdge
    <3>1. edge[p].by \in p
      BY <1>4, <2>3, <2>5
    <3>2. r(p) = [edge[p] EXCEPT !.status = "accepted"]
      BY <2>5
    <3> HIDE DEF r
    <3> QED
      BY <2>3, <3>1, <3>2 DEF Edge
  <2> QED
    BY <2>4, <2>5
<1> HIDE DEF r
<1>6. Edges'
  <2>1. edge' \in [Pairs -> Edge]
    BY <1>1, <1>4, <1>5
  <2>2. \A p \in Pairs : IF edge'[p].status = "none" THEN edge'[p] = NoEdge ELSE edge'[p].by \in p
    BY <1>1, <1>4, <1>5
  <2>3. agreed' \subseteq Accounts \X Accounts
    BY <1>1, <1>3, <1>4
  <2> QED
    BY <1>0, <1>1, <1>4, <2>1, <2>2, <2>3 DEF Edges
<1>7. FriendsConsent'
  <2> SUFFICES ASSUME NEW x \in Accounts, NEW y \in Accounts, x # y
               PROVE  /\ edge'[{x, y}].status = "accepted" => <<x, y>> \in agreed' /\ <<y, x>> \in agreed'
                      /\ edge'[{x, y}].status = "pending" /\ edge'[{x, y}].by = x => <<x, y>> \in agreed'
    BY DEF FriendsConsent
  <2>1. {x, y} \in Pairs
    BY PairsAre
  <2>2. CASE {x, y} \notin bound
    <3>1. edge'[{x, y}] = edge[{x, y}] /\ agreed \subseteq agreed'
      BY <1>1, <2>1, <2>2
    <3> QED
      BY <3>1 DEF FriendsInv, FriendsConsent
  <2>3. CASE {x, y} \in bound
    <3>1. edge'[{x, y}].status = "accepted"
      BY <1>1, <1>5, <2>1, <2>3
    <3>2. a \in {x, y} /\ {x, y} \cap inviters(shown) # {} /\ a \notin inviters(shown)
      BY <1>3, <2>3
    <3> HIDE DEF inviters, shown, bound
    <3>3. <<x, y>> \in agreed' /\ <<y, x>> \in agreed'
      BY <1>1, <3>2
    <3> QED
      BY <3>1, <3>3
  <2> QED
    BY <2>2, <2>3
<1> QED
  BY <1>0, <1>6, <1>7

LEMMA SignedIn ==
  ASSUME FriendsInv, NEW c \in Calls, NEW a \in Accounts, LinkLogin(c, a), ConsumePendingInvites(a)
  PROVE  FriendsInv'
<1>1. AccountsInv'
  BY LinkLoginInv DEF FriendsInv
<1>2. Edges' /\ FriendsConsent' /\ \A d \in untold' : d \in untold \/ d[2] \in Silent
  BY <1>1, ConsumeInv
<1>3. /\ call[c].op = "signIn" /\ call' = [call EXCEPT ![c] = Idle] /\ failures' = failures
      /\ call \in [Calls -> Call] /\ call[c] \in Sound
  BY Context DEF LinkLogin, At, Done, Served, FriendsInv, AccountsInv, Typed, AccountsTypeOK
<1>4. call[c].tell = {} /\ \A d \in Calls \ {c} : call'[d] = call[d]
  BY <1>3 DEF Sound, Informed, FriendOps
<1>5. Told'
  BY <1>2, <1>3, <1>4 DEF FriendsInv, Told
<1> QED
  BY <1>1, <1>2, <1>5 DEF FriendsInv

-----------------------------------------------------------------------------
(* Every run                                                                *)

LEMMA InitFriendsInv == Init => FriendsInv
<1> SUFFICES ASSUME Init PROVE FriendsInv
  OBVIOUS
<1>1. PICK seed \in Seeds :
        /\ InitAccounts(seed) /\ edge = seed.edge /\ invites = seed.invites
        /\ agreed = {ab \in Accounts \X Accounts :
                       /\ ab[1] # ab[2] /\ seed.edge[{ab[1], ab[2]}] # NoEdge
                       /\ seed.edge[{ab[1], ab[2]}].status = "accepted" \/ seed.edge[{ab[1], ab[2]}].by = ab[1]}
        /\ untold = {}
  BY DEF Init
<1>2. AccountsInv
  BY <1>1, InitAccountsInv
<1>3. /\ edge \in [Pairs -> Edge] /\ invites \subseteq Emails \X Accounts
      /\ \A p \in Pairs : edge[p].status = "none" => edge[p] = NoEdge
      /\ \A p \in Pairs : edge[p] # NoEdge => edge[p].by \in p
  BY <1>1, FriendsAssumption
<1>4. Edges
  BY <1>1, <1>3, NoEdgeIs DEF Edges, Debts
<1>5. FriendsConsent
  <2> SUFFICES ASSUME NEW a \in Accounts, NEW b \in Accounts, a # b
               PROVE  /\ edge[{a, b}].status = "accepted" => <<a, b>> \in agreed /\ <<b, a>> \in agreed
                      /\ edge[{a, b}].status = "pending" /\ edge[{a, b}].by = a => <<a, b>> \in agreed
    BY DEF FriendsConsent
  <2>1. {a, b} = {b, a}
    OBVIOUS
  <2>2. edge[{a, b}].status # "none" => edge[{a, b}] # NoEdge
    BY NoEdgeIs
  <2> QED
    BY <1>1, <2>1, <2>2
<1>6. Told
  BY <1>1 DEF Told
<1> QED
  BY <1>2, <1>4, <1>5, <1>6 DEF FriendsInv

LEMMA NextFriendsInv == FriendsInv /\ [Next]_vars => FriendsInv'
<1> SUFFICES ASSUME FriendsInv, [Next]_vars PROVE FriendsInv'
  OBVIOUS
<1>1. ASSUME NEW c \in Calls, AccountStep(c) /\ UNCHANGED friendVars
      PROVE  FriendsInv'
  BY <1>1, AccountStepInv
<1>2. ASSUME NEW c \in Calls, NEW a \in Accounts, LinkLogin(c, a) /\ ConsumePendingInvites(a)
      PROVE  FriendsInv'
  BY <1>2, SignedIn
<1>3. ASSUME NEW c \in Calls, NEW a \in Accounts, DeleteUser(c, a) /\ Deserted(a)
      PROVE  FriendsInv'
  BY <1>3, DesertedInv
<1>4. CASE VerifyEmailByToken /\ UNCHANGED friendVars
  <2>1. AccountsInv'
    BY <1>4, VerifyEmailByTokenInv DEF FriendsInv
  <2>2. Edges' /\ FriendsConsent' /\ Told'
    BY <1>4 DEF VerifyEmailByToken, friendVars, FriendsInv, Edges, FriendsConsent, Told
  <2> QED
    BY <2>1, <2>2 DEF FriendsInv
<1>5. ASSUME NEW c \in Calls,
             \/ AskAsFriend(c) \/ LookUpTarget(c) \/ UpsertPendingFriendInvite(c)
             \/ InsertFriendship(c) \/ RequestAgain(c) \/ AcceptFriendship(c) \/ RemoveFriendship(c)
             \/ CancelOutgoingInvite(c) \/ PublishNotifications(c) \/ CountFails(c) \/ Fails(c)
      PROVE  FriendsInv'
  BY <1>5, AskAsFriendInv, LookUpTargetInv, UpsertPendingFriendInviteInv, InsertFriendshipInv,
     RequestAgainInv, AcceptFriendshipInv, RemoveFriendshipInv, CancelOutgoingInviteInv,
     PublishNotificationsInv, CountFailsInv, FailsInv, Zenon
<1>6. CASE UNCHANGED vars
  <2>1. UNCHANGED accountVars /\ UNCHANGED friendVars /\ UNCHANGED <<call, asked, failures>>
    BY <1>6 DEF vars, accountVars, friendVars
  <2>2. AccountsInv'
    BY <2>1 DEF accountVars, FriendsInv, AccountsInv, Typed, AccountsTypeOK, Rows, Tokens, Sending,
                AddressProven, Governed, Settled, Supers, Live, Alone, At, StillFound
  <2>3. Edges' /\ FriendsConsent' /\ Told'
    BY <2>1 DEF friendVars, FriendsInv, Edges, FriendsConsent, Told
  <2> QED
    BY <2>2, <2>3 DEF FriendsInv
<1> QED
  BY <1>1, <1>2, <1>3, <1>4, <1>5, <1>6, Zenon DEF Next

THEOREM FriendsInvariant == Spec => []FriendsInv
  BY InitFriendsInv, NextFriendsInv, PTL DEF Spec

\* The tables of accounts and friends keep their shape, and a row for two accounts names
\* one of them as the one who asked (store/friends.go:134).
THEOREM FriendsTyped == Spec => []FriendsTypeOK
<1>1. FriendsInv => FriendsTypeOK
  BY DEF FriendsInv, AccountsInv, Typed, Edges, Debts, FriendsTypeOK
<1> QED
  BY <1>1, FriendsInvariant, PTL

\* Every verified address was shown to be its owner's by a link mailed to it or by a
\* provider (user_emails.go:130, users.go:190).
THEOREM AddressesProven == Spec => []AddressProven
<1>1. FriendsInv => AddressProven
  BY DEF FriendsInv, AccountsInv
<1> QED
  BY <1>1, FriendsInvariant, PTL

\* Requests stand in the name of those who made them, and friends agreed to it, whatever
\* requests, removals, sign-ins and failures overlap (store/friends.go:174, 353).
THEOREM Consent == Spec => []FriendsConsent
<1>1. FriendsInv => FriendsConsent
  BY DEF FriendsInv
<1> QED
  BY <1>1, FriendsInvariant, PTL

\* Superusers do not run out while administrative calls come one at a time
\* (handlers/users.go:70).
THEOREM SuperusersRemain == Spec => []SuperuserRemains
<1>1. FriendsInv => SuperuserRemains
  BY DEF FriendsInv, AccountsInv, Governed, Settled, SuperuserRemains, Live
<1> QED
  BY <1>1, FriendsInvariant, PTL

\* When nothing is under way and nothing failed, nobody waits for a count after a request,
\* an acceptance or a removal; of the changes called Silent nobody is told, and that such
\* debts remain is part of the statement (handlers/friends.go:134, 231-233, 247-251).
THEOREM Reported == Spec => []AnswersReported
<1>1. FriendsInv => AnswersReported
  <2> SUFFICES ASSUME FriendsInv, failures = 0, \A c \in Calls : call[c] = Idle, NEW d \in untold
               PROVE  d[2] \in Silent
    BY DEF AnswersReported
  <2>1. \A c \in Calls : call[c].tell = {}
    BY DEF Idle
  <2> QED
    BY <2>1 DEF FriendsInv, Told
<1> QED
  BY <1>1, FriendsInvariant, PTL

\* A verified address leaves its account only by the owner's own hand, with that very row,
\* or with the account (me_emails.go:63, users.go:200).
THEOREM VerifiedStay == Spec => VerifiedKept
<1>1. FriendsInv /\ [Next]_vars =>
        [\A e \in Emails : addr[e].verified =>
            \/ addr'[e].verified /\ addr'[e].owner = addr[e].owner
            \/ account'[addr[e].owner].state = "gone"
            \/ \E c \in Calls : /\ call[c].op \in {"addEmail", "deleteEmail"}
                                /\ call[c].me = addr[e].owner /\ call[c].row = addr[e].row]_addr
  <2> SUFFICES ASSUME FriendsInv, [Next]_vars, addr' # addr, NEW e \in Emails, addr[e].verified
               PROVE  \/ addr'[e].verified /\ addr'[e].owner = addr[e].owner
                      \/ account'[addr[e].owner].state = "gone"
                      \/ \E c \in Calls : /\ call[c].op \in {"addEmail", "deleteEmail"}
                                          /\ call[c].me = addr[e].owner /\ call[c].row = addr[e].row
    OBVIOUS
  <2>1. ASSUME NEW c \in Calls, AccountStep(c)
        PROVE  Rewritten
    <3>1. ~(AskAsMe(c) \/ AskAsSuperuser(c) \/ BeginSignIn(c) \/ CountUsers(c) \/ FindUser(c) \/ LinkTooLate(c))
      BY DEF AskAsMe, AskAsSuperuser, BeginSignIn, CountUsers, FindUser, LinkTooLate, accountVars
    <3>2. ~(ReadForResend(c) \/ SendVerifyEmail(c) \/ SendFails(c) \/ InviteUser(c) \/ UpdateUser(c))
      BY DEF ReadForResend, SendVerifyEmail, SendFails, InviteUser, UpdateUser, accountVars
    <3> QED
      BY <2>1, <3>1, <3>2 DEF AccountStep, Rewritten
  <2>2. ASSUME NEW c \in Calls
        PROVE  /\ ~(AskAsFriend(c) \/ LookUpTarget(c) \/ UpsertPendingFriendInvite(c) \/ InsertFriendship(c))
               /\ ~(RequestAgain(c) \/ AcceptFriendship(c) \/ RemoveFriendship(c) \/ CancelOutgoingInvite(c))
               /\ ~(PublishNotifications(c) \/ CountFails(c) \/ Fails(c))
    BY DEF AskAsFriend, LookUpTarget, UpsertPendingFriendInvite, InsertFriendship, RequestAgain,
           AcceptFriendship, RemoveFriendship, CancelOutgoingInvite, PublishNotifications, CountFails, Fails,
           accountVars
  <2>3. Rewritten
    BY <2>1, <2>2 DEF Next, vars, Rewritten
  <2> QED
    BY <2>3, VerifiedStays DEF FriendsInv
<1> QED
  BY <1>1, FriendsInvariant, PTL DEF Spec, VerifiedKept

\* Who signs in with an identity ends up in the account it belongs to, as long as no two
\* sign-ins with it overlap (users.go:246).
THEOREM SessionsOwned == Spec => SessionIsOwners
<1>1. FriendsInv /\ [Next]_vars =>
        [\A c \in Calls : /\ At(c, "signIn", "link") /\ session' # session
                          /\ call'[c] = Idle /\ call[c].profile.id \notin raced
                          => session' \ session \subseteq {owner'[call[c].profile.id]}]_session
  <2> SUFFICES ASSUME FriendsInv, [Next]_vars, session' # session, NEW c \in Calls,
                      At(c, "signIn", "link"), call'[c] = Idle, call[c].profile.id \notin raced
               PROVE  session' \ session \subseteq {owner'[call[c].profile.id]}
    OBVIOUS
  <2>1. ASSUME NEW d \in Calls
        PROVE  ~AccountStep(d)
    <3>1. ~(AskAsMe(d) \/ AskAsSuperuser(d) \/ BeginSignIn(d) \/ CountUsers(d) \/ FindUser(d) \/ LinkTooLate(d))
      BY DEF AskAsMe, AskAsSuperuser, BeginSignIn, CountUsers, FindUser, LinkTooLate, accountVars
    <3>2. ~(ReadForResend(d) \/ SendVerifyEmail(d) \/ SendFails(d) \/ InviteUser(d) \/ UpdateUser(d))
      BY DEF ReadForResend, SendVerifyEmail, SendFails, InviteUser, UpdateUser, accountVars
    <3>3. ~(InsertUnverifiedEmail(d) \/ RotateToken(d) \/ DeleteUserEmail(d))
      BY DEF InsertUnverifiedEmail, RotateToken, DeleteUserEmail
    <3> QED
      BY <3>1, <3>2, <3>3 DEF AccountStep
  <2>2. ASSUME NEW d \in Calls
        PROVE  /\ ~(AskAsFriend(d) \/ LookUpTarget(d) \/ UpsertPendingFriendInvite(d) \/ InsertFriendship(d))
               /\ ~(RequestAgain(d) \/ AcceptFriendship(d) \/ RemoveFriendship(d) \/ CancelOutgoingInvite(d))
               /\ ~(PublishNotifications(d) \/ CountFails(d) \/ Fails(d))
    BY DEF AskAsFriend, LookUpTarget, UpsertPendingFriendInvite, InsertFriendship, RequestAgain,
           AcceptFriendship, RemoveFriendship, CancelOutgoingInvite, PublishNotifications, CountFails, Fails,
           accountVars
  <2>3. ~VerifyEmailByToken /\ \A d \in Calls, a \in Accounts : ~DeleteUser(d, a)
    BY DEF VerifyEmailByToken, DeleteUser
  <2>4. \E d \in Calls, a \in Accounts : LinkLogin(d, a)
    BY <2>1, <2>2, <2>3 DEF Next, vars
  <2> QED
    BY <2>4, LinkedToOwner DEF FriendsInv
<1> QED
  BY <1>1, FriendsInvariant, PTL DEF Spec, SessionIsOwners

-----------------------------------------------------------------------------
(* The friends feature implements FriendGraph                               *)

Bonds == [p \in Pairs |-> [is |-> edge[p].status, by |-> edge[p].by]]

LEMMA GraphPairs == Graph!Pairs = Pairs /\ [is |-> "none", by |-> NoOne] = Graph!Strangers
  BY DEF Graph!Pairs, Pairs, Graph!Strangers

LEMMA BondSet ==
  ASSUME edge \in [Pairs -> Edge], NEW p \in Pairs, NEW r \in Edge, edge' = [edge EXCEPT ![p] = r]
  PROVE  Bonds' = [Bonds EXCEPT ![p] = [is |-> r.status, by |-> r.by]]
  BY DEF Bonds

\* Nothing seen from outside changes.
LEMMA Unseen ==
  ASSUME edge' = edge, invites' = invites
  PROVE  UNCHANGED <<Bonds, invites>>
  BY DEF Bonds

\* Steps of the abstract graph.
LEMMA BetweenTwo ==
  ASSUME NEW a \in Accounts, NEW b \in Accounts, a # b, Graph!Ask(a, b) \/ Graph!Agree(a, b) \/ Graph!Part(a, b)
  PROVE  Graph!Next
  BY DEF Graph!Next

LEMMA OfOne ==
  ASSUME NEW a \in Accounts, NEW e \in Emails, NEW E \in SUBSET Emails,
         NEW S \in SUBSET {p \in Graph!Pairs : Bonds[p].by = a},
         Graph!Write(a, e) \/ Graph!Withdraw(a, e, S) \/ Graph!TurnUp(a, E) \/ Graph!Leave(a)
  PROVE  Graph!Next
<1>1. S \in SUBSET {p \in Graph!Pairs : [q \in Pairs |-> [is |-> edge[q].status, by |-> edge[q].by]][p].by = a}
  BY DEF Bonds
<1>2. CASE Graph!Withdraw(a, e, S)
  BY <1>1, <1>2 DEF Graph!Next
<1>3. CASE Graph!Write(a, e)
  BY <1>3 DEF Graph!Next
<1>4. CASE Graph!TurnUp(a, E)
  BY <1>4 DEF Graph!Next
<1>5. CASE Graph!Leave(a)
  BY <1>5 DEF Graph!Next
<1> QED
  BY <1>2, <1>3, <1>4, <1>5

LEMMA Asked ==
  ASSUME FriendsInv, NEW c \in Calls, InsertFriendship(c)
  PROVE  Graph!Next \/ UNCHANGED <<Bonds, invites>>
<1> DEFINE me == call[c].me
           who == call[c].who
           p == Mine(c)
           r == [status |-> "pending", by |-> me, email |-> call[c].email]
<1>1. /\ me \in Accounts /\ who \in Accounts /\ me # who /\ p \in Pairs /\ p = {me, who}
      /\ call[c].email \in Emails /\ edge \in [Pairs -> Edge]
  BY Context DEF InsertFriendship, At, Meets, Mine, FriendsInv, Edges
<1>2. CASE UNCHANGED friendVars
  BY <1>2, Unseen DEF friendVars
<1>3. CASE edge[p] = NoEdge /\ edge' = [edge EXCEPT ![p] = r] /\ invites' = invites
  <2>1. r \in Edge /\ r.status = "pending" /\ r.by = me
    BY <1>1 DEF Edge
  <2> HIDE DEF r
  <2>2. Bonds' = [Bonds EXCEPT ![p] = [is |-> "pending", by |-> me]]
    BY <1>1, <1>3, <2>1, BondSet
  <2>3. Bonds[p] = Graph!Strangers
    BY <1>1, <1>3, NoEdgeIs, GraphPairs DEF Bonds
  <2> HIDE DEF p
  <2>4. PICK x \in Accounts, y \in Accounts : x = me /\ y = who
    BY <1>1
  <2>5. Graph!Ask(x, y)
    BY <1>1, <1>3, <2>2, <2>3, <2>4 DEF Graph!Ask, Bonds
  <2> QED
    BY <1>1, <2>4, <2>5, BetweenTwo
<1> QED
  BY <1>2, <1>3 DEF InsertFriendship

LEMMA Agreed ==
  ASSUME FriendsInv, NEW me \in Accounts, NEW who \in Accounts, me # who,
         edge[{me, who}].status = "pending", edge[{me, who}].by # me,
         edge' = [edge EXCEPT ![{me, who}].status = "accepted"], invites' = invites
  PROVE  Graph!Next
<1> DEFINE p == {me, who}
           r == [edge[p] EXCEPT !.status = "accepted"]
<1>1. p \in Pairs /\ edge[p] \in Edge /\ edge[p].by = who /\ edge \in [Pairs -> Edge]
  BY PairsAre DEF FriendsInv, Edges
<1>2. r \in Edge /\ r.status = "accepted" /\ r.by = who /\ edge' = [edge EXCEPT ![p] = r]
  BY <1>1 DEF Edge
<1>3. p = {who, me}
  OBVIOUS
<1> HIDE DEF r, p
<1>4. Bonds' = [Bonds EXCEPT ![p] = [is |-> "accepted", by |-> who]]
  <2>1. Bonds' = [Bonds EXCEPT ![p] = [is |-> r.status, by |-> r.by]]
    BY <1>1, <1>2, BondSet
  <2> QED
    BY <1>2, <2>1
<1>5. Bonds[p] = [is |-> "pending", by |-> who]
  BY <1>1 DEF Bonds, p
<1>6. Bonds' = [Bonds EXCEPT ![p].is = "accepted"]
  <2>1. [Bonds[p] EXCEPT !.is = "accepted"] = [is |-> "accepted", by |-> who]
    BY <1>5
  <2> QED
    BY <1>4, <2>1, Zenon
<1>7. Graph!Agree(who, me)
  BY <1>3, <1>5, <1>6 DEF Graph!Agree, Bonds
<1> QED
  BY <1>7 DEF Graph!Next

LEMMA AgreedByAsking ==
  ASSUME FriendsInv, NEW c \in Calls, RequestAgain(c)
  PROVE  Graph!Next \/ UNCHANGED <<Bonds, invites>>
<1>1. call[c].me \in Accounts /\ call[c].who \in Accounts /\ call[c].me # call[c].who
  BY Context DEF RequestAgain, At, Meets
<1>2. CASE UNCHANGED friendVars
  BY <1>2, Unseen DEF friendVars
<1>3. CASE ~UNCHANGED friendVars
  BY <1>1, <1>3, Agreed DEF RequestAgain, Mine
<1> QED
  BY <1>2, <1>3

LEMMA AgreedByAccepting ==
  ASSUME FriendsInv, NEW c \in Calls, AcceptFriendship(c)
  PROVE  Graph!Next \/ UNCHANGED <<Bonds, invites>>
<1>1. call[c].me \in Accounts /\ call[c].who \in Accounts /\ call[c].me # call[c].who
  BY Context DEF AcceptFriendship, At, Meets
<1>2. CASE UNCHANGED friendVars
  BY <1>2, Unseen DEF friendVars
<1>3. CASE ~UNCHANGED friendVars
  BY <1>1, <1>3, Agreed DEF AcceptFriendship, Mine
<1> QED
  BY <1>2, <1>3

LEMMA PartedByHand ==
  ASSUME FriendsInv, NEW c \in Calls, RemoveFriendship(c)
  PROVE  Graph!Next \/ UNCHANGED <<Bonds, invites>>
<1> DEFINE me == call[c].me
           who == call[c].who
           p == Mine(c)
<1>1. /\ me \in Accounts /\ who \in Accounts /\ me # who /\ p \in Pairs /\ p = {me, who}
      /\ edge \in [Pairs -> Edge]
  BY Context DEF RemoveFriendship, At, Meets, Mine, FriendsInv, Edges
<1>2. CASE UNCHANGED friendVars
  BY <1>2, Unseen DEF friendVars
<1>3. CASE edge' = [edge EXCEPT ![p] = NoEdge] /\ invites' = invites
  <2>1. Bonds' = [Bonds EXCEPT ![p] = [is |-> "none", by |-> NoOne]]
    BY <1>1, <1>3, NoEdgeIs, BondSet
  <2> HIDE DEF p
  <2>2. PICK x \in Accounts, y \in Accounts : x = me /\ y = who
    BY <1>1
  <2>3. Graph!Part(x, y)
    BY <1>1, <1>3, <2>1, <2>2, GraphPairs DEF Graph!Part, Bonds
  <2> QED
    BY <1>1, <2>2, <2>3, BetweenTwo
<1> QED
  BY <1>2, <1>3 DEF RemoveFriendship

LEMMA Wrote ==
  ASSUME FriendsInv, NEW c \in Calls, UpsertPendingFriendInvite(c)
  PROVE  Graph!Next \/ UNCHANGED <<Bonds, invites>>
<1>1. call[c].me \in Accounts /\ call[c].email \in Emails /\ edge' = edge
      /\ (invites' = invites \/ invites' = invites \cup {<<call[c].email, call[c].me>>})
  BY Context DEF UpsertPendingFriendInvite, At
<1>2. Bonds' = Bonds
  BY <1>1 DEF Bonds
<1>3. CASE invites' = invites
  BY <1>2, <1>3
<1>4. CASE invites' = invites \cup {<<call[c].email, call[c].me>>}
  <2>1. Graph!Write(call[c].me, call[c].email)
    BY <1>2, <1>4 DEF Graph!Write, Bonds
  <2> QED
    BY <1>1, <2>1 DEF Graph!Next
<1> QED
  BY <1>1, <1>3, <1>4

\* The pairs of S are strangers again.
LEMMA BondsCut ==
  ASSUME edge \in [Pairs -> Edge], NEW S \in SUBSET Pairs,
         edge' = [p \in Pairs |-> IF p \in S THEN NoEdge ELSE edge[p]]
  PROVE  Bonds' = [p \in Graph!Pairs |-> IF p \in S THEN Graph!Strangers ELSE Bonds[p]]
  BY NoEdgeIs, GraphPairs DEF Bonds

LEMMA Withdrew ==
  ASSUME FriendsInv, NEW c \in Calls, CancelOutgoingInvite(c)
  PROVE  Graph!Next
<1> DEFINE me == call[c].me
           e == call[c].email
           S == {p \in Pairs : edge[p].status = "pending" /\ edge[p].by = me /\ edge[p].email = e}
<1>1. /\ me \in Accounts /\ e \in Emails /\ edge \in [Pairs -> Edge]
  <2>1. call[c].op = "cancel" /\ call[c] \in Sound
    BY Context DEF CancelOutgoingInvite, At
  <2> QED
    BY <2>1 DEF Sound, Informed, FriendOps, FriendsInv, Edges
<1>2. edge' = [p \in Pairs |-> IF p \in S THEN NoEdge ELSE edge[p]] /\ invites' = invites \ {<<e, me>>}
  BY DEF CancelOutgoingInvite
<1>3. S \in SUBSET Pairs /\ \A p \in S : Bonds[p] = [is |-> "pending", by |-> me]
  BY <1>1 DEF Bonds
<1> HIDE DEF S, e, me
<1>4. Bonds' = [p \in Graph!Pairs |-> IF p \in S THEN Graph!Strangers ELSE Bonds[p]]
  BY <1>1, <1>2, <1>3, BondsCut
<1>5. S \in SUBSET {p \in Graph!Pairs : Bonds[p].by = me}
  BY <1>3, GraphPairs
<1>6. PICK x \in Accounts, y \in Emails, T \in SUBSET {p \in Graph!Pairs : Bonds[p].by = me} :
        x = me /\ y = e /\ T = S
  BY <1>1, <1>5
<1>7. Graph!Withdraw(x, y, T)
  BY <1>2, <1>3, <1>4, <1>6 DEF Graph!Withdraw, Bonds
<1> QED
  BY <1>6, <1>7, OfOne

LEMMA Left ==
  ASSUME FriendsInv, NEW b \in Accounts, Deserted(b)
  PROVE  Graph!Next
<1> DEFINE S == {p \in Pairs : b \in p}
<1>1. /\ edge \in [Pairs -> Edge] /\ S \in SUBSET Pairs
      /\ edge' = [p \in Pairs |-> IF p \in S THEN NoEdge ELSE edge[p]]
      /\ invites' = {i \in invites : i[2] # b}
  BY DEF Deserted, FriendsInv, Edges
<1> HIDE DEF S
<1>2. Bonds' = [p \in Graph!Pairs |-> IF p \in S THEN Graph!Strangers ELSE Bonds[p]]
  BY <1>1, BondsCut
<1>3. Bonds' = [p \in Graph!Pairs |-> IF b \in p THEN Graph!Strangers ELSE Bonds[p]]
  BY <1>2, GraphPairs DEF S
<1>4. Graph!Leave(b)
  BY <1>1, <1>3 DEF Graph!Leave, Bonds
<1> QED
  BY <1>4 DEF Graph!Next

LEMMA TurnedUp ==
  ASSUME FriendsInv, NEW a \in Accounts, ConsumePendingInvites(a)
  PROVE  Graph!Next
<1> DEFINE E == {e \in Emails : addr'[e].owner = a /\ addr'[e].verified}
           inviters == {i[2] : i \in {i \in invites : i[1] \in E}} \ {a}
           writers == {b \in Accounts \ {a} : \E e \in E : <<e, b>> \in invites}
           friend(p) == CHOOSE b \in p : b # a
           bound == {p \in Pairs : a \in p /\ p \cap inviters # {}}
<1>1. /\ edge' = [p \in Pairs |->
                    IF p \notin bound THEN edge[p]
                    ELSE IF edge[p] = NoEdge
                    THEN [status |-> "accepted", by |-> friend(p), email |-> NoEmail]
                    ELSE [edge[p] EXCEPT !.status = "accepted"]]
      /\ invites' = {i \in invites : i[1] \notin E}
  BY Zenon DEF ConsumePendingInvites, Consume
<1>2. /\ edge \in [Pairs -> Edge] /\ invites \subseteq Emails \X Accounts
      /\ \A p \in Pairs : IF edge[p].status = "none" THEN edge[p] = NoEdge ELSE edge[p].by \in p
  BY DEF FriendsInv, Edges
<1> HIDE DEF friend
<1>7. E \in SUBSET Emails
  OBVIOUS
<1> HIDE DEF E
<1>3. inviters = writers
  <2>1. inviters \subseteq writers
    BY <1>2
  <2>2. ASSUME NEW b \in writers
        PROVE  b \in inviters
    <3>1. PICK e \in E : <<e, b>> \in invites
      OBVIOUS
    <3>2. <<e, b>> \in {i \in invites : i[1] \in E} /\ <<e, b>>[2] = b
      BY <3>1
    <3> QED
      BY <3>2
  <2> QED
    BY <2>1, <2>2
<1> HIDE DEF inviters, writers
<1>4. \A p \in Pairs : Bonds[p] = Graph!Strangers <=> edge[p] = NoEdge
  <2>1. \A p \in Pairs : Bonds[p] = [is |-> edge[p].status, by |-> edge[p].by]
    BY DEF Bonds
  <2>2. \A p \in Pairs : edge[p] # NoEdge => edge[p].status # "none"
    BY <1>2
  <2>3. ASSUME NEW p \in Pairs, Bonds[p] = Graph!Strangers
        PROVE  edge[p] = NoEdge
    <3>1. [is |-> edge[p].status, by |-> edge[p].by] = [is |-> "none", by |-> NoOne]
      BY <2>1, <2>3, GraphPairs
    <3>2. edge[p].status = "none"
      BY <3>1
    <3> QED
      BY <2>2, <3>2
  <2>4. ASSUME NEW p \in Pairs, edge[p] = NoEdge
        PROVE  Bonds[p] = Graph!Strangers
    BY <2>1, <2>4, NoEdgeIs, GraphPairs
  <2> QED
    BY <2>3, <2>4
<1>5. Bonds' = [p \in Pairs |->
                  IF a \in p /\ p \cap writers # {}
                  THEN [is |-> "accepted",
                        by |-> IF Bonds[p] = Graph!Strangers THEN friend(p) ELSE Bonds[p].by]
                  ELSE Bonds[p]]
  <2>1. \A p \in Pairs : edge'[p] = IF ~(a \in p /\ p \cap writers # {}) THEN edge[p]
                    ELSE IF edge[p] = NoEdge
                    THEN [status |-> "accepted", by |-> friend(p), email |-> NoEmail]
                    ELSE [edge[p] EXCEPT !.status = "accepted"]
    BY <1>1, <1>3
  <2>2. \A p \in Pairs : [edge[p] EXCEPT !.status = "accepted"].status = "accepted"
                         /\ [edge[p] EXCEPT !.status = "accepted"].by = edge[p].by
    BY <1>2 DEF Edge
  <2>3. \A p \in Pairs : Bonds[p] = [is |-> edge[p].status, by |-> edge[p].by]
    BY DEF Bonds
  <2>4. Bonds' = [p \in Pairs |-> [is |-> edge'[p].status, by |-> edge'[p].by]]
    BY DEF Bonds
  <2>5. \A p \in Pairs : [is |-> edge'[p].status, by |-> edge'[p].by] =
            IF a \in p /\ p \cap writers # {}
            THEN [is |-> "accepted",
                  by |-> IF Bonds[p] = Graph!Strangers THEN friend(p) ELSE Bonds[p].by]
            ELSE Bonds[p]
    <3> SUFFICES ASSUME NEW p \in Pairs
                 PROVE  [is |-> edge'[p].status, by |-> edge'[p].by] =
                          IF a \in p /\ p \cap writers # {}
                          THEN [is |-> "accepted",
                                by |-> IF Bonds[p] = Graph!Strangers THEN friend(p) ELSE Bonds[p].by]
                          ELSE Bonds[p]
      OBVIOUS
    <3>1. CASE ~(a \in p /\ p \cap writers # {})
      BY <2>1, <2>3, <3>1
    <3>2. CASE a \in p /\ p \cap writers # {} /\ edge[p] = NoEdge
      <4>1. edge'[p] = [status |-> "accepted", by |-> friend(p), email |-> NoEmail]
        BY <2>1, <3>2
      <4>2. edge'[p].status = "accepted" /\ edge'[p].by = friend(p)
        BY <4>1
      <4> QED
        BY <1>4, <3>2, <4>2
    <3>3. CASE a \in p /\ p \cap writers # {} /\ edge[p] # NoEdge
      <4>1. edge'[p].status = "accepted" /\ edge'[p].by = edge[p].by
        BY <2>1, <2>2, <3>3
      <4>2. Bonds[p] # Graph!Strangers /\ Bonds[p].by = edge[p].by
        <5>1. Bonds[p] # Graph!Strangers
          BY <1>4, <3>3, Zenon
        <5>2. Bonds[p] = [is |-> edge[p].status, by |-> edge[p].by]
          BY <2>3
        <5> QED
          BY <5>1, <5>2
      <4> QED
        BY <3>3, <4>1, <4>2
    <3> QED
      BY <3>1, <3>2, <3>3
  <2> QED
    BY <2>4, <2>5
<1>6. PICK F \in SUBSET Emails : F = E
  BY <1>7
<1>8. Graph!TurnUp(a, F)
  <2>1. Bonds' = [p \in Graph!Pairs |->
                  IF a \in p /\ p \cap writers # {}
                  THEN [is |-> "accepted",
                        by |-> IF Bonds[p] = Graph!Strangers THEN CHOOSE b \in p : b # a ELSE Bonds[p].by]
                  ELSE Bonds[p]]
    BY <1>5, GraphPairs, Zenon DEF friend
  <2>2. /\ Bonds' = [p \in Graph!Pairs |->
                  IF a \in p /\ p \cap {b \in Accounts \ {a} : \E e \in F : <<e, b>> \in invites} # {}
                  THEN [is |-> "accepted",
                        by |-> IF Bonds[p] = Graph!Strangers THEN CHOOSE b \in p : b # a ELSE Bonds[p].by]
                  ELSE Bonds[p]]
        /\ invites' = {i \in invites : i[1] \notin F}
    BY <1>1, <1>6, <2>1 DEF writers
  <2> QED
    BY <2>2, Zenon DEF Graph!TurnUp, Bonds
<1> QED
  BY <1>8 DEF Graph!Next

LEMMA GraphInit == Edges => Graph!Init
<1> SUFFICES ASSUME Edges PROVE Graph!Init
  OBVIOUS
<1>1. \A p \in Pairs : edge[p] \in Edge
  BY DEF Edges
<1>2. Bonds \in [Graph!Pairs -> [is : {"none", "pending", "accepted"}, by : Accounts \cup {NoOne}]]
  BY <1>1, GraphPairs DEF Bonds, Edge
<1> QED
  BY <1>2 DEF Graph!Init, Bonds, Edges

LEMMA GraphStep == FriendsInv /\ [Next]_vars => Graph!Next \/ UNCHANGED <<Bonds, invites>>
<1> SUFFICES ASSUME FriendsInv, [Next]_vars PROVE Graph!Next \/ UNCHANGED <<Bonds, invites>>
  OBVIOUS
<1>1. CASE UNCHANGED friendVars \/ UNCHANGED vars
  BY <1>1, Unseen DEF friendVars, vars
<1>2. ASSUME NEW c \in Calls, NEW a \in Accounts, LinkLogin(c, a) /\ ConsumePendingInvites(a)
      PROVE  Graph!Next
  BY <1>2, TurnedUp
<1>3. ASSUME NEW c \in Calls, NEW a \in Accounts, DeleteUser(c, a) /\ Deserted(a)
      PROVE  Graph!Next
  BY <1>3, Left
<1>4. ASSUME NEW c \in Calls,
             AskAsFriend(c) \/ LookUpTarget(c) \/ PublishNotifications(c) \/ CountFails(c) \/ Fails(c)
      PROVE  UNCHANGED <<Bonds, invites>>
  <2>1. edge' = edge /\ invites' = invites
    BY <1>4 DEF AskAsFriend, LookUpTarget, PublishNotifications, CountFails, Fails, friendVars
  <2> QED
    BY <2>1, Unseen
<1>5. ASSUME NEW c \in Calls,
             \/ UpsertPendingFriendInvite(c) \/ InsertFriendship(c) \/ RequestAgain(c)
             \/ AcceptFriendship(c) \/ RemoveFriendship(c) \/ CancelOutgoingInvite(c)
      PROVE  Graph!Next \/ UNCHANGED <<Bonds, invites>>
  BY <1>5, Wrote, Asked, AgreedByAsking, AgreedByAccepting, PartedByHand, Withdrew
<1> QED
  BY <1>1, <1>2, <1>3, <1>4, <1>5 DEF Next

\* Requests, sign-ins and deletions, step by step and interleaved, do to friends only what
\* FriendGraph allows: ask, agree, part, write, withdraw, turn up and leave
\* (store/friends.go, users.go:190).
THEOREM ImplementsFriendGraph == Spec => KeepsFriendGraph
<1>1. Init => Graph!Init
  BY InitFriendsInv, GraphInit DEF FriendsInv
<1>2. FriendsInv /\ [Next]_vars =>
        [Graph!Next]_<<[p \in Pairs |-> [is |-> edge[p].status, by |-> edge[p].by]], invites>>
  BY GraphStep DEF Bonds
<1> QED
  BY <1>1, <1>2, FriendsInvariant, PTL DEF Spec, KeepsFriendGraph, Graph!Spec
=============================================================================
