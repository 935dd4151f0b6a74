----------------------------- MODULE Friendships -----------------------------
(***************************************************************************)
(* Friend requests between accounts, invitations to addresses nobody has   *)
(* proven yet, and the counts pushed to browsers, on top of the accounts   *)
(* and sign-ins of Accounts.tla: signing in turns the invitations sent to  *)
(* one's addresses into friendships, and deleting an account takes both    *)
(* along.                                                                  *)
(***************************************************************************)
EXTENDS Accounts

VARIABLES
    edge,       \* friendships, one row for two accounts
    invites,    \* pending_friend_invites: <<address, inviter>>
    agreed,     \* history: <<a, b>>: a has asked or accepted b, or turned up at b's invitation
    untold      \* history: <<a, why>>: friends or requests of a changed, and no count was pushed
                \* to him since

friendVars == <<edge, invites, agreed, untold>>
vars == <<account, owner, addr, session, mailed, serial, call, asked, failures,
          proven, raced, crossed, edge, invites, agreed, untold>>

Pairs == {p \in SUBSET Accounts : \E a, b \in Accounts : a # b /\ p = {a, b}}
Edge == [status : {"none", "pending", "accepted"}, by : Accounts \cup {NoOne}, email : Emails \cup {NoEmail}]
NoEdge == [status |-> "none", by |-> NoOne, email |-> NoEmail]

\* Why somebody's friends or requests changed; nobody is told of the last four.
Announced == {"asked", "accepted", "removed"}
Silent == {"crossed", "withdrawn", "joined", "left"}
Changed(S, why) == untold' = untold \cup (S \X {why})

ASSUME FriendsAssumption ==
    \A s \in Seeds : /\ s.edge \in [Pairs -> Edge] /\ s.invites \subseteq Emails \X Accounts
                     /\ \A p \in Pairs : s.edge[p].status = "none" => s.edge[p] = NoEdge
                     /\ \A p \in Pairs : s.edge[p] # NoEdge => s.edge[p].by \in p

Init ==
    /\ \E seed \in Seeds :
         /\ InitAccounts(seed) /\ edge = seed.edge /\ invites = seed.invites
         /\ agreed = {ab \in Accounts \X Accounts :
                        /\ ab[1] # ab[2] /\ seed.edge[{ab[1], ab[2]}] # NoEdge
                        /\ seed.edge[{ab[1], ab[2]}].status = "accepted" \/ seed.edge[{ab[1], ab[2]}].by = ab[1]}
    /\ untold = {}

-----------------------------------------------------------------------------
(* Requests of the friends page                                            *)

\* inviteFriend, acceptFriend or acceptFriendToken, removeFriend and
\* cancelOutgoingInvite; the token only says whom to accept.
AskAsFriend(c) ==
    \E a \in Accounts :
        /\ Authorised(a)
        /\ \/ \E e \in Emails :
                 \/ Start(c, [Idle EXCEPT !.op = "invite", !.at = "lookup", !.me = a, !.email = e])
                 \/ Start(c, [Idle EXCEPT !.op = "cancel", !.at = "write", !.me = a, !.email = e])
           \/ \E b \in Accounts \ {a} :
                 \/ Start(c, [Idle EXCEPT !.op = "accept", !.at = "write", !.me = a, !.who = b])
                 \/ Start(c, [Idle EXCEPT !.op = "remove", !.at = "write", !.me = a, !.who = b])
        /\ UNCHANGED <<accountVars, friendVars>>

Mine(c) == {call[c].me, call[c].who}
Tell(c, S) == call' = [call EXCEPT ![c].at = "tell", ![c].tell = S]

\* UserByVerifiedEmail; inviting oneself ends here.
LookUpTarget(c) ==
    /\ At(c, "invite", "lookup")
    /\ LET found == {b \in Accounts : Verified(b, call[c].email)} IN
       \/ found = {} /\ Continue(c, "queue")
       \/ \E b \in found :
            IF b = call[c].me THEN Done(c)
            ELSE call' = [call EXCEPT ![c].who = b, ![c].at = "insert"]
    /\ Served /\ UNCHANGED <<accountVars, friendVars>>

\* An invitation of an account that is gone fails on its foreign key.
UpsertPendingFriendInvite(c) ==
    /\ At(c, "invite", "queue")
    /\ invites' = IF Live(call[c].me) THEN invites \cup {<<call[c].email, call[c].me>>} ELSE invites
    /\ Done(c) /\ Served /\ UNCHANGED <<accountVars, edge, agreed, untold>>

OverwritesRow(c) ==         \* faulty: ON CONFLICT DO UPDATE
    /\ At(c, "invite", "insert")
    /\ LET me == call[c].me  who == call[c].who  p == Mine(c) IN
       IF ~Live(me) \/ ~Live(who) THEN Done(c) /\ UNCHANGED friendVars
       ELSE /\ edge' = [edge EXCEPT ![p] = [status |-> "pending", by |-> me, email |-> call[c].email]]
            /\ agreed' = agreed \cup {<<me, who>>}
            /\ Changed({who}, "asked")
            /\ Tell(c, {who}) /\ UNCHANGED invites
    /\ Served /\ UNCHANGED accountVars

\* RequestFriendship: INSERT ... ON CONFLICT DO NOTHING.
InsertFriendship(c) ==
    /\ At(c, "invite", "insert")
    /\ LET me == call[c].me  who == call[c].who  p == Mine(c) IN
       IF ~Live(me) \/ ~Live(who) THEN Done(c) /\ UNCHANGED friendVars
       ELSE IF edge[p] # NoEdge
       THEN Continue(c, "locked") /\ UNCHANGED friendVars
       ELSE /\ edge' = [edge EXCEPT ![p] = [status |-> "pending", by |-> me, email |-> call[c].email]]
            /\ agreed' = agreed \cup {<<me, who>>}
            /\ Changed({who}, "asked")
            /\ Tell(c, {who}) /\ UNCHANGED invites
    /\ Served /\ UNCHANGED accountVars

\* The row that was in the way, locked: gone again, already settled, one's own request,
\* which is notified once more for all friends.go:127 says of duplicates, or the other's,
\* which is accepted silently.
RequestAgain(c) ==
    /\ At(c, "invite", "locked")
    /\ LET me == call[c].me  who == call[c].who  p == Mine(c) IN
       \/ /\ edge[p].status = "none" \/ edge[p].status = "accepted"
          /\ Done(c) /\ UNCHANGED friendVars
       \/ /\ edge[p].status = "pending" /\ edge[p].by = me
          /\ Tell(c, {who}) /\ UNCHANGED friendVars
       \/ /\ edge[p].status = "pending" /\ edge[p].by # me
          /\ edge' = [edge EXCEPT ![p].status = "accepted"]
          /\ agreed' = agreed \cup {<<me, who>>}
          /\ Changed(p, "crossed")
          /\ Done(c) /\ UNCHANGED invites
    /\ Served /\ UNCHANGED accountVars

TellsAccepterOnly(c) ==     \* faulty: the one who is told is the one who asked
    /\ At(c, "accept", "write")
    /\ LET p == Mine(c) IN
       IF edge[p].status = "pending" /\ edge[p].by # call[c].me
       THEN /\ edge' = [edge EXCEPT ![p].status = "accepted"]
            /\ agreed' = agreed \cup {<<call[c].me, call[c].who>>}
            /\ Changed(p, "accepted")
            /\ Tell(c, {call[c].who}) /\ UNCHANGED invites
       ELSE Done(c) /\ UNCHANGED friendVars
    /\ Served /\ UNCHANGED accountVars

AcceptFriendship(c) ==
    /\ At(c, "accept", "write")
    /\ LET p == Mine(c) IN
       IF edge[p].status = "pending" /\ edge[p].by # call[c].me
       THEN /\ edge' = [edge EXCEPT ![p].status = "accepted"]
            /\ agreed' = agreed \cup {<<call[c].me, call[c].who>>}
            /\ Changed(p, "accepted")
            /\ Tell(c, p) /\ UNCHANGED invites
       ELSE Done(c) /\ UNCHANGED friendVars
    /\ Served /\ UNCHANGED accountVars

MarksRemoved(c) ==          \* faulty: keeps the row with who asked
    /\ At(c, "remove", "write")
    /\ LET p == Mine(c) IN
       IF edge[p] # NoEdge
       THEN /\ edge' = [edge EXCEPT ![p].status = "none"]
            /\ agreed' = agreed \ (p \X p)
            /\ Changed(p, "removed")
            /\ Tell(c, p) /\ UNCHANGED invites
       ELSE Done(c) /\ UNCHANGED friendVars
    /\ Served /\ UNCHANGED accountVars

\* Declining, taking back and ending a friendship alike.
RemoveFriendship(c) ==
    /\ At(c, "remove", "write")
    /\ LET p == Mine(c) IN
       IF edge[p] # NoEdge
       THEN /\ edge' = [edge EXCEPT ![p] = NoEdge]
            /\ agreed' = agreed \ (p \X p)
            /\ Changed(p, "removed")
            /\ Tell(c, p) /\ UNCHANGED invites
       ELSE Done(c) /\ UNCHANGED friendVars
    /\ Served /\ UNCHANGED accountVars

\* The invitation and the requests made by that address; nobody is told.
CancelOutgoingInvite(c) ==
    /\ At(c, "cancel", "write")
    /\ LET me == call[c].me
           S == {p \in Pairs : /\ edge[p].status = "pending" /\ edge[p].by = me
                               /\ edge[p].email = call[c].email} IN
       /\ edge' = [p \in Pairs |-> IF p \in S THEN NoEdge ELSE edge[p]]
       /\ invites' = invites \ {<<call[c].email, me>>}
       /\ agreed' = {ab \in agreed : {ab[1], ab[2]} \notin S}
       /\ Changed(UNION S, "withdrawn")
    /\ Done(c) /\ Served /\ UNCHANGED accountVars

AfterTelling(c, a) ==
    LET rest == call[c].tell \ {a} IN
    IF rest = {} THEN Done(c) ELSE call' = [call EXCEPT ![c].tell = rest]

\* publishNotifications: counts and hands the count to the hub.
PublishNotifications(c) ==
    \E a \in call[c].tell :
        /\ untold' = {d \in untold : d[1] # a}
        /\ AfterTelling(c, a) /\ Served /\ UNCHANGED <<accountVars, edge, invites, agreed>>

\* The count fails, is logged, and the next one is tried.
CountFails(c) ==
    \E a \in call[c].tell :
        /\ failures < MaxFailures /\ failures' = failures + 1
        /\ AfterTelling(c, a) /\ UNCHANGED <<asked, accountVars, friendVars>>

\* Any other query may fail, as when the client goes away; nothing of the step stays.
Fails(c) ==
    /\ call[c].at \in {"count", "find", "link", "write", "lookup", "queue", "insert", "locked", "undo"}
    /\ failures < MaxFailures /\ failures' = failures + 1
    /\ Done(c) /\ UNCHANGED <<asked, accountVars, friendVars>>

-----------------------------------------------------------------------------
(* What signing in and leaving do to friends                               *)

Deserted(b) ==
    /\ edge' = [p \in Pairs |-> IF b \in p THEN NoEdge ELSE edge[p]]
    /\ invites' = {i \in invites : i[2] # b}
    /\ agreed' = {ab \in agreed : b \notin {ab[1], ab[2]}}
    /\ LET left == UNION {p \in Pairs : b \in p /\ edge[p] # NoEdge} IN
       untold' = {d \in untold \cup (left \X {"left"}) : d[1] # b}

\* What becomes of the invitations sent to the addresses E of a.
Consume(a, E) ==
    LET shown == {e \in Emails : <<a, e>> \in proven'}
        inviters(X) == {i[2] : i \in {i \in invites : i[1] \in X}} \ {a}
        bound == {p \in Pairs : a \in p /\ p \cap inviters(E) # {}} IN
    /\ edge' = [p \in Pairs |->
                  IF p \notin bound THEN edge[p]
                  ELSE IF edge[p] = NoEdge
                  THEN [status |-> "accepted", by |-> CHOOSE b \in p : b # a, email |-> NoEmail]
                  ELSE [edge[p] EXCEPT !.status = "accepted"]]
    /\ invites' = {i \in invites : i[1] \notin E}
    /\ agreed' = agreed \cup ({a} \X inviters(shown)) \cup (inviters(shown) \X {a})
    /\ Changed(UNION {p \in bound : edge[p].status # "accepted"}, "joined")

UnprovenToo(a) ==           \* faulty: forgets verified = TRUE
    Consume(a, {e \in Emails : addr'[e].owner = a})

\* At the commit of LinkLogin, when the address of the sign-in is there.
ConsumePendingInvites(a) == Consume(a, {e \in Emails : addr'[e].owner = a /\ addr'[e].verified})

AccountStep(c) ==
    \/ AskAsMe(c) \/ AskAsSuperuser(c) \/ BeginSignIn(c)
    \/ CountUsers(c) \/ FindUser(c) \/ LinkTooLate(c)
    \/ InsertUnverifiedEmail(c) \/ ReadForResend(c) \/ RotateToken(c) \/ SendVerifyEmail(c)
    \/ SendFails(c) \/ DeleteUserEmail(c) \/ InviteUser(c) \/ UpdateUser(c)

Next ==
    \/ \E c \in Calls : AccountStep(c) /\ UNCHANGED friendVars
    \/ \E c \in Calls, a \in Accounts : LinkLogin(c, a) /\ ConsumePendingInvites(a)
    \/ \E c \in Calls, a \in Accounts : DeleteUser(c, a) /\ Deserted(a)
    \/ VerifyEmailByToken /\ UNCHANGED friendVars
    \/ \E c \in Calls :
          \/ AskAsFriend(c) \/ LookUpTarget(c) \/ UpsertPendingFriendInvite(c)
          \/ InsertFriendship(c) \/ RequestAgain(c) \/ AcceptFriendship(c) \/ RemoveFriendship(c)
          \/ CancelOutgoingInvite(c) \/ PublishNotifications(c) \/ CountFails(c) \/ Fails(c)

Spec == Init /\ [][Next]_vars

-----------------------------------------------------------------------------
(* What must hold                                                          *)

FriendsTypeOK ==
    /\ AccountsTypeOK
    /\ edge \in [Pairs -> Edge] /\ invites \subseteq Emails \X Accounts
    /\ \A p \in Pairs : IF edge[p].status = "none" THEN edge[p] = NoEdge ELSE edge[p].by \in p
    /\ agreed \subseteq Accounts \X Accounts /\ untold \subseteq Accounts \X (Announced \cup Silent)

\* Nobody is asked in the name of somebody who did not ask, and two are friends only
\* if each of them asked, accepted, or turned up at an address the other wrote to,
\* whatever requests, removals and sign-ins overlapped (store/friends.go:174, 353).
FriendsConsent ==
    \A a, b \in Accounts : a # b =>
        /\ edge[{a, b}].status = "accepted" => <<a, b>> \in agreed /\ <<b, a>> \in agreed
        /\ edge[{a, b}].status = "pending" /\ edge[{a, b}].by = a => <<a, b>> \in agreed

\* With nothing under way and nothing having failed, whoever was asked had his count
\* recomputed and pushed afterwards, and so had both ends of a friendship that was
\* accepted, declined or ended (friends.go:134, 231-233, 247-251), whatever overlapped.
\* App.tsx:68 says so of every change; nothing is pushed, though, when a request meets
\* one the other way and is accepted by itself (friends.go:130), when a request is
\* withdrawn (friends.go:280), when invitations become friendships at a sign-in, whose
\* inviters are returned to be notified (store/friends.go:349) and dropped (users.go:345),
\* and when an account goes: these debts are recorded as Silent, and remain.
AnswersReported ==
    (failures = 0 /\ \A c \in Calls : call[c] = Idle) => \A d \in untold : d[2] \in Silent

\* Whatever requests and sign-ins overlap, two accounts become friends only through a
\* request between them or an invitation, and nothing but a removal undoes it.
Graph == INSTANCE FriendGraph WITH
    People <- Accounts, Addresses <- Emails, Nobody <- NoOne, letters <- invites,
    bond <- [p \in Pairs |-> [is |-> edge[p].status, by |-> edge[p].by]]
KeepsFriendGraph == Graph!Spec
=============================================================================
