---------------------------- MODULE MCFriendships ----------------------------
(* Three accounts, two addresses, two people at a provider, two calls at once. *)
EXTENDS Friendships, TLC

CONSTANTS ann, bob, eve, e1, e2, annGh, bobGo, bobGh, bobName, c1, c2

MCAccounts == {ann, bob, eve}
MCEmails == {e1, e2}
MCIdentities == {annGh, bobGh, bobGo}
MCCalls == {c1, c2}
Symmetric == Permutations(MCCalls)

MCAnswers == {[provider |-> "github", id |-> bobGh, login |-> bobName, email |-> e2, trusted |-> TRUE],
              [provider |-> "google", id |-> bobGo, login |-> NoLogin, email |-> e2, trusted |-> TRUE],
              [provider |-> "google", id |-> bobGo, login |-> NoLogin, email |-> e1, trusted |-> FALSE]}

Unborn == [GoneUser EXCEPT !.state = "unborn"]
Person(super, name) == [state |-> "live", active |-> TRUE, super |-> super, name |-> name]
Of(a, row, token) == [owner |-> a, row |-> row, verified |-> token = 0, token |-> token]
Db(accts, cookies, ids, mails, edges, letters) ==
    [account |-> accts, session |-> cookies, owner |-> ids, addr |-> mails,
     edge |-> edges, invites |-> letters]
NoEdges == [p \in Pairs |-> NoEdge]
Asked(a, b, e) == [NoEdges EXCEPT ![{a, b}] = [status |-> "pending", by |-> a, email |-> e]]

\* Ann, a superuser, has invited bob by his user name and by an address.
Invited == Db(ann :> Person(TRUE, Suffixed) @@ bob :> Person(FALSE, bobName) @@ eve :> Unborn, {ann},
              annGh :> ann @@ bobGh :> NoOne @@ bobGo :> NoOne,
              e1 :> Of(ann, 1, 0) @@ e2 :> Free, NoEdges, {<<e2, ann>>})
\* Ann has asked bob by his only address; she owns the one his provider names.
Known == Db(ann :> Person(TRUE, Suffixed) @@ bob :> Person(TRUE, bobName) @@ eve :> Unborn, {bob},
            annGh :> ann @@ bobGh :> bob @@ bobGo :> NoOne,
            e1 :> Of(bob, 1, 0) @@ e2 :> Of(ann, 2, 0), Asked(ann, bob, e1), {})
\* Each has written to the other; the address ann wrote to bob has not proven.
Unproven == Db(ann :> Person(TRUE, Suffixed) @@ bob :> Person(FALSE, bobName) @@ eve :> Unborn, {ann, bob},
               annGh :> ann @@ bobGh :> bob @@ bobGo :> NoOne,
               e1 :> Of(ann, 1, 0) @@ e2 :> Of(bob, 2, 2), Asked(bob, ann, e1), {<<e2, ann>>})
Empty == Db([a \in MCAccounts |-> Unborn], {}, annGh :> NoOne @@ bobGh :> NoOne @@ bobGo :> NoOne,
            e1 :> Free @@ e2 :> Free, NoEdges, {})
MCSeeds == {Invited, Known, Unproven, Empty}
=============================================================================
