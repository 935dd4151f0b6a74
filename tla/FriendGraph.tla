----------------------------- MODULE FriendGraph -----------------------------
(***************************************************************************)
(* What the friends feature promises, without requests, rows or races: two *)
(* people are strangers, one has asked the other, or they are friends; and *)
(* a letter to an address waits for whoever turns out to read mail there.  *)
(* Nobody becomes a friend but by agreeing to be asked, or by turning up   *)
(* at an address a letter was sent to.                                     *)
(***************************************************************************)
CONSTANTS People, Addresses, Nobody

VARIABLES
    bond,       \* for two people: [is, by]
    letters     \* <<address, writer>>

Pairs == {p \in SUBSET People : \E a, b \in People : a # b /\ p = {a, b}}
Strangers == [is |-> "none", by |-> Nobody]

Init ==
    /\ bond \in [Pairs -> [is : {"none", "pending", "accepted"}, by : People \cup {Nobody}]]
    /\ letters \subseteq Addresses \X People

Ask(a, b) ==
    /\ bond[{a, b}] = Strangers
    /\ bond' = [bond EXCEPT ![{a, b}] = [is |-> "pending", by |-> a]]
    /\ UNCHANGED letters

\* b agrees to what a asked.
Agree(a, b) ==
    /\ bond[{a, b}] = [is |-> "pending", by |-> a]
    /\ bond' = [bond EXCEPT ![{a, b}].is = "accepted"]
    /\ UNCHANGED letters

\* Either of them declines, takes the question back, or ends the friendship.
Part(a, b) ==
    /\ bond' = [bond EXCEPT ![{a, b}] = Strangers]
    /\ UNCHANGED letters

Write(a, e) == letters' = letters \cup {<<e, a>>} /\ UNCHANGED bond

\* a takes back the letter to e, and the questions S he asked by that address.
Withdraw(a, e, S) ==
    /\ \A p \in S : bond[p] = [is |-> "pending", by |-> a]
    /\ bond' = [p \in Pairs |-> IF p \in S THEN Strangers ELSE bond[p]]
    /\ letters' = letters \ {<<e, a>>}

\* b turns up at the addresses E: whoever wrote there is a friend now.
TurnUp(b, E) ==
    LET writers == {a \in People \ {b} : \E e \in E : <<e, a>> \in letters} IN
    /\ bond' = [p \in Pairs |->
                  IF b \in p /\ p \cap writers # {}
                  THEN [is |-> "accepted",
                        by |-> IF bond[p] = Strangers THEN CHOOSE a \in p : a # b ELSE bond[p].by]
                  ELSE bond[p]]
    /\ letters' = {l \in letters : l[1] \notin E}

Leave(a) ==
    /\ bond' = [p \in Pairs |-> IF a \in p THEN Strangers ELSE bond[p]]
    /\ letters' = {l \in letters : l[2] # a}

Next ==
    \/ \E a, b \in People : a # b /\ (Ask(a, b) \/ Agree(a, b) \/ Part(a, b))
    \/ \E a \in People, e \in Addresses :
          Write(a, e) \/ \E S \in SUBSET {p \in Pairs : bond[p].by = a} : Withdraw(a, e, S)
    \/ \E b \in People, E \in SUBSET Addresses : TurnUp(b, E)
    \/ \E a \in People : Leave(a)

Spec == Init /\ [][Next]_<<bond, letters>>
=============================================================================
