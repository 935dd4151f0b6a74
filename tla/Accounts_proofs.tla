--------------------------- MODULE Accounts_proofs ---------------------------
(* What every step on accounts preserves, for any people, addresses and     *)
(* providers, any number of calls at once and any failures.                 *)
EXTENDS Accounts, FiniteSetTheorems, TLAPS

USE AccountsAssumption

-----------------------------------------------------------------------------
(* The invariant                                                            *)

MailOps == {"addEmail", "resend", "deleteEmail"}
FriendOps == {"invite", "accept", "remove", "cancel"}
Meets(k) == k.op \in {"accept", "remove"} \/ (k.op = "invite" /\ k.at \in {"insert", "locked"})

\* What a call under way knows: who asks, and the address, the profile or the account it is about.
Informed(k) ==
    /\ k.op \in MailOps \cup FriendOps \cup AdminOps => k.me \in Accounts
    /\ k.op \in MailOps \cup {"invite", "cancel"} => k.email \in Emails
    /\ k.op = "signIn" => /\ k.profile \in Profiles /\ (k.by # "none" => k.who \in Accounts)
                          /\ k.at # "link" => k.by = "none"
    /\ k.op \in {"updateUser", "deleteUser"} \/ Meets(k) => k.who \in Accounts
    /\ Meets(k) => k.me # k.who
    /\ k.op = "inviteUser" => k.login \in Logins
    /\ k.tell # {} => k.op \in FriendOps /\ k.at = "tell"
Sound == {k \in Call : Informed(k)}

Typed == AccountsTypeOK /\ call \in [Calls -> Sound]

\* Addresses and identities belong to accounts there have been.
Rows ==
    /\ \A e \in Emails : IF addr[e].owner = NoOne THEN addr[e] = Free
                         ELSE account[addr[e].owner].state # "unborn"
    /\ \A i \in Identities : owner[i] # NoOne => account[owner[i]].state # "unborn"

\* A token was issued for one address, and is mailed to no other.
Sending(c) == call[c].op \in {"addEmail", "resend"} /\ call[c].at = "mail"
Tokens ==
    /\ \A m \in mailed : m[1] <= serial
    /\ \A c \in Calls : call[c].token <= serial
    /\ \A e \in Emails : addr[e].token <= serial
    /\ \A m \in mailed, e \in Emails : m[1] # 0 /\ addr[e].token = m[1] => m[2] = e
    /\ \A c \in Calls, e \in Emails :
          Sending(c) /\ call[c].token # 0 /\ addr[e].token = call[c].token => call[c].email = e

\* Who administers alone is a superuser, and does not take that from himself.
Settled == \E a \in Accounts : account[a].state # "unborn"
Demotes(k) == k.op = "deleteUser" \/ (k.op = "updateUser" /\ k.change \in {"demote", "deactivate"})
Governed ==
    /\ ~crossed /\ Settled => Supers # {}
    /\ ~crossed => \A c, d \in Calls : call[c].op \in AdminOps /\ call[d].op \in AdminOps => c = d
    /\ ~crossed => \A c \in Calls : call[c].op \in AdminOps =>
                       call[c].me \in Supers /\ (Demotes(call[c]) => call[c].who # call[c].me)
    /\ \A c \in Calls : call[c].op = "signIn" /\ call[c].at \in {"find", "link"} /\ ~call[c].first => Settled

\* Of an identity that signs in alone, what was found stays true until it is linked.
StillFound(k) == IF k.by = "identity" THEN owner[k.profile.id] = k.who \/ account[k.who].state = "gone"
                 ELSE owner[k.profile.id] = NoOne
Alone ==
    /\ \A c, d \in Calls : /\ call[c].op = "signIn" /\ call[d].op = "signIn" /\ c # d
                           /\ call[c].profile.id = call[d].profile.id
                           => call[c].profile.id \in raced
    /\ \A c \in Calls : At(c, "signIn", "link") /\ call[c].profile.id \notin raced => StillFound(call[c])

AccountsInv == Typed /\ Rows /\ Tokens /\ AddressProven /\ Governed /\ Alone

-----------------------------------------------------------------------------
(* Profiles and calls                                                       *)

\* A provider names an address only if it vouches for it.
LEMMA ProfilesVouched ==
  ASSUME NEW p \in Profiles
  PROVE  /\ p.id \in Identities /\ p.login \in Logins \cup {NoLogin} /\ p.email \in Emails \cup {NoEmail}
         /\ p.email \in Emails => p.email \in Vouched(p.id, p.email)
<1>1. PICK w \in Answers : p \in IF w.provider = "github" THEN GitHubProfiles(w)
                                 ELSE IF w.provider = "google" THEN GoogleProfiles(w) ELSE DevProfiles(w)
  BY DEF Profiles
<1>2. w \in [provider : {"github", "google", "dev"}, id : Identities,
             login : Logins \cup {NoLogin}, email : Emails \cup {NoEmail}, trusted : BOOLEAN]
  OBVIOUS
<1>3. /\ p.id = w.id /\ p.login \in {w.login, NoLogin}
      /\ p.email = NoEmail \/ (p.email = w.email /\ w.trusted)
  BY <1>1 DEF GitHubProfiles, GoogleProfiles, DevProfiles
<1> QED
  BY <1>2, <1>3 DEF Vouched

LEMMA IdleIsSound == Idle \in Sound /\ Idle.token = 0
  BY DEF Idle, Sound, Informed, Call, Ops, Steps, Changes, MailOps, FriendOps, AdminOps, Meets

LEMMA SoundFields ==
  ASSUME NEW k \in Sound
  PROVE  /\ k.op \in Ops /\ k.at \in Steps /\ k.me \in Accounts \cup {NoOne} /\ k.who \in Accounts \cup {NoOne}
         /\ k.email \in Emails \cup {NoEmail} /\ k.profile \in Profiles \cup {NoProfile}
         /\ k.login \in Logins \cup {NoLogin} /\ k.by \in {"none", "identity", "email", "login"}
         /\ k.row \in Nat /\ k.token \in Nat /\ k.first \in BOOLEAN /\ k.change \in Changes
         /\ k.tell \subseteq Accounts /\ Informed(k)
  BY DEF Sound, Call

LEMMA CallSet ==
  ASSUME call \in [Calls -> Sound], NEW c \in Calls, NEW k \in Sound, call' = [call EXCEPT ![c] = k]
  PROVE  /\ call' \in [Calls -> Sound] /\ call' \in [Calls -> Call] /\ call'[c] = k
         /\ \A d \in Calls \ {c} : call'[d] = call[d]
  BY DEF Sound

LEMMA SupersAre == Supers = {a \in Accounts : account[a].state = "live" /\ account[a].active /\ account[a].super}
  BY DEF Supers, Live

\* A step that changes no table, but one call.
LEMMA CallStep ==
  ASSUME AccountsInv, UNCHANGED accountVars, asked' \in Nat, failures' \in Nat,
         NEW c \in Calls, NEW k \in Sound, call' = [call EXCEPT ![c] = k],
         k.op \notin AdminOps, k.token <= serial,
         ~(k.op \in {"addEmail", "resend"} /\ k.at = "mail"),
         k.op = "signIn" => /\ call[c].op = "signIn" /\ call[c].profile = k.profile
                            /\ k.at \in {"find", "link"} /\ ~k.first => Settled
                            /\ k.at = "link" => StillFound(k)
  PROVE  AccountsInv'
<1> USE DEF accountVars
<1>1. /\ call' \in [Calls -> Sound] /\ call' \in [Calls -> Call] /\ call'[c] = k
      /\ \A d \in Calls \ {c} : call'[d] = call[d]
  BY CallSet DEF AccountsInv, Typed
<1>2. Typed'
  BY <1>1 DEF AccountsInv, Typed, AccountsTypeOK
<1>3. Rows' /\ AddressProven'
  BY DEF AccountsInv, Rows, AddressProven
<1>4. Tokens'
  BY <1>1 DEF AccountsInv, Tokens, Sending
<1>5. Governed'
  <2>1. Supers' = Supers /\ (Settled <=> Settled')
    BY DEF Supers, Live, Settled
  <2>2. (~crossed /\ Settled => Supers # {})'
    BY <2>1 DEF AccountsInv, Governed
  <2>3. ASSUME ~crossed', NEW x \in Calls, call'[x].op \in AdminOps
        PROVE  x # c /\ call'[x] = call[x]
    BY <1>1, <2>3
  <2>4. (~crossed => \A x, d \in Calls : call[x].op \in AdminOps /\ call[d].op \in AdminOps => x = d)'
    BY <2>3 DEF AccountsInv, Governed
  <2>5. (~crossed => \A x \in Calls : call[x].op \in AdminOps =>
                       call[x].me \in Supers /\ (Demotes(call[x]) => call[x].who # call[x].me))'
    BY <2>1, <2>3 DEF AccountsInv, Governed, Demotes
  <2>6. (\A x \in Calls : call[x].op = "signIn" /\ call[x].at \in {"find", "link"} /\ ~call[x].first => Settled)'
    BY <1>1, <2>1 DEF AccountsInv, Governed
  <2> QED
    BY <2>2, <2>4, <2>5, <2>6 DEF Governed
<1>6. Alone'
  <2>1. (\A x, d \in Calls : /\ call[x].op = "signIn" /\ call[d].op = "signIn" /\ x # d
                             /\ call[x].profile.id = call[d].profile.id
                           => call[x].profile.id \in raced)'
    BY <1>1 DEF AccountsInv, Alone
  <2>2. (\A x \in Calls : At(x, "signIn", "link") /\ call[x].profile.id \notin raced => StillFound(call[x]))'
    BY <1>1 DEF AccountsInv, Alone, At, StillFound
  <2> QED
    BY <2>1, <2>2 DEF Alone
<1> QED
  BY <1>2, <1>3, <1>4, <1>5, <1>6 DEF AccountsInv

-----------------------------------------------------------------------------
(* Steps that change no table                                               *)

LEMMA StartInv ==
  ASSUME AccountsInv, NEW c \in Calls, NEW k \in Sound, Start(c, k), UNCHANGED accountVars,
         k.op \notin AdminOps \cup {"signIn"}, k.at # "mail", k.token = 0
  PROVE  AccountsInv'
<1>1. asked' \in Nat /\ failures' \in Nat /\ serial \in Nat /\ call' = [call EXCEPT ![c] = k]
  BY DEF Start, AccountsInv, Typed, AccountsTypeOK
<1>2. k.token <= serial /\ k.op \notin AdminOps /\ k.op # "signIn" /\ ~(k.op \in {"addEmail", "resend"} /\ k.at = "mail")
  BY <1>1
<1> QED
  BY <1>1, <1>2, CallStep

LEMMA AskAsMeInv ==
  ASSUME AccountsInv, NEW c \in Calls, AskAsMe(c)
  PROVE  AccountsInv'
<1>1. PICK a \in Accounts, e \in Emails :
        /\ \/ Start(c, [Idle EXCEPT !.op = "addEmail", !.at = "write", !.me = a, !.email = e])
           \/ Start(c, [Idle EXCEPT !.op = "resend", !.at = "find", !.me = a, !.email = e, !.row = addr[e].row])
           \/ Start(c, [Idle EXCEPT !.op = "deleteEmail", !.at = "write", !.me = a, !.email = e,
                                    !.row = addr[e].row])
        /\ UNCHANGED accountVars
  BY Zenon DEF AskAsMe
<1>2. addr[e].row \in Nat
  BY DEF AccountsInv, Typed, AccountsTypeOK, Address
<1>3. CASE Start(c, [Idle EXCEPT !.op = "addEmail", !.at = "write", !.me = a, !.email = e])
  <2> DEFINE k == [Idle EXCEPT !.op = "addEmail", !.at = "write", !.me = a, !.email = e]
  <2>1. k \in Sound /\ k.op \notin AdminOps \cup {"signIn"} /\ k.at # "mail" /\ k.token = 0
    BY DEF Idle, Sound, Informed, Call, Ops, Steps, Changes, MailOps, FriendOps, AdminOps, Meets
  <2> HIDE DEF k
  <2> QED
    BY <1>1, <1>3, <2>1, StartInv DEF k
<1>4. CASE Start(c, [Idle EXCEPT !.op = "resend", !.at = "find", !.me = a, !.email = e, !.row = addr[e].row])
  <2> DEFINE k == [Idle EXCEPT !.op = "resend", !.at = "find", !.me = a, !.email = e, !.row = addr[e].row]
  <2>1. k \in Sound /\ k.op \notin AdminOps \cup {"signIn"} /\ k.at # "mail" /\ k.token = 0
    BY <1>2 DEF Idle, Sound, Informed, Call, Ops, Steps, Changes, MailOps, FriendOps, AdminOps, Meets
  <2> HIDE DEF k
  <2> QED
    BY <1>1, <1>4, <2>1, StartInv DEF k
<1>5. CASE Start(c, [Idle EXCEPT !.op = "deleteEmail", !.at = "write", !.me = a, !.email = e,
                                 !.row = addr[e].row])
  <2> DEFINE k == [Idle EXCEPT !.op = "deleteEmail", !.at = "write", !.me = a, !.email = e,
                               !.row = addr[e].row]
  <2>1. k \in Sound /\ k.op \notin AdminOps \cup {"signIn"} /\ k.at # "mail" /\ k.token = 0
    BY <1>2 DEF Idle, Sound, Informed, Call, Ops, Steps, Changes, MailOps, FriendOps, AdminOps, Meets
  <2> HIDE DEF k
  <2> QED
    BY <1>1, <1>5, <2>1, StartInv DEF k
<1> QED
  BY <1>1, <1>3, <1>4, <1>5

\* A call that ends, whatever it was.
LEMMA EndInv ==
  ASSUME AccountsInv, NEW c \in Calls, Done(c), UNCHANGED accountVars, asked' \in Nat, failures' \in Nat
  PROVE  AccountsInv'
<1>1. Idle \in Sound /\ Idle.op \notin AdminOps /\ Idle.op # "signIn"
      /\ ~(Idle.op \in {"addEmail", "resend"} /\ Idle.at = "mail")
  BY IdleIsSound DEF Idle, AdminOps
<1>2. Idle.token <= serial /\ call' = [call EXCEPT ![c] = Idle]
  BY IdleIsSound DEF Done, AccountsInv, Typed, AccountsTypeOK
<1> QED
  BY <1>1, <1>2, CallStep

LEMMA CountUsersInv ==
  ASSUME AccountsInv, NEW c \in Calls, CountUsers(c)
  PROVE  AccountsInv'
<1> DEFINE first == \A a \in Accounts : ~Live(a)
           k == [call[c] EXCEPT !.first = first, !.at = "find"]
<1>1. call[c] \in Sound /\ call[c].op = "signIn" /\ call[c].at = "count"
  BY DEF CountUsers, At, AccountsInv, Typed
<1>2. call' = [call EXCEPT ![c] = k]
  BY DEF CountUsers
<1>3. first \in BOOLEAN
  OBVIOUS
<1>4. ~first => Settled
  BY DEF Live, Settled
<1> HIDE DEF first
<1>5. k \in Sound /\ k.op = "signIn" /\ k.profile = call[c].profile /\ k.at = "find" /\ k.first = first
      /\ k.token = call[c].token
  BY <1>1, <1>3, ZenonT(60) DEF Sound, Informed, Call, Steps, MailOps, FriendOps, AdminOps, Meets
<1> HIDE DEF k
<1>6. call[c].token <= serial /\ asked' \in Nat /\ failures' \in Nat
  BY DEF CountUsers, Served, AccountsInv, Typed, AccountsTypeOK, Tokens
<1>7. UNCHANGED accountVars
  BY DEF CountUsers
<1> QED
  BY <1>1, <1>2, <1>4, <1>5, <1>6, <1>7, CallStep DEF AdminOps

LEMMA Finding ==
  ASSUME AccountsInv, NEW p \in Profiles
  PROVE  LET f == FindUserForLogin(p) IN
         /\ f.by \in {"none", "identity", "email", "login"} /\ f.who \subseteq Accounts
         /\ f.by = "identity" => \A a \in f.who : owner[p.id] = a
         /\ f.by # "identity" => owner[p.id] = NoOne
<1>1. p.id \in Identities /\ owner[p.id] \in Accounts \cup {NoOne}
  BY ProfilesVouched DEF AccountsInv, Typed, AccountsTypeOK
<1>2. ByIdentity(p) = {} => owner[p.id] = NoOne
  BY <1>1 DEF ByIdentity
<1>3. ByIdentity(p) \subseteq Accounts /\ ByEmail(p) \subseteq Accounts /\ ByLogin(p) \subseteq Accounts
      /\ \A a \in ByIdentity(p) : owner[p.id] = a
  BY DEF ByIdentity, ByEmail, ByLogin
<1> QED
  BY <1>2, <1>3 DEF FindUserForLogin

LEMMA FindUserInv ==
  ASSUME AccountsInv, NEW c \in Calls, FindUser(c)
  PROVE  AccountsInv'
<1> DEFINE p == call[c].profile
           f == FindUserForLogin(p)
<1>1. /\ call[c] \in Sound /\ call[c].op = "signIn" /\ call[c].at = "find"
      /\ UNCHANGED accountVars /\ asked' \in Nat /\ failures' \in Nat /\ call[c].token <= serial
      /\ ~call[c].first => Settled
  BY DEF FindUser, At, Served, AccountsInv, Typed, AccountsTypeOK, Tokens, Governed
<1>2. p \in Profiles /\ call[c].by = "none"
  BY <1>1 DEF Sound, Informed
<1>3. CASE f.by = "none" /\ Continue(c, "link")
  <2> DEFINE k == [call[c] EXCEPT !.at = "link"]
  <2>1. k \in Sound /\ k.op = "signIn" /\ k.profile = p /\ k.by = "none" /\ k.first = call[c].first
        /\ k.token = call[c].token /\ k.at = "link"
    BY <1>1, <1>2 DEF Sound, Informed, Call, Steps, MailOps, FriendOps, AdminOps, Meets
  <2>2. call' = [call EXCEPT ![c] = k]
    BY <1>3 DEF Continue
  <2>3. StillFound(k)
    BY <1>2, <1>3, <2>1, Finding DEF StillFound
  <2> HIDE DEF k
  <2> QED
    BY <1>1, <2>1, <2>2, <2>3, CallStep DEF AdminOps
<1>4. ASSUME NEW a \in f.who, account[a].active,
             call' = [call EXCEPT ![c].by = f.by, ![c].who = a, ![c].at = "link"]
      PROVE  AccountsInv'
  <2>1. a \in Accounts /\ f.by \in {"none", "identity", "email", "login"}
    BY <1>2, Finding
  <2>2. PICK by \in {"none", "identity", "email", "login"} : by = f.by
    BY <2>1
  <2> DEFINE k == [call[c] EXCEPT !.by = by, !.who = a, !.at = "link"]
  <2> HIDE DEF f
  <2>3. /\ k \in Call /\ k.op = "signIn" /\ k.profile = p /\ k.by = by /\ k.who = a /\ k.first = call[c].first
        /\ k.token = call[c].token /\ k.at = "link" /\ k.tell = call[c].tell
    BY <1>1, <2>1, ZenonT(60) DEF Sound, Call, Steps
  <2>4. k \in Sound
    BY <1>1, <1>2, <2>1, <2>3 DEF Sound, Informed, MailOps, FriendOps, AdminOps, Meets
  <2>5. call' = [call EXCEPT ![c] = k]
    BY <1>4, <2>2
  <2>6. StillFound(k)
    BY <1>2, <1>4, <2>2, <2>3, Finding DEF StillFound, f
  <2> HIDE DEF k
  <2> QED
    BY <1>1, <2>3, <2>4, <2>5, <2>6, CallStep DEF AdminOps
<1>5. CASE Done(c)
  BY <1>1, <1>5, EndInv
<1>6. \/ f.by = "none" /\ Continue(c, "link")
      \/ \E a \in f.who : /\ account[a].active
                          /\ call' = [call EXCEPT ![c].by = f.by, ![c].who = a, ![c].at = "link"]
      \/ Done(c)
  BY Zenon DEF FindUser
<1> QED
  BY <1>3, <1>4, <1>5, <1>6, Zenon

LEMMA LinkTooLateInv ==
  ASSUME AccountsInv, NEW c \in Calls, LinkTooLate(c)
  PROVE  AccountsInv'
<1>1. Done(c) /\ UNCHANGED accountVars /\ asked' \in Nat /\ failures' \in Nat
  BY DEF LinkTooLate, Served, AccountsInv, Typed, AccountsTypeOK
<1> QED
  BY <1>1, EndInv

LEMMA ReadForResendInv ==
  ASSUME AccountsInv, NEW c \in Calls, ReadForResend(c)
  PROVE  AccountsInv'
<1>1. /\ call[c] \in Sound /\ call[c].op = "resend" /\ UNCHANGED accountVars
      /\ asked' \in Nat /\ failures' \in Nat /\ call[c].token <= serial
      /\ Done(c) \/ Continue(c, "write")
  BY DEF ReadForResend, At, Served, AccountsInv, Typed, AccountsTypeOK, Tokens
<1> DEFINE k == [call[c] EXCEPT !.at = "write"]
<1>2. k \in Sound /\ k.op = "resend" /\ k.at = "write" /\ k.token = call[c].token
  BY <1>1 DEF Sound, Informed, Call, Steps, MailOps, FriendOps, AdminOps, Meets
<1>3. Continue(c, "write") => call' = [call EXCEPT ![c] = k]
  BY DEF Continue
<1> HIDE DEF k
<1> QED
  BY <1>1, <1>2, <1>3, EndInv, CallStep DEF AdminOps

-----------------------------------------------------------------------------
(* Beginning a call that is watched                                         *)

LEMMA BeginSignInInv ==
  ASSUME AccountsInv, NEW c \in Calls, BeginSignIn(c)
  PROVE  AccountsInv'
<1>1. PICK p \in Profiles :
        /\ Start(c, [Idle EXCEPT !.op = "signIn", !.at = "count", !.profile = p])
        /\ raced' = raced \cup {i \in {p.id} : \E d \in Calls \ {c} :
                                    call[d].op = "signIn" /\ call[d].profile.id = i}
        /\ UNCHANGED <<account, owner, addr, session, mailed, serial, proven, crossed>>
  BY Zenon DEF BeginSignIn
<1> DEFINE k == [Idle EXCEPT !.op = "signIn", !.at = "count", !.profile = p]
<1>2. k \in Sound /\ k.op = "signIn" /\ k.at = "count" /\ k.profile = p /\ k.token = 0
  BY DEF Idle, Sound, Informed, Call, Ops, Steps, Changes, MailOps, FriendOps, AdminOps, Meets
<1>3. call' = [call EXCEPT ![c] = k] /\ asked' \in Nat /\ failures' \in Nat
  BY <1>1 DEF Start, AccountsInv, Typed, AccountsTypeOK
<1> HIDE DEF k
<1>4. /\ call' \in [Calls -> Sound] /\ call' \in [Calls -> Call] /\ call'[c] = k
      /\ \A d \in Calls \ {c} : call'[d] = call[d]
  BY <1>2, <1>3, CallSet DEF AccountsInv, Typed
<1>5. Typed'
  BY <1>1, <1>3, <1>4, ProfilesVouched DEF AccountsInv, Typed, AccountsTypeOK
<1>6. Rows' /\ AddressProven'
  BY <1>1 DEF AccountsInv, Rows, AddressProven
<1>7. Tokens'
  <2>1. 0 <= serial
    BY DEF AccountsInv, Typed, AccountsTypeOK
  <2> QED
    BY <1>1, <1>2, <1>4, <2>1 DEF AccountsInv, Tokens, Sending
<1>8. Governed'
  <2>1. Supers' = Supers /\ (Settled <=> Settled') /\ crossed' = crossed
    BY <1>1 DEF Supers, Live, Settled
  <2>2. \A x \in Calls : call'[x].op \in AdminOps => x # c /\ call'[x] = call[x]
    BY <1>2, <1>4 DEF AdminOps
  <2>3. \A x \in Calls : call'[x].op = "signIn" /\ call'[x].at \in {"find", "link"} => call'[x] = call[x]
    BY <1>2, <1>4
  <2> QED
    BY <2>1, <2>2, <2>3 DEF AccountsInv, Governed, Demotes
<1>9. Alone'
  <2>1. \A d \in Calls \ {c} : call[d].op = "signIn" /\ call[d].profile.id = p.id => p.id \in raced'
    BY <1>1
  <2>2. raced \subseteq raced' /\ owner' = owner /\ account' = account
    BY <1>1
  <2>3. (\A x, d \in Calls : /\ call[x].op = "signIn" /\ call[d].op = "signIn" /\ x # d
                             /\ call[x].profile.id = call[d].profile.id
                           => call[x].profile.id \in raced)'
    BY <1>2, <1>4, <2>1, <2>2 DEF AccountsInv, Alone
  <2>4. (\A x \in Calls : At(x, "signIn", "link") /\ call[x].profile.id \notin raced => StillFound(call[x]))'
    BY <1>2, <1>4, <2>2 DEF AccountsInv, Alone, At, StillFound
  <2> QED
    BY <2>3, <2>4 DEF Alone
<1> QED
  BY <1>5, <1>6, <1>7, <1>8, <1>9 DEF AccountsInv

\* A superuser begins to administer.
LEMMA AdministerInv ==
  ASSUME AccountsInv, NEW c \in Calls, NEW k \in Sound, Start(c, k),
         k.op \in AdminOps, k.me \in Supers, Demotes(k) => k.who # k.me, k.token = 0,
         crossed' = (crossed \/ \E d \in Calls \ {c} : call[d].op \in AdminOps),
         UNCHANGED <<account, owner, addr, session, mailed, serial, proven, raced>>
  PROVE  AccountsInv'
<1>1. call' = [call EXCEPT ![c] = k] /\ asked' \in Nat /\ failures' \in Nat
  BY DEF Start, AccountsInv, Typed, AccountsTypeOK
<1>2. /\ call' \in [Calls -> Sound] /\ call' \in [Calls -> Call] /\ call'[c] = k
      /\ \A d \in Calls \ {c} : call'[d] = call[d]
  BY <1>1, CallSet DEF AccountsInv, Typed
<1>3. k.op # "signIn" /\ k.op \notin {"addEmail", "resend"}
  BY DEF AdminOps
<1>4. crossed' \in BOOLEAN /\ (~crossed' => ~crossed /\ \A d \in Calls \ {c} : call[d].op \notin AdminOps)
  OBVIOUS
<1>5. Typed'
  BY <1>1, <1>2, <1>4 DEF AccountsInv, Typed, AccountsTypeOK
<1>6. Rows' /\ AddressProven'
  BY DEF AccountsInv, Rows, AddressProven
<1>7. Tokens'
  <2>1. 0 <= serial
    BY DEF AccountsInv, Typed, AccountsTypeOK
  <2> QED
    BY <1>2, <1>3, <2>1 DEF AccountsInv, Tokens, Sending
<1>8. Governed'
  <2>1. Supers' = Supers /\ (Settled <=> Settled')
    BY DEF Supers, Live, Settled
  <2>2. (~crossed /\ Settled => Supers # {})'
    BY <1>4, <2>1 DEF AccountsInv, Governed
  <2>3. (~crossed => \A x, d \in Calls : call[x].op \in AdminOps /\ call[d].op \in AdminOps => x = d)'
    BY <1>2, <1>4
  <2>4. (~crossed => \A x \in Calls : call[x].op \in AdminOps =>
                       call[x].me \in Supers /\ (Demotes(call[x]) => call[x].who # call[x].me))'
    <3> SUFFICES ASSUME ~crossed', NEW x \in Calls, call'[x].op \in AdminOps
                 PROVE  call'[x].me \in Supers' /\ (Demotes(call'[x]) => call'[x].who # call'[x].me)
      BY DEF Demotes
    <3>1. x = c
      BY <1>2, <1>4
    <3> QED
      BY <1>2, <2>1, <3>1
  <2>5. (\A x \in Calls : call[x].op = "signIn" /\ call[x].at \in {"find", "link"} /\ ~call[x].first => Settled)'
    BY <1>2, <1>3, <2>1 DEF AccountsInv, Governed
  <2> QED
    BY <2>2, <2>3, <2>4, <2>5 DEF Governed
<1>9. Alone'
  BY <1>2, <1>3 DEF AccountsInv, Alone, At, StillFound
<1> QED
  BY <1>5, <1>6, <1>7, <1>8, <1>9 DEF AccountsInv

LEMMA AskAsSuperuserInv ==
  ASSUME AccountsInv, NEW c \in Calls, AskAsSuperuser(c)
  PROVE  AccountsInv'
<1>1. PICK a \in Supers :
        /\ \/ \E l \in Logins : Start(c, [Idle EXCEPT !.op = "inviteUser", !.at = "write", !.me = a, !.login = l])
           \/ \E b \in Accounts, ch \in Changes \ {"none"} :
                 /\ ~(a = b /\ ch \in {"demote", "deactivate"})
                 /\ Start(c, [Idle EXCEPT !.op = "updateUser", !.at = "write", !.me = a, !.who = b, !.change = ch])
           \/ \E b \in Accounts \ {a} :
                 Start(c, [Idle EXCEPT !.op = "deleteUser", !.at = "write", !.me = a, !.who = b])
        /\ crossed' = (crossed \/ \E d \in Calls \ {c} : call[d].op \in AdminOps)
        /\ UNCHANGED <<account, owner, addr, session, mailed, serial, proven, raced>>
  BY Zenon DEF AskAsSuperuser
<1>2. a \in Accounts
  BY DEF Supers
<1>3. ASSUME NEW k \in Sound, k.op \in AdminOps, k.me = a, Demotes(k) => k.who # a, k.token = 0, Start(c, k)
      PROVE  AccountsInv'
  BY <1>1, <1>3, AdministerInv
<1>4. ASSUME NEW l \in Logins, Start(c, [Idle EXCEPT !.op = "inviteUser", !.at = "write", !.me = a, !.login = l])
      PROVE  AccountsInv'
  <2> DEFINE k == [Idle EXCEPT !.op = "inviteUser", !.at = "write", !.me = a, !.login = l]
  <2>1. k \in Sound /\ k.op \in AdminOps /\ k.me = a /\ k.token = 0 /\ ~Demotes(k)
    BY <1>2 DEF Idle, Sound, Informed, Call, Ops, Steps, Changes, MailOps, FriendOps, AdminOps, Meets, Demotes
  <2> HIDE DEF k
  <2> QED
    BY <1>3, <1>4, <2>1 DEF k
<1>5. ASSUME NEW b \in Accounts, NEW ch \in Changes \ {"none"}, ~(a = b /\ ch \in {"demote", "deactivate"}),
             Start(c, [Idle EXCEPT !.op = "updateUser", !.at = "write", !.me = a, !.who = b, !.change = ch])
      PROVE  AccountsInv'
  <2> DEFINE k == [Idle EXCEPT !.op = "updateUser", !.at = "write", !.me = a, !.who = b, !.change = ch]
  <2>1. k \in Sound /\ k.op \in AdminOps /\ k.me = a /\ k.token = 0 /\ (Demotes(k) => k.who # a)
    BY <1>2, <1>5
       DEF Idle, Sound, Informed, Call, Ops, Steps, Changes, MailOps, FriendOps, AdminOps, Meets, Demotes
  <2> HIDE DEF k
  <2> QED
    BY <1>3, <1>5, <2>1 DEF k
<1>6. ASSUME NEW b \in Accounts \ {a},
             Start(c, [Idle EXCEPT !.op = "deleteUser", !.at = "write", !.me = a, !.who = b])
      PROVE  AccountsInv'
  <2> DEFINE k == [Idle EXCEPT !.op = "deleteUser", !.at = "write", !.me = a, !.who = b]
  <2>1. k \in Sound /\ k.op \in AdminOps /\ k.me = a /\ k.token = 0 /\ (Demotes(k) => k.who # a)
    BY <1>2 DEF Idle, Sound, Informed, Call, Ops, Steps, Changes, MailOps, FriendOps, AdminOps, Meets, Demotes
  <2> HIDE DEF k
  <2> QED
    BY <1>3, <1>6, <2>1 DEF k
<1> QED
  BY <1>1, <1>4, <1>5, <1>6

-----------------------------------------------------------------------------
(* Addresses                                                                *)

\* What a step on addresses leaves alone.
LEMMA AddressStep ==
  ASSUME AccountsInv, NEW c \in Calls, NEW k \in Sound, call' = [call EXCEPT ![c] = k],
         k.op \notin AdminOps \cup {"signIn"}, UNCHANGED <<account, owner, raced, crossed>>
  PROVE  /\ call' \in [Calls -> Sound] /\ call' \in [Calls -> Call] /\ call'[c] = k
         /\ \A d \in Calls \ {c} : call'[d] = call[d]
         /\ Governed' /\ Alone'
<1>1. /\ call' \in [Calls -> Sound] /\ call' \in [Calls -> Call] /\ call'[c] = k
      /\ \A d \in Calls \ {c} : call'[d] = call[d]
  BY CallSet DEF AccountsInv, Typed
<1>2. Governed'
  <2>1. Supers' = Supers /\ (Settled <=> Settled')
    BY DEF Supers, Live, Settled
  <2>2. \A x \in Calls : call'[x].op \in AdminOps \cup {"signIn"} => call'[x] = call[x]
    BY <1>1
  <2> QED
    BY <2>1, <2>2 DEF AccountsInv, Governed, Demotes
<1>3. Alone'
  BY <1>1 DEF AccountsInv, Alone, At, StillFound
<1> QED
  BY <1>1, <1>2, <1>3

LEMMA AddressesAre ==
  ASSUME AccountsInv, NEW e \in Emails
  PROVE  /\ addr[e] \in Address /\ addr[e].row \in Nat /\ addr[e].token \in Nat /\ addr[e].token <= serial
         /\ addr[e].verified \in BOOLEAN /\ addr[e].owner \in Accounts \cup {NoOne} /\ serial \in Nat
         /\ addr[e].token # 0 \/ addr[e].verified => addr[e].owner \in Accounts
  BY DEF AccountsInv, Typed, AccountsTypeOK, Address, Tokens, Rows, Free

\* A new token, for one row that is somebody's.
LEMMA NewToken ==
  ASSUME AccountsInv, NEW c \in Calls, NEW k \in Sound, call' = [call EXCEPT ![c] = k],
         NEW e \in Emails, NEW token, token = serial + 1,
         k.op \in {"addEmail", "resend"}, k.at = "mail", k.token = token, k.email = e,
         NEW a \in Accounts, NEW row \in Nat, NEW verified \in BOOLEAN,
         addr' = [addr EXCEPT ![e] = [owner |-> a, row |-> row, verified |-> verified, token |-> token]],
         account[a].state # "unborn", verified => addr[e].verified /\ addr[e].owner = a,
         serial' = token, asked' \in Nat, failures' \in Nat,
         UNCHANGED <<account, owner, session, mailed, proven, raced, crossed>>
  PROVE  AccountsInv'
<1> DEFINE r == [owner |-> a, row |-> row, verified |-> verified, token |-> serial + 1]
<1>1. /\ call' \in [Calls -> Sound] /\ call' \in [Calls -> Call] /\ call'[c] = k
      /\ \A d \in Calls \ {c} : call'[d] = call[d]
      /\ Governed' /\ Alone'
  BY AddressStep DEF AdminOps
<1>2. serial \in Nat /\ serial + 1 \in Nat /\ serial + 1 > serial
  BY DEF AccountsInv, Typed, AccountsTypeOK
<1>3. r \in Address
  BY <1>2 DEF Address
<1>4. addr' \in [Emails -> Address] /\ addr'[e] = r /\ \A x \in Emails \ {e} : addr'[x] = addr[x]
  BY <1>3 DEF AccountsInv, Typed, AccountsTypeOK
<1>5. Typed'
  BY <1>1, <1>2, <1>4 DEF AccountsInv, Typed, AccountsTypeOK
<1>6. Rows'
  BY <1>4, AccountsAssumption DEF AccountsInv, Rows
<1>7. AddressProven'
  BY <1>4 DEF AccountsInv, AddressProven
<1>8. Tokens'
  <2>1. \A m \in mailed : m[1] \in Nat /\ m[1] <= serial
    BY DEF AccountsInv, Typed, AccountsTypeOK, Tokens
  <2>2. \A d \in Calls : call[d].token \in Nat /\ call[d].token <= serial
    BY SoundFields DEF AccountsInv, Typed, Tokens
  <2>3. \A x \in Emails : addr[x].token \in Nat /\ addr[x].token <= serial
    BY AddressesAre
  <2>4. (\A m \in mailed, x \in Emails : m[1] # 0 /\ addr[x].token = m[1] => m[2] = x)'
    BY <1>2, <1>4, <2>1 DEF AccountsInv, Tokens
  <2>5. (\A d \in Calls, x \in Emails :
          Sending(d) /\ call[d].token # 0 /\ addr[x].token = call[d].token => call[d].email = x)'
    <3> SUFFICES ASSUME NEW d \in Calls, NEW x \in Emails, Sending(d)', call'[d].token # 0,
                        addr'[x].token = call'[d].token
                 PROVE  call'[d].email = x
      OBVIOUS
    <3>1. CASE d = c
      BY <1>1, <1>2, <1>4, <2>3, <3>1
    <3>2. CASE d # c
      <4>1. x # e
        BY <1>1, <1>2, <1>4, <2>2, <3>2
      <4> QED
        BY <1>1, <1>4, <3>2, <4>1 DEF AccountsInv, Tokens, Sending
    <3> QED
      BY <3>1, <3>2
  <2>6. (\A m \in mailed : m[1] <= serial)'
    BY <1>2, <2>1
  <2>7. (\A d \in Calls : call[d].token <= serial)' /\ (\A x \in Emails : addr[x].token <= serial)'
    BY <1>1, <1>2, <1>4, <2>2, <2>3
  <2> QED
    BY <2>4, <2>5, <2>6, <2>7 DEF Tokens
<1> QED
  BY <1>1, <1>5, <1>6, <1>7, <1>8 DEF AccountsInv

LEMMA InsertUnverifiedEmailInv ==
  ASSUME AccountsInv, NEW c \in Calls, InsertUnverifiedEmail(c)
  PROVE  AccountsInv'
<1> DEFINE e == call[c].email
<1>1. /\ call[c] \in Sound /\ call[c].op = "addEmail" /\ serial + 1 \in Nat
      /\ asked' \in Nat /\ failures' \in Nat
      /\ UNCHANGED <<account, owner, session, mailed, proven, raced, crossed>>
  BY DEF InsertUnverifiedEmail, At, Served, AccountsInv, Typed, AccountsTypeOK
<1>2. e \in Emails /\ call[c].me \in Accounts
  BY <1>1 DEF Sound, Informed, MailOps
<1>3. CASE addr[e].owner = NoOne /\ Live(call[c].me)
  <2>1. PICK n \in Nat : n = serial + 1
    BY <1>1
  <2> DEFINE k == [call[c] EXCEPT !.row = n, !.token = n, !.at = "mail"]
  <2>2. /\ addr' = [addr EXCEPT ![e] = [owner |-> call[c].me, row |-> n, verified |-> FALSE, token |-> n]]
        /\ serial' = n
        /\ call' = [call EXCEPT ![c].row = n, ![c].token = n, ![c].at = "mail"]
    BY <1>3, <2>1 DEF InsertUnverifiedEmail
  <2>3. call' = [call EXCEPT ![c] = k]
    BY <2>2
  <2>4. k \in Sound /\ k.op = "addEmail" /\ k.at = "mail" /\ k.token = n /\ k.email = e
    <3>1. /\ k \in Call /\ k.op = call[c].op /\ k.at = "mail" /\ k.token = n /\ k.email = e
          /\ k.me = call[c].me /\ k.tell = call[c].tell
      BY <1>1, <2>1, ZenonT(60) DEF Sound, Call, Steps
    <3> HIDE DEF k
    <3> QED
      BY <1>1, <3>1 DEF Sound, Informed, MailOps, FriendOps, AdminOps, Meets
  <2>5. account[call[c].me].state # "unborn"
    BY <1>3 DEF Live
  <2> HIDE DEF k, e
  <2> QED
    BY <1>1, <1>2, <2>1, <2>2, <2>3, <2>4, <2>5, NewToken, ZenonT(200)
<1>4. CASE ~(addr[e].owner = NoOne /\ Live(call[c].me))
  BY <1>1, <1>4, EndInv DEF InsertUnverifiedEmail, accountVars
<1> QED
  BY <1>3, <1>4

LEMMA RotateTokenInv ==
  ASSUME AccountsInv, NEW c \in Calls, RotateToken(c)
  PROVE  AccountsInv'
<1> DEFINE e == call[c].email
<1>1. /\ call[c] \in Sound /\ call[c].op = "resend" /\ serial + 1 \in Nat
      /\ asked' \in Nat /\ failures' \in Nat
      /\ UNCHANGED <<account, owner, session, mailed, proven, raced, crossed>>
  BY DEF RotateToken, At, Served, AccountsInv, Typed, AccountsTypeOK
<1>2. e \in Emails /\ call[c].me \in Accounts
  BY <1>1 DEF Sound, Informed, MailOps
<1>3. CASE addr[e].row = call[c].row /\ addr[e].owner = call[c].me
  <2>1. PICK n \in Nat : n = serial + 1
    BY <1>1
  <2>2. PICK r \in Nat : r = call[c].row
    BY <1>1 DEF Sound, Call
  <2> DEFINE k == [call[c] EXCEPT !.row = r, !.token = n, !.at = "mail"]
  <2>3. /\ addr' = [addr EXCEPT ![e] = [addr[e] EXCEPT !.token = n]]
        /\ serial' = n
        /\ call' = [call EXCEPT ![c].token = n, ![c].at = "mail"]
    BY <1>3, <2>1 DEF RotateToken
  <2>4. call' = [call EXCEPT ![c] = k]
    <3>1. [call[c] EXCEPT !.token = n, !.at = "mail"] = k
      BY <1>1, <2>2 DEF Sound, Call
    <3> HIDE DEF k
    <3> QED
      BY <2>3, <3>1
  <2>5. k \in Sound /\ k.op = "resend" /\ k.at = "mail" /\ k.token = n /\ k.email = e
    <3>1. /\ k \in Call /\ k.op = call[c].op /\ k.at = "mail" /\ k.token = n /\ k.email = e
          /\ k.me = call[c].me /\ k.tell = call[c].tell
      <4>1. call[c] \in Call /\ n \in Nat /\ r \in Nat
        BY <1>1 DEF Sound
      <4> QED
        BY <4>1, ZenonT(60) DEF Call, Steps
    <3> HIDE DEF k
    <3> QED
      BY <1>1, <3>1 DEF Sound, Informed, MailOps, FriendOps, AdminOps, Meets
  <2>6. PICK a \in Accounts, verified \in BOOLEAN : a = addr[e].owner /\ verified = addr[e].verified
    BY <1>2, <1>3, AddressesAre
  <2>7. addr' = [addr EXCEPT ![e] = [owner |-> a, row |-> r, verified |-> verified, token |-> n]]
    <3>1. addr[e] \in Address
      BY <1>2, AddressesAre
    <3>2. [addr[e] EXCEPT !.token = n] = [owner |-> a, row |-> r, verified |-> verified, token |-> n]
      BY <1>3, <2>2, <2>6, <3>1 DEF Address
    <3> QED
      BY <2>3, <3>2
  <2>8. account[a].state # "unborn" /\ (verified => addr[e].verified /\ addr[e].owner = a)
    BY <1>2, <2>6, AccountsAssumption DEF AccountsInv, Rows
  <2> HIDE DEF k, e
  <2> QED
    <3>1. k \in Sound /\ e \in Emails /\ n = serial + 1 /\ a \in Accounts /\ r \in Nat /\ verified \in BOOLEAN
      BY <1>2, <2>1, <2>2, <2>5, <2>6
    <3>2. k.op \in {"addEmail", "resend"} /\ serial' = n /\ account[a].state # "unborn"
          /\ (verified => addr[e].verified /\ addr[e].owner = a)
      BY <2>3, <2>5, <2>8
    <3> QED
      BY <1>1, <2>4, <2>5, <2>7, <3>1, <3>2, NewToken, ZenonT(200)
<1>4. CASE ~(addr[e].row = call[c].row /\ addr[e].owner = call[c].me)
  BY <1>1, <1>4, EndInv DEF RotateToken, accountVars
<1> QED
  BY <1>3, <1>4

\* A mail that may have left.
LEMMA Sent ==
  ASSUME AccountsInv, NEW c \in Calls, NEW k \in Sound, call' = [call EXCEPT ![c] = k],
         k.op \in {"none", "addEmail", "resend"}, k.at # "mail", k.token <= serial,
         Sending(c), mailed' = mailed \/ mailed' = mailed \cup {Link(c)}, asked' \in Nat, failures' \in Nat,
         UNCHANGED <<account, owner, addr, session, serial, proven, raced, crossed>>
  PROVE  AccountsInv'
<1>1. /\ call' \in [Calls -> Sound] /\ call' \in [Calls -> Call] /\ call'[c] = k
      /\ \A d \in Calls \ {c} : call'[d] = call[d]
      /\ Governed' /\ Alone'
  BY AddressStep DEF AdminOps
<1>2. /\ call[c].token \in Nat /\ call[c].token <= serial /\ call[c].email \in Emails
      /\ Link(c)[1] = call[c].token /\ Link(c)[2] = call[c].email /\ Link(c) \in Nat \X Emails
  BY DEF AccountsInv, Typed, Tokens, Sending, Sound, Call, Informed, MailOps, Link
<1>3. Typed'
  BY <1>1, <1>2 DEF AccountsInv, Typed, AccountsTypeOK
<1>4. Rows' /\ AddressProven'
  BY DEF AccountsInv, Rows, AddressProven
<1>5. Tokens'
  <2>1. \A m \in mailed' : m \in mailed \/ m = Link(c)
    OBVIOUS
  <2>2. (\A m \in mailed : m[1] <= serial)'
    BY <1>2, <2>1 DEF AccountsInv, Tokens
  <2>3. (\A d \in Calls : call[d].token <= serial)' /\ (\A e \in Emails : addr[e].token <= serial)'
    BY <1>1 DEF AccountsInv, Tokens
  <2>4. (\A m \in mailed, e \in Emails : m[1] # 0 /\ addr[e].token = m[1] => m[2] = e)'
    BY <1>2, <2>1 DEF AccountsInv, Tokens
  <2>5. (\A d \in Calls, e \in Emails :
          Sending(d) /\ call[d].token # 0 /\ addr[e].token = call[d].token => call[d].email = e)'
    BY <1>1 DEF AccountsInv, Tokens, Sending
  <2> QED
    BY <2>2, <2>3, <2>4, <2>5 DEF Tokens
<1> QED
  BY <1>1, <1>3, <1>4, <1>5 DEF AccountsInv

LEMMA SendVerifyEmailInv ==
  ASSUME AccountsInv, NEW c \in Calls, SendVerifyEmail(c)
  PROVE  AccountsInv'
<1>1. /\ Sending(c) /\ mailed' = mailed \cup {Link(c)} /\ call' = [call EXCEPT ![c] = Idle]
      /\ asked' \in Nat /\ failures' \in Nat /\ Idle.token <= serial
      /\ UNCHANGED <<account, owner, addr, session, serial, proven, raced, crossed>>
  BY IdleIsSound DEF SendVerifyEmail, Sending, Done, Served, AccountsInv, Typed, AccountsTypeOK
<1>2. Idle \in Sound /\ Idle.op \in {"none", "addEmail", "resend"} /\ Idle.at # "mail"
  BY IdleIsSound DEF Idle
<1> QED
  BY <1>1, <1>2, Sent

LEMMA SendFailsInv ==
  ASSUME AccountsInv, NEW c \in Calls, SendFails(c)
  PROVE  AccountsInv'
<1> DEFINE k == [call[c] EXCEPT !.at = "undo"]
<1>1. /\ Sending(c) /\ call[c] \in Sound /\ (mailed' = mailed \/ mailed' = mailed \cup {Link(c)})
      /\ asked' \in Nat /\ failures' \in Nat /\ Idle.token <= serial /\ call[c].token <= serial
      /\ UNCHANGED <<account, owner, addr, session, serial, proven, raced, crossed>>
  BY IdleIsSound DEF SendFails, Sending, AccountsInv, Typed, AccountsTypeOK, Tokens
<1>2. CASE call[c].op = "addEmail" /\ Continue(c, "undo")
  <2>1. /\ k \in Sound /\ k.op = "addEmail" /\ k.at = "undo" /\ k.token = call[c].token
        /\ call' = [call EXCEPT ![c] = k]
    BY <1>1, <1>2 DEF Sound, Informed, Call, Steps, MailOps, FriendOps, AdminOps, Meets, Continue
  <2> HIDE DEF k
  <2> QED
    BY <1>1, <2>1, Sent
<1>3. CASE Done(c)
  <2>1. /\ Idle \in Sound /\ Idle.op \in {"none", "addEmail", "resend"} /\ Idle.at # "mail"
        /\ call' = [call EXCEPT ![c] = Idle]
    BY <1>3, IdleIsSound DEF Idle, Done
  <2> QED
    BY <1>1, <2>1, Sent
<1> QED
  BY <1>2, <1>3 DEF SendFails

\* Rows that are given up.
LEMMA FreeIs == Free \in Address /\ Free.token = 0 /\ ~Free.verified /\ Free.owner = NoOne
  BY DEF Free, Address

LEMMA DeleteUserEmailInv ==
  ASSUME AccountsInv, NEW c \in Calls, DeleteUserEmail(c)
  PROVE  AccountsInv'
<1>1. /\ call' = [call EXCEPT ![c] = Idle] /\ asked' \in Nat /\ failures' \in Nat
      /\ UNCHANGED <<account, owner, session, mailed, serial, proven, raced, crossed>>
      /\ call[c].op \in {"addEmail", "deleteEmail"} /\ call[c] \in Sound
  BY DEF DeleteUserEmail, At, Done, Served, AccountsInv, Typed, AccountsTypeOK
<1>2. call[c].email \in Emails
  BY <1>1 DEF Sound, Informed, MailOps
<1>3. /\ addr' \in [Emails -> Address]
      /\ \A e \in Emails : addr'[e] = addr[e] \/ addr'[e] = Free
  BY <1>2, FreeIs DEF DeleteUserEmail, AccountsInv, Typed, AccountsTypeOK
<1>4. Idle \in Sound /\ Idle.op = "none" /\ Idle.token = 0
  BY IdleIsSound DEF Idle
<1>5. /\ call' \in [Calls -> Sound] /\ call' \in [Calls -> Call] /\ call'[c] = Idle
      /\ \A d \in Calls \ {c} : call'[d] = call[d]
      /\ Governed' /\ Alone'
  BY <1>1, <1>4, AddressStep DEF AdminOps
<1>6. Typed'
  BY <1>1, <1>3, <1>5 DEF AccountsInv, Typed, AccountsTypeOK
<1>7. Rows' /\ AddressProven'
  BY <1>1, <1>3, FreeIs DEF AccountsInv, Rows, AddressProven
<1>8. Tokens'
  <2>1. 0 <= serial /\ serial' = serial /\ mailed' = mailed
    BY <1>1 DEF AccountsInv, Typed, AccountsTypeOK
  <2>2. \A d \in Calls : /\ Sending(d)' => Sending(d) /\ call'[d] = call[d]
                         /\ call'[d].token <= serial
    BY <1>4, <1>5, <2>1 DEF AccountsInv, Tokens, Sending
  <2>3. \A e \in Emails : addr'[e].token <= serial /\ (addr'[e].token # 0 => addr'[e].token = addr[e].token)
    BY <1>3, <2>1, FreeIs DEF AccountsInv, Tokens
  <2> QED
    BY <2>1, <2>2, <2>3 DEF AccountsInv, Tokens
<1> QED
  BY <1>5, <1>6, <1>7, <1>8 DEF AccountsInv

\* Somebody follows a link.
LEMMA VerifyEmailByTokenInv ==
  ASSUME AccountsInv, VerifyEmailByToken
  PROVE  AccountsInv'
<1>1. PICK m \in mailed, e \in Emails :
        /\ m[1] # 0 /\ addr[e].token = m[1]
        /\ addr' = [addr EXCEPT ![e].verified = TRUE, ![e].token = 0]
        /\ proven' = proven \cup {<<addr[e].owner, m[2]>>}
        /\ UNCHANGED <<account, owner, session, mailed, serial, raced, crossed, call, asked, failures>>
  BY DEF VerifyEmailByToken
<1>2. m[2] = e /\ addr[e].owner \in Accounts /\ addr[e] \in Address
  BY <1>1, AddressesAre DEF AccountsInv, Tokens
<1> DEFINE r == [addr[e] EXCEPT !.verified = TRUE, !.token = 0]
<1>3. r \in Address /\ r.owner = addr[e].owner /\ r.verified /\ r.token = 0
  BY <1>2 DEF Address
<1> HIDE DEF r
<1>4. addr' \in [Emails -> Address] /\ addr'[e] = r /\ \A x \in Emails \ {e} : addr'[x] = addr[x]
  BY <1>1, <1>3 DEF AccountsInv, Typed, AccountsTypeOK, r
<1>5. Typed'
  BY <1>1, <1>2, <1>4 DEF AccountsInv, Typed, AccountsTypeOK
<1>6. Rows'
  BY <1>1, <1>2, <1>3, <1>4, AccountsAssumption DEF AccountsInv, Rows
<1>7. AddressProven'
  BY <1>1, <1>2, <1>3, <1>4 DEF AccountsInv, AddressProven
<1>8. Tokens'
  <2>1. 0 <= serial /\ serial' = serial /\ mailed' = mailed /\ call' = call
    BY <1>1 DEF AccountsInv, Typed, AccountsTypeOK
  <2>2. \A x \in Emails : addr'[x].token <= serial /\ (addr'[x].token # 0 => addr'[x].token = addr[x].token)
    BY <1>3, <1>4, <2>1 DEF AccountsInv, Tokens
  <2> QED
    BY <2>1, <2>2 DEF AccountsInv, Tokens, Sending
<1>9. Governed' /\ Alone'
  <2>1. Supers' = Supers /\ (Settled <=> Settled') /\ call' = call /\ crossed' = crossed
    BY <1>1 DEF Supers, Live, Settled
  <2> QED
    BY <1>1, <2>1 DEF AccountsInv, Governed, Demotes, Alone, At, StillFound
<1> QED
  BY <1>5, <1>6, <1>7, <1>8, <1>9 DEF AccountsInv

-----------------------------------------------------------------------------
(* Superusers                                                               *)

\* An administrative call ends; some superuser is left unless two of them overlapped.
LEMMA Administered ==
  ASSUME AccountsInv, NEW c \in Calls, call' = [call EXCEPT ![c] = Idle], call[c].op \in AdminOps,
         account' \in [Accounts -> User],
         \A a \in Accounts : account[a].state # "unborn" => account'[a].state # "unborn",
         \A a \in Accounts : account[a].state = "gone" => account'[a].state = "gone",
         ~crossed => Supers' # {}, asked' \in Nat, failures' \in Nat,
         UNCHANGED <<owner, addr, session, mailed, serial, proven, raced, crossed>>
  PROVE  AccountsInv'
<1>1. Idle \in Sound /\ Idle.op = "none" /\ Idle.token = 0
  BY IdleIsSound DEF Idle
<1>2. /\ call' \in [Calls -> Sound] /\ call' \in [Calls -> Call] /\ call'[c] = Idle
      /\ \A d \in Calls \ {c} : call'[d] = call[d]
  BY <1>1, CallSet DEF AccountsInv, Typed
<1>3. Typed'
  BY <1>2 DEF AccountsInv, Typed, AccountsTypeOK
<1>4. Rows' /\ AddressProven'
  BY AddressesAre DEF AccountsInv, Typed, AccountsTypeOK, Rows, AddressProven
<1>5. Tokens'
  <2>1. 0 <= serial
    BY DEF AccountsInv, Typed, AccountsTypeOK
  <2> QED
    BY <1>1, <1>2, <2>1 DEF AccountsInv, Tokens, Sending
<1>6. Governed'
  <2>1. Settled => Settled'
    BY DEF Settled
  <2>2. ~crossed => \A x \in Calls : call'[x].op \notin AdminOps
    BY <1>1, <1>2 DEF AccountsInv, Governed, AdminOps
  <2>3. \A x \in Calls : call'[x].op = "signIn" => call'[x] = call[x]
    BY <1>1, <1>2
  <2> QED
    BY <2>1, <2>2, <2>3 DEF AccountsInv, Governed, Demotes
<1>7. Alone'
  <2>1. \A x \in Calls : call'[x].op = "signIn" => call'[x] = call[x]
    BY <1>1, <1>2
  <2>2. \A x \in Calls : At(x, "signIn", "link") /\ call[x].by = "identity" => call[x].who \in Accounts
    BY DEF AccountsInv, Typed, Sound, Informed, At
  <2> QED
    BY <2>1, <2>2 DEF AccountsInv, Alone, At, StillFound
<1> QED
  BY <1>3, <1>4, <1>5, <1>6, <1>7 DEF AccountsInv

\* Who administers, and whom, at the last step of the call.
LEMMA Administering ==
  ASSUME AccountsInv, NEW c \in Calls, call[c].op \in AdminOps
  PROVE  /\ call[c] \in Sound /\ account \in [Accounts -> User]
         /\ call[c].op \in {"updateUser", "deleteUser"} => call[c].who \in Accounts
         /\ call[c].op = "inviteUser" => call[c].login \in Logins
         /\ ~crossed => /\ call[c].me \in Accounts /\ Live(call[c].me)
                        /\ account[call[c].me].active /\ account[call[c].me].super
                        /\ Demotes(call[c]) => call[c].who # call[c].me
  BY DEF AccountsInv, Typed, AccountsTypeOK, Governed, Supers, Sound, Informed

LEMMA InviteUserInv ==
  ASSUME AccountsInv, NEW c \in Calls, InviteUser(c)
  PROVE  AccountsInv'
<1>1. /\ call[c].op = "inviteUser" /\ call[c].op \in AdminOps /\ call' = [call EXCEPT ![c] = Idle]
      /\ asked' \in Nat /\ failures' \in Nat
      /\ UNCHANGED <<owner, addr, session, mailed, serial, proven, raced, crossed>>
  BY DEF InviteUser, At, Done, Served, AdminOps, AccountsInv, Typed, AccountsTypeOK
<1>2. ASSUME NEW a \in Accounts, NEW s \in BOOLEAN, account[a].state = "unborn",
             account' = [account EXCEPT ![a] = [state |-> "live", active |-> TRUE, super |-> s,
                                                name |-> call[c].login]]
      PROVE  AccountsInv'
  <2>1. [state |-> "live", active |-> TRUE, super |-> s, name |-> call[c].login] \in User
    BY <1>1, Administering DEF User
  <2>2. /\ account' \in [Accounts -> User] /\ account'[a].state = "live"
        /\ \A b \in Accounts \ {a} : account'[b] = account[b]
    BY <1>1, <1>2, <2>1, Administering
  <2>3. ~crossed => Supers' # {}
    BY <1>1, <1>2, <2>2, Administering DEF Supers, Live
  <2> QED
    BY <1>1, <1>2, <2>2, <2>3, Administered
<1>3. CASE UNCHANGED account
  <2>1. ~crossed => Supers' # {}
    BY <1>1, <1>3, Administering DEF Supers, Live
  <2> QED
    BY <1>1, <1>3, <2>1, Administering, Administered
<1> QED
  BY <1>2, <1>3 DEF InviteUser

LEMMA UpdatedIs ==
  ASSUME NEW u \in User, NEW ch \in Changes
  PROVE  /\ Updated(u, ch) \in User /\ Updated(u, ch).state = u.state
         /\ u.active /\ ch # "deactivate" => Updated(u, ch).active
         /\ u.super /\ ch # "demote" => Updated(u, ch).super
<1>1. PICK super \in BOOLEAN : super <=> (ch = "promote" \/ (u.super /\ ch # "demote"))
  OBVIOUS
<1>2. PICK active \in BOOLEAN : active <=> (ch = "activate" \/ (u.active /\ ch # "deactivate"))
  OBVIOUS
<1>3. Updated(u, ch) = [u EXCEPT !.super = super, !.active = active]
  BY <1>1, <1>2 DEF Updated, User
<1> QED
  BY <1>1, <1>2, <1>3 DEF User

LEMMA UpdateUserInv ==
  ASSUME AccountsInv, NEW c \in Calls, UpdateUser(c)
  PROVE  AccountsInv'
<1> DEFINE b == call[c].who
           ch == call[c].change
           row == IF account[b].state # "live" THEN account[b] ELSE Updated(account[b], ch)
<1>1. /\ call[c].op = "updateUser" /\ call[c].op \in AdminOps /\ call' = [call EXCEPT ![c] = Idle]
      /\ asked' \in Nat /\ failures' \in Nat
      /\ UNCHANGED <<owner, addr, session, mailed, serial, proven, raced, crossed>>
  BY DEF UpdateUser, At, Done, Served, AdminOps, AccountsInv, Typed, AccountsTypeOK
<1>2. b \in Accounts /\ account[b] \in User /\ account \in [Accounts -> User] /\ ch \in Changes
  BY <1>1, Administering, SoundFields
<1>3. account' = [account EXCEPT ![b] = row]
  BY DEF UpdateUser
<1>4. row \in User /\ row.state = account[b].state
  BY <1>2, UpdatedIs
<1>5. account[b].state = "live" =>
         /\ account[b].active /\ ch # "deactivate" => row.active
         /\ account[b].super /\ ch # "demote" => row.super
  BY <1>2, UpdatedIs
<1> HIDE DEF row
<1>6. /\ account' \in [Accounts -> User] /\ account'[b] = row
      /\ \A a \in Accounts \ {b} : account'[a] = account[a]
  BY <1>2, <1>3, <1>4
<1>7. ~crossed => Supers' # {}
  <2> SUFFICES ASSUME ~crossed PROVE call[c].me \in Supers'
    OBVIOUS
  <2>1. CASE b = call[c].me
    BY <1>1, <1>4, <1>5, <1>6, <2>1, Administering DEF Supers, Live, Demotes
  <2>2. CASE b # call[c].me
    BY <1>1, <1>6, <2>2, Administering DEF Supers, Live
  <2> QED
    BY <2>1, <2>2
<1> QED
  BY <1>1, <1>4, <1>6, <1>7, Administered

LEMMA DeleteUserInv ==
  ASSUME AccountsInv, NEW c \in Calls, NEW b \in Accounts, DeleteUser(c, b)
  PROVE  AccountsInv'
<1>1. /\ call[c].op = "deleteUser" /\ call[c].op \in AdminOps /\ call' = [call EXCEPT ![c] = Idle]
      /\ b = call[c].who /\ asked' \in Nat /\ failures' \in Nat
      /\ UNCHANGED <<session, mailed, serial, proven, raced, crossed>>
  BY DEF DeleteUser, At, Done, Served, AdminOps, AccountsInv, Typed, AccountsTypeOK
<1>2. GoneUser \in User /\ GoneUser.state = "gone"
  BY DEF GoneUser, User
<1>3. /\ account \in [Accounts -> User] /\ account' \in [Accounts -> User]
      /\ \A a \in Accounts \ {b} : account'[a] = account[a]
      /\ account[b].state # "unborn" => account'[b].state = "gone"
      /\ account[b].state = "unborn" => account'[b] = account[b]
  <2>1. account \in [Accounts -> User]
    BY DEF AccountsInv, Typed, AccountsTypeOK
  <2>2. account[b].state \in {"unborn", "live", "gone"}
    BY <2>1 DEF User
  <2> QED
    BY <1>2, <2>1, <2>2 DEF DeleteUser
<1>4. /\ addr' \in [Emails -> Address] /\ owner' \in [Identities -> Accounts \cup {NoOne}]
      /\ \A e \in Emails : addr'[e] = Free \/ (addr'[e] = addr[e] /\ addr[e].owner # b)
      /\ \A i \in Identities : IF owner[i] = b THEN owner'[i] = NoOne ELSE owner'[i] = owner[i]
  BY FreeIs DEF DeleteUser, AccountsInv, Typed, AccountsTypeOK
<1>5. Idle \in Sound /\ Idle.op = "none" /\ Idle.token = 0
  BY IdleIsSound DEF Idle
<1>6. /\ call' \in [Calls -> Sound] /\ call' \in [Calls -> Call] /\ call'[c] = Idle
      /\ \A d \in Calls \ {c} : call'[d] = call[d]
  BY <1>1, <1>5, CallSet DEF AccountsInv, Typed
<1>7. Typed'
  BY <1>1, <1>3, <1>4, <1>6 DEF AccountsInv, Typed, AccountsTypeOK
<1>8. Rows'
  <2>1. \A e \in Emails : addr'[e].owner # NoOne => account'[addr'[e].owner].state # "unborn"
    BY <1>3, <1>4, AddressesAre, FreeIs DEF AccountsInv, Rows
  <2>2. \A e \in Emails : addr'[e].owner = NoOne => addr'[e] = Free
    BY <1>4 DEF AccountsInv, Rows
  <2>3. \A i \in Identities : owner'[i] # NoOne => account'[owner'[i]].state # "unborn"
    BY <1>3, <1>4 DEF AccountsInv, Rows, Typed, AccountsTypeOK
  <2> QED
    BY <2>1, <2>2, <2>3 DEF Rows
<1>9. AddressProven'
  BY <1>1, <1>4, FreeIs DEF AccountsInv, AddressProven
<1>10. Tokens'
  <2>1. 0 <= serial /\ serial' = serial /\ mailed' = mailed
    BY <1>1 DEF AccountsInv, Typed, AccountsTypeOK
  <2>2. \A d \in Calls : /\ Sending(d)' => Sending(d) /\ call'[d] = call[d]
                         /\ call'[d].token <= serial
    BY <1>5, <1>6, <2>1 DEF AccountsInv, Tokens, Sending
  <2>3. \A e \in Emails : addr'[e].token <= serial /\ (addr'[e].token # 0 => addr'[e].token = addr[e].token)
    BY <1>4, <2>1, FreeIs DEF AccountsInv, Tokens
  <2> QED
    BY <2>1, <2>2, <2>3 DEF AccountsInv, Tokens
<1>11. Governed'
  <2>1. Settled => Settled'
    BY <1>3 DEF Settled
  <2>2. ~crossed => \A x \in Calls : call'[x].op \notin AdminOps
    BY <1>1, <1>5, <1>6 DEF AccountsInv, Governed, AdminOps
  <2>3. \A x \in Calls : call'[x].op = "signIn" => call'[x] = call[x]
    BY <1>5, <1>6
  <2>4. ~crossed => Supers' # {}
    <3> SUFFICES ASSUME ~crossed PROVE call[c].me \in Supers'
      OBVIOUS
    <3>1. call[c].me # b
      BY <1>1, Administering DEF Demotes
    <3> QED
      BY <1>1, <1>3, <3>1, Administering DEF Supers, Live
  <2> QED
    BY <1>1, <2>1, <2>2, <2>3, <2>4 DEF AccountsInv, Governed, Demotes
<1>12. Alone'
  <2>1. \A x \in Calls : call'[x].op = "signIn" => call'[x] = call[x]
    BY <1>5, <1>6
  <2>2. \A x \in Calls : call[x].op = "signIn" =>
            call[x].profile.id \in Identities /\ (call[x].by = "identity" => call[x].who \in Accounts)
    BY ProfilesVouched DEF AccountsInv, Typed, Sound, Informed
  <2>3. ASSUME NEW x \in Calls, At(x, "signIn", "link")', call'[x].profile.id \notin raced'
        PROVE  StillFound(call[x])'
    <3>1. call'[x] = call[x] /\ call[x].op = "signIn" /\ StillFound(call[x])
      BY <1>1, <2>1, <2>3 DEF AccountsInv, Alone, At
    <3>2. CASE call[x].by = "identity" /\ owner[call[x].profile.id] = call[x].who
      <4>1. CASE call[x].who = b
        BY <1>3, <2>2, <3>1, <3>2, <4>1 DEF AccountsInv, Rows, StillFound
      <4>2. CASE call[x].who # b
        BY <1>4, <2>2, <3>1, <3>2, <4>2 DEF StillFound
      <4> QED
        BY <4>1, <4>2
    <3>3. CASE call[x].by = "identity" /\ account[call[x].who].state = "gone"
      BY <1>3, <2>2, <3>1, <3>3 DEF StillFound
    <3>4. CASE call[x].by # "identity"
      BY <1>4, <2>2, <3>1, <3>4 DEF StillFound
    <3> QED
      BY <3>1, <3>2, <3>3, <3>4 DEF StillFound
  <2>4. (\A x \in Calls : At(x, "signIn", "link") /\ call[x].profile.id \notin raced => StillFound(call[x]))'
    BY <2>3
  <2>5. (\A x, d \in Calls : /\ call[x].op = "signIn" /\ call[d].op = "signIn" /\ x # d
                             /\ call[x].profile.id = call[d].profile.id
                           => call[x].profile.id \in raced)'
    BY <1>1, <2>1 DEF AccountsInv, Alone
  <2> QED
    BY <2>4, <2>5 DEF Alone
<1> QED
  BY <1>7, <1>8, <1>9, <1>10, <1>11, <1>12 DEF AccountsInv

-----------------------------------------------------------------------------
(* Signing in                                                               *)

LEMMA LinkLoginInv ==
  ASSUME AccountsInv, NEW c \in Calls, NEW a \in Accounts, LinkLogin(c, a)
  PROVE  AccountsInv'
<1> DEFINE p == call[c].profile
           e == p.email
           born == [state |-> "live", active |-> TRUE, super |-> call[c].first, name |-> NewName(p)]
<1>1. /\ call[c].op = "signIn" /\ call[c].at = "link" /\ call' = [call EXCEPT ![c] = Idle]
      /\ asked' \in Nat /\ failures' \in Nat /\ session' \subseteq Accounts
      /\ serial' = serial + 1 /\ serial \in Nat /\ call[c] \in Sound
      /\ UNCHANGED <<mailed, raced, crossed>>
  BY DEF LinkLogin, At, Done, Served, AccountsInv, Typed, AccountsTypeOK
<1>2. p \in Profiles /\ p.id \in Identities /\ p.login \in Logins \cup {NoLogin}
      /\ (e \in Emails => e \in Vouched(p.id, e)) /\ call[c].first \in BOOLEAN
  BY <1>1, ProfilesVouched DEF Sound, Informed, Call
<1>3. /\ account \in [Accounts -> User] /\ account' \in [Accounts -> User]
      /\ \A b \in Accounts \ {a} : account'[b] = account[b]
      /\ account'[a].state = "live"
      /\ \/ account' = account
         \/ account[a].state = "unborn" /\ account'[a].active /\ (account'[a].super <=> call[c].first)
  <2>1. account \in [Accounts -> User]
    BY DEF AccountsInv, Typed, AccountsTypeOK
  <2>2. NewName(p) \in Logins \cup {NoLogin, Suffixed}
    BY <1>2 DEF NewName
  <2>3. born \in User /\ born.state = "live" /\ born.active /\ born.super = call[c].first
    BY <1>2, <2>2 DEF User
  <2>4. CASE call[c].by = "none"
    <3>1. account' = [account EXCEPT ![a] = born] /\ account[a].state = "unborn"
      BY <2>4 DEF LinkLogin, Target
    <3> HIDE DEF born
    <3> QED
      BY <2>1, <2>3, <3>1
  <2>5. CASE call[c].by # "none"
    BY <2>1, <2>5 DEF LinkLogin, Live
  <2> QED
    BY <2>4, <2>5
<1>4. /\ owner' \in [Identities -> Accounts \cup {NoOne}]
      /\ \A i \in Identities : IF i = p.id /\ owner[i] = NoOne THEN owner'[i] = a ELSE owner'[i] = owner[i]
  BY <1>2 DEF LinkLogin, LinkIdentity, AccountsInv, Typed, AccountsTypeOK
<1>5. /\ addr' \in [Emails -> Address]
      /\ \A x \in Emails : \/ addr'[x] = addr[x]
                           \/ /\ x = e /\ addr'[x].owner = a /\ addr'[x].token = 0
                              /\ addr[x].owner \in {a, NoOne}
      /\ proven' = proven \cup ({a} \X Vouched(p.id, e))
  <2>1. /\ addr' = [x \in Emails |-> IF x # e THEN addr[x]
                                 ELSE IF addr[x].owner = NoOne
                                      THEN [Free EXCEPT !.owner = a, !.row = serial + 1, !.verified = TRUE]
                                 ELSE IF addr[x].owner = a THEN [addr[x] EXCEPT !.verified = TRUE, !.token = 0]
                                 ELSE addr[x]]
        /\ proven' = proven \cup ({a} \X Vouched(p.id, e))
    BY DEF LinkLogin, UpsertEmail
  <2>2. PICK n \in Nat : n = serial + 1
    BY <1>1
  <2> DEFINE new == [Free EXCEPT !.owner = a, !.row = n, !.verified = TRUE]
             old(x) == [addr[x] EXCEPT !.verified = TRUE, !.token = 0]
  <2>3. new \in Address /\ new.owner = a /\ new.token = 0
    BY DEF Free, Address
  <2>4. \A x \in Emails : addr[x] \in Address
    BY AddressesAre
  <2>5. \A x \in Emails : old(x) \in Address /\ old(x).owner = addr[x].owner /\ old(x).token = 0
    BY <2>4 DEF Address
  <2>6. addr' = [x \in Emails |-> IF x # e THEN addr[x] ELSE IF addr[x].owner = NoOne THEN new
                                  ELSE IF addr[x].owner = a THEN old(x) ELSE addr[x]]
    BY <2>1, <2>2
  <2>7. proven' = proven \cup ({a} \X Vouched(p.id, e))
    BY <2>1
  <2> HIDE DEF new, old, e
  <2>8. addr' \in [Emails -> Address]
    BY <2>3, <2>4, <2>5, <2>6
  <2>9. ASSUME NEW x \in Emails, addr'[x] # addr[x]
        PROVE  x = e /\ addr'[x].owner = a /\ addr'[x].token = 0 /\ addr[x].owner \in {a, NoOne}
    BY <2>3, <2>5, <2>6, <2>9
  <2> QED
    BY <2>7, <2>8, <2>9
<1>6. Idle \in Sound /\ Idle.op = "none" /\ Idle.token = 0
  BY IdleIsSound DEF Idle
<1>7. /\ call' \in [Calls -> Sound] /\ call' \in [Calls -> Call] /\ call'[c] = Idle
      /\ \A d \in Calls \ {c} : call'[d] = call[d]
  BY <1>1, <1>6, CallSet DEF AccountsInv, Typed
<1> HIDE DEF e, born
<1>8. Typed'
  BY <1>1, <1>3, <1>4, <1>5, <1>7 DEF AccountsInv, Typed, AccountsTypeOK, Vouched
<1>9. Rows'
  <2>1. \A x \in Emails : addr'[x].owner = NoOne => addr'[x] = Free
    BY <1>5, AccountsAssumption DEF AccountsInv, Rows
  <2>2. \A x \in Emails : addr'[x].owner # NoOne => account'[addr'[x].owner].state # "unborn"
    BY <1>3, <1>5, AddressesAre DEF AccountsInv, Rows
  <2>3. \A i \in Identities : owner'[i] # NoOne => account'[owner'[i]].state # "unborn"
    BY <1>3, <1>4 DEF AccountsInv, Rows, Typed, AccountsTypeOK
  <2> QED
    BY <2>1, <2>2, <2>3 DEF Rows
<1>10. AddressProven'
  BY <1>2, <1>5 DEF AccountsInv, AddressProven
<1>11. Tokens'
  <2>1. 0 <= serial' /\ serial <= serial' /\ mailed' = mailed
    BY <1>1
  <2>2. \A d \in Calls : /\ Sending(d)' => Sending(d) /\ call'[d] = call[d]
                         /\ call'[d].token <= serial'
    BY <1>1, <1>6, <1>7, <2>1, SoundFields DEF AccountsInv, Typed, Tokens, Sending
  <2>3. \A x \in Emails : addr'[x].token <= serial' /\ (addr'[x].token # 0 => addr'[x].token = addr[x].token)
    BY <1>1, <1>5, <2>1, AddressesAre
  <2>4. \A m \in mailed : m[1] \in Nat /\ m[1] <= serial'
    BY <1>1 DEF AccountsInv, Typed, AccountsTypeOK, Tokens
  <2> QED
    BY <2>1, <2>2, <2>3, <2>4 DEF AccountsInv, Tokens
<1>12. Governed'
  <2>1. Supers \subseteq Supers'
    BY <1>3 DEF Supers, Live
  <2>2. Settled'
    BY <1>3 DEF Settled
  <2>3. ~crossed => Supers' # {}
    <3>1. CASE Settled
      BY <2>1, <3>1 DEF AccountsInv, Governed
    <3>2. CASE ~Settled
      <4>1. call[c].first
        BY <1>1, <3>2 DEF AccountsInv, Governed
      <4>2. account # account'
        BY <1>3, <3>2 DEF Settled
      <4>3. a \in Supers'
        BY <1>3, <4>1, <4>2 DEF Supers, Live
      <4> QED
        BY <4>3
    <3> QED
      BY <3>1, <3>2
  <2>4. \A x \in Calls : call'[x].op \in AdminOps => call'[x] = call[x]
    BY <1>6, <1>7 DEF AdminOps
  <2> QED
    BY <1>1, <2>1, <2>2, <2>3, <2>4 DEF AccountsInv, Governed, Demotes
<1>13. Alone'
  <2>1. \A x \in Calls : call'[x].op = "signIn" => x # c /\ call'[x] = call[x]
    BY <1>6, <1>7
  <2>2. \A x \in Calls : call[x].op = "signIn" =>
            call[x].profile.id \in Identities /\ (call[x].by = "identity" => call[x].who \in Accounts)
    BY ProfilesVouched DEF AccountsInv, Typed, Sound, Informed
  <2>3. ASSUME NEW x \in Calls, At(x, "signIn", "link")', call'[x].profile.id \notin raced'
        PROVE  StillFound(call[x])'
    <3>1. call'[x] = call[x] /\ x # c /\ call[x].op = "signIn" /\ StillFound(call[x])
      BY <1>1, <2>1, <2>3 DEF AccountsInv, Alone, At
    <3>2. call[x].profile.id # p.id
      BY <1>1, <2>3, <3>1 DEF AccountsInv, Alone
    <3>3. owner'[call[x].profile.id] = owner[call[x].profile.id]
      BY <1>4, <2>2, <3>1, <3>2
    <3>4. \A b \in Accounts : account[b].state = "gone" => account'[b].state = "gone"
      BY <1>3
    <3> QED
      BY <2>2, <3>1, <3>3, <3>4 DEF StillFound
  <2>4. (\A x \in Calls : At(x, "signIn", "link") /\ call[x].profile.id \notin raced => StillFound(call[x]))'
    BY <2>3
  <2>5. (\A x, d \in Calls : /\ call[x].op = "signIn" /\ call[d].op = "signIn" /\ x # d
                             /\ call[x].profile.id = call[d].profile.id
                           => call[x].profile.id \in raced)'
    BY <1>1, <2>1 DEF AccountsInv, Alone
  <2> QED
    BY <2>4, <2>5 DEF Alone
<1> QED
  BY <1>8, <1>9, <1>10, <1>11, <1>12, <1>13 DEF AccountsInv

-----------------------------------------------------------------------------
(* The start, and what single steps do                                      *)

LEMMA InitAccountsInv ==
  ASSUME NEW seed \in Seeds, InitAccounts(seed)
  PROVE  AccountsInv
<1>1. /\ account = seed.account /\ owner = seed.owner /\ addr = seed.addr /\ session = seed.session
      /\ mailed = {} /\ serial = Cardinality(Emails) /\ call = [c \in Calls |-> Idle]
      /\ asked = 0 /\ failures = 0 /\ raced = {} /\ crossed = FALSE
      /\ proven = {ae \in Accounts \X Emails : addr[ae[2]].owner = ae[1] /\ addr[ae[2]].verified}
  BY DEF InitAccounts
<1>2. /\ account \in [Accounts -> User] /\ owner \in [Identities -> Accounts \cup {NoOne}]
      /\ addr \in [Emails -> Address] /\ session \subseteq Accounts
  BY <1>1
<1>3. /\ \A e \in Emails : IF addr[e].owner = NoOne THEN addr[e] = Free
                           ELSE account[addr[e].owner].state # "unborn"
      /\ \A e \in Emails : addr[e].token <= Cardinality(Emails)
      /\ \A i \in Identities : owner[i] # NoOne => account[owner[i]].state # "unborn"
      /\ (\E a \in Accounts : account[a].state # "unborn")
           => \E a \in Accounts : account[a].state = "live" /\ account[a].active /\ account[a].super
  BY <1>1, SeedsAssumption
<1>4. serial \in Nat
  BY <1>1, SeedsAssumption, FS_CardinalityType
<1>5. \A c \in Calls : call[c] = Idle /\ Idle.op = "none" /\ Idle.token = 0
  BY <1>1 DEF Idle
<1>6. call \in [Calls -> Sound] /\ call \in [Calls -> Call]
  BY <1>1, IdleIsSound DEF Sound
<1>7. Typed
  BY <1>1, <1>2, <1>4, <1>6 DEF Typed, AccountsTypeOK
<1>8. Rows
  BY <1>3 DEF Rows
<1>9. AddressProven
  BY <1>1, <1>2, <1>3, FreeIs DEF AddressProven, Address
<1>10. Tokens
  BY <1>1, <1>3, <1>4, <1>5 DEF Tokens, Sending
<1>11. Governed
  BY <1>3, <1>5 DEF Governed, Settled, Supers, Live, AdminOps
<1>12. Alone
  BY <1>5 DEF Alone, At
<1> QED
  BY <1>7, <1>8, <1>9, <1>10, <1>11, <1>12 DEF AccountsInv

\* The steps that write addresses.
Rewritten ==
    \/ \E c \in Calls : InsertUnverifiedEmail(c) \/ RotateToken(c) \/ DeleteUserEmail(c)
    \/ \E c \in Calls, a \in Accounts : LinkLogin(c, a) \/ DeleteUser(c, a)
    \/ VerifyEmailByToken

LEMMA VerifiedStays ==
  ASSUME AccountsInv, Rewritten, NEW e \in Emails, addr[e].verified
  PROVE  \/ addr'[e].verified /\ addr'[e].owner = addr[e].owner
         \/ account'[addr[e].owner].state = "gone"
         \/ \E c \in Calls : /\ call[c].op \in {"addEmail", "deleteEmail"}
                             /\ call[c].me = addr[e].owner /\ call[c].row = addr[e].row
<1>1. addr \in [Emails -> Address] /\ addr[e] \in Address /\ addr[e].owner \in Accounts
      /\ account \in [Accounts -> User]
  BY AddressesAre DEF AccountsInv, Typed, AccountsTypeOK
<1>2. ASSUME NEW c \in Calls, InsertUnverifiedEmail(c)
      PROVE  addr'[e] = addr[e]
  BY <1>1, <1>2, AccountsAssumption DEF InsertUnverifiedEmail
<1>3. ASSUME NEW c \in Calls, RotateToken(c)
      PROVE  addr'[e].verified /\ addr'[e].owner = addr[e].owner
  <2>1. CASE UNCHANGED addr
    BY <2>1
  <2>2. CASE addr' = [addr EXCEPT ![call[c].email].token = serial + 1]
    BY <1>1, <2>2 DEF Address
  <2> QED
    BY <1>3, <2>1, <2>2 DEF RotateToken
<1>4. ASSUME NEW c \in Calls, DeleteUserEmail(c), addr'[e] # addr[e]
      PROVE  /\ call[c].op \in {"addEmail", "deleteEmail"}
             /\ call[c].me = addr[e].owner /\ call[c].row = addr[e].row
  BY <1>1, <1>4 DEF DeleteUserEmail, At
<1>5. ASSUME NEW c \in Calls, NEW a \in Accounts, LinkLogin(c, a)
      PROVE  addr'[e].verified /\ addr'[e].owner = addr[e].owner
  <2> DEFINE seen == [addr[e] EXCEPT !.verified = TRUE, !.token = 0]
  <2>1. seen.verified /\ seen.owner = addr[e].owner
    BY <1>1 DEF Address
  <2>2. addr'[e] = addr[e] \/ addr'[e] = seen
    BY <1>1, <1>5, AccountsAssumption, Zenon DEF LinkLogin, UpsertEmail
  <2> QED
    BY <1>1, <2>1, <2>2
<1>6. ASSUME NEW c \in Calls, NEW b \in Accounts, DeleteUser(c, b), addr'[e] # addr[e]
      PROVE  account'[addr[e].owner].state = "gone"
  <2>1. addr[e].owner = b
    BY <1>6 DEF DeleteUser
  <2>2. account[b].state \in {"live", "gone"}
    BY <1>1, <2>1, AccountsAssumption DEF AccountsInv, Rows, User
  <2> QED
    BY <1>1, <1>6, <2>1, <2>2 DEF DeleteUser, GoneUser
<1>7. ASSUME VerifyEmailByToken
      PROVE  addr'[e].verified /\ addr'[e].owner = addr[e].owner
  BY <1>1, <1>7 DEF VerifyEmailByToken, Address
<1> QED
  BY <1>1, <1>2, <1>3, <1>4, <1>5, <1>6, <1>7 DEF Rewritten

LEMMA LinkedToOwner ==
  ASSUME AccountsInv, NEW d \in Calls, NEW a \in Accounts, LinkLogin(d, a),
         NEW c \in Calls, At(c, "signIn", "link"), call'[c] = Idle, call[c].profile.id \notin raced
  PROVE  session' \ session \subseteq {owner'[call[c].profile.id]}
<1>1. c = d
  <2>1. call' = [call EXCEPT ![d] = Idle] /\ call \in [Calls -> Call] /\ Idle.op = "none"
    BY DEF LinkLogin, Done, Idle, AccountsInv, Typed, AccountsTypeOK
  <2> QED
    BY <2>1 DEF At
<1> DEFINE i == call[c].profile.id
<1>2. i \in Identities /\ owner \in [Identities -> Accounts \cup {NoOne}] /\ StillFound(call[c])
  BY ProfilesVouched DEF AccountsInv, Typed, AccountsTypeOK, Sound, Informed, At, Alone
<1>3. /\ owner' = [owner EXCEPT ![i] = IF @ = NoOne THEN a ELSE @] /\ session' = session \cup {a}
      /\ call[c].by # "none" => a = call[c].who /\ Live(a)
  BY <1>1 DEF LinkLogin, LinkIdentity, Target
<1>4. owner[i] \in {a, NoOne}
  BY <1>2, <1>3 DEF StillFound, Live
<1> QED
  BY <1>2, <1>3, <1>4
=============================================================================
