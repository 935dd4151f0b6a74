------------------------------ MODULE Accounts ------------------------------
(***************************************************************************)
(* Accounts: signing in through a provider, the identities and addresses   *)
(* tied to an account, and what superusers do to accounts.  A call is one  *)
(* HTTP request; it is split where the code leaves the database, so that   *)
(* two calls interleave there.  LinkLogin is one transaction: its queries  *)
(* see a snapshot, its writes take effect together at the commit.          *)
(* Friendships, which sign-in changes too, are in Friendships.tla.         *)
(***************************************************************************)
EXTENDS Integers, FiniteSets

CONSTANTS
    Accounts,               \* users.id, never used twice
    Emails, Logins,         \* lower-case addresses; user names of the providers
    Identities,             \* (provider, provider_user_id)
    Answers,                \* what a provider may say: [provider, id, login, email, trusted]
    NoOne, NoEmail, NoLogin, NoProfile,     \* NULL, "", "", nothing
    Suffixed,               \* a user name with a number appended
    Calls,                  \* places for calls under way
    Seeds,                  \* databases to start from
    MaxCalls,               \* bound on calls
    MaxFailures             \* bound on failing steps

VARIABLES
    account,    \* users
    owner,      \* user_identities: the account an identity belongs to
    addr,       \* user_emails, at most one row per address
    session,    \* accounts somebody holds a session cookie of
    mailed,     \* verification links in mailboxes: <<token, address>>
    serial,     \* the sequence rows and tokens are numbered from
    call, asked, failures,
    proven,     \* history: <<account, address>> shown by a link or by a provider
    raced,      \* history: identities of which two sign-ins overlapped
    crossed     \* history: two administrative calls overlapped

accountVars == <<account, owner, addr, session, mailed, serial, proven, raced, crossed>>

User == [state : {"unborn", "live", "gone"}, active : BOOLEAN, super : BOOLEAN,
         name : Logins \cup {NoLogin, Suffixed}]
GoneUser == [state |-> "gone", active |-> FALSE, super |-> FALSE, name |-> NoLogin]
Address == [owner : Accounts \cup {NoOne}, row : Nat, verified : BOOLEAN, token : Nat]
Free == [owner |-> NoOne, row |-> 0, verified |-> FALSE, token |-> 0]

\* GitHub names the account; the address must be primary and verified, and is left
\* out when it cannot be fetched.
GitHubProfiles(w) == {[id |-> w.id, login |-> w.login, email |-> e] :
                        e \in {NoEmail, IF w.trusted THEN w.email ELSE NoEmail}}

TrustsAnyAddress(w) ==      \* faulty: does not look at email_verified
    {[id |-> w.id, login |-> NoLogin, email |-> w.email]}

GoogleProfiles(w) == {[id |-> w.id, login |-> NoLogin,
                       email |-> IF w.trusted THEN w.email ELSE NoEmail]}

DevProfiles(w) == {[id |-> w.id, login |-> w.login, email |-> NoEmail]}

Profiles == UNION {IF w.provider = "github" THEN GitHubProfiles(w)
                   ELSE IF w.provider = "google" THEN GoogleProfiles(w) ELSE DevProfiles(w) : w \in Answers}

ASSUME AccountsAssumption ==
    /\ NoOne \notin Accounts /\ NoEmail \notin Emails /\ NoLogin \notin Logins
    /\ Suffixed \notin Logins \cup {NoLogin} /\ NoProfile \notin Profiles
    /\ Answers \subseteq [provider : {"github", "google", "dev"}, id : Identities,
                          login : Logins \cup {NoLogin}, email : Emails \cup {NoEmail}, trusted : BOOLEAN]
    /\ MaxCalls \in Nat /\ MaxFailures \in Nat
    /\ \A s \in Seeds : /\ s.account \in [Accounts -> User]
                        /\ s.owner \in [Identities -> Accounts \cup {NoOne}]
                        /\ s.addr \in [Emails -> Address] /\ s.session \subseteq Accounts

\* Databases the program can leave behind: rows belong to accounts there have been, tokens
\* are from the sequence, and who was there first is a superuser.
ASSUME SeedsAssumption ==
    /\ IsFiniteSet(Emails)
    /\ \A s \in Seeds :
         /\ \A e \in Emails : IF s.addr[e].owner = NoOne THEN s.addr[e] = Free
                              ELSE s.account[s.addr[e].owner].state # "unborn"
         /\ \A e \in Emails : s.addr[e].token <= Cardinality(Emails)
         /\ \A i \in Identities : s.owner[i] # NoOne => s.account[s.owner[i]].state # "unborn"
         /\ (\E a \in Accounts : s.account[a].state # "unborn")
              => \E a \in Accounts : /\ s.account[a].state = "live"
                                     /\ s.account[a].active /\ s.account[a].super

Ops == {"none", "signIn", "addEmail", "resend", "deleteEmail", "inviteUser", "updateUser", "deleteUser",
        "invite", "accept", "remove", "cancel"}
Steps == {"end", "count", "find", "link", "write", "mail", "undo", "lookup", "queue", "insert", "locked", "tell"}
Changes == {"none", "promote", "demote", "activate", "deactivate"}

Call == [op : Ops, at : Steps, me : Accounts \cup {NoOne}, who : Accounts \cup {NoOne},
         email : Emails \cup {NoEmail}, profile : Profiles \cup {NoProfile}, login : Logins \cup {NoLogin},
         by : {"none", "identity", "email", "login"}, row : Nat, token : Nat, first : BOOLEAN,
         change : Changes, tell : SUBSET Accounts]
Idle == [op |-> "none", at |-> "end", me |-> NoOne, who |-> NoOne, email |-> NoEmail,
         profile |-> NoProfile, login |-> NoLogin, by |-> "none", row |-> 0, token |-> 0, first |-> FALSE,
         change |-> "none", tell |-> {}]

Live(a) == account[a].state = "live"
Supers == {a \in Accounts : Live(a) /\ account[a].active /\ account[a].super}
HasIdentity(a) == \E i \in Identities : owner[i] = a

InitAccounts(seed) ==
    /\ account = seed.account /\ owner = seed.owner /\ addr = seed.addr
    /\ session = seed.session
    /\ mailed = {} /\ serial = Cardinality(Emails)
    /\ call = [c \in Calls |-> Idle]
    /\ asked = 0 /\ failures = 0
    /\ proven = {ae \in Accounts \X Emails : seed.addr[ae[2]].owner = ae[1] /\ seed.addr[ae[2]].verified}
    /\ raced = {} /\ crossed = FALSE

-----------------------------------------------------------------------------
(* Calls                                                                   *)

At(c, op, at) == call[c].op = op /\ call[c].at = at
Continue(c, at) == call' = [call EXCEPT ![c].at = at]
Done(c) == call' = [call EXCEPT ![c] = Idle]
Served == UNCHANGED <<asked, failures>>

Start(c, r) ==
    /\ asked < MaxCalls /\ asked' = asked + 1
    /\ call[c] = Idle /\ call' = [call EXCEPT ![c] = r]
    /\ UNCHANGED failures

\* Nobody else can sign a cookie; it outlives what becomes of the account.
VerifySession(a) == a \in session
\* Require: a genuine cookie of an account that exists and is active, read once.
Authorised(a) == VerifySession(a) /\ Live(a) /\ account[a].active
AdminOps == {"inviteUser", "updateUser", "deleteUser"}

AskAsMe(c) ==
    \E a \in Accounts, e \in Emails :
        /\ Authorised(a)
        /\ \/ Start(c, [Idle EXCEPT !.op = "addEmail", !.at = "write", !.me = a, !.email = e])
           \/ /\ addr[e].owner = a
              /\ \/ Start(c, [Idle EXCEPT !.op = "resend", !.at = "find", !.me = a, !.email = e,
                                          !.row = addr[e].row])
                 \/ Start(c, [Idle EXCEPT !.op = "deleteEmail", !.at = "write", !.me = a, !.email = e,
                                          !.row = addr[e].row])
        /\ UNCHANGED accountVars

AdminMayLockHimselfOut(c) ==    \* faulty: forgets to compare is_active with oneself
    \E a \in Supers, b \in Accounts, ch \in Changes \ {"none"} :
        /\ Authorised(a) /\ ~(a = b /\ ch = "demote")
        /\ Start(c, [Idle EXCEPT !.op = "updateUser", !.at = "write", !.me = a, !.who = b, !.change = ch])
        /\ crossed' = (crossed \/ \E d \in Calls \ {c} : call[d].op \in AdminOps)
        /\ UNCHANGED <<account, owner, addr, session, mailed, serial, proven, raced>>

\* RequireSuperuser, and the guards against locking oneself out.
AskAsSuperuser(c) ==
    \E a \in Supers :
        /\ Authorised(a)
        /\ \/ \E l \in Logins : Start(c, [Idle EXCEPT !.op = "inviteUser", !.at = "write", !.me = a, !.login = l])
           \/ \E b \in Accounts, ch \in Changes \ {"none"} :
                 /\ ~(a = b /\ ch \in {"demote", "deactivate"})
                 /\ Start(c, [Idle EXCEPT !.op = "updateUser", !.at = "write", !.me = a, !.who = b, !.change = ch])
           \/ \E b \in Accounts \ {a} :
                 Start(c, [Idle EXCEPT !.op = "deleteUser", !.at = "write", !.me = a, !.who = b])
        /\ crossed' = (crossed \/ \E d \in Calls \ {c} : call[d].op \in AdminOps)
        /\ UNCHANGED <<account, owner, addr, session, mailed, serial, proven, raced>>

-----------------------------------------------------------------------------
(* Signing in                                                              *)

\* callback, once the provider has answered; the profile is the provider's choice.
BeginSignIn(c) ==
    \E p \in Profiles :
        /\ Start(c, [Idle EXCEPT !.op = "signIn", !.at = "count", !.profile = p])
        /\ raced' = raced \cup {i \in {p.id} : \E d \in Calls \ {c} :
                                    call[d].op = "signIn" /\ call[d].profile.id = i}
        /\ UNCHANGED <<account, owner, addr, session, mailed, serial, proven, crossed>>

CountUsers(c) ==
    /\ At(c, "signIn", "count")
    /\ call' = [call EXCEPT ![c].first = (\A a \in Accounts : ~Live(a)), ![c].at = "find"]
    /\ Served /\ UNCHANGED accountVars

Verified(a, e) == e \in Emails /\ addr[e].owner = a /\ addr[e].verified
ByIdentity(p) == {a \in Accounts : owner[p.id] = a}
ByEmail(p) == {a \in Accounts : Verified(a, p.email)}
ByLogin(p) == {a \in Accounts : Live(a) /\ account[a].name = p.login /\ p.login # NoLogin /\ ~HasIdentity(a)}

EmailFirst(p) ==            \* faulty: the address beats the identity
    IF ByEmail(p) # {} THEN [by |-> "email", who |-> ByEmail(p)]
    ELSE IF ByIdentity(p) # {} THEN [by |-> "identity", who |-> ByIdentity(p)]
    ELSE [by |-> "none", who |-> {}]

FindUserForLogin(p) ==
    IF ByIdentity(p) # {} THEN [by |-> "identity", who |-> ByIdentity(p)]
    ELSE IF ByEmail(p) # {} THEN [by |-> "email", who |-> ByEmail(p)]
    ELSE IF ByLogin(p) # {} THEN [by |-> "login", who |-> ByLogin(p)]
    ELSE [by |-> "none", who |-> {}]

\* The look-up; a deactivated account ends the sign-in.
FindUser(c) ==
    /\ At(c, "signIn", "find")
    /\ LET f == FindUserForLogin(call[c].profile) IN
       \/ /\ f.by = "none" /\ Continue(c, "link")
       \/ \E a \in f.who :
            IF account[a].active
            THEN call' = [call EXCEPT ![c].by = f.by, ![c].who = a, ![c].at = "link"]
            ELSE Done(c)
    /\ Served /\ UNCHANGED accountVars

\* ON CONFLICT (provider, provider_user_id): the identity stays where it is.
LinkIdentity(i, a) == owner' = [owner EXCEPT ![i] = IF @ = NoOne THEN a ELSE @]

\* What some provider really said about the address.
Vouched(i, e) == {w.email : w \in {w \in Answers : w.id = i /\ w.email = e /\ w.trusted}} \cap Emails

\* ON CONFLICT (lower(address)): only one's own row is marked verified.
UpsertEmail(i, e, a) ==
    /\ addr' = [x \in Emails |-> IF x # e THEN addr[x]
                                 ELSE IF addr[x].owner = NoOne
                                      THEN [Free EXCEPT !.owner = a, !.row = serial + 1, !.verified = TRUE]
                                 ELSE IF addr[x].owner = a THEN [addr[x] EXCEPT !.verified = TRUE, !.token = 0]
                                 ELSE addr[x]]
    /\ proven' = proven \cup ({a} \X Vouched(i, e))

\* The unique name: the base if nobody has it, or else one with a number.
NewName(p) == IF p.login # NoLogin /\ \A a \in Accounts : account[a].name # p.login
              THEN p.login ELSE Suffixed

\* The account a sign-in ends in: the one found, or a new one.
Target(c, a) == IF call[c].by = "none" THEN account[a].state = "unborn" ELSE a = call[c].who

\* The writes of LinkLogin, but for the invitations, and the cookie.
LinkLogin(c, a) ==
    /\ At(c, "signIn", "link") /\ Target(c, a) /\ (call[c].by # "none" => Live(a))
    /\ LET p == call[c].profile IN
       /\ account' = IF call[c].by # "none" THEN account
                     ELSE [account EXCEPT ![a] = [state |-> "live", active |-> TRUE,
                                                  super |-> call[c].first, name |-> NewName(p)]]
       /\ LinkIdentity(p.id, a)
       /\ UpsertEmail(p.id, p.email, a)
    /\ session' = session \cup {a} /\ serial' = serial + 1
    /\ Done(c) /\ Served /\ UNCHANGED <<mailed, raced, crossed>>

\* The account was deleted after it was found: UPDATE ... RETURNING finds no row.
LinkTooLate(c) ==
    /\ At(c, "signIn", "link") /\ call[c].by # "none" /\ ~Live(call[c].who)
    /\ Done(c) /\ Served /\ UNCHANGED accountVars

-----------------------------------------------------------------------------
(* One's own addresses                                                     *)

InsertUnverifiedEmail(c) ==
    /\ At(c, "addEmail", "write")
    /\ LET e == call[c].email IN
       IF addr[e].owner = NoOne /\ Live(call[c].me)
       THEN /\ addr' = [addr EXCEPT ![e] = [owner |-> call[c].me, row |-> serial + 1,
                                            verified |-> FALSE, token |-> serial + 1]]
            /\ serial' = serial + 1
            /\ call' = [call EXCEPT ![c].row = serial + 1, ![c].token = serial + 1, ![c].at = "mail"]
       ELSE Done(c) /\ UNCHANGED <<addr, serial>>
    /\ Served /\ UNCHANGED <<account, owner, session, mailed, proven, raced, crossed>>

\* ResendVerification reads the row first and updates it in a second statement.
ReadForResend(c) ==
    /\ At(c, "resend", "find")
    /\ LET r == addr[call[c].email] IN
       IF r.row = call[c].row /\ r.owner = call[c].me /\ ~r.verified THEN Continue(c, "write") ELSE Done(c)
    /\ Served /\ UNCHANGED accountVars

RotateToken(c) ==
    /\ At(c, "resend", "write")
    /\ LET e == call[c].email IN
       IF addr[e].row = call[c].row /\ addr[e].owner = call[c].me
       THEN /\ addr' = [addr EXCEPT ![e].token = serial + 1]
            /\ serial' = serial + 1
            /\ call' = [call EXCEPT ![c].token = serial + 1, ![c].at = "mail"]
       ELSE Done(c) /\ UNCHANGED <<addr, serial>>
    /\ Served /\ UNCHANGED <<account, owner, session, mailed, proven, raced, crossed>>

Link(c) == <<call[c].token, call[c].email>>

SendVerifyEmail(c) ==
    /\ call[c].op \in {"addEmail", "resend"} /\ call[c].at = "mail"
    /\ mailed' = mailed \cup {Link(c)}
    /\ Done(c) /\ Served
    /\ UNCHANGED <<account, owner, addr, session, serial, proven, raced, crossed>>

\* The mailer reports an error, whether or not the mail has left.
SendFails(c) ==
    /\ call[c].op \in {"addEmail", "resend"} /\ call[c].at = "mail"
    /\ failures < MaxFailures /\ failures' = failures + 1
    /\ mailed' = mailed \/ mailed' = mailed \cup {Link(c)}
    /\ IF call[c].op = "addEmail" THEN Continue(c, "undo") ELSE Done(c)
    /\ UNCHANGED <<account, owner, addr, session, serial, asked, proven, raced, crossed>>

UndoesByAddress(c) ==       \* faulty: takes back whatever row the address has by now
    /\ At(c, "addEmail", "undo") \/ At(c, "deleteEmail", "write")
    /\ addr' = [addr EXCEPT ![call[c].email] =
                   IF call[c].op = "addEmail" \/ (@.row = call[c].row /\ @.owner = call[c].me)
                   THEN Free ELSE @]
    /\ Done(c) /\ Served
    /\ UNCHANGED <<account, owner, session, mailed, serial, proven, raced, crossed>>

\* DeleteUserEmail, as asked for or to take back an insert whose mail failed.
DeleteUserEmail(c) ==
    /\ At(c, "addEmail", "undo") \/ At(c, "deleteEmail", "write")
    /\ addr' = [addr EXCEPT ![call[c].email] =
                   IF @.row = call[c].row /\ @.owner = call[c].me THEN Free ELSE @]
    /\ Done(c) /\ Served
    /\ UNCHANGED <<account, owner, session, mailed, serial, proven, raced, crossed>>

\* A click on a link; after 24 hours, or once used, it does nothing.
VerifyEmailByToken ==
    \E m \in mailed, e \in Emails :
        /\ m[1] # 0 /\ addr[e].token = m[1]
        /\ addr' = [addr EXCEPT ![e].verified = TRUE, ![e].token = 0]
        /\ proven' = proven \cup {<<addr[e].owner, m[2]>>}
        /\ UNCHANGED <<account, owner, session, mailed, serial, raced, crossed, call, asked, failures>>

-----------------------------------------------------------------------------
(* Superusers                                                              *)

InviteUser(c) ==
    /\ At(c, "inviteUser", "write")
    /\ IF \E a \in Accounts : account[a].name = call[c].login
       THEN UNCHANGED account
       ELSE \E a \in Accounts, s \in BOOLEAN :
            /\ account[a].state = "unborn"
            /\ account' = [account EXCEPT ![a] = [state |-> "live", active |-> TRUE, super |-> s,
                                                  name |-> call[c].login]]
    /\ Done(c) /\ Served
    /\ UNCHANGED <<owner, addr, session, mailed, serial, proven, raced, crossed>>

Updated(u, ch) ==
    [u EXCEPT !.super = ch = "promote" \/ (@ /\ ch # "demote"),
              !.active = ch = "activate" \/ (@ /\ ch # "deactivate")]

UpdateUser(c) ==
    /\ At(c, "updateUser", "write")
    /\ LET b == call[c].who IN
       account' = [account EXCEPT ![b] = IF @.state # "live" THEN @ ELSE Updated(@, call[c].change)]
    /\ Done(c) /\ Served
    /\ UNCHANGED <<owner, addr, session, mailed, serial, proven, raced, crossed>>

\* ON DELETE CASCADE takes identities and addresses along.
DeleteUser(c, b) ==
    /\ At(c, "deleteUser", "write") /\ b = call[c].who
    /\ account' = [account EXCEPT ![b] = IF @.state = "live" THEN GoneUser ELSE @]
    /\ owner' = [i \in Identities |-> IF owner[i] = b THEN NoOne ELSE owner[i]]
    /\ addr' = [e \in Emails |-> IF addr[e].owner = b THEN Free ELSE addr[e]]
    /\ Done(c) /\ Served
    /\ UNCHANGED <<session, mailed, serial, proven, raced, crossed>>

-----------------------------------------------------------------------------
(* What must hold                                                          *)

AccountsTypeOK ==
    /\ account \in [Accounts -> User]
    /\ owner \in [Identities -> Accounts \cup {NoOne}]
    /\ addr \in [Emails -> Address]
    /\ session \subseteq Accounts /\ mailed \subseteq Nat \X Emails /\ serial \in Nat
    /\ call \in [Calls -> Call] /\ asked \in Nat /\ failures \in Nat
    /\ proven \subseteq Accounts \X Emails /\ raced \subseteq Identities /\ crossed \in BOOLEAN

\* An address counts as somebody's only if a link mailed to that address was
\* followed while it was his, or a provider said so when he signed in
\* (user_emails.go:130, users.go:190).
AddressProven == \A e \in Emails : addr[e].verified => <<addr[e].owner, e>> \in proven

\* A verified address stays with its account until the owner takes that very row
\* away - by deleting it, or by an add whose mail failed - or is deleted
\* (me_emails.go:63, users.go:200).
VerifiedKept ==
    [][\A e \in Emails : addr[e].verified =>
          \/ addr'[e].verified /\ addr'[e].owner = addr[e].owner
          \/ account'[addr[e].owner].state = "gone"
          \/ \E c \in Calls : /\ call[c].op \in {"addEmail", "deleteEmail"}
                              /\ call[c].me = addr[e].owner /\ call[c].row = addr[e].row]_addr

\* A sign-in ends in the account its identity belongs to, unless two sign-ins with
\* that identity overlapped (users.go:246).
SessionIsOwners ==
    [][\A c \in Calls : /\ At(c, "signIn", "link") /\ session' # session
                        /\ call'[c] = Idle /\ call[c].profile.id \notin raced
                        => session' \ session \subseteq {owner'[call[c].profile.id]}]_session

\* There is a superuser who can sign in once there was one, unless two
\* administrative calls overlapped (handlers/users.go:70).
SuperuserRemains == ~crossed /\ (\E a \in Accounts : account[a].state = "gone" \/ Live(a)) => Supers # {}
=============================================================================
