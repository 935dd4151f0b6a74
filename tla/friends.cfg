\* Three calls, two of them at once, and one failing step.
CONSTANTS
    ann = ann
    bob = bob
    eve = eve
    e1 = e1
    e2 = e2
    annGh = annGh
    bobGh = bobGh
    bobGo = bobGo
    bobName = bobName
    c1 = c1
    c2 = c2
    NoOne = NoOne
    NoEmail = NoEmail
    NoLogin = NoLogin
    NoProfile = NoProfile
    Suffixed = Suffixed
    Accounts <- MCAccounts
    Emails <- MCEmails
    Logins = {bobName}
    Identities <- MCIdentities
    Answers <- MCAnswers
    Calls <- MCCalls
    Seeds <- MCSeeds
    MaxCalls = 3
    MaxFailures = 1
SYMMETRY Symmetric
SPECIFICATION Spec
INVARIANTS FriendsTypeOK AddressProven SuperuserRemains FriendsConsent AnswersReported
PROPERTIES VerifiedKept SessionIsOwners KeepsFriendGraph
CHECK_DEADLOCK FALSE
