--------------------------- MODULE MCUserAccounts ---------------------------
EXTENDS UserAccounts, TLC

CONSTANTS root, clerk

\* An administrator and a user, who have signed in before.
MCStaffRow == [s \in {root, clerk} |->
    [user_id |-> s, login_id |-> IF s = root THEN "root" ELSE "clerk", login_pw |-> "p",
     auth_id |-> IF s = root THEN "ADMIN" ELSE "USER", state_id |-> "ACTIVE", device |-> NULL]]

Create(by, pw, pw2, auth_id) ==
    [op |-> "create", by |-> by, login_id |-> "new", login_pw |-> pw, login_pw2 |-> pw2,
     auth_id |-> auth_id]
SignIn(login_id, pw, device) ==
    [op |-> "signIn", login_id |-> login_id, login_pw |-> pw, device |-> device]

MCRequests ==
    {Create(root, "p", "p", "USER"),
     Create(root, "p", "q", "USER"),
     Create(clerk, "p", "p", "USER"),
     SignIn("new", "p", NULL),
     SignIn("root", "p", "d1"), SignIn("root", "p", "d2"),
     SignIn("root", "q", NULL)}

Symmetry == Permutations(Workers) \cup Permutations(Calls)
=============================================================================
