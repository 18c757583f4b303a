------------------------------ MODULE Accounts ------------------------------
(***************************************************************************)
(* Accounts and login sessions of Stronghold: registration, login and      *)
(* logout in api/routes/auth.py, the approval queue in                     *)
(* api/routes/admin.py, and security/auth_demo_cookie.py, which believes   *)
(* the claims of a token until it expires.  Each statement on the users    *)
(* table is atomic; a handler may issue two of them.                       *)
(***************************************************************************)
EXTENDS Integers, FiniteSets

CONSTANTS
    Emails,
    Secrets,        \* passwords
    RoleSets,       \* roles an administrator may set
    DefaultRoles,   \* users.roles DEFAULT
    TeamOf,         \* email -> the team it registers for
    Browsers,       \* one form in progress and one cookie each
    SessionMaxAge,  \* session_max_age, in ticks
    MaxTicks        \* bound: ticks

ASSUME AccountsAssumption ==
    SessionMaxAge \in Nat \ {0} /\ MaxTicks \in Nat /\ DefaultRoles \in RoleSets

VARIABLES
    account,    \* email -> its row in users
    form,       \* browser -> the request it has in progress
    cookie,     \* browser -> the token in its cookie
    now,
    refusedAt,  \* email -> when it was last rejected or disabled
    heldAt      \* email and roles -> when it last had them

accountVars == <<account, form, cookie, now, refusedAt, heldAt>>

NoAccount == [status |-> "none", secret |-> "none", roles |-> DefaultRoles]
NoCall == [kind |-> "none", email |-> "none", secret |-> "none", roles |-> DefaultRoles]
NoCookie == [email |-> "none", roles |-> DefaultRoles, exp |-> 0]
Never == -SessionMaxAge

AccountsInit ==
    /\ account = [e \in Emails |-> NoAccount]
    /\ form = [b \in Browsers |-> NoCall]
    /\ cookie = [b \in Browsers |-> NoCookie]
    /\ now = 0
    /\ refusedAt = [e \in Emails |-> MaxTicks]
    /\ heldAt = [e \in Emails |-> [r \in RoleSets |-> Never]]

-----------------------------------------------------------------------------
(* Registration and login                                                   *)

\* register_user(): no row with this email ...
BeginRegister(b, e, s) ==
    /\ form[b] = NoCall /\ account[e] = NoAccount
    /\ form' = [form EXCEPT ![b] = [kind |-> "register", email |-> e, secret |-> s,
                                          roles |-> DefaultRoles]]
    /\ UNCHANGED <<account, cookie, now, refusedAt, heldAt>>

\* ... and INSERT ... ON CONFLICT (email) DO NOTHING.
X_InsertUser(b) ==
    /\ form[b].kind = "register"
    /\ account' = [account EXCEPT ![form[b].email] =
         [status |-> "pending", secret |-> form[b].secret, roles |-> DefaultRoles]]
    /\ form' = [form EXCEPT ![b] = NoCall]
    /\ UNCHANGED <<cookie, now, refusedAt, heldAt>>

InsertUser(b) ==
    /\ form[b].kind = "register"
    /\ LET e == form[b].email
       IN  account' = [account EXCEPT ![e] =
             IF @ = NoAccount
             THEN [status |-> "pending", secret |-> form[b].secret, roles |-> DefaultRoles]
             ELSE @]
    /\ form' = [form EXCEPT ![b] = NoCall]
    /\ UNCHANGED <<cookie, now, refusedAt, heldAt>>

\* demo_login(): the row is read, status and password are checked ...
Login(b, e, s) ==
    /\ form[b] = NoCall
    /\ account[e].status = "approved" /\ account[e].secret = s
    /\ form' = [form EXCEPT ![b] = [kind |-> "login", email |-> e, secret |-> s,
                                          roles |-> account[e].roles]]
    /\ UNCHANGED <<account, cookie, now, refusedAt, heldAt>>

\* ... and the token made of what was read.
IssueToken(b) ==
    /\ form[b].kind = "login"
    /\ cookie' = [cookie EXCEPT ![b] =
         [email |-> form[b].email, roles |-> form[b].roles, exp |-> now + SessionMaxAge]]
    /\ form' = [form EXCEPT ![b] = NoCall]
    /\ UNCHANGED <<account, now, refusedAt, heldAt>>

Logout(b) ==
    /\ cookie[b] # NoCookie
    /\ cookie' = [cookie EXCEPT ![b] = NoCookie]
    /\ UNCHANGED <<account, form, now, refusedAt, heldAt>>

\* authenticate(): whom it takes a request of this browser for.
X_Valid(b) == cookie[b] # NoCookie
Valid(b) == cookie[b] # NoCookie /\ now < cookie[b].exp

-----------------------------------------------------------------------------
(* The approval queue                                                       *)

SetStatus(who, to) ==
    /\ who # {}
    /\ account' = [e \in Emails |-> IF e \in who THEN [account[e] EXCEPT !.status = to]
                                              ELSE account[e]]
    /\ UNCHANGED <<form, cookie, now, heldAt>>

Pending(e) == account[e].status = "pending"

ApproveUser(e) == Pending(e) /\ SetStatus({e}, "approved") /\ UNCHANGED refusedAt
RejectUser(e) ==
    Pending(e) /\ SetStatus({e}, "rejected") /\ refusedAt' = [refusedAt EXCEPT ![e] = now]

\* Everybody of a team who is pending when the statement runs.
X_ApproveTeam(t) ==
    SetStatus({ e \in Emails : TeamOf[e] = t /\ account[e] # NoAccount }, "approved")
    /\ UNCHANGED refusedAt
ApproveTeam(t) ==
    SetStatus({ e \in Emails : TeamOf[e] = t /\ Pending(e) }, "approved") /\ UNCHANGED refusedAt

DisableUser(e) ==
    /\ account[e].status \notin {"none", "disabled"}
    /\ SetStatus({e}, "disabled")
    /\ refusedAt' = [refusedAt EXCEPT ![e] = IF @ < now THEN @ ELSE now]

UpdateRoles(e, r) ==
    /\ account[e] # NoAccount
    /\ account' = [account EXCEPT ![e].roles = r]
    /\ heldAt' = [heldAt EXCEPT ![e][account[e].roles] = now]
    /\ UNCHANGED <<form, cookie, now, refusedAt>>

\* A login takes less than a tick.
Tick ==
    /\ now < MaxTicks /\ \A b \in Browsers : form[b].kind # "login"
    /\ now' = now + 1
    /\ UNCHANGED <<account, form, cookie, refusedAt, heldAt>>

AccountsNext ==
    \/ \E b \in Browsers, e \in Emails, s \in Secrets : BeginRegister(b, e, s) \/ Login(b, e, s)
    \/ \E b \in Browsers : InsertUser(b) \/ IssueToken(b) \/ Logout(b)
    \/ \E e \in Emails :
         \/ ApproveUser(e) \/ RejectUser(e) \/ DisableUser(e) \/ ApproveTeam(TeamOf[e])
         \/ \E r \in RoleSets : UpdateRoles(e, r)
    \/ Tick

AccountsSpec == AccountsInit /\ [][AccountsNext]_accountVars

-----------------------------------------------------------------------------
(* Properties                                                              *)

\* Nobody is told that an account is gone, tokens are believed until they
\* expire: yet one session length after a rejection or a disabling (by hand,
\* or between the two steps of a login or of a bulk approval) access has ended
\* for good.
AccessEnds ==
    \A b \in Browsers : Valid(b) => now < refusedAt[cookie[b].email] + SessionMaxAge

\* Roles that were taken away are claimed for one session length at most.
RolesExpire ==
    \A b \in Browsers : Valid(b) =>
        \/ cookie[b].roles = account[cookie[b].email].roles
        \/ now < heldAt[cookie[b].email][cookie[b].roles] + SessionMaxAge

\* Whatever an administrator takes away is gone one session length later.
RevocationTakesHold == AccessEnds /\ RolesExpire

\* The first registration stands: no later one, however they overlap, changes
\* the password or the status of an account.
RegistrationStands ==
    [][\A e \in Emails : account[e] # NoAccount =>
         account'[e].secret = account[e].secret
         /\ (account'[e].status = "pending" => account[e].status = "pending")]_accountVars
=============================================================================
