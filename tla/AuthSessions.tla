----------------------------- MODULE AuthSessions -----------------------------
(***************************************************************************)
(* Sessions and user lifecycle on the API server: AuthService, the global  *)
(* JwtGuard and RolesGuard, and the handlers of UsersService that touch a  *)
(* user's standing, password, role or token version.                       *)
(*                                                                         *)
(* Every HTTP request is a process.  It verifies its token and goes from   *)
(* one database call to the next; other requests and the clock run in      *)
(* between: the row it has read (seen) may be stale by the time it signs   *)
(* or writes, and its token may have expired.  A request that is refused   *)
(* before it has done anything is not a step; one that is refused later    *)
(* (wrong password, deactivated account, 404) goes back to Idle.           *)
(*                                                                         *)
(* Clients may present any token that was ever issued; which one a browser *)
(* really keeps is the business of the client modules.                     *)
(***************************************************************************)
EXTENDS Integers, FiniteSets

CONSTANTS
    Users,                  \* rows of the users table
    Passwords,
    Requests,               \* HTTP requests that can be in progress at once
    AccessTTL,              \* lifetimes, in units of the coarse clock
    RefreshTTLDefault,
    RefreshTTLRememberMe,
    MaxTime,                \* bounds of the model: the clock,
    MaxVersion,             \* the token versions,
    MaxSessions,            \* the refresh tokens before the last login,
    MaxAccess               \* and the access tokens before the last is asked

ASSUME TTLAssumption ==
    /\ AccessTTL \in Nat \ {0}
    /\ RefreshTTLDefault \in Nat \ {0}
    /\ RefreshTTLRememberMe \in Nat \ {0}

ASSUME BoundAssumption ==
    /\ MaxTime \in Nat
    /\ MaxVersion \in Nat
    /\ MaxSessions \in Nat
    /\ MaxAccess \in Nat

VARIABLES
    now,        \* the clock
    row,        \* the users table
    access,     \* access tokens issued
    refresh,    \* refresh tokens issued
    req,        \* where each request is and the locals it holds
    roleSet     \* history, read by no action: when each role last changed

vars == <<now, row, access, refresh, req, roleSet>>

-------------------------------------------------------------------------------
Roles == {"employee", "admin"}

\* The handlers of UsersController modelled here; all are @Roles('admin').
AdminOps == {"updateUser", "resetPassword", "deactivateUser", "restoreUser"}

Row == [role : Roles, password : Passwords, is_active : BOOLEAN,
        deleted : BOOLEAN, token_version : Nat]

\* The payload { userId, role } of an access token, and the JWT's iat.
\* "asked" is history that no action reads: when the login or refresh that
\* signed it came in.
AccessToken == [user : Users, role : Roles, iat : Nat, asked : Nat]

\* The payload { userId, tokenVersion } of a refresh token, and its exp.
\* "proved" is history that no action reads: the password whose check
\* produced the token.
RefreshToken == [user : Users, tokenVersion : Nat, exp : Nat,
                 proved : Passwords]

Idle == [pc |-> "idle"]

\* "since" is history that no action reads: when the request came in.
LoginRequest == [pc : {"login"}, since : Nat, user : Users,
                 password : Passwords, rememberMe : BOOLEAN, seen : Row]
VerifiedRequest == [pc : {"verified"}, since : Nat, token : RefreshToken]
RefreshRequest == [pc : {"refresh"}, since : Nat, user : Users, seen : Row]
GuardRequest == [pc : {"guard"}, since : Nat, token : AccessToken]
LogoutRequest == [pc : {"logout"}, caller : Users]
FindRequest == [pc : {"find"}, since : Nat, token : AccessToken,
                op : AdminOps, target : Users]
WriteRequest == [pc : {"write"}, since : Nat, token : AccessToken,
                 op : AdminOps, target : Users, seen : Row]

Request == {Idle} \cup LoginRequest \cup VerifiedRequest \cup RefreshRequest
             \cup GuardRequest \cup LogoutRequest \cup FindRequest
             \cup WriteRequest

TypeOK ==
    /\ now \in Nat
    /\ row \in [Users -> Row]
    /\ access \subseteq AccessToken
    /\ refresh \subseteq RefreshToken
    /\ req \in [Requests -> Request]
    /\ roleSet \in [Users -> Nat]

-------------------------------------------------------------------------------
\* The row of a seeded or created user before anything happens to it.
FreshRow(role, password) ==
    [role |-> role, password |-> password, is_active |-> TRUE,
     deleted |-> FALSE, token_version |-> 0]

\* At least one administrator exists, nobody is logged in, nothing runs.
Init ==
    /\ now = 0
    /\ \E role \in [Users -> Roles], password \in [Users -> Passwords] :
        /\ \E u \in Users : role[u] = "admin"
        /\ row = [u \in Users |-> FreshRow(role[u], password[u])]
    /\ access = {}
    /\ refresh = {}
    /\ req = [r \in Requests |-> Idle]
    /\ roleSet = [u \in Users |-> 0]

-------------------------------------------------------------------------------
\* assertAccountUsable, for a row the soft-delete filter lets through.
Usable(u) == ~row[u].deleted /\ row[u].is_active

Busy(r) == req[r] # Idle

\* A request r that is not in progress starts with the given locals, one that
\* is in progress takes up new ones, or answers and is gone.
Begin(r, locals) == ~Busy(r) /\ req' = [req EXCEPT ![r] = locals]
Continue(r, locals) == req' = [req EXCEPT ![r] = locals]
Answer(r) == req' = [req EXCEPT ![r] = Idle]

\* token_version: { increment: 1 } is part of one SQL statement: it adds to
\* the version in the table, not to the one the request has read.
CanIncrement(u) == row[u].token_version < MaxVersion
\* Mutant: decrement for increment.
IncrementedDown(u) == [row[u] EXCEPT !.token_version = @ - 1]
Incremented(u) == [row[u] EXCEPT !.token_version = @ + 1]

-------------------------------------------------------------------------------
\* POST /auth/login: the row is found by email, live and active.
LoginRead(r) ==
    /\ Cardinality(refresh) < MaxSessions
    /\ Cardinality(access) < MaxAccess
    /\ \E u \in Users, password \in Passwords, rememberMe \in BOOLEAN :
          /\ Usable(u)
          /\ Begin(r, [pc |-> "login", since |-> now, user |-> u,
                       password |-> password, rememberMe |-> rememberMe,
                       seen |-> row[u]])
    /\ UNCHANGED <<now, row, access, refresh, roleSet>>

RefreshTTL(rememberMe) ==
    IF rememberMe THEN RefreshTTLRememberMe ELSE RefreshTTLDefault

\* The access token is signed for the user and the role the request has read.
SignAccess(r) ==
    access' = access \cup {[user |-> req[r].user, role |-> req[r].seen.role,
                            iat |-> now, asked |-> req[r].since]}

\* Mutant: the version is read again after the comparison.
LoginSignRereads(r) ==
    /\ req[r].pc = "login"
    /\ req[r].password = req[r].seen.password
    /\ SignAccess(r)
    /\ refresh' = refresh \cup
          {[user |-> req[r].user,
            tokenVersion |-> row[req[r].user].token_version,
            exp |-> now + RefreshTTL(req[r].rememberMe),
            proved |-> req[r].password]}
    /\ Answer(r)
    /\ UNCHANGED <<now, row, roleSet>>

\* bcrypt.compare has resolved: the tokens are signed from the row read before
\* it, whatever has happened to the row since.
LoginSign(r) ==
    /\ req[r].pc = "login"
    /\ req[r].password = req[r].seen.password
    /\ SignAccess(r)
    /\ refresh' = refresh \cup
          {[user |-> req[r].user,
            tokenVersion |-> req[r].seen.token_version,
            exp |-> now + RefreshTTL(req[r].rememberMe),
            proved |-> req[r].password]}
    /\ Answer(r)
    /\ UNCHANGED <<now, row, roleSet>>

LoginReject(r) ==
    /\ req[r].pc = "login"
    /\ req[r].password # req[r].seen.password
    /\ Answer(r)
    /\ UNCHANGED <<now, row, access, refresh, roleSet>>

\* What POST /auth/refresh requires of the row of the cookie's token, and of
\* the token itself.
Accepted(t) ==
    /\ Usable(t.user)
    /\ t.tokenVersion = row[t.user].token_version

Honoured(t) == now < t.exp /\ Accepted(t)

VerifyRefresh(r) ==
    /\ Cardinality(access) < MaxAccess
    /\ \E t \in refresh :
          /\ now < t.exp
          /\ Begin(r, [pc |-> "verified", since |-> now, token |-> t])
    /\ UNCHANGED <<now, row, access, refresh, roleSet>>

\* Mutant: the role is carried over from the client's last access token.
RefreshReadOldRole(r) ==
    /\ req[r].pc = "verified"
    /\ Accepted(req[r].token)
    /\ \E old \in access :
          /\ old.user = req[r].token.user
          /\ Continue(r, [pc |-> "refresh", since |-> req[r].since,
                          user |-> req[r].token.user,
                          seen |-> [row[req[r].token.user]
                                      EXCEPT !.role = old.role]])
    /\ UNCHANGED <<now, row, access, refresh, roleSet>>

RefreshRead(r) ==
    /\ req[r].pc = "verified"
    /\ Accepted(req[r].token)
    /\ Continue(r, [pc |-> "refresh", since |-> req[r].since,
                    user |-> req[r].token.user,
                    seen |-> row[req[r].token.user]])
    /\ UNCHANGED <<now, row, access, refresh, roleSet>>

RefreshReject(r) ==
    /\ req[r].pc = "verified"
    /\ ~Accepted(req[r].token)
    /\ Answer(r)
    /\ UNCHANGED <<now, row, access, refresh, roleSet>>

\* The new access token carries the role of the row; the refresh token is not
\* rotated.
RefreshSign(r) ==
    /\ req[r].pc = "refresh"
    /\ SignAccess(r)
    /\ Answer(r)
    /\ UNCHANGED <<now, row, refresh, roleSet>>

-------------------------------------------------------------------------------
\* Mutant: the guard verifies the signature and forgets the expiry.
UnexpiredForever(t) == TRUE
Unexpired(t) == now < t.iat + AccessTTL

\* JwtGuard: the token is unexpired and its user's row is live and active.
\* The role of the request is the token's, not the row's.
Authenticates(t) == Unexpired(t) /\ Usable(t.user)

\* Mutant: the handlers have lost their @Roles('admin').
AuthorizesAnyone(t) == TRUE

\* RolesGuard on a handler marked @Roles('admin').
Authorizes(t) == t.role = "admin"

\* The guard verifies the bearer token, then reads the row of its user, and
\* only then does the route's handler run.
VerifyAccess(r) ==
    \E t \in access :
        /\ Unexpired(t)
        /\ Begin(r, [pc |-> "guard", since |-> now, token |-> t])
        /\ UNCHANGED <<now, row, access, refresh, roleSet>>

LogoutGuard(r) ==
    /\ req[r].pc = "guard"
    /\ Usable(req[r].token.user)
    /\ Continue(r, [pc |-> "logout", caller |-> req[r].token.user])
    /\ UNCHANGED <<now, row, access, refresh, roleSet>>

AdminGuard(r) ==
    /\ req[r].pc = "guard"
    /\ Usable(req[r].token.user)
    /\ Authorizes(req[r].token)
    /\ \E op \in AdminOps, target \in Users :
          Continue(r, [pc |-> "find", since |-> req[r].since,
                       token |-> req[r].token, op |-> op, target |-> target])
    /\ UNCHANGED <<now, row, access, refresh, roleSet>>

\* 401 for an account that is not usable, 403 for another role's handler.
GuardReject(r) ==
    /\ req[r].pc = "guard"
    /\ ~Usable(req[r].token.user) \/ ~Authorizes(req[r].token)
    /\ Answer(r)
    /\ UNCHANGED <<now, row, access, refresh, roleSet>>

\* Mutant: logout only clears the cookie of the browser that asks.
LogoutCookieOnly(r) ==
    /\ req[r].pc = "logout"
    /\ Answer(r)
    /\ UNCHANGED <<now, row, access, refresh, roleSet>>

Logout(r) ==
    /\ req[r].pc = "logout"
    /\ CanIncrement(req[r].caller)
    /\ row' = [row EXCEPT ![req[r].caller] = Incremented(req[r].caller)]
    /\ Answer(r)
    /\ UNCHANGED <<now, access, refresh, roleSet>>

\* prisma.user.findUnique({ where: { id } }): the soft-delete middleware adds
\* deleted_at: null to it.
Found(u) == ~row[u].deleted

Find(r) ==
    /\ req[r].pc = "find"
    /\ Found(req[r].target)
    /\ Continue(r, [pc |-> "write", since |-> req[r].since,
                    token |-> req[r].token, op |-> req[r].op,
                    target |-> req[r].target, seen |-> row[req[r].target]])
    /\ UNCHANGED <<now, row, access, refresh, roleSet>>

NotFound(r) ==
    /\ req[r].pc = "find"
    /\ ~Found(req[r].target)
    /\ Answer(r)
    /\ UNCHANGED <<now, row, access, refresh, roleSet>>

\* The handler's update, by id alone: it does not look at deleted_at again.
Write(r, op, columns) ==
    /\ req[r].pc = "write"
    /\ req[r].op = op
    /\ row' = [row EXCEPT ![req[r].target] = columns]
    /\ roleSet' = [roleSet EXCEPT ![req[r].target] =
                     IF columns.role = row[req[r].target].role THEN @ ELSE now]
    /\ Answer(r)
    /\ UNCHANGED <<now, access, refresh>>

\* A new role (the name and the email are in module Directory).
UpdateUser(r) ==
    /\ req[r].pc = "write"
    /\ \E role \in Roles :
          Write(r, "updateUser", [row[req[r].target] EXCEPT !.role = role])

\* Mutant: the version is computed from the row the handler has read.
ResetPasswordLosesUpdates(r) ==
    /\ req[r].pc = "write"
    /\ CanIncrement(req[r].target)
    /\ \E password \in Passwords :
          Write(r, "resetPassword",
                [row[req[r].target] EXCEPT
                    !.password = password,
                    !.token_version = req[r].seen.token_version + 1])

ResetPassword(r) ==
    /\ req[r].pc = "write"
    /\ CanIncrement(req[r].target)
    /\ \E password \in Passwords :
          Write(r, "resetPassword",
                [Incremented(req[r].target) EXCEPT !.password = password])

\* Mutant: deactivation leaves the version to the is_active check.
DeactivateUserKeepsVersion(r) ==
    /\ req[r].pc = "write"
    /\ Write(r, "deactivateUser",
             [row[req[r].target] EXCEPT !.is_active = FALSE,
                                        !.deleted = TRUE])

DeactivateUser(r) ==
    /\ req[r].pc = "write"
    /\ CanIncrement(req[r].target)
    /\ Write(r, "deactivateUser",
             [Incremented(req[r].target) EXCEPT !.is_active = FALSE,
                                                !.deleted = TRUE])

RestoreUser(r) ==
    /\ req[r].pc = "write"
    /\ Write(r, "restoreUser",
             [row[req[r].target] EXCEPT !.is_active = TRUE,
                                        !.deleted = FALSE])

\* The clock runs while requests are in progress: nothing bounds how long the
\* database or bcrypt keeps one of them waiting.
Tick ==
    /\ now < MaxTime
    /\ now' = now + 1
    /\ UNCHANGED <<row, access, refresh, req, roleSet>>

Serve(r) ==
    \/ LoginRead(r) \/ LoginSign(r) \/ LoginReject(r)
    \/ VerifyRefresh(r) \/ RefreshRead(r) \/ RefreshReject(r)
    \/ RefreshSign(r)
    \/ VerifyAccess(r) \/ GuardReject(r)
    \/ LogoutGuard(r) \/ Logout(r)
    \/ AdminGuard(r) \/ Find(r) \/ NotFound(r)
    \/ UpdateUser(r) \/ ResetPassword(r)
    \/ DeactivateUser(r) \/ RestoreUser(r)

Next == Tick \/ \E r \in Requests : Serve(r)

Spec == Init /\ [][Next]_vars

-------------------------------------------------------------------------------
\* A refresh token the refresh endpoint accepts was obtained with the password
\* the account has now: a login that checked the old password while the reset
\* was being written, or between two concurrent revocations, leaves no usable
\* session behind (AuthService.login reads the row, then compares and signs;
\* resetPassword and logout write in between).
HonouredProvesPassword ==
    \A t \in refresh : Honoured(t) => t.proved = row[t.user].password

\* An access token whose role is not the user's role any more was asked for no
\* later than the role changed.  It may be signed later: login and refresh read
\* the row, and the role can change before they sign; but no request that came
\* in after the change is given the old role, whatever tokens it presents.
\* JwtGuard trusts the role in the token, and only refresh renews it.
StaleRoleIsOld ==
    \A t \in access : t.role # row[t.user].role => t.asked <= roleSet[t.user]

\* How long the login or the refresh took that signed a token.
SigningTime(t) == t.iat - t.asked

\* The handlers of UsersController work for a caller who is an administrator
\* now, or who was one less than AccessTTL, and the time it took to sign the
\* token, before the request came in: however the caller's own role was changed
\* by others while the token was being signed or the request was in progress,
\* and however long ago the token has expired since the guard verified it.
AdminWhenAsked(t, since) ==
    \/ row[t.user].role = "admin"
    \/ since < roleSet[t.user] + AccessTTL + SigningTime(t)

AdminWorkIsAuthorized ==
    \A r \in Requests :
        req[r].pc \in {"find", "write"}
        => AdminWhenAsked(req[r].token, req[r].since)

\* The request r, in the handler of op, is being answered by this step.
Answers(r, pc) == req[r].pc = pc /\ req'[r] = Idle

\* When a logout, a password reset or a deactivation is answered, no refresh
\* token issued so far to that user is accepted any more.
RevocationIsTotal ==
    [][\A r \in Requests, t \in refresh :
          \/ Answers(r, "logout") /\ t.user = req[r].caller
          \/ /\ Answers(r, "write") /\ t.user = req[r].target
             /\ req[r].op \in {"resetPassword", "deactivateUser"}
          => ~Honoured(t)']_vars

-------------------------------------------------------------------------------
\* The inductive strengthening of HonouredProvesPassword.  A version is never
\* ahead of its row; and while it is the row's version, nothing has happened
\* to the row since it was read that would revoke it.
Current(u, version, password) ==
    /\ version <= row[u].token_version
    /\ version = row[u].token_version =>
          Usable(u) /\ password = row[u].password

\* Every refresh token, and every login in flight, is out of date or agrees
\* with the row: logout, resetPassword and deactivateUser each move the version
\* in the same statement as what they change, and restoreUser never moves it
\* back.
VersionsAreCurrent ==
    /\ \A t \in refresh : Current(t.user, t.tokenVersion, t.proved)
    /\ \A r \in Requests : req[r].pc = "login" =>
          Current(req[r].user, req[r].seen.token_version,
                  req[r].seen.password)

\* The inductive strengthening of StaleRoleIsOld and AdminWorkIsAuthorized: a
\* request that is about to sign with a role the row has lost came in before
\* the role changed.
SignersAreOld ==
    \A r \in Requests :
        /\ req[r].pc \in {"login", "refresh"}
        /\ req[r].seen.role # row[req[r].user].role
        => req[r].since <= roleSet[req[r].user]

RolesAreRecent ==
    /\ \A u \in Users : roleSet[u] <= now
    /\ \A t \in access : t.asked <= t.iat /\ t.iat <= now
    /\ \A r \in Requests :
          req[r].pc \in {"login", "verified", "refresh", "guard", "find",
                        "write"}
          => req[r].since <= now
    /\ \A r \in Requests :
          req[r].pc \in {"guard", "find", "write"}
          => /\ req[r].token \in access
             /\ req[r].since < req[r].token.iat + AccessTTL
    /\ StaleRoleIsOld
    /\ SignersAreOld
    /\ AdminWorkIsAuthorized

\* The promise the refresh tokens keep, whatever is in flight: a login counts
\* as pending while the version it has read is still the row's.
PendingChecks ==
    {[request |-> r, user |-> req[r].user] : r \in
        {r \in Requests : /\ req[r].pc = "login"
                          /\ req[r].seen.token_version
                               = row[req[r].user].token_version}}

Promise == INSTANCE SessionPromise WITH
    time <- now,
    pending <- PendingChecks,
    issued <- refresh,
    honoured <- {t \in refresh : Honoured(t)}

\* Login, refresh, logout, reset, deactivation and restoration implement the
\* promise: revoking takes everything at once, sessions and checks in flight,
\* and neither a late answer nor a restoration brings any of it back.
KeepsPromise == Promise!Spec

-------------------------------------------------------------------------------
\* What the user-management specification says and the code does not do.

\* "X then makes a request with a previously issued token: the request is
\* rejected with 401", after a reset of X's password.
ResetEndsAccess ==
    [][\A r \in Requests, t \in access :
          /\ Answers(r, "write")
          /\ req[r].op = "resetPassword"
          /\ t.user = req[r].target
          => ~Authenticates(t)']_vars

\* "The system SHALL allow an authenticated admin to reactivate a soft-deleted
\* user": the handler finds the user it is asked to restore.
RestoreFindsUser ==
    [][\A r \in Requests :
          (req[r].pc = "find" /\ req[r].op = "restoreUser")
          => req'[r] # Idle]_vars

===============================================================================
