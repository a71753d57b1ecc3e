------------------------- MODULE AuthSessionsRefinement -------------------------
(***************************************************************************)
(* AuthSessions implements SessionPromise.                                 *)
(***************************************************************************)
EXTENDS AuthSessionsProofs

\* While versions are current, the version and the expiry of a refresh token
\* alone decide whether it is accepted.
LEMMA HonouredByVersion ==
  ASSUME VersionsAreCurrent, NEW t \in refresh
  PROVE  Honoured(t) <=> /\ now < t.exp
                         /\ t.tokenVersion = row[t.user].token_version
BY DEF VersionsAreCurrent, Current, Honoured, Accepted

\* The same after the step.
LEMMA HonouredByVersionNext ==
  ASSUME VersionsAreCurrent', NEW t \in refresh'
  PROVE  Honoured(t)' <=> /\ now' < t.exp
                          /\ t.tokenVersion = row'[t.user].token_version
BY DEF VersionsAreCurrent, Current, Honoured, Accepted

\* A request waits for bcrypt, with what it has read.
LoggingIn(r) == req[r].pc = "login"

\* A step that issues no refresh token, leaves every login alone and moves no
\* version is invisible to the promise.
LEMMA InvisibleStep ==
  ASSUME TypeOK, TypeOK', VersionsAreCurrent, VersionsAreCurrent',
         now' = now, refresh' = refresh,
         \A r \in Requests : /\ LoggingIn(r)' <=> LoggingIn(r)
                             /\ LoggingIn(r) => req'[r] = req[r],
         \A u \in Users : row'[u].token_version = row[u].token_version
  PROVE  UNCHANGED Promise!promiseVars
<1>1. \A t \in refresh : Honoured(t)' <=> Honoured(t)
  BY HonouredByVersion, HonouredByVersionNext DEF TypeOK, RefreshToken
<1>2. {t \in refresh' : Honoured(t)'} = {t \in refresh : Honoured(t)}
  BY <1>1
<1>3. PendingChecks' = PendingChecks
  BY LocalsOfRequest DEF PendingChecks, LoggingIn, LoginRequest
<1> QED
  BY <1>2, <1>3 DEF Promise!promiseVars

\* A step that leaves the logins and the tokens alone and moves the version of
\* one row is a revocation of that user.
LEMMA RevokingStep ==
  ASSUME TypeOK, TypeOK', VersionsAreCurrent, VersionsAreCurrent',
         now' = now, refresh' = refresh,
         \A r \in Requests : /\ LoggingIn(r)' <=> LoggingIn(r)
                             /\ LoggingIn(r) => req'[r] = req[r],
         NEW x \in Users, RowRevoked(x),
         \A u \in Users \ {x} : row'[u] = row[u]
  PROVE  Promise!Revoke(x)
<1>1. row[x].token_version \in Nat
  BY DEF TypeOK, Row
<1>2. \A t \in refresh : Honoured(t)' <=> Honoured(t) /\ t.user # x
  BY <1>1, HonouredByVersion, HonouredByVersionNext
  DEF TypeOK, RefreshToken, RowRevoked, VersionsAreCurrent, Current
<1>3. {t \in refresh' : Honoured(t)'}
        = {s \in {t \in refresh : Honoured(t)} : s.user # x}
  BY <1>2
<1>4. ASSUME NEW r \in Requests, LoggingIn(r)
      PROVE  (req[r].seen.token_version = row'[req[r].user].token_version)
               <=> /\ req[r].seen.token_version
                         = row[req[r].user].token_version
                   /\ req[r].user # x
  BY <1>1, <1>4, LocalsOfRequest
  DEF LoggingIn, LoginRequest, RowRevoked, VersionsAreCurrent, Current
<1>5. PendingChecks' = {c \in PendingChecks : c.user # x}
  BY <1>4 DEF PendingChecks, LoggingIn
<1> QED
  BY <1>3, <1>5 DEF Promise!Revoke

-------------------------------------------------------------------------------
\* Which steps leave the logins and the refresh tokens alone.
LEMMA LoginsUntouched ==
  ASSUME TypeOK, NEW s \in Requests,
         \/ VerifyRefresh(s) \/ RefreshRead(s) \/ RefreshReject(s)
         \/ RefreshSign(s) \/ VerifyAccess(s) \/ GuardReject(s)
         \/ LogoutGuard(s) \/ Logout(s) \/ AdminGuard(s) \/ Find(s) \/ NotFound(s)
         \/ UpdateUser(s) \/ ResetPassword(s)
         \/ DeactivateUser(s) \/ RestoreUser(s)
  PROVE  /\ refresh' = refresh
         /\ \A r \in Requests : /\ LoggingIn(r)' <=> LoggingIn(r)
                                /\ LoggingIn(r) => req'[r] = req[r]
<1> DEFINE Untouched == /\ refresh' = refresh
                        /\ req[s].pc # "login" /\ req'[s].pc # "login"
                        /\ \A r \in Requests : r # s => req'[r] = req[r]
<1>1. Untouched
  <2> USE DEF Begin, Continue, Answer, Busy, Idle
  <2>1. CASE VerifyRefresh(s) \/ RefreshRead(s) \/ RefreshReject(s)
    BY <2>1 DEF VerifyRefresh, RefreshRead, RefreshReject, TypeOK
  <2>2. CASE RefreshSign(s) \/ Logout(s) \/ NotFound(s)
    BY <2>2 DEF RefreshSign, Logout, NotFound, TypeOK
  <2>7. CASE VerifyAccess(s) \/ GuardReject(s)
    BY <2>7 DEF VerifyAccess, GuardReject, TypeOK
  <2>3. CASE LogoutGuard(s)
    BY <2>3 DEF LogoutGuard, TypeOK
  <2>4. CASE AdminGuard(s)
    BY <2>4 DEF AdminGuard, TypeOK
  <2>5. CASE Find(s)
    BY <2>5 DEF Find, TypeOK
  <2>6. CASE UpdateUser(s) \/ ResetPassword(s) \/ DeactivateUser(s)
               \/ RestoreUser(s)
    <3>1. PICK op, columns : Write(s, op, columns)
      BY <2>6 DEF UpdateUser, ResetPassword, DeactivateUser, RestoreUser
    <3> QED
      BY <3>1 DEF Write, TypeOK
  <2> QED
    BY <2>1, <2>2, <2>3, <2>4, <2>5, <2>6, <2>7
<1> QED
  BY <1>1 DEF LoggingIn

\* A login's read is a check of the promise.
LEMMA LoginReadChecks ==
  ASSUME TypeOK, TypeOK', VersionsAreCurrent, VersionsAreCurrent',
         NEW s \in Requests, LoginRead(s)
  PROVE  \E u \in Users : Promise!Check(s, u)
<1>1. PICK u \in Users, password \in Passwords, rememberMe \in BOOLEAN :
        /\ req[s] = Idle
        /\ req' = [req EXCEPT ![s] =
             [pc |-> "login", since |-> now, user |-> u,
              password |-> password, rememberMe |-> rememberMe,
              seen |-> row[u]]]
        /\ UNCHANGED <<now, row, refresh>>
  BY DEF LoginRead, Begin, Busy
<1>2. /\ req'[s].pc = "login" /\ req'[s].user = u /\ req'[s].seen = row[u]
      /\ req[s].pc # "login"
      /\ \A r \in Requests : r # s => req'[r] = req[r]
  BY <1>1 DEF TypeOK, Idle
<1>3. PendingChecks' = PendingChecks \cup {[request |-> s, user |-> u]}
  BY <1>1, <1>2 DEF PendingChecks
<1>4. {t \in refresh' : Honoured(t)'} = {t \in refresh : Honoured(t)}
  BY <1>1 DEF Honoured, Accepted, Usable
<1> QED
  BY <1>1, <1>3, <1>4 DEF Promise!Check

\* A login that is answered yields an honoured session exactly when nothing
\* has revoked it since it read the row.
LEMMA LoginSignIssues ==
  ASSUME TypeOK, TypeOK', VersionsAreCurrent, VersionsAreCurrent',
         NEW s \in Requests, LoginSign(s)
  PROVE  Promise!Issue(s) \/ Promise!IssueDead(s)
<1>1. /\ req[s].pc = "login" /\ req[s] \in LoginRequest
      /\ req'[s].pc = "idle"
      /\ \A r \in Requests : r # s => req'[r] = req[r]
      /\ UNCHANGED <<now, row>>
  BY LocalsOfRequest DEF LoginSign, Answer, TypeOK, Idle
<1>2. PICK token \in refresh' :
        /\ refresh' = refresh \cup {token}
        /\ token.user = req[s].user
        /\ token.tokenVersion = req[s].seen.token_version
        /\ now < token.exp
  <2> DEFINE token == [user |-> req[s].user,
                       tokenVersion |-> req[s].seen.token_version,
                       exp |-> now + RefreshTTL(req[s].rememberMe),
                       proved |-> req[s].password]
  <2>1. refresh' = refresh \cup {token}
    BY DEF LoginSign
  <2>2. now < token.exp
    BY <1>1, TTLAssumption DEF RefreshTTL, TypeOK
  <2> QED
    BY <2>1, <2>2
<1>3. \A t \in refresh : Honoured(t)' <=> Honoured(t)
  BY <1>1 DEF Honoured, Accepted, Usable
<1>4. Honoured(token)' <=> token.tokenVersion = row[token.user].token_version
  BY <1>1, <1>2, HonouredByVersionNext
<1>5. PendingChecks' = {c \in PendingChecks : c.request # s}
  BY <1>1 DEF PendingChecks
<1>6. CASE token.tokenVersion = row[token.user].token_version
  <2>1. {t \in refresh' : Honoured(t)'}
          = {t \in refresh : Honoured(t)} \cup {token}
    BY <1>2, <1>3, <1>4, <1>6
  <2>2. [request |-> s, user |-> token.user] \in PendingChecks
    BY <1>1, <1>2, <1>6 DEF PendingChecks
  <2> QED
    BY <1>1, <1>2, <1>5, <2>1, <2>2 DEF Promise!Issue
<1>7. CASE token.tokenVersion # row[token.user].token_version
  <2>1. {t \in refresh' : Honoured(t)'} = {t \in refresh : Honoured(t)}
    BY <1>2, <1>3, <1>4, <1>7
  <2>2. \A c \in PendingChecks : c.request # s
    BY <1>2, <1>7 DEF PendingChecks
  <2>3. PendingChecks' = PendingChecks
    BY <1>5, <2>2
  <2> QED
    BY <1>1, <1>2, <2>1, <2>2, <2>3 DEF Promise!IssueDead
<1> QED
  BY <1>6, <1>7

\* A login with the wrong password abandons its check.
LEMMA LoginRejectAbandons ==
  ASSUME TypeOK, NEW s \in Requests, LoginReject(s)
  PROVE  Promise!Abandon(s)
<1>1. /\ req'[s].pc = "idle"
      /\ \A r \in Requests : r # s => req'[r] = req[r]
      /\ UNCHANGED <<now, row, refresh>>
  BY DEF LoginReject, Answer, TypeOK, Idle
<1>2. PendingChecks' = {c \in PendingChecks : c.request # s}
  BY <1>1 DEF PendingChecks
<1>3. {t \in refresh' : Honoured(t)'} = {t \in refresh : Honoured(t)}
  BY <1>1 DEF Honoured, Accepted, Usable
<1> QED
  BY <1>1, <1>2, <1>3 DEF Promise!Abandon

\* A unit of the clock takes the sessions that are past their expiry.
LEMMA TickPasses ==
  ASSUME TypeOK, Tick
  PROVE  Promise!Pass
<1>1. PendingChecks' = PendingChecks
  BY DEF Tick, PendingChecks
<1>2. {t \in refresh' : Honoured(t)'}
        = {s \in {t \in refresh : Honoured(t)} : now' < s.exp}
  BY DEF Tick, Honoured, Accepted, Usable, TypeOK, RefreshToken
<1> QED
  BY <1>1, <1>2 DEF Tick, Promise!Pass

-------------------------------------------------------------------------------
\* Login, refresh, logout, password reset, deactivation and restoration, with
\* any number of requests interleaved, implement the promise: revoking takes
\* the sessions and the checks in flight at once, and nothing brings them back.
THEOREM AuthSessionsKeepsPromise == Spec => KeepsPromise
<1>1. Init => Promise!Init
  BY DEF Init, Promise!Init, PendingChecks, Idle
<1>2. /\ TypeOK /\ TypeOK' /\ VersionsAreCurrent /\ VersionsAreCurrent'
      /\ [Next]_vars
      => [Promise!Next]_(Promise!promiseVars)
  <2> SUFFICES ASSUME TypeOK, TypeOK', VersionsAreCurrent,
                      VersionsAreCurrent', [Next]_vars
               PROVE  Promise!Next \/ UNCHANGED Promise!promiseVars
    OBVIOUS
  <2>1. CASE UNCHANGED vars
    BY <2>1 DEF vars, Promise!promiseVars, PendingChecks, Honoured, Accepted, Usable
  <2>2. CASE Tick
    BY <2>2, TickPasses DEF Promise!Next
  <2>3. ASSUME NEW s \in Requests, Serve(s)
        PROVE  Promise!Next \/ UNCHANGED Promise!promiseVars
    <3>1. CASE LoginRead(s)
      BY <3>1, LoginReadChecks DEF Promise!Next
    <3>2. CASE LoginSign(s)
      BY <3>2, LoginSignIssues DEF Promise!Next
    <3>3. CASE LoginReject(s)
      BY <3>3, LoginRejectAbandons DEF Promise!Next
    <3>4. CASE ~(LoginRead(s) \/ LoginSign(s) \/ LoginReject(s))
      <4>1. /\ now' = now
            /\ refresh' = refresh
            /\ \A r \in Requests : /\ LoggingIn(r)' <=> LoggingIn(r)
                                   /\ LoggingIn(r) => req'[r] = req[r]
        BY <2>3, <3>4, LoginsUntouched, OneRequestMoves DEF Serve
      <4>2. CASE \A u \in Users : RowKept(u)
        BY <4>1, <4>2, InvisibleStep DEF RowKept
      <4>3. CASE \E x \in Users : /\ RowRevoked(x)
                                 /\ \A u \in Users \ {x} : row'[u] = row[u]
        BY <4>1, <4>3, RevokingStep DEF Promise!Next
      <4> QED
        BY <2>3, <4>2, <4>3, ServeKeepsOrRevokes
    <3> QED
      BY <3>1, <3>2, <3>3, <3>4
  <2> QED
    BY <2>1, <2>2, <2>3 DEF Next
<1> QED
  BY <1>1, <1>2, TypeCorrect, VersionsCorrect, PTL
  DEF Spec, KeepsPromise, Promise!Spec
===============================================================================
