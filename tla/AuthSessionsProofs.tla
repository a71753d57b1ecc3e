-------------------------- MODULE AuthSessionsProofs --------------------------
(***************************************************************************)
(* Theorems about AuthSessions for any users, passwords, requests and      *)
(* token lifetimes.                                                        *)
(***************************************************************************)
EXTENDS AuthSessions, TLAPS

-------------------------------------------------------------------------------
\* What a request holds is determined by where it is.
LEMMA LocalsOfRequest ==
  ASSUME TypeOK, NEW r \in Requests
  PROVE  /\ req[r].pc = "login" => req[r] \in LoginRequest
         /\ req[r].pc = "verified" => req[r] \in VerifiedRequest
         /\ req[r].pc = "refresh" => req[r] \in RefreshRequest
         /\ req[r].pc = "guard" => req[r] \in GuardRequest
         /\ req[r].pc = "logout" => req[r] \in LogoutRequest
         /\ req[r].pc = "find" => req[r] \in FindRequest
         /\ req[r].pc = "write" => req[r] \in WriteRequest
BY DEF TypeOK, Request, Idle, LoginRequest, VerifiedRequest, RefreshRequest,
       GuardRequest, LogoutRequest, FindRequest, WriteRequest

\* Bumping a version keeps a row a row and changes nothing else in it.
LEMMA IncrementedRow ==
  ASSUME TypeOK, NEW u \in Users
  PROVE  /\ row[u] \in Row
         /\ Incremented(u) \in Row
         /\ Incremented(u).token_version = row[u].token_version + 1
         /\ Incremented(u).role = row[u].role
         /\ Incremented(u).password = row[u].password
         /\ Incremented(u).is_active = row[u].is_active
         /\ Incremented(u).deleted = row[u].deleted
BY DEF TypeOK, Row, Incremented

\* A handler's write of well-typed columns.
LEMMA WriteTypes ==
  ASSUME TypeOK, NEW r \in Requests, NEW op \in AdminOps, NEW columns \in Row,
         Write(r, op, columns)
  PROVE  TypeOK'
<1>1. req[r].target \in Users
  BY LocalsOfRequest DEF Write, WriteRequest
<1> QED
  BY <1>1 DEF Write, Answer, TypeOK, Request

\* Every step keeps the rows, the tokens and the locals of the requests within
\* their types.
THEOREM TypeCorrect == Spec => []TypeOK
<1>1. Init => TypeOK
  BY DEF Init, TypeOK, Request, Row, FreshRow
<1>2. TypeOK /\ [Next]_vars => TypeOK'
  <2> SUFFICES ASSUME TypeOK, [Next]_vars
               PROVE  TypeOK'
    OBVIOUS
  <2>1. CASE Tick
    BY <2>1 DEF Tick, TypeOK
  <2>2. ASSUME NEW r \in Requests, Serve(r)
        PROVE  TypeOK'
    <3> USE DEF Begin, Continue, Answer
    <3>1. CASE LoginRead(r)
      BY <3>1 DEF LoginRead, TypeOK, Request, LoginRequest
    <3>2. CASE LoginSign(r)
      <4>1. req[r] \in LoginRequest
        BY <3>2, LocalsOfRequest DEF LoginSign
      <4>2. now + RefreshTTL(req[r].rememberMe) \in Nat
        BY TTLAssumption DEF TypeOK, RefreshTTL
      <4> QED
        BY <3>2, <4>1, <4>2 DEF LoginSign, SignAccess, TypeOK, Request,
           LoginRequest, Row, AccessToken, RefreshToken
    <3>3. CASE LoginReject(r)
      BY <3>3 DEF LoginReject, TypeOK, Request
    <3>4. CASE VerifyRefresh(r)
      BY <3>4 DEF VerifyRefresh, TypeOK, Request, VerifiedRequest
    <3>16. CASE RefreshRead(r)
      <4>1. req[r] \in VerifiedRequest
        BY <3>16, LocalsOfRequest DEF RefreshRead
      <4> QED
        BY <3>16, <4>1 DEF RefreshRead, TypeOK, Request, RefreshRequest,
           VerifiedRequest, RefreshToken
    <3>17. CASE RefreshReject(r)
      BY <3>17 DEF RefreshReject, TypeOK, Request
    <3>5. CASE RefreshSign(r)
      <4>1. req[r] \in RefreshRequest
        BY <3>5, LocalsOfRequest DEF RefreshSign
      <4> QED
        BY <3>5, <4>1 DEF RefreshSign, SignAccess, TypeOK, Request,
           RefreshRequest, Row, AccessToken
    <3>18. CASE VerifyAccess(r)
      BY <3>18 DEF VerifyAccess, TypeOK, Request, GuardRequest
    <3>19. CASE GuardReject(r)
      BY <3>19 DEF GuardReject, TypeOK, Request
    <3>20. ASSUME req[r].pc = "guard"
           PROVE  req[r].token \in AccessToken /\ req[r].since \in Nat
      BY <3>20, LocalsOfRequest DEF GuardRequest
    <3>6. CASE LogoutGuard(r)
      BY <3>6, <3>20 DEF LogoutGuard, TypeOK, Request, LogoutRequest,
         AccessToken
    <3>7. CASE Logout(r)
      <4>1. req[r].caller \in Users
        BY <3>7, LocalsOfRequest DEF Logout, LogoutRequest
      <4> QED
        BY <3>7, <4>1, IncrementedRow DEF Logout, TypeOK, Request
    <3>8. CASE AdminGuard(r)
      BY <3>8, <3>20 DEF AdminGuard, TypeOK, Request, FindRequest
    <3>9. CASE Find(r)
      <4>1. req[r] \in FindRequest
        BY <3>9, LocalsOfRequest DEF Find
      <4> QED
        BY <3>9, <4>1 DEF Find, TypeOK, Request, FindRequest, WriteRequest
    <3>10. CASE NotFound(r)
      BY <3>10 DEF NotFound, TypeOK, Request
    <3>11. ASSUME req[r].pc = "write"
           PROVE  /\ req[r].target \in Users
                  /\ row[req[r].target] \in Row
      BY <3>11, LocalsOfRequest DEF WriteRequest, TypeOK
    <3>12. CASE UpdateUser(r)
      <4>1. PICK role \in Roles :
              Write(r, "updateUser", [row[req[r].target] EXCEPT !.role = role])
        BY <3>12 DEF UpdateUser
      <4>2. [row[req[r].target] EXCEPT !.role = role] \in Row
        BY <3>12, <3>11 DEF UpdateUser, Row
      <4> QED
        BY <4>1, <4>2, WriteTypes DEF AdminOps
    <3>13. CASE ResetPassword(r)
      <4>1. PICK password \in Passwords :
              Write(r, "resetPassword",
                    [Incremented(req[r].target) EXCEPT !.password = password])
        BY <3>13 DEF ResetPassword
      <4>2. [Incremented(req[r].target) EXCEPT !.password = password] \in Row
        BY <3>13, <3>11, IncrementedRow DEF ResetPassword, Row
      <4> QED
        BY <4>1, <4>2, WriteTypes DEF AdminOps
    <3>14. CASE DeactivateUser(r)
      <4>1. [Incremented(req[r].target) EXCEPT !.is_active = FALSE,
                                               !.deleted = TRUE] \in Row
        BY <3>14, <3>11, IncrementedRow DEF DeactivateUser, Row
      <4> QED
        BY <3>14, <4>1, WriteTypes DEF DeactivateUser, AdminOps
    <3>15. CASE RestoreUser(r)
      <4>1. [row[req[r].target] EXCEPT !.is_active = TRUE,
                                       !.deleted = FALSE] \in Row
        BY <3>15, <3>11 DEF RestoreUser, Row
      <4> QED
        BY <3>15, <4>1, WriteTypes DEF RestoreUser, AdminOps
    <3> QED
      BY <2>2, <3>1, <3>2, <3>3, <3>4, <3>5, <3>6, <3>7, <3>8, <3>9, <3>10,
         <3>12, <3>13, <3>14, <3>15, <3>16, <3>17, <3>18, <3>19 DEF Serve
  <2>3. CASE UNCHANGED vars
    BY <2>3 DEF vars, TypeOK
  <2> QED
    BY <2>1, <2>2, <2>3 DEF Next
<1> QED
  BY <1>1, <1>2, PTL DEF Spec

-------------------------------------------------------------------------------
\* Two ways in which a step can leave a row: what the sessions depend on is
\* kept, or the version has moved on.
RowKept(u) ==
    /\ row'[u].token_version = row[u].token_version
    /\ row'[u].password = row[u].password
    /\ Usable(u) => Usable(u)'

RowRevoked(u) == row'[u].token_version = row[u].token_version + 1

\* Either way, what agreed with the row still does or is out of date.
LEMMA CurrentIsStable ==
  ASSUME NEW u \in Users, row[u].token_version \in Nat,
         NEW version \in Nat, NEW password,
         RowKept(u) \/ RowRevoked(u),
         Current(u, version, password)
  PROVE  Current(u, version, password)'
<1>1. CASE RowKept(u)
  BY <1>1 DEF RowKept, Current
<1>2. CASE RowRevoked(u)
  BY <1>2 DEF RowRevoked, Current
<1> QED
  BY <1>1, <1>2

\* A handler's write of columns that keep or move the row it is about leaves
\* every other row as it is.
LEMMA WriteIsLocal ==
  ASSUME TypeOK, NEW r \in Requests, NEW op, NEW columns,
         Write(r, op, columns)
  PROVE  /\ req[r].target \in Users
         /\ row'[req[r].target] = columns
         /\ \A u \in Users : u # req[r].target => row'[u] = row[u]
BY LocalsOfRequest DEF Write, WriteRequest, TypeOK

\* A request's step keeps every row, or revokes one and leaves the others.
LEMMA ServeKeepsOrRevokes ==
  ASSUME TypeOK, NEW r \in Requests, Serve(r)
  PROVE  \/ \A u \in Users : RowKept(u)
         \/ /\ Logout(r) \/ ResetPassword(r) \/ DeactivateUser(r)
            /\ \E x \in Users : /\ RowRevoked(x)
                               /\ \A u \in Users \ {x} : row'[u] = row[u]
<1>1. ASSUME NEW u \in Users, row'[u] = row[u]
      PROVE  RowKept(u)
  BY <1>1 DEF RowKept, Usable
<1>2. CASE Logout(r)
  <2>1. req[r].caller \in Users
    BY <1>2, LocalsOfRequest DEF Logout, LogoutRequest
  <2>2. RowRevoked(req[r].caller)
    BY <1>2, <2>1, IncrementedRow DEF Logout, RowRevoked, TypeOK
  <2>3. \A u \in Users \ {req[r].caller} : row'[u] = row[u]
    BY <1>2, <2>1 DEF Logout, TypeOK
  <2> QED
    BY <1>2, <2>1, <2>2, <2>3
<1>3. CASE UpdateUser(r)
  <2>1. PICK role \in Roles :
          Write(r, "updateUser", [row[req[r].target] EXCEPT !.role = role])
    BY <1>3 DEF UpdateUser
  <2>2. ASSUME NEW u \in Users
        PROVE  RowKept(u)
    <3>1. CASE u = req[r].target
      BY <2>1, <3>1, WriteIsLocal DEF RowKept, Usable, TypeOK, Row
    <3>2. CASE u # req[r].target
      <4>1. row'[u] = row[u]
        BY <2>1, <3>2, WriteIsLocal
      <4> QED
        BY <4>1, <1>1
    <3> QED
      BY <3>1, <3>2
  <2> QED
    BY <2>2
<1>4. CASE ResetPassword(r)
  <2>1. PICK password \in Passwords :
          Write(r, "resetPassword",
                [Incremented(req[r].target) EXCEPT !.password = password])
    BY <1>4 DEF ResetPassword
  <2>2. RowRevoked(req[r].target)
    BY <2>1, WriteIsLocal, IncrementedRow DEF RowRevoked, Row
  <2> QED
    BY <1>4, <2>1, <2>2, WriteIsLocal
<1>5. CASE DeactivateUser(r)
  <2> DEFINE columns == [Incremented(req[r].target)
                           EXCEPT !.is_active = FALSE, !.deleted = TRUE]
  <2>1. Write(r, "deactivateUser", columns)
    BY <1>5 DEF DeactivateUser
  <2>2. columns.token_version = row[req[r].target].token_version + 1
    BY <2>1, WriteIsLocal, IncrementedRow DEF Row
  <2> HIDE DEF columns
  <2>3. RowRevoked(req[r].target)
    BY <2>1, <2>2, WriteIsLocal DEF RowRevoked
  <2> QED
    BY <1>5, <2>1, <2>3, WriteIsLocal
<1>6. CASE RestoreUser(r)
  <2> DEFINE columns == [row[req[r].target]
                           EXCEPT !.is_active = TRUE, !.deleted = FALSE]
  <2>1. Write(r, "restoreUser", columns)
    BY <1>6 DEF RestoreUser
  <2>2. /\ columns.token_version = row[req[r].target].token_version
        /\ columns.password = row[req[r].target].password
        /\ columns.is_active /\ ~columns.deleted
    BY <2>1, WriteIsLocal DEF TypeOK, Row
  <2> HIDE DEF columns
  <2>3. ASSUME NEW u \in Users
        PROVE  RowKept(u)
    <3>1. CASE u = req[r].target
      BY <2>1, <2>2, <3>1, WriteIsLocal DEF RowKept, Usable
    <3>2. CASE u # req[r].target
      <4>1. row'[u] = row[u]
        BY <2>1, <3>2, WriteIsLocal
      <4> QED
        BY <4>1, <1>1
    <3> QED
      BY <3>1, <3>2
  <2> QED
    BY <2>3
<1>7. CASE row' = row
  BY <1>7, <1>1
<1> QED
  BY <1>2, <1>3, <1>4, <1>5, <1>6, <1>7
  DEF Serve, LoginRead, LoginSign, LoginReject, VerifyRefresh, RefreshRead,
      RefreshReject, RefreshSign, VerifyAccess, GuardReject, LogoutGuard,
      AdminGuard, Find, NotFound

\* Every step keeps or revokes each row.
LEMMA StepKeepsOrRevokes ==
  ASSUME TypeOK, [Next]_vars, NEW u \in Users
  PROVE  RowKept(u) \/ RowRevoked(u)
<1>1. ASSUME row'[u] = row[u]
      PROVE  RowKept(u)
  BY <1>1 DEF RowKept, Usable
<1>2. CASE row' = row
  BY <1>1, <1>2
<1>3. ASSUME NEW r \in Requests, Serve(r)
      PROVE  RowKept(u) \/ RowRevoked(u)
  BY <1>1, <1>3, ServeKeepsOrRevokes
<1> QED
  BY <1>2, <1>3 DEF Next, Tick, vars

\* A step other than a login's read starts no login, and one other than a
\* login's answer issues no refresh token.
LEMMA OnlyLoginsIssue ==
  ASSUME TypeOK, [Next]_vars
  PROVE  /\ \/ refresh' = refresh
            \/ \E r \in Requests : LoginSign(r)
         /\ \A r \in Requests :
               req'[r].pc = "login" =>
                  req'[r] = req[r] \/ LoginRead(r)
<1> USE DEF Begin, Continue, Answer, Idle
<1>1. CASE UNCHANGED vars
  BY <1>1 DEF vars
<1>2. CASE Tick
  BY <1>2 DEF Tick
<1>3. ASSUME NEW s \in Requests, Serve(s)
      PROVE  /\ refresh' = refresh \/ LoginSign(s)
             /\ \A r \in Requests :
                   req'[r].pc = "login" =>
                      req'[r] = req[r] \/ LoginRead(r)
  <2>1. CASE LoginRead(s)
    BY <2>1 DEF LoginRead, TypeOK
  <2>2. CASE LoginSign(s) \/ LoginReject(s) \/ RefreshSign(s) \/ Logout(s)
               \/ NotFound(s) \/ RefreshReject(s) \/ GuardReject(s)
    BY <2>2 DEF LoginSign, LoginReject, RefreshSign, Logout, NotFound,
                RefreshReject, GuardReject, TypeOK
  <2>3. CASE VerifyRefresh(s) \/ RefreshRead(s) \/ VerifyAccess(s)
               \/ LogoutGuard(s)
    BY <2>3 DEF VerifyRefresh, RefreshRead, VerifyAccess, LogoutGuard, TypeOK
  <2>6. CASE AdminGuard(s) \/ Find(s)
    BY <2>6 DEF AdminGuard, Find, TypeOK
  <2>4. ASSUME NEW op, NEW columns, Write(s, op, columns)
        PROVE  /\ refresh' = refresh
               /\ \A r \in Requests :
                     req'[r].pc = "login" => req'[r] = req[r]
    BY <2>4 DEF Write, TypeOK
  <2>5. CASE UpdateUser(s) \/ ResetPassword(s) \/ DeactivateUser(s)
               \/ RestoreUser(s)
    <3>1. PICK op, columns : Write(s, op, columns)
      BY <2>5 DEF UpdateUser, ResetPassword, DeactivateUser, RestoreUser
    <3> QED
      BY <3>1, <2>4
  <2> QED
    BY <1>3, <2>1, <2>2, <2>3, <2>5, <2>6 DEF Serve
<1> QED
  BY <1>1, <1>2, <1>3 DEF Next

\* No refresh token and no login in flight is ever ahead of its row, and one
\* that is level with it belongs to a live, active account and to the password
\* that account has now.
THEOREM VersionsCorrect == Spec => []VersionsAreCurrent
<1>1. Init => VersionsAreCurrent
  BY DEF Init, VersionsAreCurrent, Idle
<1>2. TypeOK /\ TypeOK' /\ VersionsAreCurrent /\ [Next]_vars
        => VersionsAreCurrent'
  <2> SUFFICES ASSUME TypeOK, TypeOK', VersionsAreCurrent, [Next]_vars
               PROVE  VersionsAreCurrent'
    OBVIOUS
  <2>1. ASSUME NEW u \in Users, NEW version \in Nat, NEW password,
               Current(u, version, password)
        PROVE  Current(u, version, password)'
    <3>1. row[u].token_version \in Nat
      BY DEF TypeOK, Row
    <3> QED
      BY <2>1, <3>1, StepKeepsOrRevokes, CurrentIsStable
  <2>2. ASSUME NEW t \in refresh
        PROVE  Current(t.user, t.tokenVersion, t.proved)'
    BY <2>1, <2>2 DEF VersionsAreCurrent, TypeOK, RefreshToken
  <2>3. ASSUME NEW r \in Requests, req[r].pc = "login", req'[r] = req[r]
        PROVE  Current(req[r].user, req[r].seen.token_version,
                       req[r].seen.password)'
    <3>1. PICK u \in Users, version \in Nat, password \in Passwords :
            /\ u = req[r].user
            /\ version = req[r].seen.token_version
            /\ password = req[r].seen.password
      BY <2>3, LocalsOfRequest DEF LoginRequest, Row
    <3>2. Current(u, version, password)
      BY <2>3, <3>1 DEF VersionsAreCurrent
    <3>3. Current(u, version, password)'
      BY <2>1, <3>2
    <3> QED
      BY <2>3, <3>1, <3>3
  <2>4. ASSUME NEW r \in Requests, LoginRead(r), NEW q \in Requests,
               req'[q].pc = "login"
        PROVE  Current(req[q].user, req[q].seen.token_version,
                       req[q].seen.password)'
    <3>1. CASE q = r
      <4>1. PICK u \in Users, password \in Passwords, remember \in BOOLEAN :
              /\ Usable(u)
              /\ req' = [req EXCEPT ![r] =
                   [pc |-> "login", since |-> now, user |-> u,
                    password |-> password, rememberMe |-> remember,
                    seen |-> row[u]]]
              /\ row' = row
        BY <2>4 DEF LoginRead, Begin
      <4>2. req'[q].user = u /\ req'[q].seen = row[u]
        BY <3>1, <4>1 DEF TypeOK
      <4> QED
        BY <4>1, <4>2 DEF Current, Usable, TypeOK, Row
    <3>2. CASE q # r
      <4>1. req'[q] = req[q]
        BY <2>4, <3>2 DEF LoginRead, Begin, TypeOK
      <4> QED
        BY <2>3, <2>4, <4>1
    <3> QED
      BY <3>1, <3>2
  <2>5. ASSUME NEW r \in Requests, LoginSign(r), NEW t \in refresh'
        PROVE  Current(t.user, t.tokenVersion, t.proved)'
    <3>1. CASE t \notin refresh
      <4>1. /\ req[r].pc = "login"
            /\ req[r] \in LoginRequest
            /\ t = [user |-> req[r].user,
                    tokenVersion |-> req[r].seen.token_version,
                    exp |-> now + RefreshTTL(req[r].rememberMe),
                    proved |-> req[r].seen.password]
        BY <2>5, <3>1, LocalsOfRequest DEF LoginSign
      <4>2. Current(t.user, t.tokenVersion, t.proved)
        BY <4>1 DEF VersionsAreCurrent
      <4> QED
        BY <2>1, <4>1, <4>2 DEF LoginRequest, Row
    <3> QED
      BY <2>2, <3>1
  <2>6. \A t \in refresh' : Current(t.user, t.tokenVersion, t.proved)'
    BY <2>2, <2>5, OnlyLoginsIssue
  <2>7. \A q \in Requests : req'[q].pc = "login" =>
          Current(req[q].user, req[q].seen.token_version,
                  req[q].seen.password)'
    BY <2>3, <2>4, OnlyLoginsIssue
  <2> QED
    BY <2>6, <2>7 DEF VersionsAreCurrent
<1> QED
  BY <1>1, <1>2, TypeCorrect, PTL DEF Spec

\* A refresh token the server accepts was obtained with the password the
\* account has now.
THEOREM HonouredProvesPasswordAlways == Spec => []HonouredProvesPassword
<1>1. VersionsAreCurrent => HonouredProvesPassword
  BY DEF VersionsAreCurrent, HonouredProvesPassword, Honoured, Accepted, Current
<1> QED
  BY <1>1, VersionsCorrect, PTL

-------------------------------------------------------------------------------
\* A step that is not the clock's is one request's: the clock and the other
\* requests stand still.
LEMMA OneRequestMoves ==
  ASSUME TypeOK, NEW s \in Requests, Serve(s)
  PROVE  /\ now' = now
         /\ \A r \in Requests : r # s => req'[r] = req[r]
<1> USE DEF Begin, Continue, Answer
<1>1. ASSUME NEW op, NEW columns, Write(s, op, columns)
      PROVE  now' = now /\ \A r \in Requests : r # s => req'[r] = req[r]
  BY <1>1 DEF Write, TypeOK
<1>2. CASE UpdateUser(s) \/ ResetPassword(s) \/ DeactivateUser(s)
             \/ RestoreUser(s)
  <2>1. PICK op, columns : Write(s, op, columns)
    BY <1>2 DEF UpdateUser, ResetPassword, DeactivateUser, RestoreUser
  <2> QED
    BY <2>1, <1>1
<1>3. CASE LoginRead(s) \/ LoginSign(s) \/ LoginReject(s) \/ VerifyRefresh(s)
             \/ RefreshRead(s) \/ RefreshReject(s) \/ RefreshSign(s)
  BY <1>3 DEF LoginRead, LoginSign, LoginReject, VerifyRefresh, RefreshRead,
              RefreshReject, RefreshSign, TypeOK
<1>4. CASE VerifyAccess(s) \/ GuardReject(s) \/ LogoutGuard(s) \/ Logout(s)
  BY <1>4 DEF VerifyAccess, GuardReject, LogoutGuard, Logout, TypeOK
<1>5. CASE AdminGuard(s) \/ Find(s) \/ NotFound(s)
  BY <1>5 DEF AdminGuard, Find, NotFound, TypeOK
<1> QED
  BY <1>2, <1>3, <1>4, <1>5 DEF Serve

\* The role of a row changes together with the record of when it did.
LEMMA RoleChangesAreRecorded ==
  ASSUME TypeOK, NEW s \in Requests, Serve(s), NEW u \in Users
  PROVE  \/ row'[u].role = row[u].role /\ roleSet'[u] = roleSet[u]
         \/ roleSet'[u] = now
<1>1. ASSUME NEW op, NEW columns, Write(s, op, columns)
      PROVE  \/ row'[u].role = row[u].role /\ roleSet'[u] = roleSet[u]
             \/ roleSet'[u] = now
  BY <1>1, WriteIsLocal DEF Write, TypeOK
<1>2. CASE UpdateUser(s) \/ ResetPassword(s) \/ DeactivateUser(s)
             \/ RestoreUser(s)
  <2>1. PICK op, columns : Write(s, op, columns)
    BY <1>2 DEF UpdateUser, ResetPassword, DeactivateUser, RestoreUser
  <2> QED
    BY <2>1, <1>1
<1>3. CASE Logout(s)
  <2>1. req[s].caller \in Users
    BY <1>3, LocalsOfRequest DEF Logout, LogoutRequest
  <2> QED
    BY <1>3, <2>1, IncrementedRow DEF Logout, TypeOK
<1> QED
  BY <1>2, <1>3
  DEF Serve, LoginRead, LoginSign, LoginReject, VerifyRefresh, RefreshRead,
      RefreshReject, RefreshSign, VerifyAccess, GuardReject, LogoutGuard,
      AdminGuard, Find, NotFound

\* What a request holds when it has just moved: what it has read is the row,
\* and what it carries on is what it had.
Fresh(s) ==
    /\ req[s].pc \in {"idle", "verified"}
    /\ req'[s].pc \in {"login", "refresh"}
    /\ req'[s].user \in Users
    /\ req'[s].seen = row[req'[s].user]
    /\ req'[s].since = IF req[s].pc = "idle" THEN now ELSE req[s].since
    /\ UNCHANGED <<row, access, roleSet>>

Arrived(s) ==
    /\ req'[s].pc \in {"verified", "guard"}
    /\ req'[s].since = now
    /\ req'[s].pc = "guard" => /\ req'[s].token \in access
                               /\ Unexpired(req'[s].token)
    /\ UNCHANGED <<row, access, roleSet>>

Handles(s) ==
    /\ req'[s].pc \in {"find", "write"}
    /\ req[s].pc = (IF req'[s].pc = "find" THEN "guard" ELSE "find")
    /\ req[s].pc = "guard" => Authorizes(req[s].token)
    /\ req'[s].token = req[s].token
    /\ req'[s].since = req[s].since
    /\ UNCHANGED <<row, access, roleSet>>

\* A request that moves reads, arrives, goes on with its handler, or is on its
\* way out.
LEMMA MovedRequest ==
  ASSUME TypeOK, NEW s \in Requests, Serve(s)
  PROVE  \/ req'[s].pc \in {"idle", "logout"}
         \/ Fresh(s) \/ Arrived(s) \/ Handles(s)
<1> USE DEF Begin, Continue, Answer, Idle, Busy
<1>1. ASSUME NEW op, NEW columns, Write(s, op, columns)
      PROVE  req'[s].pc = "idle"
  BY <1>1 DEF Write, TypeOK
<1>2. CASE UpdateUser(s) \/ ResetPassword(s) \/ DeactivateUser(s)
             \/ RestoreUser(s)
  <2>1. PICK op, columns : Write(s, op, columns)
    BY <1>2 DEF UpdateUser, ResetPassword, DeactivateUser, RestoreUser
  <2> QED
    BY <2>1, <1>1
<1>3. CASE LoginRead(s)
  BY <1>3 DEF LoginRead, Fresh, TypeOK
<1>4. CASE RefreshRead(s)
  <2>1. req[s] \in VerifiedRequest
    BY <1>4, LocalsOfRequest DEF RefreshRead
  <2> QED
    BY <1>4, <2>1 DEF RefreshRead, Fresh, TypeOK, VerifiedRequest, RefreshToken
<1>5. CASE LoginSign(s) \/ LoginReject(s) \/ RefreshReject(s)
             \/ RefreshSign(s) \/ GuardReject(s)
  BY <1>5 DEF LoginSign, LoginReject, RefreshReject, RefreshSign, GuardReject,
              TypeOK
<1>6. CASE Logout(s) \/ NotFound(s) \/ LogoutGuard(s)
  BY <1>6 DEF Logout, NotFound, LogoutGuard, TypeOK
<1>7. CASE VerifyRefresh(s)
  BY <1>7 DEF VerifyRefresh, Arrived, TypeOK
<1>8. CASE VerifyAccess(s)
  BY <1>8 DEF VerifyAccess, Arrived, Unexpired, TypeOK
<1>9. CASE AdminGuard(s)
  <2>1. PICK op, target :
          req' = [req EXCEPT ![s] =
                    [pc |-> "find", since |-> req[s].since,
                     token |-> req[s].token, op |-> op, target |-> target]]
    BY <1>9 DEF AdminGuard
  <2> QED
    BY <1>9, <2>1 DEF AdminGuard, Handles, TypeOK
<1>10. CASE Find(s)
  BY <1>10 DEF Find, Handles, TypeOK
<1> QED
  BY <1>2, <1>3, <1>4, <1>5, <1>6, <1>7, <1>8, <1>9, <1>10 DEF Serve

\* Every access token a step adds carries the role of a row that a login or a
\* refresh has read.
LEMMA SignedTokens ==
  ASSUME TypeOK, NEW s \in Requests, Serve(s), NEW t \in access',
         t \notin access
  PROVE  /\ req[s].pc \in {"login", "refresh"}
         /\ t.user = req[s].user
         /\ t.role = req[s].seen.role
         /\ t.iat = now
         /\ t.asked = req[s].since
         /\ UNCHANGED <<row, roleSet>>
<1>1. ASSUME NEW op, NEW columns
      PROVE  ~Write(s, op, columns)
  BY DEF Write
<1>2. ~(UpdateUser(s) \/ ResetPassword(s) \/ DeactivateUser(s)
          \/ RestoreUser(s))
  BY <1>1 DEF UpdateUser, ResetPassword, DeactivateUser, RestoreUser
<1>3. ~(\/ LoginRead(s) \/ LoginReject(s) \/ VerifyRefresh(s)
        \/ RefreshRead(s) \/ RefreshReject(s) \/ VerifyAccess(s)
        \/ GuardReject(s) \/ LogoutGuard(s) \/ Logout(s) \/ AdminGuard(s)
        \/ Find(s) \/ NotFound(s))
  BY DEF LoginRead, LoginReject, VerifyRefresh, RefreshRead, RefreshReject,
         VerifyAccess, GuardReject, LogoutGuard, Logout, AdminGuard, Find,
         NotFound
<1>4. CASE LoginSign(s)
  BY <1>4 DEF LoginSign, SignAccess
<1>5. CASE RefreshSign(s)
  BY <1>5 DEF RefreshSign, SignAccess
<1> QED
  BY <1>2, <1>3, <1>4, <1>5 DEF Serve

\* No step takes an access token back.
LEMMA AccessGrows ==
  ASSUME NEW s \in Requests, Serve(s)
  PROVE  access \subseteq access'
<1>1. ASSUME NEW op, NEW columns, Write(s, op, columns)
      PROVE  access' = access
  BY <1>1 DEF Write
<1>2. CASE UpdateUser(s) \/ ResetPassword(s) \/ DeactivateUser(s)
             \/ RestoreUser(s)
  <2>1. PICK op, columns : Write(s, op, columns)
    BY <1>2 DEF UpdateUser, ResetPassword, DeactivateUser, RestoreUser
  <2> QED
    BY <2>1, <1>1
<1>3. CASE LoginSign(s) \/ RefreshSign(s)
  BY <1>3 DEF LoginSign, RefreshSign, SignAccess
<1> QED
  BY <1>2, <1>3
  DEF Serve, LoginRead, LoginReject, VerifyRefresh, RefreshRead,
      RefreshReject, VerifyAccess, GuardReject, LogoutGuard, Logout,
      AdminGuard, Find, NotFound

\* A request in a handler knows when it came in.
LEMMA SinceOfHandler ==
  ASSUME TypeOK', NEW r \in Requests, req'[r].pc \in {"find", "write"}
  PROVE  req'[r].since \in Nat
BY DEF TypeOK, Request, Idle, LoginRequest, VerifiedRequest, RefreshRequest,
       GuardRequest, LogoutRequest, FindRequest, WriteRequest

\* A signed role may be stale, but only if it was asked for before the change;
\* and no administrative request runs for a caller who had lost the role for
\* longer than a token lives, and took to sign, when the request came in.
THEOREM RolesCorrect == Spec => []RolesAreRecent
<1>1. Init => RolesAreRecent
  BY DEF Init, RolesAreRecent, StaleRoleIsOld, SignersAreOld,
         AdminWorkIsAuthorized, Idle
<1>2. TypeOK /\ TypeOK' /\ RolesAreRecent /\ [Next]_vars => RolesAreRecent'
  <2> SUFFICES ASSUME TypeOK, TypeOK', RolesAreRecent, [Next]_vars
               PROVE  RolesAreRecent'
    OBVIOUS
  <2>1. CASE UNCHANGED vars
    BY <2>1 DEF vars, RolesAreRecent, StaleRoleIsOld, SignersAreOld,
                AdminWorkIsAuthorized, AdminWhenAsked, SigningTime
  <2>2. CASE Tick
    <3>1. \A u \in Users : roleSet[u] <= now'
      BY <2>2 DEF Tick, RolesAreRecent, TypeOK
    <3>2. \A t \in access : t.asked <= t.iat /\ t.iat <= now'
      BY <2>2 DEF Tick, RolesAreRecent, TypeOK, AccessToken
    <3>3. \A r \in Requests :
            req[r].pc \in {"login", "verified", "refresh", "guard", "find",
                          "write"}
            => req[r].since <= now'
      BY <2>2, LocalsOfRequest
      DEF Tick, RolesAreRecent, TypeOK, LoginRequest, VerifiedRequest,
          RefreshRequest, GuardRequest, FindRequest, WriteRequest
    <3> QED
      BY <2>2, <3>1, <3>2, <3>3
      DEF Tick, RolesAreRecent, StaleRoleIsOld, SignersAreOld,
          AdminWorkIsAuthorized, AdminWhenAsked, SigningTime
  <2>3. ASSUME NEW s \in Requests, Serve(s)
        PROVE  RolesAreRecent'
    <3>1. now' = now /\ \A r \in Requests : r # s => req'[r] = req[r]
      BY <2>3, OneRequestMoves
    <3>2. \A u \in Users : \/ /\ row'[u].role = row[u].role
                              /\ roleSet'[u] = roleSet[u]
                           \/ roleSet'[u] = now
      BY <2>3, RoleChangesAreRecorded
    <3>3. \A u \in Users : roleSet'[u] <= now'
      BY <3>1, <3>2 DEF RolesAreRecent, TypeOK
    <3>4. ASSUME NEW r \in Requests,
                 req'[r].pc \in {"login", "verified", "refresh", "guard",
                                "find", "write"}
          PROVE  req'[r].since <= now
      <4>1. CASE r = s
        BY <2>3, <3>4, <4>1, MovedRequest
        DEF Fresh, Arrived, Handles, RolesAreRecent, TypeOK
      <4> QED
        BY <3>1, <3>4, <4>1 DEF RolesAreRecent
    <3>5. ASSUME NEW t \in access'
          PROVE  /\ t.asked <= t.iat
                 /\ t.iat <= now'
                 /\ t.role # row'[t.user].role => t.asked <= roleSet'[t.user]
      <4>1. CASE t \in access
        BY <3>1, <3>2, <4>1
        DEF RolesAreRecent, StaleRoleIsOld, TypeOK, AccessToken
      <4>2. CASE t \notin access
        <5>1. /\ req[s].pc \in {"login", "refresh"}
              /\ t.user = req[s].user
              /\ t.role = req[s].seen.role
              /\ t.iat = now
              /\ t.asked = req[s].since
              /\ UNCHANGED <<row, roleSet>>
          BY <2>3, <4>2, SignedTokens
        <5> QED
          BY <3>1, <5>1 DEF RolesAreRecent, SignersAreOld, TypeOK
      <4> QED
        BY <4>1, <4>2
    <3>6. access \subseteq access'
      BY <2>3, AccessGrows
    <3>7. ASSUME NEW r \in Requests, req'[r].pc \in {"guard", "find", "write"}
          PROVE  /\ req'[r].token \in access
                 /\ req'[r].since < req'[r].token.iat + AccessTTL
      <4>1. CASE req'[r] = req[r]
        BY <3>7, <4>1 DEF RolesAreRecent
      <4>2. CASE r = s
        BY <2>3, <3>7, <4>2, MovedRequest
        DEF Fresh, Arrived, Handles, Unexpired, RolesAreRecent
      <4> QED
        BY <3>1, <4>1, <4>2
    <3>8. ASSUME NEW r \in Requests, req'[r].pc \in {"login", "refresh"},
                 req'[r].seen.role # row'[req'[r].user].role
          PROVE  req'[r].since <= roleSet'[req'[r].user]
      <4>1. CASE req'[r] = req[r]
        <5>1. req[r].user \in Users
          BY <3>8, <4>1, LocalsOfRequest DEF LoginRequest, RefreshRequest
        <5>2. req[r].since <= now
          BY <3>8, <4>1 DEF RolesAreRecent
        <5> QED
          BY <3>2, <3>8, <4>1, <5>1, <5>2 DEF RolesAreRecent, SignersAreOld
      <4>2. CASE r = s
        BY <2>3, <3>8, <4>2, MovedRequest DEF Fresh, Arrived, Handles
      <4> QED
        BY <3>1, <4>1, <4>2
    <3>9. ASSUME NEW r \in Requests, req'[r].pc \in {"find", "write"}
          PROVE  AdminWhenAsked(req[r].token, req[r].since)'
      <4>1. PICK t \in access, since \in Nat :
              t = req'[r].token /\ since = req'[r].since
        <5>1. req'[r].since \in Nat
          BY <3>9, SinceOfHandler
        <5> QED
          BY <3>7, <3>9, <5>1
      <4>2. /\ t.user \in Users /\ t.iat \in Nat /\ t.asked \in Nat
            /\ t.asked <= t.iat
            /\ since <= now
            /\ since < t.iat + AccessTTL
        BY <3>4, <3>7, <3>9, <4>1 DEF RolesAreRecent, TypeOK, AccessToken
      <4>3. AdminWhenAsked(t, since)
        <5>1. CASE req'[r] = req[r]
          BY <3>9, <4>1, <5>1 DEF RolesAreRecent, AdminWorkIsAuthorized
        <5>2. CASE r = s /\ req[r].pc = "find"
          BY <2>3, <3>9, <4>1, <5>2, MovedRequest
          DEF Fresh, Arrived, Handles, RolesAreRecent, AdminWorkIsAuthorized
        <5>3. CASE r = s /\ req[r].pc = "guard"
          <6>1. t.role = "admin"
            BY <2>3, <3>9, <4>1, <5>3, MovedRequest
            DEF Fresh, Arrived, Handles, Authorizes
          <6>2. t.role # row[t.user].role => t.asked <= roleSet[t.user]
            BY DEF RolesAreRecent, StaleRoleIsOld
          <6> QED
            BY <4>2, <6>1, <6>2, TTLAssumption
            DEF AdminWhenAsked, SigningTime, TypeOK
        <5> QED
          BY <2>3, <3>1, <3>9, <5>1, <5>2, <5>3, MovedRequest
          DEF Fresh, Arrived, Handles
      <4>4. AdminWhenAsked(t, since)'
        BY <3>2, <4>2, <4>3, TTLAssumption
        DEF AdminWhenAsked, SigningTime, TypeOK
      <4> QED
        BY <4>1, <4>4
    <3> QED
      BY <3>1, <3>3, <3>4, <3>5, <3>6, <3>7, <3>8, <3>9
      DEF RolesAreRecent, StaleRoleIsOld, SignersAreOld, AdminWorkIsAuthorized
  <2> QED
    BY <2>1, <2>2, <2>3 DEF Next
<1> QED
  BY <1>1, <1>2, TypeCorrect, PTL DEF Spec

\* An access token with a role its user has lost was asked for no later than
\* the role changed.
THEOREM StaleRoleIsOldAlways == Spec => []StaleRoleIsOld
<1>1. RolesAreRecent => StaleRoleIsOld
  BY DEF RolesAreRecent
<1> QED
  BY <1>1, RolesCorrect, PTL

\* The handlers of UsersController work only for administrators and for those
\* who were one less than the life of an access token, and the time it took to
\* sign it, before the request came in.
THEOREM AdminWorkIsAuthorizedAlways == Spec => []AdminWorkIsAuthorized
<1>1. RolesAreRecent => AdminWorkIsAuthorized
  BY DEF RolesAreRecent
<1> QED
  BY <1>1, RolesCorrect, PTL

-------------------------------------------------------------------------------
\* The step that answers a revoking request is that request's write.
LEMMA AnswerOfRevocation ==
  ASSUME TypeOK, [Next]_vars, NEW r \in Requests, req'[r] = Idle
  PROVE  /\ req[r].pc = "logout" => Logout(r)
         /\ req[r].pc = "write" /\ req[r].op = "resetPassword"
              => ResetPassword(r)
         /\ req[r].pc = "write" /\ req[r].op = "deactivateUser"
              => DeactivateUser(r)
<1>1. SUFFICES ASSUME req[r].pc \in {"logout", "write"}
               PROVE  \/ Logout(r)
                      \/ req[r].op = "updateUser" /\ UpdateUser(r)
                      \/ req[r].op = "resetPassword" /\ ResetPassword(r)
                      \/ req[r].op = "deactivateUser" /\ DeactivateUser(r)
                      \/ req[r].op = "restoreUser" /\ RestoreUser(r)
  BY DEF Logout, UpdateUser, ResetPassword, DeactivateUser, RestoreUser
<1>2. req'[r] # req[r]
  BY <1>1 DEF Idle
<1>3. Serve(r)
  BY <1>2, OneRequestMoves DEF Next, Tick, vars
<1>4. ASSUME NEW op, NEW columns, Write(r, op, columns)
      PROVE  req[r].op = op
  BY <1>4 DEF Write
<1>5. req[r] # Idle
  BY <1>1 DEF Idle
<1> QED
  BY <1>1, <1>3, <1>4, <1>5
  DEF Serve, LoginRead, LoginSign, LoginReject, VerifyRefresh, RefreshRead,
      RefreshReject, RefreshSign, VerifyAccess, GuardReject, LogoutGuard,
      AdminGuard, Find, NotFound, Begin, Busy,
      UpdateUser, ResetPassword, DeactivateUser, RestoreUser

\* When a logout, a reset or a deactivation is answered, no refresh token issued
\* so far to that user is accepted any more.
THEOREM RevocationIsTotalAlways == Spec => RevocationIsTotal
<1> DEFINE Revokes(r, t) ==
      \/ Answers(r, "logout") /\ t.user = req[r].caller
      \/ /\ Answers(r, "write") /\ t.user = req[r].target
         /\ req[r].op \in {"resetPassword", "deactivateUser"}
<1>1. TypeOK /\ VersionsAreCurrent /\ [Next]_vars
        => [\A r \in Requests, t \in refresh :
               Revokes(r, t) => ~Honoured(t)']_vars
  <2> SUFFICES ASSUME TypeOK, VersionsAreCurrent, [Next]_vars,
                      NEW r \in Requests, NEW t \in refresh, Revokes(r, t)
               PROVE  ~Honoured(t)'
    OBVIOUS
  <2>1. t.tokenVersion <= row[t.user].token_version
    BY DEF VersionsAreCurrent, Current
  <2>2. row'[t.user].token_version = row[t.user].token_version + 1
    <3>1. CASE Logout(r) /\ t.user = req[r].caller
      BY <3>1, LocalsOfRequest, IncrementedRow
      DEF Logout, LogoutRequest, TypeOK
    <3>2. CASE ResetPassword(r) /\ t.user = req[r].target
      <4>1. PICK password \in Passwords :
              Write(r, "resetPassword",
                    [Incremented(req[r].target) EXCEPT !.password = password])
        BY <3>2 DEF ResetPassword
      <4> QED
        BY <3>2, <4>1, WriteIsLocal, IncrementedRow DEF Row
    <3>3. CASE DeactivateUser(r) /\ t.user = req[r].target
      <4> DEFINE columns == [Incremented(req[r].target)
                               EXCEPT !.is_active = FALSE, !.deleted = TRUE]
      <4>1. Write(r, "deactivateUser", columns)
        BY <3>3 DEF DeactivateUser
      <4>2. columns.token_version = row[req[r].target].token_version + 1
        BY <4>1, WriteIsLocal, IncrementedRow DEF Row
      <4> HIDE DEF columns
      <4> QED
        BY <3>3, <4>1, <4>2, WriteIsLocal
    <3> QED
      BY <3>1, <3>2, <3>3, AnswerOfRevocation DEF Answers
  <2>3. t.tokenVersion \in Nat /\ row[t.user].token_version \in Nat
    BY DEF TypeOK, RefreshToken, Row
  <2> QED
    BY <2>1, <2>2, <2>3 DEF Honoured, Accepted
<1> QED
  BY <1>1, TypeCorrect, VersionsCorrect, PTL DEF Spec, RevocationIsTotal
===============================================================================
