--------------------------- MODULE AdminSessionProofs ---------------------------
(***************************************************************************)
(* Theorems about AdminSession for any users, administrators and calls.    *)
(***************************************************************************)
EXTENDS AdminSession, TLAPS

-------------------------------------------------------------------------------
\* Where a call is says how often the server has performed it: what is sent
\* again has been refused before.
CallCounted(k) ==
    /\ performed[k] \in {0, 1}
    /\ call[k].pc \in {"idle", "sent", "denied", "waiting"} => performed[k] = 0
    /\ call[k].pc \in {"ok", "done"} => performed[k] = 1

CallsInv == \A k \in Calls : CallCounted(k)

\* Whose the cookie can be, given the token that a refresh yielded: it died
\* without its account only if the cookie is gone too.
CookieOutlives(token) ==
    IF token.live THEN cookie \in {None, token.user} ELSE cookie = None

\* What stands between the visitor and /login: a refresh that is under way, or
\* that was answered, and a call that is sent again, each go with the cookie.
CookieInv ==
    /\ inflightRefresh.pc = "sent" => cookie \in {None, inflightRefresh.cookie}
    /\ inflightRefresh.pc = "refused" => cookie = None
    /\ inflightRefresh.pc = "answered" => CookieOutlives(inflightRefresh.token)
    /\ \A k \in Calls :
          /\ call[k].pc = "sent" /\ call[k].again => CookieOutlives(call[k].token)
          /\ call[k].pc = "denied" /\ call[k].again => cookie = None

ReasonInv == ~excused => CookieInv

\* The page stays, and the visitor has not asked to leave.
Staying == ~leaving /\ logoutRequest = Nothing

\* Whatever can become the session is that of a visitor.
VisitorsInv ==
    /\ cookie \in visitors \cup {None}
    /\ inflightRefresh.pc = "sent" =>
          inflightRefresh.cookie \in visitors \cup {None}
    /\ Staying /\ inflightRefresh.pc = "answered" =>
          inflightRefresh.token.user \in visitors
    /\ Staying /\ session # None => session.user \in visitors

-------------------------------------------------------------------------------
\* What a request holds is determined by where it is.
LEMMA LocalsOfRequests ==
  ASSUME TypeOK
  PROVE  /\ \A k \in Calls :
              /\ call[k].pc = "sent" =>
                   call[k] \in [pc : {"sent"}, token : Token, again : BOOLEAN]
              /\ call[k].pc \in {"ok", "denied"} =>
                   call[k] \in [pc : {"ok", "denied"}, again : BOOLEAN]
              /\ call[k].pc \notin {"sent", "ok", "denied"} =>
                   call[k] \in [pc : {"idle", "waiting", "done", "failed"}]
         /\ inflightRefresh.pc = "sent" =>
              inflightRefresh \in [pc : {"sent"}, cookie : Users \cup {None}]
         /\ inflightRefresh.pc = "answered" =>
              inflightRefresh \in [pc : {"answered"}, token : Token]
         /\ loginRequest.pc = "sent" =>
              loginRequest \in [pc : {"sent"}, user : Users]
         /\ loginRequest.pc = "granted" =>
              loginRequest \in [pc : {"granted"}, token : Token,
                                honoured : BOOLEAN]
         /\ logoutRequest.pc = "sent" =>
              logoutRequest \in [pc : {"sent"}, token : Token]
BY DEF TypeOK, Call, RefreshRequest, LoginRequest, LogoutRequest

\* What the guards leave: behind /login there is an administrator's session.
LEMMA RenderShows ==
  ASSUME NEW stored \in Token \cup {None}, NEW login \in BOOLEAN,
         Render(stored, login)
  PROVE  /\ session' \in {stored, None}
         /\ session' \in Token \cup {None}
         /\ atLogin' \in BOOLEAN
         /\ ~atLogin' => session' # None /\ session'.user \in Admins
BY DEF Render

\* A token that dies stays one of the same user, and never turns into none.
LEMMA DeadToken ==
  ASSUME NEW token \in Token, NEW live \in BOOLEAN
  PROVE  /\ [token EXCEPT !.live = live] \in Token
         /\ [token EXCEPT !.live = live] # None
         /\ [token EXCEPT !.live = live].user = token.user
         /\ [token EXCEPT !.live = live].live = live
BY NoneAssumption DEF Token

\* What the end of a user's refresh tokens does.
LEMMA RevokedTypes ==
  ASSUME TypeOK, NEW u \in Users, Revoked(u)
  PROVE  /\ cookie' \in Users \cup {None}
         /\ inflightRefresh' \in RefreshRequest
         /\ loginRequest' \in LoginRequest
BY LocalsOfRequests DEF Revoked, TypeOK, RefreshRequest, LoginRequest

\* The type invariant needs to know how often each call has been performed.
LEMMA TypeStep ==
  ASSUME TypeOK, CallsInv, [Next]_vars
  PROVE  TypeOK'
<1> USE DEF TypeOK, page, requests, history, Moves, Nothing
<1>1. CASE UNCHANGED vars
  BY <1>1 DEF vars
<1>2. ASSUME NEW k \in Calls, Start(k) \/ Settle(k) \/ Lose(k)
      PROVE  TypeOK'
  <2>1. CASE Start(k)
    BY <2>1 DEF Start, Call
  <2>2. CASE Serve(k)
    BY <2>2, LocalsOfRequests DEF Serve, Call, CallsInv, CallCounted
  <2>3. CASE Finish(k)
    BY <2>3 DEF Finish, Call
  <2>4. CASE Denied(k)
    BY <2>4 DEF Denied, Call, RefreshRequest
  <2>5. CASE DeniedAgain(k)
    BY <2>5, RenderShows, SMTT(30) DEF DeniedAgain, Call
  <2>6. CASE Lose(k)
    BY <2>6 DEF Lose, Call
  <2> QED
    BY <1>2, <2>1, <2>2, <2>3, <2>4, <2>5, <2>6 DEF Settle
<1>3. CASE SettleRefresh \/ RefreshLost
  <2>1. CASE RefreshServe
    BY <2>1, LocalsOfRequests DEF RefreshServe, RefreshRequest, Token
  <2>2. CASE Refreshed
    BY <2>2, RenderShows, LocalsOfRequests
    DEF Refreshed, Resume, Call, RefreshRequest
  <2>3. CASE RefreshRefused \/ RefreshLost
    <3>1. NotRefreshed /\ excused' \in BOOLEAN
      BY <2>3 DEF RefreshRefused, RefreshLost
    <3>2. call' \in [Calls -> Call]
      BY <3>1 DEF NotRefreshed, Resume, Call
    <3>3. /\ session' \in Token \cup {None}
          /\ atLogin' \in BOOLEAN
          /\ leaving' \in BOOLEAN
          /\ ~atLogin' => session' # None /\ session'.user \in Admins
      BY <3>1, RenderShows DEF NotRefreshed
    <3> QED
      BY <3>1, <3>2, <3>3 DEF NotRefreshed, RefreshRequest
  <2> QED
    BY <1>3, <2>1, <2>2, <2>3 DEF SettleRefresh
<1>4. CASE Login \/ LoginServe \/ LoggedIn \/ NotLoggedIn \/ HalfLoggedIn
  <2>1. CASE Login
    BY <2>1 DEF Login, LoginRequest
  <2>2. CASE LoginServe
    BY <2>2, LocalsOfRequests DEF LoginServe, LoginRequest, Token
  <2>3. CASE LoggedIn
    <3>1. /\ loginRequest.token \in Token
          /\ loginRequest.token.user \in Users
          /\ cookie' \in Users \cup {None}
      BY <2>3, LocalsOfRequests DEF LoggedIn, CookieStored, Token
    <3> QED
      BY <2>3, <3>1, RenderShows DEF LoggedIn, LoginRequest, Leftover
  <2>4. CASE NotLoggedIn
    BY <2>4 DEF NotLoggedIn, LoginRequest
  <2>5. CASE HalfLoggedIn
    <3>1. loginRequest.token.user \in Users /\ cookie' \in Users \cup {None}
      BY <2>5, LocalsOfRequests DEF HalfLoggedIn, CookieStored, Token
    <3> QED
      BY <2>5, <3>1 DEF HalfLoggedIn, LoginRequest, Leftover
  <2> QED
    BY <1>4, <2>1, <2>2, <2>3, <2>4, <2>5
<1>5. CASE Logout \/ SettleLogout \/ LogoutLost \/ SidebarLogout
  <2>1. CASE Logout
    BY <2>1 DEF Logout, LogoutRequest
  <2>2. CASE LogoutServe
    <3>1. logoutRequest.token.user \in Users
      BY <2>2, LocalsOfRequests DEF LogoutServe, Token
    <3> QED
      BY <2>2, <3>1, RevokedTypes DEF LogoutServe, LogoutRequest
  <2>3. CASE LogoutAnswered \/ LogoutLost
    <3>1. LoggedOut /\ cookie' \in Users \cup {None}
      BY <2>3 DEF LogoutAnswered, LogoutLost
    <3>2. session' \in Token \cup {None} /\ atLogin' \in BOOLEAN
      BY <3>1, RenderShows DEF LoggedOut
    <3> QED
      BY <3>1, <3>2 DEF LoggedOut, LogoutRequest
  <2>4. CASE SidebarLogout
    BY <2>4, RenderShows DEF SidebarLogout
  <2> QED
    BY <1>5, <2>1, <2>2, <2>3, <2>4 DEF SettleLogout
<1>6. CASE Reload
  BY <1>6 DEF Reload, RefreshRequest, LoginRequest, LogoutRequest, Call
<1>7. CASE OtherTab
  BY <1>7 DEF OtherTab, Leftover
<1>8. CASE Expire
  <2>1. \A token \in Token :
          [token EXCEPT !.live = token.live /\ token # session] \in Token
    BY DEF Token
  <2>2. session' \in Token /\ session' # None /\ session'.user = session.user
    BY <1>8, DeadToken DEF Expire
  <2>3. call' \in [Calls -> Call] /\ logoutRequest' \in LogoutRequest
    BY <1>8, <2>1, LocalsOfRequests DEF Expire, Call, LogoutRequest
  <2> QED
    BY <1>8, <2>2, <2>3 DEF Expire
<1>9. CASE CookieExpires
  BY <1>9 DEF CookieExpires
<1>10. ASSUME NEW u \in Users, Revoke(u) \/ Deactivate(u)
       PROVE  TypeOK'
  <2>1. CASE Revoke(u)
    BY <2>1, RevokedTypes DEF Revoke
  <2>2. CASE Deactivate(u)
    <3>1. \A token \in Token :
            /\ [token EXCEPT !.live = token.live /\ token.user # u] \in Token
            /\ [token EXCEPT !.live = token.live /\ token.user # u] # None
            /\ [token EXCEPT !.live = token.live /\ token.user # u].user
                 = token.user
      BY DeadToken DEF Token
    <3>2. /\ session' \in Token \cup {None}
          /\ session # None => session' # None /\ session'.user = session.user
      BY <2>2, <3>1 DEF Deactivate
    <3>3. /\ inflightRefresh' \in RefreshRequest
          /\ logoutRequest' \in LogoutRequest
          /\ call' \in [Calls -> Call]
      BY <2>2, <3>1, LocalsOfRequests
      DEF Deactivate, RefreshRequest, LogoutRequest, Call
    <3>4. loginRequest' \in LoginRequest
      BY <2>2, <3>1, LocalsOfRequests DEF Deactivate, LoginRequest
    <3> QED
      BY <2>2, <3>2, <3>3, <3>4 DEF Deactivate
  <2> QED
    BY <1>10, <2>1, <2>2
<1> QED
  BY <1>1, <1>2, <1>3, <1>4, <1>5, <1>6, <1>7, <1>8, <1>9, <1>10 DEF Next

-------------------------------------------------------------------------------
\* The ways in which a step can move one call: the caller notices nothing, or
\* the call starts, is performed, is told so, or fails.
Unserved == {"sent", "denied", "waiting"}

Unnoticed(k) ==
    /\ \/ call'[k].pc = call[k].pc
       \/ call[k].pc \in Unserved /\ call'[k].pc \in Unserved
    /\ performed'[k] = performed[k]

Started(k) ==
    /\ call[k].pc = "idle" /\ call'[k].pc = "sent"
    /\ performed'[k] = performed[k]

Served(k) ==
    /\ call[k].pc = "sent" /\ call'[k].pc = "ok"
    /\ performed'[k] = performed[k] + 1

Finished(k) ==
    /\ call[k].pc = "ok" /\ call'[k].pc = "done"
    /\ performed'[k] = performed[k]

Failed(k) ==
    /\ InFlight(k) /\ call'[k].pc = "failed"
    /\ performed'[k] = performed[k]

\* One call starts, is performed or is told so; or any number of them fail, and
\* nobody notices what becomes of the rest.
CallsMove ==
    \/ \E k \in Calls :
          /\ Started(k) \/ Served(k) \/ Finished(k)
          /\ \A j \in Calls \ {k} : Unnoticed(j)
    \/ \A k \in Calls : Unnoticed(k) \/ Failed(k)

\* Every step moves one call, or fails some of them.
LEMMA CallsMoveSo ==
  ASSUME TypeOK, [Next]_vars
  PROVE  CallsMove
<1> USE DEF Unnoticed, Failed, Unserved, InFlight
<1>1. call \in [Calls -> Call] /\ performed \in [Calls -> {0, 1, 2}]
  BY DEF TypeOK
<1>2. CASE UNCHANGED <<call, performed>>
  BY <1>2 DEF CallsMove
<1>3. ASSUME NEW k \in Calls, Start(k) \/ Settle(k) \/ Lose(k)
      PROVE  CallsMove
  <2>1. CASE Start(k)
    <3>1. Started(k) /\ \A j \in Calls \ {k} : Unnoticed(j)
      BY <1>1, <2>1 DEF Start, Moves, Started
    <3> QED
      BY <3>1 DEF CallsMove
  <2>2. CASE Serve(k) /\ call[k].token.live
    <3>1. Served(k) /\ \A j \in Calls \ {k} : Unnoticed(j)
      BY <1>1, <2>2 DEF Serve, Moves, Served
    <3> QED
      BY <3>1 DEF CallsMove
  <2>3. CASE Finish(k)
    <3>1. Finished(k) /\ \A j \in Calls \ {k} : Unnoticed(j)
      BY <1>1, <2>3 DEF Finish, Moves, Finished
    <3> QED
      BY <3>1 DEF CallsMove
  <2>4. CASE Serve(k) /\ ~call[k].token.live
    BY <1>1, <2>4 DEF Serve, Moves, CallsMove
  <2>5. CASE Denied(k) \/ DeniedAgain(k) \/ Lose(k)
    BY <1>1, <2>5 DEF Denied, DeniedAgain, Lose, Moves, CallsMove
  <2> QED
    BY <1>3, <2>1, <2>2, <2>3, <2>4, <2>5 DEF Settle
<1>4. CASE Refreshed
  BY <1>1, <1>4 DEF Refreshed, Resume, Waiting, CallsMove
<1>5. CASE NotRefreshed
  BY <1>1, <1>5 DEF NotRefreshed, Resume, Waiting, CallsMove
<1>6. CASE Reload
  BY <1>1, <1>6 DEF Reload, CallsMove
<1>7. CASE Expire
  <2>1. \A k \in Calls : call'[k].pc = call[k].pc
    BY <1>1, <1>7, LocalsOfRequests DEF Expire
  <2> QED
    BY <1>7, <2>1 DEF Expire, CallsMove
<1>8. ASSUME NEW u \in Users, Deactivate(u)
      PROVE  CallsMove
  <2>1. \A k \in Calls : call'[k].pc = call[k].pc
    BY <1>1, <1>8, LocalsOfRequests DEF Deactivate
  <2> QED
    BY <1>8, <2>1 DEF Deactivate, CallsMove
<1>9. CASE Login \/ LoginServe \/ LoggedIn \/ NotLoggedIn \/ HalfLoggedIn
             \/ Logout \/ LogoutServe \/ LogoutAnswered \/ LogoutLost
             \/ SidebarLogout \/ OtherTab \/ CookieExpires \/ RefreshServe
             \/ \E u \in Users : Revoke(u)
  <2>1. UNCHANGED <<call, performed>>
    BY <1>9 DEF Login, LoginServe, LoggedIn, NotLoggedIn, HalfLoggedIn, Logout,
       LogoutServe, LogoutAnswered, LogoutLost, LoggedOut, SidebarLogout,
       OtherTab, CookieExpires, RefreshServe, Revoke
  <2> QED
    BY <1>2, <2>1
<1> QED
  BY <1>2, <1>3, <1>4, <1>5, <1>6, <1>7, <1>8, <1>9
  DEF Next, vars, SettleRefresh, SettleLogout, RefreshRefused, RefreshLost

\* However a call moves, its count goes with it.
LEMMA CallsStep ==
  ASSUME TypeOK, CallsInv, [Next]_vars
  PROVE  CallsInv'
<1>1. CallsMove
  BY CallsMoveSo
<1>2. ASSUME NEW k \in Calls,
             \/ Started(k) \/ Served(k) \/ Finished(k) \/ Unnoticed(k) \/ Failed(k)
      PROVE  CallCounted(k)'
  BY <1>2 DEF CallsInv, CallCounted, Started, Served, Finished, Unnoticed, Failed,
     Unserved, InFlight
<1> QED
  BY <1>1, <1>2 DEF CallsMove, CallsInv

\* A tab that is opened has sent nothing but its refresh.
LEMMA RequestsInit ==
  ASSUME Init
  PROVE  TypeOK /\ CallsInv
BY DEF Init, TypeOK, CallsInv, CallCounted, Nothing, Call, RefreshRequest,
       LoginRequest, LogoutRequest

\* Type correctness and the count of each call are one invariant: the first
\* bounds how often a call is performed by where the second says it is.
THEOREM RequestsCorrect == Spec => [](TypeOK /\ CallsInv)
BY RequestsInit, TypeStep, CallsStep, PTL DEF Spec

\* Every step keeps the page, the requests and the world within their types; and
\* a page behind RequireAdmin is shown with an administrator's session or not at
\* all, whatever refresh, expiry, deactivation or lost answer comes in between.
THEOREM TypeCorrect == Spec => []TypeOK
BY RequestsCorrect, PTL

-------------------------------------------------------------------------------
\* The safety part of CallPromise: how the callers' calls may move.
PromiseSafety == Promise!Init /\ [][Promise!Next]_(Promise!promised)

\* apiFetch, with one refresh shared by all calls and a second sending of each,
\* implements the safety part of the promise to its callers: a call that is told
\* it is done has been performed, and none is performed twice.
THEOREM CallsKeepPromise == Spec => PromiseSafety
<1> DEFINE outcome == [k \in Calls |->
                          IF InFlight(k) THEN "pending" ELSE call[k].pc]
<1>1. Init => Promise!Init
  BY DEF Init, Promise!Init, InFlight
<1>2. TypeOK /\ TypeOK' /\ CallsInv /\ [Next]_vars
        => [Promise!Next]_(Promise!promised)
  <2> SUFFICES ASSUME TypeOK, TypeOK', CallsInv, [Next]_vars
               PROVE  [Promise!Next]_(Promise!promised)
    OBVIOUS
  <2>1. /\ performed \in [Calls -> {0, 1, 2}]
        /\ performed' \in [Calls -> {0, 1, 2}]
    BY DEF TypeOK
  <2>2. \A k \in Calls : Unnoticed(k) =>
          outcome'[k] = outcome[k] /\ performed'[k] = performed[k]
    BY DEF Unnoticed, Unserved, InFlight
  <2>3. ASSUME NEW k \in Calls, \A j \in Calls \ {k} : Unnoticed(j)
        PROVE  outcome' = [outcome EXCEPT ![k] = outcome'[k]]
    <3>1. /\ outcome = [j \in Calls |-> outcome[j]]
          /\ outcome' = [j \in Calls |-> outcome'[j]]
      OBVIOUS
    <3> HIDE DEF outcome
    <3> QED
      BY <2>2, <2>3, <3>1
  <2>4. ASSUME NEW k \in Calls, \A j \in Calls \ {k} : Unnoticed(j),
               Started(k) \/ Served(k) \/ Finished(k)
        PROVE  Promise!Next
    <3>1. CASE Started(k)
      <4>1. /\ outcome[k] = "idle" /\ outcome'[k] = "pending"
            /\ performed'[k] = performed[k]
        BY <3>1 DEF Started, InFlight
      <4>2. /\ outcome' = [outcome EXCEPT ![k] = "pending"]
            /\ performed' = performed
        BY <2>1, <2>2, <2>4, <2>3, <4>1
      <4> QED
        BY <4>1, <4>2 DEF Promise!Next, Promise!Start, Promise!Becomes
    <3>2. CASE Served(k)
      <4>1. /\ outcome[k] = "pending" /\ outcome'[k] = "pending"
            /\ performed[k] = 0 /\ performed'[k] = 1
        BY <3>2 DEF Served, InFlight, CallsInv, CallCounted
      <4>2. /\ outcome' = outcome
            /\ performed' = [performed EXCEPT ![k] = 1]
        BY <2>1, <2>2, <2>4, <2>3, <4>1
      <4> QED
        BY <4>1, <4>2 DEF Promise!Next, Promise!Perform
    <3>3. CASE Finished(k)
      <4>1. /\ outcome[k] = "pending" /\ outcome'[k] = "done"
            /\ performed[k] = 1 /\ performed'[k] = performed[k]
        BY <3>3 DEF Finished, InFlight, CallsInv, CallCounted
      <4>2. /\ outcome' = [outcome EXCEPT ![k] = "done"]
            /\ performed' = performed
        BY <2>1, <2>2, <2>4, <2>3, <4>1
      <4> QED
        BY <4>1, <4>2 DEF Promise!Next, Promise!Succeed, Promise!Becomes
    <3> QED
      BY <2>4, <3>1, <3>2, <3>3
  <2>5. ASSUME \A k \in Calls : Unnoticed(k) \/ Failed(k)
        PROVE  [Promise!Next]_(Promise!promised)
    <3> DEFINE ks == {k \in Calls : ~Unnoticed(k)}
    <3>1. performed' = performed
      BY <2>1, <2>5 DEF Unnoticed, Failed
    <3>2. /\ \A k \in ks : outcome[k] = "pending"
          /\ outcome' = [k \in Calls |-> IF k \in ks THEN "failed" ELSE outcome[k]]
      BY <2>2, <2>5 DEF Failed, InFlight
    <3>3. CASE ks = {}
      <4>1. outcome' = outcome
        BY <3>2, <3>3
      <4> QED
        BY <3>1, <4>1 DEF Promise!promised
    <3>4. CASE ks # {}
      BY <3>1, <3>2, <3>4 DEF Promise!Next, Promise!Fail
    <3> QED
      BY <3>3, <3>4
  <2> QED
    BY <2>4, <2>5, CallsMoveSo DEF CallsMove
<1> QED
  BY <1>1, <1>2, RequestsCorrect, PTL DEF Spec, PromiseSafety

-------------------------------------------------------------------------------
\* The end of a user's refresh tokens takes the cookie wherever it is.
LEMMA RevokedKeepsCookieInv ==
  ASSUME TypeOK, CookieInv, NEW u, Revoked(u), call' = call
  PROVE  CookieInv'
<1>1. /\ cookie' = IF cookie = u THEN None ELSE cookie
      /\ inflightRefresh'.pc = inflightRefresh.pc
      /\ inflightRefresh.pc = "sent" =>
           inflightRefresh'.cookie =
              IF inflightRefresh.cookie = u THEN None ELSE inflightRefresh.cookie
      /\ inflightRefresh.pc # "sent" => inflightRefresh' = inflightRefresh
  BY LocalsOfRequests DEF Revoked
<1> QED
  BY <1>1 DEF CookieInv, CookieOutlives

\* A deactivation takes the access tokens along with the cookie.
LEMMA DeactivateKeepsCookieInv ==
  ASSUME TypeOK, CookieInv, NEW u \in Users, Deactivate(u)
  PROVE  CookieInv'
<1>1. /\ cookie' = IF cookie = u THEN None ELSE cookie
      /\ inflightRefresh'.pc = inflightRefresh.pc
      /\ inflightRefresh.pc = "sent" =>
           inflightRefresh'.cookie =
              IF inflightRefresh.cookie = u THEN None ELSE inflightRefresh.cookie
      /\ inflightRefresh.pc = "answered" =>
           /\ inflightRefresh'.token.user = inflightRefresh.token.user
           /\ inflightRefresh'.token.live <=>
                inflightRefresh.token.live /\ inflightRefresh.token.user # u
  <2>1. \A token \in Token :
          /\ [token EXCEPT !.live = token.live /\ token.user # u].user = token.user
          /\ [token EXCEPT !.live = token.live /\ token.user # u].live
               = (token.live /\ token.user # u)
    BY DeadToken DEF Token
  <2> QED
    BY <2>1, LocalsOfRequests DEF Deactivate
<1>2. ASSUME NEW k \in Calls
      PROVE  /\ call'[k].pc = call[k].pc
             /\ call[k].pc \in {"sent", "denied"} => call'[k].again = call[k].again
             /\ call[k].pc = "sent" =>
                  /\ call'[k].token.user = call[k].token.user
                  /\ call'[k].token.live <=>
                       call[k].token.live /\ call[k].token.user # u
  <2>1. \A token \in Token :
          /\ [token EXCEPT !.live = token.live /\ token.user # u].user = token.user
          /\ [token EXCEPT !.live = token.live /\ token.user # u].live
               = (token.live /\ token.user # u)
    BY DeadToken DEF Token
  <2> DEFINE Dead(token) == [token EXCEPT !.live = token.live /\ token.user # u]
  <2>2. call'[k] = IF call[k].pc = "sent"
                   THEN [call[k] EXCEPT !.token = Dead(call[k].token)] ELSE call[k]
    BY DEF Deactivate
  <2>3. call[k].pc = "sent" =>
          call[k] \in [pc : {"sent"}, token : Token, again : BOOLEAN]
    BY LocalsOfRequests
  <2>4. CASE call[k].pc = "sent"
    <3> HIDE DEF Dead
    <3>1. /\ call'[k].pc = call[k].pc /\ call'[k].again = call[k].again
          /\ call'[k].token = Dead(call[k].token)
      BY <2>2, <2>3, <2>4
    <3> QED
      BY <2>1, <2>3, <2>4, <3>1 DEF Dead
  <2>5. CASE call[k].pc # "sent"
    BY <2>2, <2>5
  <2> QED
    BY <2>4, <2>5
<1> QED
  BY <1>1, <1>2 DEF CookieInv, CookieOutlives

\* Without an excuse, what is under way goes with the cookie.
LEMMA ReasonStep ==
  ASSUME TypeOK, ReasonInv, [Next]_vars
  PROVE  ReasonInv'
<1> SUFFICES ASSUME ~excused'
             PROVE  CookieInv'
  BY DEF ReasonInv
<1> USE DEF ReasonInv, CookieInv, CookieOutlives, Nothing, page, requests, history
<1>1. call \in [Calls -> Call]
  BY DEF TypeOK
<1>2. CASE UNCHANGED <<cookie, inflightRefresh, call, excused>>
  BY <1>2
<1>3. ASSUME NEW k \in Calls, Start(k) \/ Settle(k) \/ Lose(k)
      PROVE  CookieInv'
  <2>1. CASE Start(k)
    BY <1>1, <2>1 DEF Start, Moves
  <2>2. CASE Serve(k)
    BY <1>1, <2>2 DEF Serve, Moves
  <2>3. CASE Finish(k) \/ DeniedAgain(k) \/ Lose(k)
    BY <1>1, <2>3 DEF Finish, DeniedAgain, Lose, Moves
  <2>4. CASE Denied(k)
    BY <1>1, <2>4 DEF Denied, Moves
  <2> QED
    BY <1>3, <2>1, <2>2, <2>3, <2>4 DEF Settle
<1>4. CASE SettleRefresh \/ RefreshLost
  <2>1. CASE RefreshServe
    BY <2>1, LocalsOfRequests DEF RefreshServe
  <2>2. CASE Refreshed
    BY <1>1, <2>2 DEF Refreshed, Resume, Waiting
  <2>3. CASE RefreshRefused
    BY <1>1, <2>3 DEF RefreshRefused, NotRefreshed, Resume, Waiting
  <2>4. CASE RefreshLost
    BY <2>4 DEF RefreshLost
  <2> QED
    BY <1>4, <2>1, <2>2, <2>3, <2>4 DEF SettleRefresh
<1>5. CASE LoggedIn \/ HalfLoggedIn \/ OtherTab
  <2>1. CASE Leftover
    BY <1>5, <2>1 DEF LoggedIn, HalfLoggedIn, OtherTab
  <2>2. CASE ~Leftover
    <3>1. /\ inflightRefresh.pc = "none"
          /\ \A k \in Calls : call[k].pc \notin {"sent", "denied"}
      BY <2>2 DEF Leftover, InFlight
    <3>2. UNCHANGED <<inflightRefresh, call>>
      BY <1>5 DEF LoggedIn, HalfLoggedIn, OtherTab
    <3> QED
      BY <3>1, <3>2
  <2> QED
    BY <2>1, <2>2
<1>6. CASE Login \/ LoginServe \/ NotLoggedIn \/ Logout
  <2>1. UNCHANGED <<cookie, inflightRefresh, call, excused>>
    BY <1>6 DEF Login, LoginServe, NotLoggedIn, Logout
  <2> QED
    BY <1>2, <2>1
<1>7. CASE LogoutServe
  <2>1. \/ UNCHANGED <<cookie, inflightRefresh, call, excused>>
        \/ \E u : Revoked(u) /\ UNCHANGED <<call, excused>>
    BY <1>7 DEF LogoutServe
  <2> QED
    BY <1>2, <2>1, RevokedKeepsCookieInv
<1>8. CASE LogoutAnswered \/ LogoutLost \/ SidebarLogout
  BY <1>8 DEF LogoutAnswered, LogoutLost, LoggedOut, SidebarLogout
<1>9. CASE Reload
  BY <1>1, <1>9 DEF Reload, InFlight
<1>10. CASE Expire
  <2>1. \A k \in Calls :
          /\ call'[k].pc = call[k].pc
          /\ call[k].pc \in {"sent", "denied"} => call'[k].again = call[k].again
          /\ call[k].pc = "sent" => ~call[k].again
    BY <1>1, <1>10, LocalsOfRequests DEF Expire
  <2> QED
    BY <1>10, <2>1 DEF Expire
<1>11. CASE CookieExpires
  BY <1>11 DEF CookieExpires
<1>12. ASSUME NEW u \in Users, Revoke(u) \/ Deactivate(u)
       PROVE  CookieInv'
  BY <1>12, RevokedKeepsCookieInv, DeactivateKeepsCookieInv DEF Revoke, Deactivate
<1> QED
  BY <1>2, <1>3, <1>4, <1>5, <1>6, <1>7, <1>8, <1>9, <1>10, <1>11, <1>12
  DEF Next, SettleLogout, vars

\* The page is left for /login only when the cookie is gone, unless there is an
\* excuse: the expiry of access tokens alone never comes to that, however many
\* calls meet it at once and however their answers are ordered.
THEOREM SignedOutForAReasonAlways == Spec => SignedOutForAReason
<1>1. Init => ReasonInv
  BY DEF Init, ReasonInv, CookieInv
<1>2. TypeOK /\ ReasonInv /\ [Next]_vars
        => [~leaving /\ leaving' => cookie' = None \/ excused']_vars
  <2> SUFFICES ASSUME TypeOK, ReasonInv, Next, ~leaving, leaving', ~excused'
               PROVE  cookie' = None
    BY DEF vars
  <2> USE DEF page, requests, history, ReasonInv, CookieInv
  <2>1. ASSUME NEW k \in Calls, Start(k) \/ Settle(k) \/ Lose(k)
        PROVE  cookie' = None
    BY <2>1 DEF Start, Settle, Serve, Finish, Denied, DeniedAgain, Lose
  <2>2. CASE SettleRefresh \/ RefreshLost
    BY <2>2
    DEF SettleRefresh, RefreshServe, Refreshed, RefreshRefused, RefreshLost,
        NotRefreshed
  <2>3. CASE Login \/ LoginServe \/ LoggedIn \/ NotLoggedIn \/ HalfLoggedIn
               \/ Logout \/ SettleLogout \/ LogoutLost \/ SidebarLogout
    BY <2>3
    DEF Login, LoginServe, LoggedIn, NotLoggedIn, HalfLoggedIn, Logout,
        SettleLogout, LogoutServe, LogoutAnswered, LogoutLost, LoggedOut,
        SidebarLogout
  <2>4. CASE Reload \/ OtherTab \/ Expire \/ CookieExpires
               \/ \E u \in Users : Revoke(u) \/ Deactivate(u)
    BY <2>4 DEF Reload, OtherTab, Expire, CookieExpires, Revoke, Deactivate
  <2> QED
    BY <2>1, <2>2, <2>3, <2>4 DEF Next
<1> QED
  BY <1>1, <1>2, ReasonStep, RequestsCorrect, PTL DEF Spec, SignedOutForAReason

-------------------------------------------------------------------------------
\* While the page stays, and nobody signs in or out of the browser, it is
\* enough that nothing changes whose anything is.
LEMMA SameUsersKeepVisitorsInv ==
  ASSUME VisitorsInv, visitors' = visitors, Staying' => Staying,
         cookie' \in {cookie, None},
         inflightRefresh'.pc = "sent" =>
            \/ inflightRefresh.pc = "sent"
                 /\ inflightRefresh'.cookie \in {inflightRefresh.cookie, None}
            \/ inflightRefresh'.cookie = cookie,
         Staying' /\ inflightRefresh'.pc = "answered" =>
            /\ inflightRefresh.pc = "answered"
            /\ inflightRefresh'.token.user = inflightRefresh.token.user,
         Staying' /\ session' # None =>
            session # None /\ session'.user = session.user
  PROVE  VisitorsInv'
BY DEF VisitorsInv

\* Whatever can become the session stays that of a visitor.
LEMMA VisitorsStep ==
  ASSUME TypeOK, VisitorsInv, [Next]_vars
  PROVE  VisitorsInv'
<1> USE DEF Staying, Nothing, page, requests, history
<1>1. CASE UNCHANGED <<page, cookie, inflightRefresh, logoutRequest, visitors>>
  BY <1>1, SameUsersKeepVisitorsInv
<1>2. ASSUME NEW k \in Calls, Start(k) \/ Settle(k) \/ Lose(k)
      PROVE  VisitorsInv'
  <2>1. CASE Denied(k)
    BY <2>1, SameUsersKeepVisitorsInv DEF Denied
  <2>2. CASE DeniedAgain(k)
    BY <2>2, SameUsersKeepVisitorsInv DEF DeniedAgain
  <2>3. CASE Start(k) \/ Serve(k) \/ Finish(k) \/ Lose(k)
    BY <1>1, <2>3 DEF Start, Serve, Finish, Lose
  <2> QED
    BY <1>2, <2>1, <2>2, <2>3 DEF Settle
<1>3. CASE SettleRefresh \/ RefreshLost
  <2>1. CASE RefreshServe
    BY <2>1 DEF RefreshServe, VisitorsInv
  <2>2. CASE Refreshed
    <3>1. session' \in {inflightRefresh.token, None}
      BY <2>2 DEF Refreshed, Render
    <3> QED
      BY <2>2, <3>1 DEF Refreshed, VisitorsInv
  <2>3. CASE NotRefreshed
    <3>1. Staying' => Staying /\ session' \in {session, None}
      BY <2>3 DEF NotRefreshed, Render
    <3> QED
      BY <2>3, <3>1, SameUsersKeepVisitorsInv DEF NotRefreshed
  <2> QED
    BY <1>3, <2>1, <2>2, <2>3 DEF SettleRefresh, RefreshRefused, RefreshLost
<1>4. CASE LoggedIn
  <2>1. session' \in {loginRequest.token, None}
    BY <1>4 DEF LoggedIn, Render
  <2>2. loginRequest.token.user \in visitors'
        /\ cookie' \in {loginRequest.token.user, None}
    BY <1>4 DEF LoggedIn, CookieStored
  <2>3. inflightRefresh' = inflightRefresh
        /\ (inflightRefresh.pc # "none" => visitors \subseteq visitors')
    BY <1>4 DEF LoggedIn
  <2>4. UNCHANGED <<leaving, logoutRequest>>
    BY <1>4 DEF LoggedIn
  <2> QED
    BY <2>1, <2>2, <2>3, <2>4 DEF VisitorsInv
<1>5. CASE HalfLoggedIn \/ OtherTab
  <2>1. visitors \subseteq visitors' /\ cookie' \in visitors' \cup {None}
    BY <1>5 DEF HalfLoggedIn, OtherTab, CookieStored
  <2>2. UNCHANGED <<page, inflightRefresh, logoutRequest>>
    BY <1>5 DEF HalfLoggedIn, OtherTab
  <2> QED
    BY <2>1, <2>2 DEF VisitorsInv
<1>6. CASE Login \/ LoginServe \/ NotLoggedIn
  BY <1>1, <1>6 DEF Login, LoginServe, NotLoggedIn
<1>7. CASE Logout
  BY <1>7, SameUsersKeepVisitorsInv DEF Logout
<1>8. CASE LogoutServe
  <2>1. ~Staying'
    BY <1>8 DEF LogoutServe
  <2>2. CASE UNCHANGED <<cookie, inflightRefresh, visitors>>
    BY <2>1, <2>2 DEF VisitorsInv
  <2>3. ASSUME NEW u, Revoked(u), visitors' = visitors \ {u}
        PROVE  VisitorsInv'
    <3>1. /\ cookie' = IF cookie = u THEN None ELSE cookie
          /\ inflightRefresh'.pc = inflightRefresh.pc
          /\ inflightRefresh.pc = "sent" =>
               inflightRefresh'.cookie =
                  IF inflightRefresh.cookie = u THEN None
                  ELSE inflightRefresh.cookie
      BY <2>3, LocalsOfRequests DEF Revoked
    <3> QED
      BY <2>1, <2>3, <3>1 DEF VisitorsInv
  <2> QED
    BY <1>8, <2>2, <2>3 DEF LogoutServe
<1>9. CASE LogoutAnswered \/ LogoutLost \/ SidebarLogout
  BY <1>9, SameUsersKeepVisitorsInv
  DEF LogoutAnswered, LogoutLost, LoggedOut, SidebarLogout
<1>10. CASE Reload
  BY <1>10 DEF Reload, VisitorsInv
<1>11. CASE Expire
  <2>1. session # None /\ session'.user = session.user
    BY <1>11, DeadToken DEF Expire, TypeOK, Token
  <2>2. logoutRequest'.pc = logoutRequest.pc
    BY <1>11, LocalsOfRequests DEF Expire
  <2>3. logoutRequest' = [pc |-> "none"] => logoutRequest = [pc |-> "none"]
    BY <1>11, <2>2, LocalsOfRequests DEF Expire
  <2> QED
    BY <1>11, <2>1, <2>3, SameUsersKeepVisitorsInv DEF Expire
<1>12. CASE CookieExpires
  BY <1>12, SameUsersKeepVisitorsInv DEF CookieExpires
<1>13. ASSUME NEW u \in Users, Revoke(u) \/ Deactivate(u)
       PROVE  VisitorsInv'
  <2>1. CASE Revoke(u)
    <3>1. /\ cookie' \in {cookie, None}
          /\ inflightRefresh'.pc = inflightRefresh.pc
          /\ inflightRefresh.pc = "sent" =>
               inflightRefresh'.cookie \in {inflightRefresh.cookie, None}
          /\ inflightRefresh.pc # "sent" => inflightRefresh' = inflightRefresh
      BY <2>1, LocalsOfRequests DEF Revoke, Revoked
    <3> QED
      BY <2>1, <3>1, SameUsersKeepVisitorsInv DEF Revoke
  <2>2. CASE Deactivate(u)
    <3>1. \A token \in Token :
            [token EXCEPT !.live = token.live /\ token.user # u].user = token.user
      BY DeadToken DEF Token
    <3>2. session' # None => session # None /\ session'.user = session.user
      BY <2>2, <3>1 DEF Deactivate, TypeOK
    <3>3. /\ inflightRefresh'.pc = inflightRefresh.pc
          /\ inflightRefresh.pc = "sent" =>
               inflightRefresh'.cookie \in {inflightRefresh.cookie, None}
          /\ inflightRefresh.pc = "answered" =>
               inflightRefresh'.token.user = inflightRefresh.token.user
      BY <2>2, <3>1, LocalsOfRequests DEF Deactivate
    <3>4. logoutRequest' = [pc |-> "none"] => logoutRequest = [pc |-> "none"]
      BY <2>2, LocalsOfRequests DEF Deactivate
    <3> QED
      BY <2>2, <3>2, <3>3, <3>4, SameUsersKeepVisitorsInv DEF Deactivate
  <2> QED
    BY <1>13, <2>1, <2>2
<1> QED
  BY <1>1, <1>2, <1>3, <1>4, <1>5, <1>6, <1>7, <1>8, <1>9, <1>10, <1>11, <1>12,
     <1>13
  DEF Next, SettleLogout, vars

\* The session on a page that stays is that of whoever signed in to the browser
\* last, or may turn up: a logout that was served lasts, whatever refresh or
\* lost answer it meets, and so does a login.
THEOREM SessionIsTheVisitorsAlways == Spec => []SessionIsTheVisitors
<1>1. Init => VisitorsInv
  BY DEF Init, VisitorsInv
<1>2. VisitorsInv => SessionIsTheVisitors
  BY DEF VisitorsInv, SessionIsTheVisitors, Staying
<1> QED
  BY <1>1, <1>2, VisitorsStep, RequestsCorrect, PTL DEF Spec
=================================================================================
