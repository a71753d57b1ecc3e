--------------------------- MODULE MobileSessionProofs ---------------------------
(***************************************************************************)
(* Theorems about MobileSession for any users and calls.                   *)
(***************************************************************************)
EXTENDS MobileSession, TLAPS

-------------------------------------------------------------------------------
\* Where a call is says how often the server has performed it: what is sent
\* again has been refused before.
CallCounted(k) ==
    /\ performed[k] \in {0, 1}
    /\ call[k].pc \notin {"ok", "done", "failed"} => performed[k] = 0
    /\ call[k].pc \in {"ok", "done"} => performed[k] = 1

CallsInv == \A k \in Calls : CallCounted(k)

\* The stored session, the cookie, the refreshes that are under way and what the
\* picker shows, or will, are all of one user.
OneOwner ==
    /\ session.token = session.user
    /\ cookie # None => cookie.owner = session.user
    /\ \A k \in Calls :
          /\ call[k].pc = "refreshing" =>
                call[k].cookie = None \/ call[k].cookie.owner = session.user
          /\ call[k].pc = "refreshed" => call[k].token = session.user
    /\ picker # None =>
          /\ picker.shown \in {None, session.user}
          /\ call[picker.call].pc \in {"sent", "ok"} =>
                call[picker.call].token = session.user

OwnersInv == session # None /\ ~crossed => OneOwner

\* While the server honours the cookie, it honours that of every refresh under
\* way, none has been refused, and the session is there.
NobodyIsSignedOut ==
    /\ session # None
    /\ \A k \in Calls :
          /\ call[k].pc # "refused"
          /\ call[k].pc = "refreshing" => Honoured(call[k].cookie)

SignedInInv ==
    signedIn /\ ~crossed /\ ~erred /\ Honoured(cookie) => NobodyIsSignedOut

-------------------------------------------------------------------------------
\* What a call or the login holds is determined by where it is.
LEMMA LocalsOfRequests ==
  ASSUME TypeOK
  PROVE  /\ \A k \in Calls :
              /\ call[k].pc = "sent" =>
                   call[k] \in [pc : {"sent"}, token : Users, again : BOOLEAN]
              /\ call[k].pc = "ok" =>
                   call[k] \in [pc : {"ok"}, token : Users, again : BOOLEAN]
              /\ call[k].pc = "denied" =>
                   call[k] \in [pc : {"denied"}, again : BOOLEAN]
              /\ call[k].pc = "refreshing" =>
                   call[k] \in [pc : {"refreshing"}, cookie : Cookie \cup {None}]
              /\ call[k].pc = "refreshed" =>
                   call[k] \in [pc : {"refreshed"}, token : Users]
         /\ loginRequest.pc = "sent" =>
              loginRequest \in [pc : {"sent"}, user : Users]
         /\ loginRequest.pc = "granted" =>
              loginRequest \in [pc : {"granted"}, cookie : Cookie]
BY DEF TypeOK, Call, LoginRequest

\* A mounted picker is one that loads, and its call is under way.
LEMMA MountTypes ==
  ASSUME TypeOK, NEW k \in Calls, NEW stored \in Session, Mount(k, stored)
  PROVE  /\ call' \in [Calls -> Call]
         /\ picker' \in Picker /\ picker' # None
<1>1. stored # None /\ stored.token \in Users
  BY NoneAssumption DEF Session
<1>2. call' = [call EXCEPT ![k] =
                  [pc |-> "sent", again |-> FALSE, token |-> stored.token]]
  BY <1>1 DEF Mount, Moves
<1>3. [pc |-> "sent", again |-> FALSE, token |-> stored.token] \in Call
  BY <1>1 DEF Call
<1>4. picker' \in Picker
  BY DEF Mount, Picker
<1> QED
  BY <1>2, <1>3, <1>4, NoneAssumption DEF TypeOK

\* A settled call leaves the picker mounted or not, as it was.
LEMMA SettleTypes ==
  ASSUME TypeOK, NEW k \in Calls, NEW shown \in Users \cup {None},
         Settle(k, shown)
  PROVE  /\ call' \in [Calls -> Call]
         /\ picker' \in Picker \cup {None}
         /\ picker' = None <=> picker = None
<1>1. call' \in [Calls -> Call]
  BY DEF Settle, Moves, TypeOK, Call
<1>2. picker # None => picker \in Picker
  BY DEF TypeOK
<1>3. \A loading, error \in BOOLEAN :
        picker # None =>
          [picker EXCEPT !.loading = loading, !.error = error, !.shown = shown]
            \in Picker
  BY <1>2 DEF Picker
<1>4. PickerHears(k, shown)
  BY DEF Settle
<1>5. CASE shown = None
  BY <1>1, <1>3, <1>4, <1>5, NoneAssumption DEF PickerHears, TypeOK
<1>6. CASE shown # None
  BY <1>1, <1>3, <1>4, <1>6, NoneAssumption DEF PickerHears, TypeOK
<1> QED
  BY <1>5, <1>6

\* A cookie that is no longer honoured is one of the same owner.
LEMMA DeadCookie ==
  ASSUME NEW c \in Cookie
  PROVE  /\ [c EXCEPT !.honoured = FALSE] \in Cookie
         /\ [c EXCEPT !.honoured = FALSE] # None
         /\ [c EXCEPT !.honoured = FALSE].owner = c.owner
         /\ ~[c EXCEPT !.honoured = FALSE].honoured
BY NoneAssumption DEF Cookie

\* What a revocation leaves of the cookies: they have the same owners, and those
\* of u are honoured no longer.
RevokedFrom(u, c, d) ==
    /\ d = None <=> c = None
    /\ c # None => d \in Cookie /\ d.owner = c.owner
    /\ Honoured(d) <=> Honoured(c) /\ c.owner # u

\* A revocation touches cookies, on the device or under way, and nothing else.
LEMMA RevokeFacts ==
  ASSUME TypeOK, NEW u \in Users, Revoke(u)
  PROVE  /\ RevokedFrom(u, cookie, cookie')
         /\ call' \in [Calls -> Call]
         /\ \A k \in Calls :
              /\ call'[k].pc = call[k].pc
              /\ call[k].pc # "refreshing" => call'[k] = call[k]
              /\ call[k].pc = "refreshing" =>
                   RevokedFrom(u, call[k].cookie, call'[k].cookie)
         /\ loginRequest' \in LoginRequest
<1> DEFINE Dead(c) == IF c # None /\ c.owner = u
                      THEN [c EXCEPT !.honoured = FALSE] ELSE c
<1>1. \A c \in Cookie \cup {None} :
        RevokedFrom(u, c, Dead(c)) /\ Dead(c) \in Cookie \cup {None}
  BY DeadCookie DEF RevokedFrom, Honoured
<1>2. \A c \in Cookie : Dead(c) \in Cookie
  BY DeadCookie
<1>3. /\ cookie' = Dead(cookie)
      /\ call' = [k \in Calls |-> IF call[k].pc = "refreshing"
                                  THEN [call[k] EXCEPT !.cookie = Dead(@)]
                                  ELSE call[k]]
      /\ loginRequest' = IF loginRequest.pc = "granted"
                         THEN [loginRequest EXCEPT !.cookie = Dead(@)]
                         ELSE loginRequest
  BY DEF Revoke
<1> HIDE DEF Dead
<1>4. \A k \in Calls : call[k].pc = "refreshing" =>
        /\ call'[k] \in [pc : {"refreshing"}, cookie : Cookie \cup {None}]
        /\ call'[k].cookie = Dead(call[k].cookie)
        /\ call[k].cookie \in Cookie \cup {None}
  BY <1>1, <1>3, LocalsOfRequests
<1>5. call' \in [Calls -> Call]
  BY <1>3, <1>4 DEF Call, TypeOK
<1>6. loginRequest' \in LoginRequest
  BY <1>2, <1>3, LocalsOfRequests DEF LoginRequest, TypeOK
<1> QED
  BY <1>1, <1>3, <1>4, <1>5, <1>6 DEF TypeOK

-------------------------------------------------------------------------------
\* The type invariant needs to know how often each call has been performed.
LEMMA TypeStep ==
  ASSUME TypeOK, CallsInv, [Next]_vars
  PROVE  TypeOK'
<1> USE DEF TypeOK, browser, history, Moves
<1>1. CASE UNCHANGED vars
  BY <1>1 DEF vars
<1>2. ASSUME NEW k \in Calls, GoHome(k) \/ Goes(k) \/ Lost(k)
      PROVE  TypeOK'
  <2>1. CASE GoHome(k)
    BY <2>1, MountTypes DEF GoHome
  <2>2. CASE Serve(k)
    BY <2>2, LocalsOfRequests DEF Serve, Call, CallsInv, CallCounted
  <2>3. CASE Answered(k)
    <3>1. PICK shown \in Users \cup {None} : Settle(k, shown)
      BY <2>3, LocalsOfRequests DEF Answered
    <3> QED
      BY <2>3, <3>1, SettleTypes DEF Answered
  <2>4. CASE Denied(k)
    BY <2>4 DEF Denied, Call
  <2>5. CASE RefreshServe(k)
    <3>1. /\ call' \in [Calls -> Call]
          /\ erred' \in BOOLEAN
      <4>1. Honoured(call[k].cookie) => call[k].cookie.owner \in Users
        BY <2>5, LocalsOfRequests DEF RefreshServe, Cookie, Honoured
      <4>2. \/ \E token \in Users :
                 Moves(k, [pc |-> "refreshed", token |-> token])
            \/ Moves(k, [pc |-> "refused"])
        BY <2>5, <4>1 DEF RefreshServe
      <4>3. call' \in [Calls -> Call]
        BY <4>2 DEF Call
      <4> QED
        BY <2>5, <4>3 DEF RefreshServe
    <3> QED
      BY <2>5, <3>1 DEF RefreshServe
  <2>6. CASE Refreshed(k)
    BY <2>6, LocalsOfRequests DEF Refreshed, Call, Session
  <2>7. CASE Refused(k) \/ Lost(k)
    BY <2>7, SettleTypes DEF Refused, Lost
  <2> QED
    BY <1>2, <2>1, <2>2, <2>3, <2>4, <2>5, <2>6, <2>7 DEF Goes
<1>3. CASE GoLogin \/ Reload
  BY <1>3 DEF GoLogin, Reload, Call, LoginRequest
<1>4. CASE Login \/ LoginServe \/ NotLoggedIn
  <2>1. CASE LoginServe
    <3>1. loginRequest.user \in Users
      BY <2>1, LocalsOfRequests DEF LoginServe
    <3>2. loginRequest' \in LoginRequest
      <4> DEFINE granted == [owner |-> loginRequest.user, honoured |-> TRUE]
      <4>1. granted \in Cookie
        BY <3>1 DEF Cookie
      <4>2. \/ loginRequest' = [pc |-> "refused"]
            \/ loginRequest' = [pc |-> "granted", cookie |-> granted]
        BY <2>1 DEF LoginServe
      <4> HIDE DEF granted
      <4> QED
        BY <4>1, <4>2 DEF LoginRequest
    <3> QED
      BY <2>1, <3>2 DEF LoginServe
  <2>2. CASE Login \/ NotLoggedIn
    BY <2>2 DEF Login, NotLoggedIn, LoginRequest
  <2> QED
    BY <1>4, <2>1, <2>2
<1>5. CASE LoggedIn
  <2>1. cookie' \in Cookie /\ session' \in Session
    BY <1>5, LocalsOfRequests DEF LoggedIn, Cookie, Session
  <2>2. CASE screen = "home"
    BY <1>5, <2>1, <2>2 DEF LoggedIn, LoginRequest, Leftover
  <2>3. CASE screen = "login"
    <3>1. PICK k \in Calls : Mount(k, session')
      BY <1>5, <2>3 DEF LoggedIn
    <3> QED
      BY <1>5, <2>1, <3>1, MountTypes DEF LoggedIn, LoginRequest, Leftover
  <2> QED
    BY <2>2, <2>3
<1>6. CASE HalfLoggedIn
  BY <1>6, LocalsOfRequests DEF HalfLoggedIn, LoginRequest, Leftover
<1>7. CASE CookieExpires
  BY <1>7 DEF CookieExpires
<1>8. ASSUME NEW u \in Users, Revoke(u)
      PROVE  TypeOK'
  BY <1>8, RevokeFacts DEF Revoke, RevokedFrom
<1> QED
  BY <1>1, <1>2, <1>3, <1>4, <1>5, <1>6, <1>7, <1>8 DEF Next

-------------------------------------------------------------------------------
\* The ways in which a step can move one call: the caller notices nothing, or
\* the call starts, is performed, is told so, or fails.
Unserved == {"sent", "denied", "refreshing", "refreshed", "refused"}

Unnoticed(k) ==
    /\ \/ call'[k].pc = call[k].pc
       \/ call[k].pc \in Unserved /\ call'[k].pc \in Unserved
    /\ performed'[k] = performed[k]

Started(k) ==
    /\ call[k].pc = "idle" /\ call'[k].pc = "sent"
    /\ performed'[k] = performed[k]

Served(k) ==
    /\ call[k].pc = "sent" /\ call'[k].pc = "ok"
    /\ performed'[k] = performed[k] + 1

Finished(k) ==
    /\ call[k].pc = "ok" /\ call'[k].pc = "done"
    /\ performed'[k] = performed[k]

Failed(k) ==
    /\ InFlight(k) /\ call'[k].pc = "failed"
    /\ performed'[k] = performed[k]

\* One call starts, is performed or is told so; or any number of them fail, and
\* nobody notices what becomes of the rest.
CallsMove ==
    \/ \E k \in Calls :
          /\ Started(k) \/ Served(k) \/ Finished(k)
          /\ \A j \in Calls \ {k} : Unnoticed(j)
    \/ \A k \in Calls : Unnoticed(k) \/ Failed(k)

\* A mounted picker starts its call; nothing else happens to the calls.
LEMMA MountStarts ==
  ASSUME TypeOK, NEW k \in Calls, NEW stored, Mount(k, stored),
         performed' = performed
  PROVE  CallsMove
<1>1. Started(k) /\ \A j \in Calls \ {k} : Unnoticed(j)
  BY DEF TypeOK, Mount, Moves, Started, Unnoticed
<1> QED
  BY <1>1 DEF CallsMove

\* However the app, the server and the network interleave, this is all that can
\* happen to the calls.
LEMMA CallsMoveSo ==
  ASSUME TypeOK, [Next]_vars
  PROVE  CallsMove
<1> USE DEF Unnoticed, Failed, Unserved, InFlight, Settled
<1>1. call \in [Calls -> Call] /\ performed \in [Calls -> 0..2]
  BY DEF TypeOK
<1>2. CASE UNCHANGED <<call, performed>>
  BY <1>2 DEF CallsMove
<1>3. ASSUME NEW k \in Calls, GoHome(k) \/ Goes(k) \/ Lost(k)
      PROVE  CallsMove
  <2>1. CASE GoHome(k)
    BY <2>1, MountStarts DEF GoHome
  <2>2. CASE Serve(k)
    <3>1. CASE call'[k].pc = "ok"
      <4>1. Served(k) /\ \A j \in Calls \ {k} : Unnoticed(j)
        BY <1>1, <2>2, <3>1, LocalsOfRequests DEF Serve, Moves, Served
      <4> QED
        BY <4>1 DEF CallsMove
    <3>2. CASE call'[k].pc # "ok"
      <4>1. /\ call[k].pc = "sent" /\ call'[k].pc = "denied"
            /\ \A j \in Calls \ {k} : call'[j] = call[j]
            /\ performed' = performed
        BY <1>1, <2>2, <3>2, LocalsOfRequests DEF Serve, Moves
      <4> QED
        BY <4>1 DEF CallsMove
    <3> QED
      BY <3>1, <3>2
  <2>3. CASE Answered(k)
    <3>1. CASE call[k].pc = "ok"
      <4>1. Settle(k, call[k].token) /\ call[k].token # None
        BY <2>3, <3>1, LocalsOfRequests, NoneAssumption DEF Answered
      <4>2. Finished(k) /\ \A j \in Calls \ {k} : Unnoticed(j)
        BY <1>1, <2>3, <3>1, <4>1 DEF Answered, Settle, Moves, Finished
      <4> QED
        BY <4>2 DEF CallsMove
    <3>2. CASE call[k].pc # "ok"
      BY <1>1, <2>3, <3>2 DEF Answered, Settle, Moves, CallsMove
    <3> QED
      BY <3>1, <3>2
  <2>4. CASE Denied(k) \/ Refreshed(k)
    BY <1>1, <2>4 DEF Denied, Refreshed, Moves, CallsMove
  <2>5. CASE RefreshServe(k)
    BY <1>1, <2>5 DEF RefreshServe, Moves, CallsMove
  <2>6. CASE Refused(k) \/ Lost(k)
    BY <1>1, <2>6 DEF Refused, Lost, Settle, Moves, CallsMove
  <2> QED
    BY <1>3, <2>1, <2>2, <2>3, <2>4, <2>5, <2>6 DEF Goes
<1>4. CASE Reload
  BY <1>1, <1>4 DEF Reload, CallsMove
<1>5. CASE LoggedIn
  <2>1. CASE UNCHANGED call
    BY <1>2, <1>5, <2>1 DEF LoggedIn
  <2>2. ASSUME NEW k \in Calls, Mount(k, session')
        PROVE  CallsMove
    BY <1>5, <2>2, MountStarts DEF LoggedIn
  <2> QED
    BY <1>5, <2>1, <2>2 DEF LoggedIn
<1>6. ASSUME NEW u \in Users, Revoke(u)
      PROVE  CallsMove
  BY <1>6, RevokeFacts DEF Revoke, CallsMove
<1>7. CASE GoLogin \/ Login \/ LoginServe \/ NotLoggedIn \/ HalfLoggedIn
             \/ CookieExpires
  BY <1>2, <1>7
  DEF GoLogin, Login, LoginServe, NotLoggedIn, HalfLoggedIn, CookieExpires
<1> QED
  BY <1>2, <1>3, <1>4, <1>5, <1>6, <1>7 DEF Next, vars

\* However a call moves, its count goes with it.
LEMMA CallsStep ==
  ASSUME TypeOK, CallsInv, [Next]_vars
  PROVE  CallsInv'
<1>1. CallsMove
  BY CallsMoveSo
<1>2. ASSUME NEW k \in Calls,
             \/ Started(k) \/ Served(k) \/ Finished(k) \/ Unnoticed(k) \/ Failed(k)
      PROVE  CallCounted(k)'
  BY <1>2 DEF CallsInv, CallCounted, Started, Served, Finished, Unnoticed, Failed,
     Unserved, InFlight, Settled
<1> QED
  BY <1>1, <1>2 DEF CallsMove, CallsInv

\* On a device on which nobody has signed in nothing is under way.
LEMMA RequestsInit ==
  ASSUME Init
  PROVE  TypeOK /\ CallsInv
<1>1. call \in [Calls -> Call] /\ performed \in [Calls -> 0..2]
  BY DEF Init, Call
<1>2. CallsInv
  BY DEF Init, CallsInv, CallCounted
<1> QED
  BY <1>1, <1>2 DEF Init, TypeOK, LoginRequest

\* Type correctness and the count of each call are one invariant: the first
\* bounds how often a call is performed by where the second says it is.
THEOREM RequestsCorrect == Spec => [](TypeOK /\ CallsInv)
BY RequestsInit, TypeStep, CallsStep, PTL DEF Spec

\* Every step keeps session, cookie, picker and requests within their types; and
\* the picker is mounted just while its route is on display, whatever answer,
\* reload or login comes in between.
THEOREM TypeCorrect == Spec => []TypeOK
BY RequestsCorrect, PTL

-------------------------------------------------------------------------------
\* The safety part of CallPromise: how the callers' calls may move.
PromiseSafety == Promise!Init /\ [][Promise!Next]_(Promise!promised)

\* authFetch, where every call that meets a 401 refreshes for itself and is sent
\* a second time, implements the safety part of the promise to its callers: a
\* call that is told it is done has been performed, and none is performed twice.
THEOREM CallsKeepPromise == Spec => PromiseSafety
<1> DEFINE outcome == [k \in Calls |->
                          IF call[k].pc \in {"idle", "done", "failed"}
                          THEN call[k].pc ELSE "pending"]
<1>1. Init => Promise!Init
  BY DEF Init, Promise!Init
<1>2. TypeOK /\ TypeOK' /\ CallsInv /\ [Next]_vars
        => [Promise!Next]_(Promise!promised)
  <2> SUFFICES ASSUME TypeOK, TypeOK', CallsInv, [Next]_vars
               PROVE  [Promise!Next]_(Promise!promised)
    OBVIOUS
  <2>1. /\ performed \in [Calls -> 0..2]
        /\ performed' \in [Calls -> 0..2]
    BY DEF TypeOK
  <2>2. \A k \in Calls : Unnoticed(k) =>
          outcome'[k] = outcome[k] /\ performed'[k] = performed[k]
    BY DEF Unnoticed, Unserved
  <2>3. ASSUME NEW k \in Calls, \A j \in Calls \ {k} : Unnoticed(j)
        PROVE  outcome' = [outcome EXCEPT ![k] = outcome'[k]]
    <3>1. /\ outcome = [j \in Calls |-> outcome[j]]
          /\ outcome' = [j \in Calls |-> outcome'[j]]
      OBVIOUS
    <3> HIDE DEF outcome
    <3> QED
      BY <2>2, <2>3, <3>1
  <2>4. ASSUME NEW k \in Calls, \A j \in Calls \ {k} : Unnoticed(j),
               Started(k) \/ Served(k) \/ Finished(k)
        PROVE  Promise!Next
    <3>1. CASE Started(k)
      <4>1. /\ outcome[k] = "idle" /\ outcome'[k] = "pending"
            /\ performed'[k] = performed[k]
        BY <3>1 DEF Started
      <4>2. /\ outcome' = [outcome EXCEPT ![k] = "pending"]
            /\ performed' = performed
        BY <2>1, <2>2, <2>4, <2>3, <4>1
      <4> QED
        BY <4>1, <4>2 DEF Promise!Next, Promise!Start, Promise!Becomes
    <3>2. CASE Served(k)
      <4>1. /\ outcome[k] = "pending" /\ outcome'[k] = "pending"
            /\ performed[k] = 0 /\ performed'[k] = 1
        BY <3>2 DEF Served, CallsInv, CallCounted
      <4>2. /\ outcome' = outcome
            /\ performed' = [performed EXCEPT ![k] = 1]
        BY <2>1, <2>2, <2>4, <2>3, <4>1
      <4> QED
        BY <4>1, <4>2 DEF Promise!Next, Promise!Perform
    <3>3. CASE Finished(k)
      <4>1. /\ outcome[k] = "pending" /\ outcome'[k] = "done"
            /\ performed[k] = 1 /\ performed'[k] = performed[k]
        BY <3>3 DEF Finished, CallsInv, CallCounted
      <4>2. /\ outcome' = [outcome EXCEPT ![k] = "done"]
            /\ performed' = performed
        BY <2>1, <2>2, <2>4, <2>3, <4>1
      <4> QED
        BY <4>1, <4>2 DEF Promise!Next, Promise!Succeed, Promise!Becomes
    <3> QED
      BY <2>4, <3>1, <3>2, <3>3
  <2>5. ASSUME \A k \in Calls : Unnoticed(k) \/ Failed(k)
        PROVE  [Promise!Next]_(Promise!promised)
    <3> DEFINE ks == {k \in Calls : ~Unnoticed(k)}
    <3>1. performed' = performed
      BY <2>1, <2>5 DEF Unnoticed, Failed
    <3>2. /\ \A k \in ks : outcome[k] = "pending"
          /\ outcome' = [k \in Calls |-> IF k \in ks THEN "failed" ELSE outcome[k]]
      BY <2>2, <2>5 DEF Failed, InFlight, Settled
    <3>3. CASE ks = {}
      <4>1. outcome' = outcome
        BY <3>2, <3>3
      <4> QED
        BY <3>1, <4>1 DEF Promise!promised
    <3>4. CASE ks # {}
      BY <3>1, <3>2, <3>4 DEF Promise!Next, Promise!Fail
    <3> QED
      BY <3>3, <3>4
  <2> QED
    BY <2>4, <2>5, CallsMoveSo DEF CallsMove
<1> QED
  BY <1>1, <1>2, RequestsCorrect, PTL DEF Spec, PromiseSafety

-------------------------------------------------------------------------------
\* A call that settles is that of the mounted picker, which then shows what it
\* got, or leaves the picker as it is.
LEMMA SettleFacts ==
  ASSUME TypeOK, NEW k \in Calls, NEW shown \in Users \cup {None},
         Settle(k, shown)
  PROVE  /\ call'[k] = [pc |-> IF shown = None THEN "failed" ELSE "done"]
         /\ \A j \in Calls \ {k} : call'[j] = call[j]
         /\ picker = None => picker' = None
         /\ picker # None =>
              /\ picker' # None /\ picker'.call = picker.call
              /\ picker.call = k =>
                   /\ ~picker'.loading
                   /\ picker'.error <=> shown = None
                   /\ picker'.shown = shown
              /\ picker.call # k => picker' = picker
<1>1. /\ call'[k] = [pc |-> IF shown = None THEN "failed" ELSE "done"]
      /\ \A j \in Calls \ {k} : call'[j] = call[j]
  BY DEF Settle, Moves, TypeOK
<1>2. PickerHears(k, shown)
  BY DEF Settle
<1>3. picker = None \/ picker.call # k => picker' = picker
  BY <1>2 DEF PickerHears
<1>4. ASSUME picker # None, picker.call = k
      PROVE  /\ picker' # None /\ picker'.call = k
             /\ ~picker'.loading
             /\ picker'.error <=> shown = None
             /\ picker'.shown = shown
  <2> DEFINE failed == shown = None
  <2>1. /\ picker \in Picker
        /\ failed \in BOOLEAN
        /\ picker' = [picker EXCEPT !.loading = FALSE, !.error = failed,
                                    !.shown = shown]
    BY <1>2, <1>4 DEF PickerHears, TypeOK
  <2>2. failed <=> shown = None
    OBVIOUS
  <2> HIDE DEF failed
  <2> DEFINE heard == [picker EXCEPT !.loading = FALSE, !.error = failed,
                                     !.shown = shown]
  <2>3. /\ heard \in Picker
        /\ heard.call = picker.call /\ heard.loading = FALSE
        /\ heard.error = failed /\ heard.shown = shown
    BY <2>1 DEF Picker
  <2> HIDE DEF heard
  <2>4. picker' = heard
    BY <2>1 DEF heard
  <2> QED
    BY <1>4, <2>2, <2>3, <2>4, NoneAssumption
<1> QED
  BY <1>1, <1>3, <1>4

\* The calls of earlier pickers do not disturb the one that is mounted, and its
\* own does not settle unheard.
LEMMA PickerStep ==
  ASSUME TypeOK, PickerFollowsItsCall, [Next]_vars
  PROVE  PickerFollowsItsCall'
<1> USE DEF PickerFollowsItsCall, InFlight, Settled, browser, history
<1>1. /\ call \in [Calls -> Call]
      /\ picker # None => picker.call \in Calls
  BY DEF TypeOK, Picker
<1>2. ASSUME UNCHANGED picker,
             \A k \in Calls :
                \/ UNCHANGED call[k]
                \/ InFlight(k) /\ InFlight(k)'
      PROVE  PickerFollowsItsCall'
  BY <1>1, <1>2
<1>3. ASSUME NEW k \in Calls, GoHome(k) \/ Goes(k) \/ Lost(k)
      PROVE  PickerFollowsItsCall'
  <2>1. CASE GoHome(k)
    BY <1>1, <2>1 DEF GoHome, Mount, Moves
  <2>2. ASSUME NEW shown \in Users \cup {None}, Settle(k, shown), InFlight(k)
        PROVE  PickerFollowsItsCall'
    <3>1. CASE picker = None
      BY <2>2, <3>1, SettleFacts
    <3>2. CASE picker # None /\ picker.call = k
      <4>1. /\ picker'.call = k /\ ~picker'.loading
            /\ picker'.error <=> picker'.shown = None
        BY <2>2, <3>2, SettleFacts
      <4>2. call'[k].pc \in {"done", "failed"}
        BY <1>1, <2>2 DEF Settle, Moves
      <4> QED
        BY <4>1, <4>2
    <3>3. CASE picker # None /\ picker.call # k
      <4>1. picker' = picker /\ call'[picker.call] = call[picker.call]
        BY <1>1, <2>2, <3>3, SettleFacts
      <4> QED
        BY <4>1
    <3> QED
      BY <3>1, <3>2, <3>3
  <2>3. CASE Serve(k)
    BY <1>1, <1>2, <2>3, LocalsOfRequests DEF Serve, Moves
  <2>4. CASE Answered(k)
    <3>1. PICK shown \in Users \cup {None} : Settle(k, shown)
      BY <2>4, LocalsOfRequests DEF Answered
    <3> QED
      BY <2>2, <2>4, <3>1 DEF Answered
  <2>5. CASE Denied(k) \/ Refreshed(k)
    BY <1>1, <1>2, <2>5 DEF Denied, Refreshed, Moves
  <2>6. CASE RefreshServe(k)
    BY <1>1, <1>2, <2>6 DEF RefreshServe, Moves
  <2>7. CASE Refused(k) \/ Lost(k)
    BY <2>2, <2>7 DEF Refused, Lost
  <2> QED
    BY <1>3, <2>1, <2>3, <2>4, <2>5, <2>6, <2>7 DEF Goes
<1>4. CASE GoLogin \/ Reload
  BY <1>4 DEF GoLogin, Reload
<1>5. CASE LoggedIn
  <2>1. CASE UNCHANGED <<picker, call>>
    BY <1>2, <2>1
  <2>2. ASSUME NEW k \in Calls, Mount(k, session')
        PROVE  PickerFollowsItsCall'
    BY <1>1, <2>2 DEF Mount, Moves
  <2> QED
    BY <1>5, <2>1, <2>2 DEF LoggedIn
<1>6. ASSUME NEW u \in Users, Revoke(u)
      PROVE  PickerFollowsItsCall'
  <2>1. \A k \in Calls : call'[k].pc = call[k].pc
    BY <1>6, RevokeFacts
  <2> QED
    BY <1>1, <1>6, <2>1 DEF Revoke
<1>7. CASE UNCHANGED <<picker, call>>
  BY <1>2, <1>7
<1>8. CASE Login \/ LoginServe \/ NotLoggedIn \/ HalfLoggedIn \/ CookieExpires
  BY <1>7, <1>8 DEF Login, LoginServe, NotLoggedIn, HalfLoggedIn, CookieExpires
<1> QED
  BY <1>3, <1>4, <1>5, <1>6, <1>7, <1>8 DEF Next, vars

\* The mounted picker loads just as long as its own call goes on and then shows
\* tasks or its error, whichever calls of earlier pickers answer meanwhile.
THEOREM PickerFollowsItsCallAlways == Spec => []PickerFollowsItsCall
<1>1. Init => PickerFollowsItsCall
  BY DEF Init, PickerFollowsItsCall
<1> QED
  BY <1>1, PickerStep, RequestsCorrect, PTL DEF Spec

\* A refused refresh clears the session, and no refresh that is still under way
\* brings it back: the step that stores one where there was none is a login.
THEOREM SessionsComeFromLoginAlways == Spec => SessionsComeFromLogin
<1>1. [Next]_vars
        => [session = None /\ session' # None => loginRequest.pc = "granted"]_vars
  <2> SUFFICES ASSUME Next, session = None, session' # None
               PROVE  loginRequest.pc = "granted"
    BY DEF vars
  <2> USE DEF browser, history
  <2>1. ASSUME NEW k \in Calls, GoHome(k) \/ Goes(k) \/ Lost(k)
        PROVE  FALSE
    BY <2>1 DEF GoHome, Goes, Serve, Answered, Denied, RefreshServe, Refreshed,
       Refused, Lost
  <2> QED
    BY <2>1 DEF Next, GoLogin, Reload, Login, LoginServe, LoggedIn, NotLoggedIn,
       HalfLoggedIn, CookieExpires, Revoke
<1> QED
  BY <1>1, PTL DEF Spec, SessionsComeFromLogin

-------------------------------------------------------------------------------
\* What a mounted picker has begun: a call with the token of the stored session.
LEMMA MountFacts ==
  ASSUME TypeOK, NEW k \in Calls, NEW stored \in Session, Mount(k, stored)
  PROVE  /\ picker'.shown = None /\ picker'.call = k
         /\ call'[k].pc = "sent" /\ call'[k].token = stored.token
         /\ \A j \in Calls \ {k} : call'[j] = call[j]
BY NoneAssumption DEF Mount, Moves, TypeOK

\* As long as no login meets what is left of another session, everything stays
\* with one owner.
LEMMA OwnersStep ==
  ASSUME TypeOK, OwnersInv, [Next]_vars
  PROVE  OwnersInv'
<1> SUFFICES ASSUME session' # None, ~crossed'
             PROVE  OneOwner'
  BY DEF OwnersInv
<1> USE DEF browser, history
<1>1. /\ call \in [Calls -> Call]
      /\ picker # None => picker.call \in Calls
      /\ session # None => session \in Session
  BY DEF TypeOK, Picker
<1>2. CASE UNCHANGED <<session, cookie, picker, call, crossed>>
  BY <1>2 DEF OwnersInv, OneOwner
<1>3. ASSUME NEW k \in Calls, GoHome(k) \/ Goes(k) \/ Lost(k)
      PROVE  OneOwner'
  <2>1. CASE GoHome(k)
    <3>1. session \in Session /\ Mount(k, session)
      BY <1>1, <2>1 DEF GoHome
    <3>2. UNCHANGED <<session, cookie, crossed>>
      BY <2>1 DEF GoHome
    <3>3. /\ picker'.shown = None /\ picker'.call = k
          /\ call'[k].token = session.token
          /\ call'[k].pc = "sent"
          /\ \A j \in Calls \ {k} : call'[j] = call[j]
      BY <3>1, MountFacts
    <3> QED
      BY <3>2, <3>3 DEF OwnersInv, OneOwner
  <2>2. ASSUME NEW shown \in Users \cup {None}, Settle(k, shown),
               shown # None => call[k].pc = "ok" /\ shown = call[k].token,
               UNCHANGED <<session, cookie, crossed>>
        PROVE  OneOwner'
    <3>1. /\ call'[k].pc \in {"done", "failed"}
          /\ \A j \in Calls \ {k} : call'[j] = call[j]
      BY <1>1, <2>2 DEF Settle, Moves
    <3>2. picker' # None =>
            /\ picker # None /\ picker'.call = picker.call
            /\ picker.call = k => picker'.shown = shown
            /\ picker.call # k => picker' = picker
      BY <2>2, SettleFacts
    <3> QED
      BY <1>1, <2>2, <3>1, <3>2 DEF OwnersInv, OneOwner
  <2>3. CASE Serve(k)
    <3>1. /\ call'[k].pc \in {"ok", "denied"}
          /\ call'[k].pc = "ok" => call'[k].token = call[k].token
          /\ call[k].pc = "sent"
          /\ \A j \in Calls \ {k} : call'[j] = call[j]
      BY <1>1, <2>3, LocalsOfRequests DEF Serve, Moves
    <3>2. UNCHANGED <<session, cookie, picker, crossed>>
      BY <2>3 DEF Serve
    <3> QED
      BY <1>1, <3>1, <3>2 DEF OwnersInv, OneOwner
  <2>4. CASE Answered(k)
    <3>1. PICK shown \in Users \cup {None} :
            /\ Settle(k, shown)
            /\ shown # None => call[k].pc = "ok" /\ shown = call[k].token
      BY <2>4, LocalsOfRequests DEF Answered
    <3>2. UNCHANGED <<session, cookie, crossed>>
      BY <2>4 DEF Answered
    <3> QED
      BY <2>2, <3>1, <3>2
  <2>5. CASE Denied(k)
    BY <1>1, <2>5 DEF Denied, Moves, OwnersInv, OneOwner
  <2>6. CASE RefreshServe(k)
    <3>1. /\ \/ call'[k].pc = "refused"
             \/ /\ call'[k].pc = "refreshed"
                /\ call[k].cookie # None /\ call'[k].token = call[k].cookie.owner
          /\ call[k].pc = "refreshing"
          /\ \A j \in Calls \ {k} : call'[j] = call[j]
      BY <1>1, <2>6 DEF RefreshServe, Moves, Honoured
    <3>2. UNCHANGED <<session, cookie, picker, crossed>>
      BY <2>6 DEF RefreshServe
    <3> QED
      BY <1>1, <3>1, <3>2 DEF OwnersInv, OneOwner
  <2>7. CASE Refreshed(k)
    <3>1. /\ session # None
          /\ session'.user = session.user /\ session'.token = call[k].token
      BY <1>1, <2>7 DEF Refreshed, Session
    <3> QED
      BY <1>1, <2>7, <3>1 DEF Refreshed, Moves, OwnersInv, OneOwner
  <2>8. CASE Refused(k)
    BY <2>8 DEF Refused
  <2>9. CASE Lost(k)
    <3>1. PICK shown \in Users \cup {None} : Settle(k, shown) /\ shown = None
      BY <2>9 DEF Lost
    <3>2. UNCHANGED <<session, cookie, crossed>>
      BY <2>9 DEF Lost
    <3> QED
      BY <2>2, <3>1, <3>2
  <2> QED
    BY <1>3, <2>1, <2>3, <2>4, <2>5, <2>6, <2>7, <2>8, <2>9 DEF Goes
<1>4. CASE GoLogin \/ Reload
  BY <1>1, <1>4 DEF GoLogin, Reload, OwnersInv, OneOwner
<1>5. CASE Login \/ LoginServe \/ NotLoggedIn
  BY <1>2, <1>5 DEF Login, LoginServe, NotLoggedIn
<1>6. CASE LoggedIn
  <2>1. /\ picker = None /\ screen = "login"
        /\ \A k \in Calls : call[k].pc \notin {"refreshing", "refreshed"}
    BY <1>6 DEF LoggedIn, Leftover, TypeOK
  <2>2. PICK k \in Calls : Mount(k, session')
    BY <1>6, <2>1 DEF LoggedIn
  <2>3. /\ session' \in Session
        /\ session'.token = cookie'.owner /\ session'.user = cookie'.owner
    BY <1>6, LocalsOfRequests DEF LoggedIn, Session, Cookie
  <2>4. /\ picker'.shown = None /\ picker'.call = k
        /\ call'[k].token = session'.token /\ call'[k].pc = "sent"
        /\ \A j \in Calls \ {k} : call'[j] = call[j]
    BY <2>2, <2>3, MountFacts
  <2> QED
    BY <2>1, <2>3, <2>4 DEF OneOwner
<1>7. CASE HalfLoggedIn
  BY <1>7 DEF HalfLoggedIn
<1>8. CASE CookieExpires
  BY <1>8 DEF CookieExpires, OwnersInv, OneOwner
<1>9. ASSUME NEW u \in Users, Revoke(u)
      PROVE  OneOwner'
  <2>1. UNCHANGED <<session, picker, crossed>>
    BY <1>9 DEF Revoke
  <2> QED
    BY <1>1, <1>9, <2>1, RevokeFacts DEF RevokedFrom, OwnersInv, OneOwner
<1> QED
  BY <1>2, <1>3, <1>4, <1>5, <1>6, <1>7, <1>8, <1>9 DEF Next, vars

\* The stored session and the tasks on display are one user's, whichever calls,
\* refreshes and pickers of earlier sessions are left, unless a login met them.
THEOREM SessionIsOneUsersAlways == Spec => []SessionIsOneUsers
<1>1. Init => OwnersInv
  BY DEF Init, OwnersInv
<1>2. OwnersInv => SessionIsOneUsers
  BY DEF OwnersInv, OneOwner, SessionIsOneUsers
<1> QED
  BY <1>1, <1>2, OwnersStep, RequestsCorrect, PTL DEF Spec

\* A cookie that stays honoured keeps the session: whatever is lost, no refresh
\* is refused but by an error of the server.  A revocation takes the cookie of
\* the browser along with that of every refresh, for they have one owner.
LEMMA SignedInStep ==
  ASSUME TypeOK, OwnersInv, SignedInInv, [Next]_vars
  PROVE  SignedInInv'
<1> SUFFICES ASSUME signedIn', ~crossed', ~erred', Honoured(cookie)'
             PROVE  NobodyIsSignedOut'
  BY DEF SignedInInv
<1> USE DEF SignedInInv, NobodyIsSignedOut, browser, history
<1>1. call \in [Calls -> Call]
  BY DEF TypeOK
<1>2. CASE UNCHANGED <<session, cookie, call, crossed, erred, signedIn>>
  BY <1>2 DEF Honoured
<1>3. ASSUME NEW k \in Calls, GoHome(k) \/ Goes(k) \/ Lost(k)
      PROVE  NobodyIsSignedOut'
  <2>1. CASE GoHome(k)
    BY <1>1, <2>1 DEF GoHome, Mount, Moves, Honoured
  <2>2. CASE Serve(k)
    <3>1. /\ call'[k].pc \in {"ok", "denied"}
          /\ \A j \in Calls \ {k} : call'[j] = call[j]
      BY <1>1, <2>2, LocalsOfRequests DEF Serve, Moves
    <3> QED
      BY <2>2, <3>1 DEF Serve, Honoured
  <2>3. CASE Answered(k) \/ Lost(k)
    <3>1. PICK shown : Settle(k, shown)
      BY <2>3 DEF Answered, Lost
    <3>2. /\ call'[k].pc \in {"done", "failed"}
          /\ \A j \in Calls \ {k} : call'[j] = call[j]
      BY <1>1, <3>1 DEF Settle, Moves
    <3>3. UNCHANGED <<session, cookie, crossed, erred, signedIn>>
      BY <2>3 DEF Answered, Lost
    <3> QED
      BY <3>2, <3>3 DEF Honoured
  <2>4. CASE Denied(k)
    BY <1>1, <2>4 DEF Denied, Moves, Honoured
  <2>5. CASE RefreshServe(k)
    BY <1>1, <2>5 DEF RefreshServe, Moves, Honoured
  <2>6. CASE Refreshed(k)
    <3>1. session # None /\ session' # None
      BY <2>6, LocalsOfRequests, NoneAssumption
      DEF Refreshed, TypeOK, Session, Honoured
    <3> QED
      BY <1>1, <2>6, <3>1 DEF Refreshed, Moves, Honoured
  <2>7. CASE Refused(k)
    BY <2>7 DEF Refused, Honoured
  <2> QED
    BY <1>3, <2>1, <2>2, <2>3, <2>4, <2>5, <2>6, <2>7 DEF Goes
<1>4. CASE GoLogin \/ Reload
  <2>1. \A k \in Calls : call'[k] \in {call[k], [pc |-> "failed"]}
    BY <1>1, <1>4 DEF GoLogin, Reload
  <2>2. UNCHANGED <<session, cookie, crossed, erred, signedIn>>
    BY <1>4 DEF GoLogin, Reload
  <2> QED
    BY <2>1, <2>2 DEF Honoured
<1>5. CASE Login \/ LoginServe \/ NotLoggedIn
  BY <1>2, <1>5 DEF Login, LoginServe, NotLoggedIn
<1>6. CASE LoggedIn
  <2>1. /\ screen = "login"
        /\ \A k \in Calls : call[k].pc \notin {"refreshing", "refused"}
    BY <1>6 DEF LoggedIn, Leftover, TypeOK
  <2>2. PICK k \in Calls : Mount(k, session')
    BY <1>6, <2>1 DEF LoggedIn, Leftover, TypeOK
  <2>3. session' \in Session
    BY <1>6, LocalsOfRequests DEF LoggedIn, Session, Cookie
  <2>4. /\ call'[k].pc = "sent"
        /\ \A j \in Calls \ {k} : call'[j] = call[j]
    BY <2>2, <2>3, MountFacts
  <2> QED
    BY <2>1, <2>3, <2>4, NoneAssumption
<1>7. CASE HalfLoggedIn \/ CookieExpires
  BY <1>7 DEF HalfLoggedIn, CookieExpires, Honoured
<1>8. ASSUME NEW u \in Users, Revoke(u)
      PROVE  NobodyIsSignedOut'
  <2>1. UNCHANGED <<session, crossed, erred, signedIn>>
    BY <1>8 DEF Revoke
  <2>2. RevokedFrom(u, cookie, cookie') /\ Honoured(cookie')
    BY <1>8, RevokeFacts
  <2>3. cookie # None /\ Honoured(cookie) /\ cookie.owner # u
    BY <2>2 DEF RevokedFrom, Honoured
  <2>4. NobodyIsSignedOut /\ OneOwner
    BY <2>1, <2>3 DEF OwnersInv
  <2> QED
    BY <1>8, <2>1, <2>3, <2>4, RevokeFacts DEF RevokedFrom, Honoured, OneOwner
<1> QED
  BY <1>2, <1>3, <1>4, <1>5, <1>6, <1>7, <1>8 DEF Next, vars

\* Lost requests and answers never sign anybody out: a completed login lasts for
\* as long as the server honours its cookie, unless the server errs.
THEOREM SignedOutOnlyIfRevokedAlways == Spec => []SignedOutOnlyIfRevoked
<1>1. Init => OwnersInv /\ SignedInInv
  BY DEF Init, OwnersInv, SignedInInv
<1>2. SignedInInv => SignedOutOnlyIfRevoked
  BY DEF SignedInInv, NobodyIsSignedOut, SignedOutOnlyIfRevoked
<1> QED
  BY <1>1, <1>2, OwnersStep, SignedInStep, RequestsCorrect, PTL DEF Spec
===============================================================================
