----------------------------- MODULE AdminSession -----------------------------
(***************************************************************************)
(* The session of one tab of the admin console: the in-memory session      *)
(* store, the guards of the routes, login, the single-flight               *)
(* refreshSession, bootstrapSession, logout, and apiFetch with its refresh *)
(* and retry on 401.  Other tabs share the cookie.                         *)
(*                                                                         *)
(* JavaScript runs to its next await without interruption, so an action is *)
(* the code between two awaits.  A request reaches the server and is       *)
(* served, or not; its answer arrives, or not; a fetch whose request or    *)
(* answer is lost rejects.  Of the server there is left what the tab can   *)
(* tell: whether JwtGuard accepts an access token and whether the refresh  *)
(* endpoint honours the cookie (module AuthSessions says when).  Roles do  *)
(* not change.                                                             *)
(***************************************************************************)
EXTENDS Naturals

CONSTANTS
    Users,
    Admins,     \* those whom the console admits
    Calls,      \* the calls of apiFetch
    None

ASSUME AdminsAssumption == Admins \subseteq Users
ASSUME NoneAssumption == None \notin Users \cup [user : Users, live : BOOLEAN]

VARIABLES
    booted,         \* App: bootstrapSession has settled
    atLogin,        \* the route is /login, not one behind RequireAdmin
    session,        \* the session store: whose access token, and if accepted
    leaving,        \* location.assign('/login') has been called
    cookie,         \* whose refresh cookie the browser has that is honoured
    inflightRefresh, loginRequest, logoutRequest,
    call,           \* where each apiFetch is
    performed,      \* how often the server has performed it
    excused,        \* history, read by no action: this page may be left though
    visitors        \* the cookie is good; who signed in to this browser last,
                    \* and who else may turn up on the page

page == <<booted, atLogin, session, leaving>>
requests == <<inflightRefresh, loginRequest, logoutRequest>>
history == <<excused, visitors>>
vars == <<booted, atLogin, session, leaving, cookie, inflightRefresh,
          loginRequest, logoutRequest, call, performed, excused, visitors>>

-------------------------------------------------------------------------------
Token == [user : Users, live : BOOLEAN]

Call == [pc : {"sent"}, token : Token, again : BOOLEAN]
          \cup [pc : {"ok", "denied"}, again : BOOLEAN]
          \cup [pc : {"idle", "waiting", "done", "failed"}]

RefreshRequest == [pc : {"none", "refused"}]
                    \cup [pc : {"sent"}, cookie : Users \cup {None}]
                    \cup [pc : {"answered"}, token : Token]

LoginRequest == {[pc |-> "none"]}
                  \cup [pc : {"sent"}, user : Users]
                  \cup [pc : {"granted"}, token : Token, honoured : BOOLEAN]

LogoutRequest == [pc : {"none", "served", "denied"}]
                   \cup [pc : {"sent"}, token : Token]

TypeOK ==
    /\ booted \in BOOLEAN /\ atLogin \in BOOLEAN /\ leaving \in BOOLEAN
    /\ session \in Token \cup {None}
    /\ booted /\ ~atLogin /\ ~leaving => session # None /\ session.user \in Admins
    /\ cookie \in Users \cup {None}
    /\ inflightRefresh \in RefreshRequest
    /\ loginRequest \in LoginRequest
    /\ logoutRequest \in LogoutRequest
    /\ call \in [Calls -> Call]
    /\ performed \in [Calls -> {0, 1, 2}]
    /\ excused \in BOOLEAN
    /\ visitors \subseteq Users

Nothing == [pc |-> "none"]
InFlight(k) == call[k].pc \notin {"idle", "done", "failed"}

\* What is left of an earlier session and may meet another one.
Leftover == inflightRefresh # Nothing \/ \E k \in Calls : InFlight(k)

\* A tab is opened, by a stranger or a remembered visitor, at any route; App
\* starts bootstrapSession.
Init ==
    /\ booted = FALSE /\ atLogin \in BOOLEAN /\ session = None /\ leaving = FALSE
    /\ cookie \in Users \cup {None}
    /\ inflightRefresh = [pc |-> "sent", cookie |-> cookie]
    /\ loginRequest = Nothing /\ logoutRequest = Nothing
    /\ call = [k \in Calls |-> [pc |-> "idle"]]
    /\ performed = [k \in Calls |-> 0]
    /\ excused = FALSE
    /\ visitors = {cookie} \ {None}

-------------------------------------------------------------------------------
(* The guards of the routes, as they render with a session in the store *)

\* RedirectIfAdmin sends an administrator to "/"; RequireAdmin sends whoever is
\* not to /login, and DenyNonAdmin clears the store of anyone else's session.
Render(stored, login) ==
    IF stored # None /\ stored.user \in Admins
    THEN session' = stored /\ atLogin' = FALSE
    ELSE session' = (IF login THEN stored ELSE None) /\ atLogin' = TRUE

-------------------------------------------------------------------------------
(* apiFetch *)

Moves(k, state) == call' = [call EXCEPT ![k] = state]

\* Mutant: pages are shown, and fetch, before RequireAdmin lets them.
StartAnyway(k) ==
    /\ booted
    /\ call[k].pc = "idle"
    /\ Moves(k, [pc |-> "sent", token |-> session, again |-> FALSE])
    /\ UNCHANGED <<page, cookie, requests, performed, history>>

\* A page behind RequireAdmin reads or writes something.
Start(k) ==
    /\ booted /\ ~atLogin /\ session # None
    /\ call[k].pc = "idle"
    /\ Moves(k, [pc |-> "sent", token |-> session, again |-> FALSE])
    /\ UNCHANGED <<page, cookie, requests, performed, history>>

\* JwtGuard lets the request through to the handler, or answers 401.
Serve(k) ==
    /\ call[k].pc = "sent"
    /\ IF call[k].token.live
       THEN /\ Moves(k, [pc |-> "ok", again |-> call[k].again])
            /\ performed' = [performed EXCEPT ![k] = @ + 1]
       ELSE /\ Moves(k, [pc |-> "denied", again |-> call[k].again])
            /\ UNCHANGED performed
    /\ UNCHANGED <<page, cookie, requests, history>>

\* Mutant: a request that seems lost is sent once more.
LoseRetries(k) ==
    /\ call[k].pc \in {"sent", "ok", "denied"}
    /\ Moves(k, IF call[k].again \/ session = None THEN [pc |-> "failed"]
                ELSE [pc |-> "sent", token |-> session, again |-> TRUE])
    /\ UNCHANGED <<page, cookie, requests, performed, history>>

\* The request or its answer is lost: fetch rejects, and so does apiFetch.
Lose(k) ==
    /\ call[k].pc \in {"sent", "ok", "denied"}
    /\ Moves(k, [pc |-> "failed"])
    /\ UNCHANGED <<page, cookie, requests, performed, history>>

\* Any answer but 401, whatever its status, settles the call.
Finish(k) ==
    /\ call[k].pc = "ok"
    /\ Moves(k, [pc |-> "done"])
    /\ UNCHANGED <<page, cookie, requests, performed, history>>

\* The first 401: wait for the refresh that is in flight, or send one.
Denied(k) ==
    /\ call[k].pc = "denied" /\ ~call[k].again
    /\ Moves(k, [pc |-> "waiting"])
    /\ inflightRefresh' = IF inflightRefresh = Nothing
                          THEN [pc |-> "sent", cookie |-> cookie]
                          ELSE inflightRefresh
    /\ UNCHANGED <<page, cookie, loginRequest, logoutRequest, performed, history>>

\* The second: the session is dead.
DeniedAgain(k) ==
    /\ call[k].pc = "denied" /\ call[k].again
    /\ Moves(k, [pc |-> "failed"])
    /\ Render(None, atLogin)
    /\ leaving' = TRUE
    /\ UNCHANGED <<booted, cookie, requests, performed, history>>

-------------------------------------------------------------------------------
(* refreshSession, and the callers that wait for it *)

RefreshServe ==
    /\ inflightRefresh.pc = "sent"
    /\ inflightRefresh' =
          IF inflightRefresh.cookie = None THEN [pc |-> "refused"]
          ELSE [pc |-> "answered",
                token |-> [user |-> inflightRefresh.cookie, live |-> TRUE]]
    /\ UNCHANGED <<page, cookie, loginRequest, logoutRequest, call, performed,
                   history>>

Waiting == {k \in Calls : call[k].pc = "waiting"}

\* Every call that waits goes on from the given state.
Resume(state) ==
    call' = [k \in Calls |-> IF k \in Waiting THEN state ELSE call[k]]

\* Mutant: the retry is sent with the token the first request had.
RefreshedRetriesOld ==
    /\ inflightRefresh.pc = "answered"
    /\ inflightRefresh' = Nothing
    /\ booted' = TRUE
    /\ Render(inflightRefresh.token, atLogin)
    /\ Resume([pc |-> "sent", again |-> TRUE,
               token |-> IF session = None THEN inflightRefresh.token ELSE session])
    /\ UNCHANGED <<leaving, cookie, loginRequest, logoutRequest, performed,
                   history>>

\* The store is written and every waiting call is sent again with the new
\* token; bootstrapSession, if it is what waits, settles.
Refreshed ==
    /\ inflightRefresh.pc = "answered"
    /\ inflightRefresh' = Nothing
    /\ booted' = TRUE
    /\ Render(inflightRefresh.token, atLogin)
    /\ Resume([pc |-> "sent", token |-> inflightRefresh.token, again |-> TRUE])
    /\ UNCHANGED <<leaving, cookie, loginRequest, logoutRequest, performed,
                   history>>

\* Mutant: bootstrapSession settles only if it finds a session.
NotRefreshedKeepsLoading ==
    /\ inflightRefresh' = Nothing
    /\ IF Waiting = {} THEN Render(session, atLogin) /\ UNCHANGED leaving
       ELSE Render(None, atLogin) /\ leaving' = TRUE
    /\ Resume([pc |-> "failed"])
    /\ UNCHANGED <<booted, cookie, loginRequest, logoutRequest, performed,
                   visitors>>

\* refreshSession resolves to null.  Every waiting call still holds its 401:
\* it clears the store and leaves for the login page.
NotRefreshed ==
    /\ inflightRefresh' = Nothing
    /\ booted' = TRUE
    /\ IF Waiting = {} THEN Render(session, atLogin) /\ UNCHANGED leaving
       ELSE Render(None, atLogin) /\ leaving' = TRUE
    /\ Resume([pc |-> "failed"])
    /\ UNCHANGED <<cookie, loginRequest, logoutRequest, performed, visitors>>

RefreshRefused ==
    /\ inflightRefresh.pc = "refused"
    /\ NotRefreshed
    /\ UNCHANGED excused

RefreshLost ==
    /\ inflightRefresh # Nothing
    /\ NotRefreshed
    /\ excused' = TRUE

-------------------------------------------------------------------------------
(* login *)

Login ==
    /\ booted /\ atLogin /\ ~leaving
    /\ loginRequest = Nothing
    /\ \E u \in Users : loginRequest' = [pc |-> "sent", user |-> u]
    /\ UNCHANGED <<page, cookie, inflightRefresh, logoutRequest, call,
                   performed, history>>

LoginServe ==
    /\ loginRequest.pc = "sent"
    /\ loginRequest' = [pc |-> "granted", honoured |-> TRUE,
                        token |-> [user |-> loginRequest.user, live |-> TRUE]]
    /\ UNCHANGED <<page, cookie, inflightRefresh, logoutRequest, call,
                   performed, history>>

\* The browser stores the cookie of the answer.
CookieStored ==
    cookie' = IF loginRequest.honoured THEN loginRequest.token.user ELSE None

\* handleLogin stores the session and navigates behind RequireAdmin.
LoggedIn ==
    /\ loginRequest.pc = "granted"
    /\ loginRequest' = Nothing
    /\ CookieStored
    /\ Render(loginRequest.token, FALSE)
    /\ excused' = Leftover
    /\ visitors' = {loginRequest.token.user}
                     \cup (IF inflightRefresh = Nothing THEN {} ELSE visitors)
    /\ UNCHANGED <<booted, leaving, inflightRefresh, logoutRequest, call,
                   performed>>

\* Refused, or the request or its answer is lost: the form shows an error.
NotLoggedIn ==
    /\ loginRequest # Nothing
    /\ loginRequest' = Nothing
    /\ UNCHANGED <<page, cookie, inflightRefresh, logoutRequest, call,
                   performed, history>>

\* The answer breaks off, or fails LoginResponse.parse, behind its headers:
\* the same error, but the browser has stored the cookie.
HalfLoggedIn ==
    /\ loginRequest.pc = "granted"
    /\ loginRequest' = Nothing
    /\ CookieStored
    /\ excused' = (excused \/ Leftover)
    /\ visitors' = visitors \cup {loginRequest.token.user}
    /\ UNCHANGED <<page, inflightRefresh, logoutRequest, call, performed>>

-------------------------------------------------------------------------------
(* logout, the click handler that leaves when it settles, the sidebar's button *)

Logout ==
    /\ booted /\ ~atLogin /\ session # None /\ ~leaving
    /\ logoutRequest = Nothing
    /\ logoutRequest' = [pc |-> "sent", token |-> session]
    /\ UNCHANGED <<page, cookie, inflightRefresh, loginRequest, call,
                   performed, history>>

\* The sidebar's button asks nothing of the server: the store is cleared and the
\* page left, and the cookie stays as good as it was.
SidebarLogout ==
    /\ booted /\ ~atLogin /\ session # None /\ ~leaving
    /\ Render(None, atLogin)
    /\ leaving' = TRUE
    /\ excused' = TRUE
    /\ UNCHANGED <<booted, cookie, requests, call, performed, visitors>>

\* The server honours no refresh token of u any longer: neither the cookie of
\* the browser nor those under way with a request.
Revoked(u) ==
    /\ cookie' = IF cookie = u THEN None ELSE cookie
    /\ inflightRefresh' =
          IF inflightRefresh.pc = "sent" /\ inflightRefresh.cookie = u
          THEN [inflightRefresh EXCEPT !.cookie = None] ELSE inflightRefresh
    /\ loginRequest' =
          IF loginRequest.pc = "granted" /\ loginRequest.token.user = u
          THEN [loginRequest EXCEPT !.honoured = FALSE] ELSE loginRequest

\* Mutant: the server clears the cookie of the answer and revokes nothing.
LogoutServeNoRevocation ==
    /\ logoutRequest.pc = "sent"
    /\ IF logoutRequest.token.live
       THEN /\ logoutRequest' = [pc |-> "served"]
            /\ visitors' = visitors \ {logoutRequest.token.user}
       ELSE /\ logoutRequest' = [pc |-> "denied"]
            /\ UNCHANGED visitors
    /\ UNCHANGED <<page, cookie, inflightRefresh, loginRequest, call, performed,
                   excused>>

\* Behind JwtGuard.  Serving it revokes every refresh token, no access token.
LogoutServe ==
    /\ logoutRequest.pc = "sent"
    /\ LET token == logoutRequest.token
       IN  IF token.live
           THEN /\ logoutRequest' = [pc |-> "served"]
                /\ Revoked(token.user)
                /\ visitors' = visitors \ {token.user}
           ELSE /\ logoutRequest' = [pc |-> "denied"]
                /\ UNCHANGED <<cookie, inflightRefresh, loginRequest, visitors>>
    /\ UNCHANGED <<page, call, performed, excused>>

\* The finally of logout and of the click.
LoggedOut ==
    /\ logoutRequest' = Nothing
    /\ Render(None, atLogin)
    /\ leaving' = TRUE
    /\ excused' = TRUE
    /\ UNCHANGED <<booted, inflightRefresh, loginRequest, call, performed,
                   visitors>>

\* Only a 204 clears the cookie, whoever's it has become.
LogoutAnswered ==
    /\ logoutRequest.pc \in {"served", "denied"}
    /\ cookie' = IF logoutRequest.pc = "served" THEN None ELSE cookie
    /\ LoggedOut

LogoutLost ==
    /\ logoutRequest # Nothing
    /\ LoggedOut
    /\ UNCHANGED cookie

-------------------------------------------------------------------------------
(* The page is left, or reloaded by the visitor; the rest of the world *)

\* Memory and the requests in flight are gone; App boots again, at /login or
\* where the visitor goes.
Reload ==
    /\ booted
    /\ booted' = FALSE /\ session' = None /\ leaving' = FALSE
    /\ atLogin' \in (IF leaving THEN {TRUE} ELSE BOOLEAN)
    /\ inflightRefresh' = [pc |-> "sent", cookie |-> cookie]
    /\ loginRequest' = Nothing /\ logoutRequest' = Nothing
    /\ call' = [k \in Calls |-> IF InFlight(k) THEN [pc |-> "failed"] ELSE call[k]]
    /\ excused' = FALSE
    /\ UNCHANGED <<cookie, performed, visitors>>

\* Another tab logs in, in place of whoever the cookie was for.
OtherTab ==
    /\ \E u \in Users :
          /\ cookie' = u
          /\ visitors' = visitors \cup {u}
    /\ excused' = (excused \/ Leftover)
    /\ UNCHANGED <<page, requests, call, performed>>

\* The access token in use reaches its fifteen minutes, those of the requests
\* under way with it; one that was just signed does not.
Expire ==
    LET Dead(token) == [token EXCEPT !.live = @ /\ token # session]
    IN  /\ session # None /\ session.live
        /\ \A k \in Calls : call[k].pc = "sent" => ~call[k].again
        /\ session' = Dead(session)
        /\ call' = [k \in Calls |-> IF call[k].pc = "sent"
                                   THEN [call[k] EXCEPT !.token = Dead(@)]
                                   ELSE call[k]]
        /\ logoutRequest' = IF logoutRequest.pc = "sent"
                            THEN [logoutRequest EXCEPT !.token = Dead(@)]
                            ELSE logoutRequest
        /\ UNCHANGED <<booted, atLogin, leaving, cookie, inflightRefresh,
                       loginRequest, performed, history>>

\* A logout elsewhere or a password reset ends the refresh tokens.
Revoke(u) ==
    /\ Revoked(u)
    /\ UNCHANGED <<page, logoutRequest, call, performed, history>>

\* The account is deactivated: JwtGuard refuses the access tokens too.
Deactivate(u) ==
    LET Dead(token) == [token EXCEPT !.live = @ /\ token.user # u]
        DeadIn(request, pc) ==
            IF request.pc = pc THEN [request EXCEPT !.token = Dead(@)] ELSE request
    IN  /\ cookie' = IF cookie = u THEN None ELSE cookie
        /\ session' = IF session = None THEN None ELSE Dead(session)
        /\ inflightRefresh' =
              IF inflightRefresh.pc = "sent" /\ inflightRefresh.cookie = u
              THEN [inflightRefresh EXCEPT !.cookie = None]
              ELSE DeadIn(inflightRefresh, "answered")
        /\ loginRequest' =
              IF loginRequest.pc = "granted" /\ loginRequest.token.user = u
              THEN [DeadIn(loginRequest, "granted") EXCEPT !.honoured = FALSE]
              ELSE loginRequest
        /\ logoutRequest' = DeadIn(logoutRequest, "sent")
        /\ call' = [k \in Calls |-> DeadIn(call[k], "sent")]
        /\ UNCHANGED <<booted, atLogin, leaving, performed, history>>

\* The cookie's maxAge passes, or another tab logs out.
CookieExpires ==
    /\ cookie # None
    /\ cookie' = None
    /\ UNCHANGED <<page, requests, call, performed, history>>

-------------------------------------------------------------------------------
Settle(k) == Serve(k) \/ Finish(k) \/ Denied(k) \/ DeniedAgain(k)

SettleRefresh == RefreshServe \/ Refreshed \/ RefreshRefused

SettleLogout == LogoutServe \/ LogoutAnswered

Next ==
    \/ \E k \in Calls : Start(k) \/ Settle(k) \/ Lose(k)
    \/ SettleRefresh \/ RefreshLost
    \/ Login \/ LoginServe \/ LoggedIn \/ NotLoggedIn \/ HalfLoggedIn
    \/ Logout \/ SettleLogout \/ LogoutLost \/ SidebarLogout
    \/ Reload \/ OtherTab
    \/ Expire \/ CookieExpires
    \/ \E u \in Users : Revoke(u) \/ Deactivate(u)

\* A fetch settles, one way or another, and a page that was left is unloaded.
Fairness ==
    /\ \A k \in Calls : WF_vars(Settle(k) \/ Lose(k))
    /\ WF_vars(SettleRefresh \/ RefreshLost)
    /\ WF_vars(SettleLogout \/ LogoutLost)
    /\ WF_vars(leaving /\ Reload)

Spec == Init /\ [][Next]_vars /\ Fairness

-------------------------------------------------------------------------------
(* Properties *)

\* apiFetch keeps the promise to its callers, though all of them share one
\* refresh and each may be sent twice: whatever becomes of the token, the
\* refresh, the answers and the page, a call settles, as done only if the server
\* has done it, and the server does it once at most.
Promise == INSTANCE CallPromise WITH
    outcome <- [k \in Calls |->
        IF InFlight(k) THEN "pending" ELSE call[k].pc]

KeepsCallPromise == Promise!Spec

\* An expired access token alone never costs the visitor the session: the page
\* is left for /login only when the browser has no cookie that is honoured, unless
\* a refresh was lost on the way, the visitor asked to log out, or somebody
\* signed in over what was left of an earlier session.
SignedOutForAReason ==
    [][~leaving /\ leaving' => cookie' = None \/ excused']_vars

\* The session on the page is that of whoever signed in to the browser last,
\* here or in another tab.  A logout the server performed lasts until the next
\* login, even when its answer was lost and the cookie with it, and whatever
\* refresh it met; a login lasts, too, unless it met a refresh in flight.
SessionIsTheVisitors ==
    session # None /\ ~leaving /\ logoutRequest = Nothing =>
        session.user \in visitors

\* The app comes out of its loading screen, whatever becomes of the refresh it
\* waits for; and a logout ends the session of the page, even one that a
\* refresh has put into the store meanwhile.
NothingHangs ==
    /\ ~booted ~> booted
    /\ logoutRequest # Nothing ~> session = None

===============================================================================
