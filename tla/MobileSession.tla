----------------------------- MODULE MobileSession -----------------------------
(***************************************************************************)
(* The employee app: the session persisted in localStorage, the login      *)
(* form, authFetch with its refresh and retry on 401, and the task picker  *)
(* that calls it.  No route mounts the picker yet; it is taken to stand    *)
(* where App.tsx has its dashboard placeholder.                            *)
(*                                                                         *)
(* An action is the code between two awaits.  Other than in the admin      *)
(* console every call has a refresh of its own, the session outlives a     *)
(* reload, and a lost refresh is not a refused one.  Whether the server    *)
(* accepts an access token is left open at every request: it may expire,   *)
(* or its owner be deactivated, at any time.  One tab.                     *)
(***************************************************************************)
EXTENDS Naturals

CONSTANTS
    Users,
    Calls,      \* bound of the model: the calls of authFetch
    None

VARIABLES
    screen,         \* the route on display
    session,        \* localStorage: whose session, and whose access token
    cookie,         \* the refresh cookie: its owner, and whether it is honoured
    picker,         \* state of the mounted TaskPicker, and its call
    call,           \* where each authFetch is
    performed,      \* how often the server has performed it
    loginRequest,
    crossed,        \* history, read by no action: a login met what was left of
    erred,          \* a session before it; a refresh was answered with an error
    signedIn        \* of the server; the last login was completed

browser == <<session, cookie>>
history == <<crossed, erred, signedIn>>
vars == <<screen, session, cookie, picker, call, performed, loginRequest,
          crossed, erred, signedIn>>

-------------------------------------------------------------------------------
Session == [user : Users, token : Users]
Cookie == [owner : Users, honoured : BOOLEAN]
Picker == [call : Calls, loading : BOOLEAN, error : BOOLEAN,
           shown : Users \cup {None}]   \* whose assignments are on display

ASSUME NoneAssumption == None \notin Users \cup Session \cup Cookie \cup Picker

Call == [pc : {"sent"}, token : Users, again : BOOLEAN]
          \cup [pc : {"ok"}, token : Users, again : BOOLEAN]
          \cup [pc : {"denied"}, again : BOOLEAN]
          \cup [pc : {"refreshing"}, cookie : Cookie \cup {None}]
          \cup [pc : {"refreshed"}, token : Users]
          \cup [pc : {"idle", "refused", "done", "failed"}]

LoginRequest == [pc : {"none", "refused"}] \cup [pc : {"sent"}, user : Users]
                  \cup [pc : {"granted"}, cookie : Cookie]

TypeOK ==
    /\ screen \in {"login", "home"}
    /\ session \in Session \cup {None}
    /\ cookie \in Cookie \cup {None}
    /\ picker \in Picker \cup {None}
    /\ screen = "login" <=> picker = None
    /\ call \in [Calls -> Call]
    /\ performed \in [Calls -> 0..2]
    /\ loginRequest \in LoginRequest
    /\ crossed \in BOOLEAN /\ erred \in BOOLEAN /\ signedIn \in BOOLEAN

Settled(k) == call[k].pc \in {"done", "failed"}
InFlight(k) == call[k].pc # "idle" /\ ~Settled(k)
Honoured(c) == c # None /\ c.honoured

\* A device on which nobody has signed in.
Init ==
    /\ screen = "login"
    /\ session = None /\ cookie = None /\ picker = None
    /\ call = [k \in Calls |-> [pc |-> "idle"]]
    /\ performed = [k \in Calls |-> 0]
    /\ loginRequest = [pc |-> "none"]
    /\ crossed = FALSE /\ erred = FALSE /\ signedIn = FALSE

-------------------------------------------------------------------------------
(* Routes.  The picker fetches when it is mounted. *)

Moves(k, state) == call' = [call EXCEPT ![k] = state]

\* TaskPicker's effect, with the token that is stored as it runs.
Mount(k, stored) ==
    /\ call[k].pc = "idle"
    /\ Moves(k, [pc |-> "sent", again |-> FALSE,
                 token |-> IF stored = None THEN None ELSE stored.token])
    /\ picker' = [call |-> k, loading |-> TRUE, error |-> FALSE, shown |-> None]

\* Mutant: the route is not protected.
GoHomeUnprotected(k) ==
    /\ screen = "login"
    /\ screen' = "home"
    /\ Mount(k, session)
    /\ UNCHANGED <<browser, performed, loginRequest, history>>

\* ProtectedRoute lets the visitor to "/" if a session is stored.
GoHome(k) ==
    /\ screen = "login"
    /\ session # None
    /\ screen' = "home"
    /\ Mount(k, session)
    /\ UNCHANGED <<browser, performed, loginRequest, history>>

\* Back in the history of the tab, or ProtectedRoute sends the visitor away.
\* The call of the picker goes on without it.
GoLogin ==
    /\ screen = "home"
    /\ screen' = "login"
    /\ picker' = None
    /\ UNCHANGED <<browser, call, performed, loginRequest, history>>

\* What was in memory is gone; localStorage and the cookie stay.
Reload ==
    /\ screen' = "login"
    /\ picker' = None
    /\ call' = [k \in Calls |->
          IF InFlight(k) THEN [pc |-> "failed"] ELSE call[k]]
    /\ loginRequest' = [pc |-> "none"]
    /\ UNCHANGED <<browser, performed, history>>

-------------------------------------------------------------------------------
(* authFetch *)

\* Mutant: the flag isMounted is not asked.
PickerHearsUnmounted(k, shown) ==
    picker' = IF picker # None
              THEN [picker EXCEPT !.loading = FALSE, !.error = (shown = None),
                                  !.shown = IF shown = None THEN @ ELSE shown]
              ELSE None

\* The then, catch and finally of the picker, if it is still mounted.
PickerHears(k, shown) ==
    picker' = IF picker # None /\ picker.call = k
              THEN [picker EXCEPT !.loading = FALSE, !.error = (shown = None),
                                  !.shown = shown]
              ELSE picker

\* authFetch settles: with an answer that lists the tasks of "shown", or with
\* one that is not ok or a rejection.
Settle(k, shown) ==
    /\ Moves(k, [pc |-> IF shown = None THEN "failed" ELSE "done"])
    /\ PickerHears(k, shown)

\* JwtGuard accepts the token, and the answer is for its owner; or 401.
Serve(k) ==
    /\ call[k].pc = "sent"
    /\ \/ /\ Moves(k, [call[k] EXCEPT !.pc = "ok"])
          /\ performed' = [performed EXCEPT ![k] = @ + 1]
       \/ /\ Moves(k, [pc |-> "denied", again |-> call[k].again])
          /\ UNCHANGED performed
    /\ UNCHANGED <<screen, browser, picker, loginRequest, history>>

Answered(k) ==
    /\ \/ call[k].pc = "ok" /\ Settle(k, call[k].token)
       \/ call[k].pc = "denied" /\ call[k].again /\ Settle(k, None)
    /\ UNCHANGED <<screen, browser, performed, loginRequest, history>>

\* Mutant: a call whose request was lost is sent again.
LostRetries(k) ==
    /\ InFlight(k)
    /\ IF call[k].pc = "ok" /\ ~call[k].again
       THEN Moves(k, [pc |-> "sent", token |-> call[k].token, again |-> TRUE])
            /\ UNCHANGED picker
       ELSE Settle(k, None)
    /\ UNCHANGED <<screen, browser, performed, loginRequest, history>>

\* The request, its answer or the refresh is lost: authFetch rejects, and the
\* session stays.
Lost(k) ==
    /\ InFlight(k)
    /\ Settle(k, None)
    /\ UNCHANGED <<screen, browser, performed, loginRequest, history>>

\* tryRefresh, one for every call that meets a 401, with the cookie of the
\* moment it is sent.
Denied(k) ==
    /\ call[k].pc = "denied" /\ ~call[k].again
    /\ Moves(k, [pc |-> "refreshing", cookie |-> cookie])
    /\ UNCHANGED <<screen, browser, picker, performed, loginRequest, history>>

\* "!res.ok" does not tell a refused cookie from an error of the server.
RefreshServe(k) ==
    /\ call[k].pc = "refreshing"
    /\ \/ /\ Honoured(call[k].cookie)
          /\ Moves(k, [pc |-> "refreshed", token |-> call[k].cookie.owner])
          /\ UNCHANGED erred
       \/ /\ ~Honoured(call[k].cookie)
          /\ Moves(k, [pc |-> "refused"])
          /\ UNCHANGED erred
       \/ /\ Moves(k, [pc |-> "refused"])
          /\ erred' = TRUE
    /\ UNCHANGED <<screen, browser, picker, performed, loginRequest, crossed,
                   signedIn>>

\* Mutant: authFetch keeps the session it began with and stores it again.
RefreshedStores(k) ==
    /\ call[k].pc = "refreshed"
    /\ session' = [user |-> call[k].token, token |-> call[k].token]
    /\ Moves(k, [pc |-> "sent", token |-> call[k].token, again |-> TRUE])
    /\ UNCHANGED <<screen, cookie, picker, performed, loginRequest, history>>

\* The session that is stored by now, if any, gets the token; the retry has it
\* in any case.
Refreshed(k) ==
    /\ call[k].pc = "refreshed"
    /\ session' = IF session = None THEN None
                  ELSE [session EXCEPT !.token = call[k].token]
    /\ Moves(k, [pc |-> "sent", token |-> call[k].token, again |-> TRUE])
    /\ UNCHANGED <<screen, cookie, picker, performed, loginRequest, history>>

\* Mutant: a rejected refresh is treated like a refused one.
RefusedOrLost(k) ==
    /\ call[k].pc \in {"refreshing", "refused"}
    /\ session' = None
    /\ Settle(k, None)
    /\ UNCHANGED <<screen, cookie, performed, loginRequest, history>>

\* SessionExpiredError.  The picker shows its error; nobody leaves for /login.
Refused(k) ==
    /\ call[k].pc = "refused"
    /\ session' = None
    /\ Settle(k, None)
    /\ UNCHANGED <<screen, cookie, performed, loginRequest, history>>

-------------------------------------------------------------------------------
(* LoginForm.  Whoever has a session can still go to /login and sign in. *)

Login ==
    /\ screen = "login"
    /\ loginRequest.pc = "none"
    /\ \E u \in Users : loginRequest' = [pc |-> "sent", user |-> u]
    /\ UNCHANGED <<screen, browser, picker, call, performed, history>>

LoginServe ==
    /\ loginRequest.pc = "sent"
    /\ loginRequest' \in
          {[pc |-> "refused"],
           [pc |-> "granted",
            cookie |-> [owner |-> loginRequest.user, honoured |-> TRUE]]}
    /\ UNCHANGED <<screen, browser, picker, call, performed, history>>

\* What is left of an earlier session and may mix with the new one: a picker
\* that stays mounted, a refresh that was sent with the earlier cookie.
Leftover ==
    \/ picker # None
    \/ \E k \in Calls : call[k].pc \in {"refreshing", "refreshed", "refused"}

\* Mutant: the user who is stored already is kept.
LoggedInKeepsUser ==
    /\ loginRequest.pc = "granted"
    /\ loginRequest' = [pc |-> "none"]
    /\ cookie' = loginRequest.cookie
    /\ session' = [user |-> IF session = None THEN cookie'.owner
                            ELSE session.user,
                   token |-> cookie'.owner]
    /\ screen' = "home"
    /\ \/ screen = "home" /\ UNCHANGED <<picker, call>>
       \/ screen = "login" /\ \E k \in Calls : Mount(k, session')
    /\ crossed' = (crossed \/ Leftover)
    /\ signedIn' = TRUE
    /\ UNCHANGED <<performed, erred>>

\* setAuthSession and navigate('/'), which remounts nothing if the visitor has
\* gone home meanwhile.
LoggedIn ==
    /\ loginRequest.pc = "granted"
    /\ loginRequest' = [pc |-> "none"]
    /\ cookie' = loginRequest.cookie
    /\ session' = [user |-> cookie'.owner, token |-> cookie'.owner]
    /\ screen' = "home"
    /\ \/ screen = "home" /\ UNCHANGED <<picker, call>>
       \/ screen = "login" /\ \E k \in Calls : Mount(k, session')
    /\ crossed' = (crossed \/ Leftover)
    /\ signedIn' = TRUE
    /\ UNCHANGED <<performed, erred>>

\* Refused, or lost: the form shows one error for everything.
NotLoggedIn ==
    /\ loginRequest.pc # "none"
    /\ loginRequest' = [pc |-> "none"]
    /\ UNCHANGED <<screen, browser, picker, call, performed, history>>

\* The body does not arrive, or LoginResponse.parse refuses it; the browser has
\* the cookie.
HalfLoggedIn ==
    /\ loginRequest.pc = "granted"
    /\ loginRequest' = [pc |-> "none"]
    /\ cookie' = loginRequest.cookie
    /\ crossed' = (crossed \/ Leftover \/ session # None)
    /\ signedIn' = FALSE
    /\ UNCHANGED <<screen, session, picker, call, performed, erred>>

-------------------------------------------------------------------------------
CookieExpires ==
    /\ cookie' = None
    /\ UNCHANGED <<screen, session, picker, call, performed, loginRequest, history>>

\* A logout elsewhere, a password reset or a deactivation of u: the server
\* honours none of its cookies any more, those under way with a request either.
Revoke(u) ==
    LET Dead(c) == IF c # None /\ c.owner = u
                   THEN [c EXCEPT !.honoured = FALSE] ELSE c
    IN  /\ cookie' = Dead(cookie)
        /\ call' = [k \in Calls |-> IF call[k].pc = "refreshing"
                                    THEN [call[k] EXCEPT !.cookie = Dead(@)]
                                    ELSE call[k]]
        /\ loginRequest' = IF loginRequest.pc = "granted"
                           THEN [loginRequest EXCEPT !.cookie = Dead(@)]
                           ELSE loginRequest
        /\ UNCHANGED <<screen, session, picker, performed, history>>

Goes(k) ==
    \/ Serve(k) \/ Answered(k) \/ Denied(k)
    \/ RefreshServe(k) \/ Refreshed(k) \/ Refused(k)

Next ==
    \/ \E k \in Calls : GoHome(k) \/ Goes(k) \/ Lost(k)
    \/ GoLogin \/ Reload
    \/ Login \/ LoginServe \/ LoggedIn \/ NotLoggedIn \/ HalfLoggedIn
    \/ CookieExpires
    \/ \E u \in Users : Revoke(u)

\* A fetch is answered or rejects in the end, and a promise that has settled
\* runs its callbacks.
Fairness == \A k \in Calls : WF_vars(Goes(k) \/ Lost(k))

Spec == Init /\ [][Next]_vars /\ Fairness

-------------------------------------------------------------------------------
\* authFetch keeps the promise to its callers, though every call refreshes for
\* itself and a 401 can be answered twice.
Promise == INSTANCE CallPromise WITH
    outcome <- [k \in Calls |->
        IF call[k].pc \in {"idle", "done", "failed"} THEN call[k].pc
        ELSE "pending"]

KeepsCallPromise == Promise!Spec

\* The picker says that it is loading just as long as its call goes on, and
\* then shows tasks or an error, whichever calls of earlier pickers are left.
PickerFollowsItsCall ==
    picker # None =>
        /\ picker.loading <=> InFlight(picker.call)
        /\ ~picker.loading => (picker.error <=> picker.shown = None)

\* The stored access token belongs to the stored user, and the tasks on display
\* are that user's, unless a login met calls of the session before it or its
\* answer was cut off behind the cookie.
SessionIsOneUsers ==
    session # None /\ ~crossed =>
        /\ session.token = session.user
        /\ picker # None => picker.shown \in {None, session.user}

\* Lost messages never sign anybody out: a session that has gone was dropped
\* because the cookie was no longer honoured, or the server erred.
SignedOutOnlyIfRevoked ==
    session = None /\ signedIn /\ ~crossed /\ ~erred => ~Honoured(cookie)

\* Several calls refresh at once; when one is refused and the session cleared,
\* none of the others brings it back.
SessionsComeFromLogin ==
    [][session = None /\ session' # None => loginRequest.pc = "granted"]_vars

===============================================================================
