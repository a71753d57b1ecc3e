# Abra Timesheet in TLA+

A verification project for the Abra Timesheet monorepo (`src/`): a NestJS API
over Prisma and PostgreSQL, a React admin console and a React mobile app. The
modules are translated from the TypeScript sources; the specifications under
`openspec/specs` are what the code is compared with, not what it is modelled
from.

## 1. Inventory

| Component | State | Operations | Talks to |
|---|---|---|---|
| API: sessions and guards (`server/api/src/auth`) | `users` row (standing, role, password, `token_version`), JWTs held by clients | login, refresh, logout, `JwtGuard`, `RolesGuard` | every controller (global guards), both clients |
| API: users (`modules/users`) | `users` | list, create, update, reset password, deactivate, restore | sessions, through the row |
| API: catalog (`modules/clients`, `projects`, `tasks`, `assignments`) | four tables | list, read, create, update, soft delete; assignments are deleted for real | each other, through ids that a handler checks before it writes |
| API: my assignments (`modules/me`) | none | one query over the catalog, in one snapshot | catalog tables |
| API: soft-delete middleware (`prisma/prisma.service.ts`) | none | adds `deleted_at: null` to reads | every lookup |
| Admin console: session (`apps/admin/src/lib`, `App.tsx`) | in-memory session, the browser's refresh cookie, the refresh in flight | login, bootstrap, `apiFetch`, refresh, logout from the users page, logout from the sidebar | API |
| Admin console: reporting settings | search box, page, ticket of the newest request, update in progress | type, turn pages, change a report type | API |
| Admin console: list pages, forms and modals | filters, page, open dialog, request in flight | fetch, create, edit, remove | API |
| Mobile app: session, task picker | session in local storage, the browser's refresh cookie, task list | login, `authFetch`, refresh, fetch on mount | API |
| Mobile app: history | none (a static list) | | |
| Contracts, hosting proxy, entry points, seed | none at run time | | |

What is hard here:

- **The server never opens a transaction.** A handler is a lookup, a check and
  a write, with an `await` (once a bcrypt hash) between them, and any other
  handler can run there, and the clock goes on. What was read is stale when it
  is used.
- **Two kinds of tokens.** Refresh tokens carry a version and die with it;
  access tokens are stateless, carry a role, and die by the clock.
- **A soft-deleted row is hidden from lookups but not from updates.**
- **The clients hold a cache of the server behind a network**: answers are
  late, reordered or lost, several calls meet one expired token, callbacks
  run with the variables of an old render.

What makes each part correct: a refresh token proves the password of the
account and a revocation ends all of them at once; no request that comes in
after a change of role is given the old one; an address is held once and its
holder can sign in; what a handler relies on was so at some moment while it ran,
and a rule that a race does break is broken by that race only; a retry never
repeats work, nobody is signed out without cause, a served logout lasts,
a page shows the work of whoever signed in; a list that has settled is the one
its filters ask for; a form saves once. The hazards, each at its line, are in
`PROJECT.json`; those without a property say why.

## 2. Modules

| Module | Models | Extends or instantiates |
|---|---|---|
| `SessionPromise` | what the server promises about refresh sessions | |
| `AuthSessions` | `AuthService`, the guards, the handlers of `UsersService` that touch standing, role, password or version | `SessionPromise` (refinement) |
| `AuthSessionsProofs` | theorems about it | `AuthSessions` |
| `AuthSessionsRefinement` | that it implements `SessionPromise` | `AuthSessionsProofs` |
| `Directory` | the handlers of `UsersService` that look at or write e-mail addresses, the unique index, and whom login finds | |
| `DirectoryProofs` | theorems about it | `Directory` |
| `Catalog` | the writing handlers of the four catalog services | |
| `CatalogProofs` | theorems about it | `Catalog` |
| `CallPromise` | what both apps promise to callers of the API | |
| `AdminSession` | the session of one tab of the admin console | `CallPromise` (refinement) |
| `AdminSessionProofs` | theorems about it; the safety part of the refinement | `AdminSession` |
| `MobileSession` | the session of the employee app, `authFetch`, login form, task picker | `CallPromise` (refinement) |
| `MobileSessionProofs` | theorems about it; the safety part of the refinement | `MobileSession` |
| `ListQueries` | the query strings of the five list pages, their schemas, the `where` clauses and lists of the services, the pager | |
| `AdminPages` | the five list pages with their dialogs, over those lists | `ListQueries` |
| `AdminPagesProofs` | theorems about both | `AdminPages` |
| `ReportingSettings` | the reporting-settings page | |
| `ReportingSettingsProofs` | theorems about it | `ReportingSettings` |
| `MC*` | constants for TLC | the module they are named after |

How they fit: `AuthSessions` says when the server accepts a token or honours a
cookie, and the two client modules take that as a choice of the server's;
`AdminPages` and `ReportingSettings` are what goes on inside the console while
`AdminSession` lets its pages be shown; `Directory` and `Catalog` are the
tables. Passwords and addresses meet in login only, which needs both to be
right; so the two halves of the `users` table are modules of their own.

### How they correspond to the code

**`AuthSessions`.** `row` is the `users` table; `access` and `refresh` are the
tokens ever signed (a client may present any of them); `req` says where each
HTTP request is and what it has read; `now` is a coarse clock, which goes on
whatever is in progress: it can pass between the verification of a token and the
handler, and between what a token was made from and its signature. A handler is
split at its awaits: `LoginRead` is `findFirst`, `LoginSign` or `LoginReject`
what follows `bcrypt.compare`; `VerifyRefresh` checks the signature and the
expiry of the cookie, `RefreshRead` or `RefreshReject` is the lookup of its
user, `RefreshSign` the answer. Behind the guard, `VerifyAccess` is
`jwt.verify`, and the lookup of the account that follows ends in `LogoutGuard`,
`AdminGuard` (with `RolesGuard`) or `GuardReject`; then come `Logout`, or, for
the administrators' handlers, `Find` or `NotFound`, and one of `UpdateUser`, `ResetPassword`,
`DeactivateUser`, `RestoreUser`, whose `increment: 1` is part of the SQL
statement and so reads the row, not what the request has seen. `proved`,
`roleSet`, `asked` (when the request came in that signed a token) and `since`
(when a request came in) are history that no action reads.

**`Directory`.** One action per database call of `create`, `updateUser`,
`deactivateUser` and `restoreUser`. An e-mail is an address and a form: in small
letters, or as somebody typed it. `Taken` compares without the form, as the
lookups do (`mode: 'insensitive'`), `IndexAdmits` with it, as the index does,
and `LoginFinds` looks for small letters, as `LoginSchema` makes them.
`edited`, `overlapped` and `vouched` are history.

**`Catalog`.** One action per database call. `Live` is the soft-delete filter;
the writes go by id alone, as Prisma's `update` does. A handler that refuses
(404, 409, 422) returns to idle. `Relies` is what a request relies on: the name
or the ids in its body, and the task that it updates; `Fit` what it may rely on
as things stand. `vouched` is history: what the request relies on and was fit
at some moment while it has run.

**`AdminSession`.** An action is the code between two awaits. `inflightRefresh`
is the promise of `refreshSession`: the request with the cookie it was sent
with, then its answer. `Refreshed` and `NotRefreshed` run everything that waits
for it, bootstrap and calls alike, in one step, as the microtask queue does.
`Render` is what the guards of the routes make of the store: `RequireAdmin`,
`DenyNonAdmin`, `RedirectIfAdmin`. `Logout` is the button of the users page,
which asks the server; `SidebarLogout` is that of the sidebar
(`admin-sidebar.tsx:13`), which does not: the store is cleared, the page left,
and the cookie stays. `Serve`, `RefreshServe`, `LoginServe` and
`LogoutServe` are the server's side, reduced to what a tab can tell. `Expire`,
`Revoke`, `Deactivate`, `CookieExpires` and `OtherTab` are the rest of the
world. A cookie that is no longer honoured is the same as none.

**`MobileSession`.** The same style, for code that differs in what matters:
every call that meets a 401 refreshes for itself (`Denied`), with the cookie of
that moment; the refreshed token goes into whatever session is stored by then
(`Refreshed`); a refusal, or an error of the server, clears the session but
nobody leaves the page (`Refused`); a lost one keeps it (`Lost`); `Reload` keeps
session and cookie. `picker` is the state of the mounted `TaskPicker`. No route
mounts it yet; it stands where `App.tsx` has a placeholder.

**`ListQueries`.** The path of a page is a page number and the set of
parameters its query string carries; `FooPath` is `buildFooPath`,
`FooListQuery` the schema, `FooWhere` and `FooList` the service. A row meets a
filter or does not (`fits`); the text search counts as one more filter. `orderBy`
names one column, which ranks the rows and need not tell them apart (`rank`,
`Precedes`): a row can have any of the places that those it ties with share
(`Places`). `FindMany` is the set of answers there are, each query in an order
of its own.

**`AdminPages`.** An action is one callback with the render and the effects it
causes, or a step of the server. A dialog is described by five traits, read off
its source: whether a second submit is ignored, whether it can be closed while
it saves, where a failure is shown, whether a failure closes it, and whether it
waits for a list of choices. `Submit` remembers the path that the closure will
fetch afterwards. The server reads rows and total of a list in two statements.
`FollowUrl` is the effect of the tasks page on its URL: the link in the sidebar
drops the project, the Back of the browser drops it or sets it, and neither
touches the page number. `raced`, `unseen` and `misled` are history.

**`ReportingSettings`.** An action is one callback with the render and the
effects it causes. `Fetch` takes a ticket (`requestSeq`) and sends a request;
`updating.refetch` is the query of the `fetchProjects` that
`handleReportTypeChange` closed over; `stale` is history: the newest ticket was
taken by such a refetch for an older query.

## 3. Runs

| Run | Question | Bounds | Result |
|---|---|---|---|
| `sessions_one_user` | Do versions, passwords, roles and tokens stay consistent under any interleaving, and is `SessionPromise` implemented? | 1 account, 2 passwords, 2 concurrent requests, clock to 1, both refresh lifetimes, version to 2, 2 access tokens | passes |
| `sessions_two_users` | Who may act on whom while roles change; does a revocation take all of the right user's sessions? | 2 accounts, 1 password, 2 requests, clock to 1, version to 1, 2 access tokens | passes |
| `reset_ends_access` | Does a reset end access tokens, as documented? | as above, no clock | **violated** |
| `restore_finds_user` | Can a deactivated user be restored, as documented? | as above | **violated** |
| `directory` | Which race lets an address be held twice, and can it cost an account its login? | 3 accounts (1 seeded), 2 addresses in 2 forms, 2 requests | passes |
| `emails_ignore_case` | Does every live account sign in whatever the letters, as documented? | as above | **violated** |
| `catalog_interleaved` | What can two concurrent requests make of references, and of a deleted task? | 1 row per table, 2 requests | passes |
| `catalog_moves` | By which races do two clients come to one name, or a project under a client that is out of use? | 2 clients, 2 names, 1 project, 2 requests | passes |
| `admin_session` | Is `CallPromise` implemented; who is on the page, who is sent away, and why? | 1 administrator, 1 employee, 2 calls | passes |
| `mobile_session` | The same questions of `authFetch`, without single flight and over a stored session | 2 users, 2 calls | passes |
| `admin_pages` | Is the settled list the right one; what can turning its pages miss; does a form save once and close for a reason; does no spinner stay? | each of 5 pages, 3 rows (4 at most) of 2 ranks, 1 row a page, 5 inputs of which a change of the list counts twice | passes |
| `reporting_settings` | Does the newest answer win, are saved updates shown, does the spinner end? | 2 searches, 2 pages, 4 user inputs | passes |

The properties are stated, each with a comment, at the end of their module.
Those of the pages and of the sessions name their exceptions as history
variables: `ListIsRight` excepts list requests that overlapped, a refetch for an
older path and a write whose answer was lost; `SessionIsTheVisitors` and
`SessionIsOneUsers` except a login that met a refresh in flight. Each exception
is needed: without it the run fails, which is how they were found. That of
`EmptyPageHasACause` was found short when its proof was attempted: with seven
inputs instead of five, a write whose answer the page never sees, or a pager
under a list that is older than the table, leads past the end of the list.
Hence `~unseen` in it, and `ListIsCurrent` in `TurnPage`.

### Why the bounds are enough

Races here are between two requests: every check concerns one row that one other
request changes. Two requests can each be at any of their steps, and a long run
reuses them, so sequences of any length are explored; only the number of rows,
tokens and increments is bounded. `MaxVersion = 2` lets a token be outdated
twice; `MaxSessions` limits refresh tokens when a login starts (so two logins in
flight can still exceed it by one), and `MaxAccess` access tokens when one is
asked for. The clock reaches past the access tokens and the shorter refresh
lifetime and not past the longer, which is what tells them apart; it moves at
any moment, so one step is enough for a role to change, or a token to expire,
before or after it in any request. Two `apiFetch` calls share a refresh, join it
late, and each retry; two `authFetch` calls refresh at once, and one is refused
where the other succeeds. Three accounts and two addresses are two that meet on
an address and one that comes to it later. Three rows (`MaxRows` leaves room for
one more) on pages of one (`Limit`, 20 in the code) are a first, a middle and a
last page, where two rows tie across a page and others do not; five inputs on a
page are two changes of the list with a click between them, or a dialog opened,
submitted, cancelled, opened and submitted again. Four inputs on the settings
page are a search, a page turn and two updates, in every order. In `LoadingEnds`
the bound on inputs stands for a user who stops typing; with endless typing the
spinner may stay, as it should.

Symmetry is used only in runs without liveness properties: among accounts,
passwords, requests and ids, none of which the modules tell apart.
`CHECK_DEADLOCK FALSE` is used in `AuthSessions` (the bounds on clock and
versions run out), `Directory` and `Catalog` (ids run out), `AdminPages` and
`ReportingSettings` (the user stops).

### Fairness

The server modules have only safety properties and no fairness. `AdminSession`
assumes that a fetch settles one way or another (an answer, or a rejection when
the connection fails), for calls, the refresh and a logout alike, that a promise
that has settled runs its callbacks, and that a page for which
`location.assign` was called is unloaded. `MobileSession` assumes the first two
of its calls. The user is never assumed to do anything. `ReportingSettings` and
`AdminPages` assume the same of their list requests and writes, and the former
that the timer of `useDebouncedValue` fires. `CallPromise` states the liveness
that both sessions are shown to implement: a call that was started settles.

### What was found

Runs that expect a violation show where a document and the code differ:

- **Restore does not work** (`users.service.ts:210`): the lookup goes through
  the soft-delete filter, so a deactivated user is answered 404.
- **A password reset does not end access tokens** (`jwt.guard.ts:55`): the
  guard compares no version; they live until they expire.
- **An e-mail edited with a capital letter locks its account out**
  (`users.service.ts:152`): it is stored as typed, and login looks for small
  letters only. Under a race it even lets two live accounts share an address.

Other facts met while modelling, which a passing property states the scope of
or the hazards list:

- An administrator who is demoted while a refresh is being answered gets one
  more administrator token, dated after the demotion (`auth.service.ts:72`): it
  was asked for before (`StaleRoleIsOld`), and works for its fifteen minutes. Only
  then, and by the time that its signing took, does an outdated role last longer
  than an access token does (`AdminWorkIsAuthorized`).
- Client names are not unique when two requests race (`clients.service.ts:79`):
  each found the name free at some moment while it ran (`ClientNamesAreVouched`).
- A deleted task is open again when an update that found it live writes after the
  deletion (`tasks.service.ts:116`); there is no other way to it
  (`DeletedTasksReopenByRace`).
- A project comes under a client that is out of use when an update names the
  client that the project had when it was read (`projects.service.ts:110`) and
  other requests have moved it, and deactivated that client, meanwhile
  (`ProjectMovesAreVouched`).
- A closed task can be assigned (`assignments.service.ts:87`), against VAL-26 in
  `openspec/specs/assignments-management/spec.md:104`.
- A logout that fails, or is refused for an expired access token, is undone by
  the reload (`admin/src/lib/api.ts:84`): only the server can clear the cookie,
  so bootstrap signs the visitor in again. `SessionIsTheVisitors` speaks of
  logouts that were served.
- The logout of the sidebar (`admin-sidebar.tsx:13`) sends no request at all and
  ends in the same state as one whose request was lost: `/login` finds the cookie
  still good, and bootstrap signs the visitor in again.
- `DenyNonAdmin` clears the session without a reload, so that a refresh or retry
  of the session before can overwrite, or sign out, whoever logs in next.
- The settings list can stick to an old search
  (`reporting-settings-page.tsx:65`): the refetch of a handler closes over an
  old query and takes the newest ticket (`stale`).
- The five list pages have no ticket at all: an answer to an older query that
  comes last stays on display (`raced`).
- A page past the end hides table and pager (`misled`). Deleting the last row of
  the last page leads there, and so does the Back of the browser to a URL of the
  tasks page with a project: the effect (`tasks-page.tsx:61`) sets the filter and
  leaves the page number as it was.
- No list breaks ties (`orderBy` names one column, `users.service.ts:57` and its
  like) and each page is a query of its own, so turning the pages can show a row
  twice and miss another that ties with it (`PagesLoseOnlyTies`).
- Modals that can be cancelled while they save close whichever dialog of their
  kind is open when the answer comes, and two confirmations can be clicked
  twice.
- On the mobile app an error of the server during a refresh drops the session
  like a refusal (`api.ts:40`), and nobody is sent to `/login?expired=1`, as the
  comment at `api.ts:45` expects of callers.
- `updateUser` ignores the employment fields that its schema accepts.
- The edit form of a task sends a cleared description as `null`, which
  `UpdateTaskBodySchema` refuses.

## 4. Proofs

Eight modules hold theorems, checked by TLAPS for any sets of users, requests,
calls, rows and addresses and for any bounds. What is assumed of the constants
is named in the modules that declare them and evaluated by TLC in every run:
lifetimes and page sizes are positive (`TTLAssumption`, `LimitAssumption`),
bounds are naturals (`BoundAssumption`, where `AdminPages` starts with three
rows), what a column ranks rows by are some integers (`RanksAssumption`), pages
of the settings list count from 1 (`PageAssumption`), the seeded addresses differ
(`SeededAssumption`), and a value that stands for "nothing" is none of the values
it is compared with (`NoneAssumption`, `UndefinedAssumption`; in the client
modules they were added for the proofs). The bounds on clock, versions and inputs
are parameters: no theorem depends on their being small.

Every proof has one shape. The property is not inductive; it follows from an
invariant about what is *in progress*, which TLC was given first, and which is
shown for the initial states and for each action. What follows names that
invariant and says why it holds.

### Server

| Module | Theorems |
|---|---|
| `AuthSessionsProofs` | `TypeCorrect`, `VersionsCorrect`, `HonouredProvesPasswordAlways`, `RolesCorrect`, `StaleRoleIsOldAlways`, `AdminWorkIsAuthorizedAlways`, `RevocationIsTotalAlways` |
| `AuthSessionsRefinement` | `AuthSessionsKeepsPromise`: `Spec => KeepsPromise` |
| `DirectoryProofs` | `TypeCorrect`, `CreatedAccountsCanSignInAlways`, `AddressesAreVouchedAlways`, `TwinsNeedARaceAlways` |
| `CatalogProofs` | `TypeCorrect`, `ReferencesAreVouchedAlways`, `ClientNamesAreVouchedAlways`, `ProjectMovesAreVouchedAlways`, `DeletedTasksReopenByRaceAlways` |

*Sessions.* `HonouredProvesPassword` speaks of tokens that are accepted now: a
login that has read the row and still waits for bcrypt will sign a token later,
from what it saw, and a restoration makes an inactive account acceptable again.
`VersionsAreCurrent` says of every refresh token *and every login in flight*
that its version is at most the row's, and that if it equals it, the account is
usable and the password is the one that was proved. It is inductive because
logout, reset and deactivation each move the version in the same statement as
what they change, and no other step changes a password, closes an account or
lowers a version. `LoginSign` then signs what was current or outdated, and
outdated stays outdated.

*Roles.* An outdated role is dated by the request that asked for it, not by the
signature, which can come at any time after. `SignersAreOld` says of a login or
refresh in flight that has seen a role which the row has lost that it came in no
later than the change; whoever comes in later reads the new role. So the token
it signs, however late, satisfies `StaleRoleIsOld`. A caller the guard admitted
presented a token that had not expired when the request came in: together, the
request came in less than `AccessTTL`, and the time its token took to sign,
after the change (`AdminWorkIsAuthorized`). `RolesAreRecent` is the conjunction,
with the order of `asked`, `iat`, `since` and `now`.

*Refinement.* Under `VersionsAreCurrent` a refresh token is honoured exactly
when it is unexpired and its version is the row's. The proof maps a login in
flight to a pending check while its version is current, each revocation of `u`
to `Revoke(u)`, `LoginSign` to `Issue` or `IssueDead`, and every other step to
a stutter or to `Pass`.

*Addresses.* Two things let the owner of an unedited account sign in, however
requests race: the index, which compares e-mails as written (`IndexHolds`), and
`create`, which writes small letters only (`LowerUntilEdited`, which has to
cover the creations in progress). The lookup of a handler is stale when it
writes; `ChecksAreVouched` keeps that the address was free at some moment.
`RaceInv` shows that a race is the only way to twins: until two requests have
overlapped, what the one in progress has looked up is still so (`AloneSince`).

*Catalog.* Rows are marked as deleted and never removed, so what a request
names is still in its table when it writes and no reference dangles
(`RowsInv`). `ChecksAreVouched` follows a request through its lookups and checks:
after each of them `vouched` has one more of what the request relies on
(`Vouches`), and nothing is left out at the write; what other requests do in
between can make it stale and does not take it out. The four properties follow
for any number of requests: three say that what is written was fit at some moment
of the request, which bounds the damage that a race can do, and the fourth that
a deleted task is opened by one race only.

### Clients

| Module | Theorems |
|---|---|
| `AdminSessionProofs` | `TypeCorrect`, `CallsKeepPromise`, `SignedOutForAReasonAlways`, `SessionIsTheVisitorsAlways` |
| `MobileSessionProofs` | `TypeCorrect`, `CallsKeepPromise`, `PickerFollowsItsCallAlways`, `SessionsComeFromLoginAlways`, `SessionIsOneUsersAlways`, `SignedOutOnlyIfRevokedAlways` |
| `AdminPagesProofs` | `TypeCorrect`, `ListIsRightAlways`, `PagesLoseOnlyTiesAlways`, `EmptyPageHasACauseAlways`, `SavingIsOneWriteAlways`, `DialogsCloseForAReasonAlways` |
| `ReportingSettingsProofs` | `TypeCorrect`, `NewestAnswerIsShownAlways`, `OwnUpdatesAreShownAlways` |

*Calls.* `CallsKeepPromise` is the safety part of `KeepsCallPromise`: initial
states map to initial states of `CallPromise` and every step to one of its
steps or a stutter. A retry repeats no work because a call is sent again only
after a refusal, before anything was performed (`CallsInv` counts). In
`AdminSession` one answer ends many calls in one step, which the promise allows
for failures only; `CallsMove` is that case distinction.

*Who is on the page.* `SessionIsTheVisitors` needs to know of everything that
can still become the session: the cookie, the cookie that a refresh was sent
with, its answer (`VisitorsInv`). Similarly nobody is sent to `/login` without
cause because a refresh in flight and a call sent again each go with the cookie
(`CookieInv`). In `MobileSession`, where calls refresh for themselves, session,
cookie, refreshes and picker have one owner (`OneOwner`), and while the server
honours the cookie it honours that of every refresh in flight
(`NobodyIsSignedOut`), so that no lost message signs anybody out.

*Lists.* `PagesLoseOnlyTiesAlways` is about the operators of `ListQueries`. Rows
that tie share an interval of places as long as they are many, intervals of rows
that do not tie are disjoint, and together they are the numbers from 1 to the
count of the rows that match (`PlacesFollow`, `PlacesAreAsMany`, `PlacesTie`). An
order of the rows exists, so that every query has an answer (`AnOrderExists`,
`AnAnswerExists`); whatever the answer is, rows whose places all lie on the page
are in it, for those that tie with one have no room to fill its place
(`SureRowsAreFound`, by counting). What a page asks for arrives at the database
unchanged, through path, schema and `buildWhere` (`FiltersArrive`, `OrderArrives`,
`FoundAreSelected`), for each of the five pages; and page `p` has the places
above `(p - 1) * Limit` up to `p * Limit` (`PageHoldsItsPlaces`).
`ListIsRightAlways` rests on `ListInv`: unless requests have met there is one,
for the present path (`OneFlight`); while no write is done that the page was not
told of, what was read for it is what would be read now (`UpToDate`); and the
page that the visitor is on is the first or has rows (`PageHasRows`).
`TypeCorrect` is not trivial there: the pager counts from the list on display,
so that it never leads to a page beyond the last row is part of it.

*Dialogs.* Writes carry the opening of the dialog that submitted them. One
opening has one kind (`OneKind`); a dialog that ignores a second submit saves
just when one write of it is under way (`Sole`); and one that cannot be closed
while it saves is there as long as its write is (`HeldStays`), so that an answer
never closes a held dialog of another opening.

*Settings.* Each input pays for the requests it may cause (`BudgetInv`), which
bounds the tickets; tickets are taken in order (`TicketsInv`); and the newest
request is under way, on display or failed (`NewestInv`), whatever order the
answers come in.

### Only model-checked

Everything about liveness, which is out of the prover's reach, as is `ENABLED`:
the fairness half of `KeepsCallPromise`, `NothingHangs`, `LoadingEnds`,
`NothingSpins`. The runs that expect a violation show what fails, and have
nothing to prove.

## 5. What is not modelled, and why

- Clock skew: deployments are taken to have one clock. `iat` and `exp` count
  seconds, which the units of `now` stand for, whatever their length.
- Changes of role while a console is open (`AdminSession`); `AuthSessions` has
  them on the server's side. A second tab of the employee app.
- A request that a page left behind and that the server performs after the
  page was unloaded; `Revoke` stands for the one case the next page can tell.
- What is typed into a form, its validation and messages. Rows that others write
  while a list page is open.
- The detail reads (`GET /clients/:id` and its like): no page calls them.
- `seed.ts` beyond the accounts: it empties the tables for good before it fills
  them, and runs before the server does.
- Wording, layout, styling, status codes that change no state, the hosting
  proxy (stateless), the serverless entry (its differences from `main.ts` are
  listed as hazards), the history of the employee app (a static list), time
  entries, absences, month locks and audit logs (they exist in the schema and in
  no code).

## 6. Plan

1. *Done*: `SessionPromise`, `AuthSessions` with proofs and refinement;
   `Catalog`; `AdminSession`; `ReportingSettings`.
2. *Done*: `Directory`; `CallPromise` and the two sessions that implement it,
   `AdminSession` now with employees and other tabs, and `MobileSession`;
   `ListQueries` and `AdminPages`.
3. *Done*: theorems about all of them; every invariant of a passing run and
   every action property is stated by one.
4. *Done*: the clock runs while requests do; what `Catalog` promises when requests
   overlap, as a bound on the damage of each race; ties in the order of the lists.
5. *Next*: the lists of `ReportingSettings` against the server's query as those
   of `AdminPages` are; whom login finds (`Directory`) joined with what a token
   proves (`AuthSessions`).

Runs are few by intention, one per question.
