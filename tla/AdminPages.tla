------------------------------- MODULE AdminPages -------------------------------
(***************************************************************************)
(* The list pages of the admin console: users, clients, projects, tasks    *)
(* and assignments, with their filters, table, pager and the dialogs that  *)
(* write.  Every page fetches its list in an effect on its path, without a *)
(* ticket, and again when a write has been answered, with the path of the  *)
(* render in which the write was submitted.                                *)
(*                                                                         *)
(* An action is one callback with the render and the effects it causes, or *)
(* one step of the server.  What interleaves is the visitor, the answers   *)
(* of the network, which come in any order or not at all, and the two      *)
(* reads of which the server makes a list.  A behaviour stays on one page. *)
(*                                                                         *)
(* Left out: what is typed in a dialog, its validation and its messages;   *)
(* an answer 401, on which apiFetch leaves the page (module AdminSession); *)
(* writes of others.                                                       *)
(***************************************************************************)
EXTENDS ListQueries

CONSTANTS
    None,
    Ranks,          \* what the column that a list is sorted by can rank rows as
    MaxRows,        \* bound of the model: rows of a table, which starts with 3
    MaxInputs       \* bound of the model: clicks and keys, those that change
                    \* what the page lists counting twice

ASSUME RanksAssumption == Ranks \subseteq Int /\ Ranks # {}

ASSUME BoundAssumption == MaxRows \in Nat /\ MaxRows >= 3 /\ MaxInputs \in Nat

VARIABLES
    screen,         \* the page
    query,          \* page, search box, filters and order of the component
    loading, error,
    result,         \* the list on display, None before the first answer
    dialog,         \* the form, modal or confirmation that is open
    flights,        \* list requests without an answer yet, oldest first
    writes,         \* what dialogs have submitted, likewise
    table,          \* the rows in the database
    inputs,
    raced,          \* history, read by no action: the newest list request met
    unseen,         \* another one or was for an older path; a write that was
    misled          \* done may not be on display; the page may be past the end

component == <<query, loading, error, result, dialog>>
history == <<raced, unseen, misled>>
vars == <<screen, query, loading, error, result, dialog, flights, writes,
          table, inputs, raced, unseen, misled>>

-------------------------------------------------------------------------------
(* The dialogs.  once: a second submit is ignored while the first is under  *)
(* way; held: nor can the dialog be closed; inside: a failure is shown in   *)
(* the dialog, not on the page; shuts: a failure closes it, too; picks:     *)
(* there is nothing to submit until a list of choices has been loaded.      *)

CreateForm(picks) ==
    [once |-> TRUE, held |-> TRUE, inside |-> TRUE, shuts |-> FALSE, picks |-> picks]
Modal(held) ==
    [once |-> TRUE, held |-> held, inside |-> TRUE, shuts |-> FALSE, picks |-> FALSE]
Confirmation(guarded, shuts) ==
    [once |-> guarded, held |-> guarded, inside |-> FALSE, shuts |-> shuts,
     picks |-> FALSE]

UsersCreateForm == CreateForm(FALSE)
ClientCreateForm == CreateForm(FALSE)
ProjectCreateForm == CreateForm(TRUE)
TaskCreateForm == CreateForm(TRUE)
AssignmentCreateForm == CreateForm(TRUE)

EditUserModal == Modal(FALSE)
ResetPasswordModal == Modal(FALSE)
DeactivateUserModal == Modal(FALSE)
RestoreUserModal == Modal(FALSE)
ClientEditModal == Modal(FALSE)
ProjectEditModal == Modal(TRUE)
TaskEditModal == Modal(FALSE)

ClientDeactivation == Confirmation(FALSE, TRUE)
ProjectRemoval == Confirmation(TRUE, FALSE)
TaskDeactivation == Confirmation(FALSE, FALSE)
AssignmentRemoval == Confirmation(FALSE, FALSE)

\* TaskCreateForm of the projects page has its project chosen already.
AddTask == CreateForm(FALSE)

UsersDialogs ==
    [create |-> UsersCreateForm, edit |-> EditUserModal,
     reset |-> ResetPasswordModal, deactivate |-> DeactivateUserModal,
     restore |-> RestoreUserModal]
ClientsDialogs ==
    [create |-> ClientCreateForm, edit |-> ClientEditModal,
     deactivate |-> ClientDeactivation]
ProjectsDialogs ==
    [create |-> ProjectCreateForm, edit |-> ProjectEditModal,
     remove |-> ProjectRemoval, addTask |-> AddTask]
TasksDialogs ==
    [create |-> TaskCreateForm, edit |-> TaskEditModal,
     deactivate |-> TaskDeactivation]
AssignmentsDialogs ==
    [create |-> AssignmentCreateForm, remove |-> AssignmentRemoval]

DialogsOf(page) ==
    CASE page = "users" -> UsersDialogs
      [] page = "clients" -> ClientsDialogs
      [] page = "projects" -> ProjectsDialogs
      [] page = "tasks" -> TasksDialogs
      [] page = "assignments" -> AssignmentsDialogs

Kinds == UNION {DOMAIN DialogsOf(s) : s \in Screens}
Trait(kind) == DialogsOf(screen)[kind]

\* The buttons of a row, by what the row says as it is displayed.
UsersActions(row) ==
    {"edit", "reset", IF "isActive" \in row.fits THEN "deactivate" ELSE "restore"}
ClientsActions(row) ==
    {"edit"} \cup (IF "isActive" \in row.fits THEN {"deactivate"} ELSE {})
ProjectsActions(row) ==
    IF row.deleted THEN {} ELSE {"edit", "remove", "addTask"}
TasksActions(row) ==
    {"edit"} \cup (IF "status" \in row.fits THEN {"deactivate"} ELSE {})
AssignmentsActions(row) == {"remove"}

ActionsOf(row) ==
    CASE screen = "users" -> UsersActions(row)
      [] screen = "clients" -> ClientsActions(row)
      [] screen = "projects" -> ProjectsActions(row)
      [] screen = "tasks" -> TasksActions(row)
      [] screen = "assignments" -> AssignmentsActions(row)

-------------------------------------------------------------------------------
Params == (UNION {FiltersOf(s) : s \in Screens}) \cup {"q", "desc"}

Row == [fits : SUBSET Params, deleted : BOOLEAN, rank : Ranks]
Shown == [id : 1..MaxRows, row : Row]
Query == [page : 1..MaxRows, text : Texts, on : SUBSET Params]
PathRecord == [page : 1..MaxRows, params : SUBSET Params]

\* A list as the server reads it: the rows in one statement, their number in
\* another.
IsFlight(f) ==
    /\ DOMAIN f = {"path", "rows", "total"}
    /\ f.path \in PathRecord
    /\ f.rows = None \/ \A i \in DOMAIN f.rows : f.rows[i] \in Shown
    /\ f.total \in 0..MaxRows \cup {None}

\* "opened" tells one opening of a dialog from another.
Dialog == [kind : Kinds, id : 1..MaxRows \cup {None}, opened : 1..MaxInputs,
           ready : BOOLEAN, saving : BOOLEAN]

ASSUME NoneAssumption == None \notin Dialog

\* "path" is the one that the closure of the submit fetches afterwards.
Write == [kind : Kinds, id : 1..MaxRows \cup {None}, opened : 1..MaxInputs,
          path : PathRecord, state : {"sent", "done", "refused"}]

TypeOK ==
    /\ screen \in Screens
    /\ query \in Query
    /\ loading \in BOOLEAN /\ error \in BOOLEAN
    /\ result = None \/ IsFlight(result)
    /\ dialog \in Dialog \cup {None}
    /\ \A i \in DOMAIN flights : IsFlight(flights[i])
    /\ \A i \in DOMAIN writes : writes[i] \in Write
    /\ Len(table) \in 0..MaxRows
    /\ \A n \in DOMAIN table : table[n] \in Row
    /\ inputs \in 0..MaxInputs
    /\ raced \in BOOLEAN /\ unseen \in BOOLEAN /\ misled \in BOOLEAN

-------------------------------------------------------------------------------
(* fetchUsers and its like *)

CurrentPath == PathOf(screen, query)
NextPath == PathOf(screen, query')

\* A list request for the path is sent; from here on it is the newest.
Send(path) ==
    /\ flights' = Append(flights, [path |-> path, rows |-> None, total |-> None])
    /\ loading' = TRUE
    /\ error' = FALSE
    /\ raced' = (flights # << >> \/ path # NextPath)
    /\ unseen' = FALSE

\* The effect on [fetchX], which changes with the path only: blanks in the
\* search box do not fetch.
FetchIfChanged ==
    IF NextPath # CurrentPath
    THEN Send(NextPath)
    ELSE UNCHANGED <<flights, loading, error, raced, unseen>>

\* The filters that a row can meet.
Columns == (FiltersOf(screen) \ {"includeDeleted"}) \cup {"q"}

\* Who is deleted is not active, and a deleted task is closed.  An assignment
\* is deleted for good, which is to say that no query finds it.
Deleted(row) ==
    CASE screen = "users" ->
           [row EXCEPT !.fits = @ \ {"isActive"}, !.deleted = TRUE]
      [] screen = "tasks" ->
           [row EXCEPT !.fits = @ \ {"status"}, !.deleted = TRUE]
      [] OTHER -> [row EXCEPT !.deleted = TRUE]

NewRow(rank) == [fits |-> Columns, deleted |-> FALSE, rank |-> rank]

\* A row that meets every filter, one that meets as few as it can and ranks
\* otherwise if rows can, and one that was deleted and ranks as the first.
Rows ==
    LET first == NewRow(CHOOSE rank \in Ranks : TRUE)
    IN  <<first,
          [first EXCEPT !.fits = IF screen = "users" THEN {"isActive"} ELSE {},
                        !.rank = CHOOSE rank \in Ranks :
                                    Ranks # {first.rank} => rank # first.rank],
          Deleted(first)>>

\* The page has been mounted, that of the tasks perhaps by a link to those of
\* one project.
Init ==
    /\ screen \in Screens
    /\ \E on \in {{}} \cup (IF screen = "tasks" THEN {{"projectId"}} ELSE {}) :
          query = [page |-> 1, text |-> "", on |-> on]
    /\ loading = TRUE /\ error = FALSE
    /\ result = None /\ dialog = None
    /\ flights = <<[path |-> CurrentPath, rows |-> None, total |-> None]>>
    /\ writes = << >>
    /\ table = Rows
    /\ inputs = 0
    /\ raced = FALSE /\ unseen = FALSE /\ misled = FALSE

-------------------------------------------------------------------------------
\* What the server would answer now: the rows in one of the orders there are,
\* and their number.
RowsNow(path) ==
    {[k \in DOMAIN ids |-> [id |-> ids[k], row |-> table[ids[k]]]] :
        ids \in FindMany(table, ListOf(screen, path))}

TotalNow(path) == Count(table, ListOf(screen, path))

-------------------------------------------------------------------------------
(* The visitor.  A dialog covers the page, but not what is under way. *)

Input(n) == inputs + n <= MaxInputs /\ inputs' = inputs + n
OnPage == dialog = None

Change == OnPage /\ Input(2)
Click == Input(1)

\* Mutant: the page stays the one it was.
FirstPageForgets(changed) ==
    /\ query' = changed
    /\ UNCHANGED misled

\* Whatever selects or sorts the rows sends the visitor back to page 1.
FirstPage(changed) ==
    /\ query' = [changed EXCEPT !.page = 1]
    /\ misled' = FALSE

ChangeText ==
    /\ Change
    /\ \E text \in Texts \ {query.text} : FirstPage([query EXCEPT !.text = text])
    /\ FetchIfChanged
    /\ UNCHANGED <<screen, result, dialog, writes, table>>

Toggled(key) ==
    [query EXCEPT !.on = IF key \in @ THEN @ \ {key} ELSE @ \cup {key}]

ChangeFilter ==
    /\ Change
    /\ \E key \in FiltersOf(screen) : FirstPage(Toggled(key))
    /\ FetchIfChanged
    /\ UNCHANGED <<screen, result, dialog, writes, table>>

\* The URL of the tasks page changes, by its own link in the sidebar or by the
\* Back of the browser, which no dialog covers: the effect on it drops the project
\* or sets one, and the page stays.
FollowUrl ==
    /\ Input(2)
    /\ screen = "tasks"
    /\ query' = Toggled("projectId")
    /\ misled' = (misled \/ "projectId" \notin query.on)
    /\ FetchIfChanged
    /\ UNCHANGED <<screen, result, dialog, writes, table>>

TableShown == ~loading /\ ~error /\ result # None /\ result.rows # << >>

Sort ==
    /\ Change
    /\ TableShown
    /\ FirstPage(Toggled("desc"))
    /\ FetchIfChanged
    /\ UNCHANGED <<screen, result, dialog, writes, table>>

\* The list on display is for the present path and as long as it is by now.
ListIsCurrent ==
    result.path = CurrentPath /\ result.total = TotalNow(CurrentPath)

\* The pager counts from the list on display, not from the state.
TurnPage ==
    /\ Change
    /\ TableShown
    /\ \/ /\ CanNext(result.path.page, result.total)
          /\ query' = [query EXCEPT !.page = result.path.page + 1]
       \/ /\ CanPrev(result.path.page)
          /\ query' = [query EXCEPT !.page = result.path.page - 1]
    /\ misled' = (misled \/ ~ListIsCurrent)
    /\ FetchIfChanged
    /\ UNCHANGED <<screen, result, dialog, writes, table>>

Open(kind, id) ==
    /\ OnPage /\ Click
    /\ dialog' = [kind |-> kind, id |-> id, opened |-> inputs + 1,
                  ready |-> \/ ~Trait(kind).picks
                            \/ screen = "tasks" /\ "projectId" \in query.on,
                  saving |-> FALSE]
    /\ UNCHANGED <<screen, query, loading, error, result, flights, writes,
                   table, history>>

OpenCreate == Open("create", None)

OpenRow ==
    /\ TableShown
    /\ \E i \in DOMAIN result.rows, kind \in DOMAIN DialogsOf(screen) :
          /\ kind \in ActionsOf(result.rows[i].row)
          /\ Open(kind, result.rows[i].id)

\* The choices arrive, or never do.
ChoicesLoaded ==
    /\ dialog # None
    /\ ~dialog.ready
    /\ dialog' = [dialog EXCEPT !.ready = TRUE]
    /\ UNCHANGED <<screen, query, loading, error, result, flights, writes,
                   table, inputs, history>>

\* Mutant: nothing keeps the second submit back.
SubmitAgain ==
    /\ Click
    /\ dialog # None /\ dialog.ready
    /\ writes' = Append(writes,
          [kind |-> dialog.kind, id |-> dialog.id, opened |-> dialog.opened,
           path |-> CurrentPath, state |-> "sent"])
    /\ dialog' = [dialog EXCEPT !.saving = Trait(dialog.kind).once]
    /\ UNCHANGED <<screen, query, loading, error, result, flights, table, history>>

Submit ==
    /\ Click
    /\ dialog # None /\ dialog.ready
    /\ Trait(dialog.kind).once => ~dialog.saving
    /\ writes' = Append(writes,
          [kind |-> dialog.kind, id |-> dialog.id, opened |-> dialog.opened,
           path |-> CurrentPath, state |-> "sent"])
    /\ dialog' = [dialog EXCEPT !.saving = Trait(dialog.kind).once]
    /\ UNCHANGED <<screen, query, loading, error, result, flights, table, history>>

\* Mutant: every dialog can be closed while it is saving.
CancelAnyway ==
    /\ Click
    /\ dialog # None
    /\ dialog' = None
    /\ UNCHANGED <<screen, query, loading, error, result, flights, writes,
                   table, history>>

Cancel ==
    /\ Click
    /\ dialog # None
    /\ Trait(dialog.kind).held => ~dialog.saving
    /\ dialog' = None
    /\ UNCHANGED <<screen, query, loading, error, result, flights, writes,
                   table, history>>

-------------------------------------------------------------------------------
(* The server *)

\* The two statements of a list, in any order.  When they are carried out
\* matters only if a write is on its way to the server; otherwise they are left
\* to the step in which the answer arrives.
Read(i, part, value) ==
    /\ \E j \in DOMAIN writes : writes[j].state = "sent"
    /\ flights[i][part] = None
    /\ flights' = [flights EXCEPT ![i][part] = value]
    /\ UNCHANGED <<screen, component, writes, table, inputs, history>>

ReadRows(i) == \E rows \in RowsNow(flights[i].path) : Read(i, "rows", rows)
ReadTotal(i) == Read(i, "total", TotalNow(flights[i].path))

\* What an edit of this page changes that its filters ask for.
EditedFilter ==
    CASE screen = "users" -> "role"
      [] screen = "tasks" -> "status"
      [] OTHER -> "isActive"

\* PATCH saves the draft over whatever the row is now; what the list is sorted
\* by may change as well.
Edited(row) ==
    {[row EXCEPT !.fits = fits, !.rank = rank] :
        fits \in {row.fits \ {EditedFilter}, row.fits \cup {EditedFilter}},
        rank \in Ranks}

\* What the button that takes a row away does with it.
Removed(row) ==
    IF screen = "clients" THEN [row EXCEPT !.fits = @ \ {"isActive"}]
    ELSE Deleted(row)

\* The table after the write, if the server carries it out.  The handlers find
\* no deleted row, not even to restore it.
Effects(w) ==
    LET row == table[w.id]
        found == w.id \in DOMAIN table /\ ~row.deleted
        With(rows) == IF found THEN {[table EXCEPT ![w.id] = r] : r \in rows} ELSE {}
    IN  CASE w.kind = "create" ->
               IF Len(table) < MaxRows
               THEN {Append(table, NewRow(rank)) : rank \in Ranks} ELSE {}
          [] w.kind = "edit" -> With(Edited(row))
          [] w.kind \in {"remove", "deactivate"} -> With({Removed(row)})
          [] w.kind = "restore" ->
               With({[row EXCEPT !.fits = @ \cup {"isActive"}]})
          [] w.kind \in {"reset", "addTask"} -> With({row})

Perform(j) ==
    /\ writes[j].state = "sent"
    /\ table' \in Effects(writes[j])
    /\ misled' = (misled \/ table' # table)
    /\ writes' = [writes EXCEPT ![j].state = "done"]
    /\ UNCHANGED <<screen, component, flights, inputs, raced, unseen>>

\* A conflict, a reference that is out of use, a row that is not found.
Refuse(j) ==
    /\ writes[j].state = "sent"
    /\ writes' = [writes EXCEPT ![j].state = "refused"]
    /\ UNCHANGED <<screen, component, flights, table, inputs, history>>

-------------------------------------------------------------------------------
(* The answers *)

\* Whatever comes last is shown, and ends the spinner.
Receive(i) ==
    /\ flights' = RemoveAt(flights, i)
    /\ LET f == flights[i]
           total == IF f.total = None THEN TotalNow(f.path) ELSE f.total
       IN  \E rows \in IF f.rows = None THEN RowsNow(f.path) ELSE {f.rows} :
              result' = [path |-> f.path, rows |-> rows, total |-> total]
    /\ loading' = FALSE
    /\ UNCHANGED <<screen, query, error, dialog, writes, table, inputs, history>>

\* Mutant: the spinner is taken away in then.
FailKeepsLoading(i) ==
    /\ flights' = RemoveAt(flights, i)
    /\ error' = TRUE
    /\ UNCHANGED <<screen, query, loading, result, dialog, writes, table, inputs,
                   history>>

\* The request or its answer is lost, or the server errs.
Fail(i) ==
    /\ flights' = RemoveAt(flights, i)
    /\ error' = TRUE
    /\ loading' = FALSE
    /\ UNCHANGED <<screen, query, result, dialog, writes, table, inputs, history>>

\* The dialog that the code closes after a write: whichever of its kind is
\* open, the one that submitted it or not.
Closed(w) == IF dialog # None /\ dialog.kind = w.kind THEN None ELSE dialog

\* Mutant: the page trusts its list after the write.
WrittenNoRefetch(j) ==
    /\ writes[j].state = "done"
    /\ writes' = RemoveAt(writes, j)
    /\ dialog' = Closed(writes[j])
    /\ UNCHANGED <<screen, query, loading, error, result, flights, table, inputs,
                   history>>

\* onSuccess, onCreated and the confirmations: the dialog is closed and the
\* list fetched again.
Written(j) ==
    /\ writes[j].state = "done"
    /\ writes' = RemoveAt(writes, j)
    /\ dialog' = Closed(writes[j])
    /\ UNCHANGED query
    /\ Send(writes[j].path)
    /\ UNCHANGED <<screen, result, table, inputs, misled>>

\* The dialog that submitted w, if it is still open, can be submitted again.
Released(w) ==
    IF dialog # None /\ dialog.opened = w.opened
    THEN [dialog EXCEPT !.saving = FALSE] ELSE dialog

\* Refused, or the request or its answer was lost; what the server has not
\* begun by then it never will.
WriteFails(j) ==
    LET w == writes[j]
    IN  /\ writes' = RemoveAt(writes, j)
        /\ dialog' = IF Trait(w.kind).shuts THEN Closed(w) ELSE Released(w)
        /\ error' = (error \/ ~Trait(w.kind).inside)
        /\ unseen' = (unseen \/ w.state = "done")
        /\ UNCHANGED <<screen, query, loading, result, flights, table, inputs,
                       raced, misled>>

-------------------------------------------------------------------------------
SettleList == \E i \in DOMAIN flights : Fail(i) \/ Receive(i)

SettleWrite == \E j \in DOMAIN writes : WriteFails(j) \/ Written(j)

Next ==
    \/ ChangeText \/ ChangeFilter \/ FollowUrl \/ Sort \/ TurnPage
    \/ OpenCreate \/ OpenRow \/ ChoicesLoaded \/ Submit \/ Cancel
    \/ \E i \in DOMAIN flights : ReadRows(i) \/ ReadTotal(i)
    \/ \E j \in DOMAIN writes : Perform(j) \/ Refuse(j)
    \/ SettleList \/ SettleWrite

\* A fetch settles, one way or another.
Fairness == WF_vars(SettleList) /\ WF_vars(SettleWrite)

Spec == Init /\ [][Next]_vars /\ Fairness

-------------------------------------------------------------------------------
(* Properties *)

\* The rows that the search box and the filters, as they stand, are for.
Selected ==
    {n \in DOMAIN table :
        /\ table[n].deleted => "includeDeleted" \in query.on
        /\ query.on \ {"includeDeleted", "desc"} \subseteq table[n].fits
        /\ query.text = "word" => "q" \in table[n].fits}

Quiet == flights = << >> /\ writes = << >>

\* When everything has settled the page shows an error or the list that its
\* filters select, read after every write that the page was told of, unless
\* list requests overlapped, the last one was for an older path, or the answer
\* to a write was lost.
ListIsRight ==
    Quiet /\ ~raced /\ ~unseen =>
        \/ error
        \/ /\ result.path.page = query.page
           /\ result.total = Cardinality(Selected)
           /\ \A i \in DOMAIN result.rows :
                 /\ result.rows[i].id \in Selected
                 /\ result.rows[i].row = table[result.rows[i].id]

\* The places that the list which the present filters select has for row n and
\* for page p, the answers there can be to the request for page p, and the pages
\* that the pager leads to from the first one.
PlacesFor(n) ==
    Places(table, Selected, screen = "assignments" \/ "desc" \in query.on, n)
PlacesOn(p) == ((p - 1) * Limit + 1)..(p * Limit)

OnPageNo(p) ==
    {ToSet(ids) : ids \in
        FindMany(table, ListOf(screen, PathOf(screen, [query EXCEPT !.page = p])))}

Reachable ==
    {p \in 1..MaxRows : \A m \in 1..(p - 1) : CanNext(m, Cardinality(Selected))}

\* Turning the pages from the first to the last shows every selected row, except
\* that rows which rank alike may change places between two pages: a row that
\* ties with none beyond the end of its page is on that page and no other, in
\* whatever order the queries return the ties; and no page is without rows
\* unless there are none.
PagesLoseOnlyTies ==
    /\ 1..Cardinality(Selected) \subseteq UNION {PlacesOn(p) : p \in Reachable}
    /\ \A p \in Reachable :
          LET answers == OnPageNo(p)
              near == {n \in Selected : PlacesFor(n) \cap PlacesOn(p) # {}}
              sure == {n \in near : PlacesFor(n) \subseteq PlacesOn(p)}
          IN  /\ answers # {}
              /\ p > 1 => {} \notin answers
              /\ \A rows \in answers : sure \subseteq rows /\ rows \subseteq near

\* The page that is past the end, where table and pager are hidden although
\* there are rows, is met only if since the visitor was sent to page 1 a write
\* has changed the table, the URL has set a project, or the pager has counted
\* the rows of a list that was not the present one.
EmptyPageHasACause ==
    Quiet /\ ~raced /\ ~unseen /\ ~error /\ ~misled =>
        (result.rows = << >> => result.total = 0)

\* A form that saves cannot be submitted again, and is released when its write
\* is answered, whichever forms were cancelled and reopened meanwhile.
SavingIsOneWrite ==
    dialog # None /\ Trait(dialog.kind).once =>
        Cardinality({j \in DOMAIN writes : writes[j].opened = dialog.opened})
            = (IF dialog.saving THEN 1 ELSE 0)

\* What the visitor is typing is not lost: a dialog goes only when it is
\* cancelled, when the server has done what it submitted, or when the page let
\* another dialog of the kind be closed before its write was answered.
DialogsCloseForAReason ==
    [][dialog # None /\ dialog' = None /\ inputs' = inputs =>
          \E j \in DOMAIN writes :
             /\ Len(writes') < Len(writes)
             /\ writes[j].kind = dialog.kind
             /\ \/ /\ writes[j].opened = dialog.opened
                   /\ (writes[j].state = "done" \/ Trait(dialog.kind).shuts)
                \/ /\ writes[j].opened # dialog.opened
                   /\ ~Trait(dialog.kind).held]_vars

\* Neither the spinner of the list nor that of a form stays.
NothingSpins ==
    /\ loading ~> ~loading
    /\ (dialog # None /\ dialog.saving) ~> (dialog = None \/ ~dialog.saving)

===============================================================================
