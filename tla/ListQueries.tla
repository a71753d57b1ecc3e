------------------------------ MODULE ListQueries ------------------------------
(***************************************************************************)
(* How a list page of the admin console gets its rows: the path that the   *)
(* page builds from its state, what the schema in contracts lets through,  *)
(* the query that the service makes of it, what the database answers, and  *)
(* the pager under the table.  Pure operators, one per function of the     *)
(* source; module AdminPages has the state.                                *)
(*                                                                         *)
(* A filter is on or off: a select has the empty option and one value, and *)
(* the search box holds nothing, blanks, or one word.  "desc" stands for   *)
(* order=desc.  The column that a list is sorted by is one of several, and *)
(* none of them tells all rows apart.                                      *)
(***************************************************************************)
EXTENDS Integers, Sequences, SequencesExt

CONSTANT Limit      \* PAGE_SIZE of the pages, 20 in the code

ASSUME LimitAssumption == Limit \in Nat \ {0}

Screens == {"users", "clients", "projects", "tasks", "assignments"}

Texts == {"", "blank", "word"}

-------------------------------------------------------------------------------
(* The pages: what is in the state of the component that selects rows, and  *)
(* the path that is built from it.  A search text is trimmed.               *)

UsersFilters == {"role", "isActive", "includeDeleted"}
ClientsFilters == {"isActive", "includeDeleted"}
ProjectsFilters == {"clientId", "isActive", "includeDeleted"}
TasksFilters == {"projectId", "status", "includeDeleted"}
AssignmentsFilters == {"userId", "taskId"}

Path(query, filters) ==
    [page |-> query.page,
     params |-> (query.on \cap (filters \cup {"desc"}))
                  \cup (IF query.text = "word" THEN {"q"} ELSE {})]

UsersPath(query) == Path(query, {"role", "isActive", "includeDeleted"})
ClientsPath(query) == Path(query, {"isActive", "includeDeleted"})
ProjectsPath(query) == Path(query, {"clientId", "isActive", "includeDeleted"})
TasksPath(query) == Path(query, {"projectId", "status", "includeDeleted"})
AssignmentsPath(query) == Path(query, {"userId", "taskId"})

-------------------------------------------------------------------------------
(* The schemas: a key that the object does not name is dropped.  Pages and  *)
(* limits are always sent, so that no default applies.                      *)

Parsed(path, keys) == [path EXCEPT !.params = @ \cap keys]

UsersListQuery(path) ==
    Parsed(path, {"q", "role", "isActive", "includeDeleted", "desc"})
ClientsListQuery(path) ==
    Parsed(path, {"q", "isActive", "includeDeleted", "desc"})
ProjectsListQuery(path) ==
    Parsed(path, {"q", "clientId", "isActive", "includeDeleted", "desc"})
TasksListQuery(path) ==
    Parsed(path, {"q", "projectId", "status", "includeDeleted", "desc"})
AssignmentsListQuery(path) == Parsed(path, {"q", "userId", "taskId"})

-------------------------------------------------------------------------------
(* The services: buildWhere pushes one condition for every filter it knows, *)
(* and a deleted_at of its own keeps the soft-delete filter away.           *)

Where(asked, columns) ==
    [conditions |-> asked.params \cap columns,
     withDeleted |-> "includeDeleted" \in asked.params]

UsersWhere(asked) == Where(asked, {"q", "role", "isActive"})
ClientsWhere(asked) == Where(asked, {"q", "isActive"})
ProjectsWhere(asked) == Where(asked, {"q", "clientId", "isActive"})
TasksWhere(asked) == Where(asked, {"q", "projectId", "status"})
AssignmentsWhere(asked) == Where(asked, {"q", "userId", "taskId"})

\* Mutant: skip counts rows from the end of the page that is asked for.
FindArgsSkipsPage(asked, where, descending) ==
    [where |-> where, descending |-> descending,
     skip |-> asked.page * Limit, take |-> Limit]

FindArgs(asked, where, descending) ==
    [where |-> where, descending |-> descending,
     skip |-> (asked.page - 1) * Limit, take |-> Limit]

UsersList(asked) == FindArgs(asked, UsersWhere(asked), "desc" \in asked.params)
ClientsList(asked) ==
    FindArgs(asked, ClientsWhere(asked), "desc" \in asked.params)
ProjectsList(asked) ==
    FindArgs(asked, ProjectsWhere(asked), "desc" \in asked.params)
TasksList(asked) == FindArgs(asked, TasksWhere(asked), "desc" \in asked.params)

\* The newest first, whatever the page asks for.
AssignmentsList(asked) == FindArgs(asked, AssignmentsWhere(asked), TRUE)

-------------------------------------------------------------------------------
\* The path that a page fetches in the state "query", and what the service
\* asks of the database when it gets it.
PathOf(screen, query) ==
    CASE screen = "users" -> UsersPath(query)
      [] screen = "clients" -> ClientsPath(query)
      [] screen = "projects" -> ProjectsPath(query)
      [] screen = "tasks" -> TasksPath(query)
      [] screen = "assignments" -> AssignmentsPath(query)

ListOf(screen, path) ==
    CASE screen = "users" -> UsersList(UsersListQuery(path))
      [] screen = "clients" -> ClientsList(ClientsListQuery(path))
      [] screen = "projects" -> ProjectsList(ProjectsListQuery(path))
      [] screen = "tasks" -> TasksList(TasksListQuery(path))
      [] screen = "assignments" -> AssignmentsList(AssignmentsListQuery(path))

FiltersOf(screen) ==
    CASE screen = "users" -> UsersFilters
      [] screen = "clients" -> ClientsFilters
      [] screen = "projects" -> ProjectsFilters
      [] screen = "tasks" -> TasksFilters
      [] screen = "assignments" -> AssignmentsFilters

-------------------------------------------------------------------------------
(* The database.  A row says which of the filters it meets, and where the   *)
(* column that the list is sorted by ranks it; a table is the sequence of   *)
(* its rows in the order of creation.                                       *)

\* With the soft-delete middleware, which count goes through as well.
Matching(table, where) ==
    {n \in DOMAIN table :
        /\ table[n].deleted => where.withDeleted
        /\ where.conditions \subseteq table[n].fits}

Precedes(row, other, descending) ==
    IF descending THEN row.rank > other.rank ELSE row.rank < other.rank

\* The places that row n can have among the rows that match: orderBy names one
\* column, and rows that it ranks alike come in any order.
Places(table, matching, descending, n) ==
    LET before == {m \in matching : Precedes(table[m], table[n], descending)}
        ties == {m \in matching : table[m].rank = table[n].rank}
    IN  (Cardinality(before) + 1)..(Cardinality(before) + Cardinality(ties))

\* The possible answers: the rows that come after the first "skip", "take" of
\* them if there are.  Each query is ordered on its own.
FindMany(table, args) ==
    LET matching == Matching(table, args.where)
        answered == {k \in 1..args.take : args.skip + k <= Cardinality(matching)}
    IN  {ids \in [answered -> matching] :
            /\ IsInjective(ids)
            /\ \A k \in answered :
                  args.skip + k \in Places(table, matching, args.descending, ids[k])}

Count(table, args) == Cardinality(Matching(table, args.where))

-------------------------------------------------------------------------------
(* The pager of DataTable. *)

\* Mutant: the button is never disabled.
CanPrevAlways(page) == TRUE

CanPrev(page) == page > 1

CanNext(page, total) == page * Limit < total

===============================================================================
