-------------------------------- MODULE Catalog --------------------------------
(***************************************************************************)
(* The work catalog on the API server: ClientsService, ProjectsService,    *)
(* TasksService and AssignmentsService.                                    *)
(*                                                                         *)
(* No handler uses a transaction.  Each is a few database calls, lookup,   *)
(* check, write, and other requests run between them.  A lookup that finds *)
(* nothing and a check that fails answer the client (404, 409, 422) and    *)
(* change no table.  Names, contact details, descriptions and report types *)
(* that no check reads are left out, except the client's name.             *)
(***************************************************************************)
CONSTANTS
    Clients, Projects, Tasks, Assignments,  \* ids that rows can be given
    Users,
    Names,          \* client names, equal when they differ in case only
    Requests,       \* HTTP requests that can be in progress at once
    Undefined       \* a field that the body of a PATCH leaves out

Statuses == {"open", "closed"}

ASSUME UndefinedAssumption ==
    /\ Undefined \notin Names \cup Clients \cup Projects
    /\ Undefined \notin BOOLEAN
    /\ Undefined \notin Statuses

VARIABLES
    client, project, task,  \* tables: the rows by the id they were given
    assignment,
    departed,   \* users that are soft-deleted (module AuthSessions)
    req,        \* where each request is and the locals it holds
    vouched     \* history, read by no action: what the request relies on and
                \* was fit for it at some moment while it has been in progress

tables == <<client, project, task, assignment>>
vars == <<client, project, task, assignment, departed, req, vouched>>

-------------------------------------------------------------------------------
\* "deleted" stands for deleted_at.  An assignment is deleted from the table;
\* it keeps its place here because its id is never given out again.
ClientRow == [name : Names, is_active : BOOLEAN, deleted : BOOLEAN]
ProjectRow == [client : Clients, is_active : BOOLEAN, deleted : BOOLEAN]
TaskRow == [project : Projects, status : Statuses, deleted : BOOLEAN]
AssignmentRow == [user : Users, task : Tasks, deleted : BOOLEAN]

Idle == [op |-> "none"]

Optional(S) == S \cup {Undefined}

\* "checked" is whether the reference or name in the body needs no check any
\* more, "unread" which of the two lookups of create are outstanding.
Creation ==
    [op : {"createClient"}, name : Names]
    \cup [op : {"createProject"}, client : Clients]
    \cup [op : {"createTask"}, project : Projects]
    \cup [op : {"createAssignment"}, user : Users, task : Tasks,
          unread : SUBSET {"user", "task"}]

Update ==
    [op : {"updateClient"}, id : Clients, name : Optional(Names),
     is_active : Optional(BOOLEAN), checked : BOOLEAN]
    \cup [op : {"updateProject"}, id : Projects, client : Optional(Clients),
          is_active : Optional(BOOLEAN), checked : BOOLEAN]
    \cup [op : {"updateTask"}, id : Tasks, project : Optional(Projects),
          status : Optional(Statuses), checked : BOOLEAN]

Deletion ==
    [op : {"deleteClient"}, id : Clients]
    \cup [op : {"deleteProject"}, id : Projects]
    \cup [op : {"deleteTask"}, id : Tasks]
    \cup [op : {"deleteAssignment"}, id : Assignments]

Request == {Idle} \cup Creation \cup Update \cup Deletion

IsTable(table, ids, rows) ==
    /\ DOMAIN table \subseteq ids
    /\ \A id \in DOMAIN table : table[id] \in rows

TypeOK ==
    /\ IsTable(client, Clients, ClientRow)
    /\ IsTable(project, Projects, ProjectRow)
    /\ IsTable(task, Tasks, TaskRow)
    /\ IsTable(assignment, Assignments, AssignmentRow)
    /\ \A p \in DOMAIN project : project[p].client \in DOMAIN client
    /\ \A t \in DOMAIN task : task[t].project \in DOMAIN project
    /\ \A a \in DOMAIN assignment : assignment[a].task \in DOMAIN task
    /\ departed \subseteq Users
    /\ req \in [Requests -> Request]
    /\ vouched \in [Requests -> SUBSET (Names \cup Clients \cup Projects
                                         \cup Tasks \cup Users)]

-------------------------------------------------------------------------------
\* The rows a query sees through the soft-delete middleware.
Live(table) == {id \in DOMAIN table : ~table[id].deleted}

Insert(table, id, newRow) ==
    [x \in DOMAIN table \cup {id} |-> IF x = id THEN newRow ELSE table[x]]

\* Mutant: a field that is left out is written like any other.
GivenAlways(value, old) == value

\* ...(value !== undefined ? { column: value } : {})
Given(value, old) == IF value = Undefined THEN old ELSE value

\* validateClientId and validateProjectId.
UsableClient(c) == c \in Live(client) /\ client[c].is_active
UsableProject(p) == p \in Live(project) /\ project[p].is_active

\* checkNameUniqueness, which excludes the client being renamed.
NameFree(name, excluded) ==
    \A c \in Live(client) \ excluded : client[c].name # name

\* What the locals q rely on: the name or the ids in the body of the request,
\* and the task that is updated.
Relies(q) ==
    CASE q.op = "createClient" -> {q.name}
      [] q.op = "updateClient" -> {q.name} \ {Undefined}
      [] q.op = "createProject" -> {q.client}
      [] q.op = "updateProject" -> {q.client} \ {Undefined}
      [] q.op = "createTask" -> {q.project}
      [] q.op = "updateTask" -> {q.id} \cup ({q.project} \ {Undefined})
      [] q.op = "createAssignment" -> {q.user, q.task}
      [] OTHER -> {}

\* What q may rely on as things stand: names that no other live client has,
\* usable clients and projects, live tasks and users; and in an update the name
\* or the client that the row has already.
Fit(q) ==
    CASE q.op = "createClient" -> {n \in Names : NameFree(n, {})}
      [] q.op = "updateClient" ->
           {n \in Names : NameFree(n, {q.id}) \/ n = client[q.id].name}
      [] q.op = "createProject" -> {c \in Clients : UsableClient(c)}
      [] q.op = "updateProject" ->
           {c \in Clients : UsableClient(c) \/ c = project[q.id].client}
      [] q.op = "createTask" -> {p \in Projects : UsableProject(p)}
      [] q.op = "updateTask" ->
           {p \in Projects : UsableProject(p)} \cup Live(task)
      [] q.op = "createAssignment" -> (Users \ departed) \cup Live(task)
      [] OTHER -> {}

Witness ==
    vouched' = [r \in Requests |->
                  Relies(req'[r]) \cap (Fit(req'[r]) \cup vouched[r])]

Busy(r) == req[r] # Idle

\* The request goes on with the given locals; it begins, or answers.
Proceed(r, locals) ==
    /\ req' = [req EXCEPT ![r] = locals]
    /\ Witness
    /\ UNCHANGED departed

Begin(r, locals) == ~Busy(r) /\ Proceed(r, locals)
Answer(r) == Proceed(r, Idle)

\* A check after the lookup: the request goes on, or answers 409 or 422.
Check(r, op, passes) ==
    /\ req[r].op = op
    /\ ~req[r].checked
    /\ Proceed(r, IF passes THEN [req[r] EXCEPT !.checked = TRUE] ELSE Idle)
    /\ UNCHANGED tables

Init ==
    /\ client = << >>
    /\ project = << >>
    /\ task = << >>
    /\ assignment = << >>
    /\ departed = {}
    /\ req = [r \in Requests |-> Idle]
    /\ vouched = [r \in Requests |-> {}]

-------------------------------------------------------------------------------
(* ClientsService.  The table has no unique index on the name. *)

CreateClientCheck(r) ==
    \E name \in Names :
        /\ NameFree(name, {})
        /\ Begin(r, [op |-> "createClient", name |-> name])
        /\ UNCHANGED tables

CreateClient(r) ==
    /\ req[r].op = "createClient"
    /\ \E c \in Clients \ DOMAIN client :
          client' = Insert(client, c, [name |-> req[r].name,
                                       is_active |-> TRUE, deleted |-> FALSE])
    /\ Answer(r)
    /\ UNCHANGED <<project, task, assignment>>

\* Mutant: a new name is not checked.
UpdateClientFindTrusts(r) ==
    \E c \in Live(client), name \in Optional(Names), active \in Optional(BOOLEAN) :
        /\ Begin(r, [op |-> "updateClient", id |-> c, name |-> name,
                     is_active |-> active, checked |-> TRUE])
        /\ UNCHANGED tables

\* A name is checked only if it differs from the one just read.
UpdateClientFind(r) ==
    \E c \in Live(client), name \in Optional(Names), active \in Optional(BOOLEAN) :
        /\ Begin(r, [op |-> "updateClient", id |-> c, name |-> name,
                     is_active |-> active,
                     checked |-> name \in {Undefined, client[c].name}])
        /\ UNCHANGED tables

UpdateClientCheck(r) ==
    Check(r, "updateClient", NameFree(req[r].name, {req[r].id}))

UpdateClient(r) ==
    /\ req[r].op = "updateClient"
    /\ req[r].checked
    /\ client' = [client EXCEPT
          ![req[r].id].name = Given(req[r].name, @),
          ![req[r].id].is_active = Given(req[r].is_active, @)]
    /\ Answer(r)
    /\ UNCHANGED <<project, task, assignment>>

DeleteClientFind(r) ==
    \E c \in Live(client) :
        Begin(r, [op |-> "deleteClient", id |-> c]) /\ UNCHANGED tables

\* The client's projects and tasks stay as they are.
DeleteClient(r) ==
    /\ req[r].op = "deleteClient"
    /\ client' = [client EXCEPT ![req[r].id].deleted = TRUE]
    /\ Answer(r)
    /\ UNCHANGED <<project, task, assignment>>

-------------------------------------------------------------------------------
(* ProjectsService. *)

CreateProjectCheck(r) ==
    \E c \in Clients :
        /\ UsableClient(c)
        /\ Begin(r, [op |-> "createProject", client |-> c])
        /\ UNCHANGED tables

CreateProject(r) ==
    /\ req[r].op = "createProject"
    /\ \E p \in Projects \ DOMAIN project :
          project' = Insert(project, p, [client |-> req[r].client,
                                         is_active |-> TRUE, deleted |-> FALSE])
    /\ Answer(r)
    /\ UNCHANGED <<client, task, assignment>>

\* Mutant: a new client is not checked.
UpdateProjectFindTrusts(r) ==
    \E p \in Live(project), c \in Optional(DOMAIN client),
       active \in Optional(BOOLEAN) :
        /\ Begin(r, [op |-> "updateProject", id |-> p, client |-> c,
                     is_active |-> active, checked |-> TRUE])
        /\ UNCHANGED tables

\* A client is checked only if it is not the one the project had when read.
UpdateProjectFind(r) ==
    \E p \in Live(project), c \in Optional(DOMAIN client),
       active \in Optional(BOOLEAN) :
        /\ Begin(r, [op |-> "updateProject", id |-> p, client |-> c,
                     is_active |-> active,
                     checked |-> c \in {Undefined, project[p].client}])
        /\ UNCHANGED tables

UpdateProjectCheck(r) ==
    Check(r, "updateProject", UsableClient(req[r].client))

UpdateProject(r) ==
    /\ req[r].op = "updateProject"
    /\ req[r].checked
    /\ project' = [project EXCEPT
          ![req[r].id].client = Given(req[r].client, @),
          ![req[r].id].is_active = Given(req[r].is_active, @)]
    /\ Answer(r)
    /\ UNCHANGED <<client, task, assignment>>

DeleteProjectFind(r) ==
    \E p \in Live(project) :
        Begin(r, [op |-> "deleteProject", id |-> p]) /\ UNCHANGED tables

DeleteProject(r) ==
    /\ req[r].op = "deleteProject"
    /\ project' = [project EXCEPT ![req[r].id].deleted = TRUE]
    /\ Answer(r)
    /\ UNCHANGED <<client, task, assignment>>

-------------------------------------------------------------------------------
(* TasksService. *)

CreateTaskCheck(r) ==
    \E p \in Projects :
        /\ UsableProject(p)
        /\ Begin(r, [op |-> "createTask", project |-> p])
        /\ UNCHANGED tables

CreateTask(r) ==
    /\ req[r].op = "createTask"
    /\ \E t \in Tasks \ DOMAIN task :
          task' = Insert(task, t, [project |-> req[r].project,
                                   status |-> "open", deleted |-> FALSE])
    /\ Answer(r)
    /\ UNCHANGED <<client, project, assignment>>

\* Mutant: the check is skipped for the project the task already has, as
\* ProjectsService skips it for a project's client.
UpdateTaskFindSkipsOwn(r) ==
    \E t \in Live(task), p \in Optional(DOMAIN project),
       status \in Optional(Statuses) :
        /\ Begin(r, [op |-> "updateTask", id |-> t, project |-> p,
                     status |-> status,
                     checked |-> p \in {Undefined, task[t].project}])
        /\ UNCHANGED tables

\* A project in the body is always checked.
UpdateTaskFind(r) ==
    \E t \in Live(task), p \in Optional(DOMAIN project),
       status \in Optional(Statuses) :
        /\ Begin(r, [op |-> "updateTask", id |-> t, project |-> p,
                     status |-> status, checked |-> p = Undefined])
        /\ UNCHANGED tables

UpdateTaskCheck(r) ==
    Check(r, "updateTask", UsableProject(req[r].project))

UpdateTask(r) ==
    /\ req[r].op = "updateTask"
    /\ req[r].checked
    /\ task' = [task EXCEPT
          ![req[r].id].project = Given(req[r].project, @),
          ![req[r].id].status = Given(req[r].status, @)]
    /\ Answer(r)
    /\ UNCHANGED <<client, project, assignment>>

DeleteTaskFind(r) ==
    \E t \in Live(task) :
        Begin(r, [op |-> "deleteTask", id |-> t]) /\ UNCHANGED tables

\* Mutant: the task is deleted like any other row, without being closed.
DeleteTaskLeavesOpen(r) ==
    /\ req[r].op = "deleteTask"
    /\ task' = [task EXCEPT ![req[r].id].deleted = TRUE]
    /\ Answer(r)
    /\ UNCHANGED <<client, project, assignment>>

DeleteTask(r) ==
    /\ req[r].op = "deleteTask"
    /\ task' = [task EXCEPT ![req[r].id].status = "closed",
                            ![req[r].id].deleted = TRUE]
    /\ Answer(r)
    /\ UNCHANGED <<client, project, assignment>>

-------------------------------------------------------------------------------
(* AssignmentsService.  The two lookups of create run in parallel. *)

Finds(half, u, t) ==
    \/ half = "user" /\ u \notin departed
    \/ half = "task" /\ t \in Live(task)

CreateAssignmentFirst(r) ==
    \E u \in Users, t \in DOMAIN task, half \in {"user", "task"} :
        /\ Finds(half, u, t)
        /\ Begin(r, [op |-> "createAssignment", user |-> u, task |-> t,
                     unread |-> {"user", "task"} \ {half}])
        /\ UNCHANGED tables

CreateAssignmentSecond(r) ==
    /\ req[r].op = "createAssignment"
    /\ \E half \in req[r].unread :
          Proceed(r, IF Finds(half, req[r].user, req[r].task)
                     THEN [req[r] EXCEPT !.unread = {}] ELSE Idle)
    /\ UNCHANGED tables

Assigned(u, t) ==
    \E a \in Live(assignment) : assignment[a].user = u /\ assignment[a].task = t

\* The unique index on (user_id, task_id) turns a duplicate into a 409.
CreateAssignment(r) ==
    /\ req[r].op = "createAssignment"
    /\ req[r].unread = {}
    /\ IF Assigned(req[r].user, req[r].task)
       THEN UNCHANGED assignment
       ELSE \E a \in Assignments \ DOMAIN assignment :
              assignment' = Insert(assignment, a,
                  [user |-> req[r].user, task |-> req[r].task, deleted |-> FALSE])
    /\ Answer(r)
    /\ UNCHANGED <<client, project, task>>

DeleteAssignmentFind(r) ==
    \E a \in Live(assignment) :
        Begin(r, [op |-> "deleteAssignment", id |-> a]) /\ UNCHANGED tables

\* If the row has gone since it was found, Prisma throws, nothing catches it,
\* and the answer is 500; the table is the same either way.
DeleteAssignment(r) ==
    /\ req[r].op = "deleteAssignment"
    /\ assignment' = [assignment EXCEPT ![req[r].id].deleted = TRUE]
    /\ Answer(r)
    /\ UNCHANGED <<client, project, task>>

-------------------------------------------------------------------------------
\* Deactivation and restoration of a user, in module AuthSessions.
UserStanding(u) ==
    /\ departed' = IF u \in departed THEN departed \ {u} ELSE departed \cup {u}
    /\ UNCHANGED <<client, project, task, assignment, req>>
    /\ Witness

Serve(r) ==
    \/ CreateClientCheck(r) \/ CreateClient(r)
    \/ UpdateClientFind(r) \/ UpdateClientCheck(r) \/ UpdateClient(r)
    \/ DeleteClientFind(r) \/ DeleteClient(r)
    \/ CreateProjectCheck(r) \/ CreateProject(r)
    \/ UpdateProjectFind(r) \/ UpdateProjectCheck(r) \/ UpdateProject(r)
    \/ DeleteProjectFind(r) \/ DeleteProject(r)
    \/ CreateTaskCheck(r) \/ CreateTask(r)
    \/ UpdateTaskFind(r) \/ UpdateTaskCheck(r) \/ UpdateTask(r)
    \/ DeleteTaskFind(r) \/ DeleteTask(r)
    \/ CreateAssignmentFirst(r) \/ CreateAssignmentSecond(r) \/ CreateAssignment(r)
    \/ DeleteAssignmentFind(r) \/ DeleteAssignment(r)

Next ==
    \/ \E r \in Requests : Serve(r)
    \/ \E u \in Users : UserStanding(u)

Spec == Init /\ [][Next]_vars

-------------------------------------------------------------------------------
\* The step answers r, and r has changed a table.
Writes(r, ops) == req[r].op \in ops /\ req'[r] = Idle /\ tables' # tables

\* All that r relies on was fit for it at some moment while it was in progress.
Vouched(r) == Relies(req[r]) \subseteq vouched[r] \cup Fit(req[r])

\* A row is never made to refer to a client or project that was out of use, or
\* to a task or user that was deleted, all the while the request took: the
\* handlers check and then write, and what happens between can only make a
\* reference stale, never let in one that was not checked.
ReferencesAreVouched ==
    [][\A r \in Requests :
          Writes(r, {"createProject", "createTask", "updateTask",
                     "createAssignment"})
          => Vouched(r)]_vars

\* Two live clients of one name need a race: a client comes to have a name only
\* if at some moment of the request no other live client had it, or the client
\* had it itself (update leaves such a name unchecked, though a rename in
\* between may have given it to another).  No index backs the check.
ClientNamesAreVouched ==
    [][\A r \in Requests :
          Writes(r, {"createClient", "updateClient"}) => Vouched(r)]_vars

\* A project comes under a client only if, at some moment of the request, the
\* client was usable or the project was under it already: update does not check
\* the client that it has read, and writes it though another request may have
\* moved the project, and then put that client out of use, meanwhile.
ProjectMovesAreVouched ==
    [][\A r \in Requests : Writes(r, {"updateProject"}) => Vouched(r)]_vars

\* A deletion closes the task, and a deleted task comes to be open only through
\* an update that was in progress when it was deleted: update finds the task
\* live, softDelete closes and deletes it, and update writes its status.  An
\* update that begins later does not find it.
OpenDeleted(t) == task[t].deleted /\ task[t].status = "open"

DeletedTasksReopenByRace ==
    [][\A t \in DOMAIN task :
          OpenDeleted(t)' /\ ~OpenDeleted(t)
          => \E r \in Requests : /\ Writes(r, {"updateTask"})
                                 /\ req[r].id = t
                                 /\ t \in vouched[r]]_vars
===============================================================================
