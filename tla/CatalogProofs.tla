----------------------------- MODULE CatalogProofs -----------------------------
(***************************************************************************)
(* Theorems about Catalog for any ids, names, users and requests.          *)
(***************************************************************************)
EXTENDS Catalog, TLAPS

-------------------------------------------------------------------------------
\* What a request names by id is in its table, though it may be deleted by now:
\* rows are added and marked as deleted, never removed.
NamesRows(q) ==
    /\ q.op \in {"updateClient", "deleteClient"} => q.id \in DOMAIN client
    /\ q.op = "createProject" => q.client \in DOMAIN client
    /\ q.op = "updateProject" => /\ q.id \in DOMAIN project
                                 /\ q.client \in Optional(DOMAIN client)
    /\ q.op = "deleteProject" => q.id \in DOMAIN project
    /\ q.op = "createTask" => q.project \in DOMAIN project
    /\ q.op = "updateTask" => /\ q.id \in DOMAIN task
                              /\ q.project \in Optional(DOMAIN project)
    /\ q.op = "deleteTask" => q.id \in DOMAIN task
    /\ q.op = "createAssignment" => q.task \in DOMAIN task
    /\ q.op = "deleteAssignment" => q.id \in DOMAIN assignment

TablesInv ==
    /\ IsTable(client, Clients, ClientRow)
    /\ IsTable(project, Projects, ProjectRow)
    /\ IsTable(task, Tasks, TaskRow)
    /\ IsTable(assignment, Assignments, AssignmentRow)
    /\ \A p \in DOMAIN project : project[p].client \in DOMAIN client
    /\ \A t \in DOMAIN task : task[t].project \in DOMAIN project
    /\ \A a \in DOMAIN assignment : assignment[a].task \in DOMAIN task

RowsInv ==
    /\ TypeOK
    /\ \A r \in Requests : NamesRows(req[r])

\* What the request has found fit so far, v, has everything that the request
\* relies on once nothing is left to check, and the task of an update at once.
Vouches(q, v) ==
    /\ q.op \in {"createClient", "createProject", "createTask"}
         => Relies(q) \subseteq v
    /\ q.op \in {"updateClient", "updateProject", "updateTask"} /\ q.checked
         => Relies(q) \subseteq v
    /\ q.op = "updateTask" => q.id \in v
    /\ q.op = "createAssignment" =>
          /\ q.unread # {"user", "task"}
          /\ "user" \notin q.unread => q.user \in v
          /\ "task" \notin q.unread => q.task \in v

ChecksAreVouched == \A r \in Requests : Vouches(req[r], vouched[r])

-------------------------------------------------------------------------------
\* A row is added, or replaced.
RowWritten(old, new, id, row) ==
    /\ DOMAIN new = DOMAIN old \cup {id}
    /\ new[id] = row
    /\ \A x \in DOMAIN old \ {id} : new[x] = old[x]

\* A table keeps its type when a row is written that fits it.
LEMMA RowWrittenKeepsTable ==
  ASSUME NEW old, NEW new, NEW ids, NEW rows, NEW id \in ids, NEW row \in rows,
         IsTable(old, ids, rows), RowWritten(old, new, id, row)
  PROVE  IsTable(new, ids, rows)
BY DEF IsTable, RowWritten

\* The insertion of a row writes it.
LEMMA InsertWrites ==
  ASSUME NEW table, NEW id, NEW row
  PROVE  RowWritten(table, Insert(table, id, row), id, row)
BY DEF Insert, RowWritten

\* What a request holds is determined by its operation.
LEMMA LocalsOfRequest ==
  ASSUME TypeOK, NEW r \in Requests
  PROVE  /\ req[r].op = "createClient" =>
              req[r] \in [op : {"createClient"}, name : Names]
         /\ req[r].op = "createProject" =>
              req[r] \in [op : {"createProject"}, client : Clients]
         /\ req[r].op = "createTask" =>
              req[r] \in [op : {"createTask"}, project : Projects]
         /\ req[r].op = "createAssignment" =>
              req[r] \in [op : {"createAssignment"}, user : Users, task : Tasks,
                          unread : SUBSET {"user", "task"}]
         /\ req[r].op = "updateClient" =>
              req[r] \in [op : {"updateClient"}, id : Clients,
                          name : Optional(Names),
                          is_active : Optional(BOOLEAN), checked : BOOLEAN]
         /\ req[r].op = "updateProject" =>
              req[r] \in [op : {"updateProject"}, id : Projects,
                          client : Optional(Clients),
                          is_active : Optional(BOOLEAN), checked : BOOLEAN]
         /\ req[r].op = "updateTask" =>
              req[r] \in [op : {"updateTask"}, id : Tasks,
                          project : Optional(Projects),
                          status : Optional(Statuses), checked : BOOLEAN]
<1>1. req[r] \in Request
  BY DEF TypeOK
<1>2. CASE req[r] \in Creation
  BY <1>2 DEF Creation
<1>3. CASE req[r] \in Update
  BY <1>3 DEF Update
<1>4. CASE req[r] \in Deletion \cup {Idle}
  BY <1>4 DEF Deletion, Idle
<1> QED
  BY <1>1, <1>2, <1>3, <1>4 DEF Request

-------------------------------------------------------------------------------
\* createClient, updateClient and deleteClient each write one row: a new one, one
\* with the columns of the body, or one that is now marked as deleted.
LEMMA ClientWrites ==
  ASSUME RowsInv, NEW r \in Requests,
         CreateClient(r) \/ UpdateClient(r) \/ DeleteClient(r)
  PROVE  /\ UNCHANGED <<project, task, assignment>>
         /\ \E c \in Clients, row \in ClientRow :
              RowWritten(client, client', c, row)
<1>1. CASE CreateClient(r)
  <2> DEFINE row == [name |-> req[r].name, is_active |-> TRUE, deleted |-> FALSE]
  <2>1. PICK c \in Clients \ DOMAIN client : client' = Insert(client, c, row)
    BY <1>1 DEF CreateClient
  <2>2. row \in ClientRow
    BY <1>1, LocalsOfRequest DEF CreateClient, RowsInv, ClientRow
  <2>3. RowWritten(client, client', c, row)
    BY <2>1, InsertWrites
  <2> QED
    BY <1>1, <2>2, <2>3 DEF CreateClient
<1>2. CASE UpdateClient(r)
  <2> DEFINE c == req[r].id
             row == [name |-> Given(req[r].name, client[c].name),
                     is_active |-> Given(req[r].is_active, client[c].is_active),
                     deleted |-> client[c].deleted]
  <2>1. /\ req[r] \in [op : {"updateClient"}, id : Clients, name : Optional(Names),
                       is_active : Optional(BOOLEAN), checked : BOOLEAN]
        /\ c \in DOMAIN client
        /\ client[c] \in ClientRow
    BY <1>2, LocalsOfRequest DEF UpdateClient, RowsInv, NamesRows, TypeOK, IsTable
  <2>2. row \in ClientRow
    BY <2>1 DEF ClientRow, Optional, Given
  <2>3. RowWritten(client, client', c, row)
    BY <1>2, <2>1 DEF UpdateClient, RowWritten, ClientRow
  <2> QED
    BY <1>2, <2>1, <2>2, <2>3 DEF UpdateClient
<1>3. CASE DeleteClient(r)
  <2> DEFINE c == req[r].id
             row == [client[c] EXCEPT !.deleted = TRUE]
  <2>1. /\ c \in DOMAIN client
        /\ c \in Clients
        /\ client[c] \in ClientRow
    BY <1>3 DEF DeleteClient, RowsInv, NamesRows, TypeOK, IsTable
  <2>2. row \in ClientRow /\ row.deleted
    BY <2>1 DEF ClientRow
  <2>3. RowWritten(client, client', c, row)
    BY <1>3, <2>1 DEF DeleteClient, RowWritten
  <2> QED
    BY <1>3, <2>1, <2>2, <2>3 DEF DeleteClient
<1> QED
  BY <1>1, <1>2, <1>3

\* The same of projects; their clients exist.
LEMMA ProjectWrites ==
  ASSUME RowsInv, NEW r \in Requests,
         CreateProject(r) \/ UpdateProject(r) \/ DeleteProject(r)
  PROVE  /\ UNCHANGED <<client, task, assignment>>
         /\ \E p \in Projects, row \in ProjectRow :
              /\ RowWritten(project, project', p, row)
              /\ row.client \in DOMAIN client
<1>1. CASE CreateProject(r)
  <2> DEFINE row == [client |-> req[r].client, is_active |-> TRUE,
                     deleted |-> FALSE]
  <2>1. PICK p \in Projects \ DOMAIN project : project' = Insert(project, p, row)
    BY <1>1 DEF CreateProject
  <2>2. row \in ProjectRow /\ row.client \in DOMAIN client
    BY <1>1, LocalsOfRequest DEF CreateProject, RowsInv, NamesRows, ProjectRow
  <2>3. RowWritten(project, project', p, row)
    BY <2>1, InsertWrites
  <2> QED
    BY <1>1, <2>2, <2>3 DEF CreateProject
<1>2. CASE UpdateProject(r)
  <2> DEFINE p == req[r].id
             row == [client |-> Given(req[r].client, project[p].client),
                     is_active |-> Given(req[r].is_active, project[p].is_active),
                     deleted |-> project[p].deleted]
  <2>1. /\ req[r] \in [op : {"updateProject"}, id : Projects,
                       client : Optional(Clients),
                       is_active : Optional(BOOLEAN), checked : BOOLEAN]
        /\ req[r].client \in Optional(DOMAIN client)
        /\ p \in DOMAIN project
        /\ project[p] \in ProjectRow
        /\ project[p].client \in DOMAIN client
    BY <1>2, LocalsOfRequest DEF UpdateProject, RowsInv, NamesRows, TypeOK, IsTable
  <2>2. row \in ProjectRow /\ row.client \in DOMAIN client
    BY <2>1 DEF ProjectRow, Optional, Given
  <2>3. RowWritten(project, project', p, row)
    BY <1>2, <2>1 DEF UpdateProject, RowWritten, ProjectRow
  <2> QED
    BY <1>2, <2>1, <2>2, <2>3 DEF UpdateProject
<1>3. CASE DeleteProject(r)
  <2> DEFINE p == req[r].id
             row == [project[p] EXCEPT !.deleted = TRUE]
  <2>1. /\ p \in DOMAIN project
        /\ p \in Projects
        /\ project[p] \in ProjectRow
        /\ project[p].client \in DOMAIN client
    BY <1>3 DEF DeleteProject, RowsInv, NamesRows, TypeOK, IsTable
  <2>2. row \in ProjectRow /\ row.client \in DOMAIN client
    BY <2>1 DEF ProjectRow
  <2>3. RowWritten(project, project', p, row)
    BY <1>3, <2>1 DEF DeleteProject, RowWritten
  <2> QED
    BY <1>3, <2>1, <2>2, <2>3 DEF DeleteProject
<1> QED
  BY <1>1, <1>2, <1>3

\* The same of tasks; their projects exist, and a deletion closes the task.
LEMMA TaskWrites ==
  ASSUME RowsInv, NEW r \in Requests,
         CreateTask(r) \/ UpdateTask(r) \/ DeleteTask(r)
  PROVE  /\ UNCHANGED <<client, project, assignment>>
         /\ \E t \in Tasks, row \in TaskRow :
              /\ RowWritten(task, task', t, row)
              /\ row.project \in DOMAIN project
              /\ \/ row.deleted /\ row.status = "closed"
                 \/ ~row.deleted
                 \/ /\ req[r].op = "updateTask"
                    /\ t = req[r].id
                    /\ row.deleted = task[t].deleted
<1>1. CASE CreateTask(r)
  <2> DEFINE row == [project |-> req[r].project, status |-> "open",
                     deleted |-> FALSE]
  <2>1. PICK t \in Tasks \ DOMAIN task : task' = Insert(task, t, row)
    BY <1>1 DEF CreateTask
  <2>2. /\ row \in TaskRow /\ row.project \in DOMAIN project
        /\ ~row.deleted
    BY <1>1, LocalsOfRequest
    DEF CreateTask, RowsInv, NamesRows, TaskRow, Statuses
  <2>3. RowWritten(task, task', t, row)
    BY <2>1, InsertWrites
  <2> QED
    BY <1>1, <2>2, <2>3 DEF CreateTask
<1>2. CASE UpdateTask(r)
  <2> DEFINE t == req[r].id
             row == [project |-> Given(req[r].project, task[t].project),
                     status |-> Given(req[r].status, task[t].status),
                     deleted |-> task[t].deleted]
  <2>1. /\ req[r] \in [op : {"updateTask"}, id : Tasks,
                       project : Optional(Projects),
                       status : Optional(Statuses), checked : BOOLEAN]
        /\ req[r].project \in Optional(DOMAIN project)
        /\ t \in DOMAIN task
        /\ task[t] \in TaskRow
        /\ task[t].project \in DOMAIN project
    BY <1>2, LocalsOfRequest DEF UpdateTask, RowsInv, NamesRows, TypeOK, IsTable
  <2>2. row \in TaskRow /\ row.project \in DOMAIN project
    BY <2>1 DEF TaskRow, Optional, Given
  <2>3. RowWritten(task, task', t, row)
    BY <1>2, <2>1 DEF UpdateTask, RowWritten, TaskRow
  <2> QED
    BY <1>2, <2>1, <2>2, <2>3 DEF UpdateTask
<1>3. CASE DeleteTask(r)
  <2> DEFINE t == req[r].id
             row == [task[t] EXCEPT !.status = "closed", !.deleted = TRUE]
  <2>1. /\ t \in DOMAIN task
        /\ t \in Tasks
        /\ task[t] \in TaskRow
        /\ task[t].project \in DOMAIN project
    BY <1>3 DEF DeleteTask, RowsInv, NamesRows, TypeOK, IsTable
  <2>2. /\ row \in TaskRow /\ row.project \in DOMAIN project
        /\ row.deleted /\ row.status = "closed"
    BY <2>1 DEF TaskRow, Statuses
  <2>3. RowWritten(task, task', t, row)
    BY <1>3, <2>1 DEF DeleteTask, RowWritten
  <2> QED
    BY <1>3, <2>1, <2>2, <2>3 DEF DeleteTask
<1> QED
  BY <1>1, <1>2, <1>3

\* The same of assignments, unless the index refuses a duplicate.
LEMMA AssignmentWrites ==
  ASSUME RowsInv, NEW r \in Requests,
         CreateAssignment(r) \/ DeleteAssignment(r)
  PROVE  /\ UNCHANGED <<client, project, task>>
         /\ \/ UNCHANGED assignment
            \/ \E a \in Assignments, row \in AssignmentRow :
                 /\ RowWritten(assignment, assignment', a, row)
                 /\ row.task \in DOMAIN task
<1>1. CASE CreateAssignment(r)
  <2> DEFINE row == [user |-> req[r].user, task |-> req[r].task,
                     deleted |-> FALSE]
  <2>1. ASSUME ~UNCHANGED assignment
        PROVE  \E a \in Assignments \ DOMAIN assignment :
                  assignment' = Insert(assignment, a, row)
    BY <1>1, <2>1 DEF CreateAssignment
  <2>2. row \in AssignmentRow /\ row.task \in DOMAIN task
    BY <1>1, LocalsOfRequest DEF CreateAssignment, RowsInv, NamesRows, AssignmentRow
  <2>3. \A a : RowWritten(assignment, Insert(assignment, a, row), a, row)
    BY InsertWrites
  <2> QED
    BY <1>1, <2>1, <2>2, <2>3 DEF CreateAssignment
<1>2. CASE DeleteAssignment(r)
  <2> DEFINE a == req[r].id
             row == [assignment[a] EXCEPT !.deleted = TRUE]
  <2>1. /\ a \in DOMAIN assignment
        /\ a \in Assignments
        /\ assignment[a] \in AssignmentRow
        /\ assignment[a].task \in DOMAIN task
    BY <1>2 DEF DeleteAssignment, RowsInv, NamesRows, TypeOK, IsTable
  <2>2. row \in AssignmentRow /\ row.task \in DOMAIN task
    BY <2>1 DEF AssignmentRow
  <2>3. RowWritten(assignment, assignment', a, row)
    BY <1>2, <2>1 DEF DeleteAssignment, RowWritten
  <2> QED
    BY <1>2, <2>1, <2>2, <2>3 DEF DeleteAssignment
<1> QED
  BY <1>1, <1>2

-------------------------------------------------------------------------------
Lookup(r) ==
    \/ CreateClientCheck(r) \/ UpdateClientFind(r) \/ DeleteClientFind(r)
    \/ CreateProjectCheck(r) \/ UpdateProjectFind(r) \/ DeleteProjectFind(r)
    \/ CreateTaskCheck(r) \/ UpdateTaskFind(r) \/ DeleteTaskFind(r)
    \/ CreateAssignmentFirst(r) \/ DeleteAssignmentFind(r)

Recheck(r) ==
    \/ UpdateClientCheck(r) \/ UpdateProjectCheck(r) \/ UpdateTaskCheck(r)
    \/ CreateAssignmentSecond(r)

Write(r) ==
    \/ CreateClient(r) \/ UpdateClient(r) \/ DeleteClient(r)
    \/ CreateProject(r) \/ UpdateProject(r) \/ DeleteProject(r)
    \/ CreateTask(r) \/ UpdateTask(r) \/ DeleteTask(r)
    \/ CreateAssignment(r) \/ DeleteAssignment(r)

\* A lookup starts a request that names rows it has seen, and writes nothing.
LEMMA LookupMoves ==
  ASSUME RowsInv, NEW r \in Requests, Lookup(r)
  PROVE  /\ UNCHANGED tables
         /\ ~Busy(r)
         /\ \E q \in Request : Proceed(r, q) /\ NamesRows(q)
<1> USE DEF Begin, NamesRows, Live, Optional
<1>1. /\ DOMAIN client \subseteq Clients
      /\ DOMAIN project \subseteq Projects
      /\ DOMAIN task \subseteq Tasks
      /\ DOMAIN assignment \subseteq Assignments
  BY DEF RowsInv, TypeOK, IsTable
<1>2. CASE CreateClientCheck(r)
  BY <1>2 DEF CreateClientCheck, Request, Creation
<1>3. CASE UpdateClientFind(r)
  <2>1. PICK c \in Live(client), name \in Optional(Names),
             active \in Optional(BOOLEAN) :
          /\ Begin(r, [op |-> "updateClient", id |-> c, name |-> name,
                       is_active |-> active,
                       checked |-> name \in {Undefined, client[c].name}])
          /\ UNCHANGED tables
    BY <1>3 DEF UpdateClientFind
  <2> DEFINE checked == name \in {Undefined, client[c].name}
             q == [op |-> "updateClient", id |-> c, name |-> name,
                   is_active |-> active,
                   checked |-> checked]
  <2>2. checked \in BOOLEAN
    OBVIOUS
  <2>3. q \in Request /\ NamesRows(q)
    <3> HIDE DEF checked
    <3> QED
      BY <1>1, <2>2 DEF Request, Update
  <2> QED
    BY <2>1, <2>3, Zenon
<1>4. CASE DeleteClientFind(r)
  BY <1>1, <1>4 DEF DeleteClientFind, Request, Deletion
<1>5. CASE CreateProjectCheck(r)
  BY <1>5 DEF CreateProjectCheck, UsableClient, Request, Creation
<1>6. CASE UpdateProjectFind(r)
  <2>1. PICK p \in Live(project), c \in Optional(DOMAIN client),
             active \in Optional(BOOLEAN) :
          /\ Begin(r, [op |-> "updateProject", id |-> p, client |-> c,
                       is_active |-> active,
                       checked |-> c \in {Undefined, project[p].client}])
          /\ UNCHANGED tables
    BY <1>6 DEF UpdateProjectFind
  <2> DEFINE checked == c \in {Undefined, project[p].client}
             q == [op |-> "updateProject", id |-> p, client |-> c,
                   is_active |-> active,
                   checked |-> checked]
  <2>2. checked \in BOOLEAN
    OBVIOUS
  <2>3. q \in Request /\ NamesRows(q)
    <3> HIDE DEF checked
    <3> QED
      BY <1>1, <2>2 DEF Request, Update
  <2> QED
    BY <2>1, <2>3, Zenon
<1>7. CASE DeleteProjectFind(r)
  BY <1>1, <1>7 DEF DeleteProjectFind, Request, Deletion
<1>8. CASE CreateTaskCheck(r)
  BY <1>8 DEF CreateTaskCheck, UsableProject, Request, Creation
<1>9. CASE UpdateTaskFind(r)
  <2>1. PICK t \in Live(task), p \in Optional(DOMAIN project),
             status \in Optional(Statuses) :
          /\ Begin(r, [op |-> "updateTask", id |-> t, project |-> p,
                       status |-> status,
                       checked |-> p = Undefined])
          /\ UNCHANGED tables
    BY <1>9 DEF UpdateTaskFind
  <2> DEFINE checked == p = Undefined
             q == [op |-> "updateTask", id |-> t, project |-> p,
                   status |-> status,
                   checked |-> checked]
  <2>2. checked \in BOOLEAN
    OBVIOUS
  <2>3. q \in Request /\ NamesRows(q)
    <3> HIDE DEF checked
    <3> QED
      BY <1>1, <2>2 DEF Request, Update
  <2> QED
    BY <2>1, <2>3, Zenon
<1>10. CASE DeleteTaskFind(r)
  BY <1>1, <1>10 DEF DeleteTaskFind, Request, Deletion
<1>11. CASE CreateAssignmentFirst(r)
  BY <1>1, <1>11 DEF CreateAssignmentFirst, Request, Creation
<1>12. CASE DeleteAssignmentFind(r)
  BY <1>1, <1>12 DEF DeleteAssignmentFind, Request, Deletion
<1> QED
  BY <1>2, <1>3, <1>4, <1>5, <1>6, <1>7, <1>8, <1>9, <1>10, <1>11, <1>12
  DEF Lookup

\* A second look lets the request go on with less to check, or answers it.
LEMMA RecheckMoves ==
  ASSUME RowsInv, NEW r \in Requests, Recheck(r)
  PROVE  /\ UNCHANGED tables
         /\ Busy(r)
         /\ \E q \in Request : Proceed(r, q) /\ NamesRows(q)
<1>1. NamesRows(Idle) /\ Idle \in Request /\ NamesRows(req[r])
  BY DEF NamesRows, Idle, Request, RowsInv
<1>2. ASSUME NEW op, NEW passes \in BOOLEAN, Check(r, op, passes),
             op \in {"updateClient", "updateProject", "updateTask"}
      PROVE  /\ UNCHANGED tables
             /\ Busy(r)
             /\ \E q \in Request : Proceed(r, q) /\ NamesRows(q)
  <2> DEFINE q == [req[r] EXCEPT !.checked = TRUE]
  <2>1. req[r] \in Update
    BY <1>2, LocalsOfRequest DEF Check, RowsInv, Update
  <2>2. q \in Update
    BY <2>1 DEF Update
  <2>3. NamesRows(q)
    BY <1>1, <2>1 DEF Update, NamesRows
  <2> QED
    BY <1>1, <1>2, <2>2, <2>3 DEF Check, Request, Busy, Idle
<1>3. CASE UpdateClientCheck(r)
  BY <1>2, <1>3 DEF UpdateClientCheck, NameFree
<1>4. CASE UpdateProjectCheck(r)
  <2>1. UsableClient(req[r].client) \in BOOLEAN
    BY DEF UsableClient
  <2> QED
    BY <1>2, <1>4, <2>1 DEF UpdateProjectCheck
<1>5. CASE UpdateTaskCheck(r)
  BY <1>2, <1>5 DEF UpdateTaskCheck, UsableProject
<1>6. CASE CreateAssignmentSecond(r)
  <2> DEFINE q == [req[r] EXCEPT !.unread = {}]
  <2>1. req[r] \in [op : {"createAssignment"}, user : Users, task : Tasks,
                    unread : SUBSET {"user", "task"}]
    BY <1>6, LocalsOfRequest DEF CreateAssignmentSecond, RowsInv
  <2>2. q \in Request /\ NamesRows(q)
    BY <1>1, <2>1 DEF Request, Creation, NamesRows
  <2>3. Proceed(r, q) \/ Proceed(r, Idle)
    BY <1>6 DEF CreateAssignmentSecond
  <2>4. UNCHANGED tables /\ Busy(r)
    BY <1>6 DEF CreateAssignmentSecond, Busy, Idle
  <2> QED
    BY <1>1, <2>2, <2>3, <2>4, Zenon
<1> QED
  BY <1>3, <1>4, <1>5, <1>6 DEF Recheck

\* A write answers its request.
LEMMA WriteAnswers ==
  ASSUME NEW r \in Requests, Write(r)
  PROVE  Proceed(r, Idle) /\ Busy(r)
<1>1. CASE CreateClient(r) \/ UpdateClient(r) \/ DeleteClient(r)
  BY <1>1, SMTT(30)
     DEF CreateClient, UpdateClient, DeleteClient, Answer, Busy, Idle
<1>2. CASE CreateProject(r) \/ UpdateProject(r) \/ DeleteProject(r)
  BY <1>2, SMTT(30)
     DEF CreateProject, UpdateProject, DeleteProject, Answer, Busy, Idle
<1>3. CASE CreateTask(r) \/ UpdateTask(r) \/ DeleteTask(r)
  BY <1>3, SMTT(30) DEF CreateTask, UpdateTask, DeleteTask, Answer, Busy, Idle
<1>4. CASE CreateAssignment(r) \/ DeleteAssignment(r)
  BY <1>4, SMTT(30) DEF CreateAssignment, DeleteAssignment, Answer, Busy, Idle
<1> QED
  BY <1>1, <1>2, <1>3, <1>4 DEF Write

-------------------------------------------------------------------------------
\* A write keeps every table typed and every reference on an existing row.
LEMMA WriteKeepsTables ==
  ASSUME RowsInv, NEW r \in Requests, Write(r)
  PROVE  /\ TablesInv'
         /\ DOMAIN client \subseteq DOMAIN client'
         /\ DOMAIN project \subseteq DOMAIN project'
         /\ DOMAIN task \subseteq DOMAIN task'
         /\ DOMAIN assignment \subseteq DOMAIN assignment'
<1>1. TablesInv
  BY DEF RowsInv, TypeOK, TablesInv
<1>2. CASE CreateClient(r) \/ UpdateClient(r) \/ DeleteClient(r)
  <2>1. /\ UNCHANGED <<project, task, assignment>>
        /\ \E c \in Clients, row \in ClientRow :
              RowWritten(client, client', c, row)
    BY <1>2, ClientWrites
  <2>2. /\ DOMAIN client \subseteq DOMAIN client'
        /\ IsTable(client', Clients, ClientRow)
    BY <1>1, <2>1, RowWrittenKeepsTable DEF TablesInv, RowWritten
  <2> QED
    BY <1>1, <2>1, <2>2 DEF TablesInv
<1>3. CASE CreateProject(r) \/ UpdateProject(r) \/ DeleteProject(r)
  <2>1. PICK p \in Projects, row \in ProjectRow :
          /\ UNCHANGED <<client, task, assignment>>
          /\ RowWritten(project, project', p, row)
          /\ row.client \in DOMAIN client
    BY <1>3, ProjectWrites
  <2>2. /\ DOMAIN project \subseteq DOMAIN project'
        /\ IsTable(project', Projects, ProjectRow)
        /\ \A x \in DOMAIN project' : project'[x].client \in DOMAIN client
    BY <1>1, <2>1, RowWrittenKeepsTable DEF TablesInv, RowWritten
  <2> QED
    BY <1>1, <2>1, <2>2 DEF TablesInv
<1>4. CASE CreateTask(r) \/ UpdateTask(r) \/ DeleteTask(r)
  <2>1. PICK t \in Tasks, row \in TaskRow :
          /\ UNCHANGED <<client, project, assignment>>
          /\ RowWritten(task, task', t, row)
          /\ row.project \in DOMAIN project
    BY <1>4, TaskWrites
  <2>2. /\ DOMAIN task \subseteq DOMAIN task'
        /\ IsTable(task', Tasks, TaskRow)
        /\ \A x \in DOMAIN task' : task'[x].project \in DOMAIN project
    BY <1>1, <2>1, RowWrittenKeepsTable DEF TablesInv, RowWritten
  <2> QED
    BY <1>1, <2>1, <2>2 DEF TablesInv
<1>5. CASE CreateAssignment(r) \/ DeleteAssignment(r)
  <2>1. UNCHANGED <<client, project, task>>
    BY <1>5, AssignmentWrites
  <2>2. CASE UNCHANGED assignment
    BY <1>1, <2>1, <2>2 DEF TablesInv
  <2>3. ASSUME NEW a \in Assignments, NEW row \in AssignmentRow,
               RowWritten(assignment, assignment', a, row),
               row.task \in DOMAIN task
        PROVE  /\ DOMAIN assignment \subseteq DOMAIN assignment'
               /\ IsTable(assignment', Assignments, AssignmentRow)
               /\ \A x \in DOMAIN assignment' :
                     assignment'[x].task \in DOMAIN task
    BY <1>1, <2>3, RowWrittenKeepsTable
    DEF TablesInv, RowWritten
  <2> QED
    BY <1>1, <1>5, <2>1, <2>2, <2>3, AssignmentWrites
    DEF TablesInv
<1> QED
  BY <1>2, <1>3, <1>4, <1>5 DEF Write

\* Every step is a stutter, a user leaving or coming back, or a lookup, second
\* look or write of one request that leaves the locals of the others alone.
LEMMA OneRequestMoves ==
  ASSUME RowsInv, [Next]_vars
  PROVE  \/ UNCHANGED vars
         \/ /\ UNCHANGED <<client, project, task, assignment, req>>
            /\ departed' \subseteq Users
            /\ Witness
         \/ \E r \in Requests :
              /\ \/ Lookup(r) /\ ~Busy(r) /\ UNCHANGED tables
                 \/ Recheck(r) /\ Busy(r) /\ UNCHANGED tables
                 \/ Write(r) /\ Busy(r) /\ req'[r] = Idle
              /\ req' \in [Requests -> Request]
              /\ \A s \in Requests \ {r} : req'[s] = req[s]
              /\ NamesRows(req'[r])
              /\ UNCHANGED departed
              /\ Witness
<1>1. ASSUME NEW r \in Requests, Lookup(r) \/ Recheck(r) \/ Write(r)
      PROVE  /\ \/ Lookup(r) /\ ~Busy(r) /\ UNCHANGED tables
                \/ Recheck(r) /\ Busy(r) /\ UNCHANGED tables
                \/ Write(r) /\ Busy(r) /\ req'[r] = Idle
             /\ req' \in [Requests -> Request]
             /\ \A s \in Requests \ {r} : req'[s] = req[s]
             /\ NamesRows(req'[r])
             /\ UNCHANGED departed
             /\ Witness
  <2>1. req \in [Requests -> Request]
    BY DEF RowsInv, TypeOK
  <2>2. NamesRows(Idle) /\ Idle \in Request
    BY DEF NamesRows, Idle, Request
  <2>3. PICK q \in Request : Proceed(r, q) /\ NamesRows(q)
    BY <1>1, <2>2, LookupMoves, RecheckMoves, WriteAnswers
  <2>4. /\ req' \in [Requests -> Request]
        /\ req'[r] = q
        /\ \A s \in Requests \ {r} : req'[s] = req[s]
        /\ UNCHANGED departed
        /\ Witness
    BY <2>1, <2>3 DEF Proceed
  <2>5. Write(r) => req'[r] = Idle
    BY <2>1, WriteAnswers DEF Proceed
  <2> QED
    BY <1>1, <2>3, <2>4, <2>5, LookupMoves, RecheckMoves, WriteAnswers
<1>2. ASSUME NEW u \in Users, UserStanding(u)
      PROVE  /\ UNCHANGED <<client, project, task, assignment, req>>
             /\ departed' \subseteq Users
             /\ Witness
  BY <1>2 DEF UserStanding, RowsInv, TypeOK
<1>3. CASE \E r \in Requests : Serve(r)
  BY <1>1, <1>3 DEF Serve, Lookup, Recheck, Write
<1> QED
  BY <1>2, <1>3 DEF Next

\* What each operation relies on, and what is fit for it.
LEMMA ReliesOn ==
  ASSUME NEW q
  PROVE  /\ q.op = "createClient" => Relies(q) = {q.name}
         /\ q.op = "updateClient" => Relies(q) = {q.name} \ {Undefined}
         /\ q.op = "createProject" => Relies(q) = {q.client}
         /\ q.op = "updateProject" => Relies(q) = {q.client} \ {Undefined}
         /\ q.op = "createTask" => Relies(q) = {q.project}
         /\ q.op = "updateTask" =>
              Relies(q) = {q.id} \cup ({q.project} \ {Undefined})
         /\ q.op = "createAssignment" => Relies(q) = {q.user, q.task}
BY DEF Relies

LEMMA FitFor ==
  ASSUME NEW q
  PROVE  /\ q.op = "createClient" => Fit(q) = {n \in Names : NameFree(n, {})}
         /\ q.op = "updateClient" =>
              Fit(q) = {n \in Names :
                           NameFree(n, {q.id}) \/ n = client[q.id].name}
         /\ q.op = "createProject" => Fit(q) = {c \in Clients : UsableClient(c)}
         /\ q.op = "updateProject" =>
              Fit(q) = {c \in Clients :
                           UsableClient(c) \/ c = project[q.id].client}
         /\ q.op = "createTask" => Fit(q) = {p \in Projects : UsableProject(p)}
         /\ q.op = "updateTask" =>
              Fit(q) = {p \in Projects : UsableProject(p)} \cup Live(task)
         /\ q.op = "createAssignment" =>
              Fit(q) = (Users \ departed) \cup Live(task)
BY DEF Fit

\* What a witness makes of the history.
LEMMA WitnessTypes ==
  ASSUME RowsInv, Witness
  PROVE  vouched' \in [Requests -> SUBSET (Names \cup Clients \cup Projects
                                             \cup Tasks \cup Users)]
<1> DEFINE U == Names \cup Clients \cup Projects \cup Tasks \cup Users
<1>1. Live(task) \subseteq U
  BY DEF Live, RowsInv, TypeOK, IsTable
<1>2. \A q : Fit(q) \subseteq U
  BY <1>1 DEF Fit
<1>3. vouched \in [Requests -> SUBSET U]
  BY DEF RowsInv, TypeOK
<1> HIDE DEF U
<1>4. vouched' \in [Requests -> SUBSET U]
  BY <1>2, <1>3 DEF Witness
<1> QED
  BY <1>4 DEF U

\* The types are kept together with what makes every row that a request names
\* exist.
LEMMA RowsStep ==
  ASSUME RowsInv, [Next]_vars
  PROVE  RowsInv'
<1> USE DEF RowsInv
<1>1. CASE UNCHANGED vars
  BY <1>1 DEF vars, TypeOK, NamesRows, IsTable
<1>2. CASE /\ UNCHANGED <<client, project, task, assignment, req>>
           /\ departed' \subseteq Users
           /\ Witness
  BY <1>2, WitnessTypes DEF TypeOK, NamesRows, IsTable
<1>3. ASSUME NEW r \in Requests,
             Write(r) \/ UNCHANGED tables,
             req' \in [Requests -> Request],
             \A s \in Requests \ {r} : req'[s] = req[s],
             NamesRows(req'[r]), UNCHANGED departed, Witness
      PROVE  RowsInv'
  <2>1. /\ TablesInv'
        /\ DOMAIN client \subseteq DOMAIN client'
        /\ DOMAIN project \subseteq DOMAIN project'
        /\ DOMAIN task \subseteq DOMAIN task'
        /\ DOMAIN assignment \subseteq DOMAIN assignment'
    <3>1. CASE UNCHANGED tables
      BY <3>1 DEF tables, TablesInv, TypeOK, IsTable
    <3> QED
      BY <1>3, <3>1, WriteKeepsTables
  <2>2. TypeOK'
    BY <1>3, <2>1, WitnessTypes DEF TypeOK, TablesInv
  <2>3. \A s \in Requests : NamesRows(req'[s])
    BY <1>3
  <2>4. (\A s \in Requests : NamesRows(req[s]))'
    BY <2>1, <2>3 DEF NamesRows, Optional
  <2> QED
    BY <2>2, <2>4
<1> QED
  BY <1>1, <1>2, <1>3, OneRequestMoves

\* The tables, and what the requests know of them, are in order always.
THEOREM RowsCorrect == Spec => []RowsInv
<1>1. Init => RowsInv
  BY DEF Init, RowsInv, TypeOK, IsTable, NamesRows, Idle, Request
<1> QED
  BY <1>1, RowsStep, PTL DEF Spec

\* Every row keeps its type and refers to rows that exist, whatever handlers
\* interleave: the code adds and marks rows, and checks ids it was given against
\* the table before it writes them.
THEOREM TypeCorrect == Spec => []TypeOK
BY RowsCorrect, PTL DEF RowsInv

-------------------------------------------------------------------------------
\* A request that is left alone loses nothing of what it has found fit.
LEMMA VouchesLasts ==
  ASSUME NEW r \in Requests, Vouches(req[r], vouched[r]), req'[r] = req[r], Witness
  PROVE  Vouches(req'[r], vouched'[r])
<1> DEFINE q == req[r]
<1>1. vouched'[r] = Relies(q) \cap (Fit(q) \cup vouched[r])
  BY DEF Witness
<1>2. /\ q.op = "updateTask" => q.id \in Relies(q)
      /\ q.op = "createAssignment" => {q.user, q.task} \subseteq Relies(q)
  BY ReliesOn
<1>3. \A x \in Relies(q) : x \in vouched[r] => x \in vouched'[r]
  BY <1>1
<1>4. Vouches(q, vouched[r])
  OBVIOUS
<1> HIDE DEF q
<1>5. Vouches(q, vouched'[r])
  BY <1>2, <1>3, <1>4 DEF Vouches
<1> QED
  BY <1>5 DEF q

\* A request vouches for all that it relies on as soon as all that is fit.
LEMMA AllFitVouches ==
  ASSUME NEW r \in Requests, Witness, Relies(req'[r]) \subseteq Fit(req'[r]),
         req'[r].op # "createAssignment"
  PROVE  Vouches(req'[r], vouched'[r])
<1> DEFINE q == req'[r]
<1>1. vouched'[r] = Relies(q)
  BY DEF Witness
<1>2. q.op = "updateTask" => q.id \in Relies(q)
  BY ReliesOn
<1> QED
  BY <1>1, <1>2 DEF Vouches

\* The first lookup of each handler vouches for what it lets pass.
LEMMA LookupVouches ==
  ASSUME RowsInv, NEW r \in Requests, Lookup(r), Witness
  PROVE  Vouches(req'[r], vouched'[r])
<1> DEFINE q == req'[r]
<1>1. vouched'[r] = Relies(q) \cap (Fit(q) \cup vouched[r])
  BY DEF Witness
<1>2. req \in [Requests -> Request]
  BY DEF RowsInv, TypeOK
<1> USE DEF Begin, Proceed
<1>3. CASE CreateClientCheck(r)
  <2>1. PICK name \in Names :
          NameFree(name, {}) /\ q = [op |-> "createClient", name |-> name]
    BY <1>2, <1>3 DEF CreateClientCheck
  <2>2. q.op = "createClient" /\ q.name = name
    BY <2>1
  <2>3. Relies(q) = {name} /\ name \in Fit(q)
    BY <2>1, <2>2, ReliesOn, FitFor
  <2> QED
    BY <2>2, <2>3, AllFitVouches
<1>4. CASE UpdateClientFind(r)
  <2>1. PICK c \in Live(client), name \in Optional(Names),
             active \in Optional(BOOLEAN) :
          q = [op |-> "updateClient", id |-> c, name |-> name,
               is_active |-> active,
               checked |-> name \in {Undefined, client[c].name}]
    BY <1>2, <1>4 DEF UpdateClientFind
  <2> DEFINE checked == name \in {Undefined, client[c].name}
  <2>2. /\ q.op = "updateClient" /\ q.id = c /\ q.name = name
        /\ q.checked = checked
    <3>1. q = [op |-> "updateClient", id |-> c, name |-> name,
               is_active |-> active, checked |-> checked]
      BY <2>1
    <3> HIDE DEF checked, q
    <3> QED
      BY <3>1
  <2>3. CASE q.checked
    <3>1. name \in {Undefined, client[c].name}
      BY <2>2, <2>3
    <3>2. name \in Names \cup {Undefined}
      BY DEF Optional
    <3>3. Relies(q) = {name} \ {Undefined}
      BY <2>2, ReliesOn
    <3>4. Fit(q) = {n \in Names : NameFree(n, {c}) \/ n = client[c].name}
      BY <2>2, FitFor
    <3>5. Relies(q) \subseteq Fit(q)
      BY <3>1, <3>2, <3>3, <3>4
    <3> QED
      BY <2>2, <3>5, AllFitVouches
  <2> QED
    BY <2>2, <2>3 DEF Vouches
<1>5. CASE CreateProjectCheck(r)
  <2>1. PICK c \in Clients :
          UsableClient(c) /\ q = [op |-> "createProject", client |-> c]
    BY <1>2, <1>5 DEF CreateProjectCheck
  <2>2. q.op = "createProject" /\ q.client = c
    BY <2>1
  <2>3. Relies(q) = {c} /\ c \in Fit(q)
    BY <2>1, <2>2, ReliesOn, FitFor
  <2> QED
    BY <2>2, <2>3, AllFitVouches
<1>6. CASE UpdateProjectFind(r)
  <2>1. PICK p \in Live(project), c \in Optional(DOMAIN client),
             active \in Optional(BOOLEAN) :
          q = [op |-> "updateProject", id |-> p, client |-> c,
               is_active |-> active,
               checked |-> c \in {Undefined, project[p].client}]
    BY <1>2, <1>6 DEF UpdateProjectFind
  <2> DEFINE checked == c \in {Undefined, project[p].client}
  <2>2. /\ q.op = "updateProject" /\ q.id = p /\ q.client = c
        /\ q.checked = checked
    <3>1. q = [op |-> "updateProject", id |-> p, client |-> c,
               is_active |-> active, checked |-> checked]
      BY <2>1
    <3> HIDE DEF checked, q
    <3> QED
      BY <3>1
  <2>3. CASE q.checked
    <3>1. c \in {Undefined, project[p].client}
      BY <2>2, <2>3
    <3>2. c \in Clients \cup {Undefined}
      BY DEF RowsInv, TypeOK, IsTable, Optional
    <3>3. Relies(q) = {c} \ {Undefined}
      BY <2>2, ReliesOn
    <3>4. Fit(q) = {x \in Clients : UsableClient(x) \/ x = project[p].client}
      BY <2>2, FitFor
    <3>5. Relies(q) \subseteq Fit(q)
      BY <3>1, <3>2, <3>3, <3>4
    <3> QED
      BY <2>2, <3>5, AllFitVouches
  <2> QED
    BY <2>2, <2>3 DEF Vouches
<1>7. CASE CreateTaskCheck(r)
  <2>1. PICK p \in Projects :
          UsableProject(p) /\ q = [op |-> "createTask", project |-> p]
    BY <1>2, <1>7 DEF CreateTaskCheck
  <2>2. q.op = "createTask" /\ q.project = p
    BY <2>1
  <2>3. Relies(q) = {p} /\ p \in Fit(q)
    BY <2>1, <2>2, ReliesOn, FitFor
  <2> QED
    BY <2>2, <2>3, AllFitVouches
<1>8. CASE UpdateTaskFind(r)
  <2>1. PICK t \in Live(task), p \in Optional(DOMAIN project),
             status \in Optional(Statuses) :
          q = [op |-> "updateTask", id |-> t, project |-> p,
               status |-> status, checked |-> p = Undefined]
    BY <1>2, <1>8 DEF UpdateTaskFind
  <2> DEFINE checked == p = Undefined
  <2>2. /\ q.op = "updateTask" /\ q.id = t /\ q.project = p
        /\ q.checked = checked
    <3>1. q = [op |-> "updateTask", id |-> t, project |-> p,
               status |-> status, checked |-> checked]
      BY <2>1
    <3> HIDE DEF checked, q
    <3> QED
      BY <3>1
  <2>3. t \in Relies(q) /\ t \in Fit(q)
    BY <2>2, ReliesOn, FitFor
  <2>4. q.checked => Relies(q) = {t}
    <3>1. Relies(q) = {t} \cup ({p} \ {Undefined})
      BY <2>2, ReliesOn
    <3>2. q.checked => p = Undefined
      BY <2>2
    <3> QED
      BY <3>1, <3>2
  <2> QED
    BY <1>1, <2>2, <2>3, <2>4 DEF Vouches
<1>9. CASE CreateAssignmentFirst(r)
  <2>1. PICK u \in Users, t \in DOMAIN task, half \in {"user", "task"} :
          /\ Finds(half, u, t)
          /\ q = [op |-> "createAssignment", user |-> u, task |-> t,
                  unread |-> {"user", "task"} \ {half}]
    BY <1>2, <1>9 DEF CreateAssignmentFirst
  <2>2. /\ q.op = "createAssignment" /\ q.user = u /\ q.task = t
        /\ q.unread = {"user", "task"} \ {half}
    BY <2>1
  <2>3. /\ half = "user" => u \in Fit(q)
        /\ half = "task" => t \in Fit(q)
    BY <2>1, <2>2, FitFor DEF Finds
  <2>4. Relies(q) = {u, t}
    BY <2>2, ReliesOn
  <2> QED
    BY <1>1, <2>2, <2>3, <2>4 DEF Vouches
<1>10. CASE DeleteClientFind(r) \/ DeleteProjectFind(r) \/ DeleteTaskFind(r)
             \/ DeleteAssignmentFind(r)
  <2>1. q.op \in {"deleteClient", "deleteProject", "deleteTask",
                  "deleteAssignment"}
    BY <1>2, <1>10
    DEF DeleteClientFind, DeleteProjectFind, DeleteTaskFind, DeleteAssignmentFind
  <2> QED
    BY <2>1 DEF Vouches
<1> QED
  BY <1>3, <1>4, <1>5, <1>6, <1>7, <1>8, <1>9, <1>10 DEF Lookup

\* So does the second look.
LEMMA RecheckVouches ==
  ASSUME RowsInv, NEW r \in Requests, Vouches(req[r], vouched[r]),
         Recheck(r), Witness
  PROVE  Vouches(req'[r], vouched'[r])
<1> DEFINE q == req'[r]
<1>1. vouched'[r] = Relies(q) \cap (Fit(q) \cup vouched[r])
  BY DEF Witness
<1>2. req \in [Requests -> Request]
  BY DEF RowsInv, TypeOK
<1>3. CASE q = Idle
  BY <1>3 DEF Vouches, Idle
<1>4. CASE UpdateClientCheck(r) /\ q # Idle
  <2>1. /\ req[r] \in [op : {"updateClient"}, id : Clients,
                       name : Optional(Names),
                       is_active : Optional(BOOLEAN), checked : BOOLEAN]
        /\ NameFree(req[r].name, {req[r].id})
        /\ q = [req[r] EXCEPT !.checked = TRUE]
    BY <1>2, <1>4, LocalsOfRequest DEF UpdateClientCheck, Check, Proceed, RowsInv
  <2>2. /\ q.op = "updateClient" /\ q.id = req[r].id /\ q.name = req[r].name
        /\ q.name \in Names \cup {Undefined}
    BY <2>1 DEF Optional
  <2>3. Relies(q) = {q.name} \ {Undefined}
    BY <2>2, ReliesOn
  <2>4. Fit(q) = {n \in Names : NameFree(n, {q.id}) \/ n = client[q.id].name}
    BY <2>2, FitFor
  <2>5. NameFree(q.name, {q.id})
    BY <2>1, <2>2
  <2>6. Relies(q) \subseteq Fit(q)
    BY <2>2, <2>3, <2>4, <2>5
  <2> QED
    BY <2>2, <2>6, AllFitVouches
<1>5. CASE UpdateProjectCheck(r) /\ q # Idle
  <2>1. /\ req[r] \in [op : {"updateProject"}, id : Projects,
                       client : Optional(Clients),
                       is_active : Optional(BOOLEAN), checked : BOOLEAN]
        /\ UsableClient(req[r].client)
        /\ q = [req[r] EXCEPT !.checked = TRUE]
    BY <1>2, <1>5, LocalsOfRequest DEF UpdateProjectCheck, Check, Proceed, RowsInv
  <2>2. /\ q.op = "updateProject" /\ q.client = req[r].client
        /\ q.client \in Clients \cup {Undefined}
    BY <2>1 DEF Optional
  <2>3. Relies(q) = {q.client} \ {Undefined}
    BY <2>2, ReliesOn
  <2>4. Fit(q) = {c \in Clients : UsableClient(c) \/ c = project[q.id].client}
    BY <2>2, FitFor
  <2>5. UsableClient(q.client)
    BY <2>1, <2>2
  <2>6. Relies(q) \subseteq Fit(q)
    BY <2>2, <2>3, <2>4, <2>5
  <2> QED
    BY <2>2, <2>6, AllFitVouches
<1>6. CASE UpdateTaskCheck(r) /\ q # Idle
  <2>1. /\ req[r] \in [op : {"updateTask"}, id : Tasks,
                       project : Optional(Projects),
                       status : Optional(Statuses), checked : BOOLEAN]
        /\ UsableProject(req[r].project)
        /\ q = [req[r] EXCEPT !.checked = TRUE]
    BY <1>2, <1>6, LocalsOfRequest DEF UpdateTaskCheck, Check, Proceed, RowsInv
  <2>2. /\ q.op = "updateTask" /\ q.id = req[r].id
        /\ q.project = req[r].project
        /\ q.project \in Projects \cup {Undefined}
    BY <2>1 DEF Optional
  <2>3. q.id \in vouched[r]
    BY <2>1, <2>2 DEF Vouches
  <2>4. Relies(q) = {q.id} \cup ({q.project} \ {Undefined})
    BY <2>2, ReliesOn
  <2>5. Fit(q) = {p \in Projects : UsableProject(p)} \cup Live(task)
    BY <2>2, FitFor
  <2>6. UsableProject(q.project)
    BY <2>1, <2>2
  <2>7. vouched'[r] = Relies(q)
    BY <1>1, <2>2, <2>3, <2>4, <2>5, <2>6
  <2> QED
    BY <2>2, <2>4, <2>7 DEF Vouches
<1>7. CASE CreateAssignmentSecond(r) /\ q # Idle
  <2>1. req[r] \in [op : {"createAssignment"}, user : Users, task : Tasks,
                    unread : SUBSET {"user", "task"}]
    BY <1>7, LocalsOfRequest DEF CreateAssignmentSecond, RowsInv
  <2>2. PICK half \in req[r].unread :
          /\ Finds(half, req[r].user, req[r].task)
          /\ q = [req[r] EXCEPT !.unread = {}]
    BY <1>2, <1>7 DEF CreateAssignmentSecond, Proceed
  <2>3. /\ q.op = "createAssignment" /\ q.user = req[r].user
        /\ q.task = req[r].task /\ q.unread = {}
    BY <2>1, <2>2
  <2>4. /\ half = "user" => q.user \in Fit(q)
        /\ half = "task" => q.task \in Fit(q)
    <3>1. q.user \in Users
      BY <2>1, <2>3
    <3>2. Fit(q) = (Users \ departed) \cup Live(task)
      BY <2>3, FitFor
    <3>3. Finds(half, q.user, q.task)
      BY <2>2, <2>3
    <3> QED
      BY <3>1, <3>2, <3>3 DEF Finds
  <2>5. /\ half # "user" => q.user \in vouched[r]
        /\ half # "task" => q.task \in vouched[r]
    BY <2>1, <2>2, <2>3 DEF Vouches
  <2>6. Relies(q) = {q.user, q.task}
    BY <2>3, ReliesOn
  <2>7. q.user \in vouched'[r] /\ q.task \in vouched'[r]
    BY <1>1, <2>4, <2>5, <2>6
  <2> QED
    BY <2>3, <2>7 DEF Vouches
<1> QED
  BY <1>3, <1>4, <1>5, <1>6, <1>7 DEF Recheck

\* What is vouched for stays so until the request is answered.
LEMMA VouchedStep ==
  ASSUME RowsInv, ChecksAreVouched, [Next]_vars
  PROVE  ChecksAreVouched'
<1>1. CASE UNCHANGED vars
  BY <1>1 DEF vars, ChecksAreVouched, Vouches, Relies
<1>2. CASE UNCHANGED req /\ Witness
  <2>1. \A r \in Requests : Vouches(req'[r], vouched'[r])
    BY <1>2, VouchesLasts DEF ChecksAreVouched
  <2> QED
    BY <2>1 DEF ChecksAreVouched, Vouches, Relies
<1>3. ASSUME NEW r \in Requests, Lookup(r) \/ Recheck(r) \/ req'[r] = Idle,
             \A s \in Requests \ {r} : req'[s] = req[s], Witness
      PROVE  ChecksAreVouched'
  <2>1. \A s \in Requests \ {r} : Vouches(req'[s], vouched'[s])
    BY <1>3, VouchesLasts DEF ChecksAreVouched
  <2>2. Vouches(req'[r], vouched'[r])
    <3>1. CASE req'[r] = Idle
      BY <3>1 DEF Vouches, Idle
    <3> QED
      BY <1>3, <3>1, LookupVouches, RecheckVouches DEF ChecksAreVouched
  <2> QED
    BY <2>1, <2>2 DEF ChecksAreVouched, Vouches, Relies
<1> QED
  BY <1>1, <1>2, <1>3, OneRequestMoves

\* So it is in every reachable state.
THEOREM VouchedCorrect == Spec => []ChecksAreVouched
<1>1. Init => ChecksAreVouched
  BY DEF Init, ChecksAreVouched, Vouches, Idle
<1> QED
  BY <1>1, VouchedStep, RowsCorrect, PTL DEF Spec

-------------------------------------------------------------------------------
\* A request that writes has nothing left to check.
LEMMA WritersAreVouched ==
  ASSUME RowsInv, ChecksAreVouched, [Next]_vars, NEW r \in Requests,
         Writes(r, {"createClient", "updateClient", "createProject",
                    "updateProject", "createTask", "updateTask",
                    "createAssignment"})
  PROVE  Vouched(r)
<1>1. Write(r) /\ Vouches(req[r], vouched[r])
  BY OneRequestMoves DEF Writes, Busy, Idle, tables, vars, ChecksAreVouched
<1>2. /\ req[r].op \in {"updateClient", "updateProject", "updateTask"}
           => req[r].checked
      /\ req[r].op = "createAssignment" => req[r].unread = {}
  BY <1>1
  DEF Write, CreateClient, UpdateClient, DeleteClient,
      CreateProject, UpdateProject, DeleteProject,
      CreateTask, UpdateTask, DeleteTask, CreateAssignment, DeleteAssignment
<1>3. req[r].op = "createAssignment" => Relies(req[r]) = {req[r].user, req[r].task}
  BY ReliesOn
<1>4. Relies(req[r]) \subseteq vouched[r]
  BY <1>1, <1>2, <1>3 DEF Vouches, Writes
<1> QED
  BY <1>4 DEF Vouched

\* The handlers check first and write later, yet no row comes to refer to a
\* client or project that was out of use, or a task or user that was deleted,
\* all the while: the two lookups for an assignment need not see one moment.
THEOREM ReferencesAreVouchedAlways == Spec => ReferencesAreVouched
<1>1. RowsInv /\ ChecksAreVouched /\ [Next]_vars
        => [\A r \in Requests :
              Writes(r, {"createProject", "createTask", "updateTask",
                         "createAssignment"})
              => Vouched(r)]_vars
  BY WritersAreVouched DEF Writes
<1> QED
  BY <1>1, RowsCorrect, VouchedCorrect, PTL DEF Spec, ReferencesAreVouched

\* Whatever creations, renames and deletions interleave, a client comes to have
\* a name only if it was free, or the client's own, at some moment of the
\* request: two clients of one name are the work of requests that overlapped.
THEOREM ClientNamesAreVouchedAlways == Spec => ClientNamesAreVouched
<1>1. RowsInv /\ ChecksAreVouched /\ [Next]_vars
        => [\A r \in Requests :
              Writes(r, {"createClient", "updateClient"}) => Vouched(r)]_vars
  BY WritersAreVouched DEF Writes
<1> QED
  BY <1>1, RowsCorrect, VouchedCorrect, PTL DEF Spec, ClientNamesAreVouched

\* A project comes under a client only if the client was usable, or the project
\* was under it already, at some moment of the request, although update does not
\* check the client it has read and another request may move the project between.
THEOREM ProjectMovesAreVouchedAlways == Spec => ProjectMovesAreVouched
<1>1. RowsInv /\ ChecksAreVouched /\ [Next]_vars
        => [\A r \in Requests : Writes(r, {"updateProject"}) => Vouched(r)]_vars
  BY WritersAreVouched DEF Writes
<1> QED
  BY <1>1, RowsCorrect, VouchedCorrect, PTL DEF Spec, ProjectMovesAreVouched

\* A deleted task comes to be open only through an update of it that found it
\* live, before the deletion: of all writes only this one keeps a row deleted
\* and gives it a status.
THEOREM DeletedTasksReopenByRaceAlways == Spec => DeletedTasksReopenByRace
<1>1. ASSUME RowsInv, ChecksAreVouched, [Next]_vars, NEW t \in DOMAIN task,
             OpenDeleted(t)', ~OpenDeleted(t)
      PROVE  \E r \in Requests : /\ Writes(r, {"updateTask"})
                                 /\ req[r].id = t
                                 /\ t \in vouched[r]
  <2>1. task'[t].deleted /\ task'[t].status = "open" /\ task' # task
    BY <1>1 DEF OpenDeleted
  <2>2. PICK r \in Requests : Write(r) /\ req'[r] = Idle
    BY <1>1, <2>1, OneRequestMoves DEF vars, tables
  <2>3. CreateTask(r) \/ UpdateTask(r) \/ DeleteTask(r)
    BY <1>1, <2>1, <2>2, ClientWrites, ProjectWrites, AssignmentWrites DEF Write
  <2>4. PICK x \in Tasks, row \in TaskRow :
          /\ RowWritten(task, task', x, row)
          /\ \/ row.deleted /\ row.status = "closed"
             \/ ~row.deleted
             \/ /\ req[r].op = "updateTask"
                /\ x = req[r].id
                /\ row.deleted = task[x].deleted
    BY <1>1, <2>3, TaskWrites
  <2>5. x = t
    BY <1>1, <2>1, <2>4 DEF RowWritten, OpenDeleted
  <2>6. req[r].op = "updateTask" /\ req[r].id = t
    BY <2>1, <2>4, <2>5 DEF RowWritten
  <2>7. t \in vouched[r]
    BY <1>1, <2>6 DEF ChecksAreVouched, Vouches
  <2>8. tables' # tables
    BY <2>1 DEF tables
  <2> QED
    BY <2>2, <2>6, <2>7, <2>8 DEF Writes
<1>2. RowsInv /\ ChecksAreVouched /\ [Next]_vars
        => [\A t \in DOMAIN task :
              OpenDeleted(t)' /\ ~OpenDeleted(t)
              => \E r \in Requests : /\ Writes(r, {"updateTask"})
                                     /\ req[r].id = t
                                     /\ t \in vouched[r]]_vars
  BY <1>1
<1> QED
  BY <1>2, RowsCorrect, VouchedCorrect, PTL DEF Spec, DeletedTasksReopenByRace
================================================================================
