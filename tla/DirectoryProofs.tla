---------------------------- MODULE DirectoryProofs ----------------------------
(***************************************************************************)
(* Theorems about Directory for any accounts, addresses, seed and requests. *)
(***************************************************************************)
EXTENDS Directory, TLAPS

-------------------------------------------------------------------------------
\* A request that is past its lookup knows an account that exists: rows are
\* added and marked as deleted, never removed.
IdsExist ==
    \A r \in Requests :
        req[r].op \in {"update", "deactivate", "restore"}
        => req[r].id \in DOMAIN user

\* The unique index on the e-mails of live accounts.
IndexHolds ==
    \A u, v \in Live : user[u].email = user[v].email => u = v

\* Only an edit brings capitals into the table.
LowerUntilEdited ==
    /\ \A u \in DOMAIN user \ edited : user[u].email.form = "lower"
    /\ \A r \in Requests : req[r].op = "create" => req[r].email.form = "lower"

\* The request may write its address without looking any further.
ReadyToWrite(q) ==
    \/ q.op = "create"
    \/ q.op = "update" /\ q.checked /\ q.email # Undefined

\* ... because there was a moment at which it could have had it.
ChecksAreVouched ==
    \A r \in Requests :
        ReadyToWrite(req[r]) => req[r].email.address \in vouched[r]

\* Until two requests overlap, what the one in progress has looked up is still
\* so when it writes: nobody has taken its address, and the account to restore
\* is live.
AloneSince ==
    /\ \A r, s \in Requests : Busy(r) /\ Busy(s) => r = s
    /\ \A r \in Requests :
          /\ ReadyToWrite(req[r]) => ~Taken(req[r].email, Self(req[r]))
          /\ req[r].op = "restore" => req[r].id \in Live

NoTwins ==
    \A u, v \in Live : user[u].email.address = user[v].email.address => u = v

RowsInv == TypeOK /\ IdsExist /\ IndexHolds /\ LowerUntilEdited
RaceInv == ~overlapped => AloneSince /\ NoTwins

-------------------------------------------------------------------------------
\* What a request holds is determined by its operation.
LEMMA LocalsOfRequest ==
  ASSUME TypeOK, NEW r \in Requests
  PROVE  /\ req[r].op = "create" => req[r] \in [op : {"create"}, email : Emails]
         /\ req[r].op = "update" =>
              req[r] \in [op : {"update"}, id : Users,
                          email : Emails \cup {Undefined}, checked : BOOLEAN]
         /\ req[r].op \in {"deactivate", "restore"} =>
              req[r] \in [op : {"deactivate", "restore"}, id : Users]
BY DEF TypeOK, Request, Idle

\* A step of one request leaves the locals of the others alone, and notes what
\* the moment allows to each.
LEMMA StepWitness ==
  ASSUME TypeOK, NEW r \in Requests, NEW locals \in Request,
         Proceed(r, locals)
  PROVE  /\ req' \in [Requests -> Request]
         /\ req'[r] = locals
         /\ \A s \in Requests \ {r} : req'[s] = req[s]
         /\ overlapped' \in BOOLEAN
         /\ vouched' \in [Requests -> SUBSET Addresses]
         /\ \A s \in Requests : req'[s] # Idle =>
              vouched'[s] = vouched[s] \cup FreeTo(req'[s])
BY DEF Proceed, Witness, TypeOK, FreeTo

\* One row is added or replaced, by one that the index admits and that has no
\* capitals unless it counts as edited.
RowWritten(u, row) ==
    /\ u \in Users /\ row \in Row
    /\ DOMAIN user' = DOMAIN user \cup {u}
    /\ user'[u] = row
    /\ \A x \in DOMAIN user \ {u} : user'[x] = user[x]
    /\ row.deleted \/ IndexAdmits(u, row.email)
    /\ edited' = edited \/ edited' = edited \cup {u}
    /\ u \in edited' \/ row.email.form = "lower"

TableInv ==
    /\ DOMAIN user \subseteq Users
    /\ \A u \in DOMAIN user : user[u] \in Row
    /\ edited \subseteq DOMAIN user
    /\ \A u \in DOMAIN user \ edited : user[u].email.form = "lower"
    /\ IndexHolds

\* Such a write keeps the table in order.
LEMMA RowWrittenKeepsTable ==
  ASSUME TableInv, NEW u, NEW row, RowWritten(u, row)
  PROVE  TableInv'
<1>1. ASSUME NEW x \in Live', NEW y \in Live', user'[x].email = user'[y].email
      PROVE  x = y
  <2>1. /\ x # u => x \in Live /\ user'[x] = user[x]
        /\ y # u => y \in Live /\ user'[y] = user[y]
        /\ x = u \/ y = u => ~row.deleted
    BY DEF RowWritten, Live
  <2> QED
    BY <1>1, <2>1 DEF RowWritten, TableInv, IndexHolds, IndexAdmits
<1>2. IndexHolds'
  BY <1>1 DEF IndexHolds
<1> QED
  BY <1>2 DEF TableInv, RowWritten

\* Create, updateUser, deactivateUser and restoreUser write one row at most.
LEMMA TableMoves ==
  ASSUME RowsInv, NEW r \in Requests,
         \/ Create(r) \/ Update(r) \/ Deactivate(r) \/ Restore(r)
  PROVE  \/ UNCHANGED <<user, edited>>
         \/ \E u \in Users, row \in Row : RowWritten(u, row)
<1> SUFFICES ASSUME ~UNCHANGED <<user, edited>>
             PROVE  \E u \in Users, row \in Row : RowWritten(u, row)
  OBVIOUS
<1> USE DEF RowsInv
<1>1. CASE Create(r)
  <2>1. PICK u \in Users \ DOMAIN user :
          /\ IndexAdmits(u, req[r].email)
          /\ user' = [x \in DOMAIN user \cup {u} |->
                        IF x = u THEN [email |-> req[r].email, deleted |-> FALSE]
                        ELSE user[x]]
          /\ edited' = edited
    BY <1>1 DEF Create
  <2>2. /\ req[r].email \in Emails
        /\ req[r].email.form = "lower"
    BY <1>1, LocalsOfRequest DEF Create, LowerUntilEdited
  <2>3. RowWritten(u, [email |-> req[r].email, deleted |-> FALSE])
    BY <2>1, <2>2 DEF RowWritten, Row
  <2> QED
    BY <2>3 DEF RowWritten
<1>2. CASE Update(r)
  <2> DEFINE u == req[r].id
             row == [user[u] EXCEPT !.email = req[r].email]
  <2>1. /\ req[r].email # Undefined
        /\ user[u].deleted \/ IndexAdmits(u, req[r].email)
        /\ user' = [user EXCEPT ![u].email = req[r].email]
        /\ edited' = edited \cup {u}
    BY <1>2 DEF Update
  <2>2. u \in DOMAIN user /\ u \in Users /\ req[r].email \in Emails
    BY <1>2, <2>1, LocalsOfRequest DEF Update, IdsExist
  <2>3. RowWritten(u, row)
    BY <2>1, <2>2 DEF RowWritten, TypeOK, Row
  <2> QED
    BY <2>3 DEF RowWritten
<1>3. CASE Deactivate(r)
  <2> DEFINE u == req[r].id
             row == [user[u] EXCEPT !.deleted = TRUE]
  <2>1. /\ user' = [user EXCEPT ![u].deleted = TRUE]
        /\ edited' = edited
    BY <1>3 DEF Deactivate
  <2>2. u \in DOMAIN user /\ u \in Users
    BY <1>3, LocalsOfRequest DEF Deactivate, IdsExist
  <2>3. RowWritten(u, row)
    BY <2>1, <2>2 DEF RowWritten, TypeOK, Row, LowerUntilEdited
  <2> QED
    BY <2>3 DEF RowWritten
<1>4. CASE Restore(r)
  <2> DEFINE u == req[r].id
             row == [user[u] EXCEPT !.deleted = FALSE]
  <2>1. /\ IndexAdmits(u, user[u].email)
        /\ user' = [user EXCEPT ![u].deleted = FALSE]
        /\ edited' = edited
    BY <1>4 DEF Restore
  <2>2. u \in DOMAIN user /\ u \in Users
    BY <1>4, LocalsOfRequest DEF Restore, IdsExist
  <2>3. RowWritten(u, row)
    BY <2>1, <2>2 DEF RowWritten, TypeOK, Row, LowerUntilEdited
  <2> QED
    BY <2>3 DEF RowWritten
<1> QED
  BY <1>1, <1>2, <1>3, <1>4

Lookup(r) == CreateLookup(r) \/ UpdateFind(r) \/ UpdateLookup(r)
                \/ DeactivateFind(r) \/ RestoreFind(r)
Write(r) == Create(r) \/ Update(r) \/ Deactivate(r) \/ Restore(r)

\* Locals that name an existing account, or an address in small letters.
WellPlaced(q) ==
    /\ q \in Request
    /\ q.op \in {"update", "deactivate", "restore"} => q.id \in DOMAIN user
    /\ q.op = "create" => q.email.form = "lower"

\* A lookup leaves the table alone, and the request with such locals.
LEMMA LookupMoves ==
  ASSUME RowsInv, NEW r \in Requests, Lookup(r)
  PROVE  /\ UNCHANGED <<user, edited>>
         /\ \E locals : Proceed(r, locals) /\ WellPlaced(locals)
<1> USE DEF Begin, WellPlaced
<1>1. CASE CreateLookup(r)
  <2>1. PICK email \in Emails : Proceed(r, [op |-> "create", email |-> Lower(email)])
    BY <1>1 DEF CreateLookup
  <2>2. Lower(email) \in Emails /\ Lower(email).form = "lower"
    BY DEF Lower, Emails, Forms
  <2> QED
    BY <1>1, <2>1, <2>2 DEF CreateLookup, Request
<1>2. CASE UpdateFind(r)
  <2>1. PICK u \in Live, email \in Emails \cup {Undefined} :
          Proceed(r, [op |-> "update", id |-> u, email |-> email,
                      checked |-> \/ email = Undefined
                                  \/ Lower(email) = Lower(user[u].email)])
    BY <1>2 DEF UpdateFind
  <2> DEFINE checked == \/ email = Undefined
                        \/ Lower(email) = Lower(user[u].email)
             locals == [op |-> "update", id |-> u, email |-> email,
                        checked |-> checked]
  <2>2. checked \in BOOLEAN
    OBVIOUS
  <2>3. u \in DOMAIN user /\ u \in Users
    BY DEF Live, RowsInv, TypeOK
  <2>4. WellPlaced(locals)
    <3> HIDE DEF checked
    <3> QED
      BY <2>2, <2>3 DEF Request
  <2> QED
    BY <1>2, <2>1, <2>4, Zenon DEF UpdateFind
<1>3. CASE UpdateLookup(r)
  <2>1. /\ req[r] \in [op : {"update"}, id : Users,
                       email : Emails \cup {Undefined}, checked : BOOLEAN]
        /\ req[r].id \in DOMAIN user
    BY <1>3, LocalsOfRequest DEF UpdateLookup, RowsInv, IdsExist
  <2>2. WellPlaced(Idle) /\ WellPlaced([req[r] EXCEPT !.checked = TRUE])
    BY <2>1 DEF Request, Idle
  <2> QED
    BY <1>3, <2>2 DEF UpdateLookup
<1>4. CASE DeactivateFind(r) \/ RestoreFind(r)
  <2>1. PICK op \in {"deactivate", "restore"} : StandingFind(r, op)
    BY <1>4 DEF DeactivateFind, RestoreFind
  <2>2. PICK u \in Live : Proceed(r, [op |-> op, id |-> u])
    BY <2>1 DEF StandingFind
  <2>3. u \in DOMAIN user /\ u \in Users
    BY DEF Live, RowsInv, TypeOK
  <2> QED
    BY <2>1, <2>2, <2>3 DEF StandingFind, Request
<1> QED
  BY <1>1, <1>2, <1>3, <1>4 DEF Lookup

\* A write answers its request.
LEMMA WriteAnswers ==
  ASSUME NEW r \in Requests, Write(r)
  PROVE  Proceed(r, Idle)
BY DEF Write, Create, Update, Deactivate, Restore, Answer

\* The type invariant is kept together with what makes every row that a write
\* reaches exist, and the index with what makes it say who signs in.
LEMMA RowsStep ==
  ASSUME RowsInv, [Next]_vars
  PROVE  RowsInv'
<1>1. CASE UNCHANGED vars
  BY <1>1 DEF vars, RowsInv, TypeOK, IdsExist, IndexHolds, LowerUntilEdited, Live
<1>2. ASSUME NEW r \in Requests, Lookup(r) \/ Write(r)
      PROVE  RowsInv'
  <2>1. PICK locals : Proceed(r, locals) /\ WellPlaced(locals)
    BY <1>2, LookupMoves, WriteAnswers DEF WellPlaced, Idle, Request
  <2>2. \/ UNCHANGED <<user, edited>>
        \/ \E u \in Users, row \in Row : RowWritten(u, row)
    BY <1>2, LookupMoves, TableMoves DEF Write
  <2>3. TableInv
    BY DEF RowsInv, TableInv, TypeOK, LowerUntilEdited
  <2>4. TableInv' /\ DOMAIN user \subseteq DOMAIN user'
    <3>1. CASE UNCHANGED <<user, edited>>
      BY <2>3, <3>1 DEF TableInv, IndexHolds, Live
    <3>2. CASE \E u \in Users, row \in Row : RowWritten(u, row)
      BY <2>3, <3>2, RowWrittenKeepsTable DEF RowWritten
    <3> QED
      BY <2>2, <3>1, <3>2
  <2>5. /\ req' \in [Requests -> Request]
        /\ req'[r] = locals
        /\ \A s \in Requests \ {r} : req'[s] = req[s]
        /\ overlapped' \in BOOLEAN
        /\ vouched' \in [Requests -> SUBSET Addresses]
    BY <2>1, StepWitness DEF RowsInv, WellPlaced
  <2>6. TypeOK'
    BY <2>4, <2>5 DEF TypeOK, TableInv
  <2>7. IdsExist'
    BY <2>1, <2>4, <2>5 DEF IdsExist, WellPlaced, RowsInv
  <2>8. LowerUntilEdited'
    BY <2>1, <2>4, <2>5 DEF LowerUntilEdited, WellPlaced, RowsInv, TableInv
  <2> QED
    BY <2>4, <2>6, <2>7, <2>8 DEF RowsInv, TableInv
<1> QED
  BY <1>1, <1>2 DEF Next, Lookup, Write

\* The seed is a table in order: its addresses differ and are in small letters.
LEMMA RowsInit == Init => RowsInv
<1> SUFFICES ASSUME Init
             PROVE  RowsInv
  OBVIOUS
<1>1. TypeOK
  BY SeededAssumption
  DEF Init, TypeOK, Request, Idle, Row, Emails, Forms
<1>2. IdsExist /\ IndexHolds /\ LowerUntilEdited
  BY SeededAssumption
  DEF Init, Idle, IdsExist, IndexHolds, LowerUntilEdited, Live
<1> QED
  BY <1>1, <1>2 DEF RowsInv

\* The rows, the index, and what the requests know of them, are in order always.
THEOREM RowsCorrect == Spec => []RowsInv
BY RowsInit, RowsStep, PTL DEF Spec

\* Whatever is raced for, edited, deactivated or restored, no account loses its
\* row or its place among the ids, and every request knows only accounts.
THEOREM TypeCorrect == Spec => []TypeOK
BY RowsCorrect, PTL DEF RowsInv

\* An account whose e-mail nobody edited is the only one that login finds under
\* its address: it is stored in small letters, and the index lets no other live
\* account have exactly that.
THEOREM CreatedAccountsCanSignInAlways == Spec => []CreatedAccountsCanSignIn
<1>1. RowsInv => CreatedAccountsCanSignIn
  BY DEF RowsInv, TypeOK, Row, Emails, LowerUntilEdited, IndexHolds,
         CreatedAccountsCanSignIn, LoginFinds, Live
<1> QED
  BY <1>1, RowsCorrect, PTL

-------------------------------------------------------------------------------
\* A lookup lets a request go on to write an address only if no other live
\* account holds it, or its own has it already; and lets a restoration go on
\* only with an account that is live.
LEMMA LookupFinds ==
  ASSUME RowsInv, NEW r \in Requests, Lookup(r)
  PROVE  /\ ReadyToWrite(req'[r]) =>
              /\ req'[r].email \in Emails
              /\ \/ ~Taken(req'[r].email, Self(req'[r]))
                 \/ /\ req'[r].op = "update"
                    /\ req'[r].id \in Live
                    /\ user[req'[r].id].email.address = req'[r].email.address
         /\ req'[r].op = "restore" => req'[r].id \in Live
<1> USE DEF Begin, Proceed, ReadyToWrite, Self, RowsInv
<1>1. CASE CreateLookup(r)
  <2>1. PICK email \in Emails :
          /\ ~Taken(Lower(email), {})
          /\ req' = [req EXCEPT ![r] = [op |-> "create", email |-> Lower(email)]]
    BY <1>1 DEF CreateLookup
  <2>2. req'[r] = [op |-> "create", email |-> Lower(email)]
    BY <2>1 DEF TypeOK
  <2>3. Lower(email) \in Emails
    BY DEF Lower, Emails, Forms
  <2> QED
    BY <2>1, <2>2, <2>3
<1>2. CASE UpdateFind(r)
  <2>1. PICK u \in Live, email \in Emails \cup {Undefined} :
          req' = [req EXCEPT ![r] =
                    [op |-> "update", id |-> u, email |-> email,
                     checked |-> \/ email = Undefined
                                 \/ Lower(email) = Lower(user[u].email)]]
    BY <1>2 DEF UpdateFind
  <2>2. /\ req'[r].op = "update" /\ req'[r].id = u /\ req'[r].email = email
        /\ req'[r].checked <=> \/ email = Undefined
                               \/ Lower(email) = Lower(user[u].email)
    BY <2>1 DEF TypeOK
  <2>3. email # Undefined /\ Lower(email) = Lower(user[u].email)
          => user[u].email.address = email.address
    BY DEF Lower, Live, TypeOK, Row, Emails
  <2> QED
    BY <2>2, <2>3
<1>3. CASE UpdateLookup(r)
  <2>1. req[r] \in [op : {"update"}, id : Users,
                    email : Emails \cup {Undefined}, checked : BOOLEAN]
    BY <1>3, LocalsOfRequest DEF UpdateLookup
  <2>2. CASE Taken(req[r].email, {req[r].id})
    BY <1>3, <2>2 DEF UpdateLookup, TypeOK, Idle
  <2>3. CASE ~Taken(req[r].email, {req[r].id})
    <3>1. req'[r] = [req[r] EXCEPT !.checked = TRUE]
      BY <1>3, <2>3 DEF UpdateLookup, TypeOK
    <3> QED
      BY <2>1, <2>3, <3>1
  <2> QED
    BY <2>2, <2>3
<1>4. CASE DeactivateFind(r) \/ RestoreFind(r)
  <2>1. PICK op \in {"deactivate", "restore"}, u \in Live :
          req' = [req EXCEPT ![r] = [op |-> op, id |-> u]]
    BY <1>4 DEF DeactivateFind, RestoreFind, StandingFind
  <2>2. req'[r] = [op |-> op, id |-> u]
    BY <2>1 DEF TypeOK
  <2> QED
    BY <2>2
<1> QED
  BY <1>1, <1>2, <1>3, <1>4 DEF Lookup

\* Every step is a stutter, or a lookup or write of one request that leaves the
\* locals of the others alone and answers the request if it is a write.
LEMMA OneRequestMoves ==
  ASSUME RowsInv, [Next]_vars
  PROVE  \/ UNCHANGED vars
         \/ \E r \in Requests :
              /\ \/ Lookup(r) /\ UNCHANGED <<user, edited>>
                 \/ Write(r) /\ req'[r] = Idle
              /\ \A s \in Requests \ {r} : req'[s] = req[s]
              /\ Witness
<1> SUFFICES ASSUME NEW r \in Requests, Lookup(r) \/ Write(r)
             PROVE  /\ \/ Lookup(r) /\ UNCHANGED <<user, edited>>
                       \/ Write(r) /\ req'[r] = Idle
                    /\ \A s \in Requests \ {r} : req'[s] = req[s]
                    /\ Witness
  BY DEF Next, Lookup, Write
<1>1. PICK locals \in Request : Proceed(r, locals)
  BY LookupMoves, WriteAnswers DEF WellPlaced, Request
<1>2. Write(r) => req'[r] = Idle
  BY WriteAnswers DEF Proceed, RowsInv, TypeOK
<1> QED
  BY <1>1, <1>2, LookupMoves, StepWitness DEF Proceed, RowsInv

\* A request that is ready to write had its address, or could have had it, at
\* some moment since it began.
LEMMA VouchedStep ==
  ASSUME RowsInv, ChecksAreVouched, [Next]_vars
  PROVE  ChecksAreVouched'
<1>1. CASE UNCHANGED vars
  BY <1>1 DEF vars, ChecksAreVouched
<1>2. ASSUME NEW r \in Requests, Lookup(r) \/ req'[r] = Idle,
             \A s \in Requests \ {r} : req'[s] = req[s], Witness
      PROVE  ChecksAreVouched'
  <2> SUFFICES ASSUME NEW s \in Requests, ReadyToWrite(req'[s])
               PROVE  req'[s].email.address \in vouched'[s]
    BY DEF ChecksAreVouched, ReadyToWrite
  <2>1. vouched'[s] = vouched[s] \cup FreeTo(req'[s])
    BY <1>2 DEF Witness, ReadyToWrite, Idle
  <2>2. CASE s # r
    BY <1>2, <2>1, <2>2 DEF ChecksAreVouched
  <2>3. CASE s = r
    <3>1. Lookup(r)
      BY <1>2, <2>3 DEF ReadyToWrite, Idle
    <3>2. /\ req'[r].email \in Emails
          /\ \/ ~Taken(req'[r].email, Self(req'[r]))
             \/ /\ req'[r].op = "update"
                /\ user[req'[r].id].email.address = req'[r].email.address
      BY <2>3, <3>1, LookupFinds
    <3>3. req'[r].email.address \in FreeTo(req'[r])
      BY <3>2 DEF FreeTo, Taken, Self, Emails
    <3> QED
      BY <2>1, <2>3, <3>3
  <2> QED
    BY <2>2, <2>3
<1> QED
  BY <1>1, <1>2, OneRequestMoves

\* ... always, so the row that updateUser compares with may be as old as it is.
THEOREM VouchedCorrect == Spec => []ChecksAreVouched
<1>1. Init => ChecksAreVouched
  BY DEF Init, ChecksAreVouched, ReadyToWrite, Idle
<1> QED
  BY <1>1, VouchedStep, RowsCorrect, PTL DEF Spec

\* What a write does to e-mails: one account at most is given the address of the
\* request, and only a restoration makes an account live that was not.
LEMMA WriteMoves ==
  ASSUME RowsInv, NEW r \in Requests, Write(r)
  PROVE  /\ Busy(r)
         /\ \E w \in Users :
              /\ Self(req[r]) \subseteq {w}
              /\ \A u \in DOMAIN user' :
                   \/ /\ u \in DOMAIN user
                      /\ user'[u].email = user[u].email
                      /\ u \in Live' => \/ u \in Live
                                        \/ req[r].op = "restore" /\ u = req[r].id
                   \/ /\ u = w
                      /\ ReadyToWrite(req[r])
                      /\ user'[u].email = req[r].email
<1> USE DEF Busy, Idle, Self, ReadyToWrite
<1>1. CASE Create(r)
  <2>1. PICK w \in Users \ DOMAIN user :
          \/ user' = user
          \/ user' = [x \in DOMAIN user \cup {w} |->
                        IF x = w THEN [email |-> req[r].email, deleted |-> FALSE]
                        ELSE user[x]]
    BY <1>1 DEF Create
  <2> QED
    BY <1>1, <2>1 DEF Create, Live
<1>2. CASE Update(r)
  <2>1. req[r].id \in Users
    BY <1>2, LocalsOfRequest DEF Update, RowsInv
  <2>2. \A u \in DOMAIN user' :
          /\ u \in DOMAIN user
          /\ user'[u].deleted = user[u].deleted
          /\ \/ user'[u].email = user[u].email
             \/ /\ u = req[r].id
                /\ req[r].email # Undefined
                /\ user'[u].email = req[r].email
    BY <1>2 DEF Update, RowsInv, TypeOK, Row
  <2> QED
    BY <1>2, <2>1, <2>2 DEF Update, Live
<1>3. CASE Deactivate(r) \/ Restore(r)
  <2>1. req[r].id \in Users
    BY <1>3, LocalsOfRequest DEF Deactivate, Restore, RowsInv
  <2>2. \A u \in DOMAIN user' :
          /\ u \in DOMAIN user
          /\ user'[u].email = user[u].email
          /\ \/ user'[u].deleted \/ user'[u].deleted = user[u].deleted
             \/ req[r].op = "restore" /\ u = req[r].id
    BY <1>3 DEF Deactivate, Restore, RowsInv, TypeOK, Row
  <2> QED
    BY <1>3, <2>1, <2>2 DEF Deactivate, Restore, Live
<1> QED
  BY <1>1, <1>2, <1>3 DEF Write

\* An account comes to hold another address only if its request could have had
\* that address at some moment while it took, however many others raced for it.
THEOREM AddressesAreVouchedAlways == Spec => AddressesAreVouched
<1>1. ASSUME RowsInv, ChecksAreVouched, [Next]_vars,
             NEW r \in Requests, NEW u \in Users,
             req[r] # Idle, req'[r] = Idle, u \in DOMAIN user',
             u \in DOMAIN user =>
                user[u].email.address # user'[u].email.address
      PROVE  user'[u].email.address \in vouched[r] \cup FreeTo(req[r])
  <2>1. Write(r)
    BY <1>1, OneRequestMoves DEF vars, RowsInv, TypeOK
  <2>2. ReadyToWrite(req[r]) /\ user'[u].email = req[r].email
    BY <1>1, <2>1, WriteMoves
  <2> QED
    BY <1>1, <2>2 DEF ChecksAreVouched
<1>2. RowsInv /\ ChecksAreVouched /\ [Next]_vars
        => [\A r \in Requests, u \in Users :
              /\ req[r] # Idle /\ req'[r] = Idle
              /\ u \in DOMAIN user'
              /\ u \in DOMAIN user =>
                    user[u].email.address # user'[u].email.address
              => user'[u].email.address \in vouched[r] \cup FreeTo(req[r])]_vars
  BY <1>1
<1> QED
  BY <1>2, RowsCorrect, VouchedCorrect, PTL DEF Spec, AddressesAreVouched

-------------------------------------------------------------------------------
\* As long as no two requests have overlapped, live accounts differ in their
\* addresses, not only in their e-mails as the index has it.
LEMMA RaceStep ==
  ASSUME RowsInv, RaceInv, [Next]_vars
  PROVE  RaceInv'
<1>1. CASE UNCHANGED vars
  BY <1>1 DEF vars, RaceInv, AloneSince, NoTwins, Busy, Taken, Live
<1>2. ASSUME NEW r \in Requests,
             \/ Lookup(r) /\ UNCHANGED <<user, edited>>
             \/ Write(r) /\ req'[r] = Idle,
             \A s \in Requests \ {r} : req'[s] = req[s],
             Witness, ~overlapped'
      PROVE  AloneSince' /\ NoTwins'
  <2>1. AloneSince /\ NoTwins
    BY <1>2 DEF Witness, RaceInv
  <2>2. \A s, q \in Requests : Busy(s)' /\ Busy(q)' => s = q
    BY <1>2 DEF Witness, Busy
  <2>3. CASE Lookup(r) /\ UNCHANGED <<user, edited>>
    <3>1. NoTwins'
      BY <2>1, <2>3 DEF NoTwins, Live
    <3>2. ASSUME NEW s \in Requests
          PROVE  /\ ReadyToWrite(req'[s]) => ~Taken(req'[s].email, Self(req'[s]))
                 /\ req'[s].op = "restore" => req'[s].id \in Live
      <4>1. CASE s # r
        BY <1>2, <2>1, <4>1 DEF AloneSince
      <4>2. CASE s = r
        <5>1. /\ ReadyToWrite(req'[r]) =>
                   \/ ~Taken(req'[r].email, Self(req'[r]))
                   \/ /\ req'[r].op = "update"
                      /\ req'[r].id \in Live
                      /\ user[req'[r].id].email.address = req'[r].email.address
              /\ req'[r].op = "restore" => req'[r].id \in Live
          BY <2>3, LookupFinds
        <5>2. \A u \in Live : \A email :
                user[u].email.address = email.address => ~Taken(email, {u})
          BY <2>1 DEF NoTwins, Taken
        <5> QED
          BY <4>2, <5>1, <5>2 DEF Self
      <4> QED
        BY <4>1, <4>2
    <3> QED
      BY <2>2, <2>3, <3>1, <3>2 DEF AloneSince, Taken, Live
  <2>4. CASE Write(r) /\ req'[r] = Idle
    <3>1. \A s \in Requests : req'[s] = Idle
      BY <1>2, <2>1, <2>4, WriteMoves DEF AloneSince, Busy
    <3>2. PICK w \in Users :
            /\ Self(req[r]) \subseteq {w}
            /\ \A u \in Live' :
                 \/ u \in Live /\ user'[u].email = user[u].email
                 \/ /\ u = w
                    /\ ReadyToWrite(req[r])
                    /\ user'[u].email = req[r].email
      BY <2>1, <2>4, WriteMoves DEF AloneSince, Live
    <3>3. ReadyToWrite(req[r]) => ~Taken(req[r].email, Self(req[r]))
      BY <2>1 DEF AloneSince
    <3>4. NoTwins'
      BY <2>1, <3>2, <3>3 DEF NoTwins, Taken
    <3> QED
      BY <3>1, <3>4 DEF AloneSince, ReadyToWrite, Busy, Idle
  <2> QED
    BY <1>2, <2>3, <2>4
<1> QED
  BY <1>1, <1>2, OneRequestMoves DEF RaceInv

\* Two live accounts share an address, in different letters, only if two
\* requests have been in progress at once.
THEOREM TwinsNeedARaceAlways == Spec => []TwinsNeedARace
<1>1. Init => RaceInv
  BY SeededAssumption
  DEF Init, RaceInv, AloneSince, NoTwins, ReadyToWrite, Busy, Idle, Live
<1>2. RaceInv => TwinsNeedARace
  BY DEF RaceInv, NoTwins, TwinsNeedARace
<1> QED
  BY <1>1, <1>2, RaceStep, RowsCorrect, PTL DEF Spec

================================================================================
