------------------------------- MODULE Directory -------------------------------
(***************************************************************************)
(* E-mail addresses in the users table: which accounts hold them, and      *)
(* which account a login finds.  UsersService looks for a conflict, waits, *)
(* and then writes, outside any transaction; the partial unique index on   *)
(* email is what holds when two requests overlap, and it tells capital     *)
(* from small letters where the lookups do not.                            *)
(*                                                                         *)
(* Passwords, roles and token versions are in module AuthSessions.         *)
(***************************************************************************)
CONSTANTS
    Users,          \* ids that accounts can be given
    Addresses,      \* e-mail addresses, equal when they differ in case only
    Seeded,         \* the accounts that seed.ts creates: id -> address
    Requests,       \* HTTP requests that can be in progress at once
    Undefined       \* an e-mail that the body of a PATCH leaves out

Forms == {"lower", "typed"}     \* without capitals, or with some

Emails == [address : Addresses, form : Forms]

ASSUME UndefinedAssumption == Undefined \notin Emails
ASSUME SeededAssumption ==
    /\ DOMAIN Seeded \subseteq Users
    /\ \A u \in DOMAIN Seeded : Seeded[u] \in Addresses
    /\ \A u, v \in DOMAIN Seeded : Seeded[u] = Seeded[v] => u = v

VARIABLES
    user,       \* the table: rows by id
    req,        \* where each request is and the locals it holds
    edited,     \* history, read by no action: the accounts whose e-mail was
    overlapped, \* last written by updateUser; two writing requests have been
    vouched     \* in progress at once; the addresses that each request could
                \* have had at some moment since it began
history == <<edited, overlapped, vouched>>
vars == <<user, req, edited, overlapped, vouched>>

-------------------------------------------------------------------------------
\* deactivateUser and restoreUser move is_active and deleted_at together.
Row == [email : Emails, deleted : BOOLEAN]

Idle == [op |-> "none"]

Request ==
    {Idle}
    \cup [op : {"create"}, email : Emails]
    \cup [op : {"update"}, id : Users, email : Emails \cup {Undefined},
          checked : BOOLEAN]
    \cup [op : {"deactivate", "restore"}, id : Users]

TypeOK ==
    /\ DOMAIN user \subseteq Users
    /\ \A u \in DOMAIN user : user[u] \in Row
    /\ req \in [Requests -> Request]
    /\ edited \subseteq DOMAIN user
    /\ overlapped \in BOOLEAN
    /\ vouched \in [Requests -> SUBSET Addresses]

-------------------------------------------------------------------------------
\* The rows a query sees through the soft-delete middleware.
Live == {u \in DOMAIN user : ~user[u].deleted}

\* "email.toLowerCase()".
Lower(email) == [email EXCEPT !.form = "lower"]

\* Mutant: the comparison is not { mode: 'insensitive' }.
TakenExactly(email, excluded) ==
    \E u \in Live \ excluded : user[u].email = email

\* The lookups of create and updateUser: { equals: email, mode: 'insensitive' }.
Taken(email, excluded) ==
    \E u \in Live \ excluded : user[u].email.address = email.address

\* The unique index users_email_unique ON users (email) WHERE deleted_at IS NULL
\* admits the email in row u.
IndexAdmits(u, email) == \A v \in Live \ {u} : user[v].email # email

\* The account that AuthService.login finds: LoginSchema makes what is typed
\* lower case, and findFirst compares exactly.
LoginFinds(address) ==
    {u \in Live : user[u].email = [address |-> address, form |-> "lower"]}

-------------------------------------------------------------------------------
Busy(r) == req[r] # Idle

\* The account that the request excludes when it looks for a conflict.
Self(q) == IF q.op = "update" THEN {q.id} ELSE {}

\* The addresses that the request could write now: no other live account holds
\* them, or its own account does.
FreeTo(q) == {a \in Addresses :
    \/ ~\E u \in Live \ Self(q) : user[u].email.address = a
    \/ \E u \in Self(q) : user[u].email.address = a}

Witness ==
    /\ overlapped' =
          (overlapped \/ \E r, s \in Requests :
                            r # s /\ req'[r] # Idle /\ req'[s] # Idle)
    /\ vouched' = [r \in Requests |->
          IF req'[r] = Idle THEN {} ELSE vouched[r] \cup FreeTo(req'[r])]

\* The request goes on with the given locals, or answers.
Proceed(r, locals) == req' = [req EXCEPT ![r] = locals] /\ Witness
Begin(r, locals) == ~Busy(r) /\ Proceed(r, locals)
Answer(r) == Proceed(r, Idle)

\* The seed wrote every address in lower case.
Init ==
    /\ user = [u \in DOMAIN Seeded |->
                  [email |-> [address |-> Seeded[u], form |-> "lower"],
                   deleted |-> FALSE]]
    /\ req = [r \in Requests |-> Idle]
    /\ edited = {}
    /\ overlapped = FALSE
    /\ vouched = [r \in Requests |-> {}]

-------------------------------------------------------------------------------
(* create.  Between the lookup and the insertion the password is hashed. *)

\* Mutant: the index is trusted to find every conflict.
CreateLookupSkipped(r) ==
    /\ \E email \in Emails : Begin(r, [op |-> "create", email |-> Lower(email)])
    /\ UNCHANGED <<user, edited>>

\* Mutant: the address is stored as it was typed.
CreateLookupKeepsCase(r) ==
    /\ \E email \in Emails :
          ~Taken(email, {}) /\ Begin(r, [op |-> "create", email |-> email])
    /\ UNCHANGED <<user, edited>>

\* CreateUserBodySchema and create normalise the address and look for it.
CreateLookup(r) ==
    /\ \E email \in Emails :
          /\ ~Taken(Lower(email), {})
          /\ Begin(r, [op |-> "create", email |-> Lower(email)])
    /\ UNCHANGED <<user, edited>>

\* The insertion; P2002 becomes the same 409 as a conflict that was found.
Create(r) ==
    /\ req[r].op = "create"
    /\ \E u \in Users \ DOMAIN user :
          IF IndexAdmits(u, req[r].email)
          THEN user' = [x \in DOMAIN user \cup {u} |->
                          IF x = u THEN [email |-> req[r].email, deleted |-> FALSE]
                          ELSE user[x]]
          ELSE user' = user
    /\ Answer(r)
    /\ UNCHANGED edited

-------------------------------------------------------------------------------
(* updateUser.  The e-mail is stored as typed.  The conflict is looked for  *)
(* only if the address is not the one just read.                            *)

UpdateFind(r) ==
    /\ \E u \in Live, email \in Emails \cup {Undefined} :
          Begin(r, [op |-> "update", id |-> u, email |-> email,
                    checked |-> \/ email = Undefined
                                \/ Lower(email) = Lower(user[u].email)])
    /\ UNCHANGED <<user, edited>>

UpdateLookup(r) ==
    /\ req[r].op = "update"
    /\ ~req[r].checked
    /\ Proceed(r, IF Taken(req[r].email, {req[r].id})
                  THEN Idle ELSE [req[r] EXCEPT !.checked = TRUE])
    /\ UNCHANGED <<user, edited>>

\* Mutant: an e-mail that is left out is written like any other.
UpdateWritesUndefined(r) ==
    /\ req[r].op = "update"
    /\ req[r].checked
    /\ user' = [user EXCEPT ![req[r].id].email = req[r].email]
    /\ edited' = edited \cup {req[r].id}
    /\ Answer(r)

\* The write goes by id, deleted or not.  Nothing catches P2002: 500.
Update(r) ==
    /\ req[r].op = "update"
    /\ req[r].checked
    /\ LET u == req[r].id
           email == req[r].email
       IN  IF email # Undefined /\ (user[u].deleted \/ IndexAdmits(u, email))
           THEN /\ user' = [user EXCEPT ![u].email = email]
                /\ edited' = edited \cup {u}
           ELSE UNCHANGED <<user, edited>>
    /\ Answer(r)

-------------------------------------------------------------------------------
(* deactivateUser and restoreUser.  Both look the account up through the    *)
(* soft-delete filter; so restoreUser reaches its write only if the account *)
(* was live when it looked.                                                 *)

StandingFind(r, op) ==
    /\ \E u \in Live : Begin(r, [op |-> op, id |-> u])
    /\ UNCHANGED <<user, edited>>

DeactivateFind(r) == StandingFind(r, "deactivate")
RestoreFind(r) == StandingFind(r, "restore")

Deactivate(r) ==
    /\ req[r].op = "deactivate"
    /\ user' = [user EXCEPT ![req[r].id].deleted = TRUE]
    /\ Answer(r)
    /\ UNCHANGED edited

\* If its address has been taken meanwhile, the index refuses the row: 500.
Restore(r) ==
    /\ req[r].op = "restore"
    /\ LET u == req[r].id
       IN  user' = IF IndexAdmits(u, user[u].email)
                   THEN [user EXCEPT ![u].deleted = FALSE] ELSE user
    /\ Answer(r)
    /\ UNCHANGED edited

-------------------------------------------------------------------------------
Next ==
    \E r \in Requests :
        \/ CreateLookup(r) \/ Create(r)
        \/ UpdateFind(r) \/ UpdateLookup(r) \/ Update(r)
        \/ DeactivateFind(r) \/ Deactivate(r)
        \/ RestoreFind(r) \/ Restore(r)

Spec == Init /\ [][Next]_vars

-------------------------------------------------------------------------------
\* Two live accounts come to share an address, in different letters, only where
\* two requests have overlapped: by themselves create, updateUser and
\* restoreUser refuse it, though the index would let it in.
TwinsNeedARace ==
    ~overlapped =>
        \A u, v \in Live : user[u].email.address = user[v].email.address => u = v

\* An account whose e-mail was never edited is the one that login finds under
\* its address, whoever raced for it and whatever was deactivated or restored.
CreatedAccountsCanSignIn ==
    \A u \in Live \ edited : LoginFinds(user[u].email.address) = {u}

\* An account comes to hold another address only if, at some moment while the
\* request took, no other live account held it or the account itself did,
\* although updateUser trusts a row that may have changed since it was read.
AddressesAreVouched ==
    [][\A r \in Requests, u \in Users :
          /\ req[r] # Idle /\ req'[r] = Idle
          /\ u \in DOMAIN user'
          /\ u \in DOMAIN user =>
                user[u].email.address # user'[u].email.address
          => user'[u].email.address \in vouched[r] \cup FreeTo(req[r])]_vars

\* "Email letter case does not matter at sign-in": every live account is found
\* by its address.
AccountsCanSignIn ==
    \A u \in Live : LoginFinds(user[u].email.address) = {u}

===============================================================================
