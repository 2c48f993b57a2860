---------------------------- MODULE UserAccounts ----------------------------
(***************************************************************************)
(* The accounts of users: the handlers of internal/components/user and     *)
(* their operations over the table "user", with the login that issues      *)
(* tokens and the middleware that asks for them.                           *)
(*                                                                         *)
(* As in ServiceCatalog, a request takes one step per database statement,  *)
(* and requests meet in the database only.  There are no transactions of   *)
(* several statements here: a check and the write that relies on it are    *)
(* always two steps.                                                       *)
(*                                                                         *)
(* A name plays no part in any decision and is left out; a password is the *)
(* one generated for the account or one that its user has chosen.  A token *)
(* is what the middleware reads from it: the email and the role its        *)
(* account had at the login.  Nothing that happens to the account          *)
(* afterwards reaches the token, which ends when it expires.               *)
(***************************************************************************)
EXTENDS Naturals, FiniteSets

CONSTANTS Requests,   \* the requests that may be in flight at once
          Emails,     \* well-formed email addresses
          Roles,      \* the configured roles
          Admin,      \* the role of the first user, and the one that manages users
          Advanced,   \* the other role that may read users
          Invalid,    \* a value that the handlers refuse
          Null,       \* no row, no value
          MaxUserId,  \* bound: ids the sequence of "user" hands out
          MaxTokens   \* bound: tokens that are valid at once

Operations == {"login", "getUser", "addUser", "updateUser", "deleteUser", "changePassword"}

Ids == 1..MaxUserId

UserRow == [email : Emails, role : Roles, password : {"generated", "chosen"},
            temporary : BOOLEAN]

\* What clients see of a user.
Account == [email : Emails, role : Roles, password : {"generated", "chosen"}]

Token == [email : Emails, role : Roles]

ASSUME MaxUserIdAssumption == MaxUserId \in Nat \ {0}
ASSUME AdminAssumption == Admin \in Roles
ASSUME InvalidAssumption == Invalid \notin Emails \cup Roles \cup {"chosen"}
ASSUME NullAssumption == /\ Null \notin UserRow /\ Null \notin Account
                         /\ Null \notin Ids
                         /\ Null # Invalid

(***************************************************************************)
(* What a client may ask for; an unused parameter is Null.  The email of a *)
(* password change is the one in the token.  A login that has read its     *)
(* account has the role in hand.                                           *)
(***************************************************************************)
Call(op, ids, emails, roles, passwords) ==
  [op : {op}, id : ids, email : emails, role : roles, password : passwords]

LoginCalls == Call("login", {Null}, Emails \cup {Invalid}, {Null}, {Null})
GetUserCalls == Call("getUser", Ids, {Null}, {Null}, {Null})
AddUserCalls ==
  Call("addUser", {Null}, Emails \cup {Invalid}, Roles \cup {Invalid}, {Null})
UpdateUserCalls ==
  Call("updateUser", Ids, Emails \cup {Invalid}, Roles \cup {Invalid}, {Null})
DeleteUserCalls == Call("deleteUser", Ids, {Null}, {Null}, {Null})
ChangePasswordCalls ==
  Call("changePassword", {Null}, Emails, {Null}, {"chosen", Invalid})

Calls == UNION { LoginCalls, GetUserCalls, AddUserCalls, UpdateUserCalls,
                 DeleteUserCalls, ChangePasswordCalls }

\* (A faulty variant that validates the email only.)
FaultyWellFormed(call) == call.email # Invalid
\* The email, the role and the new password are validated by the handlers.
WellFormed(call) == Invalid \notin {call.email, call.role, call.password}

AccountReadCalls == Call("login", {Null}, Emails, Roles, {Null})

\* (A faulty variant that leaves adding a user to any role.)
FaultyAdminOnly == {"updateUser", "deleteUser"}
\* The operations behind AuthzRoles(Admin).
AdminOnly == {"addUser", "updateUser", "deleteUser"}

\* The roles that the route of an operation asks for.
RolesFor(op) == CASE op \in AdminOnly  -> {Admin}
                  [] op = "getUser"     -> {Advanced, Admin}
                  [] OTHER              -> Roles

VARIABLES user,    \* table "user": a row for each id, or Null
          nextId,  \* the sequence of user.id
          issued,  \* the tokens that have not expired
          req      \* the requests: what was asked, the next step, the answer

vars == <<user, nextId, issued, req>>

FirstStep == [op \in Operations |-> CASE op = "login" -> "account"
                                      [] op = "getUser" -> "read"
                                      [] op = "addUser" -> "emailTaken"
                                      [] op = "changePassword" -> "account"
                                      [] OTHER -> "userExists"]

Statuses == {"none", "ok", "badRequest", "unauthorized", "notFound", "conflict",
             "internal"}

Idle(status) == [call |-> Null, pc |-> "idle", status |-> status]
InFlight == [call : {c \in Calls : WellFormed(c)},
             pc : {"account", "read", "userExists", "emailTaken", "write"}, status : {"none"}]
            \cup [call : AccountReadCalls, pc : {"issue"}, status : {"none"}]

NewUser(email, role) ==
  [email |-> email, role |-> role, password |-> "generated", temporary |-> TRUE]

\* The migration has created the admin.
Init == /\ \E email \in Emails :
             user = [i \in Ids |-> IF i = 1 THEN NewUser(email, Admin) ELSE Null]
        /\ nextId = 2
        /\ issued = {}
        /\ req = [r \in Requests |-> Idle("none")]

At(r, pc) == req[r].pc = pc
Running(r, op) == At(r, "write") /\ req[r].call.op = op

Goto(r, pc) == req' = [req EXCEPT ![r].pc = pc]
Answer(r, status) == req' = [req EXCEPT ![r] = Idle(status)]

----------------------------------------------------------------------------
(* Queries and constraints of the table, and what a write makes of a row.  *)

\* Some user other than id has this email; a new user passes id = Null.
EmailTaken(email, id) == \E i \in Ids \ {id} : user[i] # Null /\ user[i].email = email

\* (A faulty variant that counts the user to update as well.)
FaultyEmailCheck(email, id) == \E i \in Ids : user[i] # Null /\ user[i].email = email
\* What the email check of a request counts.
EmailCheck(email, id) == EmailTaken(email, id)

\* (A faulty variant: the column is not unique.)
FaultyUniqueKeyViolated(email, id) == FALSE
\* user.email is unique.
UniqueKeyViolated(email, id) == EmailTaken(email, id)

\* (A faulty variant, Save, that inserts the row which is gone.)
FaultyUpdatedUser(row, call) ==
  IF row = Null THEN NewUser(call.email, call.role)
                ELSE [row EXCEPT !.email = call.email, !.role = call.role]
\* Updates(struct) leaves the columns of zero-valued fields alone: those of the
\* password and of the temporary flag.  It changes nothing if the row is gone.
UpdatedUser(row, call) ==
  IF row = Null THEN Null ELSE [row EXCEPT !.email = call.email, !.role = call.role]

\* (A faulty variant that passes a struct, in which false is a zero value.)
FaultyWithPassword(row) == [row EXCEPT !.password = "chosen"]
\* Updates(map) writes false as well.
WithPassword(row) == [row EXCEPT !.password = "chosen", !.temporary = FALSE]

----------------------------------------------------------------------------
(* The steps of a handler before it writes.                                *)

\* Every route but the login asks for a token that has not expired, with one of the
\* roles of the route in it, whatever the table says by now.  The account whose password
\* changes is the one in the token.
Authorized(call) ==
  \/ call.op = "login"
  \/ \E token \in issued : /\ token.role \in RolesFor(call.op)
                           /\ call.op = "changePassword" => token.email = call.email

\* A request arrives.  Any but a login may come without its token, and any, a login
\* included, may be malformed.
Receive(r) ==
  /\ At(r, "idle")
  /\ \/ Answer(r, "unauthorized")
     \/ Answer(r, "badRequest")
     \/ \E call \in Calls :
          /\ WellFormed(call) /\ Authorized(call)
          /\ req' = [req EXCEPT ![r] = [call |-> call, pc |-> FirstStep[call.op],
                                       status |-> "none"]]
  /\ UNCHANGED <<user, nextId, issued>>

CheckUserExists(r) ==
  /\ At(r, "userExists")
  /\ IF user[req[r].call.id] # Null
       THEN Goto(r, IF req[r].call.op = "updateUser" THEN "emailTaken" ELSE "write")
       ELSE Answer(r, "notFound")
  /\ UNCHANGED <<user, nextId, issued>>

CheckEmail(r) ==
  /\ At(r, "emailTaken")
  /\ IF EmailCheck(req[r].call.email, req[r].call.id)
       THEN Answer(r, "conflict")
       ELSE Goto(r, "write")
  /\ UNCHANGED <<user, nextId, issued>>

CheckAccount(r) ==
  /\ At(r, "account") /\ req[r].call.op = "changePassword"
  /\ IF EmailTaken(req[r].call.email, Null)
       THEN Goto(r, "write")
       ELSE Answer(r, "notFound")
  /\ UNCHANGED <<user, nextId, issued>>

\* The account is read once; a wrong password is answered as a missing account is.
Login(r) ==
  /\ At(r, "account") /\ req[r].call.op = "login"
  /\ \/ \E i \in Ids :
          /\ user[i] # Null /\ user[i].email = req[r].call.email
          /\ req' = [req EXCEPT ![r] =
                       [call |-> [req[r].call EXCEPT !.role = user[i].role],
                        pc |-> "issue", status |-> "none"]]
     \/ Answer(r, "unauthorized")
  /\ UNCHANGED <<user, nextId, issued>>

\* The token is signed with the role read before the password was compared.
IssueToken(r) ==
  /\ At(r, "issue")
  /\ Cardinality(issued) < MaxTokens
  /\ issued' = issued \cup {[email |-> req[r].call.email, role |-> req[r].call.role]}
  /\ Answer(r, "ok")
  /\ UNCHANGED <<user, nextId>>

ReadUser(r) ==
  /\ At(r, "read")
  /\ Answer(r, IF user[req[r].call.id] # Null THEN "ok" ELSE "notFound")
  /\ UNCHANGED <<user, nextId, issued>>

----------------------------------------------------------------------------
(* The writes, each with its reply received or lost.                       *)

Committed(r) == Answer(r, "ok") \/ Answer(r, "internal")

\* INSERT: a duplicate email is refused by the unique key, and uses up an id.
CreateUser(r) ==
  /\ Running(r, "addUser")
  /\ nextId \in Ids
  /\ nextId' = nextId + 1
  /\ LET call == req[r].call
     IN  \/ EmailTaken(call.email, Null) /\ Answer(r, "conflict") /\ UNCHANGED user
         \/ /\ ~UniqueKeyViolated(call.email, Null)
            /\ user' = [user EXCEPT ![nextId] = NewUser(call.email, call.role)]
            /\ Committed(r)
  /\ UNCHANGED issued

\* UPDATE ... WHERE id: the unique key can refuse it only if there is a row to change.
UpdateUser(r) ==
  /\ Running(r, "updateUser")
  /\ LET call == req[r].call
         refused == user[call.id] # Null /\ UniqueKeyViolated(call.email, call.id)
     IN  \/ refused /\ Answer(r, "conflict") /\ UNCHANGED user
         \/ /\ ~refused
            /\ user' = [user EXCEPT ![call.id] = UpdatedUser(@, call)]
            /\ Committed(r)
  /\ UNCHANGED <<nextId, issued>>

\* DELETE ... WHERE id: a user that is gone is deleted once more, with no error.
DeleteUser(r) ==
  /\ Running(r, "deleteUser")
  /\ user' = [user EXCEPT ![req[r].call.id] = Null]
  /\ Committed(r)
  /\ UNCHANGED <<nextId, issued>>

\* UPDATE ... WHERE email: of the user who has that email now, if any has.
ChangePassword(r) ==
  /\ Running(r, "changePassword")
  /\ user' = [i \in Ids |->
                IF user[i] # Null /\ user[i].email = req[r].call.email
                  THEN WithPassword(user[i]) ELSE user[i]]
  /\ Committed(r)
  /\ UNCHANGED <<nextId, issued>>

\* A statement fails and changes nothing.
DBError(r) ==
  /\ ~At(r, "idle")
  /\ Answer(r, "internal")
  /\ UNCHANGED <<user, nextId, issued>>

\* (A faulty variant that notices the expiry only if the account is still there.)
FaultyExpire(token) ==
  /\ token \in issued /\ \E i \in Ids : user[i] # Null /\ user[i].email = token.email
  /\ issued' = issued \ {token}
  /\ UNCHANGED <<user, nextId, req>>

\* A token expires (one issued twice, when the later one does).
Expire(token) ==
  /\ token \in issued
  /\ issued' = issued \ {token}
  /\ UNCHANGED <<user, nextId, req>>

\* The process dies and starts again: the table survives, and so do the tokens.
Crash ==
  /\ req' = [r \in Requests |-> Idle("none")]
  /\ UNCHANGED <<user, nextId, issued>>

Step(r) == \/ CheckUserExists(r) \/ CheckEmail(r) \/ CheckAccount(r) \/ Login(r)
           \/ IssueToken(r) \/ ReadUser(r) \/ CreateUser(r) \/ UpdateUser(r) \/ DeleteUser(r)
           \/ ChangePassword(r) \/ DBError(r)

Next == \/ \E r \in Requests : Receive(r) \/ Step(r)
        \/ \E token \in Token : Expire(token)
        \/ Crash

Spec == Init /\ [][Next]_vars

\* Time passes: every token carries the moment it expires at.
FairSpec == Spec /\ \A token \in Token : WF_vars(Expire(token))

----------------------------------------------------------------------------
(* Properties.                                                             *)

\* Every variable has its type; a request in flight passed the validation.
TypeOK == /\ user \in [Ids -> UserRow \cup {Null}]
          /\ nextId \in 1..(MaxUserId + 1)
          /\ issued \subseteq Token
          /\ req \in [Requests -> InFlight \cup {Idle(s) : s \in Statuses}]

\* An email names one user at most, although CreateUser and UpdateUser look for the
\* email in one statement and write it in another.
EmailsUnique ==
  \A i, j \in Ids : user[i] # Null /\ user[j] # Null /\ user[i].email = user[j].email
                      => i = j

\* A user is asked to change the password at login exactly as long as it is the one
\* generated for the account: ChangePassword takes the flag down together with the
\* password, and UpdateUser, which has neither at hand, touches neither.
TemporaryFlagExact ==
  \A i \in Ids : user[i] # Null => (user[i].temporary <=> user[i].password = "generated")

\* A deleted user stays deleted: no update or password change under way at the time
\* brings the account back.
DeletedStaysDeleted ==
  [][\A i \in Ids : i < nextId /\ user[i] = Null => user'[i] = Null]_vars

\* Whoever can still manage users, now or with what is under way: an admin's account or
\* token, a request that an admin's token has opened, a login that has read an admin's row.
AdminPower ==
  \/ \E i \in Ids : user[i] # Null /\ user[i].role = Admin
  \/ \E token \in issued : token.role = Admin
  \/ \E r \in Requests : At(r, "issue") /\ req[r].call.role = Admin
  \/ \E r \in Requests : ~At(r, "idle") /\ req[r].call.op \in AdminOnly

\* The right to manage users comes from those who have it only: once the last admin is
\* gone or demoted, every admin's token has expired and every request opened with one is
\* answered, no login, password change or other request ever makes an admin again.
NoPowerFromNothing == [][~AdminPower => ~AdminPower']_vars

\* The account that a token was issued for has the token's email and role still.
Current(token) == \E i \in Ids : /\ user[i] # Null
                                /\ user[i].email = token.email /\ user[i].role = token.role

\* The middleware never looks the account up, yet a demoted, renamed or deleted user does
\* not keep the old rights: if from some time on no account matches a token, then from
\* some time on no such token is accepted, a login that read the old row included.
StaleTokensLapse ==
  \A token \in Token : <>[]~Current(token) => <>[](token \notin issued)

\* What a client sees of an account and of a request: the checks before a write are not
\* seen, and a login has had its effect when it has read its row.
AccountOf(i) == IF user[i] = Null THEN Null
                ELSE [email |-> user[i].email, role |-> user[i].role,
                      password |-> user[i].password]
Phase(pc) == CASE pc = "idle" -> "idle" [] pc = "issue" -> "done" [] OTHER -> "open"
RequestOf(r) == [call |-> req[r].call, phase |-> Phase(req[r].pc), answer |-> req[r].status]

Clients == INSTANCE Accounts
             WITH Calls <- {call \in Calls : WellFormed(call)},
                  account <- [i \in Ids |-> AccountOf(i)],
                  tokens <- issued,
                  request <- [r \in Requests |-> RequestOf(r)]

\* Although no operation uses a transaction, every request takes effect once and at one
\* moment if it is answered with success, and not at all if it is refused; a conflict or
\* a "does not exist" is so at the moment of the answer; a password change reaches one
\* account; and whoever gets a token had an account of that email and role meanwhile.
ImplementsAccounts == Clients!Spec

=============================================================================
