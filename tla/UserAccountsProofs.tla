-------------------------- MODULE UserAccountsProofs --------------------------
(* Theorems about UserAccounts, for any requests, emails and roles. *)
EXTENDS UserAccounts, TLAPS

ReqType == InFlight \cup {Idle(s) : s \in Statuses}

\* An id that was not handed out yet has no row.
FreshIds == \A i \in Ids : i >= nextId => user[i] = Null

IInv == TypeOK /\ FreshIds /\ EmailsUnique /\ TemporaryFlagExact

\* The flag of one row says whether its password is the generated one.
FlagExact(row) == row # Null => (row.temporary <=> row.password = "generated")

----------------------------------------------------------------------------
(* Requests.                                                               *)

LEMMA InFlightRequest ==
  ASSUME req \in [Requests -> ReqType], NEW r \in Requests, req[r].pc # "idle"
  PROVE  /\ req[r] \in InFlight
         /\ req[r].pc # "issue" => req[r].call \in Calls /\ WellFormed(req[r].call)
         /\ req[r].pc = "issue" => req[r].call \in AccountReadCalls
<1>1. req[r] \in ReqType
  OBVIOUS
<1>2. \A s \in Statuses : Idle(s).pc = "idle"
  BY DEF Idle
<1>3. req[r] \in InFlight
  BY <1>1, <1>2 DEF ReqType
<1> QED
  BY <1>3 DEF InFlight

LEMMA AnswerType ==
  ASSUME req \in [Requests -> ReqType], NEW r \in Requests, NEW s \in Statuses, Answer(r, s)
  PROVE  req' \in [Requests -> ReqType]
<1>1. Idle(s) \in ReqType
  BY DEF ReqType
<1> QED
  BY <1>1 DEF Answer

LEMMA GotoType ==
  ASSUME req \in [Requests -> ReqType], NEW r \in Requests,
         req[r].pc \notin {"idle", "issue"},
         NEW pc \in {"account", "userExists", "emailTaken", "write"}, Goto(r, pc)
  PROVE  req' \in [Requests -> ReqType]
<1>1. /\ req[r] \in InFlight
      /\ req[r].call \in {c \in Calls : WellFormed(c)}
  BY InFlightRequest
<1>2. [req[r] EXCEPT !.pc = pc] \in InFlight
  BY <1>1 DEF InFlight
<1>3. req' = [req EXCEPT ![r] = [req[r] EXCEPT !.pc = pc]]
  BY DEF Goto
<1> QED
  BY <1>2, <1>3 DEF ReqType

LEMMA CommittedType ==
  ASSUME req \in [Requests -> ReqType], NEW r \in Requests, Committed(r)
  PROVE  req' \in [Requests -> ReqType]
<1>1. "ok" \in Statuses /\ "internal" \in Statuses
  BY DEF Statuses
<1> QED
  BY <1>1, AnswerType DEF Committed

\* The parameters of the calls, by operation.
LEMMA CallParameters ==
  ASSUME NEW call \in Calls, WellFormed(call)
  PROVE  /\ call.op \in Operations
         /\ call.op \in {"addUser", "updateUser"} => call.email \in Emails /\ call.role \in Roles
         /\ call.op \in {"login", "changePassword"} => call.email \in Emails
         /\ call.op \in {"getUser", "updateUser", "deleteUser"} => call.id \in Ids
         /\ call.op = "addUser" => call.id = Null
BY DEF Calls, LoginCalls, GetUserCalls, AddUserCalls, UpdateUserCalls, DeleteUserCalls,
       ChangePasswordCalls, Call, WellFormed, Operations

\* The step of a request that runs keeps its parameters in hand.
LEMMA RunningCall ==
  ASSUME TypeOK, NEW r \in Requests, req[r].pc \notin {"idle", "issue"}
  PROVE  req[r].call \in Calls /\ WellFormed(req[r].call)
BY InFlightRequest DEF TypeOK, ReqType

----------------------------------------------------------------------------
(* Rows.                                                                   *)

LEMMA NewUserRow ==
  ASSUME NEW email \in Emails, NEW role \in Roles
  PROVE  /\ NewUser(email, role) \in UserRow
         /\ NewUser(email, role) # Null
         /\ NewUser(email, role).email = email
         /\ FlagExact(NewUser(email, role))
<1> DEFINE row == [email |-> email, role |-> role, password |-> "generated",
                   temporary |-> TRUE]
<1>1. row \in UserRow
  BY DEF UserRow
<1>2. row.email = email /\ row.password = "generated" /\ row.temporary = TRUE
  OBVIOUS
<1>3. NewUser(email, role) = row
  BY DEF NewUser
<1> HIDE DEF row
<1> QED
  BY <1>1, <1>2, <1>3, NullAssumption DEF FlagExact

LEMMA UpdatedUserRow ==
  ASSUME NEW row \in UserRow \cup {Null}, NEW call, call.email \in Emails, call.role \in Roles
  PROVE  /\ UpdatedUser(row, call) \in UserRow \cup {Null}
         /\ UpdatedUser(row, call) = Null <=> row = Null
         /\ row # Null => UpdatedUser(row, call).email = call.email
         /\ FlagExact(row) => FlagExact(UpdatedUser(row, call))
<1>1. CASE row = Null
  BY <1>1 DEF UpdatedUser
<1>2. CASE row # Null
  <2> DEFINE new == [email |-> call.email, role |-> call.role, password |-> row.password,
                     temporary |-> row.temporary]
  <2>1. row \in UserRow
    BY <1>2
  <2>2. UpdatedUser(row, call) = new
    BY <1>2, <2>1 DEF UpdatedUser, UserRow
  <2>3. new \in UserRow
    BY <2>1 DEF UserRow
  <2>4. new.email = call.email /\ new.password = row.password /\ new.temporary = row.temporary
    OBVIOUS
  <2> HIDE DEF new
  <2> QED
    BY <1>2, <2>2, <2>3, <2>4, NullAssumption DEF FlagExact
<1> QED
  BY <1>1, <1>2

LEMMA WithPasswordRow ==
  ASSUME NEW row \in UserRow
  PROVE  /\ WithPassword(row) \in UserRow
         /\ WithPassword(row).email = row.email
         /\ WithPassword(row).role = row.role
         /\ WithPassword(row).password = "chosen"
         /\ FlagExact(WithPassword(row))
<1> DEFINE new == [row EXCEPT !.password = "chosen", !.temporary = FALSE]
<1>1. new \in UserRow
  BY DEF UserRow
<1>2. new.email = row.email /\ new.role = row.role /\ new.password = "chosen"
  BY DEF UserRow
<1>3. new.temporary = FALSE
  BY DEF UserRow
<1>4. WithPassword(row) = new
  BY DEF WithPassword
<1> HIDE DEF new
<1> QED
  BY <1>1, <1>2, <1>3, <1>4 DEF FlagExact

----------------------------------------------------------------------------
(* The effect of a step on user i: an email is kept, or taken by i alone   *)
(* while nobody else has it and nothing else changes.                      *)

KeepsOrTakes(i) ==
  \/ user'[i] = Null
  \/ user[i] # Null /\ user'[i].email = user[i].email
  \/ ~EmailTaken(user'[i].email, i) /\ \A j \in Ids \ {i} : user'[j] = user[j]

Effect(i) == /\ user'[i] \in UserRow \cup {Null}
             /\ KeepsOrTakes(i)
             /\ FlagExact(user[i]) => FlagExact(user'[i])
             /\ user[i] = Null /\ user'[i] # Null => i = nextId /\ nextId' = nextId + 1

LEMMA UntouchedEffect ==
  ASSUME TypeOK, NEW i \in Ids, user'[i] = user[i] PROVE Effect(i)
BY DEF TypeOK, Effect, KeepsOrTakes

LEMMA CreateUserEffect ==
  ASSUME TypeOK, FreshIds, NEW r \in Requests, CreateUser(r), NEW i \in Ids
  PROVE  Effect(i)
<1> DEFINE call == req[r].call
           row == NewUser(call.email, call.role)
<1>1. CASE user' = user
  BY <1>1, UntouchedEffect
<1>2. CASE user' # user
  <2>1. call \in Calls /\ WellFormed(call) /\ call.op = "addUser"
    BY RunningCall DEF CreateUser, Running, At
  <2>2. row \in UserRow /\ row # Null /\ row.email = call.email /\ FlagExact(row)
    BY <2>1, CallParameters, NewUserRow
  <2>3. /\ ~EmailTaken(call.email, Null)
        /\ nextId \in Ids /\ nextId' = nextId + 1
        /\ user' = [user EXCEPT ![nextId] = row]
    BY <1>2 DEF CreateUser, UniqueKeyViolated
  <2> HIDE DEF row
  <2>4. CASE i # nextId
    BY <2>3, <2>4, UntouchedEffect DEF TypeOK
  <2>5. CASE i = nextId
    <3>1. user'[i] = row /\ \A j \in Ids \ {i} : user'[j] = user[j]
      BY <2>3, <2>5 DEF TypeOK
    <3>2. ~EmailTaken(row.email, i)
      BY <2>2, <2>3, NullAssumption DEF EmailTaken
    <3> QED
      BY <2>2, <2>3, <2>5, <3>1, <3>2 DEF Effect, KeepsOrTakes
  <2> QED
    BY <2>4, <2>5
<1> QED
  BY <1>1, <1>2

LEMMA UpdateUserEffect ==
  ASSUME TypeOK, NEW r \in Requests, UpdateUser(r), NEW i \in Ids
  PROVE  Effect(i)
<1> DEFINE call == req[r].call
           row == UpdatedUser(user[i], call)
<1>1. call \in Calls /\ WellFormed(call) /\ call.op = "updateUser"
  BY RunningCall DEF UpdateUser, Running, At
<1>2. call.email \in Emails /\ call.role \in Roles /\ call.id \in Ids
  BY <1>1, CallParameters
<1>3. CASE user'[i] = user[i]
  BY <1>3, UntouchedEffect
<1>4. CASE user'[i] # user[i]
  <2>1. /\ i = call.id
        /\ user[i] = Null \/ ~EmailTaken(call.email, i)
        /\ user' = [user EXCEPT ![i] = row]
    BY <1>2, <1>4 DEF UpdateUser, UniqueKeyViolated, TypeOK
  <2>2. user[i] \in UserRow \cup {Null}
    BY DEF TypeOK
  <2>3. /\ row \in UserRow \cup {Null}
        /\ row = Null <=> user[i] = Null
        /\ user[i] # Null => row.email = call.email
        /\ FlagExact(user[i]) => FlagExact(row)
    BY <1>2, <2>2, UpdatedUserRow
  <2> HIDE DEF row
  <2>4. user'[i] = row /\ \A j \in Ids \ {i} : user'[j] = user[j]
    BY <2>1 DEF TypeOK
  <2> QED
    BY <2>1, <2>3, <2>4 DEF Effect, KeepsOrTakes
<1> QED
  BY <1>3, <1>4

LEMMA DeleteUserEffect ==
  ASSUME TypeOK, NEW r \in Requests, DeleteUser(r), NEW i \in Ids
  PROVE  Effect(i)
<1>1. user'[i] = user[i] \/ user'[i] = Null
  BY DEF DeleteUser, TypeOK
<1> QED
  BY <1>1, UntouchedEffect DEF Effect, KeepsOrTakes, FlagExact

LEMMA ChangePasswordEffect ==
  ASSUME TypeOK, NEW r \in Requests, ChangePassword(r), NEW i \in Ids
  PROVE  Effect(i)
<1>1. CASE user'[i] = user[i]
  BY <1>1, UntouchedEffect
<1>2. CASE user'[i] # user[i]
  <2>1. user[i] # Null /\ user'[i] = WithPassword(user[i])
    BY <1>2 DEF ChangePassword
  <2>2. user[i] \in UserRow
    BY <2>1 DEF TypeOK
  <2> QED
    BY <2>1, <2>2, WithPasswordRow DEF Effect, KeepsOrTakes
<1> QED
  BY <1>1, <1>2

Write(r) == CreateUser(r) \/ UpdateUser(r) \/ DeleteUser(r) \/ ChangePassword(r)

LEMMA OnlyWritesChangeUsers ==
  ASSUME [Next]_vars
  PROVE  (user' = user /\ nextId' = nextId) \/ \E r \in Requests : Write(r)
BY DEF Next, Step, Write, Receive, CheckUserExists, CheckEmail, CheckAccount, Login,
       IssueToken, ReadUser, DBError, Expire, Crash, vars

LEMMA StepEffect ==
  ASSUME TypeOK, FreshIds, [Next]_vars, NEW i \in Ids PROVE Effect(i)
<1>1. CASE user' = user
  BY <1>1, UntouchedEffect
<1>2. ASSUME NEW r \in Requests, Write(r) PROVE Effect(i)
  BY <1>2, CreateUserEffect, UpdateUserEffect, DeleteUserEffect, ChangePasswordEffect DEF Write
<1> QED
  BY <1>1, <1>2, OnlyWritesChangeUsers

----------------------------------------------------------------------------
(* The types of what is not a row.                                         *)

\* A request is refused at once, or opened with a well-formed call.
Opened(r, call) ==
  /\ WellFormed(call) /\ Authorized(call)
  /\ req' = [req EXCEPT ![r] = [call |-> call, pc |-> FirstStep[call.op], status |-> "none"]]

LEMMA ReceiveStep ==
  ASSUME NEW r \in Requests, Receive(r)
  PROVE  \/ Answer(r, "unauthorized") \/ Answer(r, "badRequest")
         \/ \E call \in Calls : Opened(r, call)
BY DEF Receive, Opened

LEMMA ReceiveType ==
  ASSUME TypeOK, NEW r \in Requests, Receive(r) PROVE req' \in [Requests -> ReqType]
<1>1. req \in [Requests -> ReqType]
  BY DEF TypeOK, ReqType
<1>2. "unauthorized" \in Statuses /\ "badRequest" \in Statuses
  BY DEF Statuses
<1>3. ASSUME NEW call \in Calls, Opened(r, call) PROVE req' \in [Requests -> ReqType]
  <2>1. call.op \in Operations
    BY <1>3, CallParameters DEF Opened
  <2>2. FirstStep[call.op] \in {"account", "read", "userExists", "emailTaken", "write"}
    BY <2>1 DEF FirstStep, Operations
  <2>3. [call |-> call, pc |-> FirstStep[call.op], status |-> "none"] \in InFlight
    BY <1>3, <2>2 DEF Opened, InFlight
  <2> QED
    BY <1>1, <1>3, <2>3 DEF Opened, ReqType
<1> QED
  BY <1>1, <1>2, <1>3, AnswerType, ReceiveStep

\* A login that has read its account has the role of a row in hand.
LEMMA LoginStep ==
  ASSUME TypeOK, NEW r \in Requests, Login(r)
  PROVE  \/ Answer(r, "unauthorized")
         \/ \E role \in Roles :
              /\ \E i \in Ids : user[i] # Null /\ user[i].role = role
              /\ \E call \in AccountReadCalls :
                   /\ call.role = role
                   /\ req' = [req EXCEPT ![r] = [call |-> call, pc |-> "issue",
                                                status |-> "none"]]
<1> SUFFICES ASSUME ~Answer(r, "unauthorized")
             PROVE  \E role \in Roles :
                      /\ \E i \in Ids : user[i] # Null /\ user[i].role = role
                      /\ \E call \in AccountReadCalls :
                           /\ call.role = role
                           /\ req' = [req EXCEPT ![r] = [call |-> call, pc |-> "issue",
                                                        status |-> "none"]]
  OBVIOUS
<1>1. PICK i \in Ids :
        /\ user[i] # Null /\ user[i].email = req[r].call.email
        /\ req' = [req EXCEPT ![r] = [call |-> [req[r].call EXCEPT !.role = user[i].role],
                                      pc |-> "issue", status |-> "none"]]
  BY DEF Login
<1> DEFINE call == [req[r].call EXCEPT !.role = user[i].role]
<1>2. user[i].role \in Roles
  BY <1>1 DEF TypeOK, UserRow
<1>3. /\ req[r].pc = "account" /\ req[r].call.op = "login"
      /\ req[r] \in InFlight
      /\ req[r].call \in Calls /\ WellFormed(req[r].call)
  BY InFlightRequest DEF TypeOK, ReqType, Login, At
<1>4. req[r].call \in LoginCalls /\ req[r].call.email \in Emails
  BY <1>3, CallParameters DEF Calls, LoginCalls, GetUserCalls, AddUserCalls,
       UpdateUserCalls, DeleteUserCalls, ChangePasswordCalls, Call
<1>5. call \in AccountReadCalls /\ call.role = user[i].role
  BY <1>2, <1>4 DEF LoginCalls, AccountReadCalls, Call
<1>6. req' = [req EXCEPT ![r] = [call |-> call, pc |-> "issue", status |-> "none"]]
  BY <1>1
<1> HIDE DEF call
<1> QED
  BY <1>1, <1>2, <1>5, <1>6

LEMMA LoginType ==
  ASSUME TypeOK, NEW r \in Requests, Login(r) PROVE req' \in [Requests -> ReqType]
<1>1. req \in [Requests -> ReqType]
  BY DEF TypeOK, ReqType
<1>2. "unauthorized" \in Statuses
  BY DEF Statuses
<1>3. ASSUME NEW call \in AccountReadCalls
      PROVE  [call |-> call, pc |-> "issue", status |-> "none"] \in ReqType
  BY DEF ReqType, InFlight
<1> QED
  BY <1>1, <1>2, <1>3, AnswerType, LoginStep

LEMMA ReqTypeKept == ASSUME TypeOK, [Next]_vars PROVE req' \in [Requests -> ReqType]
<1>1. req \in [Requests -> ReqType]
  BY DEF TypeOK, ReqType
<1>2. \A s \in {"ok", "badRequest", "unauthorized", "notFound", "conflict", "internal"} :
        s \in Statuses
  BY DEF Statuses
<1>3. ASSUME NEW r \in Requests, CheckUserExists(r) \/ CheckEmail(r) \/ CheckAccount(r)
      PROVE  req' \in [Requests -> ReqType]
  <2>1. req[r].pc \notin {"idle", "issue"}
    BY <1>3 DEF CheckUserExists, CheckEmail, CheckAccount, At
  <2>2. \/ Goto(r, "emailTaken") \/ Goto(r, "write")
        \/ Answer(r, "notFound") \/ Answer(r, "conflict")
    BY <1>3 DEF CheckUserExists, CheckEmail, CheckAccount
  <2> QED
    BY <1>1, <1>2, <2>1, <2>2, GotoType, AnswerType
<1>4. ASSUME NEW r \in Requests, IssueToken(r) \/ ReadUser(r) \/ DBError(r) \/ Write(r)
      PROVE  req' \in [Requests -> ReqType]
  <2>1. \/ Answer(r, "ok") \/ Answer(r, "internal")
        \/ Answer(r, "conflict") \/ Answer(r, "notFound") \/ Committed(r)
    BY <1>4 DEF IssueToken, ReadUser, DBError, Write, CreateUser, UpdateUser, DeleteUser, ChangePassword
  <2> QED
    BY <1>1, <1>2, <2>1, AnswerType, CommittedType
<1>5. CASE Crash
  <2>1. Idle("none") \in ReqType
    BY DEF ReqType, Statuses
  <2> QED
    BY <1>5, <2>1 DEF Crash
<1>6. CASE UNCHANGED req
  BY SMTT(30), <1>1, <1>6
<1> QED
  BY <1>3, <1>4, <1>5, <1>6, ReceiveType, LoginType DEF Next, Step, Write, Expire, vars

LEMMA IssuedKept == ASSUME TypeOK, [Next]_vars PROVE issued' \subseteq Token
<1>1. ASSUME NEW r \in Requests, IssueToken(r) PROVE issued' \subseteq Token
  <2>1. req[r].call \in AccountReadCalls
    BY <1>1, InFlightRequest DEF IssueToken, At, TypeOK, ReqType
  <2>2. [email |-> req[r].call.email, role |-> req[r].call.role] \in Token
    BY <2>1 DEF AccountReadCalls, Call, Token
  <2> QED
    BY <1>1, <2>2 DEF IssueToken, TypeOK
<1> QED
  BY <1>1 DEF Next, Step, Receive, CheckUserExists, CheckEmail, CheckAccount, Login, ReadUser,
              CreateUser, UpdateUser, DeleteUser, ChangePassword, DBError, Expire, Crash,
              vars, TypeOK

LEMMA SequenceGrows ==
  ASSUME TypeOK, [Next]_vars PROVE nextId' \in 1..(MaxUserId + 1) /\ nextId' >= nextId
<1>1. nextId' = nextId \/ (nextId \in Ids /\ nextId' = nextId + 1)
  BY DEF Next, Step, Receive, CheckUserExists, CheckEmail, CheckAccount, Login, IssueToken,
         ReadUser, CreateUser, UpdateUser, DeleteUser, ChangePassword, DBError, Expire, Crash, vars
<1> QED
  BY SMTT(30), <1>1, MaxUserIdAssumption DEF TypeOK, Ids

----------------------------------------------------------------------------
(* What a step makes of the right to manage users, while nobody has it.    *)

Powerless == /\ \A i \in Ids : user[i] # Null => user[i].role # Admin
             /\ \A token \in issued : token.role # Admin
             /\ \A r \in Requests : req[r].pc = "issue" => req[r].call.role # Admin
             /\ \A r \in Requests : req[r].pc # "idle" => req[r].call.op \notin AdminOnly

\* A password change keeps the role; every other write is an admin's.
LEMMA PowerlessRows ==
  ASSUME TypeOK, Powerless, [Next]_vars, NEW i \in Ids, user'[i] # Null
  PROVE  user'[i].role # Admin
<1>1. CASE user' = user
  BY <1>1 DEF Powerless
<1>2. ASSUME NEW r \in Requests, Write(r) PROVE user'[i].role # Admin
  <2>1. ChangePassword(r)
    BY <1>2 DEF Write, CreateUser, UpdateUser, DeleteUser, Running, At, Powerless, AdminOnly
  <2>2. user'[i] = user[i] \/ (user[i] # Null /\ user'[i] = WithPassword(user[i]))
    BY <2>1 DEF ChangePassword
  <2>3. user[i] # Null => WithPassword(user[i]).role = user[i].role
    BY DEF WithPassword, TypeOK, UserRow
  <2> QED
    BY <2>2, <2>3 DEF Powerless
<1> QED
  BY <1>1, <1>2, OnlyWritesChangeUsers

LEMMA PowerlessTokens ==
  ASSUME Powerless, [Next]_vars, NEW token \in issued' PROVE token.role # Admin
<1>1. CASE token \in issued
  BY <1>1 DEF Powerless
<1>2. CASE token \notin issued
  <2>1. PICK r \in Requests : IssueToken(r)
    BY <1>2 DEF Next, Step, Receive, CheckUserExists, CheckEmail, CheckAccount, Login,
         ReadUser, CreateUser, UpdateUser, DeleteUser, ChangePassword, DBError, Expire, Crash, vars
  <2> QED
    BY SMTT(30), <1>2, <2>1 DEF IssueToken, At, Powerless
<1> QED
  BY <1>1, <1>2

\* A request is opened with a token, and a login goes on with the role of a row.
LEMMA PowerlessRequests ==
  ASSUME TypeOK, Powerless, [Next]_vars, NEW q \in Requests
  PROVE  /\ req'[q].pc = "issue" => req'[q].call.role # Admin
         /\ req'[q].pc # "idle" => req'[q].call.op \notin AdminOnly
<1> DEFINE Low(request) ==
             /\ request.pc = "issue" => request.call.role # Admin
             /\ request.pc # "idle" => request.call.op \notin AdminOnly
<1>1. Low(req[q])
  BY DEF Powerless
<1>2. req \in [Requests -> ReqType]
  BY DEF TypeOK, ReqType
<1>3. \A s : Low(Idle(s))
  BY DEF Idle
<1>4. ASSUME NEW r \in Requests, NEW s, Answer(r, s) PROVE Low(req'[q])
  <2>1. req'[q] = req[q] \/ req'[q] = Idle(s)
    BY <1>2, <1>4 DEF Answer
  <2> HIDE DEF Low
  <2> QED
    BY <1>1, <1>3, <2>1
<1>5. ASSUME NEW r \in Requests, Receive(r) PROVE Low(req'[q])
  <2>1. ASSUME NEW call \in Calls, Opened(r, call) PROVE Low(req'[q])
    <3>1. call.op \in Operations
      BY <2>1, CallParameters DEF Opened
    <3>2. FirstStep[call.op] # "issue"
      BY <3>1 DEF FirstStep, Operations
    <3>3. call.op \notin AdminOnly
      BY <2>1 DEF Opened, Authorized, RolesFor, Powerless, AdminOnly
    <3>4. Low([call |-> call, pc |-> FirstStep[call.op], status |-> "none"])
      BY <3>2, <3>3
    <3>5. \/ req'[q] = req[q]
          \/ req'[q] = [call |-> call, pc |-> FirstStep[call.op], status |-> "none"]
      BY <1>2, <2>1 DEF Opened
    <3> HIDE DEF Low
    <3> QED
      BY <1>1, <3>4, <3>5
  <2> HIDE DEF Low
  <2> QED
    BY <1>4, <1>5, <2>1, ReceiveStep
<1>6. ASSUME NEW r \in Requests, CheckUserExists(r) \/ CheckEmail(r) \/ CheckAccount(r)
      PROVE  Low(req'[q])
  <2>1. \/ \E pc \in {"emailTaken", "write"} : Goto(r, pc)
        \/ Answer(r, "notFound") \/ Answer(r, "conflict")
    BY <1>6 DEF CheckUserExists, CheckEmail, CheckAccount
  <2>2. req[r].pc # "idle"
    BY <1>6 DEF CheckUserExists, CheckEmail, CheckAccount, At
  <2>3. ASSUME NEW pc \in {"emailTaken", "write"}, Goto(r, pc) PROVE Low(req'[q])
    BY <1>1, <1>2, <2>2, <2>3 DEF Goto, ReqType, InFlight, Idle
  <2> QED
    BY <1>4, <2>1, <2>3
<1>7. ASSUME NEW r \in Requests, Login(r) PROVE Low(req'[q])
  <2>1. CASE Answer(r, "unauthorized")
    BY <1>4, <2>1
  <2>2. CASE ~Answer(r, "unauthorized")
    <3>1. PICK i \in Ids, call \in AccountReadCalls :
            /\ user[i] # Null /\ call.role = user[i].role
            /\ req' = [req EXCEPT ![r] = [call |-> call, pc |-> "issue", status |-> "none"]]
      BY <1>7, <2>2, LoginStep
    <3>2. call.op \notin AdminOnly /\ call.role # Admin
      BY <3>1 DEF AccountReadCalls, Call, AdminOnly, Powerless
    <3>3. Low([call |-> call, pc |-> "issue", status |-> "none"])
      BY <3>2
    <3>4. \/ req'[q] = req[q]
          \/ req'[q] = [call |-> call, pc |-> "issue", status |-> "none"]
      BY <1>2, <3>1
    <3> HIDE DEF Low
    <3> QED
      BY <1>1, <3>3, <3>4
  <2> QED
    BY <2>1, <2>2
<1>8. ASSUME NEW r \in Requests, IssueToken(r) \/ ReadUser(r) \/ DBError(r) \/ Write(r)
      PROVE  Low(req'[q])
  <2>1. \E s : Answer(r, s)
    BY <1>8 DEF IssueToken, ReadUser, DBError, Write, CreateUser, UpdateUser, DeleteUser,
         ChangePassword, Committed
  <2> HIDE DEF Low
  <2> QED
    BY <1>4, <2>1
<1>9. ASSUME Crash PROVE Low(req'[q])
  <2>1. req'[q] = Idle("none")
    BY <1>9 DEF Crash
  <2> HIDE DEF Low
  <2> QED
    BY <1>3, <2>1
<1>10. ASSUME UNCHANGED req PROVE Low(req'[q])
  BY <1>1, <1>10
<1>11. Low(req'[q])
  <2> HIDE DEF Low
  <2> QED
    BY <1>5, <1>6, <1>7, <1>8, <1>9, <1>10 DEF Next, Step, Write, Expire, vars
<1> QED
  BY <1>11

----------------------------------------------------------------------------
(* The invariant.                                                          *)

LEMMA InitIInv == Init => IInv
<1> SUFFICES ASSUME Init PROVE IInv
  OBVIOUS
<1>1. PICK email \in Emails :
        user = [i \in Ids |-> IF i = 1 THEN NewUser(email, Admin) ELSE Null]
  BY DEF Init
<1>2. /\ NewUser(email, Admin) \in UserRow /\ NewUser(email, Admin) # Null
      /\ FlagExact(NewUser(email, Admin))
  BY NewUserRow, AdminAssumption
<1>3. user \in [Ids -> UserRow \cup {Null}]
  BY <1>1, <1>2
<1>4. Idle("none") \in ReqType
  BY DEF ReqType, Statuses
<1>5. req \in [Requests -> ReqType]
  BY <1>4 DEF Init
<1>6. nextId \in 1..(MaxUserId + 1) /\ issued \subseteq Token
  BY MaxUserIdAssumption DEF Init
<1>7. FreshIds
  BY <1>1 DEF Init, FreshIds, Ids
<1>8. EmailsUnique
  BY <1>1 DEF EmailsUnique
<1>9. TemporaryFlagExact
  BY <1>1, <1>2 DEF TemporaryFlagExact, FlagExact
<1> QED
  BY <1>3, <1>5, <1>6, <1>7, <1>8, <1>9 DEF IInv, TypeOK, ReqType

\* Two users with one email afterwards had it before.
LEMMA EmailsUniqueKept ==
  ASSUME TypeOK, FreshIds, EmailsUnique, [Next]_vars PROVE EmailsUnique'
<1> SUFFICES ASSUME NEW i \in Ids, NEW j \in Ids, i # j, user'[i] # Null, user'[j] # Null,
                    user'[i].email = user'[j].email
             PROVE  FALSE
  BY DEF EmailsUnique
<1>1. KeepsOrTakes(i) /\ KeepsOrTakes(j)
  BY StepEffect DEF Effect
<1>2. CASE ~EmailTaken(user'[i].email, i) /\ \A k \in Ids \ {i} : user'[k] = user[k]
  BY <1>2 DEF EmailTaken
<1>3. CASE ~EmailTaken(user'[j].email, j) /\ \A k \in Ids \ {j} : user'[k] = user[k]
  BY <1>3 DEF EmailTaken
<1>4. CASE /\ user[i] # Null /\ user'[i].email = user[i].email
           /\ user[j] # Null /\ user'[j].email = user[j].email
  BY <1>4 DEF EmailsUnique
<1> QED
  BY <1>1, <1>2, <1>3, <1>4 DEF KeepsOrTakes

LEMMA NextIInv == IInv /\ [Next]_vars => IInv'
<1> SUFFICES ASSUME IInv, [Next]_vars PROVE IInv'
  OBVIOUS
<1> USE DEF IInv
<1>1. \A i \in Ids : Effect(i)
  BY StepEffect
<1>2. nextId' \in 1..(MaxUserId + 1) /\ nextId' >= nextId
  BY SequenceGrows
<1>3. user' \in [Ids -> UserRow \cup {Null}]
  <2>1. \A i \in Ids : user'[i] \in UserRow \cup {Null}
    BY <1>1 DEF Effect
  <2>2. user' = [i \in Ids |-> user'[i]]
    <3>1. user = [i \in Ids |-> user[i]]
      BY DEF TypeOK
    <3>2. CASE user' = user
      BY <3>1, <3>2
    <3>3. ASSUME NEW r \in Requests, Write(r) PROVE user' = [i \in Ids |-> user'[i]]
      BY <3>1, <3>3 DEF Write, CreateUser, UpdateUser, DeleteUser, ChangePassword, TypeOK
    <3> QED
      BY <3>2, <3>3, OnlyWritesChangeUsers
  <2> QED
    BY <2>1, <2>2
<1>4. TypeOK'
  BY <1>2, <1>3, ReqTypeKept, IssuedKept DEF TypeOK, ReqType
<1>5. FreshIds'
  <2> SUFFICES ASSUME NEW i \in Ids, i >= nextId' PROVE user'[i] = Null
    BY DEF FreshIds
  <2>1. i \in Nat /\ nextId \in Nat /\ nextId' \in Nat
    BY <1>2, MaxUserIdAssumption DEF Ids, TypeOK
  <2>2. i >= nextId /\ (nextId' = nextId + 1 => i # nextId)
    BY <1>2, <2>1
  <2> QED
    BY <1>1, <2>2 DEF Effect, FreshIds
<1>6. EmailsUnique'
  BY EmailsUniqueKept
<1>7. TemporaryFlagExact'
  <2>1. \A i \in Ids : FlagExact(user[i])
    BY DEF TemporaryFlagExact, FlagExact
  <2>2. \A i \in Ids : FlagExact(user'[i])
    BY <1>1, <2>1 DEF Effect
  <2> QED
    BY <2>2 DEF TemporaryFlagExact, FlagExact
<1> QED
  BY <1>4, <1>5, <1>6, <1>7

LEMMA Invariance == Spec => []IInv
<1>1. IInv /\ [Next]_vars => IInv'
  BY NextIInv
<1> QED
  BY <1>1, InitIInv, PTL DEF Spec

----------------------------------------------------------------------------

\* Rows, requests and tokens keep their types.
THEOREM TypeCorrect == Spec => []TypeOK
<1>1. IInv => TypeOK
  BY DEF IInv
<1> QED
  BY <1>1, Invariance, PTL

\* No two users ever have the same email, whatever the check of one request and the
\* write of another find in between.
THEOREM EmailsStayUnique == Spec => []EmailsUnique
<1>1. IInv => EmailsUnique
  BY DEF IInv
<1> QED
  BY <1>1, Invariance, PTL

\* The flag of the temporary password follows the password through every overlap of
\* updates and password changes.
THEOREM FlagStaysExact == Spec => []TemporaryFlagExact
<1>1. IInv => TemporaryFlagExact
  BY DEF IInv
<1> QED
  BY <1>1, Invariance, PTL

\* A deleted user is never brought back.
THEOREM DeletionFinal == Spec => DeletedStaysDeleted
<1> DEFINE Final == \A i \in Ids : i < nextId /\ user[i] = Null => user'[i] = Null
<1>1. IInv /\ [Next]_vars => Final
  <2> SUFFICES ASSUME IInv, [Next]_vars, NEW i \in Ids, i < nextId, user[i] = Null
               PROVE  user'[i] = Null
    OBVIOUS
  <2>1. Effect(i)
    BY StepEffect DEF IInv
  <2>2. i # nextId
    BY MaxUserIdAssumption DEF IInv, TypeOK, Ids
  <2> QED
    BY <2>1, <2>2 DEF Effect
<1>2. IInv /\ [Next]_vars => [Final]_vars
  BY <1>1
<1> QED
  BY <1>2, Invariance, PTL DEF Spec, DeletedStaysDeleted

\* Nobody comes to manage users except through somebody who does already.
THEOREM PowerIsHandedOn == Spec => NoPowerFromNothing
<1>1. IInv /\ [Next]_vars => (~AdminPower => ~AdminPower')
  <2> SUFFICES ASSUME IInv, [Next]_vars, ~AdminPower PROVE ~AdminPower'
    OBVIOUS
  <2>1. TypeOK
    BY DEF IInv
  <2>2. Powerless
    BY DEF AdminPower, Powerless, At
  <2>3. \A i \in Ids : user'[i] # Null => user'[i].role # Admin
    BY <2>1, <2>2, PowerlessRows
  <2>4. \A token \in issued' : token.role # Admin
    BY <2>1, <2>2, PowerlessTokens
  <2>5. \A r \in Requests : /\ req'[r].pc = "issue" => req'[r].call.role # Admin
                            /\ req'[r].pc # "idle" => req'[r].call.op \notin AdminOnly
    BY <2>1, <2>2, PowerlessRequests
  <2> QED
    BY <2>3, <2>4, <2>5 DEF AdminPower, At
<1>2. IInv /\ [Next]_vars => [~AdminPower => ~AdminPower']_vars
  BY <1>1
<1> QED
  BY <1>2, Invariance, PTL DEF Spec, NoPowerFromNothing

----------------------------------------------------------------------------
(* UserAccounts implements Accounts.                                       *)

AccountRows == [i \in Ids |-> AccountOf(i)]
ClientRequests == [r \in Requests |-> RequestOf(r)]

LEMMA AccountFields ==
  ASSUME TypeOK, NEW i \in Ids
  PROVE  /\ AccountRows[i] = Null <=> user[i] = Null
         /\ user[i] # Null => /\ AccountRows[i].email = user[i].email
                              /\ AccountRows[i].role = user[i].role
                              /\ AccountRows[i].password = user[i].password
<1>1. AccountRows[i] = AccountOf(i)
  BY DEF AccountRows
<1>2. CASE user[i] = Null
  BY <1>1, <1>2 DEF AccountOf
<1>3. CASE user[i] # Null
  <2>1. user[i] \in UserRow
    BY <1>3 DEF TypeOK
  <2>2. [email |-> user[i].email, role |-> user[i].role, password |-> user[i].password]
          \in Account
    BY <2>1 DEF UserRow, Account
  <2> QED
    BY <1>1, <1>3, <2>2, NullAssumption DEF AccountOf
<1> QED
  BY <1>2, <1>3

LEMMA TakenForClients ==
  ASSUME TypeOK, NEW email, NEW id PROVE Clients!Taken(email, id) <=> EmailTaken(email, id)
BY AccountFields DEF Clients!Taken, EmailTaken, AccountRows

LEMMA AccountsKept == ASSUME user' = user PROVE AccountRows' = AccountRows
<1>1. \A i \in Ids : AccountOf(i)' = AccountOf(i)
  BY DEF AccountOf
<1> QED
  BY <1>1 DEF AccountRows

\* One step of a request, as its client sees it.
LEMMA AnswerForClients ==
  ASSUME req \in [Requests -> ReqType], NEW r \in Requests, NEW s, Answer(r, s)
  PROVE  Clients!Answer(r, s)
<1>1. \A q \in Requests : req'[q] = IF q = r THEN Idle(s) ELSE req[q]
  BY DEF Answer
<1>2. /\ Idle(s).call = Null /\ Idle(s).pc = "idle" /\ Idle(s).status = s
      /\ Phase("idle") = "idle"
  BY DEF Idle, Phase
<1>3. \A q \in Requests : RequestOf(q)' = IF q = r THEN Clients!Idle(s) ELSE RequestOf(q)
  BY <1>1, <1>2 DEF RequestOf, Clients!Idle
<1>4. ClientRequests' = [ClientRequests EXCEPT ![r] = Clients!Idle(s)]
  BY <1>3 DEF ClientRequests
<1> QED
  BY <1>4 DEF Clients!Answer, ClientRequests

GoesOn(r, call, pc) == req' = [req EXCEPT ![r] = [call |-> call, pc |-> pc, status |-> "none"]]
SeenToGoOn(r, call, pc) ==
  ClientRequests' = [ClientRequests EXCEPT ![r] =
                       [call |-> call, phase |-> Phase(pc), answer |-> "none"]]

LEMMA GoesOnForClients ==
  ASSUME req \in [Requests -> ReqType], NEW r \in Requests, NEW call, NEW pc,
         GoesOn(r, call, pc)
  PROVE  SeenToGoOn(r, call, pc)
<1>1. \A q \in Requests :
        req'[q] = IF q = r THEN [call |-> call, pc |-> pc, status |-> "none"] ELSE req[q]
  BY DEF GoesOn
<1>2. \A q \in Requests :
        RequestOf(q)' = IF q = r THEN [call |-> call, phase |-> Phase(pc), answer |-> "none"]
                                 ELSE RequestOf(q)
  BY <1>1 DEF RequestOf
<1> QED
  BY <1>2 DEF SeenToGoOn, ClientRequests

\* From one check to the next a client sees nothing.
LEMMA GotoForClients ==
  ASSUME req \in [Requests -> ReqType], NEW r \in Requests,
         req[r].pc \notin {"idle", "issue"}, NEW pc \in {"emailTaken", "write"}, Goto(r, pc)
  PROVE  ClientRequests' = ClientRequests
<1>1. req[r] \in InFlight
  BY InFlightRequest
<1>2. \A q \in Requests : req'[q] = IF q = r THEN [req[r] EXCEPT !.pc = pc] ELSE req[q]
  BY DEF Goto
<1>3. /\ [req[r] EXCEPT !.pc = pc].call = req[r].call
      /\ [req[r] EXCEPT !.pc = pc].pc = pc
      /\ [req[r] EXCEPT !.pc = pc].status = req[r].status
  BY <1>1 DEF InFlight
<1>4. Phase(pc) = "open" /\ Phase(req[r].pc) = "open"
  BY DEF Phase
<1>5. \A q \in Requests : RequestOf(q)' = RequestOf(q)
  BY <1>2, <1>3, <1>4 DEF RequestOf
<1> QED
  BY <1>5 DEF ClientRequests

\* An open request takes effect, or is refused.
LEMMA PerformForClients ==
  ASSUME req \in [Requests -> ReqType], NEW r \in Requests, Phase(req[r].pc) = "open",
         Clients!Effect(req[r].call), Committed(r), issued' = issued
  PROVE  Clients!Next
<1>1. Clients!Answered(r)
  BY AnswerForClients DEF Committed, Clients!Answered
<1>2. Clients!Perform(r)
  BY <1>1 DEF Clients!Perform, RequestOf
<1> QED
  BY <1>2 DEF Clients!Next

LEMMA RefuseForClients ==
  ASSUME req \in [Requests -> ReqType], NEW r \in Requests, Phase(req[r].pc) = "open",
         user' = user, issued' = issued,
         nextId' = nextId \/ (req[r].call.op = "addUser" /\ nextId' = nextId + 1),
         \/ Answer(r, "conflict") /\ Clients!Conflicts(req[r].call)
         \/ Answer(r, "notFound") /\ Clients!NotFound(req[r].call)
         \/ Answer(r, "unauthorized") /\ req[r].call.op = "login"
         \/ Answer(r, "internal")
  PROVE  Clients!Next
<1>1. \/ Clients!Conflicts(req[r].call) /\ Clients!Answer(r, "conflict")
      \/ Clients!NotFound(req[r].call) /\ Clients!Answer(r, "notFound")
      \/ req[r].call.op = "login" /\ Clients!Answer(r, "unauthorized")
      \/ Clients!Answer(r, "internal")
  BY AnswerForClients
<1>2. AccountRows' = AccountRows
  BY AccountsKept
<1>3. Clients!Refuse(r)
  BY <1>1, <1>2 DEF Clients!Refuse, RequestOf, AccountRows
<1> QED
  BY <1>3 DEF Clients!Next

LEMMA ReceiveForClients ==
  ASSUME TypeOK, NEW r \in Requests, Receive(r) PROVE Clients!Next
<1>1. UNCHANGED <<nextId, issued>> /\ AccountRows' = AccountRows
  BY AccountsKept DEF Receive
<1>2. req \in [Requests -> ReqType] /\ req[r].pc = "idle" /\ Phase("idle") = "idle"
  BY DEF TypeOK, ReqType, Receive, At, Phase
<1>3. ASSUME NEW call \in Calls, Opened(r, call) PROVE Clients!Ask(r)
  <2>1. call.op \in Operations
    BY <1>3, CallParameters DEF Opened
  <2>2. Phase(FirstStep[call.op]) = "open"
    <3>1. FirstStep[call.op] \in {"account", "read", "userExists", "emailTaken"}
      BY <2>1 DEF FirstStep, Operations
    <3> QED
      BY <3>1 DEF Phase
  <2> DEFINE open == [call |-> call, phase |-> "open", answer |-> "none"]
             pc == FirstStep[call.op]
  <2>3. GoesOn(r, call, pc)
    BY <1>3 DEF Opened, GoesOn
  <2> HIDE DEF pc
  <2>4. SeenToGoOn(r, call, pc)
    BY <1>2, <2>3, GoesOnForClients
  <2>5. ClientRequests' = [ClientRequests EXCEPT ![r] = open]
    BY <2>2, <2>4 DEF SeenToGoOn, pc
  <2>6. ClientRequests'[r].call = call
    BY <2>5 DEF ClientRequests
  <2>7. Clients!Entitled(call)
    BY <1>3 DEF Opened, Authorized, RolesFor, AdminOnly, Clients!Entitled
  <2>8. call \in {c \in Calls : WellFormed(c)}
    BY <1>3 DEF Opened
  <2> QED
    BY <1>1, <1>2, <2>5, <2>6, <2>7, <2>8 DEF Clients!Ask, RequestOf, AccountRows, ClientRequests
<1>4. ASSUME NEW s \in {"unauthorized", "badRequest"}, Answer(r, s) PROVE Clients!Ask(r)
  <2>1. Clients!Answer(r, s)
    BY <1>2, <1>4, AnswerForClients
  <2> QED
    BY <1>1, <1>2, <2>1 DEF Clients!Ask, RequestOf, AccountRows
<1>5. Clients!Ask(r)
  BY <1>3, <1>4, ReceiveStep
<1> QED
  BY <1>5 DEF Clients!Next

\* The operations that come by a step.
OnPath(x) == /\ x.pc = "userExists" => x.call.op \in {"updateUser", "deleteUser"}
             /\ x.pc = "emailTaken" => x.call.op \in {"addUser", "updateUser"}
             /\ x.pc = "read" => x.call.op = "getUser"

OnPaths == \A r \in Requests : OnPath(req[r])

LEMMA OnPathsKept == ASSUME TypeOK, OnPaths, [Next]_vars PROVE OnPaths'
<1> SUFFICES ASSUME NEW q \in Requests PROVE OnPath(req'[q])
  BY DEF OnPaths
<1>1. req \in [Requests -> ReqType] /\ OnPath(req[q])
  BY DEF TypeOK, ReqType, OnPaths
<1>2. ASSUME NEW r \in Requests, NEW s, Answer(r, s) PROVE OnPath(req'[q])
  BY <1>1, <1>2 DEF Answer, Idle, OnPath
<1>3. ASSUME NEW r \in Requests, Receive(r) PROVE OnPath(req'[q])
  <2>1. ASSUME NEW call \in Calls, Opened(r, call) PROVE OnPath(req'[q])
    <3>1. call.op \in Operations
      BY <2>1, CallParameters DEF Opened
    <3>2. OnPath([call |-> call, pc |-> FirstStep[call.op], status |-> "none"])
      BY <3>1 DEF FirstStep, Operations, OnPath
    <3>3. \/ req'[q] = req[q]
          \/ req'[q] = [call |-> call, pc |-> FirstStep[call.op], status |-> "none"]
      BY <1>1, <2>1 DEF Opened
    <3> QED
      BY <1>1, <3>2, <3>3
  <2> QED
    BY <1>2, <1>3, <2>1, ReceiveStep
<1>4. ASSUME NEW r \in Requests, CheckUserExists(r) \/ CheckEmail(r) \/ CheckAccount(r)
      PROVE  OnPath(req'[q])
  <2>1. /\ req[r].pc \notin {"idle", "issue"}
        /\ \/ \E s : Answer(r, s)
           \/ Goto(r, "write")
           \/ Goto(r, "emailTaken") /\ req[r].call.op = "updateUser"
    BY <1>4 DEF CheckUserExists, CheckEmail, CheckAccount, At
  <2>2. req[r] \in InFlight
    BY <1>1, <2>1, InFlightRequest
  <2>3. ASSUME NEW pc, Goto(r, pc),
               pc = "write" \/ (pc = "emailTaken" /\ req[r].call.op = "updateUser")
        PROVE  OnPath(req'[q])
    <3>1. [req[r] EXCEPT !.pc = pc] = [call |-> req[r].call, pc |-> pc, status |-> "none"]
      BY <2>2 DEF InFlight
    <3>2. req'[q] = req[q] \/ req'[q] = [call |-> req[r].call, pc |-> pc, status |-> "none"]
      BY <1>1, <2>3, <3>1 DEF Goto
    <3> QED
      BY <1>1, <2>3, <3>2 DEF OnPath
  <2> QED
    BY <1>2, <2>1, <2>3
<1>5. ASSUME NEW r \in Requests, Login(r) PROVE OnPath(req'[q])
  <2>1. ASSUME NEW call, req' = [req EXCEPT ![r] = [call |-> call, pc |-> "issue",
                                                    status |-> "none"]]
        PROVE  OnPath(req'[q])
    BY <1>1, <2>1 DEF OnPath
  <2> QED
    BY <1>2, <1>5, <2>1, LoginStep
<1>6. ASSUME NEW r \in Requests, IssueToken(r) \/ ReadUser(r) \/ DBError(r) \/ Write(r)
      PROVE  OnPath(req'[q])
  <2>1. \E s : Answer(r, s)
    BY <1>6 DEF IssueToken, ReadUser, DBError, Write, CreateUser, UpdateUser, DeleteUser,
         ChangePassword, Committed
  <2> QED
    BY <1>2, <2>1
<1>7. ASSUME Crash PROVE OnPath(req'[q])
  BY <1>7 DEF Crash, Idle, OnPath
<1>8. ASSUME UNCHANGED req PROVE OnPath(req'[q])
  BY <1>1, <1>8
<1> QED
  BY <1>3, <1>4, <1>5, <1>6, <1>7, <1>8 DEF Next, Step, Write, Expire, vars

\* A check refuses a request for what is so at that moment, or changes nothing.
LEMMA CheckForClients ==
  ASSUME TypeOK, OnPaths, NEW r \in Requests,
         CheckUserExists(r) \/ CheckEmail(r) \/ CheckAccount(r)
  PROVE  Clients!Next \/ UNCHANGED <<AccountRows, nextId, issued, ClientRequests>>
<1> DEFINE call == req[r].call
<1>1. UNCHANGED <<user, nextId, issued>> /\ AccountRows' = AccountRows
  BY AccountsKept DEF CheckUserExists, CheckEmail, CheckAccount
<1>2. /\ req \in [Requests -> ReqType]
      /\ req[r].pc \in {"account", "userExists", "emailTaken"}
      /\ Phase(req[r].pc) = "open"
  BY DEF TypeOK, ReqType, CheckUserExists, CheckEmail, CheckAccount, At, Phase
<1>3. call \in Calls /\ WellFormed(call)
  BY <1>2, InFlightRequest
<1>4. ASSUME NEW pc \in {"emailTaken", "write"}, Goto(r, pc)
      PROVE  UNCHANGED <<AccountRows, nextId, issued, ClientRequests>>
  BY <1>1, <1>2, <1>4, GotoForClients
<1>5. CASE CheckUserExists(r)
  <2>1. CASE user[call.id] # Null
    BY <1>4, <1>5, <2>1 DEF CheckUserExists
  <2>2. CASE user[call.id] = Null
    <3>1. Answer(r, "notFound") /\ call.op \in {"updateUser", "deleteUser"} /\ call.id \in Ids
      BY <1>3, <1>5, <2>2, CallParameters DEF CheckUserExists, At, OnPaths, OnPath
    <3>2. AccountRows[call.id] = Null
      BY <2>2, <3>1, AccountFields
    <3>3. Clients!NotFound(call)
      BY <3>1, <3>2 DEF Clients!NotFound, AccountRows
    <3> QED
      BY <1>1, <1>2, <3>1, <3>3, RefuseForClients
  <2> QED
    BY <2>1, <2>2
<1>6. CASE CheckEmail(r)
  <2>1. CASE EmailTaken(call.email, call.id)
    <3>1. Answer(r, "conflict") /\ call.op \in {"addUser", "updateUser"}
      BY <1>6, <2>1 DEF CheckEmail, EmailCheck, At, OnPaths, OnPath
    <3>2. Clients!Conflicts(call)
      BY <2>1, <3>1, TakenForClients DEF Clients!Conflicts
    <3> QED
      BY <1>1, <1>2, <3>1, <3>2, RefuseForClients
  <2>2. CASE ~EmailTaken(call.email, call.id)
    BY <1>4, <1>6, <2>2 DEF CheckEmail, EmailCheck
  <2> QED
    BY <2>1, <2>2
<1>7. CASE CheckAccount(r)
  <2>1. CASE EmailTaken(call.email, Null)
    BY <1>4, <1>7, <2>1 DEF CheckAccount
  <2>2. CASE ~EmailTaken(call.email, Null)
    <3>1. Answer(r, "notFound") /\ call.op = "changePassword"
      BY <1>7, <2>2 DEF CheckAccount
    <3>2. Clients!NotFound(call)
      BY <2>2, <3>1, TakenForClients DEF Clients!NotFound
    <3> QED
      BY <1>1, <1>2, <3>1, <3>2, RefuseForClients
  <2> QED
    BY <2>1, <2>2
<1> QED
  BY <1>5, <1>6, <1>7

LEMMA ReadForClients ==
  ASSUME TypeOK, OnPaths, NEW r \in Requests, ReadUser(r) PROVE Clients!Next
<1> DEFINE call == req[r].call
<1>1. UNCHANGED <<user, nextId, issued>> /\ AccountRows' = AccountRows
  BY AccountsKept DEF ReadUser
<1>2. /\ req \in [Requests -> ReqType] /\ req[r].pc = "read" /\ Phase(req[r].pc) = "open"
      /\ call.op = "getUser"
  BY DEF TypeOK, ReqType, ReadUser, At, Phase, OnPaths, OnPath
<1>3. call.id \in Ids
  BY <1>2, InFlightRequest, CallParameters
<1>4. AccountRows[call.id] = Null <=> user[call.id] = Null
  BY <1>3, AccountFields
<1>5. CASE user[call.id] # Null
  <2>1. Clients!Effect(call)
    BY <1>1, <1>2, <1>4, <1>5 DEF Clients!Effect, Clients!GetUser, AccountRows
  <2>2. Committed(r)
    BY <1>5 DEF ReadUser, Committed
  <2> QED
    BY <1>1, <1>2, <2>1, <2>2, PerformForClients
<1>6. CASE user[call.id] = Null
  <2>1. Clients!NotFound(call) /\ Answer(r, "notFound")
    BY <1>2, <1>4, <1>6 DEF ReadUser, Clients!NotFound, AccountRows
  <2> QED
    BY <1>1, <1>2, <2>1, RefuseForClients
<1> QED
  BY <1>5, <1>6

\* A login, from the row it reads to its token.
LEMMA LoginForClients ==
  ASSUME TypeOK, NEW r \in Requests, Login(r) PROVE Clients!Next
<1>1. UNCHANGED <<user, nextId, issued>> /\ AccountRows' = AccountRows
  BY AccountsKept DEF Login
<1>2. /\ req \in [Requests -> ReqType] /\ Phase(req[r].pc) = "open"
      /\ req[r].call.op = "login"
  BY DEF TypeOK, ReqType, Login, At, Phase
<1>3. CASE Answer(r, "unauthorized")
  BY <1>1, <1>2, <1>3, RefuseForClients
<1>4. CASE ~Answer(r, "unauthorized")
  <2>1. PICK i \in Ids :
          /\ user[i] # Null /\ user[i].email = req[r].call.email
          /\ req' = [req EXCEPT ![r] = [call |-> [req[r].call EXCEPT !.role = user[i].role],
                                        pc |-> "issue", status |-> "none"]]
    BY <1>4 DEF Login
  <2>2. /\ AccountRows[i] # Null /\ AccountRows[i].email = req[r].call.email
        /\ AccountRows[i].role = user[i].role
    BY <2>1, AccountFields
  <2> DEFINE call == [req[r].call EXCEPT !.role = user[i].role]
  <2>3. call = [req[r].call EXCEPT !.role = AccountRows[i].role]
    BY <2>2
  <2>4. GoesOn(r, call, "issue")
    BY <2>1 DEF GoesOn
  <2> HIDE DEF call
  <2>5. SeenToGoOn(r, call, "issue")
    BY <1>2, <2>4, GoesOnForClients
  <2>6. Phase("issue") = "done"
    BY DEF Phase
  <2>7. ClientRequests' = [ClientRequests EXCEPT ![r] = [call |-> call, phase |-> "done",
                                                        answer |-> "none"]]
    BY <2>5, <2>6 DEF SeenToGoOn
  <2>8. Clients!Login(r)
    BY <1>1, <1>2, <2>2, <2>3, <2>7 DEF Clients!Login, RequestOf, AccountRows, ClientRequests
  <2> QED
    BY <2>8 DEF Clients!Next
<1> QED
  BY <1>3, <1>4

LEMMA IssueTokenForClients ==
  ASSUME TypeOK, NEW r \in Requests, IssueToken(r) PROVE Clients!Next
<1>1. UNCHANGED <<user, nextId>> /\ AccountRows' = AccountRows
  BY AccountsKept DEF IssueToken
<1>2. req \in [Requests -> ReqType] /\ Phase(req[r].pc) = "done"
  BY DEF TypeOK, ReqType, IssueToken, At, Phase
<1>3. Clients!Answer(r, "ok")
  BY <1>2, AnswerForClients DEF IssueToken
<1>4. Clients!GiveToken(r)
  BY <1>1, <1>2, <1>3 DEF IssueToken, Clients!GiveToken, RequestOf, AccountRows
<1> QED
  BY <1>4 DEF Clients!Next

LEMMA DBErrorForClients ==
  ASSUME TypeOK, NEW r \in Requests, DBError(r) PROVE Clients!Next
<1>1. UNCHANGED <<user, nextId, issued>> /\ AccountRows' = AccountRows
  BY AccountsKept DEF DBError
<1>2. /\ req \in [Requests -> ReqType] /\ Answer(r, "internal")
      /\ Phase(req[r].pc) \in {"open", "done"}
  BY DEF TypeOK, ReqType, DBError, At, Phase
<1>3. CASE Phase(req[r].pc) = "open"
  BY <1>1, <1>2, <1>3, RefuseForClients
<1>4. CASE Phase(req[r].pc) = "done"
  <2>1. Clients!Answer(r, "internal")
    BY <1>2, AnswerForClients
  <2>2. Clients!GiveToken(r)
    BY <1>1, <1>4, <2>1 DEF Clients!GiveToken, RequestOf, AccountRows
  <2> QED
    BY <2>2 DEF Clients!Next
<1> QED
  BY <1>2, <1>3, <1>4

----------------------------------------------------------------------------
(* The writes, as the clients see them.                                    *)

LEMMA AccountsExcept ==
  ASSUME NEW id \in Ids, \A i \in Ids \ {id} : user'[i] = user[i]
  PROVE  AccountRows' = [AccountRows EXCEPT ![id] = AccountOf(id)']
<1>1. \A i \in Ids : AccountOf(i)' = IF i = id THEN AccountOf(id)' ELSE AccountOf(i)
  BY DEF AccountOf
<1> QED
  BY <1>1 DEF AccountRows

\* A request that writes.
LEMMA WritingRequest ==
  ASSUME TypeOK, NEW r \in Requests, NEW op, Running(r, op)
  PROVE  /\ req \in [Requests -> ReqType] /\ Phase(req[r].pc) = "open"
         /\ req[r].call \in Calls /\ WellFormed(req[r].call) /\ req[r].call.op = op
BY RunningCall DEF TypeOK, ReqType, Running, At, Phase

LEMMA CreateUserForClients ==
  ASSUME TypeOK, NEW r \in Requests, CreateUser(r) PROVE Clients!Next
<1> DEFINE call == req[r].call
<1>1. /\ req \in [Requests -> ReqType] /\ Phase(req[r].pc) = "open"
      /\ call \in Calls /\ WellFormed(call) /\ call.op = "addUser"
  BY WritingRequest DEF CreateUser
<1>2. call.id = Null /\ call.email \in Emails /\ call.role \in Roles
  BY <1>1, CallParameters
<1>3. nextId \in Ids /\ nextId' = nextId + 1 /\ issued' = issued
  BY DEF CreateUser
<1>4. CASE EmailTaken(call.email, Null) /\ Answer(r, "conflict") /\ UNCHANGED user
  <2>1. Clients!Conflicts(call)
    BY <1>1, <1>2, <1>4, TakenForClients DEF Clients!Conflicts
  <2> QED
    BY <1>1, <1>3, <1>4, <2>1, RefuseForClients
<1>5. CASE /\ ~EmailTaken(call.email, Null)
           /\ user' = [user EXCEPT ![nextId] = NewUser(call.email, call.role)]
           /\ Committed(r)
  <2> DEFINE row == NewUser(call.email, call.role)
             new == [email |-> call.email, role |-> call.role, password |-> "generated"]
  <2>1. /\ row # Null /\ row.email = call.email /\ row.role = call.role
        /\ row.password = "generated"
    BY <1>2, NewUserRow DEF NewUser
  <2> HIDE DEF row
  <2>2. user'[nextId] = row /\ \A i \in Ids \ {nextId} : user'[i] = user[i]
    BY <1>3, <1>5 DEF TypeOK, row
  <2> PICK id \in Ids : id = nextId
    BY <1>3
  <2>3. AccountOf(id)' = new
    BY <2>1, <2>2 DEF AccountOf
  <2>4. AccountRows' = [AccountRows EXCEPT ![id] = AccountOf(id)']
    BY <2>2, AccountsExcept
  <2>5. AccountRows' = [AccountRows EXCEPT ![nextId] = Clients!NewAccount(call.email, call.role)]
    BY <2>3, <2>4 DEF Clients!NewAccount
  <2>6. ~Clients!Taken(call.email, Null)
    BY <1>5, TakenForClients
  <2>7. Clients!AddUser(call)
    BY <1>3, <2>5, <2>6 DEF Clients!AddUser, AccountRows
  <2>8. Clients!Effect(call)
    BY <1>1, <2>7 DEF Clients!Effect
  <2> QED
    BY <1>1, <1>3, <1>5, <2>8, PerformForClients
<1> QED
  BY <1>4, <1>5 DEF CreateUser, UniqueKeyViolated

LEMMA UpdateUserForClients ==
  ASSUME TypeOK, NEW r \in Requests, UpdateUser(r) PROVE Clients!Next
<1> DEFINE call == req[r].call
           row == UpdatedUser(user[call.id], call)
<1>1. /\ req \in [Requests -> ReqType] /\ Phase(req[r].pc) = "open"
      /\ call \in Calls /\ WellFormed(call) /\ call.op = "updateUser"
  BY WritingRequest DEF UpdateUser
<1>2. call.id \in Ids /\ call.email \in Emails /\ call.role \in Roles
  BY <1>1, CallParameters
<1>3. UNCHANGED <<nextId, issued>>
  BY DEF UpdateUser
<1>4. CASE EmailTaken(call.email, call.id) /\ Answer(r, "conflict") /\ UNCHANGED user
  <2>1. Clients!Conflicts(call)
    BY <1>1, <1>4, TakenForClients DEF Clients!Conflicts
  <2> QED
    BY <1>1, <1>3, <1>4, <2>1, RefuseForClients
<1>5. CASE /\ user[call.id] = Null \/ ~EmailTaken(call.email, call.id)
           /\ user' = [user EXCEPT ![call.id] = row]
           /\ Committed(r)
  <2>1. CASE user[call.id] = Null
    <3>1. row = Null
      BY <2>1 DEF UpdatedUser
    <3>2. user' = user
      BY <1>2, <1>5, <2>1, <3>1 DEF TypeOK
    <3>3. AccountRows' = AccountRows /\ AccountRows[call.id] = Null
      BY <1>2, <2>1, <3>2, AccountsKept, AccountFields
    <3>4. Clients!UpdateUser(call)
      BY <1>3, <3>3 DEF Clients!UpdateUser, AccountRows
    <3>5. Clients!Effect(call)
      BY <1>1, <3>4 DEF Clients!Effect
    <3> QED
      BY <1>1, <1>3, <1>5, <3>5, PerformForClients
  <2>2. CASE user[call.id] # Null
    <3>1. user[call.id] \in UserRow
      BY <1>2, <2>2 DEF TypeOK
    <3>2. /\ row # Null /\ row.email = call.email /\ row.role = call.role
          /\ row.password = user[call.id].password
      <4>1. row # Null
        BY <1>2, <2>2, <3>1, UpdatedUserRow
      <4> QED
        BY <2>2, <3>1, <4>1 DEF UpdatedUser, UserRow
    <3> HIDE DEF row
    <3>3. user'[call.id] = row /\ \A i \in Ids \ {call.id} : user'[i] = user[i]
      BY <1>2, <1>5 DEF TypeOK, row
    <3> PICK id \in Ids : id = call.id
      BY <1>2
    <3>4. /\ AccountRows[id] # Null /\ AccountRows[id].password = user[id].password
      BY <2>2, AccountFields
    <3>5. AccountOf(id)' = [email |-> call.email, role |-> call.role,
                            password |-> AccountRows[id].password]
      BY <3>2, <3>3, <3>4 DEF AccountOf
    <3>6. AccountRows' = [AccountRows EXCEPT ![id] = AccountOf(id)']
      BY <3>3, AccountsExcept
    <3>7. AccountRows' = [AccountRows EXCEPT ![call.id] =
                            [email |-> call.email, role |-> call.role,
                             password |-> AccountRows[call.id].password]]
      BY <3>5, <3>6
    <3>8. ~Clients!Taken(call.email, call.id)
      BY <1>5, <2>2, TakenForClients
    <3>9. Clients!UpdateUser(call)
      BY <1>3, <3>4, <3>7, <3>8 DEF Clients!UpdateUser, AccountRows
    <3>10. Clients!Effect(call)
      BY <1>1, <3>9 DEF Clients!Effect
    <3> QED
      BY <1>1, <1>3, <1>5, <3>10, PerformForClients
  <2> QED
    BY <2>1, <2>2
<1> QED
  BY <1>4, <1>5 DEF UpdateUser, UniqueKeyViolated

LEMMA DeleteUserForClients ==
  ASSUME TypeOK, NEW r \in Requests, DeleteUser(r) PROVE Clients!Next
<1> DEFINE call == req[r].call
<1>1. /\ req \in [Requests -> ReqType] /\ Phase(req[r].pc) = "open"
      /\ call \in Calls /\ WellFormed(call) /\ call.op = "deleteUser"
  BY WritingRequest DEF DeleteUser
<1>2. call.id \in Ids
  BY <1>1, CallParameters
<1>3. UNCHANGED <<nextId, issued>> /\ Committed(r)
  BY DEF DeleteUser
<1>4. user'[call.id] = Null /\ \A i \in Ids \ {call.id} : user'[i] = user[i]
  BY <1>2 DEF DeleteUser, TypeOK
<1> PICK id \in Ids : id = call.id
  BY <1>2
<1>5. AccountOf(id)' = Null
  BY <1>4 DEF AccountOf
<1>6. AccountRows' = [AccountRows EXCEPT ![id] = AccountOf(id)']
  BY <1>4, AccountsExcept
<1>7. Clients!DeleteUser(call)
  BY <1>3, <1>5, <1>6 DEF Clients!DeleteUser, AccountRows
<1>8. Clients!Effect(call)
  BY <1>1, <1>7 DEF Clients!Effect
<1> QED
  BY <1>1, <1>3, <1>8, PerformForClients

\* A password change reaches one account at most, as an email names one at most.
LEMMA ChangePasswordForClients ==
  ASSUME TypeOK, EmailsUnique, NEW r \in Requests, ChangePassword(r) PROVE Clients!Next
<1> DEFINE call == req[r].call
<1>1. /\ req \in [Requests -> ReqType] /\ Phase(req[r].pc) = "open"
      /\ call \in Calls /\ WellFormed(call) /\ call.op = "changePassword"
  BY WritingRequest DEF ChangePassword
<1>2. UNCHANGED <<nextId, issued>> /\ Committed(r)
  BY DEF ChangePassword
<1>3. \A i \in Ids : user'[i] = IF user[i] # Null /\ user[i].email = call.email
                                 THEN WithPassword(user[i]) ELSE user[i]
  BY DEF ChangePassword
<1>4. CASE ~EmailTaken(call.email, Null)
  <2>1. \A i \in Ids : user'[i] = user[i]
    BY <1>3, <1>4, NullAssumption DEF EmailTaken
  <2>2. \A i \in Ids : AccountOf(i)' = AccountOf(i)
    BY <2>1 DEF AccountOf
  <2>3. AccountRows' = AccountRows
    BY <2>2 DEF AccountRows
  <2>4. ~Clients!Taken(call.email, Null)
    BY <1>4, TakenForClients
  <2>5. Clients!ChangePassword(call)
    BY <1>2, <2>3, <2>4 DEF Clients!ChangePassword, AccountRows
  <2>6. Clients!Effect(call)
    BY <1>1, <2>5 DEF Clients!Effect
  <2> QED
    BY <1>1, <1>2, <2>6, PerformForClients
<1>5. CASE EmailTaken(call.email, Null)
  <2>1. PICK id \in Ids : user[id] # Null /\ user[id].email = call.email
    BY <1>5 DEF EmailTaken
  <2>2. /\ user'[id] = WithPassword(user[id])
        /\ \A i \in Ids \ {id} : user'[i] = user[i]
    BY <1>3, <2>1 DEF EmailsUnique
  <2>3. /\ user'[id] # Null /\ user'[id].email = call.email
        /\ user'[id].role = user[id].role /\ user'[id].password = "chosen"
    <3>1. user[id] \in UserRow
      BY <2>1 DEF TypeOK
    <3>2. user'[id] \in UserRow
      BY <2>2, <3>1, WithPasswordRow
    <3>3. user'[id].role = user[id].role /\ user'[id].password = "chosen"
      BY <2>2, <3>1, WithPasswordRow
    <3>4. user'[id].email = call.email
      BY <2>1, <2>2, <3>1, WithPasswordRow
    <3> QED
      BY <3>2, <3>3, <3>4, NullAssumption
  <2>4. /\ AccountRows[id] # Null /\ AccountRows[id].email = call.email
        /\ AccountRows[id].role = user[id].role
    BY <2>1, AccountFields
  <2>5. AccountOf(id)' = [email |-> call.email, role |-> AccountRows[id].role,
                          password |-> "chosen"]
    BY <2>3, <2>4 DEF AccountOf
  <2>6. AccountRows' = [AccountRows EXCEPT ![id] = AccountOf(id)']
    BY <2>2, AccountsExcept
  <2>7. Clients!ChangePassword(call)
    BY <1>2, <2>4, <2>5, <2>6 DEF Clients!ChangePassword, AccountRows
  <2>8. Clients!Effect(call)
    BY <1>1, <2>7 DEF Clients!Effect
  <2> QED
    BY <1>1, <1>2, <2>8, PerformForClients
<1> QED
  BY <1>4, <1>5

LEMMA CrashForClients == ASSUME TypeOK, Crash PROVE Clients!Next
<1>1. UNCHANGED <<nextId, issued>> /\ AccountRows' = AccountRows
  BY AccountsKept DEF Crash
<1>2. /\ Idle("none").call = Null /\ Idle("none").pc = "idle" /\ Idle("none").status = "none"
      /\ Phase("idle") = "idle"
  BY DEF Idle, Phase
<1>3. \A q \in Requests : RequestOf(q)' = Clients!Idle("none")
  BY <1>2 DEF Crash, RequestOf, Clients!Idle
<1>4. Clients!Crash
  BY <1>1, <1>3 DEF Clients!Crash, AccountRows
<1> QED
  BY <1>4 DEF Clients!Next

LEMMA ExpireForClients ==
  ASSUME NEW token \in Token, Expire(token) PROVE Clients!Next
<1>1. nextId' = nextId /\ AccountRows' = AccountRows
  BY AccountsKept DEF Expire
<1>2. ClientRequests' = ClientRequests
  BY DEF Expire, ClientRequests, RequestOf
<1>3. Clients!Expire
  BY <1>1, <1>2 DEF Expire, Clients!Expire, AccountRows, ClientRequests
<1> QED
  BY <1>3 DEF Clients!Next

LEMMA InitForClients == Init => Clients!Init
<1> SUFFICES ASSUME Init PROVE Clients!Init
  OBVIOUS
<1>1. PICK email \in Emails :
        user = [i \in Ids |-> IF i = 1 THEN NewUser(email, Admin) ELSE Null]
  BY DEF Init
<1>2. /\ NewUser(email, Admin) # Null /\ NewUser(email, Admin).email = email
      /\ NewUser(email, Admin).role = Admin /\ NewUser(email, Admin).password = "generated"
  BY NewUserRow, AdminAssumption DEF NewUser
<1>3. \A i \in Ids : AccountOf(i) = IF i = 1 THEN Clients!NewAccount(email, Admin) ELSE Null
  BY <1>1, <1>2 DEF AccountOf, Clients!NewAccount
<1>4. AccountRows = [i \in Ids |-> IF i = 1 THEN Clients!NewAccount(email, Admin) ELSE Null]
  BY <1>3 DEF AccountRows
<1>5. /\ Idle("none").call = Null /\ Idle("none").pc = "idle" /\ Idle("none").status = "none"
      /\ Phase("idle") = "idle"
  BY DEF Idle, Phase
<1>6. \A q \in Requests : RequestOf(q) = Clients!Idle("none")
  BY <1>5 DEF Init, RequestOf, Clients!Idle
<1> QED
  BY <1>4, <1>6 DEF Init, Clients!Init, AccountRows

LEMMA StepForClients ==
  ASSUME IInv, OnPaths, [Next]_vars
  PROVE  Clients!Next \/ UNCHANGED <<AccountRows, nextId, issued, ClientRequests>>
<1>1. TypeOK /\ EmailsUnique
  BY DEF IInv
<1>2. ASSUME NEW r \in Requests, Receive(r) \/ Step(r)
      PROVE  Clients!Next \/ UNCHANGED <<AccountRows, nextId, issued, ClientRequests>>
  <2>1. CASE CheckUserExists(r) \/ CheckEmail(r) \/ CheckAccount(r)
    BY <1>1, <2>1, CheckForClients
  <2>2. CASE Write(r)
    BY <1>1, <2>2, CreateUserForClients, UpdateUserForClients, DeleteUserForClients,
       ChangePasswordForClients DEF Write
  <2> QED
    BY <1>1, <1>2, <2>1, <2>2, ReceiveForClients, LoginForClients, IssueTokenForClients,
       ReadForClients, DBErrorForClients DEF Step, Write
<1>3. CASE UNCHANGED vars
  BY <1>3, AccountsKept DEF vars, ClientRequests, RequestOf
<1> QED
  BY <1>1, <1>2, <1>3, CrashForClients, ExpireForClients DEF Next

\* To those who use them the accounts are one map that requests read and change one at a
\* time, each once, and a token names an account that was there, whatever statements overlap,
\* fail or lose their replies.
THEOREM AccountsImplemented == Spec => ImplementsAccounts
<1>1. Init => OnPaths
  BY DEF Init, Idle, OnPaths, OnPath
<1>2. IInv /\ OnPaths /\ [Next]_vars => OnPaths'
  BY OnPathsKept DEF IInv
<1>3. Init => Clients!Init
  BY InitForClients
<1>4. IInv /\ OnPaths /\ [Next]_vars => [Clients!Next]_(Clients!vars)
  BY StepForClients DEF Clients!vars, AccountRows, ClientRequests
<1> QED
  BY <1>1, <1>2, <1>3, <1>4, Invariance, PTL DEF Spec, ImplementsAccounts, Clients!Spec
=============================================================================
