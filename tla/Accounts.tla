------------------------------ MODULE Accounts ------------------------------
(***************************************************************************)
(* What the accounts of users promise to those who use them: one account   *)
(* for an email, tokens that are handed out for an account as it was at one*)
(* moment, requests that a token opens and that take effect at one moment  *)
(* between the question and the answer, or not at all.  There are no       *)
(* statements and no checks before a write here.  UserAccounts implements  *)
(* this.                                                                   *)
(***************************************************************************)
EXTENDS Naturals

CONSTANTS Requests,  \* the requests that may be in flight at once
          Ids,       \* the ids that users are given, in order
          Emails,
          Roles,
          Admin,     \* the role that manages users,
          Advanced,  \* and the one that may read them as well
          Calls,     \* what a client may ask for
          Null       \* no account, nothing asked for

VARIABLES account,  \* an email, a role and whose password it is for each id, or Null
          nextId,   \* the next id to be given
          tokens,   \* the tokens that are valid
          request   \* what was asked, whether it has taken effect, the answer

vars == <<account, nextId, tokens, request>>

Idle(answer) == [call |-> Null, phase |-> "idle", answer |-> answer]

NewAccount(email, role) == [email |-> email, role |-> role, password |-> "generated"]

\* There is an admin to begin with.
Init == /\ \E email \in Emails :
             account = [i \in Ids |-> IF i = 1 THEN NewAccount(email, Admin) ELSE Null]
        /\ nextId = 2
        /\ tokens = {}
        /\ request = [r \in Requests |-> Idle("none")]

Answer(r, answer) == request' = [request EXCEPT ![r] = Idle(answer)]
Answered(r) == Answer(r, "ok") \/ Answer(r, "internal")

Taken(email, id) == \E i \in Ids \ {id} : account[i] # Null /\ account[i].email = email

\* What a call may be refused for.
Conflicts(call) == call.op \in {"addUser", "updateUser"} /\ Taken(call.email, call.id)
NotFound(call) ==
  \/ call.op \in {"getUser", "updateUser", "deleteUser"} /\ account[call.id] = Null
  \/ call.op = "changePassword" /\ ~Taken(call.email, Null)

\* The token that a call needs.
Entitled(call) ==
  \/ call.op = "login"
  \/ \E token \in tokens :
       /\ call.op \in {"addUser", "updateUser", "deleteUser"} => token.role = Admin
       /\ call.op = "getUser" => token.role \in {Advanced, Admin}
       /\ call.op = "changePassword" => token.email = call.email

----------------------------------------------------------------------------
(* The effects.  A change or a removal of what is gone has none.           *)

AddUser(call) ==
  /\ nextId \in Ids /\ ~Taken(call.email, Null)
  /\ account' = [account EXCEPT ![nextId] = NewAccount(call.email, call.role)]
  /\ nextId' = nextId + 1

UpdateUser(call) ==
  /\ UNCHANGED nextId
  /\ \/ account[call.id] = Null /\ UNCHANGED account
     \/ /\ account[call.id] # Null /\ ~Taken(call.email, call.id)
        /\ account' = [account EXCEPT ![call.id] =
                         [email |-> call.email, role |-> call.role,
                          password |-> account[call.id].password]]

DeleteUser(call) ==
  account' = [account EXCEPT ![call.id] = Null] /\ UNCHANGED nextId

\* Of the one account that has the email, if any has by now.
ChangePassword(call) ==
  /\ UNCHANGED nextId
  /\ \/ ~Taken(call.email, Null) /\ UNCHANGED account
     \/ \E i \in Ids :
          /\ account[i] # Null /\ account[i].email = call.email
          /\ account' = [account EXCEPT ![i] = [email |-> call.email, role |-> account[i].role,
                                                password |-> "chosen"]]

GetUser(call) == account[call.id] # Null /\ UNCHANGED <<account, nextId>>

Effect(call) == \/ call.op = "addUser" /\ AddUser(call)
                \/ call.op = "updateUser" /\ UpdateUser(call)
                \/ call.op = "deleteUser" /\ DeleteUser(call)
                \/ call.op = "changePassword" /\ ChangePassword(call)
                \/ call.op = "getUser" /\ GetUser(call)

----------------------------------------------------------------------------
(* The life of a request.                                                  *)

Ask(r) ==
  /\ request[r].phase = "idle"
  /\ \/ Answer(r, "badRequest")
     \/ Answer(r, "unauthorized")
     \/ /\ request'[r].call \in Calls /\ Entitled(request'[r].call)
        /\ request' = [request EXCEPT ![r] = [call |-> request'[r].call, phase |-> "open",
                                              answer |-> "none"]]
  /\ UNCHANGED <<account, nextId, tokens>>

Perform(r) ==
  /\ request[r].phase = "open"
  /\ Effect(request[r].call)
  /\ Answered(r)
  /\ UNCHANGED tokens

\* A login has an account with that email before it, and keeps in mind its role.
Login(r) ==
  /\ request[r].phase = "open" /\ request[r].call.op = "login"
  /\ \E i \in Ids :
       /\ account[i] # Null /\ account[i].email = request[r].call.email
       /\ request' = [request EXCEPT ![r] =
                        [call |-> [request[r].call EXCEPT !.role = account[i].role],
                         phase |-> "done", answer |-> "none"]]
  /\ UNCHANGED <<account, nextId, tokens>>

GiveToken(r) ==
  /\ request[r].phase = "done"
  /\ \/ /\ tokens' = tokens \cup {[email |-> request[r].call.email,
                                   role |-> request[r].call.role]}
        /\ Answer(r, "ok")
     \/ Answer(r, "internal") /\ UNCHANGED tokens
  /\ UNCHANGED <<account, nextId>>

\* A new user that is refused may have used up an id.
Refuse(r) ==
  /\ request[r].phase = "open"
  /\ \/ Conflicts(request[r].call) /\ Answer(r, "conflict")
     \/ NotFound(request[r].call) /\ Answer(r, "notFound")
     \/ request[r].call.op = "login" /\ Answer(r, "unauthorized")
     \/ Answer(r, "internal")
  /\ \/ UNCHANGED nextId
     \/ request[r].call.op = "addUser" /\ nextId' = nextId + 1
  /\ UNCHANGED <<account, tokens>>

Expire == \E token \in tokens : tokens' = tokens \ {token}
                               /\ UNCHANGED <<account, nextId, request>>

Crash ==
  /\ request' = [r \in Requests |-> Idle("none")]
  /\ UNCHANGED <<account, nextId, tokens>>

Next == \/ \E r \in Requests : Ask(r) \/ Perform(r) \/ Login(r) \/ GiveToken(r) \/ Refuse(r)
        \/ Expire \/ Crash

Spec == Init /\ [][Next]_vars
=============================================================================
