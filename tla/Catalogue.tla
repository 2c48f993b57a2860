------------------------------ MODULE Catalogue ------------------------------
(***************************************************************************)
(* What the service catalogue promises to those who use it: services with  *)
(* unique names, each with its set of version tags, and requests that take *)
(* effect at one moment between the question and the answer, or not at     *)
(* all.  There are no statements, no rows, no counts and no flags here.    *)
(*                                                                         *)
(* A request that is answered with success has taken effect once; one that *)
(* is refused has not, and what it was refused for was so at that moment;  *)
(* an internal error leaves open which.  ServiceCatalog implements this.   *)
(***************************************************************************)
EXTENDS Naturals

CONSTANTS Requests,  \* the requests that may be in flight at once
          Ids,       \* the ids that services are given, in order
          Calls,     \* what a client may ask for
          Null       \* no service, nothing asked for

VARIABLES entry,    \* a name and the tags of the versions for each id, or Null
          nextId,   \* the next id to be given
          request   \* what was asked, whether it has taken effect, the answer

vars == <<entry, nextId, request>>

Idle(answer) == [call |-> Null, phase |-> "idle", answer |-> answer]

Init == /\ entry = [i \in Ids |-> Null]
        /\ nextId = 1
        /\ request = [r \in Requests |-> Idle("none")]

Answer(r, answer) == request' = [request EXCEPT ![r] = Idle(answer)]
\* It has taken effect; the answer is yet to be given, or comes at once, or gets lost.
Performed(r) == \/ request' = [request EXCEPT ![r].phase = "done"]
                \/ Answer(r, "ok")
                \/ Answer(r, "internal")

Taken(name, id) == \E i \in Ids \ {id} : entry[i] # Null /\ entry[i].name = name
HasVersion(id, tag) == entry[id] # Null /\ tag \in entry[id].tags

\* What a call may be refused for.
Conflicts(call) ==
  CASE call.op \in {"addService", "updateService"} -> Taken(call.name, call.id)
    [] call.op = "addServiceVersion" -> HasVersion(call.id, call.tag)
    [] OTHER -> FALSE
NotFound(call) ==
  \/ call.op # "addService" /\ entry[call.id] = Null
  \/ /\ call.op \in {"getServiceVersion", "updateServiceVersion", "deleteServiceVersion"}
     /\ ~HasVersion(call.id, call.tag)

----------------------------------------------------------------------------
(* The effects.  A change or a removal of what is gone has none.           *)

Change(id, new) ==
  /\ entry' = IF entry[id] = Null THEN entry ELSE [entry EXCEPT ![id] = new]
  /\ UNCHANGED nextId

\* What is read is there.
GetService(call) == entry[call.id] # Null /\ UNCHANGED <<entry, nextId>>
GetServiceVersion(call) == HasVersion(call.id, call.tag) /\ UNCHANGED <<entry, nextId>>

AddService(call) ==
  /\ nextId \in Ids /\ ~Taken(call.name, Null)
  /\ entry' = [entry EXCEPT ![nextId] = [name |-> call.name, tags |-> {}]]
  /\ nextId' = nextId + 1

UpdateService(call) ==
  /\ entry[call.id] = Null \/ ~Taken(call.name, call.id)
  /\ Change(call.id, [name |-> call.name, tags |-> entry[call.id].tags])

DeleteService(call) == Change(call.id, Null)

AddServiceVersion(call) ==
  /\ entry[call.id] # Null /\ ~HasVersion(call.id, call.tag)
  /\ Change(call.id, [name |-> entry[call.id].name,
                      tags |-> entry[call.id].tags \cup {call.tag}])

DeleteServiceVersion(call) ==
  Change(call.id, [name |-> entry[call.id].name, tags |-> entry[call.id].tags \ {call.tag}])

\* The info of a version is not part of this catalogue.
UpdateServiceVersion == UNCHANGED <<entry, nextId>>

Effect(call) == \/ call.op = "getService" /\ GetService(call)
                \/ call.op = "getServiceVersion" /\ GetServiceVersion(call)
                \/ call.op = "addService" /\ AddService(call)
                \/ call.op = "updateService" /\ UpdateService(call)
                \/ call.op = "deleteService" /\ DeleteService(call)
                \/ call.op = "addServiceVersion" /\ AddServiceVersion(call)
                \/ call.op = "updateServiceVersion" /\ UpdateServiceVersion
                \/ call.op = "deleteServiceVersion" /\ DeleteServiceVersion(call)

----------------------------------------------------------------------------
(* The life of a request.                                                  *)

\* A request is refused at once, or is open with a call.
Ask(r) ==
  /\ request[r].phase = "idle"
  /\ \/ Answer(r, "badRequest")
     \/ /\ request'[r].call \in Calls
        /\ request' = [request EXCEPT ![r] = [call |-> request'[r].call, phase |-> "open",
                                              answer |-> "none"]]
  /\ UNCHANGED <<entry, nextId>>

Perform(r) ==
  /\ request[r].phase = "open"
  /\ Effect(request[r].call)
  /\ Performed(r)

\* A refused request may have used up an id.
Refuse(r) ==
  /\ request[r].phase = "open"
  /\ \/ Conflicts(request[r].call) /\ Answer(r, "conflict")
     \/ NotFound(request[r].call) /\ Answer(r, "notFound")
     \/ Answer(r, "internal")
  /\ nextId' \in {nextId, nextId + 1}
  /\ UNCHANGED entry

Reply(r) ==
  /\ request[r].phase = "done"
  /\ Answer(r, "ok") \/ Answer(r, "internal")
  /\ UNCHANGED <<entry, nextId>>

Crash ==
  /\ request' = [r \in Requests |-> Idle("none")]
  /\ UNCHANGED <<entry, nextId>>

Next == (\E r \in Requests : Ask(r) \/ Perform(r) \/ Refuse(r) \/ Reply(r)) \/ Crash

Spec == Init /\ [][Next]_vars
=============================================================================
