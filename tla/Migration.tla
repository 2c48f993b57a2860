------------------------------ MODULE Migration ------------------------------
(***************************************************************************)
(* Setting up the database, and starting over it.  A migrator is a process *)
(* started with --migrate: MigrateDBEntities and InitDBEntities of         *)
(* cmd/migration/migrate.go, then the end.  An app is one started without: *)
(* LoadUserRoles of internal/misc/user_roles.go takes its copy of the      *)
(* roles, and it serves, or it fails for want of any.                      *)
(*                                                                         *)
(* A migrator goes through the items it makes one by one, each with a check*)
(* and a create of their own and no transaction around them.  It may fail  *)
(* or be killed anywhere, be run again, and run beside another one or      *)
(* beside the apps.                                                        *)
(***************************************************************************)
EXTENDS Naturals

CONSTANTS Migrators,
          Apps,
          DefaultRoles,  \* the roles that the migration configures
          MaxFailures    \* bound: failures that are not of a migrator's own making

Tables == {"user", "service", "version", "user_role"}
Entities == Tables \cup {"name_sorted_service"}
Items == Entities \cup {"admin"} \cup DefaultRoles

ASSUME DefaultRolesAssumption ==
  DefaultRoles # {} /\ DefaultRoles \cap (Entities \cup {"admin"}) = {}
ASSUME MaxFailuresAssumption == MaxFailures \in Nat

VARIABLES made,      \* the items made so far: tables, view, the admin's row, roles' rows
          renamed,   \* the admin was made, and no user has its email any more
          migrator,  \* each migrator: the next step, its item, the roles left to it
          app,       \* each app: whether it serves, and misc.Roles
          failures   \* failures so far

vars == <<made, renamed, migrator, app, failures>>

First == [pc |-> "check", item |-> "user", left |-> DefaultRoles]
Down == [up |-> FALSE, roles |-> {}]

Init == /\ made = {}
        /\ renamed = FALSE
        /\ migrator = [m \in Migrators |-> [First EXCEPT !.pc = "idle"]]
        /\ app = [a \in Apps |-> Down]
        /\ failures = 0

At(m, pc) == migrator[m].pc = pc
Item(m) == migrator[m].item
Goto(m, pc) == migrator' = [migrator EXCEPT ![m].pc = pc]

----------------------------------------------------------------------------
(* The items and their order.                                              *)

\* What a check finds; the admin's row is looked for by its email.
There(item) == item \in made /\ (item = "admin" => ~renamed)

\* What the statements for an item read or write.
Needs(item) == CASE item \in Tables              -> {}
                 [] item = "name_sorted_service" -> {"service"}
                 [] item = "admin"               -> {"user"}
                 [] item \in DefaultRoles        -> {"user_role"}

\* (Faulty variants: the roles before the admin; the end of everything once there is an
\* admin.)
FaultyOrder(item, left) ==
  CASE item = "user"      -> {"service"}
    [] item = "service"   -> {"version"}
    [] item = "version"   -> {"user_role"}
    [] item = "user_role" -> {"name_sorted_service"}
    [] item = "admin"     -> {}
    [] OTHER              -> IF left = {} THEN {"admin"} ELSE left
FaultyReturn(item, left) ==
  CASE item = "user"                -> {"service"}
    [] item = "service"             -> {"version"}
    [] item = "version"             -> {"user_role"}
    [] item = "user_role"           -> {"name_sorted_service"}
    [] item = "name_sorted_service" -> {"admin"}
    [] OTHER                        -> IF There(item) THEN {} ELSE left
\* What may come after an item: the range over the map of roles is in any order.
After(item, left) ==
  CASE item = "user"                -> {"service"}
    [] item = "service"             -> {"version"}
    [] item = "version"             -> {"user_role"}
    [] item = "user_role"           -> {"name_sorted_service"}
    [] item = "name_sorted_service" -> {"admin"}
    [] OTHER                        -> left

----------------------------------------------------------------------------
(* A migrator.                                                             *)

\* Somebody runs the migration: the first time, or once more.
Run(m) ==
  /\ migrator[m].pc \in {"idle", "failed", "done"}
  /\ migrator' = [migrator EXCEPT ![m] = First]
  /\ UNCHANGED <<made, renamed, app, failures>>

\* m is through with its item.
Advance(m) ==
  LET next == After(Item(m), migrator[m].left)
  IN  \/ next = {} /\ Goto(m, "done")
      \/ \E item \in next :
           migrator' = [migrator EXCEPT ![m] = [pc |-> "check", item |-> item,
                                                left |-> @.left \ {item}]]

Make(item) == /\ made' = made \cup {item}
              /\ renamed' = (renamed /\ item # "admin")

\* HasTable of AutoMigrate, or a count of the rows with the email or the name.
Check(m) ==
  /\ At(m, "check")
  /\ Item(m) # "name_sorted_service"
  /\ Needs(Item(m)) \subseteq made
  /\ IF There(Item(m)) THEN Advance(m) ELSE Goto(m, "create")
  /\ UNCHANGED <<made, renamed, app, failures>>

\* (A faulty variant without IF NOT EXISTS.)
FaultyCreateView(m) ==
  /\ At(m, "check")
  /\ Item(m) = "name_sorted_service"
  /\ IF There("name_sorted_service")
       THEN Goto(m, "failed") /\ UNCHANGED <<made, renamed>>
       ELSE Make("name_sorted_service") /\ Advance(m)
  /\ UNCHANGED <<app, failures>>
\* CREATE MATERIALIZED VIEW IF NOT EXISTS: no check is needed.
CreateView(m) ==
  /\ At(m, "check")
  /\ Item(m) = "name_sorted_service"
  /\ Needs(Item(m)) \subseteq made
  /\ Make(Item(m))
  /\ Advance(m)
  /\ UNCHANGED <<app, failures>>

\* CREATE TABLE or INSERT, refused if another migrator has made the item meanwhile: the
\* table exists, or the email or the name is unique.
Create(m) ==
  /\ At(m, "create")
  /\ Needs(Item(m)) \subseteq made
  /\ \/ ~There(Item(m)) /\ Make(Item(m)) /\ Advance(m)
     \/ There(Item(m)) /\ Goto(m, "failed") /\ UNCHANGED <<made, renamed>>
  /\ UNCHANGED <<app, failures>>

\* (A faulty variant that logs the error and goes on.)
FaultyFail(m) ==
  /\ migrator[m].pc \in {"check", "create"}
  /\ failures < MaxFailures
  /\ failures' = failures + 1
  /\ Advance(m)
  /\ UNCHANGED <<made, renamed, app>>
\* A statement fails, or takes effect and its reply is lost, or the process is killed.
Fail(m) ==
  /\ migrator[m].pc \in {"check", "create"}
  /\ failures < MaxFailures
  /\ failures' = failures + 1
  /\ \/ UNCHANGED <<made, renamed>>
     \/ /\ At(m, "create") \/ Item(m) = "name_sorted_service"
        /\ Needs(Item(m)) \subseteq made
        /\ ~There(Item(m))
        /\ Make(Item(m))
  /\ Goto(m, "failed")
  /\ UNCHANGED app

----------------------------------------------------------------------------
(* An app.                                                                 *)

\* What a SELECT of the roles finds.
Configured == made \cap DefaultRoles

\* LoadUserRoles: a start without the table, or without any role in it, fails.
Start(a) ==
  /\ ~app[a].up
  /\ "user_role" \in made
  /\ Configured # {}
  /\ app' = [app EXCEPT ![a] = [up |-> TRUE, roles |-> Configured]]
  /\ UNCHANGED <<made, renamed, migrator, failures>>

Stop(a) ==
  /\ app[a].up
  /\ app' = [app EXCEPT ![a] = Down]
  /\ UNCHANGED <<made, renamed, migrator, failures>>

\* Through the API of an app the admin is given another email or deleted, or a user is
\* given that email again.
ChangeAdmin(a) ==
  /\ app[a].up
  /\ "admin" \in made
  /\ renamed' = ~renamed
  /\ UNCHANGED <<made, migrator, app, failures>>

Work(m) == Check(m) \/ CreateView(m) \/ Create(m)

Next == \/ \E m \in Migrators : Run(m) \/ Work(m) \/ Fail(m)
        \/ \E a \in Apps : Start(a) \/ Stop(a) \/ ChangeAdmin(a)

Spec == Init /\ [][Next]_vars

\* A migrator that is started gets on, and somebody runs the migration until it has
\* succeeded: main ends it with log.Fatal when it has not.
Fairness == \A m \in Migrators : WF_vars(Work(m)) /\ WF_vars(Run(m))

FairSpec == Spec /\ Fairness

----------------------------------------------------------------------------
(* Properties.                                                             *)

\* Everything has been made: tables, view, an admin, every role.
Complete == Items \subseteq made

\* A migrator that reports success has made everything, or found it made: whatever
\* part of it others made, or an earlier run left undone.
DoneMeansComplete == \A m \in Migrators : At(m, "done") => Complete

\* An app serves only over a complete schema with an admin: the roles, which it looks
\* for, are what the migration makes last.
ServingMeansMigrated ==
  \A a \in Apps : app[a].up => Entities \cup {"admin"} \subseteq made

\* misc.Roles may be short of roles only in an app that was started before the migration
\* had succeeded: any other takes them all.
LateStartKnowsRoles ==
  [][\A a \in Apps : ~app[a].up /\ app'[a].up /\ (\E m \in Migrators : At(m, "done"))
                       => app'[a].roles = DefaultRoles]_vars

\* No failure, and no other migrator, leaves the database in a state that a later run
\* cannot complete (unless users keep taking the admin's email and giving it up).
MigrationCompletes ==
  <>Complete \/ \E a \in Apps : []<><<ChangeAdmin(a)>>_vars

=============================================================================
