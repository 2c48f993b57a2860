--------------------------- MODULE MigrationProofs ---------------------------
(***************************************************************************)
(* Theorems about Migration, for any number of migrators, apps, roles and  *)
(* failures.                                                               *)
(***************************************************************************)
EXTENDS Migration, TLAPS

----------------------------------------------------------------------------
(* The inductive invariant: a migrator has seen every item before its own, *)
(* an item once made stays, and so a role means that all the rest is there.*)

Before(item) ==
  CASE item = "user"                -> {}
    [] item = "service"             -> {"user"}
    [] item = "version"             -> {"user", "service"}
    [] item = "user_role"           -> {"user", "service", "version"}
    [] item = "name_sorted_service" -> Tables
    [] item = "admin"               -> Entities
    [] OTHER                        -> Entities \cup {"admin"}

TypeOK ==
  /\ made \subseteq Items
  /\ migrator \in [Migrators -> [pc : {"idle", "check", "create", "failed", "done"},
                                 item : Items, left : SUBSET DefaultRoles]]
  /\ app \in [Apps -> [up : BOOLEAN, roles : SUBSET DefaultRoles]]

Working(m) == migrator[m].pc \in {"check", "create"}

\* The roles m is through with, or has before it, are all but those left.
Seen(m) ==
  /\ Before(Item(m)) \subseteq made
  /\ IF Item(m) \in DefaultRoles
       THEN DefaultRoles \ (migrator[m].left \cup {Item(m)}) \subseteq made
       ELSE migrator[m].left = DefaultRoles

Progress(m) == (Working(m) => Seen(m)) /\ (At(m, "done") => Complete)

RolesLast == Configured # {} => Entities \cup {"admin"} \subseteq made

Serving(a) == app[a].up => Configured # {}

IInv == /\ TypeOK
        /\ RolesLast
        /\ \A m \in Migrators : Progress(m)
        /\ \A a \in Apps : Serving(a)

LEMMA ItemsAre ==
  ASSUME NEW item \in Items
  PROVE  item \in Entities \/ item = "admin" \/ item \in DefaultRoles
BY DEF Items

LEMMA BeforeRole == ASSUME NEW r \in DefaultRoles PROVE Before(r) = Entities \cup {"admin"}
BY DefaultRolesAssumption DEF Before, Entities, Tables

\* A migrator that has its item made has seen what comes before the next.
LEMMA AdvanceKeeps ==
  ASSUME TypeOK, NEW m \in Migrators, Working(m), Seen(m), Advance(m),
         made \subseteq made', Item(m) \in made'
  PROVE  /\ Progress(m)'
         /\ migrator' \in [Migrators -> [pc : {"idle", "check", "create", "failed", "done"},
                                         item : Items, left : SUBSET DefaultRoles]]
         /\ \A k \in Migrators \ {m} : migrator'[k] = migrator[k]
<1> DEFINE left == migrator[m].left
           next == After(Item(m), left)
<1>1. Item(m) \in Items /\ left \in SUBSET DefaultRoles
  BY DEF TypeOK, Item
<1>2. CASE Item(m) \in DefaultRoles
  <2>1. next = left
    BY <1>2, DefaultRolesAssumption DEF After, Entities, Tables
  <2>2. Entities \cup {"admin"} \subseteq made' /\ DefaultRoles \ left \subseteq made'
    BY <1>2, BeforeRole DEF Seen
  <2>3. CASE left = {} /\ Goto(m, "done")
    <3>1. Complete'
      BY <2>2, <2>3 DEF Complete, Items
    <3>2. migrator'[m].pc = "done"
      BY <2>3 DEF Goto, TypeOK
    <3> QED
      BY <2>3, <3>1, <3>2 DEF Progress, Working, At, Goto, TypeOK
  <2>4. ASSUME NEW item \in left,
               migrator' = [migrator EXCEPT ![m] = [pc |-> "check", item |-> item,
                                                    left |-> @.left \ {item}]]
        PROVE  Progress(m)'
    <3>1. migrator'[m] = [pc |-> "check", item |-> item, left |-> left \ {item}]
      BY <2>4 DEF TypeOK
    <3>2. item \in DefaultRoles /\ Before(item) \subseteq made'
      BY <1>1, <2>2, BeforeRole
    <3>3. DefaultRoles \ ((left \ {item}) \cup {item}) \subseteq made'
      BY <2>2
    <3> QED
      BY <3>1, <3>2, <3>3 DEF Progress, Seen, Working, At, Item
  <2> QED
    BY <1>1, <2>1, <2>3, <2>4 DEF Advance, Goto, TypeOK, Items
<1>3. CASE Item(m) \notin DefaultRoles
  <2>1. left = DefaultRoles /\ Before(Item(m)) \cup {Item(m)} \subseteq made'
    BY <1>3 DEF Seen
  <2>2. next # {} /\ next \subseteq Items
        /\ \A item \in next : Before(item) \subseteq made'
    <3>1. CASE Item(m) = "admin"
      <4>1. next = DefaultRoles
        BY <2>1, <3>1 DEF After
      <4>2. Entities \cup {"admin"} \subseteq made'
        BY <2>1, <3>1 DEF Before
      <4> QED
        BY <4>1, <4>2, BeforeRole, DefaultRolesAssumption DEF Items
    <3>2. CASE Item(m) \in Entities
      BY <2>1, <3>2 DEF After, Before, Entities, Tables, Items
    <3> QED
      BY <1>1, <1>3, <3>1, <3>2, ItemsAre
  <2>3. PICK item \in next :
          migrator' = [migrator EXCEPT ![m] = [pc |-> "check", item |-> item,
                                               left |-> @.left \ {item}]]
    BY <2>2 DEF Advance
  <2>4. migrator'[m] = [pc |-> "check", item |-> item, left |-> left \ {item}]
    BY <2>3 DEF TypeOK
  <2>5. item \notin DefaultRoles => left \ {item} = DefaultRoles
    BY <2>1
  <2>6. DefaultRoles \ ((left \ {item}) \cup {item}) = {}
    BY <2>1
  <2> HIDE DEF left, next
  <2>7. Before(item) \subseteq made'
    BY <2>2
  <2>8. Progress(m)'
    BY <2>4, <2>5, <2>6, <2>7 DEF Progress, Seen, Working, At, Item
  <2> QED
    BY <1>1, <2>2, <2>3, <2>8 DEF TypeOK
<1> QED
  BY <1>2, <1>3

\* Items are only added, and a role only after all the rest: others keep what they have.
LEMMA OthersKeep ==
  ASSUME IInv, TypeOK', NEW m \in Migrators, Progress(m)', made \subseteq made',
         \A k \in Migrators \ {m} : migrator'[k] = migrator[k], UNCHANGED app,
         \A r \in DefaultRoles : r \in made' \ made => Entities \cup {"admin"} \subseteq made
  PROVE  IInv'
<1>1. RolesLast'
  BY DEF IInv, RolesLast, Configured
<1>2. \A a \in Apps : Serving(a)'
  BY DEF IInv, Serving, Configured
<1>3. ASSUME NEW k \in Migrators \ {m} PROVE Progress(k)'
  BY <1>3 DEF IInv, Progress, Seen, Working, At, Item, Complete
<1> QED
  BY <1>1, <1>2, <1>3 DEF IInv

LEMMA InitIInv == Init => IInv
<1> SUFFICES ASSUME Init PROVE IInv
  OBVIOUS
<1>1. TypeOK
  BY DEF Init, TypeOK, First, Down, Items, Entities, Tables
<1> QED
  BY <1>1 DEF Init, IInv, RolesLast, Configured, Progress, Working, At, Serving, First, Down

LEMMA RunKeeps == ASSUME IInv, NEW m \in Migrators, Run(m) PROVE IInv'
<1>1. migrator'[m] = First /\ \A k \in Migrators \ {m} : migrator'[k] = migrator[k]
  BY DEF Run, IInv, TypeOK
<1>2. First \in [pc : {"idle", "check", "create", "failed", "done"},
                 item : Items, left : SUBSET DefaultRoles]
  BY DEF First, Items, Entities, Tables
<1>3. TypeOK'
  BY <1>2 DEF Run, IInv, TypeOK
<1>4. Progress(m)'
  BY <1>1, DefaultRolesAssumption
     DEF First, Progress, Seen, Working, At, Item, Before, Entities, Tables
<1> QED
  BY <1>1, <1>3, <1>4, OthersKeep DEF Run

\* m makes its item, or finds it made, and goes on, or ends.
LEMMA MakeKeeps ==
  ASSUME IInv, NEW m \in Migrators, Working(m), UNCHANGED app,
         made' = made \/ made' = made \cup {Item(m)},
         \/ Advance(m) /\ Item(m) \in made'
         \/ Goto(m, "create")
         \/ Goto(m, "failed")
  PROVE  IInv'
<1>1. TypeOK /\ Seen(m) /\ Item(m) \in Items
  BY DEF IInv, Progress, TypeOK, Item
<1>2. made \subseteq made' /\ made' \subseteq Items
  BY <1>1 DEF TypeOK
<1>3. \A r \in DefaultRoles : r \in made' \ made => Entities \cup {"admin"} \subseteq made
  BY <1>1, BeforeRole DEF Seen
<1>4. CASE Advance(m) /\ Item(m) \in made'
  <2>1. /\ Progress(m)'
        /\ migrator' \in [Migrators -> [pc : {"idle", "check", "create", "failed", "done"},
                                        item : Items, left : SUBSET DefaultRoles]]
        /\ \A k \in Migrators \ {m} : migrator'[k] = migrator[k]
    BY <1>1, <1>2, <1>4, AdvanceKeeps
  <2>2. TypeOK'
    BY <1>1, <1>2, <2>1 DEF TypeOK
  <2> QED
    BY <1>2, <1>3, <2>1, <2>2, OthersKeep
<1>5. ASSUME NEW pc \in {"create", "failed"}, Goto(m, pc) PROVE IInv'
  <2>1. /\ migrator'[m] = [migrator[m] EXCEPT !.pc = pc]
        /\ \A k \in Migrators \ {m} : migrator'[k] = migrator[k]
    BY <1>1, <1>5 DEF Goto, TypeOK
  <2>2. /\ migrator'[m].pc = pc /\ Item(m)' = Item(m)
        /\ migrator'[m].left = migrator[m].left
    BY <1>1, <2>1 DEF Item, TypeOK
  <2>3. Progress(m)'
    BY <1>1, <1>2, <1>5, <2>2 DEF Progress, Seen, Working, At
  <2>4. TypeOK'
    BY <1>1, <1>2, <1>5, <2>1 DEF Goto, TypeOK
  <2> QED
    BY <1>2, <1>3, <2>1, <2>3, <2>4, OthersKeep
<1> QED
  BY <1>4, <1>5

LEMMA MigratorKeeps == ASSUME IInv, NEW m \in Migrators, Work(m) \/ Fail(m) PROVE IInv'
<1>1. CASE Check(m)
  BY <1>1, MakeKeeps DEF Check, There, Working, At
<1>2. CASE CreateView(m)
  BY <1>2, MakeKeeps DEF CreateView, Make, Working, At
<1>3. CASE Create(m)
  BY <1>3, MakeKeeps DEF Create, Make, Working, At
<1>4. CASE Fail(m)
  BY <1>4, MakeKeeps DEF Fail, Make, Working
<1> QED
  BY <1>1, <1>2, <1>3, <1>4 DEF Work

LEMMA AppKeeps ==
  ASSUME IInv, NEW a \in Apps, Start(a) \/ Stop(a) \/ ChangeAdmin(a) PROVE IInv'
<1>1. UNCHANGED <<made, migrator>>
  BY DEF Start, Stop, ChangeAdmin
<1>2. Configured \in SUBSET DefaultRoles
  BY DEF Configured
<1>3. app' \in [Apps -> [up : BOOLEAN, roles : SUBSET DefaultRoles]]
  <2>1. app \in [Apps -> [up : BOOLEAN, roles : SUBSET DefaultRoles]]
    BY DEF IInv, TypeOK
  <2>2. Down \in [up : BOOLEAN, roles : SUBSET DefaultRoles]
    BY DEF Down
  <2>3. [up |-> TRUE, roles |-> Configured] \in [up : BOOLEAN, roles : SUBSET DefaultRoles]
    BY <1>2
  <2> QED
    BY <2>1, <2>2, <2>3 DEF Start, Stop, ChangeAdmin
<1>4. \A b \in Apps : Serving(b)'
  BY <1>1 DEF IInv, TypeOK, Serving, Configured, Start, Stop, ChangeAdmin, Down
<1>5. TypeOK' /\ RolesLast'
  BY <1>1, <1>3 DEF IInv, TypeOK, RolesLast, Configured
<1>6. \A m \in Migrators : Progress(m)'
  BY <1>1 DEF IInv, Progress, Seen, Working, At, Item, Complete
<1> QED
  BY <1>4, <1>5, <1>6 DEF IInv

LEMMA NextIInv == IInv /\ [Next]_vars => IInv'
<1> SUFFICES ASSUME IInv, [Next]_vars PROVE IInv'
  OBVIOUS
<1>1. CASE UNCHANGED vars
  BY <1>1 DEF vars, IInv, TypeOK, RolesLast, Configured, Progress, Seen, Working, At, Item,
              Complete, Serving
<1> QED
  BY <1>1, RunKeeps, MigratorKeeps, AppKeeps DEF Next

LEMMA Invariance == Spec => []IInv
BY InitIInv, NextIInv, PTL DEF Spec

----------------------------------------------------------------------------

\* A migrator that reports success leaves nothing unmade, whatever failed before it or
\* runs beside it.
THEOREM DoneIsComplete == Spec => []DoneMeansComplete
<1>1. IInv => DoneMeansComplete
  BY DEF IInv, Progress, DoneMeansComplete
<1> QED
  BY <1>1, Invariance, PTL

\* To find a role is to find the schema complete and an admin made: the check of
\* LoadUserRoles is enough for an app to start on.
THEOREM ServingIsMigrated == Spec => []ServingMeansMigrated
<1>1. IInv => ServingMeansMigrated
  BY DEF IInv, RolesLast, Serving, ServingMeansMigrated
<1> QED
  BY <1>1, Invariance, PTL

\* An app started once the migration has succeeded has every role in memory.
THEOREM LateStartsKnowRoles == Spec => LateStartKnowsRoles
<1> DEFINE Known == \A a \in Apps : ~app[a].up /\ app'[a].up
                                      /\ (\E m \in Migrators : At(m, "done"))
                                         => app'[a].roles = DefaultRoles
<1>1. IInv /\ [Next]_vars => Known
  <2> SUFFICES ASSUME IInv, [Next]_vars, NEW a \in Apps, ~app[a].up, app'[a].up,
                      NEW m \in Migrators, At(m, "done")
               PROVE  app'[a].roles = DefaultRoles
    OBVIOUS
  <2>1. app' # app
    OBVIOUS
  <2>2. PICK b \in Apps : Start(b) \/ Stop(b)
    BY <2>1 DEF Next, vars, Run, Work, Check, CreateView, Create, Fail, ChangeAdmin
  <2>3. app \in [Apps -> [up : BOOLEAN, roles : SUBSET DefaultRoles]]
    BY DEF IInv, TypeOK
  <2>4. Start(a)
    BY <2>2, <2>3 DEF Start, Stop, Down
  <2>5. app'[a].roles = Configured
    BY <2>3, <2>4 DEF Start
  <2>6. Complete
    BY DEF IInv, Progress
  <2> QED
    BY <2>5, <2>6 DEF Complete, Items, Configured
<1> QED
  BY <1>1, Invariance, PTL DEF Spec, LateStartKnowsRoles
=============================================================================
