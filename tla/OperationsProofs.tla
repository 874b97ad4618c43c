-------------------------- MODULE OperationsProofs --------------------------
(***************************************************************************)
(* Proofs about the two components operators drive by hand.                *)
(*                                                                         *)
(* ColdMigration, for any set of artifacts, operators and copies that go   *)
(* bad: types and the last good copy whatever crosses whatever, and, when  *)
(* no switch of the route crosses a release or a materialization, that the *)
(* paths of all active heads resolve.                                      *)
(*                                                                         *)
(* ProcessManager, for every number of processes and failures and every    *)
(* selection of faults: the manager starts a recorder beside nobody it     *)
(* could have seen, unless a scan fails, and not after a stop.             *)
(***************************************************************************)
EXTENDS ColdMigration, ProcessManager, TLAPS

(***************************************************************************)
(* Which commands run after a step of one operator.                        *)
(***************************************************************************)

(* A command that begins is the only new one, on a plan of the catalog.    *)
LEMMA BeginsKeepsTypes ==
    ASSUME MigrationTypeOK, NEW o \in Operators, NEW op \in Commands, NEW p,
           NEW todo \in SUBSET p, Begins(o, op, p, todo),
           UNCHANGED <<catalog, heads, hot, cold, route, plans, writing, decays>>
    PROVE  /\ MigrationTypeOK'
           /\ p = catalog
           /\ \A x \in Operators : cmd'[x].op = IF x = o THEN op ELSE cmd[x].op
<1>1. p = catalog /\ cmd' = [cmd EXCEPT ![o] = [op |-> op, plan |-> p, todo |-> todo]]
  BY DEF Begins, Current
<1>2. cmd' \in [Operators -> [op   : Commands \union {"idle"},
                              plan : SUBSET catalog,
                              todo : SUBSET catalog]]
  BY <1>1 DEF MigrationTypeOK
<1>3. \A x \in Operators : cmd'[x].todo \subseteq cmd'[x].plan
  BY <1>1 DEF MigrationTypeOK
<1>4. \A x \in Operators : cmd'[x].op = IF x = o THEN op ELSE cmd[x].op
  BY <1>1 DEF MigrationTypeOK
<1> QED
  BY <1>1, <1>2, <1>3, <1>4 DEF MigrationTypeOK

(* One file handled: the same commands run. *)
LEMMA HandledKeepsTypes ==
    ASSUME MigrationTypeOK, NEW o \in Operators, NEW f, Handled(o, f)
    PROVE  /\ cmd' \in [Operators -> [op   : Commands \union {"idle"},
                                      plan : SUBSET catalog,
                                      todo : SUBSET catalog]]
           /\ \A x \in Operators : cmd'[x].todo \subseteq cmd'[x].plan
           /\ \A x \in Operators : cmd'[x].op = cmd[x].op
<1>1. cmd' = [cmd EXCEPT ![o].todo = cmd[o].todo \ {f}]
  BY DEF Handled
<1>2. \A x \in Operators :
          cmd'[x] = IF x = o THEN [cmd[o] EXCEPT !.todo = cmd[o].todo \ {f}]
                    ELSE cmd[x]
  BY <1>1 DEF MigrationTypeOK
<1>3. \A x \in Operators :
          /\ cmd'[x].op = cmd[x].op
          /\ cmd'[x].plan = cmd[x].plan
          /\ cmd'[x].todo \subseteq cmd[x].todo
          /\ cmd'[x] \in [op   : Commands \union {"idle"},
                          plan : SUBSET catalog,
                          todo : SUBSET catalog]
  BY <1>2 DEF MigrationTypeOK
<1>4. cmd' = [x \in Operators |-> cmd'[x]]
  BY <1>1 DEF MigrationTypeOK
<1> QED
  BY <1>3, <1>4 DEF MigrationTypeOK

(* An operator whose command ends runs none. *)
LEMMA EndsKeepsTypes ==
    ASSUME MigrationTypeOK, NEW o \in Operators, Ends(o)
    PROVE  /\ cmd' \in [Operators -> [op   : Commands \union {"idle"},
                                      plan : SUBSET catalog,
                                      todo : SUBSET catalog]]
           /\ \A x \in Operators : cmd'[x].todo \subseteq cmd'[x].plan
           /\ \A x \in Operators : cmd'[x].op = IF x = o THEN "idle" ELSE cmd[x].op
BY DEF Ends, Idle, MigrationTypeOK

(***************************************************************************)
(* Types.                                                                  *)
(***************************************************************************)

(* Every command of an operator keeps the types. *)
LEMMA CommandKeepsTypes ==
    ASSUME MigrationTypeOK, NEW o \in Operators, Command(o)
    PROVE  MigrationTypeOK'
<1>1. ASSUME NEW p \in plans,
             \/ BeginCopy(o, p) \/ BeginActivate(o, p) \/ BeginRelease(o, p)
             \/ \E lenient \in BOOLEAN : BeginRollback(o, p, lenient)
             \/ \E op \in Commands : BeginRestore(o, op, p)
      PROVE  MigrationTypeOK'
  <2>1. PICK op \in Commands, todo \in SUBSET p :
            /\ Begins(o, op, p, todo)
            /\ UNCHANGED <<catalog, heads, hot, cold, route, plans, writing, decays>>
    BY <1>1 DEF BeginCopy, BeginActivate, BeginRelease, BeginRollback,
                BeginRestore, Commands
  <2> QED
    BY <2>1, BeginsKeepsTypes
<1>2. CASE Activate(o) \/ Rollback(o) \/ Leave(o)
  <2>1. /\ Ends(o)
        /\ route' \in {"planned", "active"}
        /\ UNCHANGED <<catalog, heads, hot, cold, plans, writing, decays>>
    BY <1>2 DEF Activate, Rollback, SwitchRoute, Leave, MigrationTypeOK
  <2> QED
    BY <2>1, EndsKeepsTypes DEF MigrationTypeOK
<1>3. ASSUME NEW f \in All,
             \/ CopyItem(o, f) \/ ReleaseItem(o, f)
             \/ RestoreItem(o, f) \/ RebuildItem(o, f)
      PROVE  MigrationTypeOK'
  <2>1. Handled(o, f) /\ f \in catalog
    BY <1>3 DEF CopyItem, ReleaseItem, RestoreItem, RebuildItem, Runs, MigrationTypeOK
  <2>2. hot' \subseteq catalog
    BY <1>3, <2>1 DEF CopyItem, ReleaseItem, RestoreItem, RebuildItem, MigrationTypeOK
  <2>3. cold' \in [All -> {"none", "good", "bad"}]
    BY <1>3 DEF CopyItem, ReleaseItem, RestoreItem, RebuildItem, MigrationTypeOK
  <2>4. UNCHANGED <<catalog, heads, route, plans, writing, decays>>
    BY <1>3 DEF CopyItem, ReleaseItem, RestoreItem, RebuildItem
  <2> QED
    BY <2>1, <2>2, <2>3, <2>4, HandledKeepsTypes DEF MigrationTypeOK
<1> QED
  BY <1>1, <1>2, <1>3 DEF Command

(* A registered output joins the catalog, and only then a head. *)
LEMMA RegisterKeepsTypes ==
    ASSUME MigrationTypeOK, NEW f \in Fresh, NEW before \in SUBSET heads, Register(f, before)
    PROVE  MigrationTypeOK'
<1>1. catalog \subseteq catalog' /\ f \in catalog' /\ catalog' \subseteq All
  BY DEF Register, MigrationTypeOK, All
<1>2. heads' \subseteq catalog' \cap Outputs
  BY DEF Register, MigrationTypeOK, Outputs
<1>3. hot' \subseteq catalog'
  BY <1>1 DEF Register, MigrationTypeOK
<1>4. cold' \in [All -> {"none", "good", "bad"}]
  BY DEF Register, MigrationTypeOK
<1>5. plans' \subseteq SUBSET catalog'
  BY <1>1 DEF Register, MigrationTypeOK
<1>6. /\ cmd' \in [Operators -> [op   : Commands \union {"idle"},
                                 plan : SUBSET catalog',
                                 todo : SUBSET catalog']]
      /\ \A o \in Operators : cmd'[o].todo \subseteq cmd'[o].plan
  BY <1>1 DEF Register, MigrationTypeOK
<1> QED
  BY <1>1, <1>2, <1>3, <1>4, <1>5, <1>6 DEF Register, MigrationTypeOK

(* Every step keeps the types. *)
LEMMA NextKeepsTypes ==
    ASSUME MigrationTypeOK, [MigrationNext]_migrationVars
    PROVE  MigrationTypeOK'
<1>1. CASE CreatePlan
  BY <1>1 DEF CreatePlan, MigrationTypeOK
<1>2. ASSUME NEW o \in Operators, Command(o)
      PROVE  MigrationTypeOK'
  BY <1>2, CommandKeepsTypes
<1>3. CASE BeginWriting \/ WritingFails
  BY <1>3 DEF BeginWriting, WritingFails, MigrationTypeOK
<1>4. ASSUME NEW f \in Fresh, NEW before \in SUBSET heads, Register(f, before)
      PROVE  MigrationTypeOK'
  BY <1>4, RegisterKeepsTypes
<1>5. ASSUME NEW f \in All, Supersede(f)
      PROVE  MigrationTypeOK'
  BY <1>5 DEF Supersede, MigrationTypeOK
<1>6. ASSUME NEW f \in All, Decay(f)
      PROVE  MigrationTypeOK'
  <2>1. decays' \in 0 .. MaxDecays
    BY <1>6, DecaysAssumption DEF Decay, MigrationTypeOK
  <2> QED
    BY <1>6, <2>1 DEF Decay, MigrationTypeOK
<1>7. CASE UNCHANGED migrationVars
  BY <1>7 DEF migrationVars, MigrationTypeOK
<1> QED
  BY <1>1, <1>2, <1>3, <1>4, <1>5, <1>6, <1>7 DEF MigrationNext

(* Types of every variable, whatever crosses whatever: a head refers to    *)
(* registered outputs, a command handles files of its plan.                *)
THEOREM ColdTyped == MigrationSpec => []MigrationTypeOK
<1>1. MigrationInit => MigrationTypeOK
  BY FilesAssumption, DecaysAssumption DEF MigrationInit, MigrationTypeOK, Idle, All, Outputs
<1>2. MigrationTypeOK /\ [MigrationNext]_migrationVars => MigrationTypeOK'
  BY NextKeepsTypes
<1> QED
  BY <1>1, <1>2, PTL DEF MigrationSpec

(***************************************************************************)
(* The last good copy.                                                     *)
(***************************************************************************)

(* A step that is no decay takes no last good copy away. *)
LEMMA NextKeepsCopies ==
    ASSUME MigrationTypeOK, [MigrationNext]_migrationVars, decays' = decays, NEW f \in catalog, HasCopy(f)
    PROVE  HasCopy(f)'
<1>1. f \in All
  BY DEF MigrationTypeOK
<1>2. ASSUME NEW o \in Operators, Command(o)
      PROVE  HasCopy(f)'
  <2>1. ASSUME NEW g \in All, ReleaseItem(o, g)
        PROVE  HasCopy(f)'
    <3>1. CASE f = g
      BY <2>1, <3>1 DEF ReleaseItem, ColdHolds, HasCopy
    <3>2. CASE f # g
      BY <2>1, <3>2 DEF ReleaseItem, HasCopy
    <3> QED
      BY <3>1, <3>2
  <2>2. ASSUME NEW g \in All, CopyItem(o, g)
        PROVE  HasCopy(f)'
    BY <1>1, <2>2 DEF CopyItem, HasCopy, MigrationTypeOK
  <2>3. ASSUME NEW g \in All, RestoreItem(o, g) \/ RebuildItem(o, g)
        PROVE  HasCopy(f)'
    BY <2>3 DEF RestoreItem, RebuildItem, HasCopy
  <2>4. CASE Activate(o) \/ Rollback(o) \/ Leave(o)
    BY <2>4 DEF Activate, Rollback, SwitchRoute, Leave, HasCopy
  <2>5. ASSUME NEW p \in plans,
               \/ BeginCopy(o, p) \/ BeginActivate(o, p) \/ BeginRelease(o, p)
               \/ \E lenient \in BOOLEAN : BeginRollback(o, p, lenient)
               \/ \E op \in Commands : BeginRestore(o, op, p)
        PROVE  HasCopy(f)'
    BY <2>5 DEF BeginCopy, BeginActivate, BeginRelease, BeginRollback,
                BeginRestore, HasCopy
  <2> QED
    BY <1>2, <2>1, <2>2, <2>3, <2>4, <2>5 DEF Command
<1>3. ASSUME NEW g \in Fresh, NEW before \in SUBSET heads, Register(g, before)
      PROVE  HasCopy(f)'
  BY <1>1, <1>3 DEF Register, HasCopy, MigrationTypeOK
<1>4. CASE CreatePlan \/ BeginWriting \/ WritingFails
  BY <1>4 DEF CreatePlan, BeginWriting, WritingFails, HasCopy
<1>5. ASSUME NEW g \in All, Supersede(g)
      PROVE  HasCopy(f)'
  BY <1>5 DEF Supersede, HasCopy
<1>6. ASSUME NEW g \in All, Decay(g)
      PROVE  FALSE
  BY <1>6, DecaysAssumption DEF Decay, MigrationTypeOK
<1>7. CASE UNCHANGED migrationVars
  BY <1>7 DEF migrationVars, HasCopy
<1> QED
  BY <1>2, <1>3, <1>4, <1>5, <1>6, <1>7 DEF MigrationNext

(* No command takes away the last good copy of an artifact, with switches  *)
(* crossing releases and materializations as they like.                    *)
THEOREM ColdCopyStays == MigrationSpec => LastCopyStays
<1>1. MigrationTypeOK /\ [MigrationNext]_migrationVars
        => [decays' = decays =>
                \A f \in catalog : HasCopy(f) => HasCopy(f)']_migrationVars
  BY NextKeepsCopies
<1> QED
  BY <1>1, ColdTyped, PTL DEF MigrationSpec, LastCopyStays

(***************************************************************************)
(* The paths of active heads.                                              *)
(***************************************************************************)

(* A command that begins: what a switch verified holds as it begins, and   *)
(* what must not run beside it does not.                                   *)
LEMMA BeginKeepsInvariant ==
    ASSUME Crossing = FALSE, MigrationInvariant, NEW o \in Operators,
           NEW p \in plans,
           \/ BeginCopy(o, p) \/ BeginActivate(o, p) \/ BeginRelease(o, p)
           \/ \E lenient \in BOOLEAN : BeginRollback(o, p, lenient)
           \/ \E op \in Commands : BeginRestore(o, op, p)
    PROVE  MigrationInvariant'
<1>1. UNCHANGED <<catalog, heads, hot, cold, route, plans, writing, decays>>
  BY DEF BeginCopy, BeginActivate, BeginRelease, BeginRollback, BeginRestore
<1>2. MigrationTypeOK'
  BY NextKeepsTypes DEF MigrationInvariant, MigrationNext, Command
<1>3. HeadsResolve'
  BY <1>1 DEF MigrationInvariant, HeadsResolve
<1>4. ASSUME NEW op \in Commands, NEW todo \in SUBSET p, Begins(o, op, p, todo)
      PROVE  /\ p = catalog
             /\ \A x \in Operators :
                    cmd'[x].op = IF x = o THEN op ELSE cmd[x].op
  BY <1>1, <1>4, BeginsKeepsTypes DEF MigrationInvariant
<1>5. CASE BeginActivate(o, p)
  <2>1. /\ p = catalog
        /\ \A x \in Operators :
               cmd'[x].op = IF x = o THEN "activate" ELSE cmd[x].op
    BY <1>4, <1>5 DEF BeginActivate, Commands
  <2>2. \A f \in heads : cold[f] # "none"
    BY <1>5, <2>1 DEF BeginActivate, VerifiedBoth, MigrationInvariant, MigrationTypeOK
  <2>3. writing = "nowhere" /\ ~Running({"release"})
    BY <1>5 DEF BeginActivate, MaySwitch
  <2>4. SwitchIsAlone'
    BY <1>1, <2>1, <2>2, <2>3 DEF MigrationInvariant, SwitchIsAlone, Running
  <2>5. WorksOnRoute'
    BY <1>1, <2>1 DEF MigrationInvariant, WorksOnRoute, Running
  <2> QED
    BY <1>2, <1>3, <2>4, <2>5 DEF MigrationInvariant
<1>6. ASSUME NEW lenient \in BOOLEAN, BeginRollback(o, p, lenient)
      PROVE  MigrationInvariant'
  <2>1. /\ p = catalog
        /\ \A x \in Operators :
               cmd'[x].op = IF x = o THEN "rollback" ELSE cmd[x].op
    BY <1>4, <1>6 DEF BeginRollback, Commands
  <2>2. heads \subseteq hot
    BY <1>6, <2>1 DEF BeginRollback, MayGoBack, MigrationInvariant, MigrationTypeOK
  <2>3. writing = "nowhere" /\ ~Running({"release"})
    BY <1>6 DEF BeginRollback, MaySwitch
  <2>4. SwitchIsAlone'
    BY <1>1, <2>1, <2>2, <2>3 DEF MigrationInvariant, SwitchIsAlone, Running
  <2>5. WorksOnRoute'
    BY <1>1, <2>1 DEF MigrationInvariant, WorksOnRoute, Running
  <2> QED
    BY <1>2, <1>3, <2>4, <2>5 DEF MigrationInvariant
<1>7. CASE BeginRelease(o, p)
  <2>1. \A x \in Operators :
            cmd'[x].op = IF x = o THEN "release" ELSE cmd[x].op
    BY <1>4, <1>7 DEF BeginRelease, Commands
  <2>2. ~Running({"activate", "rollback"}) /\ route = "active"
    BY <1>7 DEF BeginRelease, MayUseRoute, MayRelease
  <2>3. SwitchIsAlone'
    BY <2>1, <2>2 DEF SwitchIsAlone, Running
  <2>4. WorksOnRoute'
    BY <1>1, <2>1, <2>2 DEF MigrationInvariant, WorksOnRoute, Running
  <2> QED
    BY <1>2, <1>3, <2>3, <2>4 DEF MigrationInvariant
<1>8. ASSUME NEW op \in {"copy", "restore", "rebuild"},
             NEW todo \in SUBSET p, Begins(o, op, p, todo)
      PROVE  MigrationInvariant'
  <2>1. \A x \in Operators : cmd'[x].op = IF x = o THEN op ELSE cmd[x].op
    BY <1>4, <1>8 DEF Commands
  <2>2. SwitchIsAlone'
    BY <1>1, <2>1 DEF MigrationInvariant, SwitchIsAlone, Running
  <2>3. WorksOnRoute'
    BY <1>1, <2>1 DEF MigrationInvariant, WorksOnRoute, Running
  <2> QED
    BY <1>2, <1>3, <2>2, <2>3 DEF MigrationInvariant
<1> QED
  BY <1>5, <1>6, <1>7, <1>8 DEF BeginCopy, BeginRestore, Commands

(* The route is switched: what was verified when the command began holds,  *)
(* and neither a release nor a materialization is under way.               *)
LEMMA EndKeepsInvariant ==
    ASSUME MigrationInvariant, NEW o \in Operators,
           Activate(o) \/ Rollback(o) \/ Leave(o)
    PROVE  MigrationInvariant'
<1>1. MigrationTypeOK'
  BY NextKeepsTypes DEF MigrationInvariant, MigrationNext, Command
<1>2. /\ Ends(o)
      /\ UNCHANGED <<catalog, heads, hot, cold, plans, writing, decays>>
  BY DEF Activate, Rollback, SwitchRoute, Leave
<1>3. \A x \in Operators : cmd'[x].op = IF x = o THEN "idle" ELSE cmd[x].op
  BY <1>2, EndsKeepsTypes DEF MigrationInvariant
<1>4. SwitchIsAlone'
  BY <1>2, <1>3 DEF MigrationInvariant, SwitchIsAlone, Running
<1>5. CASE Activate(o)
  <2>1. /\ Running({"activate"}) /\ Running({"activate", "rollback"})
        /\ route' = "active"
    BY <1>5 DEF Activate, SwitchRoute, Running
  <2>2. HeadsResolve'
    BY <1>2, <2>1 DEF MigrationInvariant, SwitchIsAlone, HeadsResolve
  <2>3. WorksOnRoute'
    BY <1>2, <2>1 DEF MigrationInvariant, SwitchIsAlone, WorksOnRoute
  <2> QED
    BY <1>1, <1>4, <2>2, <2>3 DEF MigrationInvariant
<1>6. CASE Rollback(o)
  <2>1. /\ Running({"rollback"}) /\ Running({"activate", "rollback"})
        /\ route' = "planned"
    BY <1>6 DEF Rollback, SwitchRoute, Running
  <2>2. HeadsResolve'
    BY <1>2, <2>1 DEF MigrationInvariant, SwitchIsAlone, HeadsResolve
  <2>3. WorksOnRoute'
    BY <1>2, <1>3, <2>1
       DEF MigrationInvariant, SwitchIsAlone, WorksOnRoute, Running
  <2> QED
    BY <1>1, <1>4, <2>2, <2>3 DEF MigrationInvariant
<1>7. CASE Leave(o)
  <2>1. UNCHANGED route
    BY <1>7 DEF Leave
  <2> QED
    BY <1>1, <1>2, <1>3, <1>4, <2>1
       DEF MigrationInvariant, HeadsResolve, WorksOnRoute, Running
<1> QED
  BY <1>5, <1>6, <1>7

(* One file of a command: only a release takes hot copies away, and it     *)
(* runs on an active route beside no switch.                               *)
LEMMA ItemKeepsInvariant ==
    ASSUME MigrationInvariant, NEW o \in Operators, NEW f \in All,
           \/ CopyItem(o, f) \/ ReleaseItem(o, f)
           \/ RestoreItem(o, f) \/ RebuildItem(o, f)
    PROVE  MigrationInvariant'
<1>1. MigrationTypeOK'
  BY NextKeepsTypes DEF MigrationInvariant, MigrationNext, Command
<1>2. /\ Handled(o, f)
      /\ UNCHANGED <<catalog, heads, route, plans, writing, decays>>
  BY DEF CopyItem, ReleaseItem, RestoreItem, RebuildItem
<1>3. \A ops : Running(ops)' <=> Running(ops)
  BY <1>2, HandledKeepsTypes DEF MigrationInvariant, Running
<1>4. WorksOnRoute'
  BY <1>2, <1>3 DEF MigrationInvariant, WorksOnRoute
<1>5. \A g \in heads : cold[g] # "none" => cold'[g] # "none"
  BY DEF CopyItem, ReleaseItem, RestoreItem, RebuildItem, MigrationInvariant,
         MigrationTypeOK
<1>6. CASE ReleaseItem(o, f)
  <2>1. Running({"release"})
    BY <1>6 DEF ReleaseItem, Runs, Running
  <2>2. ~Running({"activate", "rollback"}) /\ route = "active"
    BY <2>1 DEF MigrationInvariant, SwitchIsAlone, WorksOnRoute
  <2>3. HeadsResolve'
    BY <1>2, <1>5, <2>2 DEF MigrationInvariant, HeadsResolve
  <2>4. SwitchIsAlone'
    BY <1>2, <1>3, <2>2 DEF SwitchIsAlone, Running
  <2> QED
    BY <1>1, <1>4, <2>3, <2>4 DEF MigrationInvariant
<1>7. CASE ~ReleaseItem(o, f)
  <2>1. hot \subseteq hot'
    BY <1>7 DEF CopyItem, RestoreItem, RebuildItem
  <2>2. HeadsResolve'
    BY <1>2, <1>5, <2>1 DEF MigrationInvariant, HeadsResolve
  <2>3. SwitchIsAlone'
    BY <1>2, <1>3, <1>5, <2>1 DEF MigrationInvariant, SwitchIsAlone
  <2> QED
    BY <1>1, <1>4, <2>2, <2>3 DEF MigrationInvariant
<1> QED
  BY <1>6, <1>7

(* An output is registered where the route shows, beside no switch. *)
LEMMA RegisterKeepsInvariant ==
    ASSUME MigrationInvariant, NEW f \in Fresh, NEW before \in SUBSET heads,
           Register(f, before)
    PROVE  MigrationInvariant'
<1>1. MigrationTypeOK'
  BY RegisterKeepsTypes DEF MigrationInvariant
<1>2. /\ writing = route
      /\ ~Running({"activate", "rollback"})
      /\ f \in All
  BY DEF Register, MigrationInvariant, SwitchIsAlone, WorksOnRoute, All
<1>3. HeadsResolve'
  <2>1. CASE route = "active"
    BY <1>2, <2>1 DEF Register, MigrationInvariant, HeadsResolve, MigrationTypeOK
  <2>2. CASE route = "planned"
    BY <1>2, <2>2 DEF Register, MigrationInvariant, HeadsResolve
  <2> QED
    BY <2>1, <2>2 DEF MigrationInvariant, MigrationTypeOK
<1>4. \A ops : Running(ops)' <=> Running(ops)
  BY DEF Register, Running
<1>5. SwitchIsAlone'
  BY <1>2, <1>4 DEF SwitchIsAlone, Running
<1>6. WorksOnRoute'
  BY <1>4 DEF Register, MigrationInvariant, WorksOnRoute
<1> QED
  BY <1>1, <1>3, <1>5, <1>6 DEF MigrationInvariant

(* Every step keeps the invariant. *)
LEMMA NextKeepsInvariant ==
    ASSUME Crossing = FALSE, MigrationInvariant, [MigrationNext]_migrationVars
    PROVE  MigrationInvariant'
<1>1. MigrationTypeOK'
  BY NextKeepsTypes DEF MigrationInvariant
<1>2. CASE CreatePlan
  BY <1>1, <1>2 DEF CreatePlan, MigrationInvariant, HeadsResolve,
                    SwitchIsAlone, WorksOnRoute, Running
<1>3. ASSUME NEW o \in Operators, Command(o)
      PROVE  MigrationInvariant'
  BY <1>3, BeginKeepsInvariant, EndKeepsInvariant, ItemKeepsInvariant DEF Command
<1>4. CASE BeginWriting
  BY <1>1, <1>4 DEF BeginWriting, MayUseRoute, MigrationInvariant, HeadsResolve,
                    SwitchIsAlone, WorksOnRoute, Running
<1>5. CASE WritingFails
  BY <1>1, <1>5 DEF WritingFails, MigrationInvariant, HeadsResolve,
                    SwitchIsAlone, WorksOnRoute, Running
<1>6. ASSUME NEW f \in Fresh, NEW before \in SUBSET heads, Register(f, before)
      PROVE  MigrationInvariant'
  BY <1>6, RegisterKeepsInvariant
<1>7. ASSUME NEW f \in All, Supersede(f)
      PROVE  MigrationInvariant'
  BY <1>1, <1>7 DEF Supersede, MigrationInvariant, HeadsResolve, SwitchIsAlone,
                    WorksOnRoute, Running
<1>8. ASSUME NEW f \in All, Decay(f)
      PROVE  MigrationInvariant'
  <2>1. \A g \in heads : cold[g] # "none" => cold'[g] # "none"
    BY <1>8 DEF Decay, MigrationInvariant, MigrationTypeOK
  <2> QED
    BY <1>1, <1>8, <2>1 DEF Decay, MigrationInvariant, HeadsResolve,
                            SwitchIsAlone, WorksOnRoute, Running
<1>9. CASE UNCHANGED migrationVars
  BY <1>1, <1>9 DEF migrationVars, MigrationInvariant, HeadsResolve, SwitchIsAlone,
                    WorksOnRoute, Running
<1> QED
  BY <1>2, <1>3, <1>4, <1>5, <1>6, <1>7, <1>8, <1>9 DEF MigrationNext

(* The invariant holds in every state of a migration whose switches cross  *)
(* no release and no materialization.                                      *)
THEOREM ColdInductive ==
    ASSUME Crossing = FALSE
    PROVE  MigrationSpec => []MigrationInvariant
<1>1. MigrationInit => MigrationInvariant
  <2>1. MigrationInit => MigrationTypeOK
    BY FilesAssumption, DecaysAssumption DEF MigrationInit, MigrationTypeOK, Idle, All, Outputs
  <2> QED
    BY <2>1, FilesAssumption
       DEF MigrationInit, MigrationInvariant, HeadsResolve, SwitchIsAlone, WorksOnRoute,
           Running, Idle
<1>2. MigrationInvariant /\ [MigrationNext]_migrationVars => MigrationInvariant'
  BY NextKeepsInvariant
<1> QED
  BY <1>1, <1>2, PTL DEF MigrationSpec

(* The path of every artifact under an active head resolves to a file, on  *)
(* the same condition.                                                     *)
THEOREM ColdHeadsResolve ==
    ASSUME Crossing = FALSE
    PROVE  MigrationSpec => []HeadsResolve
BY ColdInductive, PTL DEF MigrationInvariant

-----------------------------------------------------------------------------
(* The process manager.                                                    *)

USE DEF Pids, None

(***************************************************************************)
(* The parts of a step.                                                    *)
(***************************************************************************)
(* A new process has a number nobody remembers.                            *)
LEMMA NewIsUnused == Unused # {} => NewPid \in Unused
BY DEF NewPid

(* What a scan returns is what is kept, fresh; it shows everybody but the  *)
(* child and what was started since, unless it failed.                     *)
LEMMA ScanResult ==
    ASSUME ManagerInvariant, NEW pids \in SUBSET Pids, Scan(pids)
    PROVE  /\ cache' = [pids |-> pids, fresh |-> TRUE]
           /\ cache' \in [pids : SUBSET Pids, fresh : BOOLEAN]
           /\ "scan" \notin Faults => Alive \ (late' \cup {child}) \subseteq pids
           /\ late' \subseteq Pids
           /\ cache.fresh => pids = cache.pids
           /\ ~cache.fresh => pids \subseteq Alive
<1>. USE DEF ManagerInvariant, TypeOK
<1>1. CASE cache.fresh
  <2>1. cache = [pids |-> cache.pids, fresh |-> TRUE]
    BY <1>1
  <2>. QED BY <1>1, <2>1 DEF Scan, ScanShows
<1>2. CASE ~cache.fresh
  <2>1. cache' = [pids |-> pids, fresh |-> TRUE]
    BY <1>2 DEF Scan
  <2>2. late' = {}
    BY <1>2 DEF Scan
  <2>3. pids = Alive \ {child} \/ (pids = {} /\ "scan" \in Faults)
    BY <1>2 DEF Scan
  <2>. QED BY <1>2, <2>1, <2>2, <2>3 DEF Alive
<1>. QED BY <1>1, <1>2

-----------------------------------------------------------------------------
(***************************************************************************)
(* Type correctness.                                                       *)
(***************************************************************************)
LEMMA FailTyped ==
    ASSUME TypeOK, NEW count \in 0 .. MaxFailures - 1, Fail(count)
    PROVE  /\ state' \in {"backing_off", "manual_required"}
           /\ failures' \in 0 .. MaxFailures
           /\ failures' = MaxFailures => state' = "manual_required"
           /\ resume' \in {"none", "set"}
           /\ resume' # "none" => state' = "backing_off"
BY LimitAssumption DEF Fail, TypeOK

LEMMA SpawnTyped ==
    ASSUME TypeOK, state # "running", NEW count \in 0 .. MaxFailures - 1, Spawn(count)
    PROVE  /\ proc' \in [Pids -> {"absent", "good", "hung", "doomed"}]
           /\ state' \in States
           /\ {child', external'} \subseteq Pids \cup {None}
           /\ (state' = "running") = (child' # external')
           /\ None \in {child', external'}
           /\ failures' \in 0 .. MaxFailures
           /\ failures' = MaxFailures => state' \in {"manual_required", "stopped"}
           /\ resume' \in {"none", "set", "due"}
           /\ resume' # "none" => state' = "backing_off"
           /\ {stable', silent'} \subseteq BOOLEAN
<1>. child = None /\ external = None
  BY DEF TypeOK
<1>1. CASE /\ Unused # {}
           /\ proc' = [proc EXCEPT ![NewPid] = "good"]
           /\ child' = NewPid
           /\ BeginRun
           /\ failures' = count
           /\ resume' = "none"
           /\ UNCHANGED external
  <2>1. NewPid \in Pids
    BY <1>1, NewIsUnused DEF Unused
  <2>2. NewPid # 0
    BY <2>1, LimitAssumption
  <2>3. proc' \in [Pids -> {"absent", "good", "hung", "doomed"}]
    BY <1>1, <2>1 DEF TypeOK
  <2>4. failures' \in 0 .. MaxFailures /\ failures' # MaxFailures
    BY <1>1, LimitAssumption
  <2>. QED BY <1>1, <2>1, <2>2, <2>3, <2>4 DEF BeginRun, States
<1>2. CASE Fail(count) /\ UNCHANGED <<proc, child, external>>
  BY <1>2, FailTyped DEF TypeOK, States, Fail
<1>3. CASE /\ failures' = count
           /\ resume' = "none"
           /\ UNCHANGED <<proc, child, state, stable, silent, external>>
  BY <1>3, LimitAssumption DEF TypeOK
<1>. QED BY <1>1, <1>2, <1>3 DEF Spawn

(* What the kill of a child and of an adopted process leave.               *)
LEMMA TerminateTyped ==
    ASSUME TypeOK, child # None, Terminate
    PROVE  /\ proc' \in [Pids -> {"absent", "good", "hung", "doomed"}]
           /\ child' = None
           /\ external' = None
           /\ late' = late
           /\ Alive' \subseteq Alive
           /\ cache' \in [pids : SUBSET Pids, fresh : BOOLEAN]
           /\ cache'.fresh => cache' = cache /\ child \notin Alive'
<1>. external = None /\ child \in Pids
  BY DEF TypeOK
<1>1. CASE proc' = [proc EXCEPT ![child] = "absent"] /\ UNCHANGED cache
  BY <1>1 DEF Terminate, TypeOK, Alive
<1>2. CASE /\ child \in Alive
           /\ "survive" \in Faults
           /\ proc' = [proc EXCEPT ![child] = "doomed"]
           /\ cache' = [cache EXCEPT !.fresh = FALSE]
  <2>1. proc' \in [Pids -> {"absent", "good", "hung", "doomed"}] /\ Alive' \subseteq Alive
    BY <1>2 DEF TypeOK, Alive
  <2>2. cache' \in [pids : SUBSET Pids, fresh : BOOLEAN] /\ ~cache'.fresh
    BY <1>2 DEF TypeOK
  <2>. QED BY <2>1, <2>2, <1>2 DEF Terminate
<1>. QED BY <1>1, <1>2 DEF Terminate

LEMMA TerminateExternalTyped ==
    ASSUME TypeOK, external # None, TerminateExternal
    PROVE  /\ proc' \in [Pids -> {"absent", "good", "hung", "doomed"}]
           /\ child' = None
           /\ external' = None
           /\ late' = late
           /\ Alive' \subseteq Alive
           /\ cache' = [pids |-> {}, fresh |-> FALSE]
           /\ cache' \in [pids : SUBSET Pids, fresh : BOOLEAN]
<1>. child = None /\ external \in Pids
  BY DEF TypeOK
<1>1. CASE proc' = [proc EXCEPT ![external] = "absent"]
  BY <1>1 DEF TerminateExternal, TypeOK, Alive
<1>2. CASE /\ external \in Alive
           /\ "survive" \in Faults
           /\ proc' = [proc EXCEPT ![external] = "doomed"] \/ UNCHANGED proc
  <2>1. CASE proc' = [proc EXCEPT ![external] = "doomed"]
    BY <1>2, <2>1, LimitAssumption DEF TerminateExternal, TypeOK, Alive
  <2>2. CASE UNCHANGED proc
    BY <1>2, <2>2, LimitAssumption DEF TerminateExternal, TypeOK, Alive
  <2>. QED BY <1>2, <2>1, <2>2
<1>. QED BY <1>1, <1>2 DEF TerminateExternal

-----------------------------------------------------------------------------
(***************************************************************************)
(* Every step keeps the invariant.                                         *)
(***************************************************************************)
(* The poll, one step per branch.                                          *)
LEMMA PollKeeps ==
    ASSUME ManagerInvariant, NEW next \in {"idle", "start", "stop"}, Poll(next)
    PROVE  ManagerInvariant'
<1>. TypeOK /\ Calls(next)
  BY DEF ManagerInvariant, Poll
<1>0. /\ pc' = next
      /\ {thread', wanted', company'} \subseteq BOOLEAN
      /\ wanted' = wanted
      /\ ~company' => ~company /\ (next = "stop" => Alive \subseteq {child, external})
  BY DEF Calls, TypeOK
<1>1. CASE ChildExits
  <2>. /\ child # None /\ external = None /\ failures \in 0 .. MaxFailures - 1
       /\ child' = None /\ external' = None /\ Alive' = Alive
       /\ UNCHANGED <<proc, cache, late>>
    BY <1>1, LimitAssumption DEF ChildExits, TypeOK, Alive
  <2>1. TypeOK'
    BY <1>0, <1>1, FailTyped DEF ChildExits, TypeOK, Fail, States
  <2>2. ScanShows'
    BY <1>1 DEF ManagerInvariant, ScanShows, ChildExits
  <2>. QED BY <1>0, <1>1, <2>1, <2>2
       DEF ManagerInvariant, HeldIsScanned, StopFindsNobody, StoppedIsOver, ChildExits
<1>2. CASE ExternalExits
  <2>. PICK pids \in SUBSET Pids : external \notin pids /\ Scan(pids)
    BY <1>2 DEF ExternalExits
  <2>. /\ external # None /\ child = None /\ failures \in 0 .. MaxFailures - 1
       /\ child' = None /\ external' = None /\ Alive' = Alive /\ UNCHANGED proc
    BY <1>2, LimitAssumption DEF ExternalExits, TypeOK, Alive
  <2>. cache.fresh => FALSE
    BY ScanResult DEF ManagerInvariant, HeldIsScanned
  <2>1. TypeOK'
    BY <1>0, <1>2, FailTyped, ScanResult DEF ExternalExits, TypeOK, Fail, States
  <2>2. ScanShows'
    BY ScanResult DEF ScanShows
  <2>3. pids \subseteq Alive /\ cache' = [pids |-> pids, fresh |-> TRUE]
    BY ScanResult
  <2>. QED BY <1>0, <1>2, <2>1, <2>2, <2>3
       DEF ManagerInvariant, HeldIsScanned, StopFindsNobody, StoppedIsOver, ExternalExits
<1>3. CASE KeepsRunning
  <2>. /\ state = "running" /\ state' = "running"
       /\ UNCHANGED <<proc, child, external, resume, stable, silent>>
       /\ failures' \in {0, failures} /\ Alive' = Alive
    BY <1>3 DEF KeepsRunning, Alive
  <2>1. CASE child \in Alive /\ UNCHANGED <<cache, late>>
    <3>1. TypeOK'
      BY <1>0, <2>1, LimitAssumption DEF TypeOK
    <3>. QED BY <1>0, <2>1, <3>1
         DEF ManagerInvariant, ScanShows, HeldIsScanned, StopFindsNobody, StoppedIsOver
  <2>2. ASSUME external # None, NEW pids \in SUBSET Pids, external \in pids, Scan(pids)
        PROVE  ManagerInvariant'
    <3>0. /\ cache' = [pids |-> pids, fresh |-> TRUE]
          /\ cache' \in [pids : SUBSET Pids, fresh : BOOLEAN]
          /\ "scan" \notin Faults => Alive \ (late' \cup {child}) \subseteq pids
          /\ late' \subseteq Pids
      BY <2>2, ScanResult
    <3>1. TypeOK'
      BY <1>0, <3>0, LimitAssumption DEF TypeOK
    <3>2. child = None
      BY <2>2 DEF TypeOK
    <3>3. wanted \/ company
      BY DEF ManagerInvariant, StoppedIsOver
    <3>. QED BY <1>0, <2>2, <3>0, <3>1, <3>2, <3>3
         DEF ManagerInvariant, ScanShows, HeldIsScanned, StopFindsNobody, StoppedIsOver
  <2>. QED BY <1>3, <2>1, <2>2 DEF KeepsRunning, Found
<1>4. CASE KillSilent
  <2>. /\ state = "running"
       /\ Fail(IF stable THEN 0 ELSE failures)
       /\ (IF stable THEN 0 ELSE failures) \in 0 .. MaxFailures - 1
    BY <1>4, LimitAssumption DEF KillSilent, TypeOK
  <2>1. CASE child # None /\ Terminate
    <3>1. TypeOK'
      BY <1>0, <2>1, FailTyped, TerminateTyped DEF TypeOK, Fail, States
    <3>2. external = None
      BY <2>1 DEF TypeOK
    <3>3. wanted \/ company
      BY DEF ManagerInvariant, StoppedIsOver
    <3>. QED BY <1>0, <2>1, <3>1, <3>2, <3>3, TerminateTyped
         DEF ManagerInvariant, ScanShows, HeldIsScanned, StopFindsNobody, StoppedIsOver
  <2>2. CASE external # None /\ TerminateExternal
    <3>1. TypeOK'
      BY <1>0, <2>2, FailTyped, TerminateExternalTyped DEF TypeOK, Fail, States
    <3>2. wanted \/ company
      BY DEF ManagerInvariant, StoppedIsOver
    <3>. QED BY <1>0, <2>2, <3>1, <3>2, TerminateExternalTyped
         DEF ManagerInvariant, ScanShows, HeldIsScanned, StopFindsNobody, StoppedIsOver
  <2>. QED BY <1>4, <2>1, <2>2 DEF KillSilent, TypeOK
<1>5. CASE PollAdopts
  <2>. PICK pids \in SUBSET Pids : pids # {} /\ Scan(pids) /\ Adopt(pids)
    BY <1>5 DEF PollAdopts
  <2>. /\ state # "running" /\ child = None /\ external = None
       /\ child' = None /\ external' \in pids /\ Alive' = Alive /\ state' = "running"
    BY <1>5 DEF PollAdopts, TypeOK, Adopt, Alive, BeginRun
  <2>0. /\ cache' = [pids |-> pids, fresh |-> TRUE]
        /\ cache' \in [pids : SUBSET Pids, fresh : BOOLEAN]
        /\ "scan" \notin Faults => Alive \ (late' \cup {child}) \subseteq pids
        /\ late' \subseteq Pids
        /\ cache.fresh => pids = cache.pids
        /\ ~cache.fresh => pids \subseteq Alive
    BY ScanResult
  <2>1. TypeOK'
    <3>1. /\ resume' = "none" /\ failures' = 0 /\ ~stable' /\ ~silent' /\ UNCHANGED proc
          /\ {stable', silent'} \subseteq BOOLEAN
      BY DEF Adopt, BeginRun
    <3>2. external' \in Pids /\ external' # None
      BY LimitAssumption
    <3>. QED BY <1>0, <2>0, <3>1, <3>2, LimitAssumption DEF TypeOK, States
  <2>2. wanted \/ company
    BY <2>0 DEF ManagerInvariant, StoppedIsOver
  <2>. QED BY <1>0, <2>0, <2>1, <2>2
       DEF ManagerInvariant, ScanShows, HeldIsScanned, StopFindsNobody, StoppedIsOver
<1>6. CASE PollWaits
  <2>. /\ state # "running" /\ child = None /\ external = None
       /\ Scan({}) /\ UNCHANGED <<proc, entry>> /\ Alive' = Alive
    BY <1>6 DEF PollWaits, TypeOK, Alive
  <2>1. TypeOK'
    BY <1>0, ScanResult DEF TypeOK, entry
  <2>. QED BY <1>0, <2>1, ScanResult
       DEF ManagerInvariant, ScanShows, HeldIsScanned, StopFindsNobody, StoppedIsOver, entry
<1>7. CASE Restart
  <2>. /\ state = "backing_off" /\ child = None /\ external = None /\ external' = None
       /\ Scan({}) /\ Spawn(failures) /\ failures \in 0 .. MaxFailures - 1
    BY <1>7, LimitAssumption DEF Restart, TypeOK, Spawn
  <2>1. TypeOK'
    BY <1>0, ScanResult, SpawnTyped DEF TypeOK
  <2>2. Alive' \subseteq Alive \cup {child'}
    BY DEF Spawn, Alive, TypeOK
  <2>3. /\ cache' = [pids |-> {}, fresh |-> TRUE]
        /\ "scan" \notin Faults => Alive \subseteq late'
    <3>1. /\ cache' = [pids |-> {}, fresh |-> TRUE]
          /\ "scan" \notin Faults => Alive \ (late' \cup {child}) \subseteq {}
      BY ScanResult
    <3>2. None \notin Alive
      BY LimitAssumption DEF Alive
    <3>. QED BY <3>1, <3>2
  <2>4. wanted \/ company
    BY DEF ManagerInvariant, StoppedIsOver
  <2>. QED BY <1>0, <2>1, <2>2, <2>3, <2>4
       DEF ManagerInvariant, ScanShows, HeldIsScanned, StopFindsNobody, StoppedIsOver
<1>. QED BY <1>1, <1>2, <1>3, <1>4, <1>5, <1>6, <1>7 DEF Poll

(* A kill that does not return in time changes the count of failures only. *)
LEMMA HangKeeps ==
    ASSUME ManagerInvariant, PollHangs \/ StopHangs
    PROVE  ManagerInvariant'
<1>. TypeOK
  BY DEF ManagerInvariant
<1>1. /\ UNCHANGED <<proc, state, child, external, resume, cache, wanted, company, late>>
      /\ Alive' = Alive
      /\ pc' \in {pc, "idle"}
      /\ failures' \in {0, failures}
  BY DEF PollHangs, StopHangs, entry, history, Alive
<1>2. {stable', silent', thread', wanted', company'} \subseteq BOOLEAN
  BY DEF PollHangs, StopHangs, entry, history, TypeOK
<1>3. TypeOK'
  BY <1>1, <1>2, LimitAssumption DEF TypeOK
<1>. QED BY <1>1, <1>3
     DEF ManagerInvariant, ScanShows, HeldIsScanned, StopFindsNobody, StoppedIsOver

(* What a call does after its poll.                                        *)
LEMMA StartKeeps ==
    ASSUME ManagerInvariant, Start
    PROVE  ManagerInvariant'
<1>. TypeOK /\ pc' = "idle" /\ wanted' = TRUE /\ company' = FALSE /\ thread' = thread
  BY DEF ManagerInvariant, Start
<1>0. {thread', wanted', company'} \subseteq BOOLEAN
  BY DEF TypeOK
<1>1. CASE state = "running"
  <2>. UNCHANGED <<proc, entry, cache, late>> /\ Alive' = Alive
    BY <1>1 DEF Start, Alive
  <2>1. TypeOK'
    BY DEF TypeOK, entry
  <2>. QED BY <2>1
       DEF ManagerInvariant, ScanShows, HeldIsScanned, StopFindsNobody, StoppedIsOver, entry
<1>2. CASE state # "running"
  <2>. PICK pids \in SUBSET Pids : Scan(pids) /\ IF pids # {} THEN Adopt(pids) ELSE Spawn(0)
    BY <1>2 DEF Start
  <2>. child = None /\ external = None
    BY <1>2 DEF TypeOK
  <2>0. /\ cache' = [pids |-> pids, fresh |-> TRUE]
        /\ cache' \in [pids : SUBSET Pids, fresh : BOOLEAN]
        /\ "scan" \notin Faults => Alive \ (late' \cup {child}) \subseteq pids
        /\ late' \subseteq Pids
    BY ScanResult
  <2>1. CASE pids # {}
    <3>. /\ child' = None /\ external' \in pids /\ Alive' = Alive /\ state' = "running"
         /\ resume' = "none" /\ failures' = 0 /\ UNCHANGED proc
         /\ {stable', silent'} \subseteq BOOLEAN
      BY <2>1 DEF Adopt, BeginRun, Alive
    <3>1. external' \in Pids /\ external' # None
      BY LimitAssumption
    <3>2. TypeOK'
      BY <1>0, <2>0, <3>1, LimitAssumption DEF TypeOK, States
    <3>. QED BY <2>0, <3>1, <3>2
         DEF ManagerInvariant, ScanShows, HeldIsScanned, StopFindsNobody, StoppedIsOver
  <2>2. CASE pids = {}
    <3>. Spawn(0) /\ external' = None
      BY <2>2 DEF Spawn
    <3>1. TypeOK'
      <4>1. 0 \in 0 .. MaxFailures - 1
        BY LimitAssumption
      <4>. QED BY <1>0, <1>2, <2>0, <4>1, SpawnTyped DEF TypeOK
    <3>2. Alive' \subseteq Alive \cup {child'}
      BY DEF Spawn, Alive, TypeOK
    <3>3. "scan" \notin Faults => Alive \subseteq late'
      <4>1. None \notin Alive
        BY LimitAssumption DEF Alive
      <4>. QED BY <2>0, <2>2, <4>1
    <3>. QED BY <2>0, <2>2, <3>1, <3>2, <3>3
         DEF ManagerInvariant, ScanShows, HeldIsScanned, StopFindsNobody, StoppedIsOver
  <2>. QED BY <2>1, <2>2
<1>. QED BY <1>1, <1>2

LEMMA StopKeeps ==
    ASSUME ManagerInvariant, Stop
    PROVE  ManagerInvariant'
<1>. /\ TypeOK /\ pc = "stop" /\ pc' = "idle" /\ state' = "stopped" /\ wanted' = FALSE
     /\ company' = (company \/ \E p \in Pids : proc'[p] # "absent")
     /\ UNCHANGED <<failures, stable, silent, thread>>
  BY DEF ManagerInvariant, Stop
<1>0. company' \in BOOLEAN /\ (~company' => ~company /\ Alive' = {})
  BY DEF Alive, TypeOK
<1>1. CASE state = "running" /\ child # None
  <2>. Terminate /\ UNCHANGED resume /\ external = None
    BY <1>1 DEF Stop, TypeOK
  <2>1. TypeOK'
    BY <1>0, <1>1, TerminateTyped DEF TypeOK, States
  <2>. QED BY <1>0, <1>1, <2>1, TerminateTyped
       DEF ManagerInvariant, ScanShows, HeldIsScanned, StopFindsNobody, StoppedIsOver
<1>2. CASE state = "running" /\ child = None
  <2>. TerminateExternal /\ UNCHANGED resume /\ external # None
    BY <1>2 DEF Stop, TypeOK
  <2>1. TypeOK'
    BY <1>0, <1>2, TerminateExternalTyped DEF TypeOK, States
  <2>. QED BY <1>0, <1>2, <2>1, TerminateExternalTyped
       DEF ManagerInvariant, ScanShows, HeldIsScanned, StopFindsNobody, StoppedIsOver
<1>3. CASE state # "running"
  <2>. /\ resume' = "none" /\ Alive' = Alive
       /\ UNCHANGED <<proc, child, external, cache, late>>
    BY <1>3 DEF Stop, Alive
  <2>1. TypeOK'
    BY <1>0, <1>3 DEF TypeOK, States
  <2>. QED BY <1>0, <1>3, <2>1
       DEF ManagerInvariant, ScanShows, HeldIsScanned, StopFindsNobody, StoppedIsOver
<1>. QED BY <1>1, <1>2, <1>3

(* What happens on the machine.                                            *)
LEMMA MachineKeeps ==
    ASSUME ManagerInvariant,
           ServiceRestarts \/ StrayStarts \/ \E p \in Pids : Exits(p) \/ Hangs(p)
    PROVE  ManagerInvariant'
<1>. TypeOK
  BY DEF ManagerInvariant
<1>1. CASE ServiceRestarts
  <2>0. Alive' = Alive
    BY <1>1, LimitAssumption DEF ServiceRestarts, Alive, TypeOK
  <2>1. TypeOK'
    <3>1. cache' \in [pids : SUBSET Pids, fresh : BOOLEAN]
      BY <1>1 DEF ServiceRestarts
    <3>2. {stable', silent', thread', wanted', company'} \subseteq BOOLEAN
      BY <1>1 DEF ServiceRestarts, TypeOK, history
    <3>3. failures' \in 0 .. MaxFailures /\ failures' # MaxFailures
      BY <1>1, LimitAssumption DEF ServiceRestarts
    <3>. QED BY <1>1, <2>0, <3>1, <3>2, <3>3 DEF ServiceRestarts, TypeOK, States, history
  <2>. QED BY <1>1, <2>0, <2>1
       DEF ManagerInvariant, ScanShows, HeldIsScanned, StopFindsNobody, StoppedIsOver,
           ServiceRestarts, history
<1>2. CASE StrayStarts
  <2>0. NewPid \in Pids
    BY <1>2, NewIsUnused, LimitAssumption DEF StrayStarts, Unused, TypeOK
  <2>1. TypeOK'
    BY <1>2, <2>0 DEF StrayStarts, TypeOK, service, entry
  <2>2. Alive' = Alive \cup {NewPid}
    BY <1>2, <2>0 DEF StrayStarts, Alive, TypeOK
  <2>. QED BY <1>2, <2>1, <2>2
       DEF ManagerInvariant, ScanShows, HeldIsScanned, StopFindsNobody, StoppedIsOver,
           StrayStarts, service, entry
<1>3. ASSUME NEW p \in Pids, Exits(p)
      PROVE  ManagerInvariant'
  <2>1. TypeOK'
    BY <1>3 DEF Exits, TypeOK, service, entry
  <2>2. Alive' = Alive \ {p}
    BY <1>3 DEF Exits, Alive, TypeOK
  <2>. QED BY <1>3, <2>1, <2>2
       DEF ManagerInvariant, ScanShows, HeldIsScanned, StopFindsNobody, StoppedIsOver,
           Exits, service, entry
<1>4. ASSUME NEW p \in Pids, Hangs(p)
      PROVE  ManagerInvariant'
  <2>1. TypeOK'
    BY <1>4 DEF Hangs, TypeOK, service, entry, history
  <2>2. Alive' = Alive
    BY <1>4 DEF Hangs, Alive, TypeOK
  <2>. QED BY <1>4, <2>1, <2>2
       DEF ManagerInvariant, ScanShows, HeldIsScanned, StopFindsNobody, StoppedIsOver,
           Hangs, service, entry, history
<1>. QED BY <1>1, <1>2, <1>3, <1>4

LEMMA TimeKeeps ==
    ASSUME ManagerInvariant, Time
    PROVE  ManagerInvariant'
<1>. TypeOK
  BY DEF ManagerInvariant
<1>0. /\ UNCHANGED <<proc, state, child, external, failures, pc, thread, history>>
      /\ Alive' = Alive
      /\ resume' \in {"none", "set", "due"}
      /\ resume' # "none" => resume # "none"
      /\ {stable', silent'} \subseteq BOOLEAN
  BY DEF Time, ScanExpires, BackOffEnds, RunLasts, FallsSilent, Beats, entry, TypeOK, Alive
<1>1. /\ cache' \in [pids : SUBSET Pids, fresh : BOOLEAN]
      /\ cache'.fresh => cache' = cache
  BY DEF Time, ScanExpires, BackOffEnds, RunLasts, FallsSilent, Beats, TypeOK
<1>2. TypeOK'
  BY <1>0, <1>1 DEF TypeOK, history
<1>. QED BY <1>0, <1>1, <1>2
     DEF ManagerInvariant, ScanShows, HeldIsScanned, StopFindsNobody, StoppedIsOver, history

(* The entry at the start of the service, nobody running the command.      *)
LEMMA InitHolds == Init => ManagerInvariant
<1>. SUFFICES ASSUME Init PROVE ManagerInvariant
  OBVIOUS
<1>1. TypeOK
  <2>1. cache \in [pids : SUBSET Pids, fresh : BOOLEAN]
    BY DEF Init
  <2>2. {stable, silent, thread, wanted, company} \subseteq BOOLEAN
    BY DEF Init
  <2>3. failures \in 0 .. MaxFailures /\ failures # MaxFailures
    BY LimitAssumption DEF Init
  <2>. QED BY <2>1, <2>2, <2>3 DEF Init, TypeOK, States
<1>2. Alive = {} /\ ~cache.fresh /\ pc = "idle"
  BY DEF Init, Alive
<1>. QED BY <1>1, <1>2
     DEF ManagerInvariant, ScanShows, HeldIsScanned, StopFindsNobody, StoppedIsOver, Init

LEMMA StutterKeeps == ManagerInvariant /\ UNCHANGED vars => ManagerInvariant'
BY DEF ManagerInvariant, TypeOK, ScanShows, HeldIsScanned, StopFindsNobody, StoppedIsOver,
       Alive, vars, service, entry, history

-----------------------------------------------------------------------------
(***************************************************************************)
(* Who starts a recorder.                                                  *)
(***************************************************************************)
(* A recorder is started in the poll of an entry that backs off, or by a   *)
(* start, and after a scan that found nobody.                              *)
LEMMA SpawnFollowsScan ==
    ASSUME ManagerInvariant, [Next]_vars, Spawned
    PROVE  /\ child = None
           /\ Scan({})
           /\ pc = "start" \/ state = "backing_off"
<1>. TypeOK
  BY DEF ManagerInvariant
<1>1. ASSUME NEW next \in {"idle", "start", "stop"}, Poll(next)
      PROVE  Restart
  BY <1>1 DEF Poll, Spawned, ChildExits, ExternalExits, KeepsRunning, KillSilent, Terminate,
              TerminateExternal, PollAdopts, Adopt, PollWaits, entry
<1>2. CASE Restart
  BY <1>2 DEF Restart, TypeOK
<1>3. CASE Start
  <2>1. state # "running"
    BY <1>3 DEF Start, Spawned, entry
  <2>2. PICK pids \in SUBSET Pids : Scan(pids) /\ IF pids # {} THEN Adopt(pids) ELSE Spawn(0)
    BY <1>3, <2>1 DEF Start
  <2>3. pids = {}
    BY <2>2 DEF Adopt, Spawned
  <2>. QED BY <1>3, <2>1, <2>2, <2>3 DEF Start, TypeOK
<1>4. ~ Stop
  BY DEF Stop, Spawned, Terminate, TerminateExternal
<1>5. UNCHANGED child \/ child' = None \/ Start \/ \E next \in {"idle", "start", "stop"} : Poll(next)
  BY <1>4 DEF Next, Operation, PollHangs, StopHangs, ServiceRestarts, StrayStarts, Exits, Hangs,
       Time, ScanExpires, BackOffEnds, RunLasts, FallsSilent, Beats, vars, service, entry
<1>. QED BY <1>1, <1>2, <1>3, <1>5 DEF Spawned

-----------------------------------------------------------------------------
(***************************************************************************)
(* The theorems.                                                           *)
(***************************************************************************)
(* The invariant the others rest on: what a fresh scan shows of who runs,  *)
(* whom the manager holds, and what a stop leaves behind.                  *)
THEOREM ManagerInductive == Spec => []ManagerInvariant
<1>1. ManagerInvariant /\ [Next]_vars => ManagerInvariant'
  BY PollKeeps, HangKeeps, StartKeeps, StopKeeps, MachineKeeps, TimeKeeps, StutterKeeps
     DEF Next, Operation
<1>. QED BY <1>1, InitHolds, PTL DEF Spec

(* The manager holds one process exactly while its entry runs, and backs   *)
(* off only below the limit of failures.                                   *)
THEOREM ManagerTyped == Spec => []TypeOK
<1>1. ManagerInvariant => TypeOK
  BY DEF ManagerInvariant
<1>. QED BY <1>1, ManagerInductive, PTL

(* One writer: unless scans fail, a recorder is started beside nobody but  *)
(* those others started since the last scan; what outlived its kill or the *)
(* service has been seen.                                                  *)
THEOREM ManagerSpawnsAlone ==
    ASSUME "scan" \notin Faults
    PROVE  Spec => SpawnsAlone
<1>1. ManagerInvariant /\ [Next]_vars => [Spawned => Alive \subseteq late]_vars
  <2>. SUFFICES ASSUME ManagerInvariant, [Next]_vars, Spawned
                PROVE  Alive \subseteq late
    OBVIOUS
  <2>1. child = None /\ Scan({})
    BY SpawnFollowsScan
  <2>2. Alive \ (late' \cup {child}) \subseteq {}
    BY <2>1, ScanResult
  <2>3. late' \subseteq late
    BY <2>1 DEF Scan
  <2>4. None \notin Alive
    BY LimitAssumption DEF Alive
  <2>. QED BY <2>1, <2>2, <2>3, <2>4
<1>. QED BY <1>1, ManagerInductive, PTL DEF Spec, SpawnsAlone

(* After a stop without company the recorder is started only on request,   *)
(* whatever goes wrong.                                                    *)
THEOREM ManagerStopHolds == Spec => StopHolds
<1>1. ManagerInvariant /\ [Next]_vars => [Spawned => wanted \/ company \/ pc = "start"]_vars
  <2>. SUFFICES ASSUME ManagerInvariant, [Next]_vars, Spawned
                PROVE  wanted \/ company \/ pc = "start"
    OBVIOUS
  <2>. QED BY SpawnFollowsScan DEF ManagerInvariant, StoppedIsOver
<1>. QED BY <1>1, ManagerInductive, PTL DEF Spec, StopHolds
=============================================================================
