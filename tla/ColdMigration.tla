--------------------------- MODULE ColdMigration ---------------------------
(***************************************************************************)
(* One logical prefix of the data root moving to the cold disk and back:   *)
(* the commands of data/cold_storage.py (plan, copy, activate, roll back,  *)
(* release and restore the hot copies), the route that readers and writers *)
(* resolve their paths by (data/storage_paths.py), and a materialization   *)
(* that registers another output under the prefix.  A command checks and   *)
(* hashes for minutes before it acts, handles the files one by one, and    *)
(* may fail or be killed between any two of them.                          *)
(***************************************************************************)
EXTENDS FiniteSets, Integers

CONSTANTS
    Files,          \* artifacts registered under the prefix at the start
    Parquet,        \* those that are materialized Parquet
    Fresh,          \* Parquet a later materialization may write there
    Operators,      \* shells a command is started from
    Crossing,       \* may a switch of the route overlap a release or a
                    \* materialization?
    MaxDecays       \* bound: how many cold copies go bad

ASSUME FilesAssumption == Parquet \subseteq Files /\ Files \cap Fresh = {}
ASSUME DecaysAssumption == MaxDecays \in Nat

VARIABLES
    catalog,        \* artifacts registered under the prefix
    heads,          \* those an active head refers to
    hot,            \* those with a file under the data root
    cold,           \* what lies on the cold disk for each
    route,          \* status of the route in storage-roots.json
    plans,          \* plan files: each a frozen set of artifacts
    cmd,            \* the command each operator runs
    writing,        \* where the running materialization writes
    decays          \* cold copies that went bad so far

migrationVars == <<catalog, heads, hot, cold, route, plans, cmd, writing, decays>>

-----------------------------------------------------------------------------
All == Files \union Fresh
Outputs == Parquet \union Fresh
Commands == {"copy", "activate", "rollback", "release", "restore", "rebuild"}
Idle == [op |-> "idle", plan |-> {}, todo |-> {}]

Running(ops) == \E o \in Operators : cmd[o].op \in ops

(* Nothing in the code keeps commands and materializations apart; what is  *)
(* started while others run is left to whoever starts it.                  *)
MayUseRoute == Crossing \/ ~Running({"activate", "rollback"})
MaySwitch == Crossing \/ (writing = "nowhere" /\ ~Running({"release"}))

(* Faulty variant of Current: a plan stays good.                           *)
PlannedOnce(p) == p \in plans

(* A command is given a plan file; it refuses one that is not the current  *)
(* set of the catalog any more (_validate_catalog).                        *)
Current(p) == p \in plans /\ p = catalog

Begins(o, op, p, todo) ==
    /\ cmd[o] = Idle
    /\ Current(p)
    /\ cmd' = [cmd EXCEPT ![o] = [op |-> op, plan |-> p, todo |-> todo]]

Runs(o, op, f) == cmd[o].op = op /\ f \in cmd[o].todo
Handled(o, f) == cmd' = [cmd EXCEPT ![o].todo = @ \ {f}]
Ends(o) == cmd' = [cmd EXCEPT ![o] = Idle]

-----------------------------------------------------------------------------
(* plan: the catalog and the files under the hot prefix must be the same.  *)
CreatePlan ==
    /\ route = "planned"
    /\ hot = catalog
    /\ plans' = plans \union {catalog}
    /\ UNCHANGED <<catalog, heads, hot, cold, route, cmd, writing, decays>>

(* copy *)
BeginCopy(o, p) ==
    /\ route = "planned"
    /\ Begins(o, "copy", p, p)
    /\ UNCHANGED <<catalog, heads, hot, cold, route, plans, writing, decays>>

(* A target that is there must be the same file; one that is not is        *)
(* written beside its name, hashed and renamed.                            *)
CopyItem(o, f) ==
    /\ Runs(o, "copy", f)
    /\ f \in hot
    /\ cold[f] # "bad"
    /\ cold' = [cold EXCEPT ![f] = "good"]
    /\ Handled(o, f)
    /\ UNCHANGED <<catalog, heads, hot, route, plans, writing, decays>>

-----------------------------------------------------------------------------
(* Faulty variant of VerifiedBoth: what was copied is taken for granted.   *)
VerifiedHot(p) == p \subseteq hot

(* verify_plan of both sides. *)
VerifiedBoth(p) == \A f \in p : f \in hot /\ cold[f] = "good"

(* activate: everything is verified first, which takes its time ...        *)
BeginActivate(o, p) ==
    /\ MaySwitch
    /\ VerifiedBoth(p)
    /\ Begins(o, "activate", p, {})
    /\ UNCHANGED <<catalog, heads, hot, cold, route, plans, writing, decays>>

(* ... and then the route is switched under the writer lock, which checks  *)
(* the status of the route and nothing else.                               *)
SwitchRoute(o, op, from, to) ==
    /\ cmd[o].op = op
    /\ route = from
    /\ route' = to
    /\ Ends(o)
    /\ UNCHANGED <<catalog, heads, hot, cold, plans, writing, decays>>

Activate(o) == SwitchRoute(o, "activate", "planned", "active")

(* Faulty variant of MayGoBack: only what was asked of the strict roll     *)
(* back is looked at.                                                      *)
MayGoBackAnyway(p, lenient) == lenient \/ p \subseteq hot

(* rollback asks for every hot copy; with allow_missing_superseded, for    *)
(* those an active head refers to.                                         *)
MayGoBack(p, lenient) == (IF lenient THEN p \cap heads ELSE p) \subseteq hot

BeginRollback(o, p, lenient) ==
    /\ MaySwitch
    /\ MayGoBack(p, lenient)
    /\ Begins(o, "rollback", p, {})
    /\ UNCHANGED <<catalog, heads, hot, cold, route, plans, writing, decays>>

Rollback(o) == SwitchRoute(o, "rollback", "active", "planned")

-----------------------------------------------------------------------------
(* Faulty variant of MayRelease: a route that was only planned will do.    *)
MayReleaseEarly == route \in {"planned", "active"}

(* release-hot reads the route once, when it starts. *)
MayRelease == route = "active"

BeginRelease(o, p) ==
    /\ MayUseRoute
    /\ MayRelease
    /\ p \cap Outputs # {}
    /\ Begins(o, "release", p, p \cap Outputs)
    /\ UNCHANGED <<catalog, heads, hot, cold, route, plans, writing, decays>>

(* Faulty variant of ColdHolds: the copy is there and has the size.        *)
ColdThere(f) == cold[f] # "none"

(* The cold copy of a file is hashed right before its hot one is used up.  *)
ColdHolds(f) == cold[f] = "good"

ReleaseItem(o, f) ==
    /\ Runs(o, "release", f)
    /\ ColdHolds(f)
    /\ hot' = hot \ {f}
    /\ Handled(o, f)
    /\ UNCHANGED <<catalog, heads, cold, route, plans, writing, decays>>

(* restore-hot, from the cold copies or, without reading the cold disk,    *)
(* from the raw archives.                                                  *)
BeginRestore(o, op, p) ==
    /\ op \in {"restore", "rebuild"}
    /\ p \cap Outputs # {}
    /\ Begins(o, op, p, p \cap Outputs)
    /\ UNCHANGED <<catalog, heads, hot, cold, route, plans, writing, decays>>

RestoreItem(o, f) ==
    /\ Runs(o, "restore", f)
    /\ ColdHolds(f)
    /\ hot' = hot \union {f}
    /\ Handled(o, f)
    /\ UNCHANGED <<catalog, heads, cold, route, plans, writing, decays>>

(* What is rebuilt is put in place if it is the registered file to the     *)
(* byte; otherwise the file is listed and the next one taken.              *)
RebuildItem(o, f) ==
    /\ Runs(o, "rebuild", f)
    /\ hot' \in {hot, hot \union {f}}
    /\ Handled(o, f)
    /\ UNCHANGED <<catalog, heads, cold, route, plans, writing, decays>>

(* A command that is through, one that raises at a check and one that is   *)
(* killed leave the same: what they did so far.                            *)
Leave(o) ==
    /\ cmd[o] # Idle
    /\ Ends(o)
    /\ UNCHANGED <<catalog, heads, hot, cold, route, plans, writing, decays>>

-----------------------------------------------------------------------------
(* A materialization resolves its output directory when it starts ...      *)
BeginWriting ==
    /\ MayUseRoute
    /\ writing = "nowhere"
    /\ Fresh \ catalog # {}
    /\ writing' = route
    /\ UNCHANGED <<catalog, heads, hot, cold, route, plans, cmd, decays>>

(* ... and registers the output by its logical path and points the head of *)
(* its partition to it when it is done; it may also fail.                  *)
Register(f, before) ==
    /\ writing # "nowhere"
    /\ f \in Fresh \ catalog
    /\ catalog' = catalog \union {f}
    /\ heads' = (heads \ before) \union {f}
    /\ hot' = IF writing = "planned" THEN hot \union {f} ELSE hot
    /\ cold' = IF writing = "active" THEN [cold EXCEPT ![f] = "good"] ELSE cold
    /\ writing' = "nowhere"
    /\ UNCHANGED <<route, plans, cmd, decays>>

WritingFails ==
    /\ writing # "nowhere"
    /\ writing' = "nowhere"
    /\ UNCHANGED <<catalog, heads, hot, cold, route, plans, cmd, decays>>

(* An output elsewhere takes the place of an artifact under its head.      *)
Supersede(f) ==
    /\ f \in heads
    /\ heads' = heads \ {f}
    /\ UNCHANGED <<catalog, hot, cold, route, plans, cmd, writing, decays>>

(* A copy on the cold disk goes bad without anyone noticing. *)
Decay(f) ==
    /\ decays < MaxDecays
    /\ cold[f] = "good"
    /\ cold' = [cold EXCEPT ![f] = "bad"]
    /\ decays' = decays + 1
    /\ UNCHANGED <<catalog, heads, hot, route, plans, cmd, writing>>

-----------------------------------------------------------------------------
MigrationInit ==
    /\ catalog = Files
    /\ heads = Parquet
    /\ hot = Files
    /\ cold = [f \in All |-> "none"]
    /\ route = "planned"
    /\ plans = {}
    /\ cmd = [o \in Operators |-> Idle]
    /\ writing = "nowhere"
    /\ decays = 0

Command(o) ==
    \/ \E p \in plans :
        \/ BeginCopy(o, p) \/ BeginActivate(o, p) \/ BeginRelease(o, p)
        \/ \E lenient \in BOOLEAN : BeginRollback(o, p, lenient)
        \/ \E op \in Commands : BeginRestore(o, op, p)
    \/ Activate(o) \/ Rollback(o) \/ Leave(o)
    \/ \E f \in All : CopyItem(o, f) \/ ReleaseItem(o, f)
                      \/ RestoreItem(o, f) \/ RebuildItem(o, f)

MigrationNext ==
    \/ CreatePlan
    \/ \E o \in Operators : Command(o)
    \/ BeginWriting \/ WritingFails
    \/ \E f \in Fresh : \E before \in SUBSET heads :
           Cardinality(before) <= 1 /\ Register(f, before)
    \/ \E f \in All : Supersede(f) \/ Decay(f)

MigrationSpec == MigrationInit /\ [][MigrationNext]_migrationVars

-----------------------------------------------------------------------------
(* Properties. *)

MigrationTypeOK ==
    /\ Files \subseteq catalog /\ catalog \subseteq All
    /\ heads \subseteq catalog \cap Outputs
    /\ hot \subseteq catalog
    /\ cold \in [All -> {"none", "good", "bad"}]
    /\ route \in {"planned", "active"}
    /\ plans \subseteq SUBSET catalog
    /\ cmd \in [Operators -> [op   : Commands \union {"idle"},
                              plan : SUBSET catalog,
                              todo : SUBSET catalog]]
    /\ \A o \in Operators : cmd[o].todo \subseteq cmd[o].plan
    /\ writing \in {"nowhere", "planned", "active"}
    /\ decays \in 0 .. MaxDecays

(* The path of an artifact under an active head resolves to a file through *)
(* every migration, release, restore and roll back, wherever one of them   *)
(* failed or was killed and whichever run side by side, as long as no      *)
(* switch of the route crosses a release or a materialization              *)
(* (materialization-design.md, 8.2).                                       *)
HeadsResolve ==
    \A f \in heads : IF route = "active" THEN cold[f] # "none" ELSE f \in hot

HasCopy(f) == f \in hot \/ cold[f] = "good"

(* No command takes away the last good copy of an artifact, also of one no *)
(* head refers to and also when copies on the cold disk have gone bad.     *)
LastCopyStays ==
    [][decays' = decays => \A f \in catalog : HasCopy(f) => HasCopy(f)']_migrationVars

-----------------------------------------------------------------------------
(* The inductive invariant of a migration whose switches cross nothing: a  *)
(* switch under way runs beside no release and no materialization, what it *)
(* verified still holds, and the rest works on the side the route shows.   *)
SwitchIsAlone ==
    /\ Running({"activate", "rollback"}) =>
           writing = "nowhere" /\ ~Running({"release"})
    /\ Running({"activate"}) => \A f \in heads : cold[f] # "none"
    /\ Running({"rollback"}) => heads \subseteq hot

WorksOnRoute ==
    /\ Running({"release"}) => route = "active"
    /\ writing # "nowhere" => writing = route

MigrationInvariant ==
    /\ MigrationTypeOK
    /\ HeadsResolve
    /\ SwitchIsAlone
    /\ WorksOnRoute

-----------------------------------------------------------------------------
(* What one might expect and the code does not do: an active route can be  *)
(* taken back, for which a command needs a plan of the current catalog.    *)
CanBeTakenBack == route = "active" => catalog \in plans

=============================================================================
