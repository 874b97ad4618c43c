--------------------------- MODULE ProcessManager ---------------------------
(***************************************************************************)
(* src/guvolu/ops/process_manager.py: one entry of the registry, that is   *)
(* one recorder the query service keeps alive, beside the processes of the *)
(* machine that run the same command.                                      *)
(*                                                                         *)
(* Every public call takes the lock, polls (_poll_locked), and then does   *)
(* what it was called for, in a step of its own: processes come and go     *)
(* between the two.  Clocks appear as what the code compares them with:    *)
(* a scan is fresh or older than EXTERNAL_SCAN_TTL_SECONDS, a back-off is  *)
(* due or not, a run is stable (STABLE_RESET_SECONDS) or not, silent       *)
(* (HEARTBEAT_GRACE_SECONDS since its start and since the last heartbeat   *)
(* of any process of the name) or not.  420 s being more than 300 s, only  *)
(* a stable run is silent.  All entries of DEFAULT_REGISTRY restart        *)
(* automatically and have a heartbeat, so the branches without are left    *)
(* out.  An event that cannot be written ends a call after its changes,    *)
(* which is a call that only polled.                                       *)
(***************************************************************************)
EXTENDS Naturals

CONSTANTS
    MaxPids,        \* bound on the processes at any time, for TLC
    MaxFailures,    \* max_consecutive_failures
    Faults          \* what may go wrong, at any time and any number of times

(* "survive": a process outlives the attempt to end it.  "stray": a person *)
(* or a task starts the same command.  "service": the query service ends   *)
(* and comes back.  "spawn": the command cannot be started.  "scan": the   *)
(* scan fails.  "mkdir": the log directory cannot be made.  "hang":        *)
(* taskkill does not return in time.                                       *)
ASSUME FaultAssumption ==
    Faults \subseteq {"survive", "stray", "service", "spawn", "scan", "mkdir", "hang"}
ASSUME LimitAssumption ==
    /\ MaxPids \in Nat
    /\ MaxFailures \in Nat \ {0}

VARIABLES
    proc,       \* what the process with a number is, "absent" if there is none
    state,      \* state of the entry
    child,      \* popen: the process the manager started, None if it has none
    external,   \* external_pid: the process it has adopted
    failures,   \* consecutive_failures
    resume,     \* resume_at: "none", "set" or "due"
    stable,     \* the run in hand has lasted STABLE_RESET_SECONDS
    silent,     \* ... and has been silent for HEARTBEAT_GRACE_SECONDS
    cache,      \* _scan_cache: the processes found, and whether still fresh
    pc,         \* what the call that holds the lock does next, "idle" if none
    thread,     \* the polling thread lives
    wanted,     \* history: the last thing a person asked for was a start
    company,    \* history: a stop since then has met or left another process
    late        \* history: what others started since the last scan

entry == <<state, child, external, failures, resume, stable, silent>>
service == <<entry, cache, pc, thread>>
history == <<wanted, company, late>>
vars == <<proc, service, history>>

None == 0
Pids == 1 .. MaxPids
States == {"running", "stopped", "backing_off", "manual_required"}

(* Who runs the command; who of them writes checkpoints.                   *)
Alive == {p \in Pids : proc[p] # "absent"}
Collecting == {p \in Pids : proc[p] = "good"}

(* A number for a new process, other than those somebody remembers.        *)
Unused == Pids \ (Alive \cup cache.pids \cup {child, external})
NewPid == CHOOSE p \in Unused : TRUE

Init ==
    /\ proc = [p \in Pids |-> "absent"]
    /\ state = "stopped"
    /\ child = None
    /\ external = None
    /\ failures = 0
    /\ resume = "none"
    /\ stable = FALSE
    /\ silent = FALSE
    /\ cache = [pids |-> {}, fresh |-> FALSE]
    /\ pc = "idle"
    /\ thread = TRUE
    /\ wanted = FALSE
    /\ company = FALSE
    /\ late = {}

-----------------------------------------------------------------------------
(* What the methods are made of                                            *)

(* _scan_pids: a fresh result is used again; a scan that fails counts as   *)
(* one that found nothing, and is kept for as long.                        *)
Scan(pids) ==
    \/ /\ cache.fresh
       /\ pids = cache.pids
       /\ UNCHANGED <<cache, late>>
    \/ /\ ~cache.fresh
       /\ \/ pids = Alive \ {child}
          \/ pids = {} /\ "scan" \in Faults
       /\ cache' = [pids |-> pids, fresh |-> TRUE]
       /\ late' = {}

(* A run begins: started_at is now.                                        *)
BeginRun ==
    /\ state' = "running"
    /\ stable' = FALSE
    /\ silent' = FALSE

(* _try_adopt, where the scan has found somebody.                          *)
Adopt(pids) ==
    /\ \E p \in pids : external' = p
    /\ BeginRun
    /\ resume' = "none"
    /\ failures' = 0
    /\ UNCHANGED <<child, proc>>

(* _fail, after count failures before this one.                            *)
Fail(count) ==
    /\ failures' = count + 1
    /\ IF count + 1 >= MaxFailures
       THEN state' = "manual_required" /\ resume' = "none"
       ELSE state' = "backing_off" /\ resume' = "set"
    /\ UNCHANGED <<stable, silent>>

(* _spawn, once nobody was found to adopt: resume_at is cleared already,   *)
(* so that a log directory that cannot be made leaves the state as it was. *)
Spawn(count) ==
    /\ UNCHANGED external
    /\ \/ /\ Unused # {}
          /\ proc' = [proc EXCEPT ![NewPid] = "good"]
          /\ child' = NewPid
          /\ BeginRun
          /\ failures' = count
          /\ resume' = "none"
       \/ /\ "spawn" \in Faults
          /\ Fail(count)
          /\ UNCHANGED <<proc, child>>
       \/ /\ "mkdir" \in Faults
          /\ failures' = count
          /\ resume' = "none"
          /\ UNCHANGED <<proc, child, state, stable, silent>>

(* Faulty variant of Terminate: it gives up while a scan may be fresh.     *)
TerminateHastily ==
    /\ child' = None
    /\ UNCHANGED <<external, cache, late>>
    /\ \/ proc' = [proc EXCEPT ![child] = "absent"]
       \/ /\ child \in Alive
          /\ "survive" \in Faults
          /\ proc' = [proc EXCEPT ![child] = "doomed"]

(* _terminate waits twice, for TERMINATE_WAIT_SECONDS each, before it      *)
(* leaves a process that does not end to the next poll: by then a scan is  *)
(* no longer fresh.                                                        *)
Terminate ==
    /\ child' = None
    /\ UNCHANGED <<external, late>>
    /\ \/ /\ proc' = [proc EXCEPT ![child] = "absent"]
          /\ UNCHANGED <<cache>>
       \/ /\ child \in Alive
          /\ "survive" \in Faults
          /\ proc' = [proc EXCEPT ![child] = "doomed"]
          /\ cache' = [cache EXCEPT !.fresh = FALSE]

(* Faulty variant of TerminateExternal: the scan is remembered.            *)
TerminateScanned ==
    /\ external' = None
    /\ UNCHANGED <<child, cache, late>>
    /\ \/ proc' = [proc EXCEPT ![external] = "absent"]
       \/ /\ external \in Alive
          /\ "survive" \in Faults
          /\ \/ proc' = [proc EXCEPT ![external] = "doomed"]
             \/ UNCHANGED proc

(* default_external_terminator, whose answer nobody reads, and the scan    *)
(* that is forgotten after it.                                             *)
TerminateExternal ==
    /\ external' = None
    /\ cache' = [pids |-> {}, fresh |-> FALSE]
    /\ UNCHANGED <<child, late>>
    /\ \/ proc' = [proc EXCEPT ![external] = "absent"]
       \/ /\ external \in Alive
          /\ "survive" \in Faults
          /\ \/ proc' = [proc EXCEPT ![external] = "doomed"]
             \/ UNCHANGED proc

-----------------------------------------------------------------------------
(* The poll                                                                *)

(* Every call polls first; a start or a stop goes on afterwards.           *)
Calls(next) ==
    /\ pc = "idle"
    /\ pc' = next
    /\ company' = (company \/ (next = "stop" /\ Alive \ {child, external} # {}))
    /\ UNCHANGED <<thread, wanted>>

(* _check_running: the child has ended.                                    *)
ChildExits ==
    /\ state = "running"
    /\ child \in Pids \ Alive
    /\ child' = None
    /\ Fail(failures)
    /\ UNCHANGED <<proc, external, cache, late>>

(* ... the adopted process is no longer found.                             *)
ExternalExits ==
    /\ state = "running"
    /\ external # None
    /\ \E pids \in SUBSET Pids : external \notin pids /\ Scan(pids)
    /\ external' = None
    /\ Fail(failures)
    /\ UNCHANGED <<proc, child>>

(* ... it is there, as far as the manager knows.                           *)
Found ==
    \/ child \in Alive /\ UNCHANGED <<cache, late>>
    \/ external # None /\ (\E pids \in SUBSET Pids : external \in pids /\ Scan(pids))

(* ... and is not silent: a stable run clears the failures.                *)
KeepsRunning ==
    /\ state = "running"
    /\ ~silent
    /\ Found
    /\ failures' = IF stable THEN 0 ELSE failures
    /\ UNCHANGED <<proc, state, child, external, resume, stable, silent>>

(* Faulty variant of KillSilent: an adopted process is left alone.         *)
KillSilentChild ==
    /\ state = "running"
    /\ silent
    /\ child \in Alive
    /\ Terminate
    /\ Fail(IF stable THEN 0 ELSE failures)

(* ... and is silent: it is ended, and has failed.  The scan of an adopted *)
(* process is forgotten, so whether it came from the cache shows nowhere.  *)
KillSilent ==
    /\ state = "running"
    /\ silent
    /\ IF child # None THEN child \in Alive /\ Terminate
                       ELSE (cache.fresh => external \in cache.pids)
                            /\ (~cache.fresh => external \in Alive)
                            /\ TerminateExternal
    /\ Fail(IF stable THEN 0 ELSE failures)

(* _try_adopt of an entry that does not run.                               *)
PollAdopts ==
    /\ state # "running"
    /\ \E pids \in SUBSET Pids : pids # {} /\ Scan(pids) /\ Adopt(pids)

(* ... nobody is there, and the back-off is not over, or there is none.    *)
PollWaits ==
    /\ state # "running"
    /\ state = "backing_off" => resume # "due"
    /\ Scan({})
    /\ UNCHANGED <<proc, entry>>

(* _check_backing_off                                                      *)
Restart ==
    /\ state = "backing_off"
    /\ resume = "due"
    /\ Scan({})
    /\ Spawn(failures)

Poll(next) ==
    /\ Calls(next)
    /\ \/ ChildExits
       \/ ExternalExits
       \/ KeepsRunning
       \/ KillSilent
       \/ PollAdopts
       \/ PollWaits
       \/ Restart

(* taskkill runs out of its time: TimeoutExpired is no OSError, so it ends *)
(* the polling thread (_poll_forever) or is the answer to the request.     *)
PollHangs ==
    /\ pc = "idle"
    /\ state = "running"
    /\ silent
    /\ external # None
    /\ "hang" \in Faults
    /\ thread' \in {thread, FALSE}
    /\ failures' = IF stable THEN 0 ELSE failures
    /\ UNCHANGED <<proc, state, child, external, resume, stable, silent, cache, pc, history>>

-----------------------------------------------------------------------------
(* What a call does after its poll                                         *)

(* start of an entry that does not run: the failures are forgotten first.  *)
Start ==
    /\ pc = "start"
    /\ pc' = "idle"
    /\ wanted' = TRUE
    /\ company' = FALSE
    /\ UNCHANGED thread
    /\ \/ /\ state = "running"
          /\ UNCHANGED <<proc, entry, cache, late>>
       \/ /\ state # "running"
          /\ \E pids \in SUBSET Pids :
                /\ Scan(pids)
                /\ IF pids # {} THEN Adopt(pids) ELSE Spawn(0)

(* stop                                                                    *)
Stop ==
    /\ pc = "stop"
    /\ pc' = "idle"
    /\ \/ /\ state = "running"
          /\ IF child # None THEN Terminate ELSE TerminateExternal
          /\ UNCHANGED resume
       \/ /\ state # "running"
          /\ resume' = "none"
          /\ UNCHANGED <<proc, child, external, cache, late>>
    /\ state' = "stopped"
    /\ wanted' = FALSE
    /\ company' = (company \/ \E p \in Pids : proc'[p] # "absent")
    /\ UNCHANGED <<failures, stable, silent, thread>>

(* ... when taskkill runs out of its time: nothing has changed.            *)
StopHangs ==
    /\ pc = "stop"
    /\ state = "running"
    /\ external # None
    /\ "hang" \in Faults
    /\ pc' = "idle"
    /\ UNCHANGED <<proc, entry, cache, thread, history>>

-----------------------------------------------------------------------------
(* The machine                                                             *)

(* The query service ends, in the middle of a call or between two, and is  *)
(* started again; what it had started goes on.                             *)
ServiceRestarts ==
    /\ "service" \in Faults
    /\ state' = "stopped"
    /\ child' = None
    /\ external' = None
    /\ failures' = 0
    /\ resume' = "none"
    /\ stable' = FALSE
    /\ silent' = FALSE
    /\ cache' = [pids |-> {}, fresh |-> FALSE]
    /\ pc' = "idle"
    /\ thread' = TRUE
    /\ UNCHANGED <<proc, history>>

(* Somebody else starts the same command, which counts as asking for it.   *)
StrayStarts ==
    /\ "stray" \in Faults
    /\ Unused # {}
    /\ proc' = [proc EXCEPT ![NewPid] = "good"]
    /\ late' = late \cup {NewPid}
    /\ wanted' = TRUE
    /\ UNCHANGED <<service, company>>

(* A process ends by itself.                                               *)
Exits(p) ==
    /\ p \in Alive
    /\ proc' = [proc EXCEPT ![p] = "absent"]
    /\ late' = late \ {p}
    /\ UNCHANGED <<service, wanted, company>>

(* A process stops writing checkpoints and goes on.                        *)
Hangs(p) ==
    /\ proc[p] = "good"
    /\ proc' = [proc EXCEPT ![p] = "hung"]
    /\ UNCHANGED <<service, history>>

(* The scan gets old (EXTERNAL_SCAN_TTL_SECONDS).                          *)
ScanExpires ==
    /\ cache.fresh
    /\ cache' = [cache EXCEPT !.fresh = FALSE]
    /\ UNCHANGED <<proc, entry, pc, thread, history>>

(* The back-off is over.                                                   *)
BackOffEnds ==
    /\ resume = "set"
    /\ resume' = "due"
    /\ UNCHANGED <<proc, state, child, external, failures, stable, silent, cache,
                   pc, thread, history>>

(* The run has lasted STABLE_RESET_SECONDS.                                *)
RunLasts ==
    /\ state = "running"
    /\ ~stable
    /\ stable' = TRUE
    /\ UNCHANGED <<proc, state, child, external, failures, resume, silent, cache,
                   pc, thread, history>>

(* ... and for HEARTBEAT_GRACE_SECONDS nobody has written a checkpoint.    *)
FallsSilent ==
    /\ state = "running"
    /\ stable
    /\ ~silent
    /\ Collecting = {}
    /\ silent' = TRUE
    /\ UNCHANGED <<proc, state, child, external, failures, resume, stable, cache,
                   pc, thread, history>>

(* A checkpoint of any process of the name is a heartbeat.                 *)
Beats ==
    /\ silent
    /\ Collecting # {}
    /\ silent' = FALSE
    /\ UNCHANGED <<proc, state, child, external, failures, resume, stable, cache,
                   pc, thread, history>>

Operation ==
    \/ Start
    \/ Stop
    \/ StopHangs

Time ==
    \/ ScanExpires
    \/ BackOffEnds
    \/ RunLasts
    \/ FallsSilent
    \/ Beats

Next ==
    \/ \E next \in {"idle", "start", "stop"} : Poll(next)
    \/ PollHangs
    \/ Operation
    \/ ServiceRestarts
    \/ StrayStarts
    \/ \E p \in Pids : Exits(p) \/ Hangs(p)
    \/ Time

(* The polling thread polls every POLL_INTERVAL_SECONDS while it lives,    *)
(* a call that has polled goes on, and time passes.  Nothing is assumed of *)
(* processes and people.                                                   *)
Fairness ==
    /\ WF_vars(thread /\ Poll("idle"))
    /\ WF_vars(Operation)
    /\ WF_vars(ScanExpires)
    /\ WF_vars(BackOffEnds)
    /\ WF_vars(RunLasts)
    /\ WF_vars(FallsSilent)

Spec == Init /\ [][Next]_vars /\ Fairness

-----------------------------------------------------------------------------
(* Properties                                                              *)

(* The manager holds one process exactly while the entry runs, backs off   *)
(* only below the limit of failures, and waits for a time only then.       *)
TypeOK ==
    /\ proc \in [Pids -> {"absent", "good", "hung", "doomed"}]
    /\ state \in States
    /\ {child, external} \subseteq Pids \cup {None}
    /\ (state = "running") = (child # external)
    /\ None \in {child, external}
    /\ failures \in 0 .. MaxFailures
    /\ failures = MaxFailures => state \in {"manual_required", "stopped"}
    /\ resume \in {"none", "set", "due"}
    /\ resume # "none" => state = "backing_off"
    /\ {stable, silent, thread, wanted, company} \subseteq BOOLEAN
    /\ cache \in [pids : SUBSET Pids, fresh : BOOLEAN]
    /\ pc \in {"idle", "start", "stop"}
    /\ late \subseteq Pids

Spawned == child' \notin {child, None}

(* One writer (process_manager.py:10-11, runtime-ops.md:89): the manager   *)
(* starts a recorder only when nobody runs it, but for what others started *)
(* since it looked.  A process that outlived its kill and one left by the  *)
(* service before count as running it.                                     *)
SpawnsAlone == [][Spawned => Alive \subseteq late]_vars

(* "停止进程并取消自动重启" (process_manager.py:321): after a stop the manager  *)
(* starts the recorder only when asked, provided that no other process ran *)
(* when it was stopped and the one it held was gone.                       *)
StopHolds == [][Spawned => wanted \/ company \/ pc = "start"]_vars

(* The manager ends a recorder for its silence, and the process goes on.   *)
KillFails ==
    /\ state = "running" /\ silent
    /\ state' \in {"backing_off", "manual_required"}
    /\ \E p \in {child, external} \ {None} : proc'[p] # "absent"

(* A recorder that ended or hangs is replaced, or a person is called,      *)
(* unless somebody starts it anew (which forgets the failures), stops it,  *)
(* the service ends (which forgets what ran) or the polling thread did.    *)
(* Refuted by TLC with "survive" (process_manager.py:9): a recorder that   *)
(* outlives each kill is adopted again, which clears the failures, falls   *)
(* silent again, and so on; nobody reads what taskkill answers.            *)
HungIsReplaced ==
    state = "running" /\ Collecting = {}
        ~> \/ Collecting # {}
           \/ state \in {"manual_required", "stopped"}
           \/ pc = "start"
           \/ ~thread

(* What is left of it: it holds unless kills fail for ever.                *)
CollectsAgain == []<><<KillFails>>_vars \/ HungIsReplaced

-----------------------------------------------------------------------------
(* The inductive invariant of SpawnsAlone and StopHolds                    *)

(* What a fresh scan does not show is the child, or was started since.     *)
ScanShows ==
    "scan" \notin Faults /\ cache.fresh => Alive \ (late \cup {child}) \subseteq cache.pids

(* A child is started after a scan that found nobody, an adopted process   *)
(* is one that was found.                                                  *)
HeldIsScanned ==
    cache.fresh => /\ child # None => cache.pids = {}
                   /\ external # None => external \in cache.pids

(* A stop of an entry that does not run has polled first and found nobody. *)
StopFindsNobody ==
    pc = "stop" /\ ~company /\ state # "running" /\ cache.fresh => cache.pids = {}

(* After a stop without company nothing is left to be adopted.             *)
StoppedIsOver ==
    ~wanted /\ ~company =>
        /\ state = "stopped"
        /\ Alive = {}
        /\ cache.fresh => cache.pids = {}

ManagerInvariant ==
    /\ TypeOK
    /\ ScanShows
    /\ HeldIsScanned
    /\ StopFindsNobody
    /\ StoppedIsOver

-----------------------------------------------------------------------------
(* Expectations the code does not meet                                     *)

(* Refuted by TLC with "survive": what outlives a stop is adopted by the   *)
(* next poll, and restarted when it ends after all.                        *)
StopIsFinal == [][Spawned => wanted \/ pc = "start"]_vars

(* Refuted by TLC: "连续失败达上限转「须人工」" (process_manager.py:9), but a     *)
(* silent run is a stable one, so its failure is always the first.         *)
HangsAddUp ==
    [][state = "running" /\ silent /\ state' \in {"backing_off", "manual_required"}
        => failures' > failures]_vars

(* Refuted by TLC with "mkdir": resume_at is cleared before the directory  *)
(* is made, and an entry without one is not looked at again.               *)
BackOffIsTimed == state = "backing_off" => resume # "none"

(* Refuted by TLC with "hang": "判活失败不终止守护线程" (process_manager.py:368), *)
(* but the handler is for OSError only.                                    *)
ThreadLives == thread
=============================================================================
