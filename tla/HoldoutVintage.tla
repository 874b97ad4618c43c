--------------------------- MODULE HoldoutVintage ---------------------------
(***************************************************************************)
(* The governance registry of the research side: development runs that     *)
(* declare which bars they have read, holdout vintages that must stay      *)
(* unread until they are burned, forward plans and predictions frozen      *)
(* before the outcome is known, and the one evaluation of each vintage.    *)
(*                                                                         *)
(* Several operating system processes share one SQLite registry.  A write  *)
(* is one BEGIN IMMEDIATE ... COMMIT, so a registry transaction is one     *)
(* action; the registration of a prediction, which replays the whole       *)
(* prediction while it holds the write lock, is two.  What a process read  *)
(* before the transaction (the clock, the head of the data, the rows to    *)
(* score) is kept in ctx[p] and may be stale when it commits.  Quit(p)     *)
(* stands for every refusal, exception and kill: the process ends where it *)
(* is and what it has committed stays.                                     *)
(*                                                                         *)
(* Time counts bars: at now = n bar n has closed and bar n + 1 has not.    *)
(* A vintage [Start, End) is scored on bars Start + 1 .. End and decided   *)
(* at the closes Start .. End - 1.  One market, one candidate set.         *)
(***************************************************************************)
EXTENDS Naturals, FiniteSets

CONSTANTS Procs,      \* processes that work on the registry
          Vintages,   \* intervals somebody may seal
          Planned,    \* those for which somebody freezes a forward plan
          Start, End, \* functions: first and last close of an interval
          Horizon,    \* bound: the last close
          MaxHeads,   \* bound: heads the data side publishes
          MaxLag      \* bars a prediction may be late by

Free == "free"        \* nobody inside a transaction

ASSUME VintagesAssumption ==
    /\ Start \in [Vintages -> Nat] /\ End \in [Vintages -> Nat]
    /\ \A v \in Vintages : Start[v] < End[v]
    /\ Planned \subseteq Vintages
ASSUME ProcsAssumption == Free \notin Procs
ASSUME BoundsAssumption == Horizon \in Nat /\ MaxHeads \in Nat /\ MaxLag \in Nat

VARIABLES
    now,        \* the clock, in closed bars
    head,       \* generation of the current head of the market data
    arrived,    \* bars the current head holds
    vintage,    \* holdout_vintage: status, abandoned_at, evaluation, verdict
    exposed,    \* research_exposure: the last bar any registered run declared
    plan,       \* the one forward plan of a vintage, by kind
    rows,       \* frozen_forward_prediction: head each decision was made from
    file,       \* predictions/<stamp>.json: head the file on disk was made from
    lock,       \* the process inside a registry transaction
    ctx,        \* what each process holds in memory
    seen,       \* history: bars whose outcome development or a score has used
    openings    \* history: evaluations that opened the labels of a vintage

registry == <<vintage, exposed, plan, rows>>
data == <<now, head, arrived>>
history == <<seen, openings>>
vars == <<data, registry, file, lock, ctx, history>>

NoRow == 0                           \* no prediction for this decision
NoEvaluation == [head |-> 0, forward |-> FALSE]
NoVerdict == <<>>                    \* else the rows the verdict is over
Evaluations == [head : 1..MaxHeads, forward : BOOLEAN]
PlanKinds == {"none", "burn", "zero_exposure", "suite"}

Idle == [pc |-> "idle"]
Bars(v) == (Start[v] + 1)..End[v]
Decisions(v) == Start[v]..(End[v] - 1)
Overlap(v, w) == Bars(v) \cap Bars(w) # {}
Status(v) == vintage[v].status
Judged(v) == vintage[v].verdict # NoVerdict

Unsealed == [status |-> "unsealed", abandonedAt |-> 0,
             evaluation |-> NoEvaluation, verdict |-> NoVerdict]

Init ==
    /\ now = 0 /\ head = 0 /\ arrived = 0
    /\ vintage = [v \in Vintages |-> Unsealed]
    /\ exposed = 0
    /\ plan = [v \in Vintages |-> "none"]
    /\ rows = [v \in Vintages |-> [d \in Decisions(v) |-> NoRow]]
    /\ file = [v \in Vintages |-> [d \in Decisions(v) |-> NoRow]]
    /\ lock = Free
    /\ ctx = [p \in Procs |-> Idle]
    /\ seen = {}
    /\ openings = [v \in Vintages |-> {}]

Becomes(p, c) == ctx' = [ctx EXCEPT ![p] = c]
Moves(p, pc) == ctx' = [ctx EXCEPT ![p].pc = pc]
At(p, pc) == ctx[p].pc = pc

-----------------------------------------------------------------------------
(* The world outside: the clock and the head of the data.                   *)

\* A process waits for the write lock for less than a bar, so at most one bar
\* closes between its reading of the clock and its commit.
Tick ==
    /\ now < Horizon
    /\ \A p \in Procs : ctx[p].pc \in {"sealing", "abandoning"} => ctx[p].at = now
    /\ now' = now + 1
    /\ UNCHANGED <<head, arrived, registry, file, lock, ctx, history>>

\* Materialization publishes a new head over the same bars or over more.
PublishHead ==
    /\ head < MaxHeads
    /\ head' = head + 1
    /\ arrived' \in (arrived..now) \ {0}
    /\ UNCHANGED <<now, registry, file, lock, ctx, history>>

-----------------------------------------------------------------------------
(* A development run: preflight, read the panel, declare the exposure.      *)

SealedWithin(last) ==
    \E v \in Vintages : Status(v) = "sealed" /\ Start[v] < last

Preflight(p) ==
    /\ At(p, "idle")
    /\ \E last \in 1..arrived :
        /\ ~SealedWithin(last)
        /\ Becomes(p, [pc |-> "preflight", last |-> last])
    /\ UNCHANGED <<data, registry, file, lock, history>>

OpenPanel(p) ==
    /\ At(p, "preflight")
    /\ Moves(p, "panel")
    /\ seen' = seen \cup 1..ctx[p].last
    /\ UNCHANGED <<data, registry, file, lock, openings>>

RegisterExposure(p) ==
    /\ At(p, "panel")
    /\ lock = Free
    /\ ~SealedWithin(ctx[p].last)
    /\ exposed' = IF ctx[p].last > exposed THEN ctx[p].last ELSE exposed
    /\ Becomes(p, Idle)
    /\ UNCHANGED <<data, vintage, plan, rows, file, lock, history>>

-----------------------------------------------------------------------------
(* Sealing an interval and giving it up.                                    *)

\* Faulty variant of BeforeStart: an interval that has begun may be sealed.
BeforeEnd(v) == now < End[v]

\* The clock is read before the write lock is asked for.
BeforeStart(v) == now < Start[v]

ReadSealClock(p, v) ==
    /\ At(p, "idle")
    /\ BeforeStart(v)
    /\ Becomes(p, [pc |-> "sealing", vintage |-> v, at |-> now])
    /\ UNCHANGED <<data, registry, file, lock, history>>

Sealable(v) ==
    /\ exposed <= Start[v]
    /\ \A w \in Vintages : Overlap(v, w) =>
        CASE Status(w) = "unsealed"  -> TRUE
          [] Status(w) = "abandoned" -> w # v /\ vintage[w].abandonedAt < Start[v]
          [] OTHER                   -> FALSE

SealVintage(p) ==
    /\ At(p, "sealing")
    /\ lock = Free
    /\ Sealable(ctx[p].vintage)
    /\ vintage' = [vintage EXCEPT ![ctx[p].vintage].status = "sealed"]
    /\ Becomes(p, Idle)
    /\ UNCHANGED <<data, exposed, plan, rows, file, lock, history>>

ReadAbandonClock(p, v) ==
    /\ At(p, "idle")
    /\ Becomes(p, [pc |-> "abandoning", vintage |-> v, at |-> now])
    /\ UNCHANGED <<data, registry, file, lock, history>>

\* Faulty variant of MayAbandon: a burned vintage may be given up as well.
MayAbandonBurned(v) == Status(v) \in {"sealed", "consumed"}

MayAbandon(v) == Status(v) = "sealed"

AbandonVintage(p) ==
    /\ At(p, "abandoning")
    /\ lock = Free
    /\ MayAbandon(ctx[p].vintage)
    /\ vintage' = [vintage EXCEPT ![ctx[p].vintage].status = "abandoned",
                                  ![ctx[p].vintage].abandonedAt = ctx[p].at]
    /\ Becomes(p, Idle)
    /\ UNCHANGED <<data, exposed, plan, rows, file, lock, history>>

-----------------------------------------------------------------------------
(* Forward plans and predictions.                                           *)

\* Both kinds of plan read the clock inside the transaction, and one vintage
\* takes one plan of either kind.
RegisterPlan(v) ==
    /\ lock = Free
    /\ Status(v) = "sealed"
    /\ now < Start[v]
    /\ plan[v] = "none"
    /\ \E kind \in PlanKinds \ {"none"} : plan' = [plan EXCEPT ![v] = kind]
    /\ UNCHANGED <<data, vintage, exposed, rows, file, lock, ctx, history>>

\* The run takes the current head, its last complete bar inside the interval
\* is the decision, and a decision that is already registered ends the run.
CapturePrediction(p, v) ==
    LET last == IF arrived < End[v] THEN arrived ELSE End[v] IN
    /\ At(p, "idle")
    /\ head > 0
    /\ plan[v] \in {"burn", "zero_exposure"}
    /\ Status(v) = "sealed"
    /\ last \in Decisions(v)
    /\ now - last <= MaxLag
    /\ rows[v][last] = NoRow
    /\ Becomes(p, [pc |-> "captured", vintage |-> v, decision |-> last, head |-> head])
    /\ UNCHANGED <<data, registry, file, lock, history>>

\* The file is replaced before the registry is asked.
WritePrediction(p) ==
    LET c == ctx[p] IN
    /\ At(p, "captured")
    /\ now - c.decision <= MaxLag
    /\ file' = [file EXCEPT ![c.vintage][c.decision] = c.head]
    /\ Moves(p, "written")
    /\ UNCHANGED <<data, registry, lock, history>>

\* Inside the transaction: the vintage is still sealed, the file is the one
\* the caller names, and its receipt is of the head that is current now.
AcceptsPrediction(c) ==
    /\ Status(c.vintage) = "sealed"
    /\ file[c.vintage][c.decision] = c.head
    /\ head = c.head

BeginPrediction(p) ==
    /\ At(p, "written")
    /\ lock = Free
    /\ AcceptsPrediction(ctx[p])
    /\ lock' = p
    /\ Moves(p, "replaying")
    /\ UNCHANGED <<data, registry, file, history>>

\* After the replay: the row and its receipt, unless the decision has one.
RegisterPrediction(p) ==
    LET c == ctx[p] IN
    /\ At(p, "replaying")
    /\ rows[c.vintage][c.decision] = NoRow
    /\ rows' = [rows EXCEPT ![c.vintage][c.decision] = c.head]
    /\ lock' = Free
    /\ Becomes(p, Idle)
    /\ UNCHANGED <<data, vintage, exposed, plan, file, history>>

-----------------------------------------------------------------------------
(* The evaluation of a vintage.                                             *)

Registered(v) == {d \in Decisions(v) : rows[v][d] # NoRow}

\* attest_frozen_forward_batch: at least one row, and every registered file
\* is still the one that was registered.
BatchIsAttested(v) ==
    /\ Registered(v) # {}
    /\ \A d \in Registered(v) : file[v][d] = rows[v][d]

\* Everything the runner reads before it burns the vintage: its status, the
\* head, the plan and the batch of rows it will score.  forward says whether
\* the configuration asks for frozen predictions.
CaptureBatch(p, v, forward) ==
    /\ At(p, "idle")
    /\ Status(v) = "sealed"
    /\ head > 0 /\ arrived >= End[v]
    /\ forward => plan[v] \in {"burn", "zero_exposure"} /\ BatchIsAttested(v)
    /\ Becomes(p, [pc |-> "attested", vintage |-> v, rows |-> rows[v],
                   evaluation |-> [head |-> head, forward |-> forward]])
    /\ UNCHANGED <<data, registry, file, lock, history>>

\* The receipt is bound only while its head is the current one.
RegisterReceipt(p) ==
    /\ At(p, "attested")
    /\ lock = Free
    /\ head = ctx[p].evaluation.head
    /\ Moves(p, "receipt")
    /\ UNCHANGED <<data, registry, file, lock, history>>

\* Faulty variant of MayStart: whoever finds the vintage not abandoned starts.
MayStartAgain(v) == Status(v) # "abandoned" /\ plan[v] # "suite" /\ now >= End[v]

MayStart(v) == Status(v) = "sealed" /\ plan[v] # "suite" /\ now >= End[v]

StartEvaluation(p) ==
    LET c == ctx[p] IN
    /\ At(p, "receipt")
    /\ lock = Free
    /\ MayStart(c.vintage)
    /\ vintage' = [vintage EXCEPT ![c.vintage].status = "consumed",
                                  ![c.vintage].evaluation = c.evaluation]
    /\ Moves(p, "started")
    /\ UNCHANGED <<data, exposed, plan, rows, file, lock, history>>

OpenLabels(p) ==
    LET c == ctx[p] IN
    /\ At(p, "started")
    /\ seen' = seen \cup Bars(c.vintage)
    /\ openings' = [openings EXCEPT ![c.vintage] = @ \cup {<<p, c.evaluation>>}]
    /\ Moves(p, "scoring")
    /\ UNCHANGED <<data, registry, file, lock>>

\* The missing policy: burn raises when a decision has no prediction,
\* zero_exposure scores it as no position.
Scores(c) ==
    c.evaluation.forward =>
        \/ plan[c.vintage] = "zero_exposure"
        \/ \A d \in Decisions(c.vintage) : c.rows[d] # NoRow

\* Faulty variant of EvidenceMatches: the plan is compared, the rows are not.
EvidenceOfPlan(c) == (plan[c.vintage] = "none") <=> ~c.evaluation.forward

\* The row set of the manifest against the row set of the registry.
EvidenceMatches(c) ==
    IF plan[c.vintage] = "none"
    THEN ~c.evaluation.forward
    ELSE c.evaluation.forward /\ c.rows = rows[c.vintage]

FinalizeEvaluation(p) ==
    LET c == ctx[p] IN
    /\ At(p, "scoring")
    /\ Scores(c)
    /\ lock = Free
    /\ Status(c.vintage) = "consumed"
    /\ vintage[c.vintage].evaluation = c.evaluation
    /\ plan[c.vintage] # "suite"
    /\ EvidenceMatches(c)
    /\ ~Judged(c.vintage)
    /\ vintage' = [vintage EXCEPT ![c.vintage].verdict = c.rows]
    /\ Becomes(p, Idle)
    /\ UNCHANGED <<data, exposed, plan, rows, file, lock, history>>

-----------------------------------------------------------------------------
\* A refusal, an exception, a kill or the end of a process that has finished;
\* an open transaction is rolled back.
Quit(p) ==
    /\ ~At(p, "idle")
    /\ Becomes(p, Idle)
    /\ lock' = IF lock = p THEN Free ELSE lock
    /\ UNCHANGED <<data, registry, file, history>>

Development(p) == Preflight(p) \/ OpenPanel(p) \/ RegisterExposure(p)

Sealing(p) ==
    \/ \E v \in Vintages : ReadSealClock(p, v) \/ ReadAbandonClock(p, v)
    \/ SealVintage(p) \/ AbandonVintage(p)

Forward(p) ==
    \/ \E v \in Vintages : CapturePrediction(p, v)
    \/ WritePrediction(p) \/ BeginPrediction(p) \/ RegisterPrediction(p)

Evaluation(p) ==
    \/ \E v \in Vintages, forward \in BOOLEAN : CaptureBatch(p, v, forward)
    \/ RegisterReceipt(p) \/ StartEvaluation(p) \/ OpenLabels(p)
    \/ FinalizeEvaluation(p)

Next ==
    \/ Tick \/ PublishHead
    \/ \E v \in Planned : RegisterPlan(v)
    \/ \E p \in Procs :
        Development(p) \/ Sealing(p) \/ Forward(p) \/ Evaluation(p) \/ Quit(p)

Spec == Init /\ [][Next]_vars

-----------------------------------------------------------------------------
\* Types of the registry and of the files.  A row stands under a single-member
\* plan, and an evaluation and a verdict on a burned vintage only (the foreign
\* keys and the terminal check of the registry).
TypeOK ==
    /\ now \in 0..Horizon /\ head \in 0..MaxHeads /\ arrived \in 0..now
    /\ exposed \in 0..Horizon
    /\ plan \in [Vintages -> PlanKinds]
    /\ lock \in Procs \cup {Free}
    /\ \A v \in Vintages :
        /\ vintage[v] \in [status : {"unsealed", "sealed", "consumed", "abandoned"},
                           abandonedAt : 0..Horizon,
                           evaluation : Evaluations \cup {NoEvaluation},
                           verdict : [Decisions(v) -> 0..MaxHeads] \cup {NoVerdict}]
        /\ rows[v] \in [Decisions(v) -> 0..MaxHeads]
        /\ file[v] \in [Decisions(v) -> 0..MaxHeads]
        /\ Registered(v) # {} => plan[v] \in {"burn", "zero_exposure"}
        /\ (Status(v) = "consumed") <=> (vintage[v].evaluation # NoEvaluation)
        /\ Judged(v) => Status(v) = "consumed"

\* Nobody has used the outcome of a sealed vintage: no development run has
\* read a panel that reaches into it, registered or not, and no evaluation has
\* scored an interval that overlaps it (the exclusion of exposures and vintages
\* that seal_holdout_vintage, register_research_exposure and the preflight
\* keep together).
SealedIsUnseen ==
    \A v \in Vintages : Status(v) = "sealed" => Bars(v) \cap seen = {}

\* The labels of a vintage are opened at most once, by the evaluation that
\* burned it, and never those of a vintage that was not burned, whichever
\* runners race and wherever one dies.
LabelsOpenedOnce ==
    \A v \in Vintages :
        /\ Cardinality(openings[v]) <= 1
        /\ \A o \in openings[v] :
            Status(v) = "consumed" /\ vintage[v].evaluation = o[2]

\* A verdict is over exactly the predictions the registry holds, when it is
\* recorded and ever after: none was registered behind the runner's back and
\* none is added or replaced once the labels are open.
VerdictOverAllRows ==
    \A v \in Vintages : Judged(v) => vintage[v].verdict = rows[v]

\* A vintage that is burned has had all its predictions verified: the batch the
\* runner attested holds every row that is registered when it starts.
\* Documented at docs/strategy-research.md:298-299.
BurnedVerifiedAll ==
    \A p \in Procs :
        At(p, "started") /\ ctx[p].evaluation.forward => ctx[p].rows = rows[ctx[p].vintage]

\* The file of a registered prediction is the registered one.
FilesMatchRows ==
    \A v \in Vintages : \A d \in Registered(v) : file[v][d] = rows[v][d]

-----------------------------------------------------------------------------
(* The abstract life of a vintage.                                          *)

StageOf(v) ==
    IF Status(v) # "consumed" THEN Status(v)
    ELSE IF Judged(v) THEN "judged"
    ELSE IF openings[v] # {} THEN "opened"
    ELSE "burned"

Lifecycle == INSTANCE HoldoutLifecycle WITH stage <- [v \in Vintages |-> StageOf(v)]

\* The registry and its processes implement the life of a vintage that
\* HoldoutLifecycle promises.
ImplementsLifecycle == Lifecycle!Spec

-----------------------------------------------------------------------------
(* The inductive invariant.                                                 *)

\* What a process holds in memory, by what it is doing.
Panels == [pc : {"preflight", "panel"}, last : 1..Horizon]
Clocks == [pc : {"sealing", "abandoning"}, vintage : Vintages, at : 0..Horizon]
PredictionsOf(v) == [pc : {"captured", "written", "replaying"}, vintage : {v},
                     decision : Decisions(v), head : 1..MaxHeads]
Predictions == UNION {PredictionsOf(v) : v \in Vintages}
BatchesOf(v) == [pc : {"attested", "receipt", "started", "scoring"}, vintage : {v},
                 rows : [Decisions(v) -> 0..MaxHeads], evaluation : Evaluations]
Batches == UNION {BatchesOf(v) : v \in Vintages}

Context == {Idle} \cup Panels \cup Clocks \cup Predictions \cup Batches

AtAny(p, pcs) == ctx[p].pc \in pcs

\* A panel that is or will be read lies before every sealed interval.
PanelIsOld(p) ==
    AtAny(p, {"preflight", "panel"}) =>
        /\ ctx[p].last <= now
        /\ \A v \in Vintages : Status(v) = "sealed" => ctx[p].last <= Start[v]

\* A clock that was read is at most a bar old when it is used.
ClockIsFresh(p) ==
    AtAny(p, {"sealing", "abandoning"}) =>
        /\ ctx[p].at <= now /\ now <= ctx[p].at + 1
        /\ At(p, "sealing") => ctx[p].at < Start[ctx[p].vintage]

\* A prediction under way has a plan, and while its transaction is open the
\* vintage stays sealed.
PredictionIsPlanned(p) ==
    AtAny(p, {"captured", "written", "replaying"}) =>
        /\ plan[ctx[p].vintage] \in {"burn", "zero_exposure"}
        /\ At(p, "replaying") => lock = p /\ Status(ctx[p].vintage) = "sealed"

\* A batch is made of registered rows, and these stay.
BatchIsRegistered(p) ==
    AtAny(p, {"attested", "receipt", "started", "scoring"}) =>
        \A d \in Decisions(ctx[p].vintage) :
            ctx[p].rows[d] # NoRow => rows[ctx[p].vintage][d] = ctx[p].rows[d]

\* Who scores a vintage has burned it, and opens its labels once.
BurnerIsNamed(p) ==
    AtAny(p, {"started", "scoring"}) =>
        /\ Status(ctx[p].vintage) = "consumed"
        /\ vintage[ctx[p].vintage].evaluation = ctx[p].evaluation
        /\ At(p, "started") <=> openings[ctx[p].vintage] = {}

ProcessHolds(p) ==
    /\ PanelIsOld(p)
    /\ ClockIsFresh(p)
    /\ PredictionIsPlanned(p)
    /\ BatchIsRegistered(p)
    /\ BurnerIsNamed(p)

BurnersAreAlone ==
    \A p, q \in Procs :
        /\ AtAny(p, {"started", "scoring"}) /\ AtAny(q, {"started", "scoring"})
        /\ ctx[p].vintage = ctx[q].vintage
        => p = q

\* What was used has happened, and a burned interval is over.
UsedHasHappened ==
    /\ seen \subseteq 1..now
    /\ \A v \in Vintages : Status(v) = "consumed" => End[v] <= now

\* Intervals in use do not overlap.
AliveAreApart ==
    \A v, w \in Vintages :
        v # w /\ Status(v) = "sealed" /\ Status(w) \in {"sealed", "consumed"}
            => Bars(v) \cap Bars(w) = {}

\* The labels of a vintage are open from its one opening on, which comes after
\* the burning and before the verdict.
OpeningsAreOrdered ==
    \A v \in Vintages :
        \/ openings[v] = {} /\ ~Judged(v)
        \/ /\ Status(v) = "consumed"
           /\ \E p \in Procs : openings[v] = {<<p, vintage[v].evaluation>>}

HoldoutInvariant ==
    /\ TypeOK
    /\ \A f \in {vintage, rows, file, openings} : DOMAIN f = Vintages
    /\ ctx \in [Procs -> Context]
    /\ \A p \in Procs : ProcessHolds(p)
    /\ BurnersAreAlone
    /\ UsedHasHappened
    /\ AliveAreApart
    /\ OpeningsAreOrdered
    /\ SealedIsUnseen
    /\ VerdictOverAllRows
=============================================================================
