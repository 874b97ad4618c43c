------------------------ MODULE HoldoutVintageProofs ------------------------
(***************************************************************************)
(* Proofs about HoldoutVintage, for any processes, vintages, predictions   *)
(* and number of bars: the types of the registry, that a sealed interval   *)
(* is used by nobody, that its labels are opened once and in order, what   *)
(* the verdict is over, and that the registry implements                   *)
(* HoldoutLifecycle.                                                       *)
(***************************************************************************)
EXTENDS HoldoutVintage, FiniteSetTheorems, TLAPS

(***************************************************************************)
(* What a process holds.                                                   *)
(***************************************************************************)

(* The place of a process says what it holds. *)
LEMMA ContextByPlace ==
    ASSUME ctx \in [Procs -> Context], NEW p \in Procs
    PROVE  /\ AtAny(p, {"preflight", "panel"}) => ctx[p] \in Panels
           /\ AtAny(p, {"sealing", "abandoning"}) => ctx[p] \in Clocks
           /\ AtAny(p, {"captured", "written", "replaying"}) =>
                ctx[p].vintage \in Vintages /\ ctx[p] \in PredictionsOf(ctx[p].vintage)
           /\ AtAny(p, {"attested", "receipt", "started", "scoring"}) =>
                ctx[p].vintage \in Vintages /\ ctx[p] \in BatchesOf(ctx[p].vintage)
<1> DEFINE c == ctx[p]
<1>1. c \in Context
  OBVIOUS
<1>2. CASE c = Idle
  BY <1>2 DEF AtAny, Idle
<1>3. CASE c \in Panels
  BY <1>3 DEF AtAny, Panels
<1>4. CASE c \in Clocks
  BY <1>4 DEF AtAny, Clocks
<1>5. ASSUME NEW v \in Vintages, c \in PredictionsOf(v)
      PROVE  /\ c.pc \in {"captured", "written", "replaying"}
             /\ c.vintage = v
  BY <1>5 DEF PredictionsOf
<1>6. ASSUME NEW v \in Vintages, c \in BatchesOf(v)
      PROVE  /\ c.pc \in {"attested", "receipt", "started", "scoring"}
             /\ c.vintage = v
  BY <1>6 DEF BatchesOf
<1>7. CASE c \in Predictions
  BY <1>5, <1>7 DEF AtAny, Predictions
<1>8. CASE c \in Batches
  BY <1>6, <1>8 DEF AtAny, Batches
<1> QED
  BY <1>1, <1>2, <1>3, <1>4, <1>7, <1>8 DEF Context

(* A new context of one process. *)
LEMMA BecomesKeepsContexts ==
    ASSUME ctx \in [Procs -> Context], NEW p \in Procs, NEW c \in Context, Becomes(p, c)
    PROVE  /\ ctx' \in [Procs -> Context]
           /\ ctx'[p] = c
           /\ \A q \in Procs \ {p} : ctx'[q] = ctx[q]
BY DEF Becomes

(* A process moves on with what it holds. *)
LEMMA PanelMoves ==
    ASSUME ctx \in [Procs -> Context], NEW p \in Procs, ctx[p] \in Panels,
           NEW pc \in {"preflight", "panel"}, Moves(p, pc)
    PROVE  /\ ctx' \in [Procs -> Context]
           /\ ctx'[p] = [pc |-> pc, last |-> ctx[p].last]
           /\ \A q \in Procs \ {p} : ctx'[q] = ctx[q]
<1>1. [ctx[p] EXCEPT !.pc = pc] = [pc |-> pc, last |-> ctx[p].last]
  BY DEF Panels
<1>2. [pc |-> pc, last |-> ctx[p].last] \in Context
  BY DEF Context, Panels
<1>3. /\ ctx'[p] = [ctx[p] EXCEPT !.pc = pc]
      /\ \A q \in Procs \ {p} : ctx'[q] = ctx[q]
      /\ ctx' = [q \in Procs |-> ctx'[q]]
  BY DEF Moves
<1> QED
  BY <1>1, <1>2, <1>3

LEMMA PredictionMoves ==
    ASSUME ctx \in [Procs -> Context], NEW p \in Procs, NEW v \in Vintages,
           ctx[p] \in PredictionsOf(v),
           NEW pc \in {"captured", "written", "replaying"}, Moves(p, pc)
    PROVE  /\ ctx' \in [Procs -> Context]
           /\ ctx'[p] = [pc |-> pc, vintage |-> v, decision |-> ctx[p].decision,
                         head |-> ctx[p].head]
           /\ \A q \in Procs \ {p} : ctx'[q] = ctx[q]
<1> DEFINE c == [pc |-> pc, vintage |-> v, decision |-> ctx[p].decision,
                 head |-> ctx[p].head]
<1>1. [ctx[p] EXCEPT !.pc = pc] = c
  BY DEF PredictionsOf
<1>2. c \in PredictionsOf(v)
  BY DEF PredictionsOf
<1>3. /\ ctx'[p] = [ctx[p] EXCEPT !.pc = pc]
      /\ \A q \in Procs \ {p} : ctx'[q] = ctx[q]
      /\ ctx' = [q \in Procs |-> ctx'[q]]
  BY DEF Moves
<1>4. c \in Context
  BY <1>2 DEF Context, Predictions
<1> QED
  BY <1>1, <1>4, <1>3

LEMMA BatchMoves ==
    ASSUME ctx \in [Procs -> Context], NEW p \in Procs, NEW v \in Vintages,
           ctx[p] \in BatchesOf(v),
           NEW pc \in {"attested", "receipt", "started", "scoring"}, Moves(p, pc)
    PROVE  /\ ctx' \in [Procs -> Context]
           /\ ctx'[p] = [pc |-> pc, vintage |-> v, rows |-> ctx[p].rows,
                         evaluation |-> ctx[p].evaluation]
           /\ \A q \in Procs \ {p} : ctx'[q] = ctx[q]
<1> DEFINE c == [pc |-> pc, vintage |-> v, rows |-> ctx[p].rows,
                 evaluation |-> ctx[p].evaluation]
<1>1. [ctx[p] EXCEPT !.pc = pc] = c
  BY DEF BatchesOf
<1>2. c \in BatchesOf(v)
  BY DEF BatchesOf
<1>3. /\ ctx'[p] = [ctx[p] EXCEPT !.pc = pc]
      /\ \A q \in Procs \ {p} : ctx'[q] = ctx[q]
      /\ ctx' = [q \in Procs |-> ctx'[q]]
  BY DEF Moves
<1>4. c \in Context
  BY <1>2 DEF Context, Batches
<1> QED
  BY <1>1, <1>4, <1>3

(***************************************************************************)
(* Steps of one process that leave the registry of vintages alone.         *)
(***************************************************************************)

(* What the other processes and the vintages satisfy stays true when one   *)
(* process changes only what it holds.                                     *)
LEMMA OwnStep ==
    ASSUME HoldoutInvariant, NEW p \in Procs,
           ctx' \in [Procs -> Context],
           \A q \in Procs \ {p} : ctx'[q] = ctx[q],
           UNCHANGED <<now, vintage, plan, rows, history>>,
           TypeOK', DOMAIN file' = Vintages,
           \A q \in Procs \ {p} : lock = q => lock' = q,
           ProcessHolds(p)',
           AtAny(p, {"started", "scoring"})' =>
                /\ AtAny(p, {"started", "scoring"})
                /\ ctx'[p].vintage = ctx[p].vintage
    PROVE  HoldoutInvariant'
<1> USE DEF history
<1>1. \A q \in Procs : ProcessHolds(q)'
  <2> SUFFICES ASSUME NEW q \in Procs \ {p} PROVE ProcessHolds(q)'
    OBVIOUS
  <2>1. ProcessHolds(q) /\ ctx'[q] = ctx[q] /\ (lock = q => lock' = q)
    BY DEF HoldoutInvariant
  <2>2. PanelIsOld(q)' /\ ClockIsFresh(q)'
    BY <2>1 DEF ProcessHolds, PanelIsOld, ClockIsFresh, AtAny, At, Status
  <2>3. PredictionIsPlanned(q)'
    BY <2>1 DEF ProcessHolds, PredictionIsPlanned, AtAny, At, Status
  <2>4. BatchIsRegistered(q)' /\ BurnerIsNamed(q)'
    BY <2>1 DEF ProcessHolds, BatchIsRegistered, BurnerIsNamed, AtAny, At, Status
  <2> QED
    BY <2>2, <2>3, <2>4 DEF ProcessHolds
<1>2. BurnersAreAlone'
  BY DEF HoldoutInvariant, BurnersAreAlone, AtAny
<1>3. UsedHasHappened' /\ AliveAreApart' /\ SealedIsUnseen'
  BY DEF HoldoutInvariant, UsedHasHappened, AliveAreApart, SealedIsUnseen, Status
<1>4. OpeningsAreOrdered' /\ VerdictOverAllRows'
  BY DEF HoldoutInvariant, OpeningsAreOrdered, VerdictOverAllRows, Status, Judged
<1>5. \A f \in {vintage, rows, file, openings}' : DOMAIN f = Vintages
  BY DEF HoldoutInvariant
<1> QED
  BY <1>1, <1>2, <1>3, <1>4, <1>5 DEF HoldoutInvariant

(* Preflight, the panel and the declaration of what it held. *)
LEMMA DevelopmentKeeps ==
    ASSUME HoldoutInvariant, NEW p \in Procs, Preflight(p) \/ RegisterExposure(p)
    PROVE  HoldoutInvariant'
<1> USE DEF data, registry
<1>1. CASE Preflight(p)
  <2>1. PICK last \in 1..arrived :
            /\ ~SealedWithin(last)
            /\ Becomes(p, [pc |-> "preflight", last |-> last])
    BY <1>1 DEF Preflight
  <2>2. last \in 1..Horizon /\ last <= now
    BY <2>1, BoundsAssumption DEF HoldoutInvariant, TypeOK
  <2>3. [pc |-> "preflight", last |-> last] \in Context
    BY <2>2 DEF Context, Panels
  <2>4. /\ ctx' \in [Procs -> Context]
        /\ ctx'[p] = [pc |-> "preflight", last |-> last]
        /\ \A q \in Procs \ {p} : ctx'[q] = ctx[q]
    BY <2>1, <2>3, BecomesKeepsContexts DEF HoldoutInvariant
  <2>5. \A v \in Vintages : Status(v) = "sealed" => last <= Start[v]
    BY <2>1, <2>2, VintagesAssumption DEF SealedWithin
  <2>6. ProcessHolds(p)'
    BY <1>1, <2>2, <2>4, <2>5 DEF Preflight, ProcessHolds, PanelIsOld, ClockIsFresh,
        PredictionIsPlanned, BatchIsRegistered, BurnerIsNamed, AtAny, Status
  <2>7. TypeOK'
    BY <1>1 DEF Preflight, HoldoutInvariant, TypeOK, Status, Registered, Judged
  <2> QED
    BY <1>1, <2>4, <2>6, <2>7, OwnStep DEF Preflight, AtAny, HoldoutInvariant
<1>2. CASE RegisterExposure(p)
  <2>1. ctx[p] \in Panels
    BY <1>2, ContextByPlace DEF RegisterExposure, HoldoutInvariant, At, AtAny
  <2>2. /\ ctx' \in [Procs -> Context]
        /\ ctx'[p] = Idle
        /\ \A q \in Procs \ {p} : ctx'[q] = ctx[q]
    BY <1>2, BecomesKeepsContexts DEF RegisterExposure, Context, HoldoutInvariant
  <2>3. ProcessHolds(p)'
    BY <2>2 DEF ProcessHolds, PanelIsOld, ClockIsFresh, PredictionIsPlanned,
        BatchIsRegistered, BurnerIsNamed, AtAny, Idle
  <2>4. exposed' \in 0..Horizon
    BY <1>2, <2>1 DEF RegisterExposure, HoldoutInvariant, TypeOK, Panels
  <2>5. TypeOK'
    BY <1>2, <2>4 DEF RegisterExposure, HoldoutInvariant, TypeOK, Status, Registered, Judged
  <2> QED
    BY <1>2, <2>2, <2>3, <2>5, OwnStep DEF RegisterExposure, AtAny, Idle, HoldoutInvariant
<1> QED
  BY <1>1, <1>2

(* Reading the clock to seal or to give up an interval. *)
LEMMA ReadClockKeeps ==
    ASSUME HoldoutInvariant, NEW p \in Procs, NEW v \in Vintages,
           ReadSealClock(p, v) \/ ReadAbandonClock(p, v)
    PROVE  HoldoutInvariant'
<1> USE DEF data, registry
<1>1. PICK pc \in {"sealing", "abandoning"} :
          /\ Becomes(p, [pc |-> pc, vintage |-> v, at |-> now])
          /\ pc = "sealing" => now < Start[v]
          /\ UNCHANGED <<data, registry, file, lock, history>>
  BY DEF ReadSealClock, ReadAbandonClock, BeforeStart
<1>2. now \in 0..Horizon
  BY DEF HoldoutInvariant, TypeOK
<1>3. [pc |-> pc, vintage |-> v, at |-> now] \in Context
  BY <1>2 DEF Context, Clocks
<1>4. /\ ctx' \in [Procs -> Context]
      /\ ctx'[p] = [pc |-> pc, vintage |-> v, at |-> now]
      /\ \A q \in Procs \ {p} : ctx'[q] = ctx[q]
  BY <1>1, <1>3, BecomesKeepsContexts DEF HoldoutInvariant
<1>5. ClockIsFresh(p)'
  BY <1>1, <1>2, <1>4, BoundsAssumption DEF ClockIsFresh, AtAny, At
<1>6. ProcessHolds(p)'
  BY <1>4, <1>5 DEF ProcessHolds, PanelIsOld, PredictionIsPlanned, BatchIsRegistered,
      BurnerIsNamed, AtAny
<1>7. TypeOK'
  BY <1>1 DEF HoldoutInvariant, TypeOK, Status, Registered, Judged
<1> QED
  BY <1>1, <1>4, <1>6, <1>7, OwnStep DEF AtAny, HoldoutInvariant

(* A prediction up to its transaction. *)
LEMMA CaptureKeeps ==
    ASSUME HoldoutInvariant, NEW p \in Procs, NEW v \in Vintages, CapturePrediction(p, v)
    PROVE  HoldoutInvariant'
<1> USE DEF data, registry
<1>1. PICK last \in Decisions(v) :
          Becomes(p, [pc |-> "captured", vintage |-> v, decision |-> last, head |-> head])
  BY Zenon DEF CapturePrediction
<1>2. head \in 1..MaxHeads
  BY BoundsAssumption DEF CapturePrediction, HoldoutInvariant, TypeOK
<1> DEFINE c == [pc |-> "captured", vintage |-> v, decision |-> last, head |-> head]
<1>3. c \in PredictionsOf(v)
  BY <1>1, <1>2 DEF PredictionsOf
<1>4. c \in Context
  BY <1>3 DEF Context, Predictions
<1>5. /\ ctx' \in [Procs -> Context]
      /\ ctx'[p] = c
      /\ \A q \in Procs \ {p} : ctx'[q] = ctx[q]
  BY <1>1, <1>4, BecomesKeepsContexts DEF HoldoutInvariant
<1>6. PredictionIsPlanned(p)'
  BY <1>5 DEF CapturePrediction, PredictionIsPlanned, At
<1>7. ProcessHolds(p)'
  BY <1>5, <1>6 DEF ProcessHolds, PanelIsOld, ClockIsFresh, BatchIsRegistered,
      BurnerIsNamed, AtAny
<1>8. TypeOK'
  BY DEF CapturePrediction, HoldoutInvariant, TypeOK, Status, Registered, Judged
<1> QED
  BY <1>5, <1>7, <1>8, OwnStep DEF CapturePrediction, AtAny, HoldoutInvariant

LEMMA WriteKeeps ==
    ASSUME HoldoutInvariant, NEW p \in Procs, WritePrediction(p)
    PROVE  HoldoutInvariant'
<1> USE DEF data, registry
<1> DEFINE v == ctx[p].vintage
<1>1. v \in Vintages /\ ctx[p] \in PredictionsOf(v)
  BY ContextByPlace DEF WritePrediction, HoldoutInvariant, At, AtAny
<1>2. /\ ctx' \in [Procs -> Context]
      /\ ctx'[p] = [pc |-> "written", vintage |-> v, decision |-> ctx[p].decision,
                    head |-> ctx[p].head]
      /\ \A q \in Procs \ {p} : ctx'[q] = ctx[q]
  BY <1>1, PredictionMoves DEF WritePrediction, HoldoutInvariant
<1>3. PredictionIsPlanned(p)'
  BY <1>2 DEF WritePrediction, HoldoutInvariant, ProcessHolds, PredictionIsPlanned, At, AtAny
<1>4. ProcessHolds(p)'
  BY <1>2, <1>3 DEF ProcessHolds, PanelIsOld, ClockIsFresh, BatchIsRegistered,
      BurnerIsNamed, AtAny
<1>5. file' = [file EXCEPT ![v][ctx[p].decision] = ctx[p].head] /\ DOMAIN file = Vintages
  BY DEF WritePrediction, HoldoutInvariant
<1>6. \A w \in Vintages : file'[w] \in [Decisions(w) -> 0..MaxHeads]
  BY <1>1, <1>5, BoundsAssumption DEF PredictionsOf, HoldoutInvariant, TypeOK
<1>7. TypeOK'
  BY <1>6 DEF WritePrediction, HoldoutInvariant, TypeOK, Status, Registered, Judged
<1> QED
  BY <1>2, <1>4, <1>5, <1>7, OwnStep DEF WritePrediction, AtAny, HoldoutInvariant

LEMMA BeginKeeps ==
    ASSUME HoldoutInvariant, NEW p \in Procs, BeginPrediction(p)
    PROVE  HoldoutInvariant'
<1> USE DEF data, registry
<1> DEFINE v == ctx[p].vintage
<1>1. v \in Vintages /\ ctx[p] \in PredictionsOf(v)
  BY ContextByPlace DEF BeginPrediction, HoldoutInvariant, At, AtAny
<1>2. /\ ctx' \in [Procs -> Context]
      /\ ctx'[p] = [pc |-> "replaying", vintage |-> v, decision |-> ctx[p].decision,
                    head |-> ctx[p].head]
      /\ \A q \in Procs \ {p} : ctx'[q] = ctx[q]
  BY <1>1, PredictionMoves DEF BeginPrediction, HoldoutInvariant
<1>3. PredictionIsPlanned(p)'
  BY <1>2 DEF BeginPrediction, AcceptsPrediction, HoldoutInvariant, ProcessHolds,
      PredictionIsPlanned, Status, At, AtAny
<1>4. ProcessHolds(p)'
  BY <1>2, <1>3 DEF ProcessHolds, PanelIsOld, ClockIsFresh, BatchIsRegistered,
      BurnerIsNamed, AtAny
<1>5. TypeOK'
  BY DEF BeginPrediction, HoldoutInvariant, TypeOK, Status, Registered, Judged
<1>6. \A q \in Procs : lock # q
  BY ProcsAssumption DEF BeginPrediction
<1> QED
  BY <1>2, <1>4, <1>5, <1>6, OwnStep DEF BeginPrediction, AtAny, HoldoutInvariant

(* The runner of an evaluation up to the burning. *)
LEMMA CaptureBatchKeeps ==
    ASSUME HoldoutInvariant, NEW p \in Procs, NEW v \in Vintages, NEW forward \in BOOLEAN,
           CaptureBatch(p, v, forward)
    PROVE  HoldoutInvariant'
<1> USE DEF data, registry
<1> DEFINE e == [head |-> head, forward |-> forward]
           c == [pc |-> "attested", vintage |-> v, rows |-> rows[v], evaluation |-> e]
<1>1. head \in 1..MaxHeads
  BY BoundsAssumption DEF CaptureBatch, HoldoutInvariant, TypeOK
<1>2. e \in Evaluations /\ rows[v] \in [Decisions(v) -> 0..MaxHeads]
  BY <1>1 DEF Evaluations, HoldoutInvariant, TypeOK
<1>3. c \in BatchesOf(v)
  BY <1>2 DEF BatchesOf
<1>4. c \in Context
  BY <1>3 DEF Context, Batches
<1>5. /\ ctx' \in [Procs -> Context]
      /\ ctx'[p] = c
      /\ \A q \in Procs \ {p} : ctx'[q] = ctx[q]
  BY <1>4, BecomesKeepsContexts DEF CaptureBatch, HoldoutInvariant
<1>6. ProcessHolds(p)'
  BY <1>5 DEF CaptureBatch, ProcessHolds, PanelIsOld, ClockIsFresh, PredictionIsPlanned,
      BatchIsRegistered, BurnerIsNamed, AtAny
<1>7. TypeOK'
  BY DEF CaptureBatch, HoldoutInvariant, TypeOK, Status, Registered, Judged
<1> QED
  BY <1>5, <1>6, <1>7, OwnStep DEF CaptureBatch, AtAny, HoldoutInvariant

LEMMA ReceiptKeeps ==
    ASSUME HoldoutInvariant, NEW p \in Procs, RegisterReceipt(p)
    PROVE  HoldoutInvariant'
<1> USE DEF data, registry
<1> DEFINE v == ctx[p].vintage
<1>1. v \in Vintages /\ ctx[p] \in BatchesOf(v)
  BY ContextByPlace DEF RegisterReceipt, HoldoutInvariant, At, AtAny
<1>2. /\ ctx' \in [Procs -> Context]
      /\ ctx'[p] = [pc |-> "receipt", vintage |-> v, rows |-> ctx[p].rows,
                    evaluation |-> ctx[p].evaluation]
      /\ \A q \in Procs \ {p} : ctx'[q] = ctx[q]
  BY <1>1, BatchMoves DEF RegisterReceipt, HoldoutInvariant
<1>3. BatchIsRegistered(p)'
  BY <1>2 DEF RegisterReceipt, HoldoutInvariant, ProcessHolds, BatchIsRegistered, At, AtAny
<1>4. ProcessHolds(p)'
  BY <1>2, <1>3 DEF ProcessHolds, PanelIsOld, ClockIsFresh, PredictionIsPlanned,
      BurnerIsNamed, AtAny
<1>5. TypeOK'
  BY DEF RegisterReceipt, HoldoutInvariant, TypeOK, Status, Registered, Judged
<1> QED
  BY <1>2, <1>4, <1>5, OwnStep DEF RegisterReceipt, AtAny, HoldoutInvariant

(* A process that ends holds nothing. *)
LEMMA QuitKeeps ==
    ASSUME HoldoutInvariant, NEW p \in Procs, Quit(p)
    PROVE  HoldoutInvariant'
<1> USE DEF data, registry
<1>1. /\ ctx' \in [Procs -> Context]
      /\ ctx'[p] = Idle
      /\ \A q \in Procs \ {p} : ctx'[q] = ctx[q]
  BY BecomesKeepsContexts DEF Quit, Context, HoldoutInvariant
<1>2. ProcessHolds(p)'
  BY <1>1 DEF ProcessHolds, PanelIsOld, ClockIsFresh, PredictionIsPlanned,
      BatchIsRegistered, BurnerIsNamed, AtAny, Idle
<1>3. lock' \in Procs \cup {Free} /\ \A q \in Procs \ {p} : lock = q => lock' = q
  BY DEF Quit, HoldoutInvariant, TypeOK
<1>4. TypeOK'
  BY <1>3 DEF Quit, HoldoutInvariant, TypeOK, Status, Registered, Judged
<1> QED
  BY <1>1, <1>2, <1>3, <1>4, OwnStep DEF Quit, AtAny, Idle, HoldoutInvariant

(***************************************************************************)
(* Steps of the world and of the registry.                                 *)
(***************************************************************************)

(* The clock: a clock that was read is one bar old at most. *)
LEMMA TickKeeps ==
    ASSUME HoldoutInvariant, Tick
    PROVE  HoldoutInvariant'
<1> USE DEF registry, history
<1>1. now \in Nat /\ now' = now + 1 /\ now' \in 0..Horizon
  BY BoundsAssumption DEF Tick, HoldoutInvariant, TypeOK
<1>2. TypeOK'
  BY <1>1, BoundsAssumption DEF Tick, HoldoutInvariant, TypeOK, Status, Registered, Judged
<1>3. ASSUME NEW p \in Procs
      PROVE  ProcessHolds(p)'
  <2>1. ProcessHolds(p) /\ UNCHANGED <<ctx, vintage, plan, rows, openings, lock>>
    BY DEF HoldoutInvariant, Tick
  <2>2. PanelIsOld(p)'
    <3> SUFFICES ASSUME AtAny(p, {"preflight", "panel"}) PROVE PanelIsOld(p)'
      BY <2>1 DEF PanelIsOld, AtAny
    <3>1. ctx[p] \in Panels
      BY ContextByPlace DEF HoldoutInvariant
    <3> QED
      BY <1>1, <2>1, <3>1 DEF ProcessHolds, PanelIsOld, AtAny, Status, Panels
  <2>3. ClockIsFresh(p)'
    BY <1>1, <2>1 DEF Tick, ClockIsFresh, ProcessHolds, AtAny, At
  <2>4. PredictionIsPlanned(p)' /\ BatchIsRegistered(p)' /\ BurnerIsNamed(p)'
    BY <2>1 DEF ProcessHolds, PredictionIsPlanned, BatchIsRegistered, BurnerIsNamed,
        AtAny, At, Status
  <2> QED
    BY <2>2, <2>3, <2>4 DEF ProcessHolds
<1>4. UsedHasHappened'
  BY <1>1, VintagesAssumption DEF Tick, HoldoutInvariant, UsedHasHappened, Status
<1>5. BurnersAreAlone' /\ AliveAreApart' /\ OpeningsAreOrdered'
  BY DEF Tick, HoldoutInvariant, BurnersAreAlone, AliveAreApart, OpeningsAreOrdered,
      Status, Judged, AtAny
<1>6. SealedIsUnseen' /\ VerdictOverAllRows'
  BY DEF Tick, HoldoutInvariant, SealedIsUnseen, VerdictOverAllRows, Status, Judged
<1> QED
  BY <1>2, <1>3, <1>4, <1>5, <1>6 DEF Tick, HoldoutInvariant

(* The heads of the data, and steps that change nothing. *)
LEMMA PublishKeeps ==
    ASSUME HoldoutInvariant, PublishHead \/ UNCHANGED vars
    PROVE  HoldoutInvariant'
<1> USE DEF registry, history, data
<1>1. UNCHANGED <<now, registry, file, lock, ctx, history>>
  BY DEF PublishHead, vars
<1>2. TypeOK'
  BY <1>1, BoundsAssumption DEF PublishHead, vars, HoldoutInvariant, TypeOK, Status,
      Registered, Judged
<1>3. ASSUME NEW p \in Procs
      PROVE  ProcessHolds(p)'
  BY <1>1 DEF HoldoutInvariant, ProcessHolds, PanelIsOld, ClockIsFresh,
      PredictionIsPlanned, BatchIsRegistered, BurnerIsNamed, AtAny, At, Status
<1>4. UsedHasHappened' /\ BurnersAreAlone' /\ AliveAreApart' /\ OpeningsAreOrdered'
  BY <1>1 DEF HoldoutInvariant, UsedHasHappened, BurnersAreAlone, AliveAreApart,
      OpeningsAreOrdered, Status, Judged, AtAny
<1>5. SealedIsUnseen' /\ VerdictOverAllRows'
  BY <1>1 DEF HoldoutInvariant, SealedIsUnseen, VerdictOverAllRows, Status, Judged
<1> QED
  BY <1>1, <1>2, <1>3, <1>4, <1>5 DEF HoldoutInvariant

(* A plan is the first of its vintage, so nothing was predicted for it. *)
LEMMA PlanKeeps ==
    ASSUME HoldoutInvariant, NEW v \in Vintages, RegisterPlan(v)
    PROVE  HoldoutInvariant'
<1> USE DEF history, data
<1>1. /\ UNCHANGED <<data, vintage, exposed, rows, file, lock, ctx, history>>
      /\ plan[v] = "none"
      /\ plan' \in [Vintages -> PlanKinds]
      /\ \A w \in Vintages \ {v} : plan'[w] = plan[w]
  BY DEF RegisterPlan, HoldoutInvariant, TypeOK
<1>2. TypeOK'
  BY <1>1 DEF HoldoutInvariant, TypeOK, Status, Registered, Judged
<1>3. ASSUME NEW p \in Procs
      PROVE  ProcessHolds(p)'
  <2>1. ProcessHolds(p)
    BY DEF HoldoutInvariant
  <2>2. PredictionIsPlanned(p)'
    <3> SUFFICES ASSUME AtAny(p, {"captured", "written", "replaying"})
                 PROVE  PredictionIsPlanned(p)'
      BY <1>1 DEF PredictionIsPlanned, AtAny
    <3>1. ctx[p].vintage \in Vintages
      BY ContextByPlace DEF HoldoutInvariant
    <3> QED
      BY <1>1, <2>1, <3>1 DEF ProcessHolds, PredictionIsPlanned, AtAny, At, Status
  <2> QED
    BY <1>1, <2>1, <2>2 DEF ProcessHolds, PanelIsOld, ClockIsFresh, BatchIsRegistered,
        BurnerIsNamed, AtAny, At, Status
<1>4. UsedHasHappened' /\ BurnersAreAlone' /\ AliveAreApart' /\ OpeningsAreOrdered'
  BY <1>1 DEF HoldoutInvariant, UsedHasHappened, BurnersAreAlone, AliveAreApart,
      OpeningsAreOrdered, Status, Judged, AtAny
<1>5. SealedIsUnseen' /\ VerdictOverAllRows'
  BY <1>1 DEF HoldoutInvariant, SealedIsUnseen, VerdictOverAllRows, Status, Judged
<1> QED
  BY <1>1, <1>2, <1>3, <1>4, <1>5 DEF HoldoutInvariant

(* A panel is read before every sealed interval. *)
LEMMA PanelKeeps ==
    ASSUME HoldoutInvariant, NEW p \in Procs, OpenPanel(p)
    PROVE  HoldoutInvariant'
<1> USE DEF data, registry
<1> DEFINE last == ctx[p].last
<1>1. ctx[p] \in Panels /\ PanelIsOld(p)
  BY ContextByPlace DEF OpenPanel, HoldoutInvariant, ProcessHolds, At, AtAny
<1>2. last \in 1..Horizon /\ last <= now
      /\ \A v \in Vintages : Status(v) = "sealed" => last <= Start[v]
  BY <1>1 DEF OpenPanel, PanelIsOld, Panels, At, AtAny
<1>3. /\ ctx' \in [Procs -> Context]
      /\ ctx'[p] = [pc |-> "panel", last |-> last]
      /\ \A q \in Procs \ {p} : ctx'[q] = ctx[q]
  BY <1>1, PanelMoves DEF OpenPanel, HoldoutInvariant
<1>4. TypeOK'
  BY DEF OpenPanel, HoldoutInvariant, TypeOK, Status, Registered, Judged
<1>5. ASSUME NEW q \in Procs
      PROVE  ProcessHolds(q)'
  <2>1. CASE q = p
    BY <1>2, <1>3, <2>1 DEF OpenPanel, ProcessHolds, PanelIsOld, ClockIsFresh,
        PredictionIsPlanned, BatchIsRegistered, BurnerIsNamed, AtAny, Status
  <2>2. CASE q # p
    <3>1. ProcessHolds(q) /\ ctx'[q] = ctx[q]
          /\ UNCHANGED <<now, vintage, plan, rows, lock, openings>>
      BY <1>3, <2>2 DEF OpenPanel, HoldoutInvariant
    <3>2. PanelIsOld(q)' /\ ClockIsFresh(q)'
      BY <3>1 DEF ProcessHolds, PanelIsOld, ClockIsFresh, AtAny, At, Status
    <3>3. PredictionIsPlanned(q)' /\ BatchIsRegistered(q)' /\ BurnerIsNamed(q)'
      BY <3>1 DEF ProcessHolds, PredictionIsPlanned, BatchIsRegistered, BurnerIsNamed,
          AtAny, At, Status
    <3> QED
      BY <3>2, <3>3 DEF ProcessHolds
  <2> QED
    BY <2>1, <2>2
<1>6. BurnersAreAlone'
  BY <1>3 DEF HoldoutInvariant, BurnersAreAlone, AtAny
<1>7. UsedHasHappened'
  <2>1. now \in Nat /\ UNCHANGED <<now, vintage>> /\ seen' = seen \cup 1..last
        /\ UsedHasHappened
    BY BoundsAssumption DEF OpenPanel, HoldoutInvariant, TypeOK
  <2>2. 1..last \subseteq 1..now
    BY <1>2, <2>1, BoundsAssumption
  <2> QED
    BY <2>1, <2>2 DEF UsedHasHappened, Status
<1>8. SealedIsUnseen'
  BY <1>2, VintagesAssumption, BoundsAssumption
     DEF OpenPanel, HoldoutInvariant, SealedIsUnseen, Status, Bars
<1>9. AliveAreApart' /\ OpeningsAreOrdered' /\ VerdictOverAllRows'
  BY DEF OpenPanel, HoldoutInvariant, AliveAreApart, OpeningsAreOrdered,
      VerdictOverAllRows, Status, Judged
<1> QED
  BY <1>3, <1>4, <1>5, <1>6, <1>7, <1>8, <1>9 DEF OpenPanel, HoldoutInvariant

(* A process that ends a transaction on vintage v: what the others hold    *)
(* stays true when the vintage is not one they work on.                    *)
LEMMA OthersHold ==
    ASSUME HoldoutInvariant, NEW p \in Procs, NEW v \in Vintages, lock = Free,
           \A q \in Procs \ {p} : ctx'[q] = ctx[q],
           UNCHANGED <<data, plan, rows, lock, history>>,
           \A w \in Vintages \ {v} : vintage'[w] = vintage[w],
           Status(v)' = "sealed" => now <= Start[v],
           \A q \in Procs \ {p} :
                AtAny(q, {"started", "scoring"}) /\ ctx[q].vintage = v =>
                    Status(v)' = Status(v)
                    /\ vintage'[v].evaluation = vintage[v].evaluation
    PROVE  \A q \in Procs \ {p} : ProcessHolds(q)'
<1> USE DEF data, history
<1> SUFFICES ASSUME NEW q \in Procs \ {p} PROVE ProcessHolds(q)'
  OBVIOUS
<1>1. ProcessHolds(q) /\ ctx'[q] = ctx[q] /\ lock # q
  BY ProcsAssumption DEF HoldoutInvariant
<1>2. PanelIsOld(q)'
  <2> SUFFICES ASSUME AtAny(q, {"preflight", "panel"}) PROVE PanelIsOld(q)'
    BY <1>1 DEF PanelIsOld, AtAny
  <2>1. ctx[q] \in Panels /\ now \in Nat
    BY ContextByPlace, BoundsAssumption DEF HoldoutInvariant, TypeOK
  <2> QED
    BY <1>1, <2>1, VintagesAssumption, BoundsAssumption
       DEF ProcessHolds, PanelIsOld, AtAny, Status, Panels
<1>3. ClockIsFresh(q)'
  BY <1>1 DEF ProcessHolds, ClockIsFresh, AtAny, At
<1>4. PredictionIsPlanned(q)' /\ BatchIsRegistered(q)'
  BY <1>1 DEF ProcessHolds, PredictionIsPlanned, BatchIsRegistered, AtAny, At
<1>5. BurnerIsNamed(q)'
  <2> SUFFICES ASSUME AtAny(q, {"started", "scoring"}) PROVE BurnerIsNamed(q)'
    BY <1>1 DEF BurnerIsNamed, AtAny
  <2>1. ctx[q].vintage \in Vintages
    BY ContextByPlace DEF HoldoutInvariant, AtAny
  <2> QED
    BY <1>1, <2>1 DEF ProcessHolds, BurnerIsNamed, AtAny, At, Status
<1> QED
  BY <1>2, <1>3, <1>4, <1>5 DEF ProcessHolds

(* An interval that is sealed has not begun, and overlaps none in use. *)
LEMMA SealKeeps ==
    ASSUME HoldoutInvariant, NEW p \in Procs, SealVintage(p)
    PROVE  HoldoutInvariant'
<1> USE DEF data, history
<1> DEFINE v == ctx[p].vintage
<1>1. ctx[p] \in Clocks /\ ClockIsFresh(p) /\ v \in Vintages
  <2>1. ctx[p] \in Clocks
    BY ContextByPlace DEF SealVintage, HoldoutInvariant, At, AtAny
  <2> QED
    BY <2>1 DEF Clocks, HoldoutInvariant, ProcessHolds
<1>2. now \in Nat /\ now <= Start[v] /\ Start[v] \in Nat
  <2>1. ctx[p].at < Start[v] /\ now <= ctx[p].at + 1 /\ ctx[p].at \in Nat
    BY <1>1, BoundsAssumption DEF SealVintage, ClockIsFresh, At, AtAny, Clocks
  <2> QED
    BY <1>1, <2>1, VintagesAssumption, BoundsAssumption DEF HoldoutInvariant, TypeOK
<1>3. Status(v) \in {"unsealed"}
  <2>1. Overlap(v, v)
    BY <1>1, <1>2, VintagesAssumption DEF Overlap, Bars
  <2>2. vintage[v].status \in {"unsealed", "sealed", "consumed", "abandoned"}
    BY <1>1 DEF HoldoutInvariant, TypeOK
  <2> QED
    BY <1>1, <2>1, <2>2 DEF SealVintage, Sealable, Status
<1>4. /\ ctx' \in [Procs -> Context]
      /\ ctx'[p] = Idle
      /\ \A q \in Procs \ {p} : ctx'[q] = ctx[q]
  BY BecomesKeepsContexts DEF SealVintage, Context, HoldoutInvariant
<1>5. /\ DOMAIN vintage' = Vintages
      /\ \A w \in Vintages \ {v} : vintage'[w] = vintage[w]
      /\ vintage'[v] = [vintage[v] EXCEPT !.status = "sealed"]
  BY <1>1 DEF SealVintage, HoldoutInvariant
<1>6. /\ vintage'[v].status = "sealed"
      /\ vintage'[v].evaluation = vintage[v].evaluation
      /\ vintage'[v].verdict = vintage[v].verdict
      /\ vintage'[v] \in [status : {"unsealed", "sealed", "consumed", "abandoned"},
                          abandonedAt : 0..Horizon,
                          evaluation : Evaluations \cup {NoEvaluation},
                          verdict : [Decisions(v) -> 0..MaxHeads] \cup {NoVerdict}]
  BY <1>1, <1>5 DEF HoldoutInvariant, TypeOK
<1>7. TypeOK'
  BY <1>3, <1>5, <1>6 DEF SealVintage, HoldoutInvariant, TypeOK, Status, Registered, Judged
<1>8. \A q \in Procs : ProcessHolds(q)'
  <2>1. ProcessHolds(p)'
    BY <1>4 DEF ProcessHolds, PanelIsOld, ClockIsFresh, PredictionIsPlanned,
        BatchIsRegistered, BurnerIsNamed, AtAny, Idle
  <2>2. \A q \in Procs : AtAny(q, {"started", "scoring"}) => ctx[q].vintage # v
    BY <1>3 DEF HoldoutInvariant, ProcessHolds, BurnerIsNamed
  <2>3. \A q \in Procs \ {p} : ProcessHolds(q)'
    BY <1>1, <1>2, <1>4, <1>5, <2>2, OthersHold DEF SealVintage
  <2> QED
    BY <2>1, <2>3
<1>9. BurnersAreAlone'
  BY <1>4 DEF HoldoutInvariant, BurnersAreAlone, AtAny, Idle
<1>10. UsedHasHappened'
  BY <1>5, <1>6 DEF SealVintage, HoldoutInvariant, UsedHasHappened, Status
<1>11. AliveAreApart'
  <2>1. \A w \in Vintages : Status(w) \in {"sealed", "consumed"} =>
            Bars(v) \cap Bars(w) = {}
    BY <1>1 DEF SealVintage, Sealable, Status, Overlap
  <2>2. \A w \in Vintages \ {v} : Status(w)' = Status(w)
    BY <1>5 DEF Status
  <2> QED
    BY <2>1, <2>2 DEF HoldoutInvariant, AliveAreApart
<1>12. OpeningsAreOrdered'
  BY <1>3, <1>5, <1>6 DEF SealVintage, HoldoutInvariant, OpeningsAreOrdered, Status, Judged
<1>13. SealedIsUnseen'
  <2>1. Bars(v) \cap seen = {}
    BY <1>2, VintagesAssumption DEF HoldoutInvariant, UsedHasHappened, Bars
  <2> QED
    BY <1>5, <2>1 DEF SealVintage, HoldoutInvariant, SealedIsUnseen, Status
<1>14. VerdictOverAllRows'
  BY <1>5, <1>6 DEF SealVintage, HoldoutInvariant, VerdictOverAllRows, Judged
<1> QED
  BY <1>4, <1>5, <1>7, <1>8, <1>9, <1>10, <1>11, <1>12, <1>13, <1>14
     DEF SealVintage, HoldoutInvariant

(* Only a sealed vintage is given up, and nobody works on it. *)
LEMMA AbandonKeeps ==
    ASSUME HoldoutInvariant, NEW p \in Procs, AbandonVintage(p)
    PROVE  HoldoutInvariant'
<1> USE DEF data, history
<1> DEFINE v == ctx[p].vintage
<1>1. ctx[p] \in Clocks /\ v \in Vintages
  BY ContextByPlace DEF AbandonVintage, HoldoutInvariant, At, AtAny, Clocks
<1>2. Status(v) = "sealed"
  BY DEF AbandonVintage, MayAbandon
<1>3. /\ ctx' \in [Procs -> Context]
      /\ ctx'[p] = Idle
      /\ \A q \in Procs \ {p} : ctx'[q] = ctx[q]
  BY BecomesKeepsContexts DEF AbandonVintage, Context, HoldoutInvariant
<1>4. /\ DOMAIN vintage' = Vintages
      /\ \A w \in Vintages \ {v} : vintage'[w] = vintage[w]
      /\ vintage'[v] = [vintage[v] EXCEPT !.status = "abandoned",
                                          !.abandonedAt = ctx[p].at]
  BY <1>1 DEF AbandonVintage, HoldoutInvariant
<1>5. /\ vintage'[v].status = "abandoned"
      /\ vintage'[v].evaluation = vintage[v].evaluation
      /\ vintage'[v].verdict = vintage[v].verdict
      /\ vintage'[v] \in [status : {"unsealed", "sealed", "consumed", "abandoned"},
                          abandonedAt : 0..Horizon,
                          evaluation : Evaluations \cup {NoEvaluation},
                          verdict : [Decisions(v) -> 0..MaxHeads] \cup {NoVerdict}]
  BY <1>1, <1>4 DEF HoldoutInvariant, TypeOK, Clocks
<1>6. TypeOK'
  BY <1>2, <1>4, <1>5 DEF AbandonVintage, HoldoutInvariant, TypeOK, Status, Registered, Judged
<1>7. \A q \in Procs : ProcessHolds(q)'
  <2>1. ProcessHolds(p)'
    BY <1>3 DEF ProcessHolds, PanelIsOld, ClockIsFresh, PredictionIsPlanned,
        BatchIsRegistered, BurnerIsNamed, AtAny, Idle
  <2>2. \A q \in Procs : AtAny(q, {"started", "scoring"}) => ctx[q].vintage # v
    BY <1>2 DEF HoldoutInvariant, ProcessHolds, BurnerIsNamed
  <2>3. \A q \in Procs \ {p} : ProcessHolds(q)'
    BY <1>1, <1>3, <1>4, <1>5, <2>2, OthersHold DEF AbandonVintage, Status
  <2> QED
    BY <2>1, <2>3
<1>8. BurnersAreAlone'
  BY <1>3 DEF HoldoutInvariant, BurnersAreAlone, AtAny, Idle
<1>9. UsedHasHappened'
  BY <1>4, <1>5 DEF AbandonVintage, HoldoutInvariant, UsedHasHappened, Status
<1>10. AliveAreApart'
  <2>1. vintage'[v].status \notin {"sealed", "consumed"}
        /\ \A w \in Vintages \ {v} : vintage'[w].status = vintage[w].status
    BY <1>4, <1>5
  <2> QED
    BY <2>1 DEF HoldoutInvariant, AliveAreApart, Status
<1>11. OpeningsAreOrdered'
  BY <1>2, <1>4, <1>5 DEF AbandonVintage, HoldoutInvariant, OpeningsAreOrdered, Status, Judged
<1>12. SealedIsUnseen'
  BY <1>4, <1>5 DEF AbandonVintage, HoldoutInvariant, SealedIsUnseen, Status
<1>13. VerdictOverAllRows'
  BY <1>4, <1>5 DEF AbandonVintage, HoldoutInvariant, VerdictOverAllRows, Judged
<1> QED
  BY <1>3, <1>4, <1>6, <1>7, <1>8, <1>9, <1>10, <1>11, <1>12, <1>13
     DEF AbandonVintage, HoldoutInvariant

(* A row is added to a sealed vintage only, where it had none. *)
LEMMA RowKeeps ==
    ASSUME HoldoutInvariant, NEW p \in Procs, RegisterPrediction(p)
    PROVE  HoldoutInvariant'
<1> USE DEF data, history
<1> DEFINE v == ctx[p].vintage
           d == ctx[p].decision
<1>1. v \in Vintages /\ ctx[p] \in PredictionsOf(v) /\ PredictionIsPlanned(p)
  BY ContextByPlace DEF RegisterPrediction, HoldoutInvariant, ProcessHolds, At, AtAny
<1>2. /\ d \in Decisions(v) /\ ctx[p].head \in 1..MaxHeads
      /\ plan[v] \in {"burn", "zero_exposure"} /\ Status(v) = "sealed" /\ lock = p
  BY <1>1 DEF RegisterPrediction, PredictionsOf, PredictionIsPlanned, At, AtAny
<1>3. /\ ctx' \in [Procs -> Context]
      /\ ctx'[p] = Idle
      /\ \A q \in Procs \ {p} : ctx'[q] = ctx[q]
  BY BecomesKeepsContexts DEF RegisterPrediction, Context, HoldoutInvariant
<1>4. /\ DOMAIN rows' = Vintages
      /\ rows[v][d] = NoRow
      /\ rows'[v] = [rows[v] EXCEPT ![d] = ctx[p].head]
      /\ \A w \in Vintages \ {v} : rows'[w] = rows[w]
  BY <1>1 DEF RegisterPrediction, HoldoutInvariant
<1>5. rows'[v] \in [Decisions(v) -> 0..MaxHeads]
  BY <1>1, <1>2, <1>4, BoundsAssumption DEF HoldoutInvariant, TypeOK
<1>6. \A w \in Vintages, e \in Nat : e \in Decisions(w) /\ rows[w][e] # NoRow =>
          rows'[w][e] = rows[w][e]
  BY <1>1, <1>2, <1>4 DEF HoldoutInvariant, TypeOK
<1>7. TypeOK'
  BY <1>2, <1>4, <1>5 DEF RegisterPrediction, HoldoutInvariant, TypeOK, Status, Registered, Judged
<1>8. ASSUME NEW q \in Procs
      PROVE  ProcessHolds(q)'
  <2>1. CASE q = p
    BY <1>3, <2>1 DEF ProcessHolds, PanelIsOld, ClockIsFresh, PredictionIsPlanned,
        BatchIsRegistered, BurnerIsNamed, AtAny, Idle
  <2>2. CASE q # p
    <3>1. ProcessHolds(q) /\ ctx'[q] = ctx[q] /\ lock # q
          /\ UNCHANGED <<now, vintage, plan, openings>>
      BY <1>2, <1>3, <2>2 DEF RegisterPrediction, HoldoutInvariant
    <3>2. PanelIsOld(q)' /\ ClockIsFresh(q)' /\ BurnerIsNamed(q)'
      BY <3>1 DEF ProcessHolds, PanelIsOld, ClockIsFresh, BurnerIsNamed, AtAny, At, Status
    <3>3. PredictionIsPlanned(q)'
      BY <3>1 DEF ProcessHolds, PredictionIsPlanned, AtAny, At
    <3>4. BatchIsRegistered(q)'
      <4> SUFFICES ASSUME AtAny(q, {"attested", "receipt", "started", "scoring"})
                   PROVE  BatchIsRegistered(q)'
        BY <3>1 DEF BatchIsRegistered, AtAny
      <4>1. ctx[q].vintage \in Vintages /\ Decisions(ctx[q].vintage) \subseteq Nat
        BY ContextByPlace, VintagesAssumption DEF HoldoutInvariant, Decisions
      <4> QED
        BY <1>6, <3>1, <4>1 DEF ProcessHolds, BatchIsRegistered, AtAny
    <3> QED
      BY <3>2, <3>3, <3>4 DEF ProcessHolds
  <2> QED
    BY <2>1, <2>2
<1>9. BurnersAreAlone'
  BY <1>3 DEF HoldoutInvariant, BurnersAreAlone, AtAny, Idle
<1>10. UsedHasHappened' /\ AliveAreApart' /\ OpeningsAreOrdered' /\ SealedIsUnseen'
  BY DEF RegisterPrediction, HoldoutInvariant, UsedHasHappened, AliveAreApart,
      OpeningsAreOrdered, SealedIsUnseen, Status, Judged
<1>11. VerdictOverAllRows'
  BY <1>2, <1>4 DEF RegisterPrediction, HoldoutInvariant, TypeOK, VerdictOverAllRows,
      Judged, Status
<1> QED
  BY <1>3, <1>4, <1>7, <1>8, <1>9, <1>10, <1>11 DEF RegisterPrediction, HoldoutInvariant

(* A vintage is burned once it is over, by one evaluation. *)
LEMMA StartKeeps ==
    ASSUME HoldoutInvariant, NEW p \in Procs, StartEvaluation(p)
    PROVE  HoldoutInvariant'
<1> USE DEF data, history
<1> DEFINE v == ctx[p].vintage
<1>1. v \in Vintages /\ ctx[p] \in BatchesOf(v) /\ BatchIsRegistered(p)
  BY ContextByPlace DEF StartEvaluation, HoldoutInvariant, ProcessHolds, At, AtAny
<1>2. Status(v) = "sealed" /\ End[v] <= now
  BY <1>1, VintagesAssumption, BoundsAssumption
     DEF StartEvaluation, MayStart, HoldoutInvariant, TypeOK
<1>3. /\ ctx' \in [Procs -> Context]
      /\ ctx'[p] = [pc |-> "started", vintage |-> v, rows |-> ctx[p].rows,
                    evaluation |-> ctx[p].evaluation]
      /\ \A q \in Procs \ {p} : ctx'[q] = ctx[q]
  BY <1>1, BatchMoves DEF StartEvaluation, HoldoutInvariant
<1>4. /\ DOMAIN vintage' = Vintages
      /\ \A w \in Vintages \ {v} : vintage'[w] = vintage[w]
      /\ vintage'[v] = [vintage[v] EXCEPT !.status = "consumed",
                                          !.evaluation = ctx[p].evaluation]
  BY <1>1 DEF StartEvaluation, HoldoutInvariant
<1>5. /\ vintage'[v].status = "consumed"
      /\ vintage'[v].evaluation = ctx[p].evaluation
      /\ ctx[p].evaluation \in Evaluations
      /\ vintage'[v].verdict = vintage[v].verdict
      /\ vintage'[v] \in [status : {"unsealed", "sealed", "consumed", "abandoned"},
                          abandonedAt : 0..Horizon,
                          evaluation : Evaluations \cup {NoEvaluation},
                          verdict : [Decisions(v) -> 0..MaxHeads] \cup {NoVerdict}]
  BY <1>1, <1>4 DEF HoldoutInvariant, TypeOK, BatchesOf
<1>6. ctx[p].evaluation # NoEvaluation
  BY <1>5, BoundsAssumption DEF Evaluations, NoEvaluation
<1>7. TypeOK'
  BY <1>2, <1>4, <1>5, <1>6 DEF StartEvaluation, HoldoutInvariant, TypeOK, Status, Registered, Judged
<1>8. openings[v] = {} /\ ~Judged(v)
  BY <1>1, <1>2 DEF HoldoutInvariant, OpeningsAreOrdered
<1>9. \A q \in Procs : AtAny(q, {"started", "scoring"}) => ctx[q].vintage # v
  BY <1>2 DEF HoldoutInvariant, ProcessHolds, BurnerIsNamed
<1>10. \A q \in Procs : ProcessHolds(q)'
  <2>1. BatchIsRegistered(p)'
    BY <1>1, <1>3 DEF StartEvaluation, BatchIsRegistered, At, AtAny
  <2>2. BurnerIsNamed(p)'
    <3>1. /\ ctx'[p].vintage = v /\ ctx'[p].pc = "started"
          /\ ctx'[p].evaluation = ctx[p].evaluation
          /\ openings'[v] = {}
      BY <1>3, <1>8 DEF StartEvaluation
    <3> QED
      BY <1>5, <3>1 DEF BurnerIsNamed, At, AtAny, Status
  <2>3. ProcessHolds(p)'
    BY <1>3, <2>1, <2>2 DEF ProcessHolds, PanelIsOld, ClockIsFresh, PredictionIsPlanned, AtAny
  <2>4. \A q \in Procs \ {p} : ProcessHolds(q)'
    BY <1>1, <1>3, <1>4, <1>5, <1>9, OthersHold DEF StartEvaluation, Status
  <2> QED
    BY <2>3, <2>4
<1>11. BurnersAreAlone'
  BY <1>3, <1>9 DEF HoldoutInvariant, BurnersAreAlone, AtAny
<1>12. UsedHasHappened'
  BY <1>2, <1>4, <1>5 DEF StartEvaluation, HoldoutInvariant, UsedHasHappened, Status
<1>13. AliveAreApart'
  BY <1>2, <1>4, <1>5 DEF HoldoutInvariant, AliveAreApart, Status
<1>14. OpeningsAreOrdered'
  BY <1>4, <1>5, <1>8 DEF StartEvaluation, HoldoutInvariant, OpeningsAreOrdered, Status, Judged
<1>15. SealedIsUnseen'
  BY <1>4, <1>5 DEF StartEvaluation, HoldoutInvariant, SealedIsUnseen, Status
<1>16. VerdictOverAllRows'
  BY <1>4, <1>5 DEF StartEvaluation, HoldoutInvariant, VerdictOverAllRows, Judged
<1> QED
  BY <1>3, <1>4, <1>7, <1>10, <1>11, <1>12, <1>13, <1>14, <1>15, <1>16
     DEF StartEvaluation, HoldoutInvariant

(* The labels of a burned vintage are opened by its burner; a sealed one   *)
(* does not overlap it.                                                    *)
LEMMA LabelsKeep ==
    ASSUME HoldoutInvariant, NEW p \in Procs, OpenLabels(p)
    PROVE  /\ HoldoutInvariant'
           /\ openings[ctx[p].vintage] = {}
           /\ openings'[ctx[p].vintage] # {}
           /\ \A w \in Vintages \ {ctx[p].vintage} : openings'[w] = openings[w]
<1> USE DEF data, registry
<1> DEFINE v == ctx[p].vintage
<1>1. v \in Vintages /\ ctx[p] \in BatchesOf(v) /\ ProcessHolds(p)
  BY ContextByPlace DEF OpenLabels, HoldoutInvariant, At, AtAny
<1>2. /\ Status(v) = "consumed"
      /\ vintage[v].evaluation = ctx[p].evaluation
      /\ openings[v] = {}
  BY <1>1 DEF OpenLabels, ProcessHolds, BurnerIsNamed, At, AtAny
<1>3. /\ ctx' \in [Procs -> Context]
      /\ ctx'[p] = [pc |-> "scoring", vintage |-> v, rows |-> ctx[p].rows,
                    evaluation |-> ctx[p].evaluation]
      /\ \A q \in Procs \ {p} : ctx'[q] = ctx[q]
  BY <1>1, BatchMoves DEF OpenLabels, HoldoutInvariant
<1>4. /\ DOMAIN openings' = Vintages
      /\ openings'[v] = {<<p, vintage[v].evaluation>>}
      /\ \A w \in Vintages \ {v} : openings'[w] = openings[w]
  BY <1>1, <1>2 DEF OpenLabels, HoldoutInvariant
<1>5. TypeOK'
  BY DEF OpenLabels, HoldoutInvariant, TypeOK, Status, Registered, Judged
<1>6. ASSUME NEW q \in Procs
      PROVE  ProcessHolds(q)'
  <2>1. CASE q = p
    <3>1. BatchIsRegistered(p)'
      BY <1>1, <1>3 DEF OpenLabels, ProcessHolds, BatchIsRegistered, At, AtAny
    <3>2. BurnerIsNamed(p)'
      <4>1. /\ ctx'[p].vintage = v /\ ctx'[p].pc = "scoring"
            /\ ctx'[p].evaluation = ctx[p].evaluation
            /\ vintage' = vintage
        BY <1>3 DEF OpenLabels
      <4>2. openings'[v] # {}
        BY <1>4
      <4> QED
        BY <1>2, <4>1, <4>2 DEF BurnerIsNamed, At, AtAny, Status
    <3> QED
      BY <1>3, <2>1, <3>1, <3>2 DEF ProcessHolds, PanelIsOld, ClockIsFresh,
          PredictionIsPlanned, AtAny
  <2>2. CASE q # p
    <3>1. ProcessHolds(q) /\ ctx'[q] = ctx[q]
          /\ UNCHANGED <<now, vintage, plan, rows, lock>>
      BY <1>3, <2>2 DEF OpenLabels, HoldoutInvariant
    <3>2. PanelIsOld(q)' /\ ClockIsFresh(q)' /\ PredictionIsPlanned(q)' /\ BatchIsRegistered(q)'
      BY <3>1 DEF ProcessHolds, PanelIsOld, ClockIsFresh, PredictionIsPlanned,
          BatchIsRegistered, AtAny, At, Status
    <3>3. BurnerIsNamed(q)'
      <4> SUFFICES ASSUME AtAny(q, {"started", "scoring"}) PROVE BurnerIsNamed(q)'
        BY <3>1 DEF BurnerIsNamed, AtAny
      <4>1. ctx[q].vintage \in Vintages \ {v}
        <5>1. ctx[q].vintage \in Vintages
          BY ContextByPlace DEF HoldoutInvariant, AtAny
        <5> QED
          BY <2>2, <5>1 DEF OpenLabels, HoldoutInvariant, BurnersAreAlone, At, AtAny
      <4> QED
        BY <1>4, <3>1, <4>1 DEF ProcessHolds, BurnerIsNamed, AtAny, At, Status
    <3> QED
      BY <3>2, <3>3 DEF ProcessHolds
  <2> QED
    BY <2>1, <2>2
<1>7. BurnersAreAlone'
  BY <1>3 DEF OpenLabels, HoldoutInvariant, BurnersAreAlone, At, AtAny
<1>8. UsedHasHappened'
  <2>1. now \in Nat /\ UNCHANGED <<now, vintage>> /\ seen' = seen \cup Bars(v)
        /\ UsedHasHappened
    BY BoundsAssumption DEF OpenLabels, HoldoutInvariant, TypeOK
  <2>2. Bars(v) \subseteq 1..now
    BY <1>1, <1>2, <2>1, VintagesAssumption DEF UsedHasHappened, Bars
  <2> QED
    BY <2>1, <2>2 DEF UsedHasHappened, Status
<1>9. SealedIsUnseen'
  <2>1. \A w \in Vintages : Status(w) = "sealed" => Bars(w) \cap Bars(v) = {}
    BY <1>1, <1>2 DEF HoldoutInvariant, AliveAreApart
  <2> QED
    BY <2>1 DEF OpenLabels, HoldoutInvariant, SealedIsUnseen, Status
<1>10. OpeningsAreOrdered'
  BY <1>2, <1>4 DEF OpenLabels, HoldoutInvariant, OpeningsAreOrdered, Status, Judged
<1>11. AliveAreApart' /\ VerdictOverAllRows'
  BY DEF OpenLabels, HoldoutInvariant, AliveAreApart, VerdictOverAllRows, Status, Judged
<1>12. HoldoutInvariant'
  BY <1>3, <1>4, <1>5, <1>6, <1>7, <1>8, <1>9, <1>10, <1>11 DEF OpenLabels, HoldoutInvariant
<1> QED
  BY <1>2, <1>4, <1>12

(* A verdict is recorded once, by the burner, over the rows of the registry. *)
LEMMA VerdictKeeps ==
    ASSUME HoldoutInvariant, NEW p \in Procs, FinalizeEvaluation(p)
    PROVE  /\ HoldoutInvariant'
           /\ ctx[p].vintage \in Vintages
           /\ openings[ctx[p].vintage] # {}
           /\ vintage'[ctx[p].vintage].status = "consumed"
           /\ vintage'[ctx[p].vintage].verdict # NoVerdict
<1> USE DEF data, history
<1> DEFINE v == ctx[p].vintage
<1>1. v \in Vintages /\ ctx[p] \in BatchesOf(v) /\ ProcessHolds(p)
  BY ContextByPlace DEF FinalizeEvaluation, HoldoutInvariant, At, AtAny
<1>2. /\ Status(v) = "consumed" /\ ~Judged(v)
      /\ vintage[v].evaluation = ctx[p].evaluation
      /\ openings[v] # {}
  BY <1>1 DEF FinalizeEvaluation, ProcessHolds, BurnerIsNamed, At, AtAny
<1>3. /\ ctx' \in [Procs -> Context]
      /\ ctx'[p] = Idle
      /\ \A q \in Procs \ {p} : ctx'[q] = ctx[q]
  BY BecomesKeepsContexts DEF FinalizeEvaluation, Context, HoldoutInvariant
<1>4. /\ DOMAIN vintage' = Vintages
      /\ \A w \in Vintages \ {v} : vintage'[w] = vintage[w]
      /\ vintage'[v] = [vintage[v] EXCEPT !.verdict = ctx[p].rows]
  BY <1>1 DEF FinalizeEvaluation, HoldoutInvariant
<1>5. ctx[p].rows \in [Decisions(v) -> 0..MaxHeads] /\ rows[v] \in [Decisions(v) -> 0..MaxHeads]
  BY <1>1 DEF BatchesOf, HoldoutInvariant, TypeOK
<1>6. /\ vintage'[v].status = "consumed"
      /\ vintage'[v].evaluation = vintage[v].evaluation
      /\ vintage'[v].verdict = ctx[p].rows
      /\ vintage'[v] \in [status : {"unsealed", "sealed", "consumed", "abandoned"},
                          abandonedAt : 0..Horizon,
                          evaluation : Evaluations \cup {NoEvaluation},
                          verdict : [Decisions(v) -> 0..MaxHeads] \cup {NoVerdict}]
  BY <1>1, <1>2, <1>4, <1>5 DEF HoldoutInvariant, TypeOK, Status
<1>7. ctx[p].rows # NoVerdict
  <2>1. Start[v] \in Decisions(v)
    BY <1>1, VintagesAssumption DEF Decisions
  <2> QED
    BY <1>5, <2>1 DEF NoVerdict
<1>8. ctx[p].rows = rows[v]
  <2>1. CASE plan[v] = "none"
    <3>1. \A d \in Decisions(v) : rows[v][d] = NoRow
      BY <1>1, <2>1 DEF HoldoutInvariant, TypeOK, Registered
    <3>2. \A d \in Decisions(v) : ctx[p].rows[d] = NoRow
      BY <1>1, <3>1 DEF FinalizeEvaluation, ProcessHolds, BatchIsRegistered, At, AtAny
    <3> QED
      BY <1>5, <3>1, <3>2
  <2>2. CASE plan[v] # "none"
    BY <2>2 DEF FinalizeEvaluation, EvidenceMatches
  <2> QED
    BY <2>1, <2>2
<1>9. TypeOK'
  BY <1>2, <1>4, <1>6 DEF FinalizeEvaluation, HoldoutInvariant, TypeOK, Status, Registered, Judged
<1>10. \A q \in Procs : ProcessHolds(q)'
  <2>1. ProcessHolds(p)'
    BY <1>3 DEF ProcessHolds, PanelIsOld, ClockIsFresh, PredictionIsPlanned,
        BatchIsRegistered, BurnerIsNamed, AtAny, Idle
  <2>2. \A q \in Procs \ {p} : ProcessHolds(q)'
    BY <1>1, <1>2, <1>3, <1>4, <1>6, OthersHold DEF FinalizeEvaluation, Status
  <2> QED
    BY <2>1, <2>2
<1>11. BurnersAreAlone'
  BY <1>3 DEF HoldoutInvariant, BurnersAreAlone, AtAny, Idle
<1>12. UsedHasHappened'
  BY <1>2, <1>4, <1>6 DEF FinalizeEvaluation, HoldoutInvariant, UsedHasHappened, Status
<1>13. AliveAreApart'
  <2>1. \A w \in Vintages : vintage'[w].status = vintage[w].status
    BY <1>2, <1>4, <1>6 DEF Status
  <2> QED
    BY <2>1 DEF HoldoutInvariant, AliveAreApart, Status
<1>14. OpeningsAreOrdered'
  BY <1>2, <1>4, <1>6 DEF FinalizeEvaluation, HoldoutInvariant, OpeningsAreOrdered, Status, Judged
<1>15. SealedIsUnseen'
  BY <1>4, <1>6 DEF FinalizeEvaluation, HoldoutInvariant, SealedIsUnseen, Status
<1>16. VerdictOverAllRows'
  BY <1>4, <1>6, <1>8 DEF FinalizeEvaluation, HoldoutInvariant, VerdictOverAllRows, Judged
<1>17. HoldoutInvariant'
  BY <1>3, <1>4, <1>9, <1>10, <1>11, <1>12, <1>13, <1>14, <1>15, <1>16
     DEF FinalizeEvaluation, HoldoutInvariant
<1> QED
  BY <1>1, <1>2, <1>6, <1>7, <1>17

(***************************************************************************)
(* The theorems.                                                           *)
(***************************************************************************)

(* The invariant holds when the registry is empty. *)
LEMMA HoldoutInitial == Init => HoldoutInvariant
<1> SUFFICES ASSUME Init PROVE HoldoutInvariant
  OBVIOUS
<1>1. \A v \in Vintages :
        /\ vintage[v] = Unsealed
        /\ rows[v] = [d \in Decisions(v) |-> NoRow]
        /\ file[v] = [d \in Decisions(v) |-> NoRow]
        /\ openings[v] = {}
        /\ plan[v] = "none"
  BY DEF Init
<1>2. TypeOK
  <2>1. /\ now \in 0..Horizon /\ head \in 0..MaxHeads /\ arrived \in 0..now
        /\ exposed \in 0..Horizon
        /\ plan \in [Vintages -> PlanKinds]
        /\ lock \in Procs \cup {Free}
    BY BoundsAssumption DEF Init, PlanKinds
  <2>2. ASSUME NEW v \in Vintages
        PROVE  /\ vintage[v] \in [status : {"unsealed", "sealed", "consumed", "abandoned"},
                                  abandonedAt : 0..Horizon,
                                  evaluation : Evaluations \cup {NoEvaluation},
                                  verdict : [Decisions(v) -> 0..MaxHeads] \cup {NoVerdict}]
               /\ Status(v) # "consumed" /\ vintage[v].evaluation = NoEvaluation
               /\ ~Judged(v)
    <3>1. vintage[v] = Unsealed
      BY <1>1
    <3>2. 0 \in 0..Horizon
      BY BoundsAssumption
    <3> QED
      BY <3>1, <3>2 DEF Unsealed, Status, Judged
  <2>3. ASSUME NEW v \in Vintages
        PROVE  /\ rows[v] \in [Decisions(v) -> 0..MaxHeads]
               /\ file[v] \in [Decisions(v) -> 0..MaxHeads]
               /\ Registered(v) = {}
    <3>1. /\ rows[v] = [d \in Decisions(v) |-> 0]
          /\ file[v] = [d \in Decisions(v) |-> 0]
      BY <1>1 DEF NoRow
    <3>2. 0 \in 0..MaxHeads
      BY BoundsAssumption
    <3> QED
      BY <3>1, <3>2 DEF Registered, NoRow
  <2> QED
    BY <2>1, <2>2, <2>3 DEF TypeOK
<1>3. \A p \in Procs : ctx[p] = Idle
  BY DEF Init
<1>4. ctx \in [Procs -> Context]
  BY DEF Init, Context
<1>5. \A p \in Procs : ProcessHolds(p)
  BY <1>3 DEF ProcessHolds, PanelIsOld, ClockIsFresh, PredictionIsPlanned,
      BatchIsRegistered, BurnerIsNamed, AtAny, Idle
<1>6. BurnersAreAlone
  BY <1>3 DEF BurnersAreAlone, AtAny, Idle
<1>7. ASSUME NEW v \in Vintages
      PROVE  Status(v) = "unsealed" /\ ~Judged(v)
  <2>1. vintage[v] = Unsealed
    BY <1>1
  <2> QED
    BY <2>1 DEF Unsealed, Status, Judged
<1>8. UsedHasHappened /\ AliveAreApart /\ OpeningsAreOrdered
  BY <1>1, <1>7 DEF Init, UsedHasHappened, AliveAreApart, OpeningsAreOrdered
<1>9. SealedIsUnseen /\ VerdictOverAllRows
  BY <1>7 DEF SealedIsUnseen, VerdictOverAllRows
<1>10. \A f \in {vintage, rows, file, openings} : DOMAIN f = Vintages
  BY DEF Init
<1> QED
  BY <1>2, <1>4, <1>5, <1>6, <1>8, <1>9, <1>10 DEF HoldoutInvariant

(* Every step keeps it. *)
LEMMA HoldoutStep == HoldoutInvariant /\ [Next]_vars => HoldoutInvariant'
<1> SUFFICES ASSUME HoldoutInvariant, [Next]_vars PROVE HoldoutInvariant'
  OBVIOUS
<1>1. CASE Tick
  BY <1>1, TickKeeps
<1>2. CASE PublishHead \/ UNCHANGED vars
  BY <1>2, PublishKeeps
<1>3. CASE \E v \in Planned : RegisterPlan(v)
  BY <1>3, PlanKeeps, VintagesAssumption
<1>4. ASSUME NEW p \in Procs, Development(p)
      PROVE  HoldoutInvariant'
  BY <1>4, DevelopmentKeeps, PanelKeeps DEF Development
<1>5. ASSUME NEW p \in Procs, Sealing(p)
      PROVE  HoldoutInvariant'
  BY <1>5, ReadClockKeeps, SealKeeps, AbandonKeeps DEF Sealing
<1>6. ASSUME NEW p \in Procs, Forward(p)
      PROVE  HoldoutInvariant'
  BY <1>6, CaptureKeeps, WriteKeeps, BeginKeeps, RowKeeps DEF Forward
<1>7. ASSUME NEW p \in Procs, Evaluation(p)
      PROVE  HoldoutInvariant'
  BY <1>7, CaptureBatchKeeps, ReceiptKeeps, StartKeeps, LabelsKeep, VerdictKeeps
     DEF Evaluation
<1>8. ASSUME NEW p \in Procs, Quit(p)
      PROVE  HoldoutInvariant'
  BY <1>8, QuitKeeps
<1> QED
  BY <1>1, <1>2, <1>3, <1>4, <1>5, <1>6, <1>7, <1>8 DEF Next

(* The inductive invariant, whatever the processes, the intervals and the  *)
(* bounds.                                                                 *)
THEOREM HoldoutInductive == Spec => []HoldoutInvariant
BY HoldoutInitial, HoldoutStep, PTL DEF Spec

(* The registry keeps its types and foreign keys: a row has a plan, an     *)
(* evaluation and a verdict stand on a burned vintage                      *)
(* (governance.py, the tables of _connect and _terminal_invariant_violation). *)
THEOREM HoldoutTyped == Spec => []TypeOK
<1>1. HoldoutInvariant => TypeOK
  BY DEF HoldoutInvariant
<1> QED
  BY <1>1, HoldoutInductive, PTL

(* The outcome of a sealed interval has been used by nobody, although the  *)
(* preflight, the panel and the sealing read what may since have changed   *)
(* (seal_holdout_vintage, register_research_exposure,                      *)
(* start_holdout_evaluation_attempt).                                      *)
THEOREM HoldoutSealedUnseen == Spec => []SealedIsUnseen
<1>1. HoldoutInvariant => SealedIsUnseen
  BY DEF HoldoutInvariant
<1> QED
  BY <1>1, HoldoutInductive, PTL

(* However many runners race and wherever they die, the labels of a vintage *)
(* are opened once at most, by the evaluation the registry names           *)
(* (start_holdout_evaluation_attempt).                                     *)
THEOREM HoldoutLabelsOnce == Spec => []LabelsOpenedOnce
<1>1. HoldoutInvariant => LabelsOpenedOnce
  <2> SUFFICES ASSUME HoldoutInvariant, NEW v \in Vintages
               PROVE  /\ Cardinality(openings[v]) <= 1
                      /\ \A o \in openings[v] :
                            Status(v) = "consumed" /\ vintage[v].evaluation = o[2]
    BY DEF LabelsOpenedOnce
  <2>1. CASE openings[v] = {}
    BY <2>1, FS_EmptySet
  <2>2. CASE openings[v] # {}
    <3>1. PICK p \in Procs : openings[v] = {<<p, vintage[v].evaluation>>}
      BY <2>2 DEF HoldoutInvariant, OpeningsAreOrdered
    <3>2. Status(v) = "consumed"
      BY <2>2 DEF HoldoutInvariant, OpeningsAreOrdered
    <3>3. Cardinality(openings[v]) = 1
      BY <3>1, FS_Singleton
    <3> QED
      BY <3>1, <3>2, <3>3
  <2> QED
    BY <2>1, <2>2
<1> QED
  BY <1>1, HoldoutInductive, PTL

(* A verdict is over the predictions the registry holds, when it is        *)
(* recorded and ever after (finalize_holdout_evaluation).                  *)
THEOREM HoldoutVerdict == Spec => []VerdictOverAllRows
<1>1. HoldoutInvariant => VerdictOverAllRows
  BY DEF HoldoutInvariant
<1> QED
  BY <1>1, HoldoutInductive, PTL

(* One vintage moves on in its life. *)
LEMMA LifeAdvances ==
    ASSUME NEW v \in Vintages,
           \A w \in Vintages \ {v} :
                vintage'[w] = vintage[w] /\ openings'[w] = openings[w],
           \/ StageOf(v) = "unsealed" /\ StageOf(v)' = "sealed"
           \/ StageOf(v) = "sealed" /\ StageOf(v)' \in {"abandoned", "burned"}
           \/ StageOf(v) = "burned" /\ StageOf(v)' = "opened"
           \/ StageOf(v) = "opened" /\ StageOf(v)' = "judged"
    PROVE  Lifecycle!Next
<1> DEFINE stage == [w \in Vintages |-> StageOf(w)]
<1>1. \A w \in Vintages \ {v} : StageOf(w)' = StageOf(w)
  BY DEF StageOf, Status, Judged
<1>2. stage' = [stage EXCEPT ![v] = StageOf(v)']
  BY <1>1
<1>3. StageOf(v)' \in Lifecycle!Follows(stage[v])
  BY DEF Lifecycle!Follows
<1> QED
  BY <1>2, <1>3 DEF Lifecycle!Next, Lifecycle!Advance

(* Every step moves one vintage on or none. *)
LEMMA LifecycleStep ==
    ASSUME HoldoutInvariant, [Next]_vars
    PROVE  [Lifecycle!Next]_([v \in Vintages |-> StageOf(v)])
<1> USE DEF data, registry, history
<1>1. ASSUME UNCHANGED <<vintage, openings>>
      PROVE  UNCHANGED [v \in Vintages |-> StageOf(v)]
  BY <1>1 DEF StageOf, Status, Judged
<1>2. CASE Tick \/ PublishHead \/ UNCHANGED vars \/ \E v \in Planned : RegisterPlan(v)
  BY <1>1, <1>2 DEF Tick, PublishHead, RegisterPlan, vars
<1>3. ASSUME NEW p \in Procs, Development(p) \/ Forward(p) \/ Quit(p)
      PROVE  UNCHANGED <<vintage, openings>>
  BY <1>3 DEF Development, Preflight, OpenPanel, RegisterExposure, Forward,
      CapturePrediction, WritePrediction, BeginPrediction, RegisterPrediction, Quit
<1>4. ASSUME NEW p \in Procs,
             \/ \E v \in Vintages : ReadSealClock(p, v) \/ ReadAbandonClock(p, v)
             \/ \E v \in Vintages, forward \in BOOLEAN : CaptureBatch(p, v, forward)
             \/ RegisterReceipt(p)
      PROVE  UNCHANGED <<vintage, openings>>
  BY <1>4 DEF ReadSealClock, ReadAbandonClock, CaptureBatch, RegisterReceipt
<1>5. ASSUME NEW p \in Procs, SealVintage(p)
      PROVE  Lifecycle!Next
  <2> DEFINE v == ctx[p].vintage
  <2>1. v \in Vintages
    BY <1>5, ContextByPlace DEF SealVintage, HoldoutInvariant, At, AtAny, Clocks
  <2>2. Status(v) = "unsealed"
    <3>1. Overlap(v, v)
      BY <2>1, VintagesAssumption DEF Overlap, Bars
    <3>2. vintage[v].status \in {"unsealed", "sealed", "consumed", "abandoned"}
      BY <2>1 DEF HoldoutInvariant, TypeOK
    <3> QED
      BY <1>5, <2>1, <3>1, <3>2 DEF SealVintage, Sealable, Status
  <2>3. /\ \A w \in Vintages \ {v} : vintage'[w] = vintage[w]
        /\ vintage'[v].status = "sealed"
        /\ openings' = openings
    BY <1>5, <2>1 DEF SealVintage, HoldoutInvariant, TypeOK
  <2>4. PICK u \in Vintages : u = v
    BY <2>1
  <2>5. StageOf(u) = "unsealed" /\ StageOf(u)' = "sealed"
    BY <2>2, <2>3, <2>4 DEF StageOf, Status
  <2> QED
    BY <2>3, <2>4, <2>5, LifeAdvances
<1>6. ASSUME NEW p \in Procs, AbandonVintage(p)
      PROVE  Lifecycle!Next
  <2> DEFINE v == ctx[p].vintage
  <2>1. v \in Vintages
    BY <1>6, ContextByPlace DEF AbandonVintage, HoldoutInvariant, At, AtAny, Clocks
  <2>2. Status(v) = "sealed"
    BY <1>6 DEF AbandonVintage, MayAbandon
  <2>3. /\ \A w \in Vintages \ {v} : vintage'[w] = vintage[w]
        /\ vintage'[v].status = "abandoned"
        /\ openings' = openings
    BY <1>6, <2>1 DEF AbandonVintage, HoldoutInvariant, TypeOK
  <2>4. PICK u \in Vintages : u = v
    BY <2>1
  <2>5. StageOf(u) = "sealed" /\ StageOf(u)' = "abandoned"
    BY <2>2, <2>3, <2>4 DEF StageOf, Status
  <2> QED
    BY <2>3, <2>4, <2>5, LifeAdvances
<1>7. ASSUME NEW p \in Procs, StartEvaluation(p)
      PROVE  Lifecycle!Next
  <2> DEFINE v == ctx[p].vintage
  <2>1. v \in Vintages
    BY <1>7, ContextByPlace DEF StartEvaluation, HoldoutInvariant, At, AtAny
  <2>2. Status(v) = "sealed"
    BY <1>7 DEF StartEvaluation, MayStart
  <2>3. /\ \A w \in Vintages \ {v} : vintage'[w] = vintage[w]
        /\ vintage'[v].status = "consumed"
        /\ vintage'[v].verdict = vintage[v].verdict
        /\ openings' = openings
    BY <1>7, <2>1 DEF StartEvaluation, HoldoutInvariant, TypeOK
  <2>4. openings[v] = {} /\ ~Judged(v)
    BY <2>1, <2>2 DEF HoldoutInvariant, OpeningsAreOrdered
  <2>5. PICK u \in Vintages : u = v
    BY <2>1
  <2>6. StageOf(u) = "sealed" /\ StageOf(u)' = "burned"
    BY <2>2, <2>3, <2>4, <2>5 DEF StageOf, Status, Judged
  <2> QED
    BY <2>3, <2>5, <2>6, LifeAdvances
<1>8. ASSUME NEW p \in Procs, OpenLabels(p)
      PROVE  Lifecycle!Next
  <2> DEFINE v == ctx[p].vintage
  <2>1. v \in Vintages /\ Status(v) = "consumed"
    BY <1>8, ContextByPlace DEF OpenLabels, HoldoutInvariant, ProcessHolds, BurnerIsNamed,
        At, AtAny
  <2>2. /\ openings[v] = {} /\ openings'[v] # {}
        /\ \A w \in Vintages \ {v} : openings'[w] = openings[w]
        /\ vintage' = vintage
    BY <1>8, LabelsKeep DEF OpenLabels
  <2>3. ~Judged(v)
    BY <2>1, <2>2 DEF HoldoutInvariant, OpeningsAreOrdered
  <2>4. PICK u \in Vintages : u = v
    BY <2>1
  <2>5. StageOf(u) = "burned" /\ StageOf(u)' = "opened"
    BY <2>1, <2>2, <2>3, <2>4 DEF StageOf, Status, Judged
  <2> QED
    BY <2>2, <2>4, <2>5, LifeAdvances
<1>9. ASSUME NEW p \in Procs, FinalizeEvaluation(p)
      PROVE  Lifecycle!Next
  <2> DEFINE v == ctx[p].vintage
  <2>1. /\ v \in Vintages /\ openings[v] # {}
        /\ vintage'[v].status = "consumed" /\ vintage'[v].verdict # NoVerdict
    BY <1>9, VerdictKeeps
  <2>2. Status(v) = "consumed" /\ ~Judged(v) /\ openings' = openings
        /\ \A w \in Vintages \ {v} : vintage'[w] = vintage[w]
    BY <1>9, <2>1 DEF FinalizeEvaluation, HoldoutInvariant
  <2>3. PICK u \in Vintages : u = v
    BY <2>1
  <2>4. StageOf(u) = "opened" /\ StageOf(u)' = "judged"
    BY <2>1, <2>2, <2>3 DEF StageOf, Status, Judged
  <2> QED
    BY <2>2, <2>3, <2>4, LifeAdvances
<1>10. ASSUME NEW p \in Procs, Sealing(p) \/ Evaluation(p)
       PROVE  [Lifecycle!Next]_([v \in Vintages |-> StageOf(v)])
  BY <1>1, <1>4, <1>5, <1>6, <1>7, <1>8, <1>9, <1>10 DEF Sealing, Evaluation
<1> QED
  BY <1>1, <1>2, <1>3, <1>10 DEF Next

(* The registry and the processes that share it implement the life of a    *)
(* vintage: sealed, then given up or burned, opened once, judged at most   *)
(* once (start_holdout_evaluation_attempt, finalize_holdout_evaluation).   *)
THEOREM HoldoutImplements == Spec => ImplementsLifecycle
<1>1. Init => Lifecycle!Init
  <2> SUFFICES ASSUME Init, NEW v \in Vintages PROVE StageOf(v) = "unsealed"
    BY DEF Lifecycle!Init
  <2> QED
    BY DEF Init, StageOf, Status, Unsealed
<1>2. HoldoutInvariant /\ [Next]_vars => [Lifecycle!Next]_([v \in Vintages |-> StageOf(v)])
  BY LifecycleStep
<1> QED
  BY <1>1, <1>2, HoldoutInductive, PTL DEF Spec, ImplementsLifecycle, Lifecycle!Spec
=============================================================================
