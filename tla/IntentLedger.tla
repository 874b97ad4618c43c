---------------------------- MODULE IntentLedger ----------------------------
(***************************************************************************)
(* src/guvolu/data/intent_ledger.py: the append-only intent ledger of one  *)
(* writer.  A row is fsynced before the memory view changes; after a crash *)
(* the file is replayed row by row, every row is validated again, and a    *)
(* torn last row is moved to a sidecar before the file is truncated.       *)
(*                                                                         *)
(* A row of kind "intent" is a row with source "ABSENT": what the replay   *)
(* checks of it (the intent is not known yet) is what it checks of any     *)
(* other row (the source is the state the history gave the intent).        *)
(***************************************************************************)
EXTENDS IntentStates, Naturals, Sequences

CONSTANTS
    Intents,     \* intent ids
    Symbols,     \* trading symbols
    SymbolOf,    \* the symbol an intent trades
    OrderIds,    \* order numbers the exchange may hand out
    NoOrder,     \* the row or entry carries no order number
    NoIntent,    \* the order number is not mapped
    MaxRows      \* bound on the rows of the file, for TLC only

ASSUME SymbolAssumption == SymbolOf \in [Intents -> Symbols]
ASSUME NoOrderAssumption == NoOrder \notin OrderIds
ASSUME NoIntentAssumption == NoIntent \notin Intents

VARIABLES
    rows,        \* complete rows of the ledger file
    torn,        \* the intent of the incomplete last row, if there is one
    sidecar,     \* the intent of the fragment in the newest .partial-* file
    mode,        \* what the writer process is doing
    pos,         \* rows replayed so far by _load
    toMark,      \* intents mark_interrupted_sends has still to mark
    entries,     \* self._entries
    orderMap     \* self._order_map

memory == <<entries, orderMap>>
vars == <<rows, torn, sidecar, mode, pos, toMark, entries, orderMap>>

(* The write_budget text of a SENDING row; "unmarked" is the null of rows  *)
(* of earlier schema versions and of every other row.                      *)
BudgetMark == {"unmarked", "consumed", "exempt"}

Row == [intent : Intents, source : EntryState, target : IntentState,
        order : OrderIds \union {NoOrder}, evidence : BOOLEAN,
        budget : BudgetMark]

Entry == [state : EntryState, order : OrderIds \union {NoOrder},
          budget : BudgetMark]

Mode == {"down", "quarantined", "replaying", "open", "marking", "corrupt"}

NewEntry == [state |-> "ABSENT", order |-> NoOrder, budget |-> "unmarked"]
NoEntries == [i \in Intents |-> NewEntry]
NoOrders == [o \in OrderIds |-> NoIntent]

(* in_flight(symbol) over a given memory view. *)
InFlight(ents, s) ==
    {i \in Intents : SymbolOf[i] = s /\ ents[i].state \in InFlightStates}

(* Faulty variant: the in-flight check of SENDING is missing. *)
ValidBusySymbol(ents, omap, r) ==
    /\ r.source = ents[r.intent].state
    /\ r.target \in Allowed(r.source)
    /\ r.source \in QueryRequiredStates => r.evidence
    /\ r.target = "ACCEPTED" =>
           r.order \in OrderIds /\ omap[r.order] = NoIntent

(* Faulty variant: an order number may be mapped a second time. *)
ValidReusedOrder(ents, omap, r) ==
    /\ r.source = ents[r.intent].state
    /\ r.target \in Allowed(r.source)
    /\ r.source \in QueryRequiredStates => r.evidence
    /\ r.target = "ACCEPTED" => r.order \in OrderIds
    /\ r.target = "SENDING" => InFlight(ents, SymbolOf[r.intent]) = {}

(* The state names of the row, and _validate: legality of the move,        *)
(* evidence when leaving SEND_TIMEOUT, a fresh order number for ACCEPTED,  *)
(* no other intent of the symbol in flight for SENDING.                    *)
Valid(ents, omap, r) ==
    /\ r.source = ents[r.intent].state
    /\ r.target \in Allowed(r.source)
    /\ r.source \in QueryRequiredStates => r.evidence
    /\ r.target = "ACCEPTED" =>
           r.order \in OrderIds /\ omap[r.order] = NoIntent
    /\ r.target = "SENDING" => InFlight(ents, SymbolOf[r.intent]) = {}

(* Faulty variant: every row overwrites the write-budget mark. *)
ApplyEntryLosesMark(ents, r) ==
    [ents EXCEPT ![r.intent] =
        [state  |-> r.target,
         order  |-> IF r.order = NoOrder THEN @.order ELSE r.order,
         budget |-> r.budget]]

(* _apply: the entry and the order map after a row. *)
ApplyEntry(ents, r) ==
    [ents EXCEPT ![r.intent] =
        [state  |-> r.target,
         order  |-> IF r.order = NoOrder THEN @.order ELSE r.order,
         budget |-> IF r.target = "SENDING" /\ r.budget # "unmarked"
                    THEN r.budget ELSE @.budget]]

(* Faulty variant: the reverse map stores the order number itself. *)
ApplyOrderSwapped(omap, r) ==
    IF r.target = "ACCEPTED" /\ r.order # NoOrder
    THEN [omap EXCEPT ![r.order] = r.order]
    ELSE omap

(* _apply: the order map after a row. *)
ApplyOrder(omap, r) ==
    IF r.target = "ACCEPTED" /\ r.order # NoOrder
    THEN [omap EXCEPT ![r.order] = r.intent]
    ELSE omap

Init ==
    /\ rows = <<>>
    /\ torn = {}
    /\ sidecar = {}
    /\ mode = "down"
    /\ pos = 0
    /\ toMark = {}
    /\ entries = NoEntries
    /\ orderMap = NoOrders

(***************************************************************************)
(* Writing a row.  The append may complete and be applied, complete just   *)
(* before the process dies, or leave a fragment of the row behind.         *)
(***************************************************************************)
ForgetMemory ==
    /\ mode' = "down"
    /\ pos' = 0
    /\ toMark' = {}
    /\ entries' = NoEntries
    /\ orderMap' = NoOrders

(* Faulty variant: the memory view is not updated after the append. *)
AppendOnly(r) ==
    /\ rows' = Append(rows, r)
    /\ UNCHANGED <<torn, sidecar, pos, entries, orderMap>>


AppendAndApply(r) ==
    /\ rows' = Append(rows, r)
    /\ entries' = ApplyEntry(entries, r)
    /\ orderMap' = ApplyOrder(orderMap, r)
    /\ UNCHANGED <<torn, sidecar, pos>>

AppendThenCrash(r) ==
    /\ rows' = Append(rows, r)
    /\ ForgetMemory
    /\ UNCHANGED <<torn, sidecar>>

TearThenCrash(r) ==
    /\ torn' = {r.intent}
    /\ ForgetMemory
    /\ UNCHANGED <<rows, sidecar>>

(* transition(): validate first, then write.  record_intent() is the same  *)
(* with the source "ABSENT".                                               *)
Write(r) ==
    /\ mode = "open"
    /\ Len(rows) < MaxRows
    /\ Valid(entries, orderMap, r)
    /\ \/ AppendAndApply(r) /\ UNCHANGED <<mode, toMark>>
       \/ AppendThenCrash(r)
       \/ TearThenCrash(r)

RowFor(i, target, order, evidence, budget) ==
    [intent |-> i, source |-> entries[i].state, target |-> target,
     order |-> order, evidence |-> evidence, budget |-> budget]

PlainRow(i, target) == RowFor(i, target, NoOrder, FALSE, "unmarked")

RecordIntent(i) == Write(PlainRow(i, "RECORDED"))

GateReject(i) == Write(PlainRow(i, "GATE_REJECTED"))

BeginSend(i, budget) == Write(RowFor(i, "SENDING", NoOrder, FALSE, budget))

Accept(i, o, evidence) == Write(RowFor(i, "ACCEPTED", o, evidence, "unmarked"))

Reject(i) == Write(PlainRow(i, "REJECTED"))

MarkSendTimeout(i) == Write(PlainRow(i, "SEND_TIMEOUT"))

BlockDryRun(i) == Write(PlainRow(i, "DRY_RUN_BLOCKED"))

PaperFill(i) == Write(RowFor(i, "PAPER_FILLED", NoOrder, TRUE, "unmarked"))

PaperReject(i) == Write(PlainRow(i, "PAPER_REJECTED"))

ResolveTimeoutFailed(i) == Write(RowFor(i, "FAILED", NoOrder, TRUE, "unmarked"))

(***************************************************************************)
(* mark_interrupted_sends: list the intents left in SENDING, then one      *)
(* SEND_TIMEOUT row for each of them; nothing else runs in between.        *)
(***************************************************************************)
InterruptedSends == {i \in Intents : entries[i].state = "SENDING"}

MarkInterruptedSends ==
    /\ mode = "open"
    /\ InterruptedSends # {}
    /\ mode' = "marking"
    /\ toMark' = InterruptedSends
    /\ UNCHANGED <<rows, torn, sidecar, pos, entries, orderMap>>

MarkNext(i) ==
    LET r == PlainRow(i, "SEND_TIMEOUT")
    IN  /\ mode = "marking"
        /\ Len(rows) < MaxRows
        /\ i \in toMark
        /\ Valid(entries, orderMap, r)
        /\ \/ /\ AppendAndApply(r)
              /\ toMark' = toMark \ {i}
              /\ mode' = IF toMark' = {} THEN "open" ELSE "marking"
           \/ AppendThenCrash(r)
           \/ TearThenCrash(r)

(***************************************************************************)
(* _load.                                                                  *)
(***************************************************************************)
(* A file without a torn row goes straight to the replay. *)
OpenIntact ==
    /\ mode = "down"
    /\ torn = {}
    /\ mode' = "replaying"
    /\ UNCHANGED <<rows, torn, sidecar, pos, toMark, entries, orderMap>>

(* Faulty variant: the file is truncated with no sidecar written. *)
SkipSidecar ==
    /\ mode = "down"
    /\ torn # {}
    /\ mode' = "quarantined"
    /\ UNCHANGED <<rows, torn, sidecar, pos, toMark, entries, orderMap>>

(* _quarantine_partial: the fragment is written to a sidecar ... *)
WriteSidecar ==
    /\ mode = "down"
    /\ torn # {}
    /\ sidecar' = torn
    /\ mode' = "quarantined"
    /\ UNCHANGED <<rows, torn, pos, toMark, entries, orderMap>>

(* Faulty variant: the truncation also cuts the last complete row. *)
TruncateTooMuch ==
    /\ mode = "quarantined"
    /\ torn' = {}
    /\ rows' = IF rows = <<>> THEN rows ELSE SubSeq(rows, 1, Len(rows) - 1)
    /\ mode' = "replaying"
    /\ UNCHANGED <<sidecar, pos, toMark, entries, orderMap>>

(* ... and only then is the ledger file truncated to its complete rows. *)
TruncateTorn ==
    /\ mode = "quarantined"
    /\ torn' = {}
    /\ mode' = "replaying"
    /\ UNCHANGED <<rows, sidecar, pos, toMark, entries, orderMap>>

(* One row of the replay loop; a row that does not validate is fatal. *)
ReplayRow ==
    /\ mode = "replaying"
    /\ pos < Len(rows)
    /\ LET r == rows[pos + 1]
       IN  \/ /\ Valid(entries, orderMap, r)
              /\ entries' = ApplyEntry(entries, r)
              /\ orderMap' = ApplyOrder(orderMap, r)
              /\ pos' = pos + 1
              /\ mode' = mode
           \/ /\ ~Valid(entries, orderMap, r)
              /\ mode' = "corrupt"
              /\ UNCHANGED <<entries, orderMap, pos>>
    /\ UNCHANGED <<rows, torn, sidecar, toMark>>

FinishLoad ==
    /\ mode = "replaying"
    /\ pos = Len(rows)
    /\ mode' = "open"
    /\ UNCHANGED <<rows, torn, sidecar, pos, toMark, entries, orderMap>>

(* The process dies, or ends, outside an append. *)
Crash ==
    /\ mode \notin {"down", "corrupt"}
    /\ ForgetMemory
    /\ UNCHANGED <<rows, torn, sidecar>>

Operation(i) ==
    \/ RecordIntent(i)
    \/ GateReject(i)
    \/ \E b \in {"consumed", "exempt"} : BeginSend(i, b)
    \/ \E o \in OrderIds, ev \in BOOLEAN : Accept(i, o, ev)
    \/ Reject(i)
    \/ MarkSendTimeout(i)
    \/ BlockDryRun(i)
    \/ PaperFill(i)
    \/ PaperReject(i)
    \/ ResolveTimeoutFailed(i)
    \/ MarkNext(i)

Load == OpenIntact \/ WriteSidecar \/ TruncateTorn \/ ReplayRow \/ FinishLoad

Next ==
    \/ \E i \in Intents : Operation(i)
    \/ MarkInterruptedSends
    \/ Load
    \/ Crash

Spec == Init /\ [][Next]_vars

(***************************************************************************)
(* What the rows of the file say, without running the replay.              *)
(***************************************************************************)
RowsOf(log, i, n) == {k \in 1 .. n : log[k].intent = i}

(* Row k is the last of the first n rows that moved intent i. *)
IsLastRow(log, i, n, k) ==
    log[k].intent = i /\ \A l \in k + 1 .. n : log[l].intent # i

(* The state the first n rows leave intent i in. *)
StateAt(log, i, n) ==
    IF \E k \in 1 .. n : IsLastRow(log, i, n, k)
    THEN log[CHOOSE k \in 1 .. n : IsLastRow(log, i, n, k)].target
    ELSE "ABSENT"

(* Order number o was mapped to intent i by one of the first n rows. *)
MappedAt(log, o, i, n) ==
    \E k \in RowsOf(log, i, n) : log[k].target = "ACCEPTED" /\ log[k].order = o

(* Intent i was sent with write-budget mark b by one of the first n rows. *)
MarkedAt(log, i, b, n) ==
    \E k \in RowsOf(log, i, n) : log[k].target = "SENDING" /\ log[k].budget = b

(* A memory view that shows what the first n rows say. *)
Reflects(ents, omap, log, n) ==
    \A i \in Intents :
        /\ ents[i].state = StateAt(log, i, n)
        /\ \A o \in OrderIds :
              /\ (ents[i].order = o) <=> MappedAt(log, o, i, n)
              /\ (omap[o] = i) <=> MappedAt(log, o, i, n)
        /\ \A b \in {"consumed", "exempt"} :
              (ents[i].budget = b) <=> MarkedAt(log, i, b, n)

(***************************************************************************)
(* Properties.                                                             *)
(***************************************************************************)
(* The file holds rows, memory the entries of _entries and _order_map. *)
TypeOK ==
    /\ rows \in Seq(Row)
    /\ torn \in SUBSET Intents
    /\ sidecar \in SUBSET Intents
    /\ mode \in Mode
    /\ pos \in Nat
    /\ toMark \in SUBSET Intents
    /\ entries \in [Intents -> Entry]
    /\ orderMap \in [OrderIds -> Intents \union {NoIntent}]

(* Whatever was written and wherever the process died, the next _load      *)
(* accepts every row: the writer never produces a ledger that raises       *)
(* LedgerCorrupt (R-07).                                                   *)
NeverCorrupt == mode # "corrupt"

(* At most one intent of a symbol is SENDING or SEND_TIMEOUT in a log. *)
OneInFlightIn(log) ==
    \A i, j \in Intents :
        /\ SymbolOf[i] = SymbolOf[j]
        /\ StateAt(log, i, Len(log)) \in InFlightStates
        /\ StateAt(log, j, Len(log)) \in InFlightStates
        => i = j

(* On disk, at most one intent of a symbol is SENDING or SEND_TIMEOUT      *)
(* (T-05), also between the rows of mark_interrupted_sends and while no    *)
(* process is up to enforce it.                                            *)
OneInFlightOnDisk == OneInFlightIn(rows)

(* A ledger in use shows exactly what its file says: the state, the order  *)
(* number, the reverse map and the write-budget mark of every intent; no   *)
(* row is ahead of memory and memory is never ahead of the file (T-05).    *)
MemoryIsDurable ==
    mode \in {"open", "marking"} =>
        Reflects(entries, orderMap, rows, Len(rows))

(* An order number is never given to two intents, nor twice (D-05).        *)
OrderOfOneIntent ==
    \A k, l \in 1 .. Len(rows) :
        /\ rows[k].target = "ACCEPTED"
        /\ rows[l].target = "ACCEPTED"
        /\ rows[k].order = rows[l].order
        => k = l

(* A fragment leaves the ledger file only after a sidecar holds it, even   *)
(* when the process dies in the middle of the recovery.                    *)
FragmentsKept == [][torn \subseteq torn' \union sidecar']_vars

(***************************************************************************)
(* The inductive invariant.  A row is well formed when the rows before it  *)
(* justify it; memory reflects the rows seen so far, all of them in a      *)
(* ledger in use and the first pos of them during the replay.              *)
(***************************************************************************)
RowJustified(log, n) ==
    LET r == log[n]
    IN  /\ r.source = StateAt(log, r.intent, n - 1)
        /\ r.target \in Allowed(r.source)
        /\ r.source \in QueryRequiredStates => r.evidence
        /\ (r.target = "ACCEPTED") <=> (r.order # NoOrder)
        /\ r.target = "ACCEPTED" =>
               \A i \in Intents : ~MappedAt(log, r.order, i, n - 1)
        /\ r.target = "SENDING" =>
               \A i \in Intents :
                   SymbolOf[i] = SymbolOf[r.intent] =>
                       StateAt(log, i, n - 1) \notin InFlightStates

LogJustified(log) == \A n \in 1 .. Len(log) : RowJustified(log, n)

(* Before SENDING there is no write-budget mark, before ACCEPTED no order. *)
InOrder(ents) ==
    \A i \in Intents :
        /\ ents[i].state \in {"ABSENT", "RECORDED"} => ents[i].budget = "unmarked"
        /\ ents[i].state # "ACCEPTED" => ents[i].order = NoOrder

RowsSeen == IF mode \in {"open", "marking"} THEN Len(rows) ELSE pos

RecoveryInOrder ==
    /\ pos \in 0 .. Len(rows)
    /\ mode \in {"down", "quarantined"} => pos = 0
    /\ mode = "quarantined" => torn \subseteq sidecar
    /\ mode \notin {"down", "quarantined"} => torn = {}

(* What the file says is justified, what memory says is what the file says *)
(* so far, and a recovery quarantines before it truncates and replays.     *)
LedgerInvariant ==
    /\ TypeOK
    /\ NeverCorrupt
    /\ LogJustified(rows)
    /\ Reflects(entries, orderMap, rows, RowsSeen)
    /\ InOrder(entries)
    /\ RecoveryInOrder
    /\ OneInFlightOnDisk

(* The abstract life of the intents, read off a log. *)
StateOf(log) == [i \in Intents |-> StateAt(log, i, Len(log))]
OwnerOf(log) ==
    [o \in OrderIds |->
        IF \E i \in Intents : MappedAt(log, o, i, Len(log))
        THEN CHOOSE i \in Intents : MappedAt(log, o, i, Len(log))
        ELSE NoIntent]

Lifecycle == INSTANCE IntentLifecycle
                WITH state <- StateOf(rows), owner <- OwnerOf(rows)

(* The ledger file implements the abstract life of the intents: crashes,   *)
(* torn rows and replays are stutters.                                     *)
ImplementsLifecycle == Lifecycle!Spec

=============================================================================
