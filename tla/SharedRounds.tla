---------------------------- MODULE SharedRounds ----------------------------
(***************************************************************************)
(* Rounds of src/guvolu/execution/live_executor.py run for several markets *)
(* over one data root: the intent ledger, the usage file and the state     *)
(* file of the envelope are shared (docs/execution-chain-design.md:385),   *)
(* each round works on the copy it loaded at its start, and only the lock  *)
(* of a symbol excludes another round while a request is out.  The tasks   *)
(* start 18 minutes apart and may take 50, so rounds can overlap.          *)
(*                                                                         *)
(* LiveExecutor has the inside of a round; here it sends at most one order *)
(* of one unit, a buy or a sell, the row that creates an intent and the    *)
(* one that starts or refuses its sending are one step, day limits are     *)
(* left out, on_trip does not flatten, and the order number of an intent   *)
(* is the intent itself.                                                   *)
(***************************************************************************)
EXTENDS IntentStates, Naturals, FiniteSets, FiniteSetsExt

CONSTANTS
    Rounds,         \* the processes that run rounds
    SymbolOf,       \* the symbol a process trades
    MaxIntents,     \* bound on the intents, for TLC only
    EnvelopeTotal,  \* envelope_jpy_total, in orders
    Overlap         \* a round may start while another one runs

Symbols == {SymbolOf[p] : p \in Rounds}

ASSUME BoundAssumption == {MaxIntents, EnvelopeTotal} \subseteq Nat
ASSUME OverlapAssumption == Overlap \in BOOLEAN

VARIABLES
    rows,       \* ledger file: the state its rows give an intent
    broken,     \* ledger file: some row does not follow from those before
    symbol,     \* ledger file: the symbol of an intent
    sells,      \* ledger file: the intents that sell
    usage,      \* usage file: rows of an intent
    trippedAt,  \* state file: the trip lock is set
    landed,     \* exchange: requests that became orders
    lock,       \* in-flight lock of a symbol: the holders
    pc,         \* what a process does next
    ledger,     \* IntentLedger as the process loaded and changed it
    counted,    \* EnvelopeUsage likewise: rows of an intent
    marked,     \* intents its recovery has to query
    cur         \* the intent the process sends, 0 when none

files == <<rows, broken, symbol, sells, usage, trippedAt>>
memory == <<ledger, counted, marked, cur>>
vars == <<files, landed, lock, pc, memory>>

Ids == 1 .. MaxIntents
Sides == {"buy", "sell"}
Deciding == {"recover", "query", "gates"} \cup Sides
Sent == {"SENDING", "SEND_TIMEOUT", "ACCEPTED", "REJECTED", "FAILED"}
AllAbsent == [i \in Ids |-> "ABSENT"]
NoUsage == [i \in Ids |-> 0]
NoSymbol == "none"

Total(u) == MapThenSumSet(LAMBDA i : u[i], Ids)
Fresh == {i \in Ids : rows[i] = "ABSENT"}
Known == Ids \ Fresh
Unresolved(p) == {i \in Ids : ledger[p][i] = "SENDING"}
SentOrders == {i \in Ids : rows[i] \in Sent}
BusyIn(l, s) == {i \in Ids : symbol[i] = s /\ l[i] \in InFlightStates}

Init ==
    /\ rows = AllAbsent
    /\ broken = FALSE
    /\ symbol = [i \in Ids |-> NoSymbol]
    /\ sells = {}
    /\ usage = NoUsage
    /\ trippedAt = FALSE
    /\ landed = {}
    /\ lock = [s \in Symbols |-> {}]
    /\ pc = [p \in Rounds |-> "down"]
    /\ ledger = [p \in Rounds |-> AllAbsent]
    /\ counted = [p \in Rounds |-> NoUsage]
    /\ marked = [p \in Rounds |-> {}]
    /\ cur = [p \in Rounds |-> 0]

(***************************************************************************)
(* The ledger file.  The writer checks a row against the copy it holds;    *)
(* whoever loads the file later checks it against the rows before it.      *)
(***************************************************************************)
Follows(i, source, target) ==
    /\ rows[i] = source
    /\ target = "SENDING" => BusyIn(rows, symbol'[i]) = {}

Append(p, i, source, target) ==
    /\ broken' = (broken \/ ~Follows(i, source, target))
    /\ rows' = [rows EXCEPT ![i] = target]
    /\ ledger' = [ledger EXCEPT ![p][i] = target]

Goto(p, l) == pc' = [pc EXCEPT ![p] = l]

\* The process ends and its memory with it; the system frees its lock.
End(p) ==
    /\ Goto(p, "down")
    /\ ledger' = [ledger EXCEPT ![p] = AllAbsent]
    /\ counted' = [counted EXCEPT ![p] = NoUsage]
    /\ marked' = [marked EXCEPT ![p] = {}]
    /\ cur' = [cur EXCEPT ![p] = 0]
    /\ lock' = [s \in Symbols |-> lock[s] \ {p}]

-----------------------------------------------------------------------------
(* The start of a round: usage and state first, the ledger later.          *)

MayRun == Overlap \/ \A q \in Rounds : pc[q] = "down"

Exhausted == Total(usage) >= EnvelopeTotal

Start(p) ==
    /\ pc[p] = "down"
    /\ MayRun
    /\ ~trippedAt
    /\ ~Exhausted
    /\ counted' = [counted EXCEPT ![p] = usage]
    /\ Goto(p, "load")
    /\ UNCHANGED <<files, landed, lock, ledger, marked, cur>>

Refuse(p) ==
    /\ pc[p] = "down"
    /\ trippedAt \/ Exhausted
    /\ UNCHANGED vars

\* Mutant of Loaded: an interrupted send is taken for a failed one.
LoadedFailed ==
    [i \in Ids |-> IF rows[i] = "SENDING" THEN "FAILED" ELSE rows[i]]

\* The replay of the rows, from the first to the last.
Loaded == rows

\* A file that does not replay ends the round here.
LoadLedger(p) ==
    /\ pc[p] = "load"
    /\ IF broken
       THEN End(p)
       ELSE /\ ledger' = [ledger EXCEPT ![p] = Loaded]
            /\ Goto(p, "missing")
            /\ UNCHANGED <<counted, marked, cur, lock>>
    /\ UNCHANGED <<files, landed>>

\* Mutant of Missing: the usage loaded is not brought up to the ledger.
MissingNone(p) == {}

\* Mutant of Missing: an intent is not looked for in the usage loaded.
MissingAll(p) == {i \in Ids : ledger[p][i] # "ABSENT"}

\* Intents with no row in the usage loaded.  None of them is exempt from the
\* write budget here: a send is a real one, and an intent that was rejected
\* by a gate carries no mark and counts as well.
Missing(p) == {i \in Ids : ledger[p][i] # "ABSENT" /\ counted[p][i] = 0}

\* reconcile_usage_with_ledger
CountMissing(p) ==
    /\ pc[p] = "missing"
    /\ usage' = [i \in Ids |->
            usage[i] + IF i \in Missing(p) THEN 1 ELSE 0]
    /\ counted' = [counted EXCEPT ![p] =
            [i \in Ids |-> @[i] + IF i \in Missing(p) THEN 1 ELSE 0]]
    /\ Goto(p, "recover")
    /\ UNCHANGED <<rows, broken, symbol, sells, trippedAt, landed, lock, ledger,
                   marked, cur>>

\* recover_interrupted_sends takes every SENDING of its copy for a leftover,
\* marks them all and then queries one after the other.
MarkInterrupted(p) ==
    /\ pc[p] = "recover"
    /\ \E i \in Unresolved(p) :
          /\ Append(p, i, "SENDING", "SEND_TIMEOUT")
          /\ marked' = [marked EXCEPT ![p] = @ \cup {i}]
    /\ UNCHANGED <<symbol, sells, usage, trippedAt, landed, lock, pc, counted, cur>>

AllMarked(p) ==
    /\ pc[p] = "recover"
    /\ Unresolved(p) = {}
    /\ Goto(p, "query")
    /\ UNCHANGED <<files, landed, lock, memory>>

\* The READ_ONLY query finds the order or it does not.
Verdict(i) == IF i \in landed THEN "ACCEPTED" ELSE "FAILED"

ResolveInterrupted(p) ==
    /\ pc[p] = "query"
    /\ \E i \in marked[p] :
          /\ Append(p, i, "SEND_TIMEOUT", Verdict(i))
          /\ marked' = [marked EXCEPT ![p] = @ \ {i}]
    /\ UNCHANGED <<symbol, sells, usage, trippedAt, landed, lock, pc, counted, cur>>

Recovered(p) ==
    /\ pc[p] = "query"
    /\ marked[p] = {}
    /\ Goto(p, "gates")
    /\ UNCHANGED <<files, landed, lock, memory>>

-----------------------------------------------------------------------------
(* The gates and the send.                                                 *)

\* save_state writes the whole file from the state loaded at the start,
\* which was not tripped.
SaveLoaded == trippedAt' = FALSE

\* Mutant of TotalAllows: only what is used is compared, without this order.
TotalAllowsUsed(p) == Total(counted[p]) <= EnvelopeTotal

\* check_envelope_total, of one more order.
TotalAllows(p) == Total(counted[p]) + 1 <= EnvelopeTotal

\* The side of the order goes on to the dispatch.  The gates hold only a buy
\* to the total: an exit passes.
PassesTotal(p, side) == side = "sell" \/ TotalAllows(p)

\* Skip, pause, reject, halt, or no proposal: the state is saved.
NoWriteRound(p) ==
    /\ pc[p] = "gates"
    /\ SaveLoaded
    /\ End(p)
    /\ UNCHANGED <<rows, broken, symbol, sells, usage, landed>>

\* A gate trips, or the breaker did while the order was sent; on_trip
\* writes the trip lock into the state file.
Trip(p) ==
    /\ \/ pc[p] = "gates"
       \/ pc[p] = "finish" /\ ledger[p][cur[p]] \in {"REJECTED", "FAILED",
                                                      "SEND_TIMEOUT"}
    /\ trippedAt' = TRUE
    /\ Goto(p, "tripped")
    /\ UNCHANGED <<rows, broken, symbol, sells, usage, landed, lock, memory>>

\* Mutant of SaveTripped: on_trip left the state of the runtime as it was.
SaveUntripped == SaveLoaded

\* The cycle saves the state once more, the one on_trip replaced.
SaveTripped == trippedAt' = TRUE

TripEnds(p) ==
    /\ pc[p] = "tripped"
    /\ SaveTripped
    /\ End(p)
    /\ UNCHANGED <<rows, broken, symbol, sells, usage, landed>>

Allow(p) ==
    /\ pc[p] = "gates"
    /\ \E side \in Sides : PassesTotal(p, side) /\ Goto(p, side)
    /\ SaveLoaded
    /\ UNCHANGED <<rows, broken, symbol, sells, usage, landed, lock, memory>>

\* Mutant of LockFree: the lock is taken without looking.
LockAlways(s) == TRUE

LockFree(s) == lock[s] = {}

Record(i, p) ==
    /\ symbol' = [symbol EXCEPT ![i] = SymbolOf[p]]
    /\ sells' = IF pc[p] = "sell" THEN sells \cup {i} ELSE sells
    /\ cur' = [cur EXCEPT ![p] = i]

\* In flight by the copy of the ledger, or the lock is taken.
GateReject(p) ==
    /\ pc[p] \in Sides
    /\ BusyIn(ledger[p], SymbolOf[p]) # {} \/ ~LockFree(SymbolOf[p])
    /\ \E i \in Fresh :
          Record(i, p) /\ Append(p, i, "ABSENT", "GATE_REJECTED")
    /\ Goto(p, "finish")
    /\ UNCHANGED <<usage, trippedAt, landed, lock, counted, marked>>

BeginSend(p) ==
    /\ pc[p] \in Sides
    /\ BusyIn(ledger[p], SymbolOf[p]) = {}
    /\ LockFree(SymbolOf[p])
    /\ \E i \in Fresh :
          Record(i, p) /\ Append(p, i, "ABSENT", "SENDING")
    /\ lock' = [lock EXCEPT ![SymbolOf[p]] = @ \cup {p}]
    /\ Goto(p, "sending")
    /\ UNCHANGED <<usage, trippedAt, landed, counted, marked>>

Land(p) ==
    /\ pc[p] = "sending"
    /\ cur[p] \notin landed
    /\ landed' = landed \cup {cur[p]}
    /\ UNCHANGED <<files, lock, pc, memory>>

\* Accepted, refused, or no answer; the lock is released in each case.
Reply(p) ==
    /\ pc[p] = "sending"
    /\ \E target \in {"SEND_TIMEOUT",
                      IF cur[p] \in landed THEN "ACCEPTED" ELSE "REJECTED"} :
          Append(p, cur[p], "SENDING", target)
    /\ lock' = [lock EXCEPT ![SymbolOf[p]] = @ \ {p}]
    /\ Goto(p, "count")
    /\ UNCHANGED <<symbol, sells, usage, trippedAt, landed, counted, marked, cur>>

CountUsage(p) ==
    /\ pc[p] = "count"
    /\ usage' = [usage EXCEPT ![cur[p]] = @ + 1]
    /\ counted' = [counted EXCEPT ![p][cur[p]] = @ + 1]
    /\ Goto(p, IF ledger[p][cur[p]] = "SEND_TIMEOUT" THEN "settle"
               ELSE "finish")
    /\ UNCHANGED <<rows, broken, symbol, sells, trippedAt, landed, lock, ledger,
                   marked, cur>>

\* resolve_send_timeout_settled
Settle(p) ==
    /\ pc[p] = "settle"
    /\ Append(p, cur[p], "SEND_TIMEOUT", Verdict(cur[p]))
    /\ Goto(p, "finish")
    /\ UNCHANGED <<symbol, sells, usage, trippedAt, landed, lock, counted, marked,
                   cur>>

Finish(p) ==
    /\ pc[p] = "finish"
    /\ SaveLoaded
    /\ End(p)
    /\ UNCHANGED <<rows, broken, symbol, sells, usage, landed>>

\* The process is killed, or a query fails and ends the round.
Kill(p) ==
    /\ pc[p] # "down"
    /\ End(p)
    /\ UNCHANGED <<files, landed>>

-----------------------------------------------------------------------------
Next == \E p \in Rounds :
    \/ Start(p) \/ Refuse(p) \/ LoadLedger(p) \/ CountMissing(p)
    \/ MarkInterrupted(p) \/ AllMarked(p) \/ ResolveInterrupted(p)
    \/ Recovered(p)
    \/ NoWriteRound(p) \/ Trip(p) \/ TripEnds(p) \/ Allow(p)
    \/ GateReject(p) \/ BeginSend(p) \/ Land(p) \/ Reply(p)
    \/ CountUsage(p) \/ Settle(p) \/ Finish(p) \/ Kill(p)

Spec == Init /\ [][Next]_vars

-----------------------------------------------------------------------------
\* The shared files, the locks and the copies of every round keep their types.
TypeOK ==
    /\ rows \in [Ids -> EntryState] /\ broken \in BOOLEAN
    /\ symbol \in [Ids -> Symbols \cup {NoSymbol}] /\ sells \subseteq Ids
    /\ usage \in [Ids -> Nat] /\ trippedAt \in BOOLEAN
    /\ landed \subseteq Ids
    /\ lock \in [Symbols -> SUBSET Rounds]
    /\ pc \in [Rounds -> {"down", "load", "missing", "recover", "query",
                          "gates", "tripped", "buy", "sell", "sending",
                          "count", "settle", "finish"}]
    /\ ledger \in [Rounds -> [Ids -> EntryState]]
    /\ counted \in [Rounds -> [Ids -> Nat]]
    /\ marked \in [Rounds -> SUBSET Ids]
    /\ cur \in [Rounds -> {0} \cup Ids]

\* What the rounds of all markets wrote stays a ledger that can be loaded:
\* no row contradicts the rows before it.
LedgerReplays == ~broken

\* No buy of any market is sent that does not fit into the envelope beside
\* all orders sent before it.  A sell is exempt, but a round starts only
\* below the total and learns of one order more at most that a killed round
\* has not counted: all orders together exceed the total by one sell at most.
\* The usage counts each of them once.
EnvelopeKept ==
    [][/\ Cardinality(SentOrders') <= EnvelopeTotal + 1
       /\ \A i \in SentOrders' \ SentOrders :
             i \in sells' \/ Cardinality(SentOrders') <= EnvelopeTotal
       /\ \A i \in Ids : usage'[i] <= 1]_vars

\* Once the trip lock is in the state file no round takes it out again.
TripIsForGood == [][trippedAt => trippedAt']_vars

\* At most one request of a symbol is out, whichever rounds overlap.
OneSenderPerSymbol ==
    \A p, q \in Rounds :
        (pc[p] = "sending" /\ pc[q] = "sending" /\ SymbolOf[p] = SymbolOf[q])
            => p = q

\* A round never decides on the envelope without the cost of an order that
\* the ledger it loaded shows as sent.
GatesSeeLoaded ==
    \A p \in Rounds :
        pc[p] \in Deciding =>
            \A i \in Ids : ledger[p][i] \in Sent => counted[p][i] > 0

\* The inductive invariant behind the last two: who sends holds the lock of
\* its symbol alone, and whatever a round still has to query is in its copy
\* of the ledger.
SenderHoldsLock ==
    \A p \in Rounds : pc[p] = "sending" => lock[SymbolOf[p]] = {p}

\* Who sends, sends an intent it recorded.
SenderHasIntent == \A p \in Rounds : pc[p] = "sending" => cur[p] \in Ids

\* Only a recovering round has intents to query, and its copy knows them.
MarkedAreKnown ==
    \A p \in Rounds : \A i \in marked[p] :
        pc[p] \in {"recover", "query"} /\ ledger[p][i] # "ABSENT"

\* Whatever the copy of a deciding round shows is counted, sent or not.
GatesSeeCopy ==
    \A p \in Rounds :
        pc[p] \in Deciding =>
            \A i \in Ids : ledger[p][i] # "ABSENT" => counted[p][i] > 0

\* The conjunction that every step of every round keeps.
RoundsInvariant ==
    /\ TypeOK
    /\ SenderHasIntent
    /\ SenderHoldsLock
    /\ MarkedAreKnown
    /\ GatesSeeCopy

(***************************************************************************)
(* Rounds that take turns: what else every step keeps when no round starts *)
(* before the last one has ended.                                          *)
(***************************************************************************)
\* Two rounds never run together.
OneAtATime ==
    \A p, q \in Rounds : (pc[p] # "down" /\ pc[q] # "down") => p = q

\* The one that runs has read or written everything the files hold.
CopiesCurrent ==
    \A p \in Rounds :
        /\ pc[p] # "down" => counted[p] = usage
        /\ pc[p] \notin {"down", "load"} => ledger[p] = rows

\* What it has to query is in doubt in the file.
MarkedInDoubt == \A p \in Rounds : \A i \in marked[p] : rows[i] = "SEND_TIMEOUT"

\* What it sends is in the file as its phase says, and not counted yet.
SendsOwn ==
    \A p \in Rounds :
        /\ pc[p] \in {"sending", "count", "settle"} => cur[p] \in Ids
        /\ pc[p] = "sending" => rows[cur[p]] = "SENDING" /\ usage[cur[p]] = 0
        /\ pc[p] = "count" => rows[cur[p]] \in Sent /\ usage[cur[p]] = 0
        /\ pc[p] = "settle" => rows[cur[p]] = "SEND_TIMEOUT"

\* Only intents of the file are counted.
CountedAreKnown == \A i \in Ids : usage[i] > 0 => rows[i] # "ABSENT"

\* A round that buys has room for its order.
RoomForOne == \A p \in Rounds : pc[p] = "buy" => TotalAllows(p)

\* At most one intent of the file has no row of usage.
OneUncounted ==
    \A i, j \in Ids :
        ({rows[i], rows[j]} \cap {"ABSENT"} = {} /\ {usage[i], usage[j]} = {0})
            => i = j

\* No row of usage is written twice for an intent.
CountedOnce == \A i \in Ids : usage[i] <= 1

\* Intents are no more than the total until a round adds one to them, and
\* it is the last: the next one finds the envelope exhausted.
RoomToExit ==
    /\ Cardinality(Known) <= EnvelopeTotal + 1
    /\ \A p \in Rounds :
          pc[p] \in {"load", "missing"} \cup Deciding =>
              Cardinality(Known) <= EnvelopeTotal

\* With the trip lock set only the round that set it runs, to its end.
TrippedIsLast == trippedAt => \A p \in Rounds : pc[p] \in {"down", "tripped"}

\* The conjunction that every step of rounds that take turns keeps.
TurnsInvariant ==
    /\ RoundsInvariant
    /\ OneAtATime
    /\ CopiesCurrent
    /\ MarkedInDoubt
    /\ SendsOwn
    /\ CountedAreKnown
    /\ RoomForOne
    /\ TrippedIsLast
    /\ LedgerReplays
    /\ OneUncounted
    /\ CountedOnce
    /\ RoomToExit

\* What the ledger says became of a request is what the exchange did with
\* it, now and later: an accepted intent is an order, a refused or failed one
\* is not and never becomes one.  A request lands before its round goes on
\* here; those that land later are in LiveExecutor, where this fails.
OutcomesTrue ==
    \A i \in Ids :
        /\ rows[i] = "ACCEPTED" => i \in landed
        /\ i \in landed => rows[i] \in {"SENDING", "SEND_TIMEOUT", "ACCEPTED"}

\* At most one intent of a symbol is in flight or in doubt (T-05).
OneInDoubt ==
    \A i, j \in Ids :
        (/\ symbol[i] = symbol[j]
         /\ {rows[i], rows[j]} \subseteq InFlightStates) => i = j

\* A row moves an intent along the table of domain/intent.py.  The row that
\* records it and the one after it are one step here.
RowsFollowTable ==
    [][\A i \in Ids : rows'[i] # rows[i] =>
          rows'[i] \in Allowed(IF rows[i] = "ABSENT" THEN "RECORDED"
                               ELSE rows[i])]_vars

(***************************************************************************)
(* What the documents say and overlapping rounds of one symbol do not do.  *)
(***************************************************************************)
\* No order of a symbol is sent while an earlier one is in doubt (T-05).
NothingInDoubt ==
    [][\A p \in Rounds :
          (pc[p] \in Sides /\ pc'[p] = "sending")
              => BusyIn(rows, SymbolOf[p]) = {}]_vars

=============================================================================
