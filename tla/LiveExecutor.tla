---------------------------- MODULE LiveExecutor ----------------------------
(***************************************************************************)
(* src/guvolu/execution/live_executor.py: the rounds of the live executor  *)
(* over one envelope of one symbol, together with the ledger, the usage    *)
(* file and the envelope state it persists and the exchange it trades on.  *)
(* A round is one run of the program; between rounds the process is down.  *)
(* It may be killed anywhere, and any query may fail.                      *)
(*                                                                         *)
(* A row of the ledger is one step here (IntentLedger is the file below    *)
(* it).  Prices are all equal, so that a size stands for a notional and    *)
(* two orders differ only in side, type, size and time.  All rounds fall   *)
(* into one trading day and no second process runs.                        *)
(***************************************************************************)
EXTENDS IntentStates, Naturals, FiniteSets, FiniteSetsExt

CONSTANTS
    MaxIntents,     \* bound on the intents, for TLC only
    Lots,           \* largest size of a proposal
    Sides,          \* sides a target may call for
    DayCountMax,    \* LimitGate: orders of a trading day (T-11)
    FailureLimit,   \* CircuitBreaker: consecutive write failures (R-02)
    EnvelopeTotal,  \* envelope_jpy_total
    FlattenOnTrip,  \* on_trip is cancel_and_flatten
    MaxLate         \* bound: requests under way when the reply times out

ASSUME BoundAssumption ==
    /\ {MaxIntents, Lots, DayCountMax, EnvelopeTotal, MaxLate} \subseteq Nat
    /\ FailureLimit \in Nat \ {0}
ASSUME OptionAssumption ==
    /\ Sides \subseteq {"BUY", "SELL"}
    /\ FlattenOnTrip \in BOOLEAN

VARIABLES
    st,             \* ledger: the state of an intent
    ordOf,          \* ledger: its order number, 0 when none is mapped
    form,           \* ledger: what was recorded of an intent
    usage,          \* usage file: the intents it has a row for
    file,           \* envelope state file: trip lock, consecutive failures
    ex,             \* exchange: where the order of an intent is
    done,           \* exchange: lots executed
    late,           \* requests so far that were under way at the timeout
    pc,             \* what the round does next, "down" between rounds
    exit,           \* how the last round ended
    cur,            \* the intent being sent or resolved, 0 when none
    plan,           \* first intent of this round's proposal, 0 when none
    left,           \* lots of the proposal not executed yet
    terminal,       \* outcome.terminal: a final order snapshot was read
    seen,           \* orders the activeOrders query returned
    breaker,        \* CircuitBreaker in memory
    dayCount,       \* LimitGate in memory: orders counted today
    locked,         \* runtime.state.tripped_at in memory
    early           \* orders on the exchange before the round began

ledger == <<st, ordOf, form>>
exchange == <<ex, done, late>>
memory == <<cur, plan, left, terminal, seen, breaker, dayCount, locked, early>>
vars == <<ledger, usage, file, exchange, pc, exit, memory>>

Ids == 1 .. MaxIntents

(* The order of intent i carries number i: at most one request is sent per *)
(* intent, and numbers grow with time.                                     *)
Kind == {"passive", "taker", "direct", "market"}
Form == [side : {"BUY", "SELL"}, size : 0 .. Lots, kind : Kind, plan : 0 .. MaxIntents,
         older : SUBSET Ids]
NoForm == [side |-> "SELL", size |-> 0, kind |-> "direct", plan |-> 0, older |-> {}]

OnBook == {"open", "cancelling"}
Landed == OnBook \union {"executed", "cancelled"}
Place == Landed \union {"none", "flying", "lost", "refused"}
Closed == {"executed", "cancelled"}

(* Where a request with no reply may be: lost, on the book, or under way   *)
(* and on the book whenever the exchange likes.                            *)
NoReply(i) ==
    \/ \E where \in {"lost", "open"} : ex' = [ex EXCEPT ![i] = where] /\ UNCHANGED late
    \/ /\ late < MaxLate
       /\ ex' = [ex EXCEPT ![i] = "flying"]
       /\ late' = late + 1

Recorded == {i \in Ids : st[i] # "ABSENT"}
NextId == Cardinality(Recorded) + 1
InFlight == {i \in Ids : st[i] \in InFlightStates}

(* Faulty variant: only replies of the exchange count. *)
SpentOnReply == {i \in Ids : st[i] \in {"ACCEPTED", "REJECTED", "FAILED"}}

(* limit_replay.py: intents that entered SENDING, whatever became of them. *)
Spent == {i \in Ids : st[i] \notin {"ABSENT", "RECORDED", "GATE_REJECTED"}}

UsageTotal == MapThenSumSet(LAMBDA i : form[i].size, usage)

Steady == [tripped |-> FALSE, failures |-> 0]

(* Faulty variant: the limit is passed before it trips. *)
FailureOneMore(b) ==
    [failures |-> b.failures + 1, tripped |-> b.tripped \/ b.failures >= FailureLimit]

Failure(b) ==
    [failures |-> b.failures + 1,
     tripped  |-> b.tripped \/ b.failures + 1 >= FailureLimit]

Init ==
    /\ st = [i \in Ids |-> "ABSENT"]
    /\ ordOf = [i \in Ids |-> 0]
    /\ form = [i \in Ids |-> NoForm]
    /\ usage = {}
    /\ file = Steady
    /\ ex = [i \in Ids |-> "none"]
    /\ done = [i \in Ids |-> 0]
    /\ late = 0
    /\ pc = "down"
    /\ exit = "none"
    /\ cur = 0 /\ plan = 0 /\ left = 0
    /\ terminal = FALSE
    /\ seen = {}
    /\ breaker = Steady
    /\ dayCount = 0
    /\ locked = FALSE
    /\ early = {}

(***************************************************************************)
(* Ends of a round: everything in memory is gone.                          *)
(***************************************************************************)
End(how) ==
    /\ pc' = "down"
    /\ exit' = how
    /\ cur' = 0 /\ plan' = 0 /\ left' = 0
    /\ terminal' = FALSE
    /\ seen' = {}
    /\ breaker' = Steady
    /\ dayCount' = 0
    /\ locked' = FALSE
    /\ early' = {}

(* A READ_ONLY or public query raises ApiNetworkError or GmoApiError and   *)
(* main turns it into a refusal report.                                    *)
ReadFails ==
    /\ \/ pc \in {"readActive", "readExecutions", "plan", "poll", "verify",
                  "refresh", "flatten", "finish"}
       \/ pc = "judge" /\ terminal /\ ~breaker.tripped
       \/ pc = "lock" /\ FlattenOnTrip
    /\ End("refused")
    /\ UNCHANGED <<ledger, usage, file, exchange>>

(* The process is killed; a request being sent may be anywhere. *)
Kill ==
    /\ pc # "down"
    /\ End("killed")
    /\ IF pc \in {"send", "flattenSend"} THEN NoReply(cur) ELSE UNCHANGED <<ex, late>>
    /\ UNCHANGED <<ledger, usage, file, done>>

Go(to) == pc' = to /\ exit' = exit

(***************************************************************************)
(* Start: checks of main, reconcile_usage_with_ledger, seed_failures,      *)
(* replay_limit_usage, recover_interrupted_sends.                          *)
(***************************************************************************)
StartRound ==
    /\ pc = "down"
    /\ ~file.tripped
    /\ UsageTotal < EnvelopeTotal
    /\ pc' = "usage" /\ exit' = "none"
    /\ early' = {j \in Ids : ex[j] \in Landed}
    /\ UNCHANGED <<ledger, usage, file, exchange, cur, plan, left, terminal, seen,
                   breaker, dayCount, locked>>

(* A locked or exhausted envelope: main refuses, and so it does for good. *)
RefuseRound ==
    /\ pc = "down"
    /\ file.tripped \/ UsageTotal >= EnvelopeTotal
    /\ exit' = "refused"
    /\ UNCHANGED <<ledger, usage, file, exchange, pc, memory>>

(* Faulty variant: intents still in doubt are left for later. *)
UncountedButInFlight ==
    {i \in Recorded : i \notin usage /\ form[i].kind # "market"
                      /\ st[i] \notin InFlightStates}

(* consumed_write_budget is true of an intent with no mark, so RECORDED    *)
(* and GATE_REJECTED intents are in; a market intent has no price.         *)
Uncounted == {i \in Recorded : i \notin usage /\ form[i].kind # "market"}

CountMissing ==
    /\ pc = "usage"
    /\ \E i \in Uncounted : usage' = usage \union {i}
    /\ UNCHANGED <<ledger, file, exchange, pc, exit, memory>>

(* A market intent of the day cannot be replayed: LimitReplayError, which  *)
(* main does not catch.                                                    *)
Prepare ==
    /\ pc = "usage"
    /\ Uncounted = {}
    /\ IF \E i \in Spent : form[i].kind = "market"
       THEN End("killed")
       ELSE /\ breaker' = [failures |-> file.failures,
                           tripped  |-> file.failures >= FailureLimit]
            /\ dayCount' = Cardinality(Spent)
            /\ Go("recover")
            /\ UNCHANGED <<cur, plan, left, terminal, seen, locked, early>>
    /\ UNCHANGED <<ledger, usage, file, exchange>>

(* Of one symbol at most one intent is SENDING. *)
MarkInterrupted ==
    /\ pc = "recover"
    /\ \E i \in Ids :
          /\ st[i] = "SENDING"
          /\ st' = [st EXCEPT ![i] = "SEND_TIMEOUT"]
          /\ cur' = i
    /\ Go("readActive")
    /\ UNCHANGED <<ordOf, form, usage, file, exchange, plan, left, terminal, seen,
                   breaker, dayCount, locked, early>>

Recovered ==
    /\ pc = "recover"
    /\ \A i \in Ids : st[i] # "SENDING"
    /\ Go("plan")
    /\ UNCHANGED <<ledger, usage, file, exchange, memory>>

(***************************************************************************)
(* resolve_send_timeout: two queries, then one row.                        *)
(***************************************************************************)
ReadActive ==
    /\ pc = "readActive"
    /\ seen' = {j \in Ids : ex[j] \in OnBook}
    /\ Go("readExecutions")
    /\ UNCHANGED <<ledger, usage, file, exchange, cur, plan, left, terminal, breaker,
                   dayCount, locked, early>>

Unmapped(j) == \A i \in Ids : ordOf[i] # j

OrderMatches(i, j) ==
    /\ form[j].side = form[i].side
    /\ (form[j].kind = "market") <=> (form[i].kind = "market")
    /\ form[j].size = form[i].size
    /\ j \notin form[i].older

ExecutionsMatch(i, j) ==
    /\ done[j] > 0
    /\ done[j] <= form[i].size
    /\ form[j].side = form[i].side
    /\ j \notin form[i].older

(* Faulty variant: mapped orders are candidates again. *)
CandidatesMapped(i) ==
    {j \in Ids : (j \in seen /\ OrderMatches(i, j)) \/ ExecutionsMatch(i, j)}

(* Faulty variant: only open orders are looked at. *)
CandidatesOpen(i) == {j \in seen : Unmapped(j) /\ OrderMatches(i, j)}

Candidates(i) ==
    {j \in Ids : /\ Unmapped(j)
                 /\ (j \in seen /\ OrderMatches(i, j)) \/ ExecutionsMatch(i, j)}

Decide ==
    /\ pc = "readExecutions"
    /\ LET found == Candidates(cur)
       IN  \/ /\ Cardinality(found) > 1
              /\ UNCHANGED ledger
              /\ Go(IF plan = 0 THEN "recover" ELSE "judge")
           \/ \E j \in found :
              /\ found = {j}
              /\ st' = [st EXCEPT ![cur] = "ACCEPTED"]
              /\ ordOf' = [ordOf EXCEPT ![cur] = j]
              /\ UNCHANGED form
              /\ Go(IF plan = 0 THEN "recover" ELSE "poll")
           \/ /\ found = {}
              /\ st' = [st EXCEPT ![cur] = "FAILED"]
              /\ UNCHANGED <<ordOf, form>>
              /\ Go(IF plan = 0 THEN "recover" ELSE "judge")
    /\ seen' = {}
    /\ UNCHANGED <<usage, file, exchange, cur, plan, left, terminal, breaker,
                   dayCount, locked, early>>

(***************************************************************************)
(* run_live_cycle: the verdict of the envelope gates.  What the market and *)
(* the clock decide is a free choice; the envelope total is not.           *)
(***************************************************************************)
TotalGate(side, size) ==
    side = "SELL" \/ (UsageTotal < EnvelopeTotal /\ UsageTotal + size <= EnvelopeTotal)

(* skip, pause, reject, halt, or an allowed plan without a proposal. *)
NoWriteRound ==
    /\ pc = "plan"
    /\ pc' = "finish" /\ exit' \in {"ok", "refused"}
    /\ UNCHANGED <<ledger, usage, file, exchange, memory>>

TripVerdict ==
    /\ pc = "plan"
    /\ breaker' = [breaker EXCEPT !.tripped = TRUE]
    /\ Go("cancelAll")
    /\ UNCHANGED <<ledger, usage, file, exchange, cur, plan, left, terminal, seen,
                   dayCount, locked, early>>

(* record_intent of the next intent: the first action of a dispatch. *)
Record(side, size, kind, first, older) ==
    /\ st' = [st EXCEPT ![NextId] = "RECORDED"]
    /\ form' = [form EXCEPT ![NextId] =
                   [side |-> side, size |-> size, kind |-> kind, plan |-> first,
                    older |-> older]]
    /\ cur' = NextId
    /\ UNCHANGED ordOf

(* A passive order, or a direct one when no passive phase is configured.   *)
(* The guard on NextId keeps room for the second phase and for a flatten.  *)
RecordProposal ==
    /\ pc = "plan"
    /\ \E side \in Sides, size \in 1 .. Lots, kind \in {"passive", "direct"} :
          /\ NextId + (IF kind = "passive" THEN 1 ELSE 0) <= MaxIntents
          /\ TotalGate(side, size)
          /\ Record(side, size, kind, NextId, early)
          /\ left' = size
    /\ plan' = NextId
    /\ Go("gates")
    /\ UNCHANGED <<usage, file, exchange, terminal, seen, breaker, dayCount, locked,
                   early>>

(* The second phase: what the passive order left over, created now, so     *)
(* that an order of earlier in the round may be outside the time window.   *)
RecordTaker ==
    /\ pc = "refresh"
    /\ \E older \in {early, {j \in Ids : ex[j] \in Landed}} :
          Record(form[plan].side, left, "taker", plan, older)
    /\ terminal' = FALSE
    /\ Go("gates")
    /\ UNCHANGED <<usage, file, exchange, plan, left, seen, breaker, dayCount, locked,
                   early>>

(***************************************************************************)
(* dispatch_order_intent: gates, SENDING, request, outcome row.            *)
(***************************************************************************)
GateReject ==
    /\ pc = "gates"
    /\ \/ /\ breaker.tripped \/ InFlight # {}
          /\ UNCHANGED breaker
       \/ /\ ~breaker.tripped /\ InFlight = {}
          /\ dayCount + 1 > DayCountMax
          /\ breaker' = [breaker EXCEPT !.tripped = TRUE]
    /\ st' = [st EXCEPT ![cur] = "GATE_REJECTED"]
    /\ Go("judge")
    /\ UNCHANGED <<ordOf, form, usage, file, exchange, cur, plan, left, terminal, seen,
                   dayCount, locked, early>>

(* Faulty variant: the ledger's in-flight intents are not looked at. *)
BeginSendBusy ==
    /\ pc = "gates"
    /\ ~breaker.tripped
    /\ dayCount + 1 <= DayCountMax
    /\ dayCount' = dayCount + 1
    /\ st' = [st EXCEPT ![cur] = "SENDING"]
    /\ Go("send")
    /\ UNCHANGED <<ordOf, form, usage, file, exchange, cur, plan, left, terminal, seen,
                   breaker, locked, early>>

BeginSend ==
    /\ pc = "gates"
    /\ ~breaker.tripped
    /\ InFlight = {}
    /\ dayCount + 1 <= DayCountMax
    /\ dayCount' = dayCount + 1
    /\ st' = [st EXCEPT ![cur] = "SENDING"]
    /\ Go("send")
    /\ UNCHANGED <<ordOf, form, usage, file, exchange, cur, plan, left, terminal, seen,
                   breaker, locked, early>>

SendAccepted ==
    /\ pc = "send"
    /\ ex' = [ex EXCEPT ![cur] = "open"]
    /\ breaker' = [breaker EXCEPT !.failures = 0]
    /\ st' = [st EXCEPT ![cur] = "ACCEPTED"]
    /\ ordOf' = [ordOf EXCEPT ![cur] = cur]
    /\ Go("count")
    /\ UNCHANGED <<form, usage, file, done, late, cur, plan, left, terminal, seen, dayCount,
                   locked, early>>

SendRefused ==
    /\ pc = "send"
    /\ ex' = [ex EXCEPT ![cur] = "refused"]
    /\ breaker' = Failure(breaker)
    /\ st' = [st EXCEPT ![cur] = "REJECTED"]
    /\ Go("count")
    /\ UNCHANGED <<ordOf, form, usage, file, done, late, cur, plan, left, terminal, seen,
                   dayCount, locked, early>>

SendTimesOut ==
    /\ pc = "send"
    /\ NoReply(cur)
    /\ breaker' = Failure(breaker)
    /\ st' = [st EXCEPT ![cur] = "SEND_TIMEOUT"]
    /\ Go("count")
    /\ UNCHANGED <<ordOf, form, usage, file, done, cur, plan, left, terminal, seen,
                   dayCount, locked, early>>

(***************************************************************************)
(* _execute_single after the dispatch: usage row, timeout resolution,      *)
(* bounded polling, cancel, polling until the cancel is confirmed.         *)
(***************************************************************************)
CountUsage ==
    /\ pc = "count"
    /\ usage' = usage \union {cur}
    /\ Go(CASE st[cur] = "ACCEPTED"     -> "poll"
            [] st[cur] = "SEND_TIMEOUT" -> "readActive"
            [] OTHER                    -> "judge")
    /\ UNCHANGED <<ledger, file, exchange, memory>>

Order == ordOf[cur]

PollClosed ==
    /\ pc \in {"poll", "verify"}
    /\ ex[Order] \in Closed
    /\ terminal' = TRUE
    /\ left' = IF done[Order] < left THEN left - done[Order] ELSE 0
    /\ Go(IF form[cur].kind = "passive" /\ ex[Order] # "executed" /\ left' > 0
          THEN "refresh" ELSE "judge")
    /\ UNCHANGED <<ledger, usage, file, exchange, cur, plan, seen, breaker, dayCount,
                   locked, early>>

WindowEnds ==
    /\ pc = "poll"
    /\ ex[Order] \notin Closed
    /\ Go("cancel")
    /\ UNCHANGED <<ledger, usage, file, exchange, memory>>

CancelReaches == IF ex[Order] = "open" THEN [ex EXCEPT ![Order] = "cancelling"] ELSE ex

Cancel ==
    /\ pc = "cancel"
    /\ \/ ex' = CancelReaches /\ UNCHANGED breaker
       \/ ex' \in {ex, CancelReaches} /\ breaker' = Failure(breaker)
    /\ Go("verify")
    /\ UNCHANGED <<ledger, usage, file, done, late, cur, plan, left, terminal, seen, dayCount,
                   locked, early>>

(* Faulty variant: an unconfirmed cancel starts the second phase. *)
VerifyEndsEarly ==
    /\ pc = "verify"
    /\ ex[Order] \notin Closed
    /\ left' = left - done[Order]
    /\ Go(IF form[cur].kind = "passive" THEN "refresh" ELSE "judge")
    /\ UNCHANGED <<ledger, usage, file, exchange, cur, plan, terminal, seen, breaker,
                   dayCount, locked, early>>

(* The cancel is not confirmed in time: the order may still be on the book *)
(* and the second phase is not started.                                    *)
VerifyEnds ==
    /\ pc = "verify"
    /\ ex[Order] \notin Closed
    /\ Go("judge")
    /\ UNCHANGED <<ledger, usage, file, exchange, memory>>

Judge ==
    /\ pc = "judge"
    /\ \/ breaker.tripped /\ Go("cancelAll")
       \/ /\ ~breaker.tripped
          /\ pc' = "finish"
          /\ exit' = IF terminal THEN "ok" ELSE "anomaly"
    /\ UNCHANGED <<ledger, usage, file, exchange, memory>>

(***************************************************************************)
(* execute_on_trip: cancel everything, flatten, lock the envelope.         *)
(***************************************************************************)
CancelAll ==
    /\ pc = "cancelAll"
    /\ \E hit \in BOOLEAN :
          ex' = [j \in Ids |-> IF hit /\ ex[j] = "open" THEN "cancelling" ELSE ex[j]]
    /\ Go(IF FlattenOnTrip THEN "flatten" ELSE "lock")
    /\ UNCHANGED <<ledger, usage, file, done, late, memory>>

(* No position worth an order, service not open, or the lock is held. *)
FlattenSkipped ==
    /\ pc = "flatten"
    /\ Go("lock")
    /\ UNCHANGED <<ledger, usage, file, exchange, memory>>

FlattenRecord ==
    /\ pc = "flatten"
    /\ NextId <= MaxIntents
    /\ \E size \in 1 .. Lots : Record("SELL", size, "market", NextId, early)
    /\ Go("flattenBegin")
    /\ UNCHANGED <<usage, file, exchange, plan, left, terminal, seen, breaker, dayCount,
                   locked, early>>

(* begin_send refuses while an intent is in flight: ledger_conflict. *)
FlattenBegin ==
    /\ pc = "flattenBegin"
    /\ \/ /\ InFlight = {}
          /\ st' = [st EXCEPT ![cur] = "SENDING"]
          /\ Go("flattenCount")
       \/ InFlight # {} /\ UNCHANGED st /\ Go("lock")
    /\ UNCHANGED <<ordOf, form, usage, file, exchange, memory>>

FlattenCount ==
    /\ pc = "flattenCount"
    /\ usage' = usage \union {cur}
    /\ dayCount' = dayCount + 1
    /\ Go("flattenSend")
    /\ UNCHANGED <<ledger, file, exchange, cur, plan, left, terminal, seen, breaker,
                   locked, early>>

FlattenSend ==
    /\ pc = "flattenSend"
    /\ \/ /\ ex' = [ex EXCEPT ![cur] = "open"]
          /\ st' = [st EXCEPT ![cur] = "ACCEPTED"]
          /\ ordOf' = [ordOf EXCEPT ![cur] = cur]
          /\ UNCHANGED late
       \/ /\ ex' = [ex EXCEPT ![cur] = "refused"]
          /\ st' = [st EXCEPT ![cur] = "REJECTED"]
          /\ UNCHANGED <<ordOf, late>>
       \/ /\ NoReply(cur)
          /\ st' = [st EXCEPT ![cur] = "SEND_TIMEOUT"]
          /\ UNCHANGED ordOf
    /\ Go("lock")
    /\ UNCHANGED <<form, usage, file, done, memory>>

LockState ==
    /\ pc = "lock"
    /\ locked' = TRUE
    /\ file' = [file EXCEPT !.tripped = TRUE]
    /\ pc' = "finish" /\ exit' = "anomaly"
    /\ UNCHANGED <<ledger, usage, exchange, cur, plan, left, terminal, seen, breaker,
                   dayCount, early>>

(* Faulty variant: the state loaded at the start is written back. *)
FinishStale ==
    /\ pc = "finish"
    /\ file' = [tripped |-> FALSE, failures |-> breaker.failures]
    /\ End(exit)
    /\ UNCHANGED <<ledger, usage, exchange>>

(* The last save of _run_live_main, after the closing query of the assets. *)
Finish ==
    /\ pc = "finish"
    /\ file' = [tripped |-> locked, failures |-> breaker.failures]
    /\ End(exit)
    /\ UNCHANGED <<ledger, usage, exchange>>

(***************************************************************************)
(* The exchange.                                                           *)
(***************************************************************************)
Land(j) ==
    /\ ex[j] = "flying"
    /\ ex' \in {[ex EXCEPT ![j] = "open"], [ex EXCEPT ![j] = "lost"]}
    /\ UNCHANGED <<ledger, usage, file, done, late, pc, exit, memory>>

Fill(j) ==
    /\ ex[j] \in OnBook
    /\ done' = [done EXCEPT ![j] = @ + 1]
    /\ ex' = IF done'[j] = form[j].size THEN [ex EXCEPT ![j] = "executed"] ELSE ex
    /\ UNCHANGED <<late, ledger, usage, file, pc, exit, memory>>

(* A requested cancel takes effect, a post-only order that would trade at  *)
(* once expires, the rest of a market order expires.                       *)
Close(j) ==
    /\ \/ ex[j] = "cancelling"
       \/ ex[j] = "open" /\ form[j].kind = "passive" /\ done[j] = 0
       \/ ex[j] = "open" /\ form[j].kind = "market"
    /\ ex' = [ex EXCEPT ![j] = "cancelled"]
    /\ UNCHANGED <<ledger, usage, file, done, late, pc, exit, memory>>

Executor ==
    \/ StartRound \/ RefuseRound \/ CountMissing \/ Prepare \/ MarkInterrupted \/ Recovered
    \/ ReadActive \/ Decide
    \/ NoWriteRound \/ TripVerdict \/ RecordProposal \/ RecordTaker
    \/ GateReject \/ BeginSend \/ SendAccepted \/ SendRefused \/ SendTimesOut
    \/ CountUsage \/ PollClosed \/ WindowEnds \/ Cancel \/ VerifyEnds \/ Judge
    \/ CancelAll \/ FlattenSkipped \/ FlattenRecord \/ FlattenBegin \/ FlattenCount
    \/ FlattenSend \/ LockState \/ Finish

Exchange == \E j \in Ids : Land(j) \/ Fill(j) \/ Close(j)

Next == Executor \/ ReadFails \/ Kill \/ Exchange

Spec == Init /\ [][Next]_vars

(***************************************************************************)
(* Properties.                                                             *)
(***************************************************************************)
Pc == {"down", "usage", "recover", "readActive", "readExecutions", "plan", "gates",
       "send", "count", "poll", "cancel", "verify", "refresh", "judge", "cancelAll",
       "flatten", "flattenBegin", "flattenCount", "flattenSend", "lock", "finish"}

(* A failed cancel may follow the failed send that reached the limit. *)
Memo == [tripped : BOOLEAN, failures : 0 .. (FailureLimit + 1)]

(* Every file and variable of a round keeps its type; a breaker in memory  *)
(* that counted up to its limit has tripped.                               *)
TypeOK ==
    /\ st \in [Ids -> EntryState]
    /\ ordOf \in [Ids -> 0 .. MaxIntents]
    /\ form \in [Ids -> Form]
    /\ usage \subseteq Ids
    /\ file \in Memo
    /\ ex \in [Ids -> Place]
    /\ done \in [Ids -> 0 .. Lots]
    /\ late \in 0 .. MaxLate
    /\ pc \in Pc
    /\ exit \in {"none", "ok", "anomaly", "refused", "killed"}
    /\ cur \in 0 .. MaxIntents
    /\ plan \in 0 .. MaxIntents
    /\ left \in 0 .. Lots
    /\ terminal \in BOOLEAN
    /\ seen \subseteq Ids
    /\ breaker \in {b \in Memo : b.failures >= FailureLimit => b.tripped}
    /\ dayCount \in 0 .. (DayCountMax + 1)
    /\ locked \in BOOLEAN
    /\ early \subseteq Ids

(* Limit orders whose request has left the process. *)
Requested == {i \in Ids : ex[i] # "none" /\ form[i].kind # "market"}

(* When the envelope gates compare with the usage file, every order that   *)
(* was ever sent has its row there, also one whose process was killed      *)
(* between SENDING and the usage append; and the orders of a trading day   *)
(* stay within the limit although that gate lives in memory (T-11).        *)
LimitsSeeEveryWrite ==
    /\ pc = "plan" => Requested \subseteq usage
    /\ Cardinality(Requested) <= DayCountMax

NeverOverfilled ==
    \A p \in Ids :
        MapThenSumSet(LAMBDA i : done[i],
                      {i \in Ids : form[i].plan = p}) <= form[p].size

(* The orders of one proposal never execute more than the proposal asked   *)
(* for: the second phase is sized after the first is surely over (TBD-11), *)
(* as long as at most one request ever was under way when its reply timed  *)
(* out.                                                                    *)
NoOverfill == late <= 1 => NeverOverfilled

AnswersAreTrue ==
    /\ \A i \in Ids : ordOf[i] \in {0, i}
    /\ \A i \in Ids : st[i] = "FAILED" => ex[i] \notin OnBook /\ done[i] = 0

(* The query after a timeout finds its own order or none: an order number  *)
(* is mapped to the intent whose request created it, and an intent found   *)
(* not accepted has no order on the exchange, open or executed (T-05,      *)
(* T-06), as long as no request is still under way when its reply times    *)
(* out.                                                                    *)
QueriesAnswerTrue == late = 0 => AnswersAreTrue

(* The trip lock of the envelope is never taken back: no later save of the *)
(* round, and no later round, writes it away.                              *)
LockIsForGood == [][file.tripped => file'.tripped]_vars

(* The executor's rows are legal in the abstract life of the intents: no   *)
(* interleaving of gates, replies, kills and recoveries makes the ledger   *)
(* refuse one of its rows.                                                 *)
Lifecycle == INSTANCE IntentLifecycle
    WITH Intents <- Ids, Symbols <- {"symbol"}, SymbolOf <- [i \in Ids |-> "symbol"],
         OrderIds <- Ids, NoIntent <- 0, state <- st,
         owner <- [o \in Ids |-> IF Unmapped(o) THEN 0
                                 ELSE CHOOSE i \in Ids : ordOf[i] = o]

ImplementsLifecycle == Lifecycle!Spec

(***************************************************************************)
(* The inductive invariant of the properties above.                        *)
(***************************************************************************)
Walked == {"ABSENT", "RECORDED", "GATE_REJECTED", "SENDING", "ACCEPTED", "REJECTED",
           "SEND_TIMEOUT", "FAILED"}

(* Intents are numbered as they are recorded; an order number is mapped    *)
(* once, to an accepted intent, and is that of an order which landed.      *)
LedgerInOrder ==
    /\ Recorded = 1 .. Cardinality(Recorded)
    /\ \A i \in Ids :
          /\ st[i] \in Walked
          /\ st[i] = "ABSENT" => form[i] = NoForm
          /\ st[i] # "ABSENT" => form[i].size > 0
          /\ ordOf[i] # 0 <=> st[i] = "ACCEPTED"
          /\ ordOf[i] # 0 => /\ ex[ordOf[i]] \in Landed
                             /\ st[ordOf[i]] \in {"ACCEPTED", "FAILED"}
          /\ \A k \in Ids : ordOf[i] # 0 /\ ordOf[k] = ordOf[i] => k = i

(* Only what was sent is on the exchange, and what a query or an older     *)
(* order is remembered by has landed.                                      *)
ExchangeInOrder ==
    /\ \A j \in Ids :
          /\ ex[j] # "none" => j \in Spent
          /\ st[j] = "REJECTED" => ex[j] = "refused"
          /\ done[j] > 0 => ex[j] \in Landed
          /\ done[j] <= form[j].size
          /\ ex[j] \in OnBook => done[j] < form[j].size
          /\ j \notin form[j].older
          /\ \A k \in form[j].older : ex[k] \in Landed
    /\ \A j \in seen \cup early : ex[j] \in Landed

OneInFlight == \A i, j \in InFlight : i = j

Resolving == pc \in {"readActive", "readExecutions"}

(* The proposal is in the works.                                           *)
InProposal ==
    \/ pc \in {"gates", "send", "count", "poll", "cancel", "verify", "refresh"}
    \/ Resolving /\ plan # 0

(* Where the round is says what its intent went through.                   *)
StateByPlace ==
    /\ pc \in {"gates", "flattenBegin"} => cur \in Ids /\ st[cur] = "RECORDED"
    /\ pc \in {"send", "flattenCount", "flattenSend"} =>
          cur \in Ids /\ st[cur] = "SENDING" /\ ex[cur] = "none"
    /\ pc = "count" =>
          cur \in Ids /\ st[cur] \in {"ACCEPTED", "REJECTED", "SEND_TIMEOUT"}
    /\ Resolving => cur \in Ids /\ st[cur] = "SEND_TIMEOUT"
    /\ pc \in {"poll", "cancel", "verify", "refresh"} =>
          cur \in Ids /\ st[cur] = "ACCEPTED"
    /\ pc \in {"flattenBegin", "flattenCount", "flattenSend"} => form[cur].kind = "market"

(* In the first phase the proposal stands for itself and leaves room for a *)
(* second one.                                                             *)
PlanByPlace ==
    /\ pc \in {"down", "usage", "recover", "plan"} => plan = 0
    /\ InProposal =>
          /\ cur \in Ids /\ plan \in Ids
          /\ form[cur].plan = plan
          /\ form[cur].kind # "market"
          /\ cur # plan => form[cur].kind = "taker"
          /\ cur = plan =>
                /\ pc # "refresh" => left = form[plan].size
                /\ form[plan].kind = "passive" =>
                      plan = Cardinality(Recorded) /\ plan < MaxIntents
                /\ \A i \in Ids : form[i].plan = plan => i = plan
    /\ pc = "refresh" => cur = plan /\ form[cur].kind = "passive" /\ left > 0

(* The breaker is looked at before a send, and one send and one cancel can *)
(* fail before it is looked at again.                                      *)
BreakerByPlace ==
    /\ pc = "send" => ~breaker.tripped
    /\ pc \in {"count", "poll", "cancel"} \/ (Resolving /\ plan # 0) =>
          breaker.failures <= FailureLimit

(* Limit orders that entered SENDING are in the count of the day, which is *)
(* within its limit until a flatten adds to it.                            *)
SpentLimit == {i \in Spent : form[i].kind # "market"}

DayIsCounted ==
    /\ Cardinality(SpentLimit) <= DayCountMax
    /\ pc \notin {"down", "usage"} => Cardinality(SpentLimit) <= dayCount
    /\ pc \notin {"flattenSend", "lock", "finish"} => dayCount <= DayCountMax

(* From the count of what is missing to the proposal nothing is missing.   *)
UsageIsComplete ==
    pc \in {"recover", "plan"} \/ (Resolving /\ plan = 0) => Uncounted = {}

LockIsKnown ==
    /\ pc = "down" => ~locked
    /\ pc # "down" => locked = file.tripped

(* Orders nobody could see when their intents were queried: under way, or  *)
(* found by nobody and yet on the exchange.                                *)
Delayed ==
    {j \in Ids :
        \/ ex[j] = "flying"
        \/ st[j] = "FAILED" /\ (ex[j] \in OnBook \/ done[j] > 0 \/ j \in seen)
        \/ /\ pc = "readExecutions" /\ j = cur
           /\ j \notin seen /\ ex[j] \in OnBook /\ done[j] = 0}

DelaysAreCounted == Cardinality(Delayed) <= late

(* Places the order of an accepted intent does not leave. *)
Settled == {"none", "lost", "refused", "executed", "cancelled"}

(* An intent that was given the order of another one: with one delayed     *)
(* order that is the other one, so that its own came to nothing.           *)
MistakesNeedDelays ==
    /\ \A i \in Ids : ordOf[i] \notin {0, i} =>
          /\ late >= 1
          /\ late <= 1 => ex[i] \in Settled /\ done[i] = 0
    /\ late <= 1 => \A j \in seen : ordOf[j] \in {0, j}

(* A second phase stands alone with its first one, which is over and has   *)
(* left room for it.                                                       *)
Leaves(p, size) ==
    late <= 1 => ex[p] \in Settled /\ done[p] + size <= form[p].size

PhasesFit ==
    /\ \A q \in Ids : form[q].plan \in Ids \ {q} =>
          LET p == form[q].plan
          IN  /\ st[p] = "ACCEPTED"
              /\ form[p].plan = p
              /\ Leaves(p, form[q].size)
              /\ \A k \in Ids : form[k].plan = p => k \in {p, q}
    /\ pc = "refresh" => Leaves(plan, left)

ExecutorInvariant ==
    /\ TypeOK
    /\ LedgerInOrder
    /\ ExchangeInOrder
    /\ OneInFlight
    /\ StateByPlace
    /\ PlanByPlace
    /\ BreakerByPlace
    /\ DayIsCounted
    /\ UsageIsComplete
    /\ LockIsKnown
    /\ DelaysAreCounted
    /\ MistakesNeedDelays
    /\ PhasesFit

(***************************************************************************)
(* What the documents say and the code does not do.                        *)
(***************************************************************************)
(* NeverOverfilled: refuted with two late requests.  One lands while the   *)
(* other one is queried, is taken for it, and is cancelled; the second     *)
(* phase is sent for all of the proposal, and then the other one lands.    *)

(* Only intents that consumed write budget have a usage row.               *)
UsageOnlyForWrites == pc = "plan" => usage \subseteq Spent

(* An interrupted send is resolved before the next proposal (T-06); an     *)
(* ambiguous one cannot arise here.                                        *)
PlanStartsResolved == pc = "plan" => InFlight = {}

(* A round that ends in a refusal keeps the count of write failures.       *)
FailuresCarried ==
    [][pc # "down" /\ pc' = "down" /\ exit' = "refused"
         => file'.failures >= breaker.failures]_vars

(* Once the trip action began, the envelope is locked when the round ends. *)
TripLocks ==
    [][(pc \in {"flatten", "lock"} /\ pc' = "down" /\ exit' = "refused")
         => file'.tripped]_vars

(* The usage of an envelope stays within its total.                        *)
TotalRespected == UsageTotal <= EnvelopeTotal

=============================================================================
