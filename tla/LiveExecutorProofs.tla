------------------------- MODULE LiveExecutorProofs -------------------------
(***************************************************************************)
(* Proofs about LiveExecutor for any number of intents, any limits and any *)
(* number of requests that are still under way when their reply times out. *)
(***************************************************************************)
EXTENDS LiveExecutor, FiniteSetTheorems, TLAPS

(* What the assumptions give. *)
LEMMA ConstantsTyped ==
    /\ MaxIntents \in Nat /\ Lots \in Nat /\ DayCountMax \in Nat /\ MaxLate \in Nat
    /\ FailureLimit \in Nat /\ FailureLimit >= 1
    /\ Sides \subseteq {"BUY", "SELL"}
    /\ FlattenOnTrip \in BOOLEAN
BY BoundAssumption, OptionAssumption

(* The states the executor writes are states of the ledger. *)
LEMMA WalkedTyped ==
    /\ Walked \subseteq EntryState
    /\ {"ABSENT", "RECORDED", "GATE_REJECTED", "SENDING", "ACCEPTED", "REJECTED",
        "SEND_TIMEOUT", "FAILED"} \subseteq EntryState
BY DEF Walked, EntryState, IntentState

(***************************************************************************)
(* The next intent, and what its record does to the ledger.                *)
(***************************************************************************)
(* The intents recorded are a beginning of the numbers. *)
LEMMA NextIsFree ==
    ASSUME TypeOK, LedgerInOrder
    PROVE  /\ Cardinality(Recorded) \in 0 .. MaxIntents
           /\ NextId \in Nat
           /\ \A i \in Ids : st[i] # "ABSENT" <=> i < NextId
           /\ NextId <= MaxIntents =>
                 /\ NextId \in Ids /\ NextId \in 0 .. MaxIntents
                 /\ st[NextId] = "ABSENT" /\ form[NextId] = NoForm
<1>1. Recorded \subseteq 1 .. MaxIntents
  BY DEF Recorded, Ids
<1>2. IsFiniteSet(1 .. MaxIntents) /\ Cardinality(1 .. MaxIntents) = MaxIntents
  BY ConstantsTyped, FS_Interval
<1>3. Cardinality(Recorded) \in 0 .. MaxIntents
  <2>1. IsFiniteSet(Recorded) /\ Cardinality(Recorded) <= MaxIntents
    BY <1>1, <1>2, FS_Subset
  <2> QED
    BY <2>1, FS_CardinalityType, ConstantsTyped
<1>4. \A i \in Ids : st[i] # "ABSENT" <=> i \in 1 .. Cardinality(Recorded)
  BY DEF LedgerInOrder, Recorded
<1>5. \A i \in Ids : st[i] # "ABSENT" <=> i < NextId
  BY <1>3, <1>4, ConstantsTyped DEF NextId, Ids
<1> QED
  BY <1>3, <1>5, ConstantsTyped DEF NextId, Ids, LedgerInOrder

(* A record takes the next number and nothing else. *)
LEMMA RecordExtends ==
    ASSUME TypeOK, LedgerInOrder, NextId <= MaxIntents,
           NEW side \in {"BUY", "SELL"}, NEW size \in 1 .. Lots, NEW kind \in Kind,
           NEW first \in 0 .. MaxIntents, NEW older \in SUBSET Ids,
           Record(side, size, kind, first, older)
    PROVE  /\ cur' = NextId /\ NextId \in Ids /\ st[NextId] = "ABSENT"
           /\ st' \in [Ids -> EntryState] /\ form' \in [Ids -> Form]
           /\ st'[NextId] = "RECORDED"
           /\ form'[NextId] = [side |-> side, size |-> size, kind |-> kind,
                               plan |-> first, older |-> older]
           /\ \A i \in Ids : i # NextId => st'[i] = st[i] /\ form'[i] = form[i]
           /\ Recorded' = 1 .. NextId /\ Cardinality(Recorded') = NextId
<1>1. NextId \in Ids /\ st[NextId] = "ABSENT"
  BY NextIsFree
<1>2. /\ st' \in [Ids -> EntryState]
      /\ st'[NextId] = "RECORDED"
      /\ \A i \in Ids : i # NextId => st'[i] = st[i]
  BY <1>1, WalkedTyped DEF TypeOK, Record, Walked
<1>3. [side |-> side, size |-> size, kind |-> kind, plan |-> first, older |-> older]
         \in Form
  BY ConstantsTyped DEF Form
<1>4. /\ form' \in [Ids -> Form]
      /\ form'[NextId] = [side |-> side, size |-> size, kind |-> kind,
                          plan |-> first, older |-> older]
      /\ \A i \in Ids : i # NextId => form'[i] = form[i]
  BY <1>1, <1>3 DEF TypeOK, Record
<1>5. Recorded' = {i \in Ids : st'[i] # "ABSENT"}
  BY DEF Recorded
<1>6. \A i \in Ids : st'[i] # "ABSENT" <=> i <= NextId
  BY <1>1, <1>2, NextIsFree, ConstantsTyped DEF Ids
<1>7. Recorded' = 1 .. NextId
  BY <1>1, <1>5, <1>6, NextIsFree, ConstantsTyped DEF Ids
<1>8. Cardinality(Recorded') = NextId
  BY <1>7, NextIsFree, FS_Interval
<1> QED
  BY <1>1, <1>2, <1>4, <1>7, <1>8 DEF Record

(***************************************************************************)
(* Types.                                                                  *)
(***************************************************************************)
(* Where a request with no reply leaves the exchange. *)
LEMMA NoReplyLeaves ==
    ASSUME TypeOK, NEW i \in Ids, NoReply(i)
    PROVE  /\ ex' \in [Ids -> Place] /\ late' \in 0 .. MaxLate
           /\ \A j \in Ids : j # i => ex'[j] = ex[j]
           /\ ex'[i] \in {"lost", "open", "flying"}
           /\ IF ex'[i] = "flying" THEN late' = late + 1 ELSE late' = late
BY ConstantsTyped DEF TypeOK, NoReply, Place, Landed, OnBook

(* One more failure. *)
LEMMA FailureTyped ==
    ASSUME NEW b \in Memo, b.failures >= FailureLimit => b.tripped,
           b.failures <= FailureLimit
    PROVE  /\ Failure(b) \in Memo
           /\ Failure(b).failures >= FailureLimit => Failure(b).tripped
           /\ Failure(b).failures = b.failures + 1
           /\ b.tripped => Failure(b).tripped
<1> DEFINE t == b.tripped \/ b.failures + 1 >= FailureLimit
<1>1. b.failures \in 0 .. (FailureLimit + 1) /\ b.tripped \in BOOLEAN
  BY DEF Memo
<1>2. Failure(b) = [failures |-> b.failures + 1, tripped |-> t]
  BY DEF Failure
<1>3. t \in BOOLEAN /\ (t <=> (b.tripped \/ b.failures + 1 >= FailureLimit))
  OBVIOUS
<1> HIDE DEF t
<1> QED
  BY ConstantsTyped, <1>1, <1>2, <1>3 DEF Memo

(* An ended round has its memory empty. *)
LEMMA EndTyped ==
    ASSUME NEW how, End(how)
    PROVE  /\ pc' = "down" /\ pc' \in Pc /\ exit' = how
           /\ cur' \in 0 .. MaxIntents /\ plan' \in 0 .. MaxIntents
           /\ left' \in 0 .. Lots /\ dayCount' \in 0 .. (DayCountMax + 1)
           /\ terminal' \in BOOLEAN /\ locked' \in BOOLEAN
           /\ seen' \subseteq Ids /\ early' \subseteq Ids
           /\ breaker' \in {b \in Memo : b.failures >= FailureLimit => b.tripped}
<1>1. /\ cur' \in 0 .. MaxIntents /\ plan' \in 0 .. MaxIntents
      /\ left' \in 0 .. Lots /\ dayCount' \in 0 .. (DayCountMax + 1)
  <2>1. cur' = 0 /\ plan' = 0 /\ left' = 0 /\ dayCount' = 0
    BY DEF End
  <2> QED
    BY <2>1, ConstantsTyped
<1>2. terminal' \in BOOLEAN /\ locked' \in BOOLEAN
  BY DEF End
<1>3. breaker' \in {b \in Memo : b.failures >= FailureLimit => b.tripped}
  <2>1. breaker' = [tripped |-> FALSE, failures |-> 0]
    BY DEF End, Steady
  <2> QED
    BY <2>1, ConstantsTyped DEF Memo
<1> QED
  BY <1>1, <1>2, <1>3 DEF End, Pc

(* What a poll looks at is an order. *)
LEMMA OrderOfAccepted ==
    ASSUME TypeOK, LedgerInOrder, NEW i \in Ids, st[i] = "ACCEPTED"
    PROVE  ordOf[i] \in Ids
BY ConstantsTyped DEF TypeOK, LedgerInOrder, Ids

(* There are finitely many intents. *)
LEMMA SpentIsFinite ==
    /\ \A S \in SUBSET Ids : IsFiniteSet(S) /\ Cardinality(S) \in 0 .. MaxIntents
    /\ Spent \subseteq Ids /\ SpentLimit \subseteq Ids
<1>1. ASSUME NEW S \in SUBSET Ids
      PROVE  IsFiniteSet(S) /\ Cardinality(S) \in 0 .. MaxIntents
  <2>1. IsFiniteSet(Ids) /\ Cardinality(Ids) = MaxIntents
    BY ConstantsTyped, FS_Interval DEF Ids
  <2>2. IsFiniteSet(S) /\ Cardinality(S) <= MaxIntents
    BY <2>1, FS_Subset
  <2> QED
    BY <2>2, FS_CardinalityType, ConstantsTyped
<1> QED
  BY <1>1 DEF Spent, SpentLimit

(* The second phase has a number, a size and a first phase. *)
TakerFits ==
    /\ NextId <= MaxIntents /\ NextId \in Ids
    /\ plan \in Ids /\ plan < NextId /\ left \in 1 .. Lots
    /\ form[plan].side \in {"BUY", "SELL"}

(* Where the second phase is recorded, it does. *)
LEMMA TakerHasRoom ==
    ASSUME TypeOK, LedgerInOrder, StateByPlace, PlanByPlace, pc = "refresh"
    PROVE  TakerFits
<1>1. plan \in Ids /\ plan = Cardinality(Recorded) /\ plan < MaxIntents /\ left > 0
  BY DEF PlanByPlace, InProposal
<1>2. NextId <= MaxIntents /\ NextId \in Ids /\ plan < NextId
  BY <1>1, NextIsFree, ConstantsTyped DEF NextId, Ids
<1>3. form[plan].side \in {"BUY", "SELL"}
  BY <1>1 DEF TypeOK, Form
<1>4. left \in 1 .. Lots
  BY <1>1, ConstantsTyped DEF TypeOK
<1> QED
  BY <1>1, <1>2, <1>3, <1>4 DEF TakerFits

(* What a record leaves behind: the form r under the next number. *)
NewForm(r) ==
    /\ r \in Form /\ r.size > 0
    /\ NextId \notin r.older /\ \A k \in r.older : ex[k] \in Landed
    /\ NextId \in Ids /\ cur' = NextId
    /\ st[NextId] = "ABSENT" /\ form[NextId] = NoForm /\ ex[NextId] = "none"
    /\ st'[NextId] = "RECORDED" /\ form'[NextId] = r
    /\ \A i \in Ids : i # NextId => st'[i] = st[i] /\ form'[i] = form[i]
    /\ st' = [st EXCEPT ![NextId] = "RECORDED"]
    /\ st' \in [Ids -> EntryState] /\ form' \in [Ids -> Form]
    /\ Recorded' = 1 .. NextId /\ Cardinality(Recorded') = NextId
    /\ UNCHANGED <<ordOf, usage, file, ex, done, late>>

(* The three actions that record: a proposal, a second phase, a flatten. *)
LEMMA RecordStep ==
    ASSUME TypeOK, LedgerInOrder, ExchangeInOrder, StateByPlace, PlanByPlace,
           RecordProposal \/ RecordTaker \/ FlattenRecord
    PROVE  \E r \in Form :
              /\ NewForm(r)
              /\ RecordProposal =>
                    /\ r.plan = NextId /\ r.size = left' /\ r.kind \in {"passive", "direct"}
                    /\ r.kind = "passive" => NextId < MaxIntents
              /\ RecordTaker =>
                    r.plan = plan /\ r.size = left /\ r.kind = "taker" /\ plan < NextId
              /\ FlattenRecord => r.plan = NextId /\ r.kind = "market"
<1> USE ConstantsTyped
<1>1. ASSUME NEW side \in {"BUY", "SELL"}, NEW size \in 1 .. Lots, NEW kind \in Kind,
             NEW first \in 0 .. MaxIntents, NEW older \in SUBSET Ids,
             NextId <= MaxIntents, \A k \in older : ex[k] \in Landed,
             Record(side, size, kind, first, older),
             UNCHANGED <<usage, file, ex, done, late>>
      PROVE  LET r == [side |-> side, size |-> size, kind |-> kind,
                       plan |-> first, older |-> older]
             IN  r \in Form /\ NewForm(r)
  <2> DEFINE r == [side |-> side, size |-> size, kind |-> kind, plan |-> first,
                   older |-> older]
  <2>1. r \in Form /\ r.size > 0 /\ r.older = older
    BY DEF Form
  <2>2. NextId \in Ids /\ ex[NextId] = "none" /\ st[NextId] = "ABSENT"
        /\ form[NextId] = NoForm
    BY <1>1, NextIsFree DEF ExchangeInOrder, Spent
  <2>3. NextId \notin older
    BY <1>1, <2>2 DEF Landed, OnBook
  <2>4. ordOf' = ordOf /\ st' = [st EXCEPT ![NextId] = "RECORDED"]
    BY <1>1 DEF Record
  <2>5. /\ cur' = NextId
        /\ st' \in [Ids -> EntryState] /\ form' \in [Ids -> Form]
        /\ st'[NextId] = "RECORDED" /\ form'[NextId] = r
        /\ \A i \in Ids : i # NextId => st'[i] = st[i] /\ form'[i] = form[i]
        /\ Recorded' = 1 .. NextId /\ Cardinality(Recorded') = NextId
    BY <1>1, RecordExtends
  <2> HIDE DEF r
  <2>6. r \in Form /\ NewForm(r)
    BY <1>1, <2>1, <2>2, <2>3, <2>4, <2>5 DEF NewForm
  <2> QED
    BY <2>6 DEF r
<1>2. CASE RecordProposal
  <2>1. PICK side \in Sides, size \in 1 .. Lots, kind \in {"passive", "direct"} :
           /\ NextId + (IF kind = "passive" THEN 1 ELSE 0) <= MaxIntents
           /\ Record(side, size, kind, NextId, early) /\ left' = size
    BY <1>2 DEF RecordProposal
  <2>2. NextId <= MaxIntents /\ (kind = "passive" => NextId < MaxIntents)
    BY <2>1, NextIsFree
  <2>3. /\ NextId \in 0 .. MaxIntents /\ early \in SUBSET Ids
        /\ \A k \in early : ex[k] \in Landed
    BY <2>2, NextIsFree DEF TypeOK, ExchangeInOrder
  <2>4. kind \in Kind /\ side \in {"BUY", "SELL"} /\ kind # "taker" /\ kind # "market"
    BY DEF Kind
  <2>5. UNCHANGED <<usage, file, ex, done, late>>
    BY <1>2 DEF RecordProposal, exchange
  <2> DEFINE r == [side |-> side, size |-> size, kind |-> kind, plan |-> NextId,
                   older |-> early]
  <2>6. r \in Form /\ NewForm(r)
    BY <1>1, <2>1, <2>2, <2>3, <2>4, <2>5
  <2>7. ~RecordTaker /\ ~FlattenRecord
    BY <1>2 DEF RecordProposal, RecordTaker, FlattenRecord
  <2> QED
    BY <2>1, <2>2, <2>4, <2>6, <2>7
<1>3. CASE RecordTaker
  <2>1. PICK older \in {early, {j \in Ids : ex[j] \in Landed}} :
           Record(form[plan].side, left, "taker", plan, older)
    BY <1>3 DEF RecordTaker
  <2>2. older \in SUBSET Ids /\ \A k \in older : ex[k] \in Landed
    BY <2>1 DEF TypeOK, ExchangeInOrder
  <2>3. TakerFits
    BY <1>3, TakerHasRoom DEF RecordTaker
  <2>4. plan \in 0 .. MaxIntents /\ "taker" \in Kind
    BY DEF TypeOK, Kind
  <2>5. UNCHANGED <<usage, file, ex, done, late>>
    BY <1>3 DEF RecordTaker, exchange
  <2> DEFINE r == [side |-> form[plan].side, size |-> left, kind |-> "taker",
                   plan |-> plan, older |-> older]
  <2>6. r \in Form /\ NewForm(r)
    BY <1>1, <2>1, <2>2, <2>3, <2>4, <2>5 DEF TakerFits
  <2>7. ~RecordProposal /\ ~FlattenRecord
    BY <1>3 DEF RecordProposal, RecordTaker, FlattenRecord
  <2> QED
    BY <2>3, <2>6, <2>7 DEF TakerFits
<1>4. CASE FlattenRecord
  <2>1. PICK size \in 1 .. Lots : Record("SELL", size, "market", NextId, early)
    BY <1>4 DEF FlattenRecord
  <2>2. NextId <= MaxIntents
    BY <1>4 DEF FlattenRecord
  <2>3. /\ NextId \in 0 .. MaxIntents /\ early \in SUBSET Ids
        /\ \A k \in early : ex[k] \in Landed
    BY <2>2, NextIsFree DEF TypeOK, ExchangeInOrder
  <2>4. "market" \in Kind /\ "SELL" \in {"BUY", "SELL"}
    BY DEF Kind
  <2>5. UNCHANGED <<usage, file, ex, done, late>>
    BY <1>4 DEF FlattenRecord, exchange
  <2> DEFINE r == [side |-> "SELL", size |-> size, kind |-> "market", plan |-> NextId,
                   older |-> early]
  <2>6. r \in Form /\ NewForm(r)
    BY <1>1, <2>1, <2>2, <2>3, <2>4, <2>5
  <2>7. ~RecordProposal /\ ~RecordTaker
    BY <1>4 DEF RecordProposal, RecordTaker, FlattenRecord
  <2> QED
    BY <2>6, <2>7
<1> QED
  BY <1>2, <1>3, <1>4

(* The invariant gives the types of the next state. *)
LEMMA TypesKept ==
    ASSUME ExecutorInvariant, [Next]_vars
    PROVE  TypeOK'
<1>a. /\ TypeOK /\ LedgerInOrder /\ ExchangeInOrder
      /\ StateByPlace /\ PlanByPlace /\ BreakerByPlace /\ DayIsCounted
  BY DEF ExecutorInvariant
<1>b. /\ breaker \in Memo /\ file \in Memo
      /\ breaker.failures >= FailureLimit => breaker.tripped
  BY <1>a DEF TypeOK
<1> USE WalkedTyped, <1>a, ConstantsTyped
<1>0. CASE UNCHANGED vars
  BY <1>0 DEF TypeOK, vars, ledger, exchange, memory
<1>1. CASE StartRound
  BY <1>1 DEF TypeOK, StartRound, Go, ledger, exchange, memory, Pc, StateByPlace, DayIsCounted
<1>2. CASE RefuseRound
  BY <1>2 DEF TypeOK, RefuseRound, Go, ledger, exchange, memory, Pc, StateByPlace, DayIsCounted
<1>3. CASE CountMissing
  BY <1>3 DEF TypeOK, CountMissing, Go, ledger, exchange, memory, Pc, StateByPlace, DayIsCounted, Resolving, Uncounted, Recorded
<1>4. CASE Prepare
  <2>1. CASE \E i \in Spent : form[i].kind = "market"
    BY <1>4, <2>1, EndTyped DEF TypeOK, Prepare, ledger, exchange, Pc
  <2>2. CASE ~\E i \in Spent : form[i].kind = "market"
    <3>1. Spent = SpentLimit
      BY <2>2 DEF SpentLimit
    <3>2. IsFiniteSet(Spent) /\ Cardinality(Spent) \in 0 .. DayCountMax
      BY <3>1, SpentIsFinite DEF DayIsCounted
    <3>3. file.failures \in 0 .. (FailureLimit + 1)
      BY <1>b DEF Memo
    <3> DEFINE t == file.failures >= FailureLimit
    <3>4. breaker' = [failures |-> file.failures, tripped |-> t]
      BY <1>4, <2>2 DEF Prepare
    <3>5. t \in BOOLEAN /\ (t <=> file.failures >= FailureLimit)
      OBVIOUS
    <3> HIDE DEF t
    <3>6. /\ breaker' \in Memo
          /\ breaker'.failures >= FailureLimit => breaker'.tripped
      BY <3>3, <3>4, <3>5 DEF Memo
    <3> QED
      BY <1>4, <2>2, <3>2, <3>6 DEF TypeOK, Prepare, Go, ledger, exchange, Pc
  <2> QED
    BY <2>1, <2>2
<1>5. CASE MarkInterrupted
  <2>1. cur' \in Ids /\ st' \in [Ids -> EntryState]
    BY <1>5 DEF TypeOK, MarkInterrupted
  <2> QED
    BY <1>5, <2>1 DEF TypeOK, MarkInterrupted, Go, exchange, Pc, Ids
<1>6. CASE Recovered
  BY <1>6 DEF TypeOK, Recovered, Go, ledger, exchange, memory, Pc, StateByPlace, DayIsCounted
<1>7. CASE ReadActive
  BY <1>7 DEF TypeOK, ReadActive, Go, ledger, exchange, memory, Pc, StateByPlace, DayIsCounted
<1>8. CASE Decide
  <2>1. st' \in [Ids -> EntryState] /\ ordOf' \in [Ids -> 0 .. MaxIntents]
        /\ UNCHANGED form
    <3>1. CASE UNCHANGED ledger
      BY <3>1 DEF TypeOK, ledger
    <3>2. ASSUME NEW j \in Candidates(cur), st' = [st EXCEPT ![cur] = "ACCEPTED"],
                 ordOf' = [ordOf EXCEPT ![cur] = j], UNCHANGED form
          PROVE  st' \in [Ids -> EntryState] /\ ordOf' \in [Ids -> 0 .. MaxIntents]
                 /\ UNCHANGED form
      <4>1. j \in 0 .. MaxIntents
        BY DEF Candidates, Ids
      <4> QED
        BY <3>2, <4>1 DEF TypeOK
    <3>3. CASE /\ st' = [st EXCEPT ![cur] = "FAILED"]
               /\ UNCHANGED <<ordOf, form>>
      BY <3>3 DEF TypeOK
    <3> QED
      BY <1>8, <3>1, <3>2, <3>3 DEF Decide
  <2>2. pc' \in Pc /\ UNCHANGED exit
    BY <1>8 DEF Decide, Go, Pc
  <2> QED
    BY <1>8, <2>1, <2>2 DEF TypeOK, Decide, exchange
<1>9. CASE NoWriteRound
  BY <1>9 DEF TypeOK, NoWriteRound, Go, ledger, exchange, memory, Pc, StateByPlace, DayIsCounted
<1>10. CASE TripVerdict
  BY <1>10 DEF TypeOK, TripVerdict, Go, ledger, exchange, memory, Pc, StateByPlace, DayIsCounted, Resolving, Memo
<1>11. CASE RecordProposal
  <2>1. PICK r \in Form : NewForm(r) /\ r.size = left' /\ r.plan = NextId
    BY <1>11, RecordStep
  <2>2. /\ cur' \in 0 .. MaxIntents
        /\ st' \in [Ids -> EntryState] /\ form' \in [Ids -> Form]
        /\ UNCHANGED <<ordOf, usage, file, ex, done, late>>
    BY <2>1 DEF NewForm, Ids
  <2>3. left' \in 0 .. Lots /\ plan' \in 0 .. MaxIntents
    BY <1>11, <2>1 DEF NewForm, Form, RecordProposal, Ids
  <2> QED
    BY <1>11, <2>2, <2>3 DEF TypeOK, RecordProposal, Go, Pc
<1>12. CASE RecordTaker
  <2>1. PICK r \in Form : NewForm(r)
    BY <1>12, RecordStep
  <2>2. /\ cur' \in 0 .. MaxIntents
        /\ st' \in [Ids -> EntryState] /\ form' \in [Ids -> Form]
        /\ UNCHANGED <<ordOf, usage, file, ex, done, late>>
    BY <2>1 DEF NewForm, Ids
  <2> QED
    BY <1>12, <2>2 DEF TypeOK, RecordTaker, Go, Pc
<1>13. CASE GateReject
  BY <1>13 DEF TypeOK, GateReject, Go, ledger, exchange, memory, Pc, StateByPlace, DayIsCounted, Resolving, Memo
<1>14. CASE BeginSend
  BY <1>14 DEF TypeOK, BeginSend, Go, ledger, exchange, memory, Pc, StateByPlace, DayIsCounted
<1>15. CASE SendAccepted
  <2>1. st' \in [Ids -> EntryState] /\ ordOf' \in [Ids -> 0 .. MaxIntents]
    BY <1>15 DEF TypeOK, SendAccepted, StateByPlace, Ids
  <2>2. ex' \in [Ids -> Place]
    BY <1>15 DEF TypeOK, SendAccepted, StateByPlace, Place, Landed, OnBook
  <2>3. breaker' \in Memo /\ (breaker'.failures >= FailureLimit => breaker'.tripped)
    BY <1>15, <1>b DEF SendAccepted, Memo
  <2> QED
    BY <1>15, <2>1, <2>2, <2>3 DEF TypeOK, SendAccepted, Go, Pc
<1>16. CASE SendRefused
  <2>1. st' \in [Ids -> EntryState] /\ cur \in Ids
    BY <1>16 DEF TypeOK, SendRefused, StateByPlace
  <2>2. ex' \in [Ids -> Place] /\ late' \in 0 .. MaxLate
    BY <1>16, <2>1, NoReplyLeaves DEF TypeOK, SendRefused, Place
  <2>3. breaker.failures <= FailureLimit
    BY <1>16, <1>b DEF SendRefused, BreakerByPlace, Memo
  <2>4. breaker' \in Memo /\ (breaker'.failures >= FailureLimit => breaker'.tripped)
    BY <1>16, <1>b, <2>3, FailureTyped DEF SendRefused
  <2> QED
    BY <1>16, <2>1, <2>2, <2>4 DEF TypeOK, SendRefused, Go, Pc
<1>17. CASE SendTimesOut
  <2>1. st' \in [Ids -> EntryState] /\ cur \in Ids
    BY <1>17 DEF TypeOK, SendTimesOut, StateByPlace
  <2>2. ex' \in [Ids -> Place] /\ late' \in 0 .. MaxLate
    BY <1>17, <2>1, NoReplyLeaves DEF TypeOK, SendTimesOut, Place
  <2>3. breaker.failures <= FailureLimit
    BY <1>17, <1>b DEF SendTimesOut, BreakerByPlace, Memo
  <2>4. breaker' \in Memo /\ (breaker'.failures >= FailureLimit => breaker'.tripped)
    BY <1>17, <1>b, <2>3, FailureTyped DEF SendTimesOut
  <2> QED
    BY <1>17, <2>1, <2>2, <2>4 DEF TypeOK, SendTimesOut, Go, Pc
<1>18. CASE CountUsage
  BY <1>18 DEF TypeOK, CountUsage, Go, ledger, exchange, memory, Pc, StateByPlace, DayIsCounted
<1>19. CASE PollClosed
  <2>1. Order \in Ids
    BY <1>19, OrderOfAccepted DEF PollClosed, StateByPlace, Order
  <2>2. left' \in 0 .. Lots
    BY <1>19, <2>1 DEF TypeOK, PollClosed
  <2> QED
    BY <1>19, <2>2 DEF TypeOK, PollClosed, Go, ledger, exchange, Pc
<1>20. CASE WindowEnds
  BY <1>20 DEF TypeOK, WindowEnds, Go, ledger, exchange, memory, Pc, StateByPlace, DayIsCounted
<1>21. CASE Cancel
  <2>1. ex' \in [Ids -> Place]
    BY <1>21 DEF TypeOK, Cancel, CancelReaches, Place, Landed, OnBook
  <2>2. breaker.failures <= FailureLimit
    BY <1>21 DEF Cancel, BreakerByPlace
  <2>3. breaker' \in Memo /\ (breaker'.failures >= FailureLimit => breaker'.tripped)
    BY <1>21, <1>b, <2>2, FailureTyped DEF Cancel
  <2> QED
    BY <1>21, <2>1, <2>3 DEF TypeOK, Cancel, Go, ledger, Pc
<1>22. CASE VerifyEnds
  BY <1>22 DEF TypeOK, VerifyEnds, Go, ledger, exchange, memory, Pc, StateByPlace, DayIsCounted
<1>23. CASE Judge
  BY <1>23 DEF TypeOK, Judge, Go, ledger, exchange, memory, Pc, StateByPlace, DayIsCounted
<1>24. CASE CancelAll
  <2>1. ex' \in [Ids -> Place]
    BY <1>24 DEF TypeOK, CancelAll, Place, Landed, OnBook
  <2> QED
    BY <1>24, <2>1 DEF TypeOK, CancelAll, Go, ledger, memory, Pc
<1>25. CASE FlattenSkipped
  BY <1>25 DEF TypeOK, FlattenSkipped, Go, ledger, exchange, memory, Pc, StateByPlace, DayIsCounted
<1>26. CASE FlattenRecord
  <2>1. PICK r \in Form : NewForm(r)
    BY <1>26, RecordStep
  <2>2. /\ cur' \in 0 .. MaxIntents
        /\ st' \in [Ids -> EntryState] /\ form' \in [Ids -> Form]
        /\ UNCHANGED <<ordOf, usage, file, ex, done, late>>
    BY <2>1 DEF NewForm, Ids
  <2> QED
    BY <1>26, <2>2 DEF TypeOK, FlattenRecord, Go, Pc
<1>27. CASE FlattenBegin
  BY <1>27 DEF TypeOK, FlattenBegin, Go, ledger, exchange, memory, Pc, StateByPlace, DayIsCounted
<1>28. CASE FlattenCount
  BY <1>28 DEF TypeOK, FlattenCount, Go, ledger, exchange, memory, Pc, StateByPlace, DayIsCounted
<1>29. CASE FlattenSend
  <2>1. cur \in Ids
    BY <1>29 DEF FlattenSend, StateByPlace
  <2>2. st' \in [Ids -> EntryState] /\ ordOf' \in [Ids -> 0 .. MaxIntents]
    BY <1>29, <2>1 DEF TypeOK, FlattenSend, Ids
  <2>3. ex' \in [Ids -> Place] /\ late' \in 0 .. MaxLate
    BY <1>29, <2>1, NoReplyLeaves DEF TypeOK, FlattenSend, Place, Landed, OnBook
  <2> QED
    BY <1>29, <2>2, <2>3 DEF TypeOK, FlattenSend, Go, memory, Pc
<1>30. CASE LockState
  BY <1>30 DEF TypeOK, LockState, Go, ledger, exchange, memory, Pc, StateByPlace, DayIsCounted, Resolving, Memo
<1>31. CASE Finish
  <2>1. file' \in Memo
    BY <1>31, <1>b DEF TypeOK, Finish, Memo
  <2> QED
    BY <1>31, <2>1, EndTyped DEF TypeOK, Finish, ledger, exchange, Pc
<1>32. CASE ReadFails
  BY <1>32, EndTyped DEF TypeOK, ReadFails, ledger, exchange, Pc
<1>33. CASE Kill
  <2>1. ex' \in [Ids -> Place] /\ late' \in 0 .. MaxLate
    BY <1>33, NoReplyLeaves DEF TypeOK, Kill, StateByPlace
  <2> QED
    BY <1>33, <2>1, EndTyped DEF TypeOK, Kill, ledger, Pc
<1>34. ASSUME NEW j \in Ids, Land(j) PROVE TypeOK'
  BY <1>34 DEF TypeOK, Land, ledger, exchange, memory, Pc, ExchangeInOrder, Place, Landed, OnBook
<1>35. ASSUME NEW j \in Ids, Fill(j) PROVE TypeOK'
  <2>1. done[j] \in 0 .. Lots /\ form[j].size \in 0 .. Lots /\ done[j] < form[j].size
    BY <1>35 DEF TypeOK, Fill, ExchangeInOrder, Form
  <2>2. done' \in [Ids -> 0 .. Lots]
    BY <1>35, <2>1 DEF TypeOK, Fill
  <2>3. ex' \in [Ids -> Place]
    BY <1>35 DEF TypeOK, Fill, Place, Landed, OnBook
  <2> QED
    BY <1>35, <2>2, <2>3 DEF TypeOK, Fill, ledger, memory
<1>36. ASSUME NEW j \in Ids, Close(j) PROVE TypeOK'
  BY <1>36 DEF TypeOK, Close, ledger, exchange, memory, Pc, ExchangeInOrder, Place, Landed, OnBook
<1> QED
  BY <1>0, <1>1, <1>2, <1>3, <1>4, <1>5, <1>6, <1>7, <1>8, <1>9, <1>10, <1>11, <1>12, <1>13, <1>14, <1>15, <1>16, <1>17, <1>18, <1>19, <1>20, <1>21, <1>22, <1>23, <1>24, <1>25, <1>26, <1>27, <1>28, <1>29, <1>30, <1>31, <1>32, <1>33, <1>34, <1>35, <1>36 DEF Next, Executor, Exchange

(***************************************************************************)
(* The steps that touch the ledger or the exchange.                        *)
(***************************************************************************)
Recording == RecordProposal \/ RecordTaker \/ FlattenRecord
Sending == SendAccepted \/ SendRefused \/ SendTimesOut \/ FlattenSend
Moving ==
    \/ Recording \/ Sending
    \/ MarkInterrupted \/ Decide \/ GateReject \/ BeginSend \/ FlattenBegin
    \/ Cancel \/ CancelAll \/ Kill \/ Exchange

(* Every other step leaves them alone. *)
LEMMA QuietSteps ==
    ASSUME [Next]_vars
    PROVE  Moving \/ UNCHANGED <<ledger, exchange>>
<1>1. CASE UNCHANGED vars
  BY <1>1 DEF vars
<1>2. CASE StartRound \/ RefuseRound \/ CountMissing \/ Prepare \/ Recovered \/ ReadActive
  BY <1>2 DEF StartRound, RefuseRound, CountMissing, Prepare, Recovered, ReadActive
<1>3. CASE \/ NoWriteRound \/ TripVerdict \/ CountUsage \/ PollClosed \/ WindowEnds
           \/ VerifyEnds \/ Judge
  BY <1>3 DEF NoWriteRound, TripVerdict, CountUsage, PollClosed, WindowEnds, VerifyEnds,
              Judge
<1>4. CASE FlattenSkipped \/ FlattenCount \/ LockState \/ Finish \/ ReadFails
  BY <1>4 DEF FlattenSkipped, FlattenCount, LockState, Finish, ReadFails
<1> QED
  BY <1>1, <1>2, <1>3, <1>4 DEF Next, Executor, Moving, Recording, Sending

(* An order moves on the exchange from its request on, once and for all. *)
ExchangeMoves ==
    \A j \in Ids :
        /\ ex[j] \in Landed => ex'[j] \in Landed
        /\ st[j] = "ACCEPTED" /\ ex[j] \in Settled =>
              ex'[j] = ex[j] /\ done'[j] = done[j]
        /\ ex[j] = "none" /\ ex'[j] # "none" =>
              pc \in {"send", "flattenSend"} /\ j = cur /\ st[j] = "SENDING"
        /\ ex[j] # "none" => ex'[j] # "none"
        /\ ex[j] = "refused" => ex'[j] = "refused"
        /\ ex'[j] \in OnBook => ex[j] \in OnBook \union {"flying", "none"}
        /\ ex'[j] = "flying" =>
              ex[j] = "flying" \/ (ex[j] = "none" /\ late' = late + 1)
        /\ done'[j] # done[j] =>
              ex[j] \in OnBook /\ done'[j] = done[j] + 1 /\ ex'[j] \in Landed
        /\ late' >= late

(* Every step moves the exchange like that. *)
LEMMA ExchangeStep ==
    ASSUME TypeOK, StateByPlace, ExchangeInOrder, [Next]_vars
    PROVE  ExchangeMoves
<1> USE DEF TypeOK, OnBook, Landed, Settled
<1>0. SUFFICES ASSUME NEW j \in Ids
               PROVE  /\ ex[j] \in Landed => ex'[j] \in Landed
                      /\ st[j] = "ACCEPTED" /\ ex[j] \in Settled =>
                            ex'[j] = ex[j] /\ done'[j] = done[j]
                      /\ ex[j] = "none" /\ ex'[j] # "none" =>
                            pc \in {"send", "flattenSend"} /\ j = cur /\ st[j] = "SENDING"
                      /\ ex[j] # "none" => ex'[j] # "none"
                      /\ ex[j] = "refused" => ex'[j] = "refused"
                      /\ ex'[j] \in OnBook => ex[j] \in OnBook \union {"flying", "none"}
                      /\ ex'[j] = "flying" =>
                            ex[j] = "flying" \/ (ex[j] = "none" /\ late' = late + 1)
                      /\ done'[j] # done[j] =>
                            ex[j] \in OnBook /\ done'[j] = done[j] + 1 /\ ex'[j] \in Landed
                      /\ late' >= late
  BY DEF ExchangeMoves
<1>1. CASE UNCHANGED <<ledger, exchange>>
  BY <1>1 DEF exchange
<1>2. CASE Recording
  BY <1>2 DEF Recording, RecordProposal, RecordTaker, FlattenRecord, exchange
<1>3. CASE SendAccepted \/ SendRefused
  BY <1>3 DEF SendAccepted, SendRefused, StateByPlace
<1>4. CASE SendTimesOut
  BY <1>4, NoReplyLeaves DEF SendTimesOut, StateByPlace
<1>5. CASE FlattenSend
  BY <1>5, NoReplyLeaves DEF FlattenSend, StateByPlace
<1>6. CASE MarkInterrupted \/ Decide \/ GateReject \/ BeginSend \/ FlattenBegin
  BY <1>6 DEF MarkInterrupted, Decide, GateReject, BeginSend, FlattenBegin, exchange
<1>7. CASE Cancel
  BY <1>7 DEF Cancel, CancelReaches
<1>8. CASE CancelAll
  BY <1>8 DEF CancelAll
<1>9. CASE Kill
  BY <1>9, NoReplyLeaves DEF Kill, StateByPlace
<1>10. ASSUME NEW k \in Ids, Land(k) \/ Close(k) PROVE ExchangeMoves
  BY <1>10 DEF Land, Close, ExchangeMoves
<1>11. ASSUME NEW k \in Ids, Fill(k) PROVE ExchangeMoves
  BY <1>11 DEF Fill, ExchangeMoves
<1> QED
  BY <1>1, <1>2, <1>3, <1>4, <1>5, <1>6, <1>7, <1>8, <1>9, <1>10, <1>11, QuietSteps
     DEF Moving, Sending, Exchange, ExchangeMoves

(***************************************************************************)
(* The ledger.                                                             *)
(***************************************************************************)
(* Where the numbers of the ledger point. *)
LEMMA MappedOrders ==
    ASSUME TypeOK, LedgerInOrder
    PROVE  \A k \in Ids : ordOf[k] # 0 =>
              /\ ordOf[k] \in Ids /\ ex[ordOf[k]] \in Landed
              /\ st[ordOf[k]] \in {"ACCEPTED", "FAILED"}
<1>1. \A k \in Ids : ordOf[k] # 0 => ordOf[k] \in Ids
  BY ConstantsTyped DEF TypeOK, Ids
<1> QED
  BY <1>1 DEF LedgerInOrder

(* One intent moves on, not to ACCEPTED. *)
LEMMA OneMoves ==
    ASSUME TypeOK, LedgerInOrder, ExchangeMoves, NEW i \in Ids,
           st[i] \notin {"ABSENT", "ACCEPTED", "FAILED"},
           NEW s \in Walked \ {"ABSENT", "ACCEPTED"},
           st' = [st EXCEPT ![i] = s], UNCHANGED <<ordOf, form>>
    PROVE  LedgerInOrder' /\ Recorded' = Recorded
<1>1. st'[i] = s /\ \A k \in Ids : k # i => st'[k] = st[k]
  BY DEF TypeOK
<1>2. Recorded' = Recorded
  BY <1>1 DEF Recorded
<1>3. ASSUME NEW k \in Ids
      PROVE  /\ st'[k] \in Walked
             /\ st'[k] = "ABSENT" => form'[k] = NoForm
             /\ st'[k] # "ABSENT" => form'[k].size > 0
             /\ ordOf'[k] # 0 <=> st'[k] = "ACCEPTED"
             /\ ordOf'[k] # 0 => /\ ex'[ordOf'[k]] \in Landed
                                 /\ st'[ordOf'[k]] \in {"ACCEPTED", "FAILED"}
             /\ \A l \in Ids : ordOf'[k] # 0 /\ ordOf'[l] = ordOf'[k] => l = k
  <2>1. ordOf[k] # 0 => ordOf[k] \in Ids /\ st[ordOf[k]] \in {"ACCEPTED", "FAILED"}
    BY MappedOrders
  <2> QED
    BY <1>1, <2>1 DEF LedgerInOrder, ExchangeMoves
<1> QED
  BY <1>2, <1>3 DEF LedgerInOrder

(* One intent is accepted under an order that nobody has. *)
LEMMA OneAccepted ==
    ASSUME TypeOK, LedgerInOrder, ExchangeMoves, NEW i \in Ids, NEW j \in Ids,
           st[i] \in {"SENDING", "SEND_TIMEOUT"}, Unmapped(j), ex'[j] \in Landed,
           j = i \/ st[j] \in {"ACCEPTED", "FAILED"},
           st' = [st EXCEPT ![i] = "ACCEPTED"], ordOf' = [ordOf EXCEPT ![i] = j],
           UNCHANGED form
    PROVE  LedgerInOrder' /\ Recorded' = Recorded
<1>1. /\ st'[i] = "ACCEPTED" /\ \A k \in Ids : k # i => st'[k] = st[k]
      /\ ordOf'[i] = j /\ \A k \in Ids : k # i => ordOf'[k] = ordOf[k]
  BY DEF TypeOK
<1>2. Recorded' = Recorded
  BY <1>1 DEF Recorded
<1>3. j # 0 /\ \A k \in Ids : ordOf[k] # j
  BY ConstantsTyped DEF Ids, Unmapped
<1>4. ASSUME NEW k \in Ids
      PROVE  /\ st'[k] \in Walked
             /\ st'[k] = "ABSENT" => form'[k] = NoForm
             /\ st'[k] # "ABSENT" => form'[k].size > 0
             /\ ordOf'[k] # 0 <=> st'[k] = "ACCEPTED"
             /\ ordOf'[k] # 0 => /\ ex'[ordOf'[k]] \in Landed
                                 /\ st'[ordOf'[k]] \in {"ACCEPTED", "FAILED"}
             /\ \A l \in Ids : ordOf'[k] # 0 /\ ordOf'[l] = ordOf'[k] => l = k
  <2>1. ordOf[k] # 0 => ordOf[k] \in Ids /\ st[ordOf[k]] \in {"ACCEPTED", "FAILED"}
    BY MappedOrders
  <2>2. CASE k = i
    BY <1>1, <1>3, <2>2 DEF LedgerInOrder, Walked
  <2>3. CASE k # i
    BY <1>1, <1>3, <2>1, <2>3 DEF LedgerInOrder, ExchangeMoves
  <2> QED
    BY <2>2, <2>3
<1> QED
  BY <1>2, <1>4 DEF LedgerInOrder

(* A record adds the next intent. *)
LEMMA OneRecorded ==
    ASSUME TypeOK, LedgerInOrder, ExchangeInOrder, NEW r \in Form, NewForm(r)
    PROVE  LedgerInOrder'
<1>1. Recorded' = 1 .. Cardinality(Recorded')
  BY DEF NewForm
<1>2. ASSUME NEW k \in Ids
      PROVE  /\ st'[k] \in Walked
             /\ st'[k] = "ABSENT" => form'[k] = NoForm
             /\ st'[k] # "ABSENT" => form'[k].size > 0
             /\ ordOf'[k] # 0 <=> st'[k] = "ACCEPTED"
             /\ ordOf'[k] # 0 => /\ ex'[ordOf'[k]] \in Landed
                                 /\ st'[ordOf'[k]] \in {"ACCEPTED", "FAILED"}
             /\ \A l \in Ids : ordOf'[k] # 0 /\ ordOf'[l] = ordOf'[k] => l = k
  <2>1. ordOf[k] # 0 => ordOf[k] \in Ids /\ st[ordOf[k]] \in {"ACCEPTED", "FAILED"}
    BY MappedOrders
  <2> QED
    BY <2>1 DEF NewForm, LedgerInOrder, Walked
<1> QED
  BY <1>1, <1>2 DEF LedgerInOrder

(* A candidate is an order which nobody has and which was found. *)
LEMMA CandidateIs ==
    ASSUME TypeOK, LedgerInOrder, ExchangeInOrder, OneInFlight, StateByPlace,
           pc = "readExecutions", NEW j \in Candidates(cur)
    PROVE  /\ j \in Ids /\ Unmapped(j) /\ ex[j] \in Landed
           /\ j = cur \/ st[j] \in {"ACCEPTED", "FAILED"}
<1>1. j \in Ids /\ Unmapped(j) /\ (j \in seen \/ done[j] > 0)
  BY DEF Candidates, ExecutionsMatch
<1>2. ex[j] \in Landed
  BY <1>1 DEF ExchangeInOrder
<1>3. st[j] \notin {"ABSENT", "RECORDED", "GATE_REJECTED", "REJECTED"}
  BY <1>1, <1>2 DEF ExchangeInOrder, Spent, Landed, OnBook
<1>4. j \in InFlight => j = cur
  BY DEF StateByPlace, Resolving, OneInFlight, InFlight, InFlightStates
<1> QED
  BY <1>1, <1>2, <1>3, <1>4 DEF LedgerInOrder, Walked, InFlight, InFlightStates

(* The ledger stays in order. *)
LEMMA LedgerKept ==
    ASSUME ExecutorInvariant, [Next]_vars
    PROVE  LedgerInOrder'
<1>a. TypeOK /\ LedgerInOrder /\ ExchangeInOrder /\ StateByPlace /\ PlanByPlace /\ OneInFlight
  BY DEF ExecutorInvariant
<1>b. ExchangeMoves
  BY <1>a, ExchangeStep
<1> USE <1>a, <1>b
<1>1. CASE UNCHANGED ledger
  <2>1. Recorded' = Recorded
    BY <1>1 DEF Recorded, ledger
  <2>2. ASSUME NEW k \in Ids, ordOf[k] # 0
        PROVE  ex'[ordOf[k]] \in Landed
    BY <2>2, MappedOrders DEF ExchangeMoves
  <2> QED
    BY <1>1, <2>1, <2>2 DEF LedgerInOrder, ledger
<1>2. CASE Recording
  BY <1>2, RecordStep, OneRecorded DEF Recording
<1>3. CASE MarkInterrupted
  <2>1. PICK i \in Ids : st[i] = "SENDING" /\ st' = [st EXCEPT ![i] = "SEND_TIMEOUT"]
    BY <1>3 DEF MarkInterrupted
  <2> QED
    BY <1>3, <2>1, OneMoves DEF MarkInterrupted, Walked
<1>4. CASE Decide
  <2>1. cur \in Ids /\ st[cur] = "SEND_TIMEOUT" /\ pc = "readExecutions"
    BY <1>4 DEF Decide, StateByPlace, Resolving
  <2>2. ASSUME NEW j \in Candidates(cur), st' = [st EXCEPT ![cur] = "ACCEPTED"],
               ordOf' = [ordOf EXCEPT ![cur] = j], UNCHANGED form
        PROVE  LedgerInOrder'
    <3>1. j \in Ids /\ Unmapped(j) /\ ex'[j] \in Landed
          /\ (j = cur \/ st[j] \in {"ACCEPTED", "FAILED"})
      BY <2>1, CandidateIs DEF ExchangeMoves
    <3> QED
      BY <2>1, <2>2, <3>1, OneAccepted
  <2>3. CASE st' = [st EXCEPT ![cur] = "FAILED"] /\ UNCHANGED <<ordOf, form>>
    BY <2>1, <2>3, OneMoves DEF Walked
  <2> QED
    BY <1>1, <1>4, <2>2, <2>3 DEF Decide
<1>5. CASE GateReject
  BY <1>5, OneMoves DEF GateReject, StateByPlace, Walked
<1>6. CASE BeginSend
  BY <1>6, OneMoves DEF BeginSend, StateByPlace, Walked
<1>7. CASE FlattenBegin
  BY <1>1, <1>7, OneMoves DEF FlattenBegin, StateByPlace, Walked, ledger
<1>8. CASE Sending
  <2>1. /\ cur \in Ids /\ st[cur] = "SENDING" /\ form' = form
        /\ \/ /\ st' = [st EXCEPT ![cur] = "ACCEPTED"]
              /\ ordOf' = [ordOf EXCEPT ![cur] = cur]
              /\ ex' = [ex EXCEPT ![cur] = "open"]
           \/ /\ \/ st' = [st EXCEPT ![cur] = "REJECTED"]
                 \/ st' = [st EXCEPT ![cur] = "SEND_TIMEOUT"]
              /\ ordOf' = ordOf
    BY <1>8 DEF Sending, SendAccepted, SendRefused, SendTimesOut, FlattenSend, StateByPlace
  <2>2. Unmapped(cur)
    <3>1. cur # 0
      BY <2>1, ConstantsTyped DEF Ids
    <3> QED
      BY <2>1, <3>1, MappedOrders DEF Unmapped
  <2>3. CASE ordOf' = ordOf /\ st' = [st EXCEPT ![cur] = "REJECTED"]
    BY <2>1, <2>3, OneMoves DEF Walked
  <2>4. CASE ordOf' = ordOf /\ st' = [st EXCEPT ![cur] = "SEND_TIMEOUT"]
    BY <2>1, <2>4, OneMoves DEF Walked
  <2>5. CASE /\ st' = [st EXCEPT ![cur] = "ACCEPTED"]
             /\ ordOf' = [ordOf EXCEPT ![cur] = cur]
             /\ ex' = [ex EXCEPT ![cur] = "open"]
    <3>1. ex'[cur] \in Landed
      BY <2>1, <2>5 DEF TypeOK, Landed, OnBook
    <3> QED
      BY <2>1, <2>2, <2>5, <3>1, OneAccepted
  <2> QED
    BY <2>1, <2>3, <2>4, <2>5
<1>9. CASE Cancel \/ CancelAll \/ Kill \/ Exchange
  BY <1>1, <1>9 DEF Cancel, CancelAll, Kill, Exchange, Land, Fill, Close, ledger
<1> QED
  BY <1>1, <1>2, <1>3, <1>4, <1>5, <1>6, <1>7, <1>8, <1>9, QuietSteps DEF Moving

(***************************************************************************)
(* What intents and their forms do in a step.                              *)
(***************************************************************************)
(* An intent keeps what was recorded of it, stays sent once it was, and    *)
(* leaves the states that are in flight for good.                          *)
IntentMoves ==
    \A i \in Ids :
        /\ st[i] # "ABSENT" => form'[i] = form[i]
        /\ i \in Spent => i \in Spent' /\ form'[i] = form[i]
        /\ ex[i] # "none" \/ ex'[i] # "none" => form'[i] = form[i]
        /\ st'[i] = "REJECTED" => st[i] = "REJECTED" \/ ex'[i] = "refused"
        /\ st[i] # "ABSENT" => st'[i] # "ABSENT"
        /\ st[i] # "ABSENT" /\ st'[i] # st[i] =>
              \/ st[i] = "RECORDED" /\ i = cur /\ pc \in {"gates", "flattenBegin"}
              \/ st[i] = "SENDING" /\ i = cur /\ pc \in {"send", "flattenSend"}
              \/ st[i] = "SENDING" /\ st'[i] = "SEND_TIMEOUT" /\ pc = "recover"
              \/ st[i] = "SEND_TIMEOUT" /\ i = cur /\ pc = "readExecutions"

(* Every step treats the intents like that. *)
LEMMA IntentStep ==
    ASSUME ExecutorInvariant, [Next]_vars
    PROVE  IntentMoves
<1>a. TypeOK /\ LedgerInOrder /\ ExchangeInOrder /\ StateByPlace /\ PlanByPlace
  BY DEF ExecutorInvariant
<1>b. ExchangeMoves
  BY <1>a, ExchangeStep
<1> USE <1>a, <1>b
<1>0. \A i \in Ids : ex[i] # "none" => st[i] # "ABSENT"
  BY DEF ExchangeInOrder, Spent
<1>1. CASE UNCHANGED ledger
  BY <1>1 DEF IntentMoves, ledger, Spent
<1>2. CASE Recording
  <2>1. PICK r \in Form : NewForm(r)
    BY <1>2, RecordStep DEF Recording
  <2> QED
    BY <1>0, <2>1 DEF IntentMoves, NewForm, Spent
<1>3. CASE MarkInterrupted
  BY <1>0, <1>3 DEF MarkInterrupted, TypeOK, IntentMoves, Spent
<1>4. CASE Decide
  BY <1>0, <1>4 DEF Decide, TypeOK, IntentMoves, Spent, StateByPlace, Resolving, ledger
<1>5. CASE GateReject
  BY <1>0, <1>5 DEF GateReject, TypeOK, IntentMoves, Spent, StateByPlace
<1>6. CASE BeginSend
  BY <1>0, <1>6 DEF BeginSend, TypeOK, IntentMoves, Spent, StateByPlace
<1>7. CASE FlattenBegin
  BY <1>0, <1>7 DEF FlattenBegin, TypeOK, IntentMoves, Spent, StateByPlace
<1>8. CASE Sending
  <2>1. /\ pc \in {"send", "flattenSend"} /\ cur \in Ids /\ st[cur] = "SENDING"
        /\ form' = form
        /\ \/ st' = [st EXCEPT ![cur] = "ACCEPTED"]
           \/ st' = [st EXCEPT ![cur] = "REJECTED"] /\ ex' = [ex EXCEPT ![cur] = "refused"]
           \/ st' = [st EXCEPT ![cur] = "SEND_TIMEOUT"]
    BY <1>8 DEF Sending, SendAccepted, SendRefused, SendTimesOut, FlattenSend, StateByPlace
  <2> QED
    BY <2>1 DEF TypeOK, IntentMoves, Spent
<1>9. CASE Cancel \/ CancelAll \/ Kill \/ Exchange
  BY <1>1, <1>9 DEF Cancel, CancelAll, Kill, Exchange, Land, Fill, Close, ledger
<1> QED
  BY <1>1, <1>2, <1>3, <1>4, <1>5, <1>6, <1>7, <1>8, <1>9, QuietSteps DEF Moving

(* What a round remembers of the exchange has landed. *)
LEMMA MemoryStep ==
    ASSUME ExecutorInvariant, [Next]_vars
    PROVE  \A j \in seen' \union early' : j \in Ids /\ ex'[j] \in Landed
<1>a. TypeOK /\ ExchangeInOrder /\ StateByPlace
  BY DEF ExecutorInvariant
<1>b. ExchangeMoves
  BY <1>a, ExchangeStep
<1>c. \A j \in seen \union early : j \in Ids /\ ex'[j] \in Landed
  BY <1>a, <1>b DEF TypeOK, ExchangeInOrder, ExchangeMoves
<1>1. \/ seen' \subseteq seen
      \/ seen' = {j \in Ids : ex[j] \in OnBook}
  BY DEF Next, Executor, Exchange, StartRound, RefuseRound, CountMissing, Prepare,
         MarkInterrupted, Recovered, ReadActive, Decide, NoWriteRound, TripVerdict,
         RecordProposal, RecordTaker, GateReject, BeginSend, SendAccepted, SendRefused,
         SendTimesOut, CountUsage, PollClosed, WindowEnds, Cancel, VerifyEnds, Judge,
         CancelAll, FlattenSkipped, FlattenRecord, FlattenBegin, FlattenCount,
         FlattenSend, LockState, Finish, ReadFails, Kill, Land, Fill, Close, End,
         memory, vars
<1>2. \/ early' \subseteq early
      \/ early' = {j \in Ids : ex[j] \in Landed}
  BY DEF Next, Executor, Exchange, StartRound, RefuseRound, CountMissing, Prepare,
         MarkInterrupted, Recovered, ReadActive, Decide, NoWriteRound, TripVerdict,
         RecordProposal, RecordTaker, GateReject, BeginSend, SendAccepted, SendRefused,
         SendTimesOut, CountUsage, PollClosed, WindowEnds, Cancel, VerifyEnds, Judge,
         CancelAll, FlattenSkipped, FlattenRecord, FlattenBegin, FlattenCount,
         FlattenSend, LockState, Finish, ReadFails, Kill, Land, Fill, Close, End,
         memory, vars
<1>3. {j \in Ids : ex[j] \in OnBook} \subseteq {j \in Ids : ex[j] \in Landed}
  BY DEF Landed
<1>4. \A j \in Ids : ex[j] \in Landed => ex'[j] \in Landed
  BY <1>b DEF ExchangeMoves
<1> QED
  BY <1>c, <1>1, <1>2, <1>3, <1>4

(* Only a fill moves an amount. *)
LEMMA FillIs ==
    ASSUME TypeOK, [Next]_vars, NEW j \in Ids, done'[j] # done[j]
    PROVE  Fill(j)
<1>1. CASE UNCHANGED done
  BY <1>1
<1>2. ASSUME NEW k \in Ids, Fill(k) PROVE Fill(j)
  BY <1>2 DEF Fill, TypeOK
<1> QED
  BY <1>1, <1>2, QuietSteps
     DEF Moving, Recording, Sending, RecordProposal, RecordTaker, FlattenRecord,
         SendAccepted, SendRefused, SendTimesOut, FlattenSend, MarkInterrupted, Decide,
         GateReject, BeginSend, FlattenBegin, Cancel, CancelAll, Kill, Exchange, Land,
         Close, exchange

(* Amounts stay below the sizes. *)
LEMMA AmountsStep ==
    ASSUME ExecutorInvariant, [Next]_vars, NEW j \in Ids
    PROVE  /\ done'[j] <= form'[j].size
           /\ ex'[j] \in OnBook => done'[j] < form'[j].size
<1>a. TypeOK /\ LedgerInOrder /\ ExchangeInOrder /\ StateByPlace
  BY DEF ExecutorInvariant
<1>b. ExchangeMoves /\ IntentMoves
  BY <1>a, ExchangeStep, IntentStep
<1>c. done[j] \in Nat /\ form[j].size \in Nat /\ (done[j] > 0 => ex[j] # "none")
  BY <1>a DEF TypeOK, Form, ExchangeInOrder, Landed, OnBook
<1>1. CASE ex[j] = "none" /\ ex'[j] = "none"
  <2>1. done'[j] = 0 /\ form'[j].size \in Nat
    BY <1>1, <1>a, <1>b, <1>c, TypesKept DEF ExchangeMoves, OnBook, TypeOK, Form
  <2> QED
    BY <1>1, <2>1 DEF OnBook
<1>2. CASE ex[j] = "none" /\ ex'[j] # "none"
  <2>1. done'[j] = 0 /\ form'[j] = form[j] /\ form[j].size > 0
    BY <1>2, <1>a, <1>b, <1>c DEF ExchangeMoves, IntentMoves, LedgerInOrder, OnBook
  <2> QED
    BY <1>c, <2>1
<1>3. CASE ex[j] # "none" /\ done'[j] = done[j]
  <2>1. form'[j] = form[j]
    BY <1>3, <1>b DEF IntentMoves
  <2>2. ex'[j] \in OnBook => ex[j] \in OnBook \/ ex[j] = "flying"
    BY <1>3, <1>b DEF ExchangeMoves
  <2>3. ex[j] = "flying" => done[j] = 0 /\ form[j].size > 0
    BY <1>a, <1>c DEF ExchangeInOrder, LedgerInOrder, Landed, OnBook, Spent
  <2> QED
    BY <1>3, <1>a, <1>c, <2>1, <2>2, <2>3 DEF ExchangeInOrder
<1>4. CASE done'[j] # done[j]
  <2>1. Fill(j)
    BY <1>4, <1>a, FillIs
  <2> QED
    BY <2>1, <1>a, <1>c DEF Fill, TypeOK, ExchangeInOrder, ledger, OnBook
<1> QED
  BY <1>1, <1>2, <1>3, <1>4

(* Only a record gives an intent its form. *)
LEMMA FormStays ==
    ASSUME [Next]_vars
    PROVE  form' = form \/ Recording
BY QuietSteps
   DEF Moving, Sending, SendAccepted, SendRefused, SendTimesOut, FlattenSend,
       MarkInterrupted, Decide, GateReject, BeginSend, FlattenBegin, Cancel, CancelAll,
       Kill, Exchange, Land, Fill, Close, ledger

(* The exchange and what is remembered of it stay in order. *)
LEMMA ExchangeKept ==
    ASSUME ExecutorInvariant, [Next]_vars
    PROVE  ExchangeInOrder'
<1>a. TypeOK /\ LedgerInOrder /\ ExchangeInOrder /\ StateByPlace /\ PlanByPlace
  BY DEF ExecutorInvariant
<1>b. ExchangeMoves /\ IntentMoves
  BY <1>a, ExchangeStep, IntentStep
<1>c. TypeOK'
  BY TypesKept
<1>1. ASSUME NEW j \in Ids
      PROVE  /\ ex'[j] # "none" => j \in Spent'
             /\ st'[j] = "REJECTED" => ex'[j] = "refused"
             /\ done'[j] > 0 => ex'[j] \in Landed
  <2>1. ex'[j] # "none" => j \in Spent
    BY <1>a, <1>b DEF ExchangeMoves, ExchangeInOrder, Spent
  <2>2. ex'[j] # "none" => j \in Spent'
    BY <2>1, <1>b DEF IntentMoves
  <2>3. st'[j] = "REJECTED" => ex'[j] = "refused"
    BY <1>a, <1>b DEF IntentMoves, ExchangeInOrder, ExchangeMoves, Settled
  <2>4. done'[j] > 0 => ex'[j] \in Landed
    BY <1>a, <1>b DEF ExchangeInOrder, ExchangeMoves, OnBook
  <2> QED
    BY <2>2, <2>3, <2>4
<1>2. ASSUME NEW j \in Ids
      PROVE  j \notin form'[j].older /\ \A k \in form'[j].older : ex'[k] \in Landed
  <2>1. CASE form'[j] = form[j]
    BY <2>1, <1>a, <1>b DEF ExchangeInOrder, ExchangeMoves, TypeOK, Form
  <2>2. CASE form'[j] # form[j]
    <3>1. PICK r \in Form : NewForm(r)
      BY <2>2, <1>a, RecordStep, FormStays DEF Recording
    <3> QED
      BY <2>2, <3>1, <1>b DEF NewForm, ExchangeMoves, Form
  <2> QED
    BY <2>1, <2>2
<1> QED
  BY <1>1, <1>2, AmountsStep, MemoryStep DEF ExchangeInOrder

(* Never two intents in flight: a gate or the ledger sees the first one. *)
LEMMA OneInFlightKept ==
    ASSUME ExecutorInvariant, [Next]_vars
    PROVE  OneInFlight'
<1>a. TypeOK /\ LedgerInOrder /\ StateByPlace /\ OneInFlight
  BY DEF ExecutorInvariant
<1>1. CASE BeginSend \/ (FlattenBegin /\ InFlight = {})
  <2>1. InFlight = {} /\ cur \in Ids /\ st' = [st EXCEPT ![cur] = "SENDING"]
    BY <1>1, <1>a DEF BeginSend, FlattenBegin, StateByPlace
  <2>2. InFlight' \subseteq {cur}
    BY <2>1, <1>a DEF InFlight, InFlightStates, TypeOK
  <2> QED
    BY <2>2 DEF OneInFlight
<1>2. CASE InFlight' \subseteq InFlight
  BY <1>2, <1>a DEF OneInFlight
<1>3. BeginSend \/ (FlattenBegin /\ InFlight = {}) \/ InFlight' \subseteq InFlight
  <2>1. CASE UNCHANGED st
    BY <2>1 DEF InFlight
  <2>2. CASE Recording
    BY <2>2, <1>a, RecordStep DEF Recording, NewForm, InFlight, InFlightStates, ExecutorInvariant
  <2>3. CASE MarkInterrupted \/ Decide \/ GateReject
    BY <2>3, <1>a DEF MarkInterrupted, Decide, GateReject, InFlight, InFlightStates,
       TypeOK, StateByPlace, Resolving, ledger
  <2>4. CASE Sending
    BY <2>4, <1>a DEF Sending, SendAccepted, SendRefused, SendTimesOut, FlattenSend,
       InFlight, InFlightStates, TypeOK, StateByPlace
  <2>5. CASE FlattenBegin
    BY <2>1, <2>5 DEF FlattenBegin
  <2>6. CASE Cancel \/ CancelAll \/ Kill \/ Exchange
    BY <2>1, <2>6 DEF Cancel, CancelAll, Kill, Exchange, Land, Fill, Close, ledger
  <2> QED
    BY <2>1, <2>2, <2>3, <2>4, <2>5, <2>6, QuietSteps DEF Moving, ledger
<1> QED
  BY <1>1, <1>2, <1>3

(***************************************************************************)
(* What the place of the round says.                                       *)
(***************************************************************************)
(* The intent of the round is where the round is. *)
LEMMA StateKept ==
    ASSUME ExecutorInvariant, [Next]_vars
    PROVE  StateByPlace'
<1>a. TypeOK /\ LedgerInOrder /\ ExchangeInOrder /\ StateByPlace /\ PlanByPlace
  BY DEF ExecutorInvariant
<1> USE <1>a DEF StateByPlace, Resolving
<1>1. CASE pc' \in {"down", "usage", "recover", "plan", "judge", "finish", "cancelAll",
                    "flatten", "lock"}
  BY <1>1
<1>2. CASE UNCHANGED <<ledger, exchange, pc, cur>>
  BY <1>2 DEF ledger, exchange
<1>3. CASE MarkInterrupted
  BY <1>3 DEF MarkInterrupted, Go, TypeOK
<1>4. CASE ReadActive
  BY <1>4 DEF ReadActive, Go, ledger
<1>5. CASE Decide
  BY <1>5 DEF Decide, Go, TypeOK
<1>6. CASE Recording
  <2>1. PICK r \in Form : NewForm(r) /\ (FlattenRecord => r.kind = "market")
    BY <1>6, RecordStep DEF Recording
  <2>2. pc' \in {"gates", "flattenBegin"} /\ (pc' = "flattenBegin" => FlattenRecord)
    BY <1>6 DEF Recording, RecordProposal, RecordTaker, FlattenRecord, Go
  <2> QED
    BY <2>1, <2>2 DEF NewForm
<1>7. CASE GateReject \/ BeginSend
  <2>1. ex[cur] = "none"
    BY <1>7 DEF GateReject, BeginSend, ExchangeInOrder, Spent
  <2> QED
    BY <1>7, <2>1 DEF GateReject, BeginSend, Go, TypeOK, exchange
<1>8. CASE SendAccepted \/ SendRefused \/ SendTimesOut
  BY <1>8 DEF SendAccepted, SendRefused, SendTimesOut, Go, TypeOK
<1>9. CASE CountUsage
  BY <1>9 DEF CountUsage, Go, ledger, memory
<1>10. CASE PollClosed \/ WindowEnds \/ VerifyEnds \/ Judge
  BY <1>10 DEF PollClosed, WindowEnds, VerifyEnds, Judge, Go, ledger, memory
<1>11. CASE Cancel
  BY <1>11 DEF Cancel, Go, ledger
<1>12. CASE FlattenBegin
  <2>1. ex[cur] = "none"
    BY <1>12 DEF FlattenBegin, ExchangeInOrder, Spent
  <2> QED
    BY <1>12, <2>1 DEF FlattenBegin, Go, TypeOK, exchange, memory
<1>13. CASE FlattenCount
  BY <1>13 DEF FlattenCount, Go, ledger, exchange
<1>14. CASE Exchange
  <2>1. pc' = pc /\ cur' = cur /\ UNCHANGED ledger
    BY <1>14 DEF Exchange, Land, Fill, Close, memory, ledger
  <2>2. ASSUME pc \in {"send", "flattenCount", "flattenSend"} PROVE ex'[cur] = "none"
    BY <1>14, <2>2 DEF Exchange, Land, Fill, Close, TypeOK, OnBook
  <2> QED
    BY <2>1, <2>2 DEF ledger
<1>15. CASE StartRound \/ RefuseRound \/ CountMissing \/ Prepare \/ Recovered
  BY <1>1, <1>2, <1>15 DEF StartRound, RefuseRound, CountMissing, Prepare, Recovered, Go,
     End, memory
<1>16. CASE NoWriteRound \/ TripVerdict \/ CancelAll \/ FlattenSkipped \/ FlattenSend
  BY <1>1, <1>16 DEF NoWriteRound, TripVerdict, CancelAll, FlattenSkipped, FlattenSend, Go
<1>17. CASE LockState \/ Finish \/ ReadFails \/ Kill
  BY <1>1, <1>17 DEF LockState, Finish, ReadFails, Kill, End
<1> QED
  BY <1>1, <1>2, <1>3, <1>4, <1>5, <1>6, <1>7, <1>8, <1>9, <1>10, <1>11, <1>12, <1>13,
     <1>14, <1>15, <1>16, <1>17
     DEF Next, Executor, Recording, vars, memory

(* The breaker is looked at in time. *)
LEMMA BreakerKept ==
    ASSUME ExecutorInvariant, [Next]_vars
    PROVE  BreakerByPlace'
<1>a. TypeOK /\ BreakerByPlace /\ StateByPlace /\ PlanByPlace
  BY DEF ExecutorInvariant
<1>b. /\ breaker.failures \in 0 .. (FailureLimit + 1)
      /\ breaker.failures >= FailureLimit => breaker.tripped
  BY <1>a DEF TypeOK, Memo
<1> USE <1>a, <1>b, ConstantsTyped DEF BreakerByPlace, Resolving
<1>1. CASE pc' \in {"down", "usage", "recover", "plan", "gates", "judge", "finish",
                    "cancelAll", "flatten", "flattenBegin", "flattenCount",
                    "flattenSend", "lock", "verify", "refresh"}
  BY <1>1
<1>2. CASE UNCHANGED <<pc, plan, breaker>>
  BY <1>2
<1>3. CASE MarkInterrupted
  BY <1>3 DEF MarkInterrupted, Go, PlanByPlace
<1>4. CASE ReadActive
  BY <1>4 DEF ReadActive, Go
<1>5. CASE Decide
  BY <1>5 DEF Decide, Go
<1>6. CASE BeginSend
  BY <1>6 DEF BeginSend, Go
<1>7. CASE SendAccepted
  BY <1>7 DEF SendAccepted, Go, TypeOK, Memo
<1>8. CASE SendRefused \/ SendTimesOut
  <2>1. pc' = "count" /\ breaker' = Failure(breaker) /\ ~breaker.tripped
    BY <1>8 DEF SendRefused, SendTimesOut, Go
  <2>2. breaker'.failures = breaker.failures + 1
    BY <2>1 DEF Failure
  <2> QED
    BY <2>1, <2>2
<1>9. CASE CountUsage
  BY <1>9 DEF CountUsage, Go, memory
<1>10. CASE PollClosed \/ WindowEnds \/ Cancel \/ VerifyEnds \/ Judge
  BY <1>10 DEF PollClosed, WindowEnds, Cancel, VerifyEnds, Judge, Go, memory
<1>11. CASE Recording \/ GateReject
  BY <1>1, <1>11 DEF Recording, RecordProposal, RecordTaker, FlattenRecord, GateReject, Go
<1>12. CASE FlattenBegin \/ FlattenCount \/ FlattenSend
  BY <1>1, <1>12 DEF FlattenBegin, FlattenCount, FlattenSend, Go
<1>14. CASE Exchange
  BY <1>2, <1>14 DEF Exchange, Land, Fill, Close, memory
<1>15. CASE StartRound \/ RefuseRound \/ CountMissing \/ Prepare \/ Recovered
  BY <1>1, <1>2, <1>15 DEF StartRound, RefuseRound, CountMissing, Prepare, Recovered, Go,
     End, memory
<1>16. CASE NoWriteRound \/ TripVerdict \/ CancelAll \/ FlattenSkipped
  BY <1>1, <1>16 DEF NoWriteRound, TripVerdict, CancelAll, FlattenSkipped, Go
<1>17. CASE LockState \/ Finish \/ ReadFails \/ Kill
  BY <1>1, <1>17 DEF LockState, Finish, ReadFails, Kill, End
<1> QED
  BY <1>1, <1>2, <1>3, <1>4, <1>5, <1>6, <1>7, <1>8, <1>9, <1>10, <1>11, <1>12,
     <1>14, <1>15, <1>16, <1>17
     DEF Next, Executor, Recording, vars, memory

(* The copy of the lock in memory is the one in the file. *)
LEMMA LockKept ==
    ASSUME ExecutorInvariant, [Next]_vars
    PROVE  LockIsKnown' /\ (file.tripped => file'.tripped)
<1>a. TypeOK /\ LockIsKnown
  BY DEF ExecutorInvariant
<1> USE <1>a DEF LockIsKnown
<1>1. CASE Finish
  BY <1>1 DEF Finish, End
<1>2. CASE LockState
  BY <1>2 DEF LockState, TypeOK, Memo
<1>3. CASE ReadFails \/ Kill
  BY <1>3 DEF ReadFails, Kill, End
<1>4. CASE StartRound \/ RefuseRound \/ CountMissing \/ Recovered
  <2>1. CASE StartRound
    <3>1. ~locked /\ ~file.tripped /\ locked' = locked /\ file' = file /\ pc' # "down"
      BY <2>1 DEF StartRound
    <3>2. locked \in BOOLEAN /\ file.tripped \in BOOLEAN
      BY DEF TypeOK, Memo
    <3> QED
      BY <3>1, <3>2
  <2>2. CASE RefuseRound \/ CountMissing \/ Recovered
    BY <2>2 DEF RefuseRound, CountMissing, Recovered, Go, memory
  <2> QED
    BY <1>4, <2>1, <2>2
<1>5. CASE Prepare
  BY <1>5 DEF Prepare, Go, End
<1>6. CASE MarkInterrupted \/ ReadActive \/ Decide \/ NoWriteRound \/ TripVerdict
  BY <1>6 DEF MarkInterrupted, ReadActive, Decide, NoWriteRound, TripVerdict, Go, memory
<1>7. CASE Recording \/ GateReject \/ BeginSend
  BY <1>7 DEF Recording, RecordProposal, RecordTaker, FlattenRecord, GateReject, BeginSend,
              Go
<1>8. CASE SendAccepted \/ SendRefused \/ SendTimesOut \/ CountUsage
  BY <1>8 DEF SendAccepted, SendRefused, SendTimesOut, CountUsage, Go, memory
<1>9. CASE PollClosed \/ WindowEnds \/ Cancel \/ VerifyEnds \/ Judge \/ CancelAll
  BY <1>9 DEF PollClosed, WindowEnds, Cancel, VerifyEnds, Judge, CancelAll, Go, memory
<1>10. CASE FlattenSkipped \/ FlattenBegin \/ FlattenCount \/ FlattenSend
  BY <1>10 DEF FlattenSkipped, FlattenBegin, FlattenCount, FlattenSend, Go, memory
<1>11. CASE Exchange \/ UNCHANGED vars
  BY <1>11 DEF Exchange, Land, Fill, Close, memory, vars
<1> QED
  BY <1>1, <1>2, <1>3, <1>4, <1>5, <1>6, <1>7, <1>8, <1>9, <1>10, <1>11
     DEF Next, Executor, Recording

(* The proposal is in the works and leaves room for a second phase. *)
LEMMA PlanKept ==
    ASSUME ExecutorInvariant, [Next]_vars
    PROVE  PlanByPlace'
<1>a. TypeOK /\ LedgerInOrder /\ ExchangeInOrder /\ StateByPlace /\ PlanByPlace
      /\ PhasesFit
  BY DEF ExecutorInvariant
<1>b. IntentMoves /\ LedgerInOrder'
  BY IntentStep, LedgerKept
<1>c. ASSUME form' = form PROVE Recorded' = Recorded
  <2>1. \A i \in Ids : st[i] = "ABSENT" <=> st'[i] = "ABSENT"
    BY <1>a, <1>b, <1>c DEF IntentMoves, LedgerInOrder, NoForm
  <2> QED
    BY <2>1 DEF Recorded
<1> USE <1>a DEF PlanByPlace, InProposal, Resolving
<1>1. CASE \/ pc' = "down" /\ plan' = 0
           \/ pc' \in {"judge", "finish", "cancelAll", "flatten", "flattenBegin",
                       "flattenCount", "flattenSend", "lock"}
  BY <1>1
<1>3. CASE RecordProposal
  <2>1. PICK r \in Form : /\ NewForm(r) /\ r.plan = NextId /\ r.size = left'
                          /\ r.kind \in {"passive", "direct"}
                          /\ r.kind = "passive" => NextId < MaxIntents
    BY <1>3, RecordStep
  <2>2. pc' = "gates" /\ plan' = NextId
    BY <1>3 DEF RecordProposal, Go
  <2>3. ASSUME NEW i \in Ids, form'[i].plan = NextId PROVE i = NextId
    <3>1. SUFFICES ASSUME i # NextId PROVE FALSE
      OBVIOUS
    <3>2. form[i].plan = NextId
      BY <2>1, <2>3, <3>1 DEF NewForm
    <3> QED
      BY <2>1, <3>1, <3>2 DEF NewForm, PhasesFit
  <2> QED
    BY <2>1, <2>2, <2>3 DEF NewForm
<1>4. CASE RecordTaker
  <2>1. PICK r \in Form : NewForm(r) /\ r.plan = plan /\ r.kind = "taker" /\ plan < NextId
    BY <1>4, RecordStep
  <2>2. pc' = "gates" /\ plan' = plan /\ plan \in Ids
    BY <1>4 DEF RecordTaker, Go
  <2>3. NextId # plan
    BY <2>1, <1>a, NextIsFree, ConstantsTyped DEF TypeOK
  <2> QED
    BY <2>1, <2>2, <2>3 DEF NewForm
<1>5. CASE MarkInterrupted
  <2>1. form' = form /\ plan' = 0 /\ plan = 0 /\ pc' = "readActive"
    BY <1>5 DEF MarkInterrupted, Go
  <2> QED
    BY <2>1
<1>6. CASE Decide
  <2>1. form' = form /\ Recorded' = Recorded
    BY <1>6, <1>c DEF Decide, ledger
  <2> QED
    BY <1>6, <2>1 DEF Decide, Go
<1>7. CASE GateReject \/ BeginSend
  BY <1>7, <1>c DEF GateReject, BeginSend, Go
<1>8. CASE SendAccepted \/ SendRefused \/ SendTimesOut
  BY <1>8, <1>c DEF SendAccepted, SendRefused, SendTimesOut, Go
<1>9. CASE CountUsage
  BY <1>c, <1>9 DEF CountUsage, Go, ledger, memory
<1>10. CASE PollClosed
  <2>1. Order \in Ids /\ done[Order] \in Nat /\ left \in Nat
    BY <1>10, OrderOfAccepted DEF PollClosed, StateByPlace, Order, TypeOK
  <2>2. CASE pc' = "judge"
    BY <2>2
  <2>3. CASE pc' = "refresh"
    <3>1. form[cur].kind = "passive" /\ left' > 0
      BY <1>10, <2>3 DEF PollClosed, Go
    <3>2. cur = plan
      BY <1>10, <3>1 DEF PollClosed
    <3> QED
      BY <1>10, <1>c, <2>3, <3>1, <3>2 DEF PollClosed, ledger
  <2> QED
    BY <1>10, <2>2, <2>3 DEF PollClosed, Go
<1>11. CASE ReadActive \/ WindowEnds \/ Cancel
  BY <1>c, <1>11 DEF ReadActive, WindowEnds, Cancel, Go, ledger, memory
<1>12. CASE VerifyEnds \/ Judge \/ TripVerdict \/ NoWriteRound \/ CancelAll
  BY <1>1, <1>12 DEF VerifyEnds, Judge, TripVerdict, NoWriteRound, CancelAll, Go
<1>13. CASE \/ FlattenSkipped \/ FlattenRecord \/ FlattenBegin \/ FlattenCount
            \/ FlattenSend \/ LockState
  BY <1>1, <1>13 DEF FlattenSkipped, FlattenRecord, FlattenBegin, FlattenCount,
     FlattenSend, LockState, Go
<1>14. CASE Finish \/ ReadFails \/ Kill
  BY <1>1, <1>14 DEF Finish, ReadFails, Kill, End
<1>15. CASE StartRound \/ RefuseRound \/ CountMissing \/ Prepare \/ Recovered
  BY <1>15 DEF StartRound, RefuseRound, CountMissing, Prepare, Recovered, Go, End, memory,
     ledger
<1>16. CASE Exchange \/ UNCHANGED vars
  BY <1>c, <1>16 DEF Exchange, Land, Fill, Close, memory, ledger, vars
<1> QED
  BY <1>3, <1>4, <1>5, <1>6, <1>7, <1>8, <1>9, <1>10, <1>11, <1>12, <1>13, <1>14, <1>15,
     <1>16
     DEF Next, Executor

(***************************************************************************)
(* What is counted of the writes.                                          *)
(***************************************************************************)
(* The limit orders of the day grow by the one being sent. *)
LEMMA SpentStep ==
    ASSUME ExecutorInvariant, [Next]_vars
    PROVE  \/ UNCHANGED SpentLimit /\ ~BeginSend
           \/ BeginSend /\ cur \notin SpentLimit /\ SpentLimit' = SpentLimit \union {cur}
<1>a. TypeOK /\ LedgerInOrder /\ ExchangeInOrder /\ StateByPlace /\ PlanByPlace
  BY DEF ExecutorInvariant
<1>b. IntentMoves
  BY IntentStep
<1>1. CASE BeginSend
  <2>1. cur \in Ids /\ st[cur] = "RECORDED" /\ form[cur].kind # "market"
        /\ st' = [st EXCEPT ![cur] = "SENDING"] /\ form' = form
    BY <1>1, <1>a DEF BeginSend, StateByPlace, PlanByPlace, InProposal
  <2>2. st'[cur] = "SENDING" /\ \A i \in Ids : i # cur => st'[i] = st[i]
    BY <1>a, <2>1 DEF TypeOK
  <2>3. SpentLimit' = SpentLimit \union {cur}
    BY <2>1, <2>2 DEF SpentLimit, Spent
  <2> QED
    BY <1>1, <2>1, <2>3 DEF SpentLimit, Spent
<1>2. CASE ~BeginSend
  <2>1. \A i \in Ids : i \in Spent => i \in Spent' /\ form'[i] = form[i]
    BY <1>b DEF IntentMoves
  <2>2. SUFFICES ASSUME NEW i \in Ids, i \notin Spent, i \in Spent'
                 PROVE  form'[i].kind = "market"
    BY <1>2, <2>1 DEF SpentLimit, Spent
  <2>3. CASE UNCHANGED st
    BY <2>2, <2>3 DEF Spent
  <2>4. CASE Recording
    <3>1. PICK r \in Form : NewForm(r)
      BY <2>4, <1>a, RecordStep DEF Recording
    <3> QED
      BY <2>2, <3>1 DEF NewForm, Spent
  <2>5. CASE MarkInterrupted \/ Decide \/ GateReject
    BY <2>2, <2>5, <1>a DEF MarkInterrupted, Decide, GateReject, Spent, TypeOK, ledger,
       StateByPlace, Resolving
  <2>6. CASE Sending
    BY <2>2, <2>6, <1>a DEF Sending, SendAccepted, SendRefused, SendTimesOut, FlattenSend,
       Spent, TypeOK, StateByPlace
  <2>7. CASE FlattenBegin
    BY <2>2, <2>7, <1>a DEF FlattenBegin, Spent, TypeOK, StateByPlace
  <2>8. CASE Cancel \/ CancelAll \/ Kill \/ Exchange
    BY <2>3, <2>8 DEF Cancel, CancelAll, Kill, Exchange, Land, Fill, Close, ledger
  <2> QED
    BY <1>2, <2>3, <2>4, <2>5, <2>6, <2>7, <2>8, QuietSteps DEF Moving, ledger
<1> QED
  BY <1>1, <1>2

(* The count of the day is right where a gate uses it. *)
LEMMA DayKept ==
    ASSUME ExecutorInvariant, [Next]_vars
    PROVE  DayIsCounted'
<1>a. TypeOK /\ DayIsCounted
  BY DEF ExecutorInvariant
<1>b. Cardinality(SpentLimit) \in Nat /\ IsFiniteSet(SpentLimit) /\ dayCount \in Nat
  BY <1>a, SpentIsFinite, ConstantsTyped DEF TypeOK
<1> USE <1>a, <1>b, ConstantsTyped DEF DayIsCounted
<1>1. CASE BeginSend
  <2>1. Cardinality(SpentLimit') = Cardinality(SpentLimit) + 1
    BY <1>1, SpentStep, FS_AddElement
  <2> QED
    BY <1>1, <2>1 DEF BeginSend, Go
<1>2. CASE ~BeginSend
  <2>0. SpentLimit' = SpentLimit
    BY <1>2, SpentStep
  <2>1. CASE dayCount' = dayCount /\ pc # "down" /\ pc # "usage"
             /\ (pc \in {"flattenSend", "lock", "finish"} => pc' \in {"lock", "finish"})
    BY <2>0, <2>1
  <2>2. CASE pc' \in {"down", "usage"} /\ dayCount' \in {dayCount, 0}
             /\ (pc \in {"flattenSend", "lock", "finish"} => dayCount' = 0)
    BY <2>0, <2>2
  <2>3. CASE UNCHANGED <<pc, dayCount>>
    BY <2>0, <2>3
  <2>4. CASE Prepare
    <3>1. CASE \E i \in Spent : form[i].kind = "market"
      BY <2>2, <2>4, <3>1 DEF Prepare, End
    <3>2. CASE ~\E i \in Spent : form[i].kind = "market"
      <4>1. Spent = SpentLimit
        BY <3>2 DEF SpentLimit
      <4> QED
        BY <2>0, <2>4, <3>2, <4>1 DEF Prepare, Go
    <3> QED
      BY <3>1, <3>2
  <2>5. CASE FlattenCount
    BY <2>0, <2>5 DEF FlattenCount, Go
  <2>6. CASE StartRound \/ RefuseRound \/ CountMissing \/ Recovered \/ MarkInterrupted
    BY <2>1, <2>2, <2>3, <2>6 DEF StartRound, RefuseRound, CountMissing, Recovered,
       MarkInterrupted, Go, memory
  <2>7. CASE ReadActive \/ Decide \/ NoWriteRound \/ TripVerdict \/ Recording \/ GateReject
    BY <2>1, <2>7 DEF ReadActive, Decide, NoWriteRound, TripVerdict, Recording,
       RecordProposal, RecordTaker, FlattenRecord, GateReject, Go, memory
  <2>8. CASE SendAccepted \/ SendRefused \/ SendTimesOut \/ CountUsage
    BY <2>1, <2>8 DEF SendAccepted, SendRefused, SendTimesOut, CountUsage, Go, memory
  <2>9. CASE PollClosed \/ WindowEnds \/ Cancel \/ VerifyEnds \/ Judge \/ CancelAll
    BY <2>1, <2>9 DEF PollClosed, WindowEnds, Cancel, VerifyEnds, Judge, CancelAll, Go,
       memory
  <2>10. CASE FlattenSkipped \/ FlattenBegin \/ FlattenSend \/ LockState
    BY <2>1, <2>10 DEF FlattenSkipped, FlattenBegin, FlattenSend, LockState, Go, memory
  <2>11. CASE Finish \/ ReadFails \/ Kill
    BY <2>2, <2>11 DEF Finish, ReadFails, Kill, End
  <2>12. CASE Exchange \/ UNCHANGED vars
    BY <2>3, <2>12 DEF Exchange, Land, Fill, Close, memory, vars
  <2> QED
    BY <1>2, <2>4, <2>5, <2>6, <2>7, <2>8, <2>9, <2>10, <2>11, <2>12
       DEF Next, Executor, Recording
<1> QED
  BY <1>1, <1>2

(* Nothing is missing from the usage file between its repair and a gate. *)
LEMMA UsageKept ==
    ASSUME ExecutorInvariant, [Next]_vars
    PROVE  UsageIsComplete'
<1>a. TypeOK /\ LedgerInOrder /\ PlanByPlace /\ UsageIsComplete
  BY DEF ExecutorInvariant
<1>b. IntentMoves /\ LedgerInOrder'
  BY IntentStep, LedgerKept
<1>c. ASSUME UNCHANGED <<form, usage>> PROVE Uncounted' = Uncounted
  <2>1. \A i \in Ids : st[i] = "ABSENT" <=> st'[i] = "ABSENT"
    BY <1>a, <1>b, <1>c DEF IntentMoves, LedgerInOrder, NoForm
  <2> QED
    BY <1>c, <2>1 DEF Uncounted, Recorded
<1> USE <1>a DEF UsageIsComplete, Resolving
<1>1. CASE pc' \notin {"recover", "plan", "readActive", "readExecutions"}
  BY <1>1
<1>2. CASE Prepare
  BY <1>1, <1>2, <1>c DEF Prepare, ledger, End
<1>3. CASE Recovered \/ MarkInterrupted
  BY <1>3, <1>c DEF Recovered, MarkInterrupted, ledger
<1>4. CASE ReadActive
  BY <1>4, <1>c DEF ReadActive, ledger, Go
<1>5. CASE Decide
  <2>1. UNCHANGED <<form, usage, plan>>
    BY <1>5 DEF Decide, ledger
  <2> QED
    BY <1>5, <2>1, <1>c DEF Decide, Go
<1>6. CASE CountUsage
  <2>1. plan # 0 /\ plan' = plan
    BY <1>6, ConstantsTyped DEF CountUsage, memory, PlanByPlace, InProposal, Ids
  <2> QED
    BY <1>6, <2>1 DEF CountUsage, Go
<1>7. CASE Exchange \/ UNCHANGED vars
  BY <1>7, <1>c DEF Exchange, Land, Fill, Close, memory, ledger, vars
<1>8. CASE StartRound \/ RefuseRound \/ CountMissing \/ NoWriteRound \/ TripVerdict
  BY <1>1, <1>c, <1>8 DEF StartRound, RefuseRound, CountMissing, NoWriteRound, TripVerdict,
     ledger, Go, memory
<1>9. CASE Recording \/ GateReject \/ BeginSend \/ SendAccepted \/ SendRefused \/ SendTimesOut
  BY <1>1, <1>9 DEF Recording, RecordProposal, RecordTaker, FlattenRecord, GateReject,
     BeginSend, SendAccepted, SendRefused, SendTimesOut, Go
<1>10. CASE PollClosed \/ WindowEnds \/ Cancel \/ VerifyEnds \/ Judge \/ CancelAll
  BY <1>1, <1>10 DEF PollClosed, WindowEnds, Cancel, VerifyEnds, Judge, CancelAll, Go
<1>11. CASE \/ FlattenSkipped \/ FlattenBegin \/ FlattenCount \/ FlattenSend \/ LockState
            \/ Finish \/ ReadFails \/ Kill
  BY <1>1, <1>11 DEF FlattenSkipped, FlattenBegin, FlattenCount, FlattenSend, LockState,
     Finish, ReadFails, Kill, End, Go
<1> QED
  BY <1>2, <1>3, <1>4, <1>5, <1>6, <1>7, <1>8, <1>9, <1>10, <1>11
     DEF Next, Executor, Recording

(***************************************************************************)
(* Delays and the mistakes they allow.                                     *)
(***************************************************************************)
(* A query is answered for its own order, if that one can be seen. *)
LEMMA OwnIsCandidate ==
    ASSUME TypeOK, LedgerInOrder, ExchangeInOrder, StateByPlace, pc = "readExecutions",
           cur \notin Candidates(cur)
    PROVE  cur \in Ids /\ st[cur] = "SEND_TIMEOUT" /\ cur \notin seen /\ done[cur] = 0
<1>1. cur \in Ids /\ st[cur] = "SEND_TIMEOUT"
  BY DEF StateByPlace, Resolving
<1>2. Unmapped(cur)
  <2>1. cur # 0
    BY <1>1, ConstantsTyped DEF Ids
  <2> QED
    BY <1>1, <2>1, MappedOrders DEF Unmapped
<1>3. cur \notin form[cur].older /\ done[cur] <= form[cur].size /\ done[cur] \in Nat
  BY <1>1, ConstantsTyped DEF ExchangeInOrder, TypeOK
<1>4. ~(cur \in seen /\ OrderMatches(cur, cur)) /\ ~ExecutionsMatch(cur, cur)
  BY <1>1, <1>2 DEF Candidates
<1> QED
  BY <1>1, <1>3, <1>4 DEF OrderMatches, ExecutionsMatch

(* An intent is found not accepted when its query has no candidate. *)
LEMMA FailedIs ==
    ASSUME ExecutorInvariant, [Next]_vars, NEW j \in Ids, st'[j] = "FAILED", st[j] # "FAILED"
    PROVE  Decide /\ j = cur /\ pc = "readExecutions" /\ Candidates(cur) = {}
<1>a. TypeOK /\ LedgerInOrder /\ ExchangeInOrder /\ StateByPlace /\ PlanByPlace
  BY DEF ExecutorInvariant
<1>1. CASE UNCHANGED st
  BY <1>1
<1>2. CASE Recording
  BY <1>2, <1>a, RecordStep DEF Recording, NewForm
<1>3. CASE MarkInterrupted \/ GateReject \/ BeginSend \/ FlattenBegin
  BY <1>3, <1>a DEF MarkInterrupted, GateReject, BeginSend, FlattenBegin, TypeOK
<1>4. CASE Sending
  BY <1>4, <1>a DEF Sending, SendAccepted, SendRefused, SendTimesOut, FlattenSend, TypeOK
<1>5. CASE Decide
  BY <1>5, <1>a DEF Decide, TypeOK, ledger
<1>6. CASE Cancel \/ CancelAll \/ Kill \/ Exchange
  BY <1>1, <1>6 DEF Cancel, CancelAll, Kill, Exchange, Land, Fill, Close, ledger
<1> QED
  BY <1>1, <1>2, <1>3, <1>4, <1>5, <1>6, QuietSteps DEF Moving, ledger

(* What a query saw is kept until the decision. *)
LEMMA SeenStep ==
    ASSUME [Next]_vars
    PROVE  /\ seen' \subseteq seen
              \/ (ReadActive /\ seen' = {j \in Ids : ex[j] \in OnBook} /\ UNCHANGED cur)
           /\ pc' = "readExecutions" =>
                 ReadActive \/ (pc = "readExecutions" /\ UNCHANGED <<cur, seen>>)
<1>1. CASE StartRound \/ RefuseRound \/ CountMissing \/ Prepare \/ MarkInterrupted
  BY <1>1 DEF StartRound, RefuseRound, CountMissing, Prepare, MarkInterrupted, Go, End,
     memory
<1>2. CASE Recovered \/ ReadActive \/ Decide \/ NoWriteRound \/ TripVerdict
  BY <1>2 DEF Recovered, ReadActive, Decide, NoWriteRound, TripVerdict, Go, memory
<1>3. CASE Recording \/ GateReject \/ BeginSend
  BY <1>3 DEF Recording, RecordProposal, RecordTaker, FlattenRecord, GateReject, BeginSend,
     Go
<1>4. CASE SendAccepted \/ SendRefused \/ SendTimesOut \/ CountUsage
  BY <1>4 DEF SendAccepted, SendRefused, SendTimesOut, CountUsage, Go, memory
<1>5. CASE PollClosed \/ WindowEnds \/ Cancel \/ VerifyEnds \/ Judge \/ CancelAll
  BY <1>5 DEF PollClosed, WindowEnds, Cancel, VerifyEnds, Judge, CancelAll, Go, memory
<1>6. CASE FlattenSkipped \/ FlattenBegin \/ FlattenCount \/ FlattenSend \/ LockState
  BY <1>6 DEF FlattenSkipped, FlattenBegin, FlattenCount, FlattenSend, LockState, Go,
     memory
<1>7. CASE Finish \/ ReadFails \/ Kill
  BY <1>7 DEF Finish, ReadFails, Kill, End
<1>8. CASE Exchange \/ UNCHANGED vars
  BY <1>8 DEF Exchange, Land, Fill, Close, memory, vars
<1> QED
  BY <1>1, <1>2, <1>3, <1>4, <1>5, <1>6, <1>7, <1>8 DEF Next, Executor, Recording

(* An order is delayed from its request on, and only after a timeout. *)
LEMMA DelayedStep ==
    ASSUME ExecutorInvariant, [Next]_vars, NEW j \in Ids, j \in Delayed'
    PROVE  j \in Delayed \/ (j = cur /\ late' = late + 1)
<1>a. TypeOK /\ LedgerInOrder /\ ExchangeInOrder /\ StateByPlace
  BY DEF ExecutorInvariant
<1>b. ExchangeMoves /\ IntentMoves
  BY <1>a, ExchangeStep, IntentStep
<1>c. /\ ex'[j] \in OnBook => ex[j] \in OnBook \union {"flying", "none"}
      /\ ex[j] = "none" /\ ex'[j] # "none" => j = cur /\ st[j] = "SENDING"
      /\ done'[j] # done[j] => ex[j] \in OnBook
  BY <1>b DEF ExchangeMoves
<1>1. CASE ex'[j] = "flying"
  BY <1>1, <1>b, <1>c DEF ExchangeMoves, Delayed
<1>2. CASE st'[j] = "FAILED" /\ (ex'[j] \in OnBook \/ done'[j] > 0 \/ j \in seen')
  <2>1. CASE st[j] = "FAILED"
    <3>1. j \in seen' => j \in seen \/ ex[j] \in OnBook
      BY SeenStep
    <3>2. done'[j] > 0 => done[j] > 0 \/ ex[j] \in OnBook
      BY <1>c
    <3>3. ex'[j] \in OnBook => ex[j] \in OnBook \union {"flying"}
      BY <1>c, <2>1 DEF OnBook
    <3> QED
      BY <1>2, <2>1, <3>1, <3>2, <3>3 DEF Delayed
  <2>2. CASE st[j] # "FAILED"
    <3>1. Decide /\ j = cur /\ pc = "readExecutions" /\ Candidates(cur) = {}
      BY <1>2, <2>2, FailedIs
    <3>2. seen' = {} /\ UNCHANGED exchange
      BY <3>1 DEF Decide
    <3>3. cur \notin seen /\ done[cur] = 0
      BY <3>1, <1>a, OwnIsCandidate
    <3> QED
      BY <1>2, <3>1, <3>2, <3>3 DEF Delayed, exchange
  <2> QED
    BY <2>1, <2>2
<1>3. CASE /\ pc' = "readExecutions" /\ j = cur'
           /\ j \notin seen' /\ ex'[j] \in OnBook /\ done'[j] = 0
  <2>1. CASE ReadActive
    BY <1>3, <2>1 DEF ReadActive, exchange
  <2>2. CASE pc = "readExecutions" /\ UNCHANGED <<cur, seen>>
    <3>1. st[j] = "SEND_TIMEOUT"
      BY <1>3, <1>a, <2>2 DEF StateByPlace, Resolving
    <3>2. ex[j] \in OnBook \union {"flying"} /\ done[j] = 0
      <4>1. ex[j] \in OnBook \union {"flying"}
        BY <1>3, <1>c, <3>1 DEF OnBook
      <4>2. done[j] \in Nat /\ (done'[j] # done[j] => done'[j] = done[j] + 1)
        BY <1>a, <1>b DEF TypeOK, ExchangeMoves
      <4> QED
        BY <1>3, <4>1, <4>2
    <3> QED
      BY <1>3, <2>2, <3>2 DEF Delayed
  <2> QED
    BY <1>3, <2>1, <2>2, SeenStep
<1> QED
  BY <1>1, <1>2, <1>3 DEF Delayed

(* Every delayed order is one of the late requests. *)
LEMMA DelaysKept ==
    ASSUME ExecutorInvariant, [Next]_vars
    PROVE  DelaysAreCounted'
<1>a. TypeOK /\ LedgerInOrder /\ ExchangeInOrder /\ StateByPlace /\ DelaysAreCounted
  BY DEF ExecutorInvariant
<1>b. late \in Nat /\ late' \in Nat /\ late' >= late
  <2>1. late \in 0 .. MaxLate /\ late' \in 0 .. MaxLate
    BY <1>a, TypesKept DEF TypeOK
  <2>2. late' = late \/ late' = late + 1
    BY QuietSteps
       DEF Moving, Recording, Sending, RecordProposal, RecordTaker, FlattenRecord,
           SendAccepted, SendRefused, SendTimesOut, FlattenSend, MarkInterrupted, Decide,
           GateReject, BeginSend, FlattenBegin, Cancel, CancelAll, Kill, Exchange, Land,
           Fill, Close, exchange, NoReply
  <2> QED
    BY <2>1, <2>2, ConstantsTyped
<1>c. Delayed \subseteq Ids /\ Delayed' \subseteq Ids
  BY DEF Delayed
<1>d. IsFiniteSet(Delayed) /\ Cardinality(Delayed) \in Nat /\ Cardinality(Delayed) <= late
  BY <1>a, <1>c, SpentIsFinite, ConstantsTyped DEF DelaysAreCounted
<1>1. CASE Delayed' \subseteq Delayed
  <2>1. Cardinality(Delayed') <= Cardinality(Delayed) /\ Cardinality(Delayed') \in Nat
    BY <1>1, <1>c, <1>d, FS_Subset, SpentIsFinite, ConstantsTyped
  <2> QED
    BY <1>b, <1>d, <2>1 DEF DelaysAreCounted
<1>2. CASE ~(Delayed' \subseteq Delayed)
  <2>1. late' = late + 1 /\ Delayed' \subseteq Delayed \union {cur}
    BY <1>2, <1>c, DelayedStep
  <2>2. /\ IsFiniteSet(Delayed \union {cur})
        /\ Cardinality(Delayed \union {cur}) <= Cardinality(Delayed) + 1
        /\ Cardinality(Delayed \union {cur}) \in Nat
    <3>1. CASE cur \in Delayed
      <4>1. Delayed \union {cur} = Delayed
        BY <3>1
      <4> QED
        BY <1>d, <4>1
    <3>2. CASE cur \notin Delayed
      BY <1>d, <3>2, FS_AddElement
    <3> QED
      BY <3>1, <3>2
  <2>3. Cardinality(Delayed') <= Cardinality(Delayed \union {cur})
        /\ Cardinality(Delayed') \in Nat
    BY <2>1, <2>2, FS_Subset, FS_CardinalityType
  <2> QED
    BY <1>b, <1>d, <2>1, <2>2, <2>3 DEF DelaysAreCounted
<1> QED
  BY <1>1, <1>2

(* A number changes when an intent is accepted, by a reply or by a query. *)
LEMMA NumberStep ==
    ASSUME ExecutorInvariant, [Next]_vars, NEW i \in Ids, ordOf'[i] # ordOf[i]
    PROVE  /\ i = cur /\ st[i] # "ACCEPTED"
           /\ \/ ordOf'[i] = i
              \/ /\ Decide /\ pc = "readExecutions" /\ UNCHANGED exchange
                 /\ seen' = {} /\ Candidates(cur) = {ordOf'[i]}
<1>a. TypeOK /\ LedgerInOrder /\ ExchangeInOrder /\ StateByPlace /\ PlanByPlace
  BY DEF ExecutorInvariant
<1>1. CASE UNCHANGED ordOf
  BY <1>1
<1>2. CASE Recording
  BY <1>1, <1>2, <1>a, RecordStep DEF Recording, NewForm
<1>3. CASE MarkInterrupted \/ GateReject \/ BeginSend \/ FlattenBegin
  BY <1>1, <1>3 DEF MarkInterrupted, GateReject, BeginSend, FlattenBegin
<1>4. CASE Sending
  BY <1>4, <1>a DEF Sending, SendAccepted, SendRefused, SendTimesOut, FlattenSend, TypeOK,
     StateByPlace
<1>5. CASE Decide
  <2>1. PICK j \in Candidates(cur) : Candidates(cur) = {j} /\ ordOf' = [ordOf EXCEPT ![cur] = j]
    BY <1>1, <1>5 DEF Decide, ledger
  <2>2. /\ pc = "readExecutions" /\ UNCHANGED exchange /\ seen' = {}
        /\ cur \in Ids /\ st[cur] = "SEND_TIMEOUT"
    BY <1>5, <1>a DEF Decide, StateByPlace, Resolving
  <2> QED
    BY <1>5, <1>a, <2>1, <2>2 DEF TypeOK
<1>6. CASE Cancel \/ CancelAll \/ Kill \/ Exchange
  BY <1>1, <1>6 DEF Cancel, CancelAll, Kill, Exchange, Land, Fill, Close, ledger
<1> QED
  BY <1>1, <1>2, <1>3, <1>4, <1>5, <1>6, QuietSteps DEF Moving, ledger

(* The one order a query finds is another one's: that one was delayed, and *)
(* if it is the only one, the queried one came to nothing.                 *)
LEMMA MistakeIs ==
    ASSUME ExecutorInvariant, pc = "readExecutions", NEW j, Candidates(cur) = {j}, j # cur
    PROVE  /\ late >= 1
           /\ late <= 1 => ex[cur] \in Settled /\ done[cur] = 0
<1>a. /\ TypeOK /\ LedgerInOrder /\ ExchangeInOrder /\ StateByPlace /\ OneInFlight
      /\ DelaysAreCounted /\ MistakesNeedDelays
  BY DEF ExecutorInvariant
<1>b. late \in Nat
  BY <1>a, ConstantsTyped DEF TypeOK
<1>1. /\ j \in Ids /\ Unmapped(j) /\ ex[j] \in Landed /\ st[j] \in {"ACCEPTED", "FAILED"}
      /\ j \in seen \/ done[j] > 0
  BY <1>a, CandidateIs DEF Candidates, ExecutionsMatch
<1>2. cur \in Ids /\ st[cur] = "SEND_TIMEOUT" /\ cur \notin seen /\ done[cur] = 0
  BY <1>a, OwnIsCandidate
<1>3. CASE st[j] = "ACCEPTED"
  <2>1. ordOf[j] \notin {0, j}
    BY <1>1, <1>3, <1>a DEF LedgerInOrder, Unmapped
  <2>2. late >= 1
    BY <1>1, <2>1, <1>a DEF MistakesNeedDelays
  <2>3. late <= 1 => done[j] = 0 /\ j \notin seen
    BY <1>1, <2>1, <1>a DEF MistakesNeedDelays
  <2> QED
    BY <1>1, <2>2, <2>3
<1>4. CASE st[j] = "FAILED"
  <2>1. j \in Delayed
    BY <1>1, <1>4 DEF Delayed
  <2>2. /\ IsFiniteSet(Delayed) /\ Cardinality(Delayed) \in Nat
        /\ Cardinality(Delayed) <= late
    BY <1>a, SpentIsFinite, ConstantsTyped DEF DelaysAreCounted, Delayed
  <2>3. late >= 1
    BY <1>b, <2>1, <2>2, FS_EmptySet
  <2>4. cur \in Delayed => Cardinality(Delayed) >= 2
    <3>1. SUFFICES ASSUME cur \in Delayed PROVE Cardinality(Delayed) >= 2
      OBVIOUS
    <3>2. {j, cur} \subseteq Delayed /\ Cardinality({j, cur}) = 2
      <4>1. Cardinality({j}) = 1 /\ IsFiniteSet({j}) /\ cur \notin {j}
        BY FS_Singleton
      <4>2. Cardinality({j} \union {cur}) = 2
        BY <4>1, FS_AddElement
      <4>3. {j} \union {cur} = {j, cur}
        OBVIOUS
      <4> QED
        BY <2>1, <3>1, <4>2, <4>3
    <3> QED
      BY <2>2, <3>2, FS_Subset
  <2>5. late <= 1 => cur \notin Delayed
    BY <1>b, <2>2, <2>4
  <2>6. cur \notin Delayed => ex[cur] \notin OnBook \union {"flying"}
    BY <1>2 DEF Delayed
  <2>7. ex[cur] \in Place
    BY <1>2, <1>a DEF TypeOK
  <2> QED
    BY <1>2, <2>3, <2>5, <2>6, <2>7 DEF Place, Landed, OnBook, Settled
<1> QED
  BY <1>1, <1>3, <1>4

(* Mistakes need delays. *)
LEMMA MistakesKept ==
    ASSUME ExecutorInvariant, [Next]_vars
    PROVE  MistakesNeedDelays'
<1>a. TypeOK /\ LedgerInOrder /\ ExchangeInOrder /\ StateByPlace /\ MistakesNeedDelays
  BY DEF ExecutorInvariant
<1>b. ExchangeMoves
  BY <1>a, ExchangeStep
<1>c. \A i \in Ids : late' >= late
  BY <1>b DEF ExchangeMoves
<1>d. late \in Nat /\ late' \in Nat
  BY <1>a, TypesKept, ConstantsTyped DEF TypeOK
<1>1. ASSUME NEW i \in Ids, ordOf'[i] \notin {0, i}
      PROVE  /\ late' >= 1
             /\ late' <= 1 => ex'[i] \in Settled /\ done'[i] = 0
  <2>1. CASE ordOf'[i] = ordOf[i]
    <3>1. st[i] = "ACCEPTED" /\ late >= 1 /\ (late <= 1 => ex[i] \in Settled /\ done[i] = 0)
      BY <1>1, <2>1, <1>a DEF MistakesNeedDelays, LedgerInOrder
    <3> QED
      BY <1>b, <1>c, <1>d, <3>1 DEF ExchangeMoves
  <2>2. CASE ordOf'[i] # ordOf[i]
    <3>1. /\ pc = "readExecutions" /\ UNCHANGED exchange /\ i = cur
          /\ Candidates(cur) = {ordOf'[i]}
      BY <1>1, <2>2, NumberStep
    <3> QED
      BY <1>1, <3>1, MistakeIs DEF exchange
  <2> QED
    BY <2>1, <2>2
<1>2. ASSUME late' <= 1, NEW j \in seen' PROVE ordOf'[j] \in {0, j}
  <2>1. j \in Ids /\ late <= 1
    BY <1>c, <1>d, <1>2, MemoryStep
  <2>2. CASE ordOf'[j] = ordOf[j]
    <3>1. j \in seen \/ ex[j] \in OnBook
      BY <1>2, <2>1, SeenStep
    <3>2. ex[j] \in OnBook => ordOf[j] \in {0, j}
      BY <1>a, <2>1 DEF MistakesNeedDelays, OnBook, Settled
    <3> QED
      BY <1>a, <2>1, <2>2, <3>1, <3>2 DEF MistakesNeedDelays
  <2>3. CASE ordOf'[j] # ordOf[j]
    BY <1>2, <2>1, <2>3, NumberStep
  <2> QED
    BY <2>2, <2>3
<1> QED
  BY <1>1, <1>2 DEF MistakesNeedDelays

(***************************************************************************)
(* The two phases of a proposal.                                           *)
(***************************************************************************)
(* What a first phase leaves it leaves for good. *)
LEMMA LeavesForGood ==
    ASSUME ExecutorInvariant, [Next]_vars, NEW p \in Ids, st[p] = "ACCEPTED",
           NEW size, Leaves(p, size)
    PROVE  late' <= 1 => ex'[p] \in Settled /\ done'[p] + size <= form'[p].size
<1>a. TypeOK /\ LedgerInOrder /\ ExchangeInOrder /\ StateByPlace
  BY DEF ExecutorInvariant
<1>b. ExchangeMoves /\ IntentMoves
  BY <1>a, ExchangeStep, IntentStep
<1>1. late' >= late /\ form'[p] = form[p]
      /\ (ex[p] \in Settled => ex'[p] = ex[p] /\ done'[p] = done[p])
  BY <1>b DEF ExchangeMoves, IntentMoves
<1>2. late \in Nat /\ late' \in Nat
  BY <1>a, TypesKept, ConstantsTyped DEF TypeOK
<1>3. late' <= 1 => late <= 1
  BY <1>1, <1>2
<1> QED
  BY <1>1, <1>3 DEF Leaves

(* A first phase that was read as closed leaves what was not executed: of  *)
(* its own order, or all of it if the order is another intent's.           *)
LEMMA PollLeaves ==
    ASSUME ExecutorInvariant, PollClosed, pc' = "refresh"
    PROVE  cur = plan /\ plan' = plan /\ UNCHANGED <<exchange, form>> /\ Leaves(plan, left')
<1>a. TypeOK /\ LedgerInOrder /\ StateByPlace /\ PlanByPlace /\ MistakesNeedDelays
  BY DEF ExecutorInvariant
<1>1. /\ form[cur].kind = "passive" /\ left' > 0 /\ ex[Order] \in Closed
      /\ ex[Order] # "executed"
      /\ left' = IF done[Order] < left THEN left - done[Order] ELSE 0
  BY DEF PollClosed, Go
<1>2. /\ cur \in Ids /\ cur = plan /\ st[cur] = "ACCEPTED" /\ left = form[plan].size
  BY <1>a, <1>1 DEF PollClosed, StateByPlace, PlanByPlace, InProposal
<1>3. Order \in Ids /\ done[Order] \in Nat /\ left \in Nat /\ done[cur] \in Nat
  BY <1>a, <1>2, OrderOfAccepted DEF Order, TypeOK
<1>4. done[Order] < left /\ left' = left - done[Order]
  BY <1>1, <1>3
<1>5. plan' = plan /\ UNCHANGED <<exchange, form>>
  BY DEF PollClosed, ledger
<1>6. late <= 1 => ex[cur] \in Settled /\ done[cur] + left' <= form[plan].size
  <2>1. CASE Order = cur
    BY <1>1, <1>2, <1>3, <1>4, <2>1 DEF Closed, Settled
  <2>2. CASE Order # cur
    <3>1. late <= 1 => ex[cur] \in Settled /\ done[cur] = 0
      BY <1>a, <1>2, <1>3, <2>2, ConstantsTyped DEF MistakesNeedDelays, Order, Ids
    <3> QED
      BY <1>2, <1>3, <1>4, <3>1
  <2> QED
    BY <2>1, <2>2
<1> QED
  BY <1>2, <1>5, <1>6 DEF Leaves

(* The second phase is decided on by a poll. *)
LEMMA RefreshIs ==
    ASSUME [Next]_vars, pc' = "refresh"
    PROVE  PollClosed \/ (pc = "refresh" /\ UNCHANGED <<plan, left>>)
<1>1. CASE StartRound \/ RefuseRound \/ CountMissing \/ Prepare \/ MarkInterrupted
  BY <1>1 DEF StartRound, RefuseRound, CountMissing, Prepare, MarkInterrupted, Go, End,
     memory
<1>2. CASE Recovered \/ ReadActive \/ Decide \/ NoWriteRound \/ TripVerdict
  BY <1>2 DEF Recovered, ReadActive, Decide, NoWriteRound, TripVerdict, Go, memory
<1>3. CASE Recording \/ GateReject \/ BeginSend
  BY <1>3 DEF Recording, RecordProposal, RecordTaker, FlattenRecord, GateReject, BeginSend,
     Go
<1>4. CASE SendAccepted \/ SendRefused \/ SendTimesOut \/ CountUsage
  BY <1>4 DEF SendAccepted, SendRefused, SendTimesOut, CountUsage, Go, memory
<1>5. CASE WindowEnds \/ Cancel \/ VerifyEnds \/ Judge \/ CancelAll
  BY <1>5 DEF WindowEnds, Cancel, VerifyEnds, Judge, CancelAll, Go, memory
<1>6. CASE FlattenSkipped \/ FlattenBegin \/ FlattenCount \/ FlattenSend \/ LockState
  BY <1>6 DEF FlattenSkipped, FlattenBegin, FlattenCount, FlattenSend, LockState, Go,
     memory
<1>7. CASE Finish \/ ReadFails \/ Kill
  BY <1>7 DEF Finish, ReadFails, Kill, End
<1>8. CASE Exchange \/ UNCHANGED vars
  BY <1>8 DEF Exchange, Land, Fill, Close, memory, vars
<1> QED
  BY <1>1, <1>2, <1>3, <1>4, <1>5, <1>6, <1>7, <1>8 DEF Next, Executor, Recording

(* A second phase stands alone with its first one and fits what it left. *)
LEMMA PhasesKept ==
    ASSUME ExecutorInvariant, [Next]_vars
    PROVE  PhasesFit'
<1>a. /\ TypeOK /\ LedgerInOrder /\ ExchangeInOrder /\ StateByPlace /\ PlanByPlace
      /\ PhasesFit
  BY DEF ExecutorInvariant
<1>b. IntentMoves /\ LedgerInOrder' /\ TypeOK'
  BY IntentStep, LedgerKept, TypesKept
<1>c. \A p \in Ids : st[p] = "ACCEPTED" => st'[p] = "ACCEPTED" /\ form'[p] = form[p]
  BY <1>b DEF IntentMoves
<1>1. ASSUME NEW q \in Ids, form'[q].plan \in Ids \ {q}
      PROVE  LET p == form'[q].plan
             IN  /\ st'[p] = "ACCEPTED"
                 /\ form'[p].plan = p
                 /\ late' <= 1 => ex'[p] \in Settled
                                  /\ done'[p] + form'[q].size <= form'[p].size
                 /\ \A k \in Ids : form'[k].plan = p => k \in {p, q}
  <2> DEFINE p == form'[q].plan
  <2>1. CASE form' = form
    <3>1. /\ st[p] = "ACCEPTED" /\ form[p].plan = p /\ Leaves(p, form[q].size)
          /\ \A k \in Ids : form[k].plan = p => k \in {p, q}
      BY <1>1, <1>a, <2>1 DEF PhasesFit
    <3>2. late' <= 1 => ex'[p] \in Settled /\ done'[p] + form[q].size <= form'[p].size
      BY <1>1, <3>1, LeavesForGood
    <3> QED
      BY <1>1, <1>c, <2>1, <3>1, <3>2
  <2>2. CASE Recording
    <3>1. PICK r \in Form :
             /\ NewForm(r)
             /\ RecordProposal \/ FlattenRecord => r.plan = NextId
             /\ RecordTaker => r.plan = plan /\ r.size = left /\ plan < NextId
      BY <2>2, <1>a, RecordStep DEF Recording
    <3>2. /\ form'[NextId] = r /\ NextId \in Ids /\ st[NextId] = "ABSENT"
          /\ \A i \in Ids : i # NextId => form'[i] = form[i]
      BY <3>1 DEF NewForm
    <3>3. RecordTaker =>
             /\ plan \in Ids /\ plan # NextId /\ st[plan] = "ACCEPTED"
             /\ form[plan].plan = plan /\ Leaves(plan, left)
             /\ \A i \in Ids : form[i].plan = plan => i = plan
      BY <1>a, <3>1, NextIsFree, ConstantsTyped
         DEF RecordTaker, PlanByPlace, InProposal, StateByPlace, PhasesFit, Ids
    <3>4. CASE q = NextId
      <4>1. RecordTaker /\ p = plan /\ form'[q].size = left
        BY <1>1, <2>2, <3>1, <3>2, <3>4 DEF Recording
      <4>2. late' <= 1 => ex'[plan] \in Settled /\ done'[plan] + left <= form'[plan].size
        BY <3>3, <4>1, LeavesForGood
      <4>3. \A k \in Ids : form'[k].plan = plan => k \in {plan, q}
        BY <3>2, <3>3, <3>4, <4>1
      <4> QED
        BY <1>c, <3>3, <4>1, <4>2, <4>3
    <3>5. CASE q # NextId
      <4>1. /\ form'[q] = form[q] /\ p = form[q].plan
            /\ p \in Ids /\ st[p] = "ACCEPTED" /\ form[p].plan = p
            /\ Leaves(p, form[q].size)
            /\ \A k \in Ids : form[k].plan = p => k \in {p, q}
        BY <1>1, <1>a, <3>2, <3>5 DEF PhasesFit
      <4>2. late' <= 1 => ex'[p] \in Settled /\ done'[p] + form[q].size <= form'[p].size
        BY <4>1, LeavesForGood
      <4>3. r.plan # p
        <5>1. CASE RecordProposal \/ FlattenRecord
          BY <3>1, <3>2, <4>1, <5>1
        <5>2. CASE RecordTaker
          BY <1>1, <3>1, <3>3, <4>1, <5>2
        <5> QED
          BY <2>2, <5>1, <5>2 DEF Recording
      <4>4. \A k \in Ids : form'[k].plan = p => k \in {p, q}
        BY <3>2, <4>1, <4>3
      <4> QED
        BY <1>c, <4>1, <4>2, <4>4
    <3> QED
      BY <3>4, <3>5
  <2> QED
    BY <2>1, <2>2, FormStays
<1>2. ASSUME pc' = "refresh"
      PROVE  late' <= 1 => ex'[plan'] \in Settled
                           /\ done'[plan'] + left' <= form'[plan'].size
  <2>1. PollClosed \/ (pc = "refresh" /\ UNCHANGED <<plan, left>>)
    BY <1>2, RefreshIs
  <2>2. CASE PollClosed
    BY <1>2, <2>2, PollLeaves DEF Leaves, exchange
  <2>3. CASE pc = "refresh" /\ UNCHANGED <<plan, left>>
    <3>1. plan \in Ids /\ st[plan] = "ACCEPTED" /\ Leaves(plan, left)
      BY <1>a, <2>3 DEF PlanByPlace, StateByPlace, InProposal, PhasesFit
    <3> QED
      BY <2>3, <3>1, LeavesForGood
  <2> QED
    BY <2>1, <2>2, <2>3
<1> QED
  BY <1>1, <1>2 DEF PhasesFit, Leaves

(***************************************************************************)
(* The theorems.                                                           *)
(***************************************************************************)
(* Before the first round nothing is recorded and nothing was sent. *)
LEMMA InvariantInitially ==
    ASSUME Init
    PROVE  ExecutorInvariant
<1> USE ConstantsTyped
<1>1. TypeOK
  <2>1. 0 \in 0 .. MaxIntents /\ 0 \in 0 .. Lots /\ 0 \in 0 .. MaxLate
        /\ 0 \in 0 .. (DayCountMax + 1)
    OBVIOUS
  <2>2. NoForm \in Form
    BY DEF NoForm, Form, Kind
  <2>3. Steady \in Memo /\ ~(Steady.failures >= FailureLimit)
    BY DEF Steady, Memo
  <2>4. "ABSENT" \in EntryState /\ "none" \in Place /\ "down" \in Pc
    BY DEF EntryState, Place, Pc
  <2>5. /\ st \in [Ids -> EntryState] /\ ordOf \in [Ids -> 0 .. MaxIntents]
        /\ form \in [Ids -> Form] /\ ex \in [Ids -> Place] /\ done \in [Ids -> 0 .. Lots]
    BY <2>1, <2>2, <2>4 DEF Init
  <2>6. terminal \in BOOLEAN /\ locked \in BOOLEAN
    BY DEF Init
  <2> QED
    BY <2>1, <2>3, <2>4, <2>5, <2>6 DEF Init, TypeOK
<1>2. Recorded = {} /\ Cardinality(Recorded) = 0 /\ Recorded = 1 .. 0
  BY FS_EmptySet DEF Init, Recorded
<1>3. LedgerInOrder
  BY <1>2 DEF Init, LedgerInOrder, Walked
<1>4. ExchangeInOrder
  BY DEF Init, ExchangeInOrder, NoForm, OnBook, Spent
<1>5. OneInFlight /\ StateByPlace /\ PlanByPlace /\ BreakerByPlace
  BY DEF Init, OneInFlight, InFlight, InFlightStates, StateByPlace, PlanByPlace,
         BreakerByPlace, Resolving, InProposal
<1>6. DayIsCounted
  <2>1. SpentLimit = {} /\ Cardinality(SpentLimit) = 0
    BY FS_EmptySet DEF Init, SpentLimit, Spent
  <2> QED
    BY <2>1 DEF Init, DayIsCounted
<1>7. UsageIsComplete /\ LockIsKnown
  BY DEF Init, UsageIsComplete, LockIsKnown, Resolving, Steady
<1>8. DelaysAreCounted
  <2>1. Delayed = {} /\ Cardinality(Delayed) = 0
    BY FS_EmptySet DEF Init, Delayed
  <2> QED
    BY <2>1 DEF Init, DelaysAreCounted
<1>9. MistakesNeedDelays
  BY DEF Init, MistakesNeedDelays
<1>10. PhasesFit
  BY DEF Init, PhasesFit, NoForm, Ids
<1> QED
  BY <1>1, <1>3, <1>4, <1>5, <1>6, <1>7, <1>8, <1>9, <1>10 DEF ExecutorInvariant

(* The inductive invariant of the executor's rounds. *)
THEOREM RoundsInOrder == Spec => []ExecutorInvariant
<1>1. Init => ExecutorInvariant
  BY InvariantInitially
<1>2. ExecutorInvariant /\ [Next]_vars => ExecutorInvariant'
  <2> SUFFICES ASSUME ExecutorInvariant, [Next]_vars PROVE ExecutorInvariant'
    OBVIOUS
  <2>1. TypeOK' /\ LedgerInOrder' /\ ExchangeInOrder' /\ OneInFlight'
    BY TypesKept, LedgerKept, ExchangeKept, OneInFlightKept
  <2>2. StateByPlace' /\ PlanByPlace' /\ BreakerByPlace' /\ DayIsCounted'
    BY StateKept, PlanKept, BreakerKept, DayKept
  <2>3. UsageIsComplete' /\ LockIsKnown' /\ DelaysAreCounted'
    BY UsageKept, LockKept, DelaysKept
  <2>4. MistakesNeedDelays' /\ PhasesFit'
    BY MistakesKept, PhasesKept
  <2> QED
    BY <2>1, <2>2, <2>3, <2>4 DEF ExecutorInvariant
<1> QED
  BY <1>1, <1>2, PTL DEF Spec

(* Every file and variable of a round keeps its type, for any limits and   *)
(* any number of rounds: the counters of failures and of the day do not    *)
(* run past their limits.                                                  *)
THEOREM RoundsTyped == Spec => []TypeOK
<1>1. ExecutorInvariant => TypeOK
  BY DEF ExecutorInvariant
<1> QED
  BY <1>1, RoundsInOrder, PTL

(* When the envelope gates compare with the usage file no request that     *)
(* ever left the process is missing in it, however rounds were killed, and *)
(* the orders of a day stay within their limit (T-11).                     *)
THEOREM EveryWriteIsSeen == Spec => []LimitsSeeEveryWrite
<1>1. ExecutorInvariant => LimitsSeeEveryWrite
  <2> SUFFICES ASSUME ExecutorInvariant PROVE LimitsSeeEveryWrite
    OBVIOUS
  <2>a. TypeOK /\ LedgerInOrder /\ ExchangeInOrder /\ DayIsCounted /\ UsageIsComplete
    BY DEF ExecutorInvariant
  <2>1. Requested \subseteq SpentLimit
    BY <2>a DEF Requested, SpentLimit, ExchangeInOrder
  <2>2. Cardinality(Requested) <= Cardinality(SpentLimit)
    BY <2>1, SpentIsFinite, FS_Subset
  <2>3. Cardinality(Requested) <= DayCountMax
    BY <2>1, <2>2, <2>a, SpentIsFinite, ConstantsTyped DEF DayIsCounted
  <2>4. pc = "plan" => Requested \subseteq usage
    BY <2>1, <2>a DEF UsageIsComplete, Uncounted, Recorded, Requested, SpentLimit, Spent
  <2> QED
    BY <2>3, <2>4 DEF LimitsSeeEveryWrite
<1> QED
  BY <1>1, RoundsInOrder, PTL

(* No later save and no later round takes the trip lock back. *)
THEOREM LockStays == Spec => LockIsForGood
<1>1. ExecutorInvariant /\ [Next]_vars => [file.tripped => file'.tripped]_vars
  BY LockKept
<1> QED
  BY <1>1, RoundsInOrder, PTL DEF Spec, LockIsForGood

(* With no request under way at a timeout, a query's answer is the truth   *)
(* about its own order (T-05, T-06).                                       *)
THEOREM AnswersHold == Spec => []QueriesAnswerTrue
<1>1. ExecutorInvariant => QueriesAnswerTrue
  <2> SUFFICES ASSUME ExecutorInvariant, late = 0 PROVE AnswersAreTrue
    BY DEF QueriesAnswerTrue
  <2>a. TypeOK /\ DelaysAreCounted /\ MistakesNeedDelays
    BY DEF ExecutorInvariant
  <2>1. \A i \in Ids : ordOf[i] \in {0, i}
    BY <2>a DEF MistakesNeedDelays
  <2>2. Delayed = {}
    <3>1. IsFiniteSet(Delayed) /\ Cardinality(Delayed) = 0
      BY <2>a, SpentIsFinite, ConstantsTyped DEF DelaysAreCounted, Delayed
    <3> QED
      BY <3>1, FS_EmptySet
  <2>3. ASSUME NEW i \in Ids, st[i] = "FAILED" PROVE ex[i] \notin OnBook /\ done[i] = 0
    <3>1. done[i] \in Nat /\ i \notin Delayed
      BY <2>a, <2>2 DEF TypeOK
    <3> QED
      BY <2>3, <3>1 DEF Delayed
  <2> QED
    BY <2>1, <2>3 DEF AnswersAreTrue
<1> QED
  BY <1>1, RoundsInOrder, PTL

(***************************************************************************)
(* Sums over the two orders of a proposal.                                 *)
(***************************************************************************)
(* The function by which the fold of the community modules sums f over the *)
(* subsets of S: an element at a time, in an order nobody knows.           *)
First(s) == CHOOSE x \in s : TRUE
SumsUp(f, S, g) ==
    g = [s \in SUBSET S |-> IF s = {} THEN 0 ELSE f[First(s)] + g[s \ {First(s)}]]

SumOver(f, S) == MapThenSumSet(LAMBDA i : f[i], S)

LEMMA SumIsFold ==
    ASSUME NEW f, NEW S, \E g : SumsUp(f, S, g)
    PROVE  \E g : SumsUp(f, S, g) /\ SumOver(f, S) = g[S]
<1>1. SumOver(f, S) = (CHOOSE g : SumsUp(f, S, g))[S]
  BY DEF SumOver, SumsUp, First, MapThenSumSet, MapThenFoldSet
<1>2. SumsUp(f, S, CHOOSE g : SumsUp(f, S, g))
  OBVIOUS
<1> QED
  BY <1>1, <1>2

(* The sum over nothing. *)
LEMMA SumOfNone ==
    ASSUME NEW f
    PROVE  SumOver(f, {}) = 0
<1> DEFINE g == [s \in SUBSET {} |-> 0]
<1>1. SUBSET {} = {{}}
  OBVIOUS
<1>2. SumsUp(f, {}, g)
  BY <1>1 DEF SumsUp
<1> HIDE DEF g
<1>3. PICK h : SumsUp(f, {}, h) /\ SumOver(f, {}) = h[{}]
  BY <1>2, SumIsFold
<1>4. {} \in SUBSET {}
  OBVIOUS
<1>5. h[{}] = 0
  BY <1>3, <1>4 DEF SumsUp
<1> QED
  BY <1>3, <1>5

(* The sum over two elements, or twice the same one. *)
LEMMA SumOfTwo ==
    ASSUME NEW f, NEW p, NEW q, f[p] \in Nat, f[q] \in Nat
    PROVE  SumOver(f, {p, q}) = IF p = q THEN f[p] ELSE f[p] + f[q]
<1> DEFINE S == {p, q}
           total == IF p = q THEN f[p] ELSE f[p] + f[q]
           g == [s \in SUBSET S |-> IF s = {} THEN 0
                                    ELSE IF s = S THEN total
                                    ELSE f[First(s)]]
<1>1. ASSUME NEW s \in SUBSET S, s # {}
      PROVE  /\ First(s) \in s
             /\ s = S => First(s) \in {p, q}
             /\ s # S => s = {First(s)} /\ s \ {First(s)} = {} /\ p # q
  BY <1>1 DEF First
<1>2. S # {} /\ {} \in SUBSET S
  OBVIOUS
<1>3. ASSUME NEW s \in SUBSET S
      PROVE  g[s] = IF s = {} THEN 0 ELSE f[First(s)] + g[s \ {First(s)}]
  <2>1. CASE s = {}
    BY <2>1
  <2>2. CASE s # {} /\ s # S
    <3>1. s \ {First(s)} = {} /\ g[{}] = 0 /\ First(s) \in {p, q}
      BY <1>1, <1>2, <2>2
    <3>2. g[s] = f[First(s)]
      BY <2>2
    <3>3. f[First(s)] + 0 = f[First(s)]
      BY <3>1
    <3> HIDE DEF g
    <3> QED
      BY <2>2, <3>1, <3>2, <3>3
  <2>3. CASE s = S
    <3>1. First(S) \in {p, q} /\ g[S] = total
      BY <1>1, <1>2, <2>3
    <3>2. CASE p = q
      <4>1. S \ {First(S)} = {} /\ g[{}] = 0 /\ total = f[p] /\ First(S) = p
        BY <1>2, <3>1, <3>2
      <4> HIDE DEF g, total
      <4> QED
        BY <1>2, <2>3, <3>1, <4>1
    <3>3. CASE p # q
      <4>1. PICK r \in {p, q} : S \ {First(S)} = {r} /\ r # First(S)
        BY <3>1, <3>3
      <4>2. g[{r}] = f[r]
        <5>1. {r} # {} /\ {r} # S /\ {r} \in SUBSET S
          BY <3>3
        <5>2. First({r}) = r
          BY DEF First
        <5> QED
          BY <5>1, <5>2
      <4>3. f[First(S)] + f[r] = total
        BY <3>1, <3>3, <4>1
      <4> HIDE DEF g, total
      <4> QED
        BY <1>2, <2>3, <3>1, <4>1, <4>2, <4>3
    <3> QED
      BY <3>2, <3>3
  <2> QED
    BY <2>1, <2>2, <2>3
<1>4. SumsUp(f, S, g)
  <2>1. g = [s \in SUBSET S |-> g[s]]
    OBVIOUS
  <2> HIDE DEF g
  <2>2. [s \in SUBSET S |-> g[s]]
          = [s \in SUBSET S |-> IF s = {} THEN 0 ELSE f[First(s)] + g[s \ {First(s)}]]
    BY <1>3
  <2> QED
    BY <2>1, <2>2 DEF SumsUp
<1>5. PICK h : SumsUp(f, S, h) /\ SumOver(f, S) = h[S]
  BY <1>4, SumIsFold
<1> HIDE DEF g
<1>6. /\ h[S] = f[First(S)] + h[S \ {First(S)}] /\ First(S) \in S
      /\ h[{}] = 0
      /\ \A r \in S : h[{r}] = f[r] + h[{r} \ {r}]
  <2>1. \A s \in SUBSET S : h[s] = IF s = {} THEN 0 ELSE f[First(s)] + h[s \ {First(s)}]
    BY <1>5 DEF SumsUp
  <2>2. \A r \in S : First({r}) = r /\ {r} \in SUBSET S /\ {r} # {}
    BY DEF First
  <2>3. S \in SUBSET S /\ First(S) \in S
    BY <1>1, <1>2
  <2> HIDE DEF S
  <2>4. h[S] = f[First(S)] + h[S \ {First(S)}] /\ h[{}] = 0
    BY <1>2, <2>1, <2>3
  <2>5. \A r \in S : h[{r}] = f[r] + h[{r} \ {r}]
    BY <2>1, <2>2
  <2> QED
    BY <2>3, <2>4, <2>5
<1>7. h[{p}] = f[p] /\ h[{q}] = f[q]
  <2>1. {p} \ {p} = {} /\ {q} \ {q} = {}
    OBVIOUS
  <2>2. h[{p}] = f[p] + h[{}] /\ h[{q}] = f[q] + h[{}]
    BY <1>6, <2>1
  <2> QED
    BY <1>6, <2>2
<1>8. CASE p = q
  <2>1. S = {p}
    BY <1>8
  <2> QED
    BY <1>5, <1>7, <1>8, <2>1
<1>9. CASE p # q
  <2>1. CASE First(S) = p
    <3>1. S \ {First(S)} = {q}
      BY <1>9, <2>1
    <3> QED
      BY <1>5, <1>6, <1>7, <1>9, <2>1, <3>1
  <2>2. CASE First(S) = q
    <3>1. S \ {First(S)} = {p}
      BY <1>9, <2>2
    <3>2. SumOver(f, S) = f[q] + f[p]
      BY <1>5, <1>6, <1>7, <2>2, <3>1
    <3> QED
      BY <1>9, <3>2
  <2> QED
    BY <1>6, <2>1, <2>2
<1> QED
  BY <1>8, <1>9

(* The orders of one proposal never execute more than it asked for: the    *)
(* second phase is sized by what the first one, which is over, has left    *)
(* (TBD-11).  One late request cannot break that, whichever order it is    *)
(* taken for.                                                              *)
THEOREM ProposalsFit == Spec => []NoOverfill
<1>1. ExecutorInvariant => NoOverfill
  <2> SUFFICES ASSUME ExecutorInvariant, late <= 1, NEW p \in Ids
               PROVE  MapThenSumSet(LAMBDA i : done[i],
                                    {i \in Ids : form[i].plan = p}) <= form[p].size
    BY DEF NoOverfill, NeverOverfilled
  <2>a. TypeOK /\ ExchangeInOrder /\ PhasesFit
    BY DEF ExecutorInvariant
  <2> DEFINE members == {i \in Ids : form[i].plan = p}
  <2>b. /\ \A i \in Ids : done[i] \in Nat /\ form[i].size \in Nat /\ done[i] <= form[i].size
        /\ p \notin {0} /\ SumOver(done, members) = MapThenSumSet(LAMBDA i : done[i], members)
    BY <2>a, ConstantsTyped DEF TypeOK, Form, ExchangeInOrder, Ids, SumOver
  <2>1. CASE \E q \in Ids \ {p} : form[q].plan = p
    <3>1. PICK q \in Ids \ {p} : form[q].plan = p
      BY <2>1
    <3>2. /\ form[p].plan = p /\ Leaves(p, form[q].size)
          /\ \A k \in Ids : form[k].plan = p => k \in {p, q}
      BY <2>a, <3>1 DEF PhasesFit
    <3>3. members = {p, q}
      BY <3>1, <3>2
    <3>4. SumOver(done, {p, q}) = done[p] + done[q]
      BY <2>b, <3>1, SumOfTwo
    <3>5. done[p] + form[q].size <= form[p].size
      BY <3>2 DEF Leaves
    <3>6. done[p] + done[q] <= form[p].size
      BY <2>b, <3>1, <3>5
    <3> QED
      BY <2>b, <3>3, <3>4, <3>6
  <2>2. CASE form[p].plan = p /\ ~\E q \in Ids \ {p} : form[q].plan = p
    <3>1. members = {p, p}
      BY <2>2
    <3>2. SumOver(done, {p, p}) = done[p]
      BY <2>b, SumOfTwo
    <3> QED
      BY <2>b, <3>1, <3>2
  <2>3. CASE form[p].plan # p /\ ~\E q \in Ids \ {p} : form[q].plan = p
    <3>1. members = {}
      BY <2>3
    <3>2. SumOver(done, {}) = 0
      BY SumOfNone
    <3> QED
      BY <2>b, <3>1, <3>2
  <2> QED
    BY <2>1, <2>2, <2>3
<1> QED
  BY <1>1, RoundsInOrder, PTL

(***************************************************************************)
(* The executor implements the life of the intents.                        *)
(***************************************************************************)
Owner == [o \in Ids |-> IF Unmapped(o) THEN 0 ELSE CHOOSE i \in Ids : ordOf[i] = o]

(* An order number belongs to the intent it is mapped to. *)
LEMMA OwnerIs ==
    ASSUME TypeOK, LedgerInOrder, NEW o \in Ids
    PROVE  /\ Unmapped(o) => Owner[o] = 0
           /\ \A i \in Ids : ordOf[i] = o => Owner[o] = i
<1>1. ASSUME NEW i \in Ids, ordOf[i] = o PROVE Owner[o] = i
  <2>1. o # 0
    BY ConstantsTyped DEF Ids
  <2>2. \A k \in Ids : ordOf[k] = o => k = i
    BY <1>1, <2>1 DEF LedgerInOrder
  <2>3. (CHOOSE k \in Ids : ordOf[k] = o) = i
    BY <1>1, <2>2
  <2> QED
    BY <1>1, <2>3 DEF Owner, Unmapped
<1> QED
  BY <1>1 DEF Owner

(* One intent moves along the table of the domain. *)
LEMMA MoveIs ==
    ASSUME TypeOK, NEW i \in Ids, NEW target, st' = [st EXCEPT ![i] = target],
           target \in Allowed(st[i]) \ {"ACCEPTED"},
           target = "SENDING" => InFlight = {}, UNCHANGED ordOf
    PROVE  Lifecycle!Next
<1>1. Owner' = Owner
  BY DEF Owner, Unmapped
<1>2. target = "SENDING" => Lifecycle!Idle([k \in Ids |-> "symbol"][i])
  BY DEF Lifecycle!Idle, InFlight, InFlightStates, Lifecycle!InFlightStates
<1>3. Lifecycle!Move(i, target)
  BY <1>1, <1>2 DEF Lifecycle!Move, Owner, TypeOK, Allowed, Lifecycle!Allowed, SendOutcome,
     Lifecycle!SendOutcome
<1>4. target \in Lifecycle!Allowed(st[i])
  BY DEF Allowed, Lifecycle!Allowed, SendOutcome, Lifecycle!SendOutcome
<1> QED
  BY <1>3, <1>4 DEF Lifecycle!Next

(* One intent is accepted under a number that belonged to nobody. *)
LEMMA AcceptIs ==
    ASSUME TypeOK, LedgerInOrder, LedgerInOrder', TypeOK', NEW i \in Ids, NEW j \in Ids,
           st[i] \in {"SENDING", "SEND_TIMEOUT"}, Unmapped(j),
           st' = [st EXCEPT ![i] = "ACCEPTED"], ordOf' = [ordOf EXCEPT ![i] = j]
    PROVE  Lifecycle!Next
<1>1. /\ ordOf[i] = 0 /\ ordOf'[i] = j
      /\ \A k \in Ids : k # i => ordOf'[k] = ordOf[k]
  BY DEF TypeOK, LedgerInOrder
<1>2. ASSUME NEW o \in Ids PROVE Owner'[o] = [Owner EXCEPT ![j] = i][o]
  <2>1. o # 0 /\ Ids' = Ids
    BY ConstantsTyped DEF Ids
  <2>2. /\ Unmapped(o)' => Owner'[o] = 0
        /\ \A k \in Ids : ordOf'[k] = o => Owner'[o] = k
    <3>1. \A k, l \in Ids : ordOf'[k] = o /\ ordOf'[l] = o => k = l
      BY <2>1 DEF LedgerInOrder
    <3>2. Owner' = [x \in Ids |-> IF Unmapped(x)' THEN 0 ELSE CHOOSE k \in Ids : ordOf'[k] = x]
      BY DEF Owner
    <3>3. ASSUME NEW k \in Ids, ordOf'[k] = o PROVE Owner'[o] = k
      <4>1. (CHOOSE l \in Ids : ordOf'[l] = o) = k
        BY <3>1, <3>3
      <4> QED
        BY <3>2, <3>3, <4>1 DEF Unmapped
    <3> QED
      BY <3>2, <3>3
  <2>3. CASE o = j
    BY <1>1, <2>2, <2>3 DEF Owner
  <2>4. CASE o # j
    <3>1. CASE Unmapped(o)
      <4>1. Unmapped(o)'
        BY <1>1, <2>4, <3>1 DEF Unmapped
      <4> QED
        BY <2>2, <2>4, <3>1, <4>1, OwnerIs DEF Owner
    <3>2. CASE ~Unmapped(o)
      <4>1. PICK k \in Ids : ordOf[k] = o
        BY <3>2 DEF Unmapped
      <4>2. ordOf'[k] = o
        BY <1>1, <2>1, <4>1
      <4> QED
        BY <2>2, <2>4, <4>1, <4>2, OwnerIs DEF Owner
    <3> QED
      BY <3>1, <3>2
  <2> QED
    BY <2>3, <2>4
<1>3. Owner' = [Owner EXCEPT ![j] = i]
  <2>1. Owner' = [o \in Ids |-> Owner'[o]]
    BY DEF Owner
  <2>2. [Owner EXCEPT ![j] = i] = [o \in Ids |-> [Owner EXCEPT ![j] = i][o]]
    <3>1. DOMAIN Owner = Ids
      BY DEF Owner
    <3> QED
      BY <3>1
  <2> QED
    BY <1>2, <2>1, <2>2
<1>4. Owner[j] = 0
  BY OwnerIs
<1>5. Lifecycle!Accept(i, j)
  BY <1>3, <1>4 DEF Lifecycle!Accept, Owner, TypeOK, Lifecycle!Allowed, Lifecycle!SendOutcome
<1> QED
  BY <1>5 DEF Lifecycle!Next

(* Every step of the rounds is a legal step of the intents, or none. *)
LEMMA StepsAreLegal ==
    ASSUME ExecutorInvariant, [Next]_vars
    PROVE  Lifecycle!Next \/ UNCHANGED <<st, Owner>>
<1>a. TypeOK /\ LedgerInOrder /\ ExchangeInOrder /\ StateByPlace /\ PlanByPlace /\ OneInFlight
  BY DEF ExecutorInvariant
<1>b. LedgerInOrder' /\ TypeOK'
  BY LedgerKept, TypesKept
<1> USE <1>a, <1>b
<1>1. CASE UNCHANGED <<st, ordOf>>
  BY <1>1 DEF Owner, Unmapped
<1>2. CASE Recording
  <2>1. PICK r \in Form : NewForm(r)
    BY <1>2, RecordStep DEF Recording
  <2>2. /\ NextId \in Ids /\ st' = [st EXCEPT ![NextId] = "RECORDED"] /\ ordOf' = ordOf
        /\ st[NextId] = "ABSENT"
    BY <2>1 DEF NewForm
  <2>3. "RECORDED" \in Allowed(st[NextId]) \ {"ACCEPTED"}
    BY <2>2 DEF Allowed
  <2> QED
    BY <2>2, <2>3, MoveIs
<1>3. CASE MarkInterrupted
  <2>1. PICK i \in Ids : st[i] = "SENDING" /\ st' = [st EXCEPT ![i] = "SEND_TIMEOUT"]
    BY <1>3 DEF MarkInterrupted
  <2>2. "SEND_TIMEOUT" \in Allowed(st[i]) \ {"ACCEPTED"} /\ ordOf' = ordOf
    BY <1>3, <2>1 DEF Allowed, SendOutcome, MarkInterrupted
  <2> QED
    BY <2>1, <2>2, MoveIs
<1>4. CASE Decide
  <2>1. cur \in Ids /\ st[cur] = "SEND_TIMEOUT" /\ pc = "readExecutions"
    BY <1>4 DEF Decide, StateByPlace, Resolving
  <2>2. ASSUME NEW j \in Candidates(cur), st' = [st EXCEPT ![cur] = "ACCEPTED"],
               ordOf' = [ordOf EXCEPT ![cur] = j]
        PROVE  Lifecycle!Next
    <3>1. j \in Ids /\ Unmapped(j)
      BY DEF Candidates
    <3> QED
      BY <2>1, <2>2, <3>1, AcceptIs
  <2>3. CASE st' = [st EXCEPT ![cur] = "FAILED"] /\ UNCHANGED <<ordOf, form>>
    <3>1. "FAILED" \in Allowed(st[cur]) \ {"ACCEPTED"}
      BY <2>1 DEF Allowed
    <3> QED
      BY <2>1, <2>3, <3>1, MoveIs
  <2> QED
    BY <1>1, <1>4, <2>2, <2>3 DEF Decide, ledger
<1>5. CASE GateReject
  <2>1. /\ cur \in Ids /\ st[cur] = "RECORDED" /\ ordOf' = ordOf
        /\ st' = [st EXCEPT ![cur] = "GATE_REJECTED"]
    BY <1>5 DEF GateReject, StateByPlace
  <2>2. "GATE_REJECTED" \in Allowed(st[cur]) \ {"ACCEPTED"}
    BY <2>1 DEF Allowed
  <2> QED
    BY <2>1, <2>2, MoveIs
<1>6. CASE BeginSend \/ FlattenBegin
  <2>1. /\ cur \in Ids /\ st[cur] = "RECORDED" /\ ordOf' = ordOf
        /\ \/ InFlight = {} /\ st' = [st EXCEPT ![cur] = "SENDING"]
           \/ UNCHANGED st
    BY <1>6 DEF BeginSend, FlattenBegin, StateByPlace
  <2>2. "SENDING" \in Allowed(st[cur]) \ {"ACCEPTED"}
    BY <2>1 DEF Allowed
  <2> QED
    BY <1>1, <2>1, <2>2, MoveIs
<1>7. CASE Sending
  <2>1. /\ cur \in Ids /\ st[cur] = "SENDING"
        /\ \/ /\ st' = [st EXCEPT ![cur] = "ACCEPTED"]
              /\ ordOf' = [ordOf EXCEPT ![cur] = cur]
           \/ /\ \/ st' = [st EXCEPT ![cur] = "REJECTED"]
                 \/ st' = [st EXCEPT ![cur] = "SEND_TIMEOUT"]
              /\ ordOf' = ordOf
    BY <1>7 DEF Sending, SendAccepted, SendRefused, SendTimesOut, FlattenSend, StateByPlace
  <2>2. Unmapped(cur)
    <3>1. cur # 0
      BY <2>1, ConstantsTyped DEF Ids
    <3> QED
      BY <2>1, <3>1, MappedOrders DEF Unmapped
  <2>3. /\ "REJECTED" \in Allowed(st[cur]) \ {"ACCEPTED"}
        /\ "SEND_TIMEOUT" \in Allowed(st[cur]) \ {"ACCEPTED"}
    BY <2>1 DEF Allowed, SendOutcome
  <2>4. CASE /\ st' = [st EXCEPT ![cur] = "ACCEPTED"]
             /\ ordOf' = [ordOf EXCEPT ![cur] = cur]
    BY <2>1, <2>2, <2>4, AcceptIs
  <2>5. CASE st' = [st EXCEPT ![cur] = "REJECTED"] /\ ordOf' = ordOf
    BY <2>1, <2>3, <2>5, MoveIs
  <2>6. CASE st' = [st EXCEPT ![cur] = "SEND_TIMEOUT"] /\ ordOf' = ordOf
    BY <2>1, <2>3, <2>6, MoveIs
  <2> QED
    BY <2>1, <2>4, <2>5, <2>6
<1>8. CASE Cancel \/ CancelAll \/ Kill \/ Exchange
  BY <1>1, <1>8 DEF Cancel, CancelAll, Kill, Exchange, Land, Fill, Close, ledger
<1> QED
  BY <1>1, <1>2, <1>3, <1>4, <1>5, <1>6, <1>7, <1>8, QuietSteps DEF Moving, ledger

(* The rows of the executor are legal in the abstract life of the intents: *)
(* whatever is killed, late or mistaken, the ledger never has to refuse a  *)
(* row of a send, of a recovery or of a flatten.                           *)
THEOREM RowsAreLegal == Spec => ImplementsLifecycle
<1>1. Init => Lifecycle!Init
  <2> SUFFICES ASSUME Init PROVE Lifecycle!Init
    OBVIOUS
  <2>1. \A o \in Ids : Unmapped(o)
    BY ConstantsTyped DEF Init, Unmapped, Ids
  <2>2. Owner = [o \in Ids |-> 0]
    BY <2>1 DEF Owner
  <2> QED
    BY <2>2 DEF Init, Lifecycle!Init, Owner
<1>2. ExecutorInvariant /\ [Next]_vars => [Lifecycle!Next]_<<st, Owner>>
  BY StepsAreLegal
<1> QED
  BY <1>1, <1>2, RoundsInOrder, PTL DEF Spec, ImplementsLifecycle, Lifecycle!Spec, Owner

=============================================================================
