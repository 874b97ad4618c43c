------------------------- MODULE SharedRoundsProofs -------------------------
(***************************************************************************)
(* Proofs about SharedRounds for any number of overlapping rounds and any  *)
(* assignment of symbols to them.                                          *)
(***************************************************************************)
EXTENDS SharedRounds, FiniteSetTheorems, WellFoundedInduction, TLAPS

(* The state names the actions write are states of the ledger. *)
LEMMA StatesTyped ==
           /\ {"ABSENT", "SENDING", "SEND_TIMEOUT", "ACCEPTED", "REJECTED",
               "FAILED", "GATE_REJECTED"} \subseteq EntryState
           /\ \A i : Verdict(i) \in EntryState /\ Verdict(i) # "ABSENT"
           /\ Sent \subseteq EntryState \ {"ABSENT"}
BY DEF EntryState, IntentState, Verdict, Sent

(* What the assumptions give: bounds are numbers, rounds have a symbol. *)
LEMMA ConstantsTyped ==
           /\ MaxIntents \in Nat
           /\ \A p \in Rounds : SymbolOf[p] \in Symbols
BY BoundAssumption DEF Symbols

(***************************************************************************)
(* What the two shared pieces of the actions do to the types.              *)
(***************************************************************************)
(* A row appended to the file and to the copy of its writer. *)
LEMMA AppendTyped ==
    ASSUME TypeOK, NEW p \in Rounds, NEW i, NEW source, NEW target \in EntryState,
           Append(p, i, source, target)
    PROVE  /\ rows' \in [Ids -> EntryState]
           /\ broken' \in BOOLEAN
           /\ ledger' \in [Rounds -> [Ids -> EntryState]]
<1>1. rows' \in [Ids -> EntryState]
  BY DEF TypeOK, Append
<1>2. broken' \in BOOLEAN
  BY DEF TypeOK, Append
<1>3. ledger' \in [Rounds -> [Ids -> EntryState]]
  BY DEF TypeOK, Append
<1> QED
  BY <1>1, <1>2, <1>3

(* A usage row adds one to the count of an intent, known or not. *)
LEMMA RowAdded ==
    ASSUME NEW f \in [Ids -> Nat], NEW i
    PROVE  [f EXCEPT ![i] = @ + 1] \in [Ids -> Nat]
<1> DEFINE g == [f EXCEPT ![i] = @ + 1]
<1>1. DOMAIN g = Ids /\ g = [j \in Ids |-> g[j]]
  OBVIOUS
<1>2. ASSUME NEW j \in Ids PROVE g[j] \in Nat
  <2>1. f[j] \in Nat /\ f[j] + 1 \in Nat
    OBVIOUS
  <2>2. g[j] = IF j = i THEN f[j] + 1 ELSE f[j]
    BY Zenon
  <2> QED
    BY <2>1, <2>2
<1> HIDE DEF g
<1>3. g \in [Ids -> Nat]
  BY <1>1, <1>2
<1> QED
  BY <1>3 DEF g

(* The end of a round: its memory is empty, its lock is free. *)
LEMMA EndTyped ==
    ASSUME TypeOK, NEW p \in Rounds, End(p)
    PROVE  /\ pc' = [pc EXCEPT ![p] = "down"]
           /\ lock' \in [Symbols -> SUBSET Rounds]
           /\ ledger' \in [Rounds -> [Ids -> EntryState]]
           /\ counted' \in [Rounds -> [Ids -> Nat]]
           /\ marked' \in [Rounds -> SUBSET Ids]
           /\ cur' \in [Rounds -> {0} \cup Ids]
<1>1. lock' \in [Symbols -> SUBSET Rounds]
  BY DEF TypeOK, End
<1>2. AllAbsent \in [Ids -> EntryState] /\ NoUsage \in [Ids -> Nat]
  BY StatesTyped DEF AllAbsent, NoUsage
<1>3. ledger' \in [Rounds -> [Ids -> EntryState]]
  BY <1>2 DEF TypeOK, End
<1>4. counted' \in [Rounds -> [Ids -> Nat]]
  BY <1>2 DEF TypeOK, End
<1> QED
  BY <1>1, <1>3, <1>4 DEF TypeOK, End, Goto

(***************************************************************************)
(* The types are kept by every action.                                     *)
(***************************************************************************)
THEOREM SendersTyped == Spec => [](TypeOK /\ SenderHasIntent)
<1>1. Init => TypeOK /\ SenderHasIntent
  <2> SUFFICES ASSUME Init PROVE TypeOK /\ SenderHasIntent
    OBVIOUS
  <2>1. AllAbsent \in [Ids -> EntryState] /\ NoUsage \in [Ids -> Nat]
    BY StatesTyped DEF AllAbsent, NoUsage
  <2>2. /\ rows \in [Ids -> EntryState] /\ usage \in [Ids -> Nat]
        /\ ledger \in [Rounds -> [Ids -> EntryState]]
        /\ counted \in [Rounds -> [Ids -> Nat]]
    BY <2>1 DEF Init
  <2>3. TypeOK
    BY <2>2 DEF Init, TypeOK
  <2> QED
    BY <2>3 DEF Init, SenderHasIntent
<1>2. TypeOK /\ SenderHasIntent /\ [Next]_vars => TypeOK'
  <2> SUFFICES ASSUME TypeOK, SenderHasIntent, [Next]_vars
               PROVE  TypeOK'
    OBVIOUS
  <2> USE StatesTyped, ConstantsTyped
  <2>0. CASE UNCHANGED vars
    BY <2>0 DEF TypeOK, vars, files, memory
  <2>1. ASSUME NEW p \in Rounds, Start(p) PROVE TypeOK'
    BY <2>1 DEF TypeOK, Start, Goto, files
  <2>2. ASSUME NEW p \in Rounds, Refuse(p) PROVE TypeOK'
    BY <2>2 DEF TypeOK, Refuse, vars, files, memory
  <2>3. ASSUME NEW p \in Rounds, LoadLedger(p) PROVE TypeOK'
    <3>1. CASE broken
      BY <2>3, <3>1, EndTyped DEF TypeOK, LoadLedger, files
    <3>2. CASE ~broken
      BY <2>3, <3>2 DEF TypeOK, LoadLedger, Goto, files, Loaded
    <3> QED
      BY <3>1, <3>2
  <2>4. ASSUME NEW p \in Rounds, CountMissing(p) PROVE TypeOK'
    <3>1. usage' \in [Ids -> Nat]
      BY <2>4 DEF TypeOK, CountMissing
    <3>2. counted' \in [Rounds -> [Ids -> Nat]]
      BY <2>4 DEF TypeOK, CountMissing
    <3> QED
      BY <2>4, <3>1, <3>2 DEF TypeOK, CountMissing, Goto
  <2>5. ASSUME NEW p \in Rounds, MarkInterrupted(p) PROVE TypeOK'
    <3> PICK i \in Unresolved(p) :
            /\ Append(p, i, "SENDING", "SEND_TIMEOUT")
            /\ marked' = [marked EXCEPT ![p] = @ \cup {i}]
      BY <2>5 DEF MarkInterrupted
    <3>1. marked' \in [Rounds -> SUBSET Ids]
      BY DEF TypeOK, Unresolved
    <3> QED
      BY <2>5, <3>1, AppendTyped DEF TypeOK, MarkInterrupted
  <2>6. ASSUME NEW p \in Rounds, AllMarked(p) PROVE TypeOK'
    BY <2>6 DEF TypeOK, AllMarked, Goto, files, memory
  <2>7. ASSUME NEW p \in Rounds, ResolveInterrupted(p) PROVE TypeOK'
    <3> PICK i \in marked[p] :
            /\ Append(p, i, "SEND_TIMEOUT", Verdict(i))
            /\ marked' = [marked EXCEPT ![p] = @ \ {i}]
      BY <2>7 DEF ResolveInterrupted
    <3>1. marked' \in [Rounds -> SUBSET Ids]
      BY DEF TypeOK
    <3> QED
      BY <2>7, <3>1, AppendTyped DEF TypeOK, ResolveInterrupted
  <2>8. ASSUME NEW p \in Rounds, Recovered(p) PROVE TypeOK'
    BY <2>8 DEF TypeOK, Recovered, Goto, files, memory
  <2>9. ASSUME NEW p \in Rounds, NoWriteRound(p) PROVE TypeOK'
    BY <2>9, EndTyped DEF TypeOK, NoWriteRound, SaveLoaded
  <2>10. ASSUME NEW p \in Rounds, Trip(p) PROVE TypeOK'
    BY <2>10 DEF TypeOK, Trip, Goto, memory
  <2>11. ASSUME NEW p \in Rounds, TripEnds(p) PROVE TypeOK'
    BY <2>11, EndTyped DEF TypeOK, TripEnds, SaveTripped
  <2>12. ASSUME NEW p \in Rounds, Allow(p) PROVE TypeOK'
    BY <2>12 DEF TypeOK, Allow, SaveLoaded, Goto, Sides, memory
  <2>13. ASSUME NEW p \in Rounds, GateReject(p) PROVE TypeOK'
    <3> PICK i \in Fresh :
            Record(i, p) /\ Append(p, i, "ABSENT", "GATE_REJECTED")
      BY <2>13 DEF GateReject
    <3>1. /\ symbol' \in [Ids -> Symbols \cup {NoSymbol}]
          /\ sells' \subseteq Ids
          /\ cur' \in [Rounds -> {0} \cup Ids]
      BY DEF TypeOK, Record, Fresh
    <3> QED
      BY <2>13, <3>1, AppendTyped DEF TypeOK, GateReject, Goto
  <2>14. ASSUME NEW p \in Rounds, BeginSend(p) PROVE TypeOK'
    <3> PICK i \in Fresh :
            Record(i, p) /\ Append(p, i, "ABSENT", "SENDING")
      BY <2>14 DEF BeginSend
    <3>1. /\ symbol' \in [Ids -> Symbols \cup {NoSymbol}]
          /\ sells' \subseteq Ids
          /\ cur' \in [Rounds -> {0} \cup Ids]
      BY DEF TypeOK, Record, Fresh
    <3>2. lock' \in [Symbols -> SUBSET Rounds]
      BY <2>14 DEF TypeOK, BeginSend
    <3> QED
      BY <2>14, <3>1, <3>2, AppendTyped DEF TypeOK, BeginSend, Goto
  <2>15. ASSUME NEW p \in Rounds, Land(p) PROVE TypeOK'
    BY <2>15 DEF TypeOK, SenderHasIntent, Land, files, memory
  <2>16. ASSUME NEW p \in Rounds, Reply(p) PROVE TypeOK'
    <3> PICK target \in {"SEND_TIMEOUT",
                         IF cur[p] \in landed THEN "ACCEPTED" ELSE "REJECTED"} :
            Append(p, cur[p], "SENDING", target)
      BY <2>16 DEF Reply
    <3>1. target \in EntryState
      OBVIOUS
    <3>2. lock' \in [Symbols -> SUBSET Rounds]
      BY <2>16 DEF TypeOK, Reply
    <3> QED
      BY <2>16, <3>1, <3>2, AppendTyped DEF TypeOK, Reply, Goto
  <2>17. ASSUME NEW p \in Rounds, CountUsage(p) PROVE TypeOK'
    <3>1. usage' \in [Ids -> Nat]
      BY <2>17, RowAdded DEF TypeOK, CountUsage
    <3>2. counted' \in [Rounds -> [Ids -> Nat]]
      <4>1. [counted[p] EXCEPT ![cur[p]] = @ + 1] \in [Ids -> Nat]
        BY RowAdded DEF TypeOK
      <4> QED
        BY <2>17, <4>1 DEF TypeOK, CountUsage
    <3> QED
      BY <2>17, <3>1, <3>2 DEF TypeOK, CountUsage, Goto
  <2>18. ASSUME NEW p \in Rounds, Settle(p) PROVE TypeOK'
    BY <2>18, AppendTyped DEF TypeOK, Settle, Goto
  <2>19. ASSUME NEW p \in Rounds, Finish(p) PROVE TypeOK'
    BY <2>19, EndTyped DEF TypeOK, Finish, SaveLoaded
  <2>20. ASSUME NEW p \in Rounds, Kill(p) PROVE TypeOK'
    BY <2>20, EndTyped DEF TypeOK, Kill, files
  <2> QED
    BY <2>0, <2>1, <2>2, <2>3, <2>4, <2>5, <2>6, <2>7, <2>8, <2>9, <2>10, <2>11,
       <2>12, <2>13, <2>14, <2>15, <2>16, <2>17, <2>18, <2>19, <2>20 DEF Next
<1>3. TypeOK /\ SenderHasIntent /\ [Next]_vars => SenderHasIntent'
  <2> SUFFICES ASSUME TypeOK, SenderHasIntent, [Next]_vars,
                      NEW q \in Rounds, pc'[q] = "sending"
               PROVE  cur'[q] \in Ids
    BY DEF SenderHasIntent
  <2>1. CASE UNCHANGED <<pc, cur>>
    BY <2>1 DEF SenderHasIntent
  <2>2. ASSUME NEW p \in Rounds, BeginSend(p) PROVE cur'[q] \in Ids
    BY <2>2 DEF TypeOK, SenderHasIntent, BeginSend, Goto, Record, Fresh
  <2>3. ASSUME NEW p \in Rounds, GateReject(p) PROVE cur'[q] \in Ids
    BY <2>3 DEF TypeOK, SenderHasIntent, GateReject, Goto, Record, Fresh
  <2>4. ASSUME NEW p \in Rounds, End(p) PROVE cur'[q] \in Ids
    BY <2>4 DEF TypeOK, SenderHasIntent, End, Goto
  <2>5. ASSUME NEW p \in Rounds, NEW l, l # "sending", Goto(p, l), UNCHANGED cur
        PROVE  cur'[q] \in Ids
    BY <2>5 DEF TypeOK, SenderHasIntent, Goto
  <2>6. ASSUME NEW p \in Rounds, Start(p) \/ LoadLedger(p) \/ CountMissing(p)
                                  \/ AllMarked(p) \/ Recovered(p)
        PROVE  cur'[q] \in Ids
    BY <2>4, <2>5, <2>6 DEF Start, LoadLedger, CountMissing, AllMarked, Recovered,
                            memory
  <2>7. ASSUME NEW p \in Rounds, NoWriteRound(p) \/ Trip(p) \/ TripEnds(p)
                                  \/ Allow(p) \/ Finish(p) \/ Kill(p)
        PROVE  cur'[q] \in Ids
    BY <2>4, <2>5, <2>7 DEF NoWriteRound, Trip, TripEnds, Allow, Finish, Kill, Sides,
                            memory
  <2>8. ASSUME NEW p \in Rounds, Reply(p) \/ CountUsage(p) \/ Settle(p)
        PROVE  cur'[q] \in Ids
    <3>1. (IF ledger[p][cur[p]] = "SEND_TIMEOUT" THEN "settle" ELSE "finish")
             # "sending"
      OBVIOUS
    <3> QED
      BY <2>5, <2>8, <3>1 DEF Reply, CountUsage, Settle
  <2>9. ASSUME NEW p \in Rounds, Refuse(p) \/ MarkInterrupted(p)
                                  \/ ResolveInterrupted(p) \/ Land(p)
        PROVE  cur'[q] \in Ids
    BY <2>1, <2>9 DEF Refuse, MarkInterrupted, ResolveInterrupted, Land, vars, memory
  <2> QED
    BY <2>1, <2>2, <2>3, <2>6, <2>7, <2>8, <2>9 DEF Next, vars, memory
<1> QED
  BY <1>1, <1>2, <1>3, PTL DEF Spec

(* The types of the whole state, for any number of rounds and symbols.     *)
THEOREM RoundsTyped == Spec => []TypeOK
BY SendersTyped, PTL

(***************************************************************************)
(* The lock of a symbol excludes every other sender of the symbol, however *)
(* many rounds of it overlap and wherever they are killed.                 *)
(***************************************************************************)
LEMMA SenderAlone ==
    TypeOK /\ SenderHoldsLock /\ [Next]_vars => SenderHoldsLock'
<1> SUFFICES ASSUME TypeOK, SenderHoldsLock, [Next]_vars,
                    NEW q \in Rounds, pc'[q] = "sending"
             PROVE  lock'[SymbolOf[q]] = {q}
  BY DEF SenderHoldsLock
<1> USE ConstantsTyped
<1>1. CASE UNCHANGED <<pc, lock>>
  BY <1>1 DEF SenderHoldsLock
<1>2. ASSUME NEW p \in Rounds, BeginSend(p) PROVE lock'[SymbolOf[q]] = {q}
  <2>1. lock[SymbolOf[p]] = {} /\ lock' = [lock EXCEPT ![SymbolOf[p]] = @ \cup {p}]
    BY <1>2 DEF BeginSend, LockFree
  <2>2. CASE q = p
    BY <2>1, <2>2 DEF TypeOK
  <2>3. CASE q # p
    <3>1. lock[SymbolOf[q]] = {q}
      BY <1>2, <2>3 DEF TypeOK, SenderHoldsLock, BeginSend, Goto
    <3> QED
      BY <2>1, <3>1 DEF TypeOK
  <2> QED
    BY <2>2, <2>3
<1>3. ASSUME NEW p \in Rounds, Reply(p) PROVE lock'[SymbolOf[q]] = {q}
  <2>1. /\ lock' = [lock EXCEPT ![SymbolOf[p]] = @ \ {p}]
        /\ lock[SymbolOf[p]] = {p}
        /\ q # p /\ pc[q] = "sending"
    BY <1>3 DEF TypeOK, SenderHoldsLock, Reply, Goto
  <2>2. lock[SymbolOf[q]] = {q}
    BY <2>1 DEF SenderHoldsLock
  <2> QED
    BY <2>1, <2>2 DEF TypeOK
<1>4. ASSUME NEW p \in Rounds, End(p) PROVE lock'[SymbolOf[q]] = {q}
  <2>1. q # p /\ pc[q] = "sending" /\ lock' = [s \in Symbols |-> lock[s] \ {p}]
    BY <1>4 DEF TypeOK, End, Goto
  <2> QED
    BY <2>1 DEF TypeOK, SenderHoldsLock
<1>5. ASSUME NEW p \in Rounds, NEW l, l # "sending", Goto(p, l), UNCHANGED lock
      PROVE  lock'[SymbolOf[q]] = {q}
  BY <1>5 DEF TypeOK, SenderHoldsLock, Goto
<1>6. ASSUME NEW p \in Rounds, Start(p) \/ LoadLedger(p) \/ CountMissing(p)
                                \/ AllMarked(p) \/ Recovered(p) \/ GateReject(p)
      PROVE  lock'[SymbolOf[q]] = {q}
  BY <1>4, <1>5, <1>6 DEF Start, LoadLedger, CountMissing, AllMarked, Recovered,
                          GateReject
<1>7. ASSUME NEW p \in Rounds, NoWriteRound(p) \/ Trip(p) \/ TripEnds(p)
                                \/ Allow(p) \/ Finish(p) \/ Kill(p)
      PROVE  lock'[SymbolOf[q]] = {q}
  BY <1>4, <1>5, <1>7 DEF NoWriteRound, Trip, TripEnds, Allow, Finish, Kill, Sides
<1>8. ASSUME NEW p \in Rounds, CountUsage(p) \/ Settle(p)
      PROVE  lock'[SymbolOf[q]] = {q}
  <2>1. (IF ledger[p][cur[p]] = "SEND_TIMEOUT" THEN "settle" ELSE "finish")
           # "sending"
    OBVIOUS
  <2> QED
    BY <1>5, <1>8, <2>1 DEF CountUsage, Settle
<1>9. ASSUME NEW p \in Rounds, Refuse(p) \/ MarkInterrupted(p)
                                \/ ResolveInterrupted(p) \/ Land(p)
      PROVE  lock'[SymbolOf[q]] = {q}
  BY <1>1, <1>9 DEF Refuse, MarkInterrupted, ResolveInterrupted, Land, vars
<1> QED
  BY <1>1, <1>2, <1>3, <1>6, <1>7, <1>8, <1>9 DEF Next, vars

(* At most one request of a symbol is out, whichever rounds overlap: the   *)
(* property the run of two overlapping rounds checks.                      *)
THEOREM RoundsOneSender == Spec => []OneSenderPerSymbol
<1>1. Init => SenderHoldsLock
  BY DEF Init, SenderHoldsLock
<1>2. TypeOK /\ SenderHoldsLock => OneSenderPerSymbol
  <2> SUFFICES ASSUME SenderHoldsLock, NEW p \in Rounds, NEW q \in Rounds,
                      pc[p] = "sending", pc[q] = "sending",
                      SymbolOf[p] = SymbolOf[q]
               PROVE  p = q
    BY DEF OneSenderPerSymbol
  <2>1. {p} = {q}
    BY DEF SenderHoldsLock
  <2> QED
    BY <2>1
<1> QED
  BY <1>1, <1>2, RoundsTyped, SenderAlone, PTL DEF Spec

(***************************************************************************)
(* A round decides on an envelope that has the cost of every order its own *)
(* copy of the ledger shows.                                               *)
(***************************************************************************)
(* A round that another one steps beside keeps its memory. *)
Beside(q) ==
    /\ pc'[q] = pc[q] /\ ledger'[q] = ledger[q]
    /\ counted'[q] = counted[q] /\ marked'[q] = marked[q]

(* A step of one round leaves the memory of the others alone. *)
LEMMA StepBeside ==
    ASSUME TypeOK, [Next]_vars, NEW q \in Rounds
    PROVE  Beside(q) \/ \E p \in {q} :
               \/ Start(p) \/ Refuse(p) \/ LoadLedger(p) \/ CountMissing(p)
               \/ MarkInterrupted(p) \/ AllMarked(p) \/ ResolveInterrupted(p)
               \/ Recovered(p)
               \/ NoWriteRound(p) \/ Trip(p) \/ TripEnds(p) \/ Allow(p)
               \/ GateReject(p) \/ BeginSend(p) \/ Land(p) \/ Reply(p)
               \/ CountUsage(p) \/ Settle(p) \/ Finish(p) \/ Kill(p)
<1>1. CASE UNCHANGED vars
  BY <1>1 DEF vars, memory, Beside
<1>2. ASSUME NEW p \in Rounds, p # q, NEW i, NEW source, NEW target,
             Append(p, i, source, target)
      PROVE  ledger'[q] = ledger[q]
  BY <1>2 DEF TypeOK, Append
<1>3. ASSUME NEW p \in Rounds, p # q, NEW l, Goto(p, l)
      PROVE  pc'[q] = pc[q]
  BY <1>3 DEF TypeOK, Goto
<1>4. ASSUME NEW p \in Rounds, p # q, End(p)
      PROVE  Beside(q)
  BY <1>3, <1>4 DEF TypeOK, End, Beside
<1>5. ASSUME NEW p \in Rounds, p # q,
             \/ Start(p) \/ Refuse(p) \/ LoadLedger(p) \/ CountMissing(p)
             \/ AllMarked(p) \/ Recovered(p)
      PROVE  Beside(q)
  BY <1>3, <1>4, <1>5 DEF TypeOK, Start, Refuse, LoadLedger, CountMissing, AllMarked,
                          Recovered, Beside, vars, memory
<1>6. ASSUME NEW p \in Rounds, p # q, MarkInterrupted(p) \/ ResolveInterrupted(p)
      PROVE  Beside(q)
  BY <1>2, <1>6 DEF TypeOK, MarkInterrupted, ResolveInterrupted, Beside
<1>7. ASSUME NEW p \in Rounds, p # q,
             \/ NoWriteRound(p) \/ Trip(p) \/ TripEnds(p) \/ Allow(p)
             \/ Land(p) \/ Finish(p) \/ Kill(p)
      PROVE  Beside(q)
  BY <1>3, <1>4, <1>7 DEF TypeOK, NoWriteRound, Trip, TripEnds, Allow, Land, Finish,
                          Kill, Beside, memory
<1>8. ASSUME NEW p \in Rounds, p # q,
             GateReject(p) \/ BeginSend(p) \/ Reply(p) \/ CountUsage(p) \/ Settle(p)
      PROVE  Beside(q)
  BY <1>2, <1>3, <1>8 DEF TypeOK, GateReject, BeginSend, Reply, CountUsage, Settle,
                          Beside
<1> QED
  BY <1>1, <1>5, <1>6, <1>7, <1>8 DEF Next

(* What a round still has to query stays in its copy of the ledger. *)
LEMMA MarkedStayKnown ==
    TypeOK /\ MarkedAreKnown /\ [Next]_vars => MarkedAreKnown'
<1> SUFFICES ASSUME TypeOK, MarkedAreKnown, [Next]_vars,
                    NEW q \in Rounds, NEW i \in marked'[q]
             PROVE  pc'[q] \in {"recover", "query"} /\ ledger'[q][i] # "ABSENT"
  BY DEF MarkedAreKnown
<1> USE StatesTyped
<1>1. CASE Beside(q)
  BY <1>1 DEF MarkedAreKnown, Beside
<1>2. CASE End(q)
  BY <1>2 DEF TypeOK, End
<1>3. CASE MarkInterrupted(q)
  BY <1>3 DEF TypeOK, MarkedAreKnown, MarkInterrupted, Append, Unresolved
<1>4. CASE ResolveInterrupted(q)
  BY <1>4 DEF TypeOK, MarkedAreKnown, ResolveInterrupted, Append
<1>5. CASE AllMarked(q)
  BY <1>5 DEF TypeOK, MarkedAreKnown, AllMarked, Goto, memory
<1>6. CASE Recovered(q)
  BY <1>6 DEF TypeOK, MarkedAreKnown, Recovered, Goto, memory
<1>7. CASE Refuse(q)
  BY <1>7 DEF MarkedAreKnown, Refuse, vars, memory
<1>8. ASSUME pc[q] \notin {"recover", "query"}, marked'[q] = marked[q]
      PROVE  FALSE
  BY <1>8 DEF MarkedAreKnown
<1>9. CASE Start(q) \/ LoadLedger(q) \/ CountMissing(q)
  BY <1>2, <1>8, <1>9 DEF Start, LoadLedger, CountMissing
<1>10. CASE NoWriteRound(q) \/ Trip(q) \/ TripEnds(q) \/ Allow(q) \/ Finish(q)
            \/ Kill(q)
  BY <1>2, <1>8, <1>10 DEF NoWriteRound, Trip, TripEnds, Allow, Finish, Kill, memory
<1>11. CASE GateReject(q) \/ BeginSend(q) \/ Land(q) \/ Reply(q) \/ CountUsage(q)
            \/ Settle(q)
  BY <1>8, <1>11 DEF GateReject, BeginSend, Land, Reply, CountUsage, Settle, Sides,
                     memory
<1> QED
  BY <1>1, <1>3, <1>4, <1>5, <1>6, <1>7, <1>9, <1>10, <1>11, StepBeside

(* What the copy of a round shows stays counted until it decides. *)
LEMMA CopyStaysCounted ==
    TypeOK /\ MarkedAreKnown /\ GatesSeeCopy /\ [Next]_vars => GatesSeeCopy'
<1> SUFFICES ASSUME TypeOK, MarkedAreKnown, GatesSeeCopy, [Next]_vars,
                    NEW q \in Rounds, pc'[q] \in Deciding, NEW i \in Ids,
                    ledger'[q][i] # "ABSENT"
             PROVE  counted'[q][i] > 0
  BY DEF GatesSeeCopy
<1> USE DEF Deciding, Sides
<1>1. ASSUME pc[q] \in Deciding, counted'[q] = counted[q], ledger[q][i] # "ABSENT"
      PROVE  counted'[q][i] > 0
  BY <1>1 DEF GatesSeeCopy
<1>2. CASE Beside(q)
  BY <1>1, <1>2 DEF Beside
<1>3. CASE CountMissing(q)
  <2>1. ledger'[q] = ledger[q]
    BY <1>3 DEF CountMissing
  <2>2. counted'[q][i] = counted[q][i] + IF i \in Missing(q) THEN 1 ELSE 0
    BY <1>3 DEF TypeOK, CountMissing
  <2>3. counted[q][i] \in Nat
    BY DEF TypeOK
  <2>4. CASE counted[q][i] = 0
    BY <2>1, <2>2, <2>4 DEF Missing
  <2>5. CASE counted[q][i] # 0
    BY <2>2, <2>3, <2>5
  <2> QED
    BY <2>4, <2>5
<1>4. CASE MarkInterrupted(q)
  <2>1. pc[q] \in Deciding /\ counted'[q] = counted[q]
    BY <1>4 DEF MarkInterrupted
  <2>2. ledger[q][i] # "ABSENT"
    BY <1>4 DEF TypeOK, MarkInterrupted, Append, Unresolved
  <2> QED
    BY <1>1, <2>1, <2>2
<1>5. CASE ResolveInterrupted(q)
  <2>1. pc[q] \in Deciding /\ counted'[q] = counted[q]
    BY <1>5 DEF ResolveInterrupted
  <2>2. ledger[q][i] # "ABSENT"
    BY <1>5 DEF TypeOK, MarkedAreKnown, ResolveInterrupted, Append
  <2> QED
    BY <1>1, <2>1, <2>2
<1>6. CASE AllMarked(q) \/ Recovered(q) \/ Allow(q) \/ Refuse(q)
  BY <1>1, <1>6 DEF AllMarked, Recovered, Allow, Refuse, vars, memory
<1>7. ASSUME NEW l, l \notin Deciding, Goto(q, l) PROVE FALSE
  BY <1>7 DEF TypeOK, Goto
<1>8. CASE Start(q) \/ LoadLedger(q)
  BY <1>7, <1>8 DEF Start, LoadLedger, End, Goto, TypeOK
<1>9. CASE NoWriteRound(q) \/ Trip(q) \/ TripEnds(q) \/ Finish(q) \/ Kill(q)
  BY <1>7, <1>9 DEF NoWriteRound, Trip, TripEnds, Finish, Kill, End
<1>10. CASE GateReject(q) \/ BeginSend(q) \/ Reply(q) \/ Settle(q)
  BY <1>7, <1>10 DEF GateReject, BeginSend, Reply, Settle
<1>11. CASE CountUsage(q)
  <2>1. (IF ledger[q][cur[q]] = "SEND_TIMEOUT" THEN "settle" ELSE "finish")
           \notin Deciding
    OBVIOUS
  <2> QED
    BY <1>7, <1>11, <2>1 DEF CountUsage
<1>12. CASE Land(q)
  BY <1>12 DEF Land
<1> QED
  BY <1>2, <1>3, <1>4, <1>5, <1>6, <1>8, <1>9, <1>10, <1>11, <1>12, StepBeside

(* No round passes its gates without the cost of an order that the ledger  *)
(* it loaded shows as sent, whatever other rounds write meanwhile: the     *)
(* usage file is completed before the gates (T-11).                        *)
THEOREM RoundsGatesSeeLoaded == Spec => []GatesSeeLoaded
<1>1. Init => MarkedAreKnown /\ GatesSeeCopy
  BY DEF Init, MarkedAreKnown, GatesSeeCopy, Deciding, Sides
<1>2. GatesSeeCopy => GatesSeeLoaded
  BY StatesTyped DEF GatesSeeCopy, GatesSeeLoaded
<1> QED
  BY <1>1, <1>2, RoundsTyped, MarkedStayKnown, CopyStaysCounted, PTL DEF Spec

(* The invariant the two properties rest on.                               *)
THEOREM RoundsInductive == Spec => []RoundsInvariant
<1>1. Init => SenderHoldsLock /\ MarkedAreKnown /\ GatesSeeCopy
  BY DEF Init, SenderHoldsLock, MarkedAreKnown, GatesSeeCopy, Deciding, Sides
<1>2. Spec => []SenderHasIntent
  BY SendersTyped, PTL
<1> QED
  BY <1>1, <1>2, RoundsTyped, SenderAlone, MarkedStayKnown, CopyStaysCounted, PTL
     DEF Spec, RoundsInvariant

(***************************************************************************)
(* The sum of the community modules over a finite set.  It folds with a    *)
(* function that TLC computes and a proof has to show to exist; the        *)
(* induction over the subsets of the set is by a least counterexample.     *)
(***************************************************************************)
First(s) == CHOOSE x \in s : TRUE
SumsUp(f, S, g) ==
    g = [s \in SUBSET S |-> IF s = {} THEN 0 ELSE f[First(s)] + g[s \ {First(s)}]]

SumOver(f, S) == MapThenSumSet(LAMBDA i : f[i], S)

(* A family of subsets of a finite set has a least one. *)
LEMMA LeastSubset ==
    ASSUME NEW S, IsFiniteSet(S), NEW F \in SUBSET SUBSET S, F # {}
    PROVE  \E T \in F : \A U \in F : U \subseteq T => U = T
<1>1. FiniteSubsetsOf(S) = SUBSET S
  BY FS_FiniteSubsetsOfFinite
<1>2. IsWellFoundedOn(StrictSubsetOrdering(S), SUBSET S)
  BY <1>1, FS_StrictSubsetOrderingWellFounded
<1>3. \E T \in F : \A U \in F : ~ (<<U, T>> \in StrictSubsetOrdering(S))
  BY <1>2, WFMin
<1>4. PICK T \in F : \A U \in F : ~ (<<U, T>> \in StrictSubsetOrdering(S))
  BY <1>3
<1>5. ASSUME NEW U \in F, U \subseteq T, U # T PROVE FALSE
  <2>1. <<U, T>> \in StrictSubsetOrdering(S)
    BY <1>5 DEF StrictSubsetOrdering
  <2> QED
    BY <2>1, <1>4
<1> QED
  BY <1>4, <1>5

(* The first element of a set that has one. *)
LEMMA FirstIsIn ==
    ASSUME NEW s, s # {}
    PROVE  First(s) \in s /\ s \ {First(s)} \subseteq s /\ s \ {First(s)} # s
BY DEF First

(* Two foldings agree where both are defined. *)
LEMMA SumsAgree ==
    ASSUME NEW f, NEW S, IsFiniteSet(S), NEW T \in SUBSET S,
           NEW g, NEW h, SumsUp(f, S, g), SumsUp(f, T, h)
    PROVE  h[T] = g[T]
<1> DEFINE F == {s \in SUBSET T : h[s] # g[s]}
<1>1. CASE F = {}
  BY <1>1
<1>2. CASE F # {}
  <2>0. F \in SUBSET SUBSET S
    OBVIOUS
  <2>1. PICK s \in F : \A U \in F : U \subseteq s => U = s
    <3> HIDE DEF F
    <3> QED
      BY <1>2, <2>0, LeastSubset
  <2>2. /\ g[s] = IF s = {} THEN 0 ELSE f[First(s)] + g[s \ {First(s)}]
        /\ h[s] = IF s = {} THEN 0 ELSE f[First(s)] + h[s \ {First(s)}]
    <3>1. s \in SUBSET S /\ s \in SUBSET T
      OBVIOUS
    <3> QED
      BY <3>1, Zenon DEF SumsUp
  <2>3. CASE s = {}
    BY <2>2, <2>3
  <2>4. CASE s # {}
    <3>1. h[s \ {First(s)}] = g[s \ {First(s)}]
      BY <2>1, <2>4, FirstIsIn
    <3> QED
      BY <2>2, <2>4, <3>1
  <2> QED
    BY <2>3, <2>4
<1> QED
  BY <1>1, <1>2

(* Every finite set has its folding. *)
LEMMA SumExists ==
    ASSUME NEW f, NEW S, IsFiniteSet(S)
    PROVE  \E g : SumsUp(f, S, g)
<1> DEFINE F == {s \in SUBSET S : ~ \E g : SumsUp(f, s, g)}
<1>1. CASE F = {}
  BY <1>1
<1>2. CASE F # {}
  <2>1. PICK T \in F : \A U \in F : U \subseteq T => U = T
    <3>1. F \in SUBSET SUBSET S
      OBVIOUS
    <3> HIDE DEF F
    <3> QED
      BY <1>2, <3>1, LeastSubset
  <2>2. T \in SUBSET S /\ IsFiniteSet(T)
    BY FS_Subset
  <2> DEFINE of(s) == (CHOOSE g : SumsUp(f, s, g))[s]
             G == [s \in SUBSET T |-> IF s = {} THEN 0
                                      ELSE f[First(s)] + of(s \ {First(s)})]
  <2>3. ASSUME NEW s \in SUBSET T, s # T
        PROVE  SumsUp(f, s, CHOOSE g : SumsUp(f, s, g))
    <3>1. s \notin F
      BY <2>1, <2>3
    <3>2. \E g : SumsUp(f, s, g)
      BY <2>2, <3>1
    <3> QED
      BY <3>2
  <2>4. ASSUME NEW s \in SUBSET T, s # T PROVE G[s] = of(s)
    <3>1. PICK g : g = (CHOOSE h : SumsUp(f, s, h)) /\ SumsUp(f, s, g)
      BY <2>3, <2>4
    <3>2. of(s) = g[s]
      BY <3>1
    <3>3. of(s) = IF s = {} THEN 0 ELSE f[First(s)] + g[s \ {First(s)}]
      <4>1. s \in SUBSET s
        OBVIOUS
      <4>2. g[s] = IF s = {} THEN 0 ELSE f[First(s)] + g[s \ {First(s)}]
        BY <3>1, <4>1, Zenon DEF SumsUp
      <4> QED
        BY <3>2, <4>2
    <3>4. CASE s = {}
      BY <3>3, <3>4
    <3>5. CASE s # {}
      <4> DEFINE r == s \ {First(s)}
      <4>1. r \in SUBSET T /\ r # T /\ r \in SUBSET s
        BY <2>4, <3>5, FirstIsIn
      <4>2. PICK h : h = (CHOOSE k : SumsUp(f, r, k)) /\ SumsUp(f, r, h)
        BY <2>3, <4>1
      <4>3. IsFiniteSet(s)
        BY <2>2, FS_Subset
      <4>4. h[r] = g[r]
        BY <3>1, <4>1, <4>2, <4>3, SumsAgree
      <4>5. of(r) = g[r]
        BY <4>2, <4>4
      <4> QED
        BY <3>3, <3>5, <4>5
    <3> QED
      BY <3>4, <3>5
  <2>5. ASSUME NEW s \in SUBSET T
        PROVE  G[s] = IF s = {} THEN 0 ELSE f[First(s)] + G[s \ {First(s)}]
    <3>1. CASE s = {}
      BY <3>1
    <3>2. CASE s # {}
      <4>1. s \ {First(s)} \in SUBSET T /\ s \ {First(s)} # T
        BY <3>2, FirstIsIn
      <4>2. G[s \ {First(s)}] = of(s \ {First(s)})
        BY <2>4, <4>1
      <4>3. G[s] = f[First(s)] + of(s \ {First(s)})
        BY <3>2
      <4> QED
        BY <3>2, <4>2, <4>3
    <3> QED
      BY <3>1, <3>2
  <2>6. SumsUp(f, T, G)
    <3>1. G = [s \in SUBSET T |-> G[s]]
      OBVIOUS
    <3> HIDE DEF G
    <3>2. [s \in SUBSET T |-> G[s]] =
          [s \in SUBSET T |-> IF s = {} THEN 0 ELSE f[First(s)] + G[s \ {First(s)}]]
      BY <2>5
    <3>3. G = [s \in SUBSET T |-> IF s = {} THEN 0 ELSE f[First(s)] + G[s \ {First(s)}]]
      BY <3>1, <3>2
    <3> QED
      BY <3>3, Zenon DEF SumsUp
  <2> QED
    BY <2>1, <2>6
<1> QED
  BY <1>1, <1>2

(* The sum is what every folding of the set computes. *)
LEMMA SumIsFold ==
    ASSUME NEW f, NEW S, IsFiniteSet(S)
    PROVE  \E g : SumsUp(f, S, g) /\ SumOver(f, S) = g[S]
<1>1. SumOver(f, S) = (CHOOSE g : SumsUp(f, S, g))[S]
  BY DEF SumOver, SumsUp, First, MapThenSumSet, MapThenFoldSet
<1>2. SumsUp(f, S, CHOOSE g : SumsUp(f, S, g))
  BY SumExists
<1> QED
  BY <1>1, <1>2

(* The members of a set that add something are no more than the sum. *)
LEMMA SumCounts ==
    ASSUME NEW S, IsFiniteSet(S), NEW f \in [S -> Nat]
    PROVE  /\ SumOver(f, S) \in Nat
           /\ Cardinality({i \in S : f[i] > 0}) <= SumOver(f, S)
<1>1. PICK g : SumsUp(f, S, g) /\ SumOver(f, S) = g[S]
  BY SumIsFold
<1> DEFINE pos(s) == {i \in s : f[i] > 0}
           F == {s \in SUBSET S : ~ (g[s] \in Nat /\ Cardinality(pos(s)) <= g[s])}
<1>2. CASE F = {}
  BY <1>1, <1>2
<1>3. CASE F # {}
  <2>1. PICK s \in F : \A U \in F : U \subseteq s => U = s
    <3>1. F \in SUBSET SUBSET S
      OBVIOUS
    <3> HIDE DEF F
    <3> QED
      BY <1>3, <3>1, LeastSubset
  <2>2. s \in SUBSET S /\ IsFiniteSet(s)
    BY FS_Subset
  <2>3. g[s] = IF s = {} THEN 0 ELSE f[First(s)] + g[s \ {First(s)}]
    BY <1>1, <2>2, Zenon DEF SumsUp
  <2>4. CASE s = {}
    <3>1. pos(s) = {} /\ Cardinality({}) = 0
      BY <2>4, FS_EmptySet
    <3>2. g[s] = 0
      BY <2>3, <2>4
    <3> QED
      BY <3>1, <3>2
  <2>5. CASE s # {}
    <3> DEFINE x == First(s)
               r == s \ {x}
    <3>1. x \in s /\ r \in SUBSET S /\ r \notin F /\ r \subseteq s
      BY <2>1, <2>2, <2>5, FirstIsIn
    <3>2. g[r] \in Nat /\ Cardinality(pos(r)) <= g[r]
      BY <3>1
    <3>3. f[x] \in Nat /\ g[s] = f[x] + g[r]
      BY <2>2, <2>3, <2>5, <3>1
    <3>4. IsFiniteSet(pos(s)) /\ IsFiniteSet(pos(r))
      BY <2>2, <3>1, FS_Subset
    <3>5. Cardinality(pos(r)) \in Nat /\ Cardinality(pos(s)) \in Nat
      BY <3>4, FS_CardinalityType
    <3>6. pos(s) = IF f[x] > 0 THEN pos(r) \cup {x} ELSE pos(r)
      BY <3>1
    <3>7. Cardinality(pos(r) \cup {x}) <= Cardinality(pos(r)) + 1
      <4>1. Cardinality(pos(r) \cup {x}) =
              IF x \in pos(r) THEN Cardinality(pos(r)) ELSE Cardinality(pos(r)) + 1
        BY <3>4, FS_AddElement
      <4> QED
        BY <3>5, <4>1
    <3> HIDE DEF pos, x, r
    <3>8. ASSUME f[x] > 0 PROVE Cardinality(pos(s)) <= g[s]
      BY <3>2, <3>3, <3>5, <3>6, <3>7, <3>8
    <3>9. ASSUME ~ (f[x] > 0) PROVE Cardinality(pos(s)) <= g[s]
      BY <3>2, <3>3, <3>5, <3>6, <3>9
    <3>10. Cardinality(pos(s)) <= g[s] /\ g[s] \in Nat
      BY <3>2, <3>3, <3>8, <3>9
    <3> QED
      BY <3>10 DEF pos
  <2> QED
    BY <2>4, <2>5
<1> QED
  BY <1>2, <1>3

(***************************************************************************)
(* Rounds that take turns, which is how the tasks are meant to run: from   *)
(* here on no round starts while another one runs.                         *)
(***************************************************************************)
(* A step of one round that is not a refused start. *)
Step(p) ==
    \/ Start(p) \/ LoadLedger(p) \/ CountMissing(p)
    \/ MarkInterrupted(p) \/ AllMarked(p) \/ ResolveInterrupted(p) \/ Recovered(p)
    \/ NoWriteRound(p) \/ Trip(p) \/ TripEnds(p) \/ Allow(p)
    \/ GateReject(p) \/ BeginSend(p) \/ Land(p) \/ Reply(p)
    \/ CountUsage(p) \/ Settle(p) \/ Finish(p) \/ Kill(p)

(* Every other round is down, before a step and after it. *)
Alone(p) == \A q \in Rounds \ {p} : pc[q] = "down" /\ pc'[q] = "down"

(* The steps that append a row, each with its row. *)
Writes(p) ==
    \/ MarkInterrupted(p) \/ ResolveInterrupted(p) \/ GateReject(p)
    \/ BeginSend(p) \/ Reply(p) \/ Settle(p)

(* The steps that end the round. *)
Ends(p) == NoWriteRound(p) \/ TripEnds(p) \/ Finish(p) \/ Kill(p)

(* The steps that leave the ledger and the usage alone, in the files and in *)
(* the copies.                                                              *)
Moves(p) == AllMarked(p) \/ Recovered(p) \/ Trip(p) \/ Allow(p) \/ Land(p)

(* Who steps is up, or starts. *)
LEMMA StepsWhenUp ==
    ASSUME NEW p \in Rounds, Step(p), ~ Start(p)
    PROVE  pc[p] # "down"
BY DEF Step, LoadLedger, CountMissing, MarkInterrupted, AllMarked,
       ResolveInterrupted, Recovered, NoWriteRound, Trip, TripEnds, Allow,
       GateReject, BeginSend, Land, Reply, CountUsage, Settle, Finish, Kill, Sides

(* Who steps moves its own place only. *)
LEMMA StepsMove ==
    ASSUME NEW p \in Rounds, Step(p)
    PROVE  pc' = pc \/ \E l : pc' = [pc EXCEPT ![p] = l]
<1> USE DEF Goto
<1>1. CASE Start(p) \/ LoadLedger(p) \/ CountMissing(p) \/ AllMarked(p)
           \/ Recovered(p)
  BY <1>1 DEF Start, LoadLedger, CountMissing, AllMarked, Recovered, End
<1>2. CASE MarkInterrupted(p) \/ ResolveInterrupted(p) \/ Land(p)
  BY <1>2 DEF MarkInterrupted, ResolveInterrupted, Land
<1>3. CASE NoWriteRound(p) \/ Trip(p) \/ TripEnds(p) \/ Allow(p) \/ Finish(p)
           \/ Kill(p)
  BY <1>3 DEF NoWriteRound, Trip, TripEnds, Allow, Finish, Kill, End
<1>4. CASE GateReject(p) \/ BeginSend(p) \/ Reply(p) \/ CountUsage(p) \/ Settle(p)
  BY <1>4 DEF GateReject, BeginSend, Reply, CountUsage, Settle
<1> QED
  BY <1>1, <1>2, <1>3, <1>4 DEF Step

(* Rounds that take turns step alone. *)
LEMMA StepsAlone ==
    ASSUME ~Overlap, TypeOK, OneAtATime, [Next]_vars
    PROVE  UNCHANGED vars \/ \E p \in Rounds : Step(p) /\ Alone(p)
<1>1. ASSUME NEW p \in Rounds, Step(p) PROVE Alone(p)
  <2> SUFFICES ASSUME NEW q \in Rounds, q # p
               PROVE  pc[q] = "down" /\ pc'[q] = "down"
    BY DEF Alone
  <2>1. pc[q] = "down"
    BY <1>1, StepsWhenUp DEF Start, MayRun, OneAtATime
  <2>2. pc'[q] = pc[q]
    BY <1>1, StepsMove DEF TypeOK
  <2> QED
    BY <2>1, <2>2
<1>2. ASSUME NEW p \in Rounds, Refuse(p) PROVE UNCHANGED vars
  BY <1>2 DEF Refuse
<1> QED
  BY <1>1, <1>2 DEF Next, Step

(* A row goes to the file and to the copy of the round alike. *)
LEMMA WritesRow ==
    ASSUME TypeOK, MarkedAreKnown, NEW p \in Rounds, Writes(p)
    PROVE  \E i, source, target :
               /\ Append(p, i, source, target)
               /\ target # "ABSENT"
               /\ UNCHANGED <<usage, trippedAt, counted>>
<1>1. CASE MarkInterrupted(p)
  BY <1>1 DEF MarkInterrupted
<1>2. CASE ResolveInterrupted(p)
  BY <1>2, StatesTyped DEF ResolveInterrupted
<1>3. CASE GateReject(p)
  BY <1>3 DEF GateReject
<1>4. CASE BeginSend(p)
  BY <1>4 DEF BeginSend
<1>5. CASE Reply(p)
  BY <1>5 DEF Reply
<1>6. CASE Settle(p)
  BY <1>6, StatesTyped DEF Settle
<1> QED
  BY <1>1, <1>2, <1>3, <1>4, <1>5, <1>6 DEF Writes

(* The end of a round, and what it leaves of the files. *)
LEMMA EndsDown ==
    ASSUME TypeOK, NEW p \in Rounds, Ends(p)
    PROVE  /\ pc'[p] = "down"
           /\ UNCHANGED <<rows, broken, symbol, usage, landed>>
<1>1. ASSUME End(p) PROVE pc'[p] = "down"
  BY <1>1 DEF TypeOK, End, Goto
<1> QED
  BY <1>1 DEF Ends, NoWriteRound, TripEnds, Finish, Kill, files

(* A move, and what it leaves of the files and the copies. *)
LEMMA MovesOnly ==
    ASSUME TypeOK, NEW p \in Rounds, Moves(p)
    PROVE  /\ pc[p] \in {"recover", "query", "gates", "finish", "sending"}
           /\ pc'[p] \in {"query", "gates", "tripped", "buy", "sell", "sending"}
           /\ UNCHANGED <<rows, broken, symbol, usage, ledger, counted, marked, cur>>
BY DEF TypeOK, Moves, AllMarked, Recovered, Trip, Allow, Land, Goto, Sides, files,
       memory

(* The steps in their groups. *)
LEMMA StepGroups ==
    ASSUME NEW p \in Rounds, Step(p)
    PROVE  \/ Start(p) \/ LoadLedger(p) \/ CountMissing(p) \/ CountUsage(p)
           \/ Writes(p) \/ Ends(p) \/ Moves(p)
BY DEF Step, Writes, Ends, Moves

-----------------------------------------------------------------------------
(* The copies of the round that runs follow the files.                     *)
LEMMA CopiesStayCurrent ==
    ASSUME RoundsInvariant, CopiesCurrent, NEW p \in Rounds, Step(p), Alone(p)
    PROVE  CopiesCurrent'
<1> SUFFICES /\ pc'[p] # "down" => counted'[p] = usage'
             /\ pc'[p] \notin {"down", "load"} => ledger'[p] = rows'
  BY DEF CopiesCurrent, Alone
<1> USE DEF RoundsInvariant
<1>1. CASE Start(p)
  BY <1>1 DEF TypeOK, Start, Goto, files
<1>2. CASE LoadLedger(p)
  <2>1. CASE broken
    BY <1>2, <2>1 DEF TypeOK, LoadLedger, End, Goto
  <2>2. CASE ~broken
    BY <1>2, <2>2 DEF TypeOK, CopiesCurrent, LoadLedger, Goto, Loaded, files
  <2> QED
    BY <2>1, <2>2
<1>3. CASE CountMissing(p)
  <2>1. counted[p] = usage /\ ledger[p] = rows
    BY <1>3 DEF CopiesCurrent, CountMissing
  <2>2. counted'[p] = [i \in Ids |-> counted[p][i] + IF i \in Missing(p) THEN 1 ELSE 0]
    BY <1>3 DEF TypeOK, CountMissing
  <2> QED
    BY <1>3, <2>1, <2>2 DEF CountMissing
<1>4. CASE CountUsage(p)
  <2>1. counted[p] = usage /\ ledger[p] = rows
    BY <1>4 DEF CopiesCurrent, CountUsage
  <2>2. counted'[p] = [counted[p] EXCEPT ![cur[p]] = @ + 1]
    BY <1>4 DEF TypeOK, CountUsage
  <2> QED
    BY <1>4, <2>1, <2>2 DEF CountUsage
<1>5. CASE Writes(p)
  <2> PICK i, source, target : /\ Append(p, i, source, target)
                               /\ UNCHANGED <<usage, counted>>
    BY <1>5, WritesRow
  <2>1. pc[p] \notin {"down", "load"}
    BY <1>5 DEF Writes, MarkInterrupted, ResolveInterrupted, GateReject, BeginSend,
                Reply, Settle, Sides
  <2>2. counted[p] = usage /\ ledger[p] = rows
    BY <2>1 DEF CopiesCurrent
  <2>3. ledger'[p] = [ledger[p] EXCEPT ![i] = target]
    BY DEF TypeOK, Append
  <2> QED
    BY <2>2, <2>3 DEF Append
<1>6. CASE Ends(p)
  BY <1>6, EndsDown
<1>7. CASE Moves(p)
  BY <1>7, MovesOnly DEF CopiesCurrent
<1> QED
  BY <1>1, <1>2, <1>3, <1>4, <1>5, <1>6, <1>7, StepGroups

(* What the round that runs has to query stays in doubt. *)
LEMMA MarksStayInDoubt ==
    ASSUME RoundsInvariant, MarkedAreKnown', CopiesCurrent, MarkedInDoubt,
           NEW p \in Rounds, Step(p), Alone(p)
    PROVE  MarkedInDoubt'
<1> SUFFICES ASSUME NEW i \in marked'[p], pc'[p] \in {"recover", "query"}
             PROVE  rows'[i] = "SEND_TIMEOUT"
  BY DEF MarkedInDoubt, MarkedAreKnown, Alone
<1> USE DEF RoundsInvariant
<1>1. CASE Start(p) \/ LoadLedger(p)
  BY <1>1 DEF TypeOK, Start, LoadLedger, End, Goto
<1>2. CASE CountMissing(p)
  BY <1>2 DEF MarkedAreKnown, CountMissing
<1>3. CASE CountUsage(p)
  <2>1. (IF ledger[p][cur[p]] = "SEND_TIMEOUT" THEN "settle" ELSE "finish")
           \notin {"recover", "query"}
    OBVIOUS
  <2>2. pc'[p] \notin {"recover", "query"}
    BY <1>3, <2>1 DEF TypeOK, CountUsage, Goto
  <2> QED
    BY <2>2
<1>4. CASE MarkInterrupted(p)
  <2> PICK j \in Unresolved(p) :
          /\ Append(p, j, "SENDING", "SEND_TIMEOUT")
          /\ marked' = [marked EXCEPT ![p] = @ \cup {j}]
    BY <1>4 DEF MarkInterrupted
  <2>1. marked'[p] = marked[p] \cup {j} /\ j \in Ids
    BY DEF TypeOK, Unresolved
  <2>2. i \in Ids /\ rows' = [rows EXCEPT ![j] = "SEND_TIMEOUT"]
    BY <2>1 DEF TypeOK, Append
  <2> QED
    BY <2>1, <2>2 DEF TypeOK, MarkedInDoubt
<1>5. CASE ResolveInterrupted(p)
  <2> PICK j \in marked[p] :
          /\ Append(p, j, "SEND_TIMEOUT", Verdict(j))
          /\ marked' = [marked EXCEPT ![p] = @ \ {j}]
    BY <1>5 DEF ResolveInterrupted
  <2>1. marked'[p] = marked[p] \ {j}
    BY DEF TypeOK
  <2>2. rows' = [rows EXCEPT ![j] = Verdict(j)]
    BY DEF Append
  <2> QED
    BY <2>1, <2>2 DEF TypeOK, MarkedInDoubt
<1>6. CASE GateReject(p) \/ BeginSend(p) \/ Reply(p) \/ Settle(p)
  BY <1>6 DEF TypeOK, GateReject, BeginSend, Reply, Settle, Goto
<1>7. CASE Ends(p)
  BY <1>7, EndsDown
<1>8. CASE Moves(p)
  BY <1>8, MovesOnly DEF MarkedInDoubt
<1> QED
  BY <1>1, <1>2, <1>3, <1>4, <1>5, <1>6, <1>7, <1>8, StepGroups DEF Writes

(* What the round that runs sends is in the file as its phase says. *)
LEMMA SendsStayOwn ==
    ASSUME RoundsInvariant, CopiesCurrent, SendsOwn, CountedAreKnown,
           NEW p \in Rounds, Step(p), Alone(p)
    PROVE  SendsOwn'
<1> DEFINE Own(place) ==
               /\ place \in {"sending", "count", "settle"} => cur'[p] \in Ids
               /\ place = "sending" =>
                      rows'[cur'[p]] = "SENDING" /\ usage'[cur'[p]] = 0
               /\ place = "count" =>
                      rows'[cur'[p]] \in Sent /\ usage'[cur'[p]] = 0
               /\ place = "settle" => rows'[cur'[p]] = "SEND_TIMEOUT"
<1> SUFFICES Own(pc'[p])
  BY DEF SendsOwn, Alone, Sent
<1> USE DEF RoundsInvariant
<1>1. CASE Start(p) \/ LoadLedger(p)
  BY <1>1 DEF TypeOK, Start, LoadLedger, End, Goto
<1>2. CASE CountMissing(p) \/ MarkInterrupted(p) \/ ResolveInterrupted(p)
  BY <1>2 DEF TypeOK, CountMissing, MarkInterrupted, ResolveInterrupted, Goto
<1>3. CASE CountUsage(p)
  <2>1. ledger[p] = rows /\ cur[p] \in Ids
    BY <1>3 DEF CopiesCurrent, SendsOwn, CountUsage
  <2>2. rows' = rows /\ cur' = cur
    BY <1>3 DEF CountUsage
  <2>3. pc'[p] = IF ledger[p][cur[p]] = "SEND_TIMEOUT" THEN "settle" ELSE "finish"
    BY <1>3 DEF TypeOK, CountUsage, Goto
  <2> QED
    BY <2>1, <2>2, <2>3
<1>4. CASE GateReject(p) \/ Settle(p)
  BY <1>4 DEF TypeOK, GateReject, Settle, Goto
<1>5. CASE BeginSend(p)
  <2> PICK i \in Fresh : Record(i, p) /\ Append(p, i, "ABSENT", "SENDING")
    BY <1>5 DEF BeginSend
  <2>1. cur'[p] = i /\ i \in Ids /\ rows[i] = "ABSENT"
    BY DEF TypeOK, Record, Fresh
  <2>2. rows'[i] = "SENDING"
    BY <2>1 DEF TypeOK, Append
  <2>3. usage'[i] = 0
    <3>1. usage'[i] = usage[i] /\ ~ (usage[i] > 0)
      BY <1>5, <2>1 DEF BeginSend, CountedAreKnown
    <3>2. usage[i] \in Nat
      BY <2>1 DEF TypeOK
    <3> QED
      BY <3>1, <3>2
  <2>4. pc'[p] = "sending"
    BY <1>5 DEF TypeOK, BeginSend, Goto
  <2> QED
    BY <2>1, <2>2, <2>3, <2>4
<1>6. CASE Reply(p)
  <2> PICK target \in {"SEND_TIMEOUT",
                       IF cur[p] \in landed THEN "ACCEPTED" ELSE "REJECTED"} :
          Append(p, cur[p], "SENDING", target)
    BY <1>6 DEF Reply
  <2>1. cur[p] \in Ids /\ cur' = cur /\ usage' = usage /\ usage[cur[p]] = 0
    BY <1>6 DEF SendsOwn, Reply
  <2>2. rows'[cur[p]] = target /\ target \in Sent
    BY <2>1 DEF TypeOK, Append, Sent
  <2>3. pc'[p] = "count"
    BY <1>6 DEF TypeOK, Reply, Goto
  <2> QED
    BY <2>1, <2>2, <2>3
<1>7. CASE Ends(p)
  BY <1>7, EndsDown
<1>8. CASE Moves(p)
  <2>1. pc'[p] = "sending" => pc[p] = "sending"
    BY <1>8 DEF TypeOK, Moves, AllMarked, Recovered, Trip, Allow, Land, Goto, Sides
  <2> QED
    BY <1>8, <2>1, MovesOnly DEF SendsOwn
<1> QED
  BY <1>1, <1>2, <1>3, <1>4, <1>5, <1>6, <1>7, <1>8, StepGroups DEF Writes

(* Only intents of the file are counted, each of them once. *)
LEMMA CountsStayTrue ==
    ASSUME RoundsInvariant, CopiesCurrent, SendsOwn, CountedAreKnown, CountedOnce,
           NEW p \in Rounds, Step(p)
    PROVE  CountedAreKnown' /\ CountedOnce'
<1> SUFFICES ASSUME NEW i \in Ids
             PROVE  /\ usage'[i] > 0 => rows'[i] # "ABSENT"
                    /\ usage'[i] <= 1
  BY DEF CountedAreKnown, CountedOnce
<1> USE DEF RoundsInvariant
<1>0. usage[i] \in Nat /\ usage[i] <= 1 /\ (usage[i] > 0 => rows[i] # "ABSENT")
  BY DEF TypeOK, CountedOnce, CountedAreKnown
<1>1. CASE Start(p) \/ LoadLedger(p)
  BY <1>0, <1>1 DEF Start, LoadLedger, files
<1>2. CASE CountMissing(p)
  <2>1. counted[p] = usage /\ ledger[p] = rows
    BY <1>2 DEF CopiesCurrent, CountMissing
  <2>2. /\ rows' = rows
        /\ usage'[i] = usage[i] + IF i \in Missing(p) THEN 1 ELSE 0
    BY <1>2 DEF CountMissing
  <2>3. CASE i \in Missing(p)
    <3>1. rows[i] # "ABSENT" /\ usage[i] = 0
      BY <2>1, <2>3 DEF Missing
    <3> QED
      BY <2>2, <2>3, <3>1
  <2>4. CASE i \notin Missing(p)
    BY <1>0, <2>2, <2>4
  <2> QED
    BY <2>3, <2>4
<1>3. CASE CountUsage(p)
  <2>1. rows[cur[p]] # "ABSENT" /\ usage[cur[p]] = 0 /\ rows' = rows
    BY <1>3, StatesTyped DEF SendsOwn, CountUsage
  <2>2. usage'[i] = IF i = cur[p] THEN usage[i] + 1 ELSE usage[i]
    BY <1>3 DEF TypeOK, CountUsage
  <2> QED
    BY <1>0, <2>1, <2>2
<1>4. CASE Writes(p)
  <2> PICK j, source, target : /\ Append(p, j, source, target)
                               /\ target # "ABSENT"
                               /\ UNCHANGED <<usage, counted>>
    BY <1>4, WritesRow
  <2>1. rows'[i] = IF i = j THEN target ELSE rows[i]
    BY DEF TypeOK, Append
  <2> QED
    BY <1>0, <2>1
<1>5. CASE Ends(p)
  BY <1>0, <1>5, EndsDown
<1>6. CASE Moves(p)
  BY <1>0, <1>6, MovesOnly
<1> QED
  BY <1>1, <1>2, <1>3, <1>4, <1>5, <1>6, StepGroups

(* The same count has the same total. *)
LEMMA SameTotal ==
    ASSUME NEW p, counted' = counted
    PROVE  Total(counted[p])' = Total(counted[p])
BY DEF Total, MapThenSumSet, MapThenFoldSet, Ids

(* The round that buys passed the gate with room for its order. *)
LEMMA RoomStays ==
    ASSUME RoundsInvariant, RoomForOne, NEW p \in Rounds, Step(p), Alone(p)
    PROVE  RoomForOne'
<1> SUFFICES ASSUME pc'[p] = "buy"
             PROVE  Total(counted[p])' + 1 <= EnvelopeTotal
  BY DEF RoomForOne, Alone, TotalAllows
<1> USE DEF RoundsInvariant
<1>1. CASE Allow(p)
  <2>1. counted' = counted /\ Total(counted[p]) + 1 <= EnvelopeTotal
    BY <1>1 DEF TypeOK, Allow, PassesTotal, TotalAllows, Goto, memory
  <2> QED
    BY <2>1, SameTotal
<1>2. CASE Start(p) \/ LoadLedger(p) \/ CountMissing(p)
  BY <1>2 DEF TypeOK, Start, LoadLedger, CountMissing, End, Goto
<1>3. CASE CountUsage(p)
  <2>1. pc'[p] = IF ledger[p][cur[p]] = "SEND_TIMEOUT" THEN "settle" ELSE "finish"
    BY <1>3 DEF TypeOK, CountUsage, Goto
  <2> QED
    BY <2>1
<1>4. CASE Writes(p)
  BY <1>4 DEF TypeOK, Writes, MarkInterrupted, ResolveInterrupted, GateReject,
              BeginSend, Reply, Settle, Goto
<1>5. CASE Ends(p)
  BY <1>5, EndsDown
<1>6. CASE AllMarked(p) \/ Recovered(p) \/ Trip(p) \/ Land(p)
  BY <1>6 DEF TypeOK, AllMarked, Recovered, Trip, Land, Goto
<1> QED
  BY <1>1, <1>2, <1>3, <1>4, <1>5, <1>6, StepGroups DEF Moves

(* The trip lock stays set, and the round that set it is the last. *)
LEMMA TripStays ==
    ASSUME TypeOK, TrippedIsLast, NEW p \in Rounds, Step(p), Alone(p)
    PROVE  /\ trippedAt => trippedAt'
           /\ TrippedIsLast'
<1>1. CASE trippedAt
  <2>1. pc[p] \in {"down", "tripped"} /\ ~ Start(p)
    BY <1>1 DEF TrippedIsLast, Start
  <2>2. TripEnds(p) \/ Kill(p)
    BY <2>1 DEF Step, LoadLedger, CountMissing, MarkInterrupted, AllMarked,
                ResolveInterrupted, Recovered, NoWriteRound, Trip, Allow, GateReject,
                BeginSend, Land, Reply, CountUsage, Settle, Finish, Sides
  <2>3. trippedAt'
    BY <1>1, <2>2 DEF TripEnds, SaveTripped, Kill, files
  <2>4. pc'[p] = "down"
    BY <2>2, EndsDown DEF Ends
  <2> QED
    BY <2>3, <2>4 DEF TrippedIsLast, Alone
<1>2. CASE ~trippedAt
  <2> SUFFICES ASSUME trippedAt' PROVE pc'[p] \in {"down", "tripped"}
    BY <1>2 DEF TrippedIsLast, Alone
  <2>1. CASE Start(p) \/ LoadLedger(p) \/ CountMissing(p) \/ CountUsage(p)
    BY <1>2, <2>1 DEF Start, LoadLedger, CountMissing, CountUsage, files
  <2>2. CASE Writes(p)
    BY <1>2, <2>2 DEF Writes, MarkInterrupted, ResolveInterrupted, GateReject,
                      BeginSend, Reply, Settle
  <2>3. CASE Ends(p)
    BY <2>3, EndsDown
  <2>4. CASE Trip(p)
    BY <2>4 DEF TypeOK, Trip, Goto
  <2>5. CASE AllMarked(p) \/ Recovered(p) \/ Allow(p) \/ Land(p)
    BY <1>2, <2>5 DEF AllMarked, Recovered, Allow, SaveLoaded, Land, files
  <2> QED
    BY <2>1, <2>2, <2>3, <2>4, <2>5, StepGroups DEF Moves
<1> QED
  BY <1>1, <1>2

(* Every row the round appends follows from the rows before it. *)
LEMMA ReplayStays ==
    ASSUME RoundsInvariant, CopiesCurrent, MarkedInDoubt, SendsOwn, LedgerReplays,
           NEW p \in Rounds, Step(p)
    PROVE  LedgerReplays'
<1> USE DEF RoundsInvariant, LedgerReplays
<1>1. ASSUME NEW i, NEW source, NEW target, target # "SENDING",
             rows[i] = source, Append(p, i, source, target)
      PROVE  ~broken'
  BY <1>1 DEF Append, Follows
<1>2. CASE MarkInterrupted(p)
  <2> PICK i \in Unresolved(p) : Append(p, i, "SENDING", "SEND_TIMEOUT")
    BY <1>2 DEF MarkInterrupted
  <2>1. rows[i] = "SENDING"
    BY <1>2 DEF MarkInterrupted, Unresolved, CopiesCurrent
  <2> QED
    BY <1>1, <2>1
<1>3. CASE ResolveInterrupted(p)
  <2> PICK i \in marked[p] : Append(p, i, "SEND_TIMEOUT", Verdict(i))
    BY <1>3 DEF ResolveInterrupted
  <2>1. rows[i] = "SEND_TIMEOUT" /\ Verdict(i) # "SENDING"
    BY DEF MarkedInDoubt, Verdict
  <2> QED
    BY <1>1, <2>1
<1>4. CASE GateReject(p)
  <2> PICK i \in Fresh : Append(p, i, "ABSENT", "GATE_REJECTED")
    BY <1>4 DEF GateReject
  <2>1. rows[i] = "ABSENT"
    BY DEF Fresh
  <2> QED
    BY <1>1, <2>1
<1>5. CASE BeginSend(p)
  <2> PICK i \in Fresh : Record(i, p) /\ Append(p, i, "ABSENT", "SENDING")
    BY <1>5 DEF BeginSend
  <2>1. rows[i] = "ABSENT" /\ i \in Ids
    BY DEF Fresh
  <2>2. symbol'[i] = SymbolOf[p]
    BY <2>1 DEF TypeOK, Record
  <2>3. ledger[p] = rows /\ BusyIn(ledger[p], SymbolOf[p]) = {}
    BY <1>5 DEF BeginSend, CopiesCurrent, Sides
  <2>4. BusyIn(rows, symbol'[i]) = {}
    BY <2>2, <2>3
  <2> QED
    BY <2>1, <2>4 DEF Append, Follows
<1>6. CASE Reply(p)
  <2> PICK target \in {"SEND_TIMEOUT",
                       IF cur[p] \in landed THEN "ACCEPTED" ELSE "REJECTED"} :
          Append(p, cur[p], "SENDING", target)
    BY <1>6 DEF Reply
  <2>1. rows[cur[p]] = "SENDING" /\ target # "SENDING"
    BY <1>6 DEF Reply, SendsOwn
  <2> QED
    BY <1>1, <2>1
<1>7. CASE Settle(p)
  <2>1. /\ Append(p, cur[p], "SEND_TIMEOUT", Verdict(cur[p]))
        /\ rows[cur[p]] = "SEND_TIMEOUT"
    BY <1>7 DEF Settle, SendsOwn
  <2>2. Verdict(cur[p]) # "SENDING"
    BY DEF Verdict
  <2> QED
    BY <1>1, <2>1, <2>2
<1>8. CASE Start(p) \/ LoadLedger(p) \/ CountMissing(p) \/ CountUsage(p)
  BY <1>8 DEF Start, LoadLedger, CountMissing, CountUsage, files
<1>9. CASE Ends(p)
  BY <1>9, EndsDown
<1>10. CASE Moves(p)
  BY <1>10, MovesOnly
<1> QED
  BY <1>2, <1>3, <1>4, <1>5, <1>6, <1>7, <1>8, <1>9, <1>10, StepGroups DEF Writes

(***************************************************************************)
(* The orders sent.  What the file shows as sent grows with one step only, *)
(* the one that starts a send, and there every order sent before is        *)
(* counted in the usage the gate compared.                                 *)
(***************************************************************************)
(* Orders are sent when the send starts, and stay so. *)
LEMMA SentGrows ==
    ASSUME RoundsInvariant, MarkedInDoubt, SendsOwn, NEW p \in Rounds, Step(p),
           CopiesCurrent
    PROVE  \/ SentOrders' = SentOrders
           \/ /\ pc[p] \in Sides
              /\ \E i \in Ids : SentOrders' = SentOrders \cup {i}
              /\ pc[p] = "sell" => SentOrders' \ SentOrders \subseteq sells'
<1> USE DEF RoundsInvariant
<1>1. ASSUME NEW i \in Ids, NEW source, NEW target, Append(p, i, source, target),
             rows[i] \in Sent <=> target \in Sent
      PROVE  SentOrders' = SentOrders
  <2>1. \A j \in Ids : rows'[j] = IF j = i THEN target ELSE rows[j]
    BY <1>1 DEF TypeOK, Append
  <2> QED
    BY <1>1, <2>1 DEF SentOrders, Sent
<1>2. CASE MarkInterrupted(p)
  <2> PICK i \in Unresolved(p) : Append(p, i, "SENDING", "SEND_TIMEOUT")
    BY <1>2 DEF MarkInterrupted
  <2>1. i \in Ids /\ rows[i] = "SENDING"
    BY <1>2 DEF MarkInterrupted, Unresolved, CopiesCurrent
  <2>2. rows[i] \in Sent <=> "SEND_TIMEOUT" \in Sent
    BY <2>1 DEF Sent
  <2> QED
    BY <1>1, <2>1, <2>2
<1>3. CASE ResolveInterrupted(p)
  <2> PICK i \in marked[p] : Append(p, i, "SEND_TIMEOUT", Verdict(i))
    BY <1>3 DEF ResolveInterrupted
  <2>1. i \in Ids /\ rows[i] = "SEND_TIMEOUT"
    BY DEF TypeOK, MarkedInDoubt
  <2>2. rows[i] \in Sent <=> Verdict(i) \in Sent
    BY <2>1 DEF Sent, Verdict
  <2> QED
    BY <1>1, <2>1, <2>2
<1>4. CASE GateReject(p)
  <2> PICK i \in Fresh : Append(p, i, "ABSENT", "GATE_REJECTED")
    BY <1>4 DEF GateReject
  <2>1. i \in Ids /\ (rows[i] \in Sent <=> "GATE_REJECTED" \in Sent)
    BY DEF Fresh, Sent
  <2> QED
    BY <1>1, <2>1
<1>5. CASE BeginSend(p)
  <2> PICK i \in Fresh : Record(i, p) /\ Append(p, i, "ABSENT", "SENDING")
    BY <1>5 DEF BeginSend
  <2>1. \A j \in Ids : rows'[j] = IF j = i THEN "SENDING" ELSE rows[j]
    BY DEF TypeOK, Append
  <2>2. i \in Ids /\ SentOrders' = SentOrders \cup {i}
    BY <2>1 DEF SentOrders, Sent, Fresh
  <2>3. pc[p] = "sell" => i \in sells'
    BY DEF Record
  <2> QED
    BY <1>5, <2>2, <2>3 DEF BeginSend
<1>6. CASE Reply(p)
  <2> PICK target \in {"SEND_TIMEOUT",
                       IF cur[p] \in landed THEN "ACCEPTED" ELSE "REJECTED"} :
          Append(p, cur[p], "SENDING", target)
    BY <1>6 DEF Reply
  <2>1. cur[p] \in Ids /\ rows[cur[p]] = "SENDING"
    BY <1>6 DEF Reply, SendsOwn
  <2>2. rows[cur[p]] \in Sent <=> target \in Sent
    BY <2>1 DEF Sent
  <2> QED
    BY <1>1, <2>1, <2>2
<1>7. CASE Settle(p)
  <2>1. /\ Append(p, cur[p], "SEND_TIMEOUT", Verdict(cur[p]))
        /\ cur[p] \in Ids /\ rows[cur[p]] = "SEND_TIMEOUT"
    BY <1>7 DEF Settle, SendsOwn
  <2>2. rows[cur[p]] \in Sent <=> Verdict(cur[p]) \in Sent
    BY <2>1 DEF Sent, Verdict
  <2> QED
    BY <1>1, <2>1, <2>2
<1>8. ASSUME rows' = rows PROVE SentOrders' = SentOrders
  BY <1>8 DEF SentOrders, Sent
<1>9. CASE Start(p) \/ LoadLedger(p) \/ CountMissing(p) \/ CountUsage(p)
  BY <1>8, <1>9 DEF Start, LoadLedger, CountMissing, CountUsage, files
<1>10. CASE Ends(p) \/ Moves(p)
  BY <1>8, <1>10, EndsDown, MovesOnly
<1> QED
  BY <1>2, <1>3, <1>4, <1>5, <1>6, <1>7, <1>9, <1>10, StepGroups DEF Writes

(* Intents and their counts are finite. *)
LEMMA SentAreFinite ==
    /\ IsFiniteSet(Ids)
    /\ \A S \in SUBSET Ids : IsFiniteSet(S) /\ Cardinality(S) \in Nat
<1>1. IsFiniteSet(Ids)
  BY ConstantsTyped, FS_Interval DEF Ids
<1> QED
  BY <1>1, FS_Subset, FS_CardinalityType

(* A round that buys finds all orders sent so far in its usage. *)
LEMMA SentAreCounted ==
    ASSUME RoundsInvariant, CopiesCurrent, RoomForOne,
           NEW p \in Rounds, pc[p] = "buy"
    PROVE  Cardinality(SentOrders) + 1 <= EnvelopeTotal
<1> DEFINE u == counted[p]
           positive == {i \in Ids : u[i] > 0}
<1>1. u \in [Ids -> Nat]
  BY DEF RoundsInvariant, TypeOK
<1>2. Total(u) = SumOver(u, Ids)
  BY DEF Total, SumOver
<1>3. SumOver(u, Ids) \in Nat /\ Cardinality(positive) <= SumOver(u, Ids)
  <2> HIDE DEF u
  <2> QED
    BY <1>1, SentAreFinite, SumCounts
<1>4. Cardinality(SentOrders) <= Cardinality(positive)
  <2>1. SentOrders \subseteq positive
    BY StatesTyped DEF RoundsInvariant, GatesSeeCopy, CopiesCurrent, SentOrders,
                      Deciding, Sides
  <2>2. IsFiniteSet(positive)
    BY SentAreFinite
  <2> HIDE DEF positive
  <2> QED
    BY <2>1, <2>2, FS_Subset
<1>5. Cardinality(SentOrders) \in Nat /\ Cardinality(positive) \in Nat
  BY SentAreFinite DEF SentOrders
<1>6. Total(u) + 1 <= EnvelopeTotal
  BY DEF RoomForOne, TotalAllows
<1> HIDE DEF u, positive
<1> QED
  BY <1>2, <1>3, <1>4, <1>5, <1>6, BoundAssumption

(***************************************************************************)
(* The intents of the file.  Each has a row of usage but the last one, so  *)
(* that a round that starts below the total finds no more of them than the *)
(* total, and adds one.                                                    *)
(***************************************************************************)
(* Intents with no row of usage. *)
Uncounted == {i \in Known : usage[i] = 0}

(* A round that decides has counted all of them. *)
LEMMA NoneUncounted ==
    ASSUME TypeOK, GatesSeeCopy, CopiesCurrent, NEW p \in Rounds, pc[p] \in Deciding
    PROVE  Uncounted = {}
<1> SUFFICES ASSUME NEW i \in Ids, rows[i] # "ABSENT" PROVE usage[i] # 0
  BY DEF Uncounted, Known, Fresh
<1>1. counted[p] = usage /\ ledger[p] = rows
  BY DEF CopiesCurrent, Deciding, Sides
<1>2. usage[i] > 0
  BY <1>1 DEF GatesSeeCopy
<1> QED
  BY <1>2

(* Intents become known one at a time, and to a round that decided. *)
LEMMA KnownGrows ==
    ASSUME RoundsInvariant, CopiesCurrent, MarkedInDoubt, SendsOwn,
           NEW p \in Rounds, Step(p)
    PROVE  \/ Known' = Known
           \/ /\ pc[p] \in Sides /\ pc'[p] \in {"sending", "finish"}
              /\ UNCHANGED usage
              /\ \E i \in Ids : Known' = Known \cup {i}
<1> USE DEF RoundsInvariant
<1>1. ASSUME NEW i \in Ids, NEW source, NEW target, target # "ABSENT",
             Append(p, i, source, target)
      PROVE  Known' = Known \cup {i}
  <2>1. \A j \in Ids : rows'[j] = IF j = i THEN target ELSE rows[j]
    BY <1>1 DEF TypeOK, Append
  <2> QED
    BY <1>1, <2>1 DEF Known, Fresh
<1>2. CASE MarkInterrupted(p)
  <2> PICK i \in Unresolved(p) : Append(p, i, "SENDING", "SEND_TIMEOUT")
    BY <1>2 DEF MarkInterrupted
  <2>1. i \in Known
    BY <1>2 DEF MarkInterrupted, Unresolved, CopiesCurrent, Known, Fresh
  <2> QED
    BY <1>1, <2>1 DEF Known
<1>3. CASE ResolveInterrupted(p)
  <2> PICK i \in marked[p] : Append(p, i, "SEND_TIMEOUT", Verdict(i))
    BY <1>3 DEF ResolveInterrupted
  <2>1. i \in Known
    BY DEF TypeOK, MarkedInDoubt, Known, Fresh
  <2> QED
    BY <1>1, <2>1, StatesTyped DEF Known
<1>4. CASE GateReject(p)
  <2> PICK i \in Fresh : Append(p, i, "ABSENT", "GATE_REJECTED")
    BY <1>4 DEF GateReject
  <2>1. i \in Ids /\ Known' = Known \cup {i}
    BY <1>1 DEF Fresh
  <2>2. pc[p] \in Sides /\ usage' = usage /\ pc'[p] = "finish"
    BY <1>4 DEF GateReject, Goto, TypeOK
  <2> QED
    BY <2>1, <2>2
<1>5. CASE BeginSend(p)
  <2> PICK i \in Fresh : Append(p, i, "ABSENT", "SENDING")
    BY <1>5 DEF BeginSend
  <2>1. i \in Ids /\ Known' = Known \cup {i}
    BY <1>1 DEF Fresh
  <2>2. pc[p] \in Sides /\ usage' = usage /\ pc'[p] = "sending"
    BY <1>5 DEF BeginSend, Goto, TypeOK
  <2> QED
    BY <2>1, <2>2
<1>6. CASE Reply(p)
  <2> PICK target \in {"SEND_TIMEOUT",
                       IF cur[p] \in landed THEN "ACCEPTED" ELSE "REJECTED"} :
          Append(p, cur[p], "SENDING", target)
    BY <1>6 DEF Reply
  <2>1. cur[p] \in Known /\ target # "ABSENT"
    BY <1>6 DEF Reply, SendsOwn, Known, Fresh
  <2> QED
    BY <1>1, <2>1 DEF Known
<1>7. CASE Settle(p)
  <2>1. /\ Append(p, cur[p], "SEND_TIMEOUT", Verdict(cur[p]))
        /\ cur[p] \in Known
    BY <1>7 DEF Settle, SendsOwn, Known, Fresh
  <2> QED
    BY <1>1, <2>1, StatesTyped DEF Known
<1>8. ASSUME rows' = rows PROVE Known' = Known
  BY <1>8 DEF Known, Fresh
<1>9. CASE Start(p) \/ LoadLedger(p) \/ CountMissing(p) \/ CountUsage(p)
  BY <1>8, <1>9 DEF Start, LoadLedger, CountMissing, CountUsage, files
<1>10. CASE Ends(p) \/ Moves(p)
  BY <1>8, <1>10, EndsDown, MovesOnly
<1> QED
  BY <1>2, <1>3, <1>4, <1>5, <1>6, <1>7, <1>9, <1>10, StepGroups DEF Writes

(* A row of usage stays, whatever a round does. *)
LEMMA CountedStays ==
    ASSUME TypeOK, MarkedAreKnown, NEW p \in Rounds, Step(p), NEW i \in Ids,
           usage[i] # 0
    PROVE  usage'[i] # 0
<1>0. usage[i] \in Nat
  BY DEF TypeOK
<1>1. CASE CountMissing(p)
  <2>1. usage'[i] = usage[i] + IF i \in Missing(p) THEN 1 ELSE 0
    BY <1>1 DEF CountMissing
  <2> QED
    BY <1>0, <2>1
<1>2. CASE CountUsage(p)
  <2>1. usage'[i] = IF i = cur[p] THEN usage[i] + 1 ELSE usage[i]
    BY <1>2 DEF TypeOK, CountUsage
  <2> QED
    BY <1>0, <2>1
<1>3. CASE Start(p) \/ LoadLedger(p)
  BY <1>3 DEF Start, LoadLedger, files
<1>4. CASE Writes(p)
  BY <1>4, WritesRow
<1>5. CASE Ends(p) \/ Moves(p)
  BY <1>5, EndsDown, MovesOnly
<1> QED
  BY <1>1, <1>2, <1>3, <1>4, <1>5, StepGroups

(* Only the last intent may have no row of usage. *)
LEMMA OneStaysUncounted ==
    ASSUME RoundsInvariant, CopiesCurrent, MarkedInDoubt, SendsOwn, OneUncounted,
           NEW p \in Rounds, Step(p)
    PROVE  OneUncounted'
<1> SUFFICES \A i, j \in Uncounted' : i = j
  BY DEF OneUncounted, Uncounted, Known, Fresh
<1> USE DEF RoundsInvariant
<1>1. CASE Known' = Known
  <2>1. Uncounted' \subseteq Uncounted
    BY <1>1, CountedStays DEF Uncounted, Known
  <2>2. \A i, j \in Uncounted : i = j
    BY DEF OneUncounted, Uncounted, Known, Fresh
  <2> QED
    BY <2>1, <2>2
<1>2. ASSUME pc[p] \in Sides, UNCHANGED usage, NEW i \in Ids, Known' = Known \cup {i}
      PROVE  Uncounted' \subseteq {i}
  <2>1. Uncounted = {}
    BY <1>2, NoneUncounted DEF Deciding
  <2> QED
    BY <1>2, <2>1 DEF Uncounted
<1> QED
  BY <1>1, <1>2, KnownGrows

(* So intents are one more than the rows of usage at most. *)
LEMMA KnownAreFew ==
    ASSUME TypeOK, OneUncounted
    PROVE  Total(usage) \in Nat /\ Cardinality(Known) <= Total(usage) + 1
<1> DEFINE positive == {i \in Ids : usage[i] > 0}
<1>1. Total(usage) \in Nat /\ Cardinality(positive) <= Total(usage)
  <2>1. Total(usage) = SumOver(usage, Ids)
    BY DEF Total, SumOver
  <2>2. usage \in [Ids -> Nat]
    BY DEF TypeOK
  <2> QED
    BY <2>1, <2>2, SentAreFinite, SumCounts
<1>2. /\ IsFiniteSet(positive) /\ Cardinality(positive) \in Nat
      /\ Cardinality(Known) \in Nat
  BY SentAreFinite DEF Known
<1>3. Known \subseteq positive \cup Uncounted
  BY DEF TypeOK, Known, Uncounted
<1>4. \E x : Uncounted \subseteq {x}
  BY DEF OneUncounted, Uncounted, Known, Fresh
<1> HIDE DEF positive
<1>5. PICK x : Known \subseteq positive \cup {x}
  BY <1>3, <1>4
<1>6. /\ IsFiniteSet(positive \cup {x})
      /\ Cardinality(positive \cup {x}) =
            IF x \in positive THEN Cardinality(positive) ELSE Cardinality(positive) + 1
  BY <1>2, FS_AddElement
<1>7. Cardinality(Known) <= Cardinality(positive \cup {x})
  BY <1>5, <1>6, FS_Subset
<1> QED
  BY <1>1, <1>2, <1>6, <1>7

(* A round that has not sent yet started, or had not sent before. *)
LEMMA EarlyBefore ==
    ASSUME TypeOK, NEW p \in Rounds, Step(p), pc'[p] \in {"load", "missing"} \cup Deciding
    PROVE  Start(p) \/ pc[p] \in {"load", "missing"} \cup Deciding
<1> USE DEF Deciding, Sides, TypeOK
<1>1. CASE LoadLedger(p) \/ CountMissing(p)
  BY <1>1 DEF LoadLedger, CountMissing
<1>2. CASE CountUsage(p)
  <2>1. pc'[p] = IF ledger[p][cur[p]] = "SEND_TIMEOUT" THEN "settle" ELSE "finish"
    BY <1>2 DEF CountUsage, Goto
  <2> QED
    BY <2>1
<1>3. CASE Writes(p)
  BY <1>3 DEF Writes, MarkInterrupted, ResolveInterrupted, GateReject, BeginSend,
              Reply, Settle, Goto
<1>4. CASE Ends(p)
  BY <1>4, EndsDown
<1>5. CASE Moves(p)
  BY <1>5 DEF Moves, AllMarked, Recovered, Trip, Allow, Land, Goto
<1> QED
  BY <1>1, <1>2, <1>3, <1>4, <1>5, StepGroups

(* The intents exceed the total by the last one at most. *)
LEMMA RoomToExitStays ==
    ASSUME RoundsInvariant, CopiesCurrent, MarkedInDoubt, SendsOwn, OneUncounted,
           RoomToExit, NEW p \in Rounds, Step(p), Alone(p)
    PROVE  RoomToExit'
<1> DEFINE Early(place) == place \in {"load", "missing"} \cup Deciding
<1> SUFFICES /\ Cardinality(Known') <= EnvelopeTotal + 1
             /\ Early(pc'[p]) => Cardinality(Known') <= EnvelopeTotal
  BY DEF RoomToExit, Alone, Deciding, Sides
<1>1. CASE Known' = Known
  <2>1. Cardinality(Known) <= EnvelopeTotal + 1
    BY DEF RoomToExit
  <2>2. CASE Start(p)
    <3>1. Total(usage) \in Nat /\ ~ (Total(usage) >= EnvelopeTotal)
      BY <2>2, KnownAreFew DEF Start, Exhausted, RoundsInvariant
    <3>2. Cardinality(Known) <= Total(usage) + 1
      BY KnownAreFew DEF RoundsInvariant
    <3>3. Cardinality(Known) \in Nat
      BY SentAreFinite DEF Known
    <3>4. Cardinality(Known) <= EnvelopeTotal
      BY <3>1, <3>2, <3>3, BoundAssumption
    <3> QED
      BY <1>1, <2>1, <3>4
  <2>3. CASE ~ Start(p)
    <3>1. Early(pc'[p]) => Early(pc[p])
      BY <2>3, EarlyBefore DEF RoundsInvariant
    <3>2. Early(pc[p]) => Cardinality(Known) <= EnvelopeTotal
      BY DEF RoomToExit
    <3> QED
      BY <1>1, <2>1, <3>1, <3>2
  <2> QED
    BY <2>2, <2>3
<1>2. ASSUME pc[p] \in Sides, pc'[p] \in {"sending", "finish"},
             NEW i \in Ids, Known' = Known \cup {i}
      PROVE  /\ Cardinality(Known') <= EnvelopeTotal + 1
             /\ ~ Early(pc'[p])
  <2>1. Cardinality(Known) <= EnvelopeTotal
    BY <1>2 DEF RoomToExit, Deciding
  <2>2. IsFiniteSet(Known) /\ Cardinality(Known) \in Nat
    BY SentAreFinite DEF Known
  <2>3. Cardinality(Known \cup {i}) =
          IF i \in Known THEN Cardinality(Known) ELSE Cardinality(Known) + 1
    BY <2>2, FS_AddElement
  <2>4. Cardinality(Known') <= EnvelopeTotal + 1
    BY <1>2, <2>1, <2>2, <2>3, BoundAssumption
  <2>5. ~ Early(pc'[p])
    BY <1>2 DEF Deciding, Sides
  <2> QED
    BY <2>4, <2>5
<1> QED
  BY <1>1, <1>2, KnownGrows

(***************************************************************************)
(* The invariant of rounds that take turns.                                *)
(***************************************************************************)
(* It holds before the first round. *)
LEMMA TurnsStart == Init /\ RoundsInvariant => TurnsInvariant
<1> SUFFICES ASSUME Init, RoundsInvariant PROVE TurnsInvariant
  OBVIOUS
<1>1. OneAtATime /\ CopiesCurrent /\ MarkedInDoubt /\ SendsOwn /\ RoomForOne
  BY DEF Init, OneAtATime, CopiesCurrent, MarkedInDoubt, SendsOwn, RoomForOne
<1>2. TrippedIsLast /\ LedgerReplays
  BY DEF Init, TrippedIsLast, LedgerReplays
<1>3. \A i \in Ids : usage[i] = 0
  BY DEF Init, NoUsage
<1>4. CountedAreKnown
  BY <1>3 DEF CountedAreKnown
<1>5. OneUncounted /\ CountedOnce
  <2>1. \A i \in Ids : rows[i] = "ABSENT"
    BY DEF Init, AllAbsent
  <2>2. \A i, j \in Ids : {rows[i], rows[j]} \cap {"ABSENT"} # {}
    BY <2>1
  <2>3. OneUncounted
    BY <2>2 DEF OneUncounted
  <2>4. CountedOnce
    BY <1>3 DEF CountedOnce
  <2> QED
    BY <2>3, <2>4
<1>6. RoomToExit
  <2>1. Known = {}
    BY DEF Init, AllAbsent, Known, Fresh
  <2>2. Cardinality(Known) = 0
    BY <2>1, FS_EmptySet
  <2> QED
    BY <2>2, BoundAssumption DEF RoomToExit
<1> QED
  BY <1>1, <1>2, <1>4, <1>5, <1>6 DEF TurnsInvariant

(* Every step of rounds that take turns keeps it. *)
LEMMA TurnsKept ==
    ASSUME ~Overlap, TurnsInvariant, RoundsInvariant', [Next]_vars
    PROVE  TurnsInvariant'
<1> USE DEF TurnsInvariant
<1>1. CASE UNCHANGED vars
  <2> USE <1>1 DEF vars, files, memory
  <2>1. OneAtATime' /\ CopiesCurrent' /\ MarkedInDoubt'
    BY DEF OneAtATime, CopiesCurrent, MarkedInDoubt
  <2>2. SendsOwn' /\ CountedAreKnown' /\ TrippedIsLast' /\ LedgerReplays'
    BY DEF SendsOwn, CountedAreKnown, TrippedIsLast, LedgerReplays, Sent
  <2>3. RoomForOne'
    BY SameTotal DEF RoomForOne, TotalAllows
  <2>4. OneUncounted' /\ CountedOnce' /\ RoomToExit'
    BY DEF OneUncounted, CountedOnce, RoomToExit, Known, Fresh
  <2> QED
    BY <2>1, <2>2, <2>3, <2>4
<1>2. ASSUME NEW p \in Rounds, Step(p), Alone(p) PROVE TurnsInvariant'
  <2>1. OneAtATime'
    BY <1>2 DEF OneAtATime, Alone
  <2>2. CopiesCurrent' /\ SendsOwn'
    BY <1>2, CopiesStayCurrent, SendsStayOwn
  <2>3. MarkedInDoubt'
    BY <1>2, MarksStayInDoubt DEF RoundsInvariant
  <2>4. RoomForOne' /\ LedgerReplays'
    BY <1>2, RoomStays, ReplayStays
  <2>5. TrippedIsLast'
    BY <1>2, TripStays DEF RoundsInvariant
  <2>6. CountedAreKnown' /\ CountedOnce'
    BY <1>2, CountsStayTrue
  <2>7. OneUncounted' /\ RoomToExit'
    BY <1>2, OneStaysUncounted, RoomToExitStays
  <2> QED
    BY <2>1, <2>2, <2>3, <2>4, <2>5, <2>6, <2>7
<1> QED
  BY <1>1, <1>2, StepsAlone DEF RoundsInvariant

(* Rounds that take turns keep the whole invariant. *)
THEOREM TurnsInductive == ASSUME ~Overlap PROVE Spec => []TurnsInvariant
<1>1. Init /\ RoundsInvariant => TurnsInvariant
  BY TurnsStart
<1>2. TurnsInvariant /\ RoundsInvariant' /\ [Next]_vars => TurnsInvariant'
  BY TurnsKept
<1> QED
  BY <1>1, <1>2, RoundsInductive, PTL DEF Spec

(* Whatever the rounds of all markets write, one after the other and       *)
(* wherever each of them is killed, the ledger can be loaded: no row       *)
(* contradicts the rows before it.                                         *)
THEOREM TurnsReplay == ASSUME ~Overlap PROVE Spec => []LedgerReplays
<1>1. TurnsInvariant => LedgerReplays
  BY DEF TurnsInvariant
<1> QED
  BY <1>1, TurnsInductive, PTL

(* No buy of any market is sent that does not fit into the envelope beside *)
(* everything sent before it, and all orders, the sells that no gate holds *)
(* to the total among them, exceed it by one at most.  Each is counted     *)
(* once, whatever the reconciliation adds after a kill between the send    *)
(* and the count.                                                          *)
THEOREM TurnsKeepEnvelope == ASSUME ~Overlap PROVE Spec => EnvelopeKept
<1> DEFINE Few == Cardinality(SentOrders') <= EnvelopeTotal + 1
           Fit == \A i \in SentOrders' \ SentOrders :
                     i \in sells' \/ Cardinality(SentOrders') <= EnvelopeTotal
           Once == \A i \in Ids : usage'[i] <= 1
<1>1. TurnsInvariant' => Few
  <2> SUFFICES ASSUME TurnsInvariant' PROVE Few
    OBVIOUS
  <2>1. SentOrders' \subseteq Known'
    BY DEF SentOrders, Known, Fresh, Sent
  <2>2. IsFiniteSet(Known') /\ {Cardinality(Known'), Cardinality(SentOrders')} \subseteq Nat
    BY SentAreFinite DEF SentOrders, Known
  <2>3. Cardinality(SentOrders') <= Cardinality(Known')
    BY <2>1, <2>2, FS_Subset
  <2>4. Cardinality(Known') <= EnvelopeTotal + 1
    BY DEF TurnsInvariant, RoomToExit
  <2> QED
    BY <2>2, <2>3, <2>4, BoundAssumption
<1>2. TurnsInvariant' => Once
  BY DEF TurnsInvariant, CountedOnce
<1>3. TurnsInvariant /\ [Next]_vars => Fit
  <2> SUFFICES ASSUME TurnsInvariant, [Next]_vars PROVE Fit
    OBVIOUS
  <2> USE DEF TurnsInvariant
  <2>1. CASE UNCHANGED vars
    BY <2>1 DEF SentOrders, Sent, vars, files
  <2>2. ASSUME NEW p \in Rounds, Step(p), NEW i \in SentOrders' \ SentOrders
        PROVE  i \in sells' \/ Cardinality(SentOrders') <= EnvelopeTotal
    <3>1. pc[p] \in Sides /\ SentOrders' = SentOrders \cup {i}
      BY <2>2, SentGrows
    <3>2. CASE pc[p] = "sell"
      BY <2>2, <3>2, SentGrows
    <3>3. CASE pc[p] = "buy"
      <4>1. Cardinality(SentOrders) + 1 <= EnvelopeTotal
        BY <3>3, SentAreCounted
      <4>2. IsFiniteSet(SentOrders) /\ Cardinality(SentOrders) \in Nat
        BY SentAreFinite DEF SentOrders
      <4>3. Cardinality(SentOrders \cup {i}) = Cardinality(SentOrders) + 1
        BY <2>2, <4>2, FS_AddElement
      <4> QED
        BY <3>1, <4>1, <4>3
    <3> QED
      BY <3>1, <3>2, <3>3 DEF Sides
  <2> QED
    BY <2>1, <2>2, StepsAlone DEF RoundsInvariant
<1>4. TurnsInvariant /\ TurnsInvariant' /\ [Next]_vars
        => [/\ Cardinality(SentOrders') <= EnvelopeTotal + 1
            /\ \A i \in SentOrders' \ SentOrders :
                  i \in sells' \/ Cardinality(SentOrders') <= EnvelopeTotal
            /\ \A i \in Ids : usage'[i] <= 1]_vars
  BY <1>1, <1>2, <1>3
<1> QED
  BY <1>4, TurnsInductive, PTL DEF Spec, EnvelopeKept

(* The trip lock, once it is in the state file, is never written back to   *)
(* untripped by a round that works from the state it loaded.               *)
THEOREM TurnsKeepTrip == ASSUME ~Overlap PROVE Spec => TripIsForGood
<1>1. TurnsInvariant /\ [Next]_vars => [trippedAt => trippedAt']_vars
  <2> SUFFICES ASSUME TurnsInvariant, [Next]_vars
               PROVE  [trippedAt => trippedAt']_vars
    OBVIOUS
  <2>1. ASSUME NEW p \in Rounds, Step(p), Alone(p) PROVE trippedAt => trippedAt'
    BY <2>1, TripStays DEF TurnsInvariant, RoundsInvariant
  <2> QED
    BY <2>1, StepsAlone DEF TurnsInvariant, RoundsInvariant
<1> QED
  BY <1>1, TurnsInductive, PTL DEF Spec, TripIsForGood

-----------------------------------------------------------------------------
(***************************************************************************)
(* The ledger as the exchange sees it: the rows of rounds that take turns  *)
(* tell what became of the requests, one of a symbol at a time.            *)
(***************************************************************************)
(* What an intent may become, the row that records it left out. *)
NextOf(state) == Allowed(IF state = "ABSENT" THEN "RECORDED" ELSE state)

(* What a row that takes intent i to target does to the files and asks of   *)
(* the exchange.                                                            *)
TruthfulRow(i, target) ==
    /\ rows' = [rows EXCEPT ![i] = target]
    /\ landed' = landed
    /\ \A j \in Ids \ {i} : symbol'[j] = symbol[j]
    /\ \/ /\ rows[i] = "ABSENT" /\ target = "GATE_REJECTED"
       \/ /\ rows[i] = "ABSENT" /\ target = "SENDING"
          /\ BusyIn(rows, symbol'[i]) = {}
       \/ /\ rows[i] = "SENDING" /\ target = "SEND_TIMEOUT"
          /\ symbol' = symbol
       \/ /\ rows[i] = "SENDING" /\ target = "REJECTED" /\ i \notin landed
       \/ /\ rows[i] \in InFlightStates /\ target = "ACCEPTED" /\ i \in landed
       \/ /\ rows[i] = "SEND_TIMEOUT" /\ target = "FAILED" /\ i \notin landed

(* The verdict of a query is the exchange's. *)
LEMMA VerdictIsTrue ==
    ASSUME NEW i
    PROVE  \/ Verdict(i) = "ACCEPTED" /\ i \in landed
           \/ Verdict(i) = "FAILED" /\ i \notin landed
BY DEF Verdict

(* Every row the round appends is such a row. *)
LEMMA WritesTruth ==
    ASSUME TurnsInvariant, NEW p \in Rounds, Writes(p)
    PROVE  \E i \in Ids : \E target : TruthfulRow(i, target)
<1> USE DEF TurnsInvariant, RoundsInvariant
<1>1. CASE MarkInterrupted(p)
  <2> PICK i \in Unresolved(p) : Append(p, i, "SENDING", "SEND_TIMEOUT")
    BY <1>1 DEF MarkInterrupted
  <2>1. i \in Ids /\ rows[i] = "SENDING"
    BY <1>1 DEF MarkInterrupted, Unresolved, CopiesCurrent
  <2>2. landed' = landed /\ symbol' = symbol
    BY <1>1 DEF MarkInterrupted
  <2>3. TruthfulRow(i, "SEND_TIMEOUT")
    BY <2>1, <2>2 DEF TruthfulRow, Append
  <2> QED
    BY <2>1, <2>3
<1>2. CASE ResolveInterrupted(p)
  <2> PICK i \in marked[p] : Append(p, i, "SEND_TIMEOUT", Verdict(i))
    BY <1>2 DEF ResolveInterrupted
  <2>1. i \in Ids /\ rows[i] = "SEND_TIMEOUT"
    BY DEF TypeOK, MarkedInDoubt
  <2>2. landed' = landed /\ symbol' = symbol
    BY <1>2 DEF ResolveInterrupted
  <2>3. TruthfulRow(i, Verdict(i))
    BY <2>1, <2>2, VerdictIsTrue DEF TruthfulRow, Append, InFlightStates
  <2> QED
    BY <2>1, <2>3
<1>3. CASE GateReject(p)
  <2> PICK i \in Fresh : Record(i, p) /\ Append(p, i, "ABSENT", "GATE_REJECTED")
    BY <1>3 DEF GateReject
  <2>1. i \in Ids /\ rows[i] = "ABSENT"
    BY DEF Fresh
  <2>2. landed' = landed /\ \A j \in Ids \ {i} : symbol'[j] = symbol[j]
    BY <1>3 DEF GateReject, Record, TypeOK
  <2>3. TruthfulRow(i, "GATE_REJECTED")
    BY <2>1, <2>2 DEF TruthfulRow, Append
  <2> QED
    BY <2>1, <2>3
<1>4. CASE BeginSend(p)
  <2> PICK i \in Fresh : Record(i, p) /\ Append(p, i, "ABSENT", "SENDING")
    BY <1>4 DEF BeginSend
  <2>1. i \in Ids /\ rows[i] = "ABSENT"
    BY DEF Fresh
  <2>2. /\ landed' = landed /\ symbol'[i] = SymbolOf[p]
        /\ \A j \in Ids \ {i} : symbol'[j] = symbol[j]
    BY <1>4, <2>1 DEF BeginSend, Record, TypeOK
  <2>3. ledger[p] = rows /\ BusyIn(ledger[p], SymbolOf[p]) = {}
    BY <1>4 DEF BeginSend, CopiesCurrent, Sides
  <2>4. BusyIn(rows, symbol'[i]) = {}
    BY <2>2, <2>3
  <2>5. TruthfulRow(i, "SENDING")
    BY <2>1, <2>2, <2>4 DEF TruthfulRow, Append
  <2> QED
    BY <2>1, <2>5
<1>5. CASE Reply(p)
  <2> PICK target \in {"SEND_TIMEOUT",
                       IF cur[p] \in landed THEN "ACCEPTED" ELSE "REJECTED"} :
          Append(p, cur[p], "SENDING", target)
    BY <1>5 DEF Reply
  <2>1. cur[p] \in Ids /\ rows[cur[p]] = "SENDING"
    BY <1>5 DEF Reply, SendsOwn
  <2>2. landed' = landed /\ symbol' = symbol
    BY <1>5 DEF Reply
  <2>3. TruthfulRow(cur[p], target)
    BY <2>1, <2>2 DEF TruthfulRow, Append, InFlightStates
  <2> QED
    BY <2>1, <2>3
<1>6. CASE Settle(p)
  <2>1. /\ Append(p, cur[p], "SEND_TIMEOUT", Verdict(cur[p]))
        /\ cur[p] \in Ids /\ rows[cur[p]] = "SEND_TIMEOUT"
        /\ landed' = landed /\ symbol' = symbol
    BY <1>6 DEF Settle, SendsOwn
  <2>2. TruthfulRow(cur[p], Verdict(cur[p]))
    BY <2>1, VerdictIsTrue DEF TruthfulRow, Append, InFlightStates
  <2> QED
    BY <2>1, <2>2
<1> QED
  BY <1>1, <1>2, <1>3, <1>4, <1>5, <1>6 DEF Writes

(* A step that appends no row leaves the file alone, and an order lands    *)
(* only while its intent is being sent.                                    *)
LEMMA OthersLandOnly ==
    ASSUME TurnsInvariant, NEW p \in Rounds, Step(p), ~Writes(p)
    PROVE  /\ UNCHANGED <<rows, symbol>>
           /\ \/ landed' = landed
              \/ \E i \in Ids : rows[i] = "SENDING" /\ landed' = landed \cup {i}
<1> USE DEF TurnsInvariant, RoundsInvariant
<1>1. CASE Land(p)
  BY <1>1 DEF Land, SendsOwn, files
<1>2. CASE AllMarked(p) \/ Recovered(p) \/ Trip(p) \/ Allow(p)
  BY <1>2 DEF AllMarked, Recovered, Trip, Allow, files
<1>3. CASE Ends(p)
  BY <1>3, EndsDown
<1>4. CASE Start(p) \/ LoadLedger(p) \/ CountMissing(p) \/ CountUsage(p)
  BY <1>4 DEF Start, LoadLedger, CountMissing, CountUsage, files
<1> QED
  BY <1>1, <1>2, <1>3, <1>4, StepGroups DEF Moves

(* A step of rounds that take turns, seen from the ledger and the exchange. *)
LEMMA TurnsSteps ==
    ASSUME ~Overlap, TurnsInvariant, [Next]_vars
    PROVE  \/ \E i \in Ids : \E target : TruthfulRow(i, target)
           \/ UNCHANGED <<rows, symbol, landed>>
           \/ /\ UNCHANGED <<rows, symbol>>
              /\ \E i \in Ids : rows[i] = "SENDING" /\ landed' = landed \cup {i}
<1>1. CASE UNCHANGED vars
  BY <1>1 DEF vars, files
<1>2. ASSUME NEW p \in Rounds, Step(p), Writes(p)
      PROVE  \E i \in Ids : \E target : TruthfulRow(i, target)
  BY <1>2, WritesTruth
<1>3. ASSUME NEW p \in Rounds, Step(p), ~Writes(p)
      PROVE  /\ UNCHANGED <<rows, symbol>>
             /\ \/ landed' = landed
                \/ \E i \in Ids : rows[i] = "SENDING" /\ landed' = landed \cup {i}
  BY <1>3, OthersLandOnly
<1> QED
  BY <1>1, <1>2, <1>3, StepsAlone DEF TurnsInvariant, RoundsInvariant

(* Such a row keeps what the ledger says true and moves along the table. *)
LEMMA RowKeepsTruth ==
    ASSUME TypeOK, OutcomesTrue, OneInDoubt,
           NEW i \in Ids, NEW target, TruthfulRow(i, target)
    PROVE  /\ OutcomesTrue' /\ OneInDoubt'
           /\ rows'[i] \in NextOf(rows[i])
<1> USE DEF TypeOK
<1>1. \A j \in Ids : rows'[j] = IF j = i THEN target ELSE rows[j]
  BY DEF TruthfulRow
<1>2. OutcomesTrue'
  <2> SUFFICES ASSUME NEW j \in Ids
               PROVE  /\ rows'[j] = "ACCEPTED" => j \in landed'
                      /\ j \in landed' =>
                            rows'[j] \in {"SENDING", "SEND_TIMEOUT", "ACCEPTED"}
    BY DEF OutcomesTrue
  <2> QED
    BY <1>1 DEF OutcomesTrue, TruthfulRow
<1>3. OneInDoubt'
  <2>1. CASE target \notin InFlightStates
    BY <1>1, <2>1 DEF OneInDoubt, TruthfulRow, InFlightStates
  <2>2. CASE target = "SENDING"
    <3>1. \A j \in Ids : symbol[j] = symbol'[i] => rows[j] \notin InFlightStates
      BY <2>2 DEF TruthfulRow, BusyIn
    <3> QED
      BY <1>1, <3>1 DEF OneInDoubt, TruthfulRow
  <2>3. CASE target = "SEND_TIMEOUT"
    BY <1>1, <2>3 DEF OneInDoubt, TruthfulRow, InFlightStates
  <2> QED
    BY <2>1, <2>2, <2>3 DEF InFlightStates
<1>4. target \in NextOf(rows[i])
  BY DEF TruthfulRow, NextOf, Allowed, SendOutcome, InFlightStates
<1> QED
  BY <1>1, <1>2, <1>3, <1>4

(* An order lands while its intent is being sent, and keeps it as well. *)
LEMMA LandKeepsTruth ==
    ASSUME OutcomesTrue, OneInDoubt, UNCHANGED <<rows, symbol>>,
           \/ landed' = landed
           \/ \E i \in Ids : rows[i] = "SENDING" /\ landed' = landed \cup {i}
    PROVE  OutcomesTrue' /\ OneInDoubt'
BY DEF OutcomesTrue, OneInDoubt

(* Both hold in every state of rounds that take turns. *)
LEMMA TurnsTruth == ASSUME ~Overlap PROVE Spec => [](OutcomesTrue /\ OneInDoubt)
<1>1. Init => OutcomesTrue /\ OneInDoubt
  BY DEF Init, AllAbsent, OutcomesTrue, OneInDoubt, InFlightStates
<1>2. TurnsInvariant /\ OutcomesTrue /\ OneInDoubt /\ [Next]_vars
        => (OutcomesTrue /\ OneInDoubt)'
  BY TurnsSteps, RowKeepsTruth, LandKeepsTruth DEF TurnsInvariant, RoundsInvariant
<1> QED
  BY <1>1, <1>2, TurnsInductive, PTL DEF Spec

(* What the ledger says became of a request, whether the reply or a later  *)
(* query said so and wherever a round was killed, is what the exchange     *)
(* holds: nothing it takes for refused or failed is an order.  This is     *)
(* about what rounds leave each other, for requests that do not land late. *)
THEOREM TurnsTellTheTruth == ASSUME ~Overlap PROVE Spec => []OutcomesTrue
BY TurnsTruth, PTL

(* One intent of a symbol at most is in flight or in doubt, across rounds  *)
(* and restarts.                                                           *)
THEOREM TurnsOneInDoubt == ASSUME ~Overlap PROVE Spec => []OneInDoubt
BY TurnsTruth, PTL

(* The rows of all rounds together move every intent along the table: no   *)
(* round writes over what another one has settled.                         *)
THEOREM TurnsFollowTable == ASSUME ~Overlap PROVE Spec => RowsFollowTable
<1> DEFINE Along == \A i \in Ids : rows'[i] # rows[i] => rows'[i] \in NextOf(rows[i])
<1>1. TurnsInvariant /\ OutcomesTrue /\ OneInDoubt /\ [Next]_vars => [Along]_vars
  <2> SUFFICES ASSUME TurnsInvariant, OutcomesTrue, OneInDoubt, [Next]_vars PROVE Along
    OBVIOUS
  <2>1. ASSUME NEW i \in Ids, NEW target, TruthfulRow(i, target) PROVE Along
    <3>1. rows'[i] \in NextOf(rows[i])
      BY <2>1, RowKeepsTruth DEF TurnsInvariant, RoundsInvariant
    <3>2. \A j \in Ids \ {i} : rows'[j] = rows[j]
      BY <2>1 DEF TruthfulRow, TurnsInvariant, RoundsInvariant, TypeOK
    <3> QED
      BY <3>1, <3>2
  <2>2. ASSUME rows' = rows PROVE Along
    BY <2>2
  <2> QED
    BY <2>1, <2>2, TurnsSteps
<1>2. [Along]_vars => [\A i \in Ids : rows'[i] # rows[i] =>
          rows'[i] \in Allowed(IF rows[i] = "ABSENT" THEN "RECORDED"
                               ELSE rows[i])]_vars
  BY DEF NextOf
<1> QED
  BY <1>1, <1>2, TurnsTruth, TurnsInductive, PTL DEF Spec, RowsFollowTable

(* No order of a symbol is sent while the ledger holds an earlier one of   *)
(* it in flight or in doubt.                                               *)
THEOREM TurnsNothingInDoubt == ASSUME ~Overlap PROVE Spec => NothingInDoubt
<1> DEFINE Sends(p) == pc[p] \in Sides /\ pc'[p] = "sending"
           Clear == \A p \in Rounds : Sends(p) => BusyIn(rows, SymbolOf[p]) = {}
<1>1. TurnsInvariant /\ [Next]_vars => [Clear]_vars
  <2> SUFFICES ASSUME TurnsInvariant, [Next]_vars, NEW p \in Rounds, Sends(p)
               PROVE  BusyIn(rows, SymbolOf[p]) = {}
    OBVIOUS
  <2> USE DEF TurnsInvariant, RoundsInvariant
  <2>1. Step(p)
    BY StepsAlone DEF vars, Alone, Sides
  <2>2. BeginSend(p)
    BY <2>1 DEF Step, Start, LoadLedger, CountMissing, MarkInterrupted, AllMarked,
                ResolveInterrupted, Recovered, NoWriteRound, Trip, TripEnds, Allow,
                GateReject, Land, Reply, CountUsage, Settle, Finish, Kill, End,
                Goto, Sides, TypeOK
  <2> QED
    BY <2>2 DEF BeginSend, CopiesCurrent, Sides
<1> QED
  BY <1>1, TurnsInductive, PTL DEF Spec, NothingInDoubt

=============================================================================
