------------------------- MODULE IntentLedgerProofs -------------------------
(***************************************************************************)
(* Proofs about IntentLedger, for every set of intents, symbols and order  *)
(* numbers: the inductive invariant, and from it the safety properties     *)
(* that the run of MCIntentLedger checks on three intents.                 *)
(***************************************************************************)
EXTENDS IntentLedger, TLAPS

(***************************************************************************)
(* Lemmas on what the first n rows of a log say.                           *)
(***************************************************************************)

(* Appending a row changes nothing of what the earlier rows say. *)
LEMMA AppendKeepsPrefix ==
    ASSUME NEW log \in Seq(Row), NEW r \in Row, NEW i, NEW n \in 0 .. Len(log)
    PROVE  /\ RowsOf(Append(log, r), i, n) = RowsOf(log, i, n)
           /\ StateAt(Append(log, r), i, n) = StateAt(log, i, n)
           /\ \A o : MappedAt(Append(log, r), o, i, n) <=> MappedAt(log, o, i, n)
           /\ \A b : MarkedAt(Append(log, r), i, b, n) <=> MarkedAt(log, i, b, n)
<1>1. \A k \in 1 .. n : Append(log, r)[k] = log[k]
  OBVIOUS
<1>2. RowsOf(Append(log, r), i, n) = RowsOf(log, i, n)
  BY <1>1 DEF RowsOf
<1>3. \A k \in 1 .. n :
          IsLastRow(Append(log, r), i, n, k) <=> IsLastRow(log, i, n, k)
  BY <1>1 DEF IsLastRow
<1>4. (CHOOSE k \in 1 .. n : IsLastRow(Append(log, r), i, n, k))
        = (CHOOSE k \in 1 .. n : IsLastRow(log, i, n, k))
  BY <1>3
<1>5. StateAt(Append(log, r), i, n) = StateAt(log, i, n)
  BY <1>1, <1>3, <1>4 DEF StateAt
<1> QED
  BY <1>1, <1>2, <1>5 DEF MappedAt, MarkedAt, RowsOf

(* One more row changes the state of its own intent only ... *)
LEMMA NextState ==
    ASSUME NEW log \in Seq(Row), NEW i, NEW n \in 0 .. Len(log), n < Len(log)
    PROVE  StateAt(log, i, n + 1) = IF log[n + 1].intent = i
                                    THEN log[n + 1].target
                                    ELSE StateAt(log, i, n)
<1>1. CASE log[n + 1].intent = i
  <2>1. \A k \in 1 .. n + 1 : IsLastRow(log, i, n + 1, k) => k = n + 1
    <3> SUFFICES ASSUME NEW k \in 1 .. n + 1, IsLastRow(log, i, n + 1, k),
                        k # n + 1
                 PROVE  FALSE
      OBVIOUS
    <3>1. n + 1 \in k + 1 .. n + 1
      OBVIOUS
    <3> QED
      BY <1>1, <3>1 DEF IsLastRow
  <2>2. IsLastRow(log, i, n + 1, n + 1)
    BY <1>1 DEF IsLastRow
  <2>3. \A k \in 1 .. n + 1 : IsLastRow(log, i, n + 1, k) <=> k = n + 1
    BY <2>1, <2>2
  <2>4. (CHOOSE k \in 1 .. n + 1 : IsLastRow(log, i, n + 1, k)) = n + 1
    BY <2>3
  <2>5. StateAt(log, i, n + 1) = log[n + 1].target
    BY <2>3, <2>4 DEF StateAt
  <2> QED
    BY <1>1, <2>5
<1>2. CASE log[n + 1].intent # i
  <2>1. \A k \in 1 .. n :
            IsLastRow(log, i, n + 1, k) <=> IsLastRow(log, i, n, k)
    <3> TAKE k \in 1 .. n
    <3>1. k + 1 .. n + 1 = (k + 1 .. n) \union {n + 1}
      OBVIOUS
    <3> QED
      BY <1>2, <3>1 DEF IsLastRow
  <2>2. \A k : /\ k \in 1 .. n + 1
               /\ IsLastRow(log, i, n + 1, k)
               <=> k \in 1 .. n /\ IsLastRow(log, i, n, k)
    BY <1>2, <2>1 DEF IsLastRow
  <2>3. (CHOOSE k \in 1 .. n + 1 : IsLastRow(log, i, n + 1, k))
          = (CHOOSE k \in 1 .. n : IsLastRow(log, i, n, k))
    BY <2>2
  <2>4. StateAt(log, i, n + 1) = StateAt(log, i, n)
    BY <2>2, <2>3 DEF StateAt, IsLastRow, RowsOf
  <2> QED
    BY <1>2, <2>4
<1> QED
  BY <1>1, <1>2

(* ... the owner of its own order number only ... *)
LEMMA NextMapped ==
    ASSUME NEW log \in Seq(Row), NEW i, NEW o, NEW n \in 0 .. Len(log),
           n < Len(log)
    PROVE  MappedAt(log, o, i, n + 1)
             <=> \/ MappedAt(log, o, i, n)
                 \/ /\ log[n + 1].intent = i
                    /\ log[n + 1].target = "ACCEPTED"
                    /\ log[n + 1].order = o
BY DEF MappedAt, RowsOf

(* ... and the write-budget mark of its own intent only. *)
LEMMA NextMarked ==
    ASSUME NEW log \in Seq(Row), NEW i, NEW b, NEW n \in 0 .. Len(log),
           n < Len(log)
    PROVE  MarkedAt(log, i, b, n + 1)
             <=> \/ MarkedAt(log, i, b, n)
                 \/ /\ log[n + 1].intent = i
                    /\ log[n + 1].target = "SENDING"
                    /\ log[n + 1].budget = b
BY DEF MarkedAt, RowsOf

(* A row that carries an order number exactly when it accepts. *)
OrderShape(r) == (r.target = "ACCEPTED") <=> (r.order # NoOrder)

(* Where the moves of domain/intent.py can lead. *)
LEMMA AllowedMoves ==
    ASSUME NEW s \in EntryState, NEW t \in Allowed(s)
    PROVE  /\ t \in IntentState
           /\ t # "ABSENT"
           /\ t = "RECORDED" <=> s = "ABSENT"
           /\ t = "SENDING" => s = "RECORDED"
           /\ t = "ACCEPTED" => s \in InFlightStates
           /\ s # "ACCEPTED"
           /\ t \in InFlightStates => s = "RECORDED" \/ s \in InFlightStates
           /\ s \in InFlightStates => t # "SENDING"
BY DEF Allowed, EntryState, IntentState, SendOutcome, InFlightStates

(* _apply of a validated row keeps the types, and the entries in order. *)
LEMMA ApplyTyped ==
    ASSUME NEW ents \in [Intents -> Entry],
           NEW omap \in [OrderIds -> Intents \union {NoIntent}],
           NEW r \in Row, Valid(ents, omap, r), InOrder(ents), OrderShape(r)
    PROVE  /\ ApplyEntry(ents, r) \in [Intents -> Entry]
           /\ ApplyOrder(omap, r) \in [OrderIds -> Intents \union {NoIntent}]
           /\ InOrder(ApplyEntry(ents, r))
<1>1. r.intent \in Intents /\ r.target \in IntentState /\ r.source \in EntryState
      /\ r.order \in OrderIds \union {NoOrder} /\ r.budget \in BudgetMark
  BY DEF Row
<1>2. ApplyEntry(ents, r) \in [Intents -> Entry]
  BY <1>1 DEF ApplyEntry, Entry, EntryState
<1>3. ApplyOrder(omap, r) \in [OrderIds -> Intents \union {NoIntent}]
  BY <1>1 DEF ApplyOrder
<1>4. r.source = ents[r.intent].state /\ r.target \in Allowed(r.source)
  BY DEF Valid
<1>5. InOrder(ApplyEntry(ents, r))
  <2>1. SUFFICES ASSUME NEW i \in Intents
                 PROVE  LET e == ApplyEntry(ents, r)[i]
                        IN  /\ e.state \in {"ABSENT", "RECORDED"}
                                  => e.budget = "unmarked"
                            /\ e.state # "ACCEPTED" => e.order = NoOrder
    BY DEF InOrder
  <2>2. CASE i # r.intent
    BY <2>2, <1>1 DEF ApplyEntry, InOrder
  <2>3. CASE i = r.intent
    <3>1. /\ r.target = "RECORDED" <=> ents[i].state = "ABSENT"
          /\ r.target # "ABSENT"
          /\ ents[i].state # "ACCEPTED"
          /\ r.target = "SENDING" => ents[i].state = "RECORDED"
      BY <2>3, <1>1, <1>4, AllowedMoves
    <3>2. ents[i].order = NoOrder
      BY <3>1 DEF InOrder
    <3>3. ApplyEntry(ents, r)[i].state = r.target
      BY <2>3, <1>1 DEF ApplyEntry
    <3>4. ApplyEntry(ents, r)[i].order = r.order
      BY <2>3, <1>1, <3>2 DEF ApplyEntry
    <3>5. r.target # "SENDING" => ApplyEntry(ents, r)[i].budget = ents[i].budget
      BY <2>3, <1>1 DEF ApplyEntry
    <3>6. r.target = "RECORDED" => ents[i].budget = "unmarked"
      BY <3>1 DEF InOrder
    <3> QED
      BY <3>1, <3>3, <3>4, <3>5, <3>6 DEF OrderShape
  <2> QED
    BY <2>2, <2>3
<1> QED
  BY <1>2, <1>3, <1>5

(* A view of n rows, after _apply of row n + 1, is the view of n + 1 rows. *)
LEMMA ApplyReflects ==
    ASSUME NEW ents \in [Intents -> Entry],
           NEW omap \in [OrderIds -> Intents \union {NoIntent}],
           NEW log \in Seq(Row), NEW n \in 0 .. Len(log), n < Len(log),
           Valid(ents, omap, log[n + 1]), OrderShape(log[n + 1]),
           InOrder(ents), Reflects(ents, omap, log, n)
    PROVE  Reflects(ApplyEntry(ents, log[n + 1]), ApplyOrder(omap, log[n + 1]),
                    log, n + 1)
<1> DEFINE r == log[n + 1]
           newE == ApplyEntry(ents, r)
           newO == ApplyOrder(omap, r)
<1>1. r \in Row
  OBVIOUS
<1>2. /\ r.intent \in Intents
      /\ r.target \in IntentState
      /\ r.source \in EntryState
      /\ r.order \in OrderIds \union {NoOrder}
      /\ r.source = ents[r.intent].state
      /\ r.target \in Allowed(r.source)
  BY <1>1 DEF Row, Valid
<1>3. SUFFICES ASSUME NEW i \in Intents
               PROVE  /\ newE[i].state = StateAt(log, i, n + 1)
                      /\ \A o \in OrderIds :
                            /\ (newE[i].order = o) <=> MappedAt(log, o, i, n + 1)
                            /\ (newO[o] = i) <=> MappedAt(log, o, i, n + 1)
                      /\ \A b \in {"consumed", "exempt"} :
                            (newE[i].budget = b) <=> MarkedAt(log, i, b, n + 1)
  BY DEF Reflects
<1>4. newE[i].state = StateAt(log, i, n + 1)
  <2>1. newE[i].state = IF r.intent = i THEN r.target ELSE ents[i].state
    BY <1>2 DEF ApplyEntry
  <2> QED
    BY <2>1, NextState DEF Reflects
<1>5. ASSUME NEW o \in OrderIds
      PROVE  (newE[i].order = o) <=> MappedAt(log, o, i, n + 1)
  <2>1. MappedAt(log, o, i, n + 1)
          <=> (ents[i].order = o \/ (r.intent = i /\ r.target = "ACCEPTED" /\ r.order = o))
    <3>1. MappedAt(log, o, i, n) <=> ents[i].order = o
      BY DEF Reflects
    <3>2. MappedAt(log, o, i, n + 1)
            <=> \/ MappedAt(log, o, i, n)
                \/ r.intent = i /\ r.target = "ACCEPTED" /\ r.order = o
      BY NextMapped
    <3> QED
      BY <3>1, <3>2
  <2>2. CASE r.intent # i
    BY <2>1, <2>2, <1>2 DEF ApplyEntry
  <2>3. CASE r.intent = i
    <3>1. ents[i].order = NoOrder
      BY <2>3, <1>2, AllowedMoves DEF InOrder
    <3>2. newE[i].order = r.order
      BY <2>3, <1>2, <3>1 DEF ApplyEntry
    <3> QED
      BY <2>1, <2>3, <3>1, <3>2, NoOrderAssumption DEF OrderShape
  <2> QED
    BY <2>2, <2>3
<1>6. ASSUME NEW o \in OrderIds
      PROVE  (newO[o] = i) <=> MappedAt(log, o, i, n + 1)
  <2>1. MappedAt(log, o, i, n + 1)
          <=> (omap[o] = i \/ (r.intent = i /\ r.target = "ACCEPTED" /\ r.order = o))
    <3>1. MappedAt(log, o, i, n) <=> omap[o] = i
      BY DEF Reflects
    <3>2. MappedAt(log, o, i, n + 1)
            <=> \/ MappedAt(log, o, i, n)
                \/ r.intent = i /\ r.target = "ACCEPTED" /\ r.order = o
      BY NextMapped
    <3> QED
      BY <3>1, <3>2
  <2>2. CASE r.target = "ACCEPTED"
    <3>1. r.order \in OrderIds /\ omap[r.order] = NoIntent
      BY <2>2 DEF Valid
    <3>2. newO = [omap EXCEPT ![r.order] = r.intent]
      BY <2>2, <3>1, NoOrderAssumption DEF ApplyOrder
    <3> QED
      BY <2>1, <2>2, <3>1, <3>2, NoIntentAssumption
  <2>3. CASE r.target # "ACCEPTED"
    <3>1. newO = omap
      BY <2>3 DEF ApplyOrder
    <3> QED
      BY <2>1, <2>3, <3>1
  <2> QED
    BY <2>2, <2>3
<1>7. ASSUME NEW b \in {"consumed", "exempt"}
      PROVE  (newE[i].budget = b) <=> MarkedAt(log, i, b, n + 1)
  <2>1. MarkedAt(log, i, b, n + 1)
          <=> (ents[i].budget = b \/ (r.intent = i /\ r.target = "SENDING" /\ r.budget = b))
    <3>1. MarkedAt(log, i, b, n) <=> ents[i].budget = b
      BY DEF Reflects
    <3>2. MarkedAt(log, i, b, n + 1)
            <=> \/ MarkedAt(log, i, b, n)
                \/ r.intent = i /\ r.target = "SENDING" /\ r.budget = b
      BY NextMarked
    <3> QED
      BY <3>1, <3>2
  <2>2. CASE r.intent # i
    BY <2>1, <2>2, <1>2 DEF ApplyEntry
  <2>3. CASE r.intent = i /\ r.target # "SENDING"
    <3>1. newE[i].budget = ents[i].budget
      BY <2>3, <1>2 DEF ApplyEntry
    <3> QED
      BY <2>1, <2>3, <3>1
  <2>4. CASE r.intent = i /\ r.target = "SENDING"
    <3>1. ents[i].state = "RECORDED"
      BY <2>4, <1>2, AllowedMoves
    <3>2. ents[i].budget = "unmarked"
      BY <3>1 DEF InOrder
    <3>3. newE[i].budget = r.budget
      BY <2>4, <1>2, <3>2 DEF ApplyEntry
    <3> QED
      BY <2>1, <2>4, <3>2, <3>3
  <2> QED
    BY <2>2, <2>3, <2>4
<1> QED
  BY <1>4, <1>5, <1>6, <1>7

(* A row that is valid for a view of the whole log is justified at its end,*)
(* and keeps the log justified and its symbols free of a second send.      *)
LEMMA ValidRowJustified ==
    ASSUME NEW ents \in [Intents -> Entry],
           NEW omap \in [OrderIds -> Intents \union {NoIntent}],
           NEW log \in Seq(Row), NEW r \in Row,
           Valid(ents, omap, r), OrderShape(r),
           Reflects(ents, omap, log, Len(log)), LogJustified(log)
    PROVE  LogJustified(Append(log, r))
<1> DEFINE new == Append(log, r)
<1>1. /\ new \in Seq(Row)
      /\ Len(new) = Len(log) + 1
      /\ new[Len(log) + 1] = r
      /\ \A k \in 1 .. Len(log) : new[k] = log[k]
      /\ Len(log) \in Nat
  OBVIOUS
<1>2. \A n \in 0 .. Len(log) : \A i :
          /\ StateAt(new, i, n) = StateAt(log, i, n)
          /\ \A o : MappedAt(new, o, i, n) <=> MappedAt(log, o, i, n)
  BY AppendKeepsPrefix
<1>3. ASSUME NEW n \in 1 .. Len(log)
      PROVE  RowJustified(new, n)
  <2>1. n - 1 \in 0 .. Len(log) /\ new[n] = log[n]
    BY <1>1
  <2>2. RowJustified(log, n)
    BY DEF LogJustified
  <2>3. \A i : /\ StateAt(new, i, n - 1) = StateAt(log, i, n - 1)
               /\ \A o : MappedAt(new, o, i, n - 1) <=> MappedAt(log, o, i, n - 1)
    BY <1>2, <2>1
  <2> HIDE DEF new
  <2> QED
    BY <2>1, <2>2, <2>3 DEF RowJustified
<1>4. RowJustified(new, Len(log) + 1)
  <2>1. (Len(log) + 1) - 1 = Len(log)
    BY <1>1
  <2>2. r.intent \in Intents /\ r.order \in OrderIds \union {NoOrder}
    BY DEF Row
  <2>3. \A i \in Intents : ents[i].state = StateAt(new, i, Len(log))
    BY <1>1, <1>2 DEF Reflects
  <2>4. \A i \in Intents, o \in OrderIds :
            (omap[o] = i) <=> MappedAt(new, o, i, Len(log))
    <3> TAKE i \in Intents, o \in OrderIds
    <3>1. (omap[o] = i) <=> MappedAt(log, o, i, Len(log))
      BY DEF Reflects
    <3>2. Len(log) \in 0 .. Len(log)
      BY <1>1
    <3>3. MappedAt(new, o, i, Len(log)) <=> MappedAt(log, o, i, Len(log))
      BY <1>2, <3>2
    <3> QED
      BY <3>1, <3>3
  <2>5. r.target = "ACCEPTED" =>
            \A i \in Intents : ~MappedAt(new, r.order, i, Len(log))
    BY <2>2, <2>4, NoIntentAssumption DEF Valid
  <2>6. r.target = "SENDING" =>
            \A i \in Intents :
                SymbolOf[i] = SymbolOf[r.intent] =>
                    StateAt(new, i, Len(log)) \notin InFlightStates
    BY <2>2, <2>3 DEF Valid, InFlight
  <2>7. /\ r.source = StateAt(new, r.intent, Len(log))
        /\ r.target \in Allowed(r.source)
        /\ r.source \in QueryRequiredStates => r.evidence
    BY <2>2, <2>3 DEF Valid
  <2> HIDE DEF new
  <2> QED
    BY <1>1, <2>1, <2>5, <2>6, <2>7 DEF RowJustified, OrderShape
<1>5. \A n \in 1 .. Len(new) : n \in 1 .. Len(log) \/ n = Len(log) + 1
  BY <1>1
<1> HIDE DEF new
<1>6. LogJustified(new)
  BY <1>3, <1>4, <1>5 DEF LogJustified
<1> QED
  BY <1>6 DEF new

(* A justified next row passes _validate against a view of the rows before *)
(* it: the replay can never raise LedgerCorrupt.                           *)
LEMMA JustifiedRowValid ==
    ASSUME NEW ents \in [Intents -> Entry],
           NEW omap \in [OrderIds -> Intents \union {NoIntent}],
           NEW log \in Seq(Row), NEW n \in 0 .. Len(log), n < Len(log),
           Reflects(ents, omap, log, n), LogJustified(log)
    PROVE  Valid(ents, omap, log[n + 1]) /\ OrderShape(log[n + 1])
<1> DEFINE r == log[n + 1]
<1>1. r \in Row /\ n + 1 \in 1 .. Len(log) /\ (n + 1) - 1 = n
  OBVIOUS
<1>2. r.intent \in Intents /\ r.order \in OrderIds \union {NoOrder}
  BY <1>1 DEF Row
<1>3. RowJustified(log, n + 1)
  BY <1>1 DEF LogJustified
<1>4. /\ r.source = StateAt(log, r.intent, n)
      /\ r.target \in Allowed(r.source)
      /\ r.source \in QueryRequiredStates => r.evidence
      /\ (r.target = "ACCEPTED") <=> (r.order # NoOrder)
      /\ r.target = "ACCEPTED" =>
             \A i \in Intents : ~MappedAt(log, r.order, i, n)
      /\ r.target = "SENDING" =>
             \A i \in Intents :
                 SymbolOf[i] = SymbolOf[r.intent] =>
                     StateAt(log, i, n) \notin InFlightStates
  BY <1>1, <1>3 DEF RowJustified
<1>5. \A i \in Intents : ents[i].state = StateAt(log, i, n)
  BY DEF Reflects
<1>6. \A i \in Intents, o \in OrderIds : (omap[o] = i) <=> MappedAt(log, o, i, n)
  BY DEF Reflects
<1>7. r.target = "ACCEPTED" => r.order \in OrderIds /\ omap[r.order] = NoIntent
  BY <1>2, <1>4, <1>6
<1>8. r.target = "SENDING" => InFlight(ents, SymbolOf[r.intent]) = {}
  BY <1>4, <1>5 DEF InFlight
<1> QED
  BY <1>2, <1>4, <1>5, <1>7, <1>8 DEF Valid, OrderShape

(* A valid row leaves at most one intent of a symbol in flight. *)
LEMMA ValidRowOneInFlight ==
    ASSUME NEW ents \in [Intents -> Entry],
           NEW omap \in [OrderIds -> Intents \union {NoIntent}],
           NEW log \in Seq(Row), NEW r \in Row, Valid(ents, omap, r),
           Reflects(ents, omap, log, Len(log)), OneInFlightIn(log)
    PROVE  OneInFlightIn(Append(log, r))
<1> DEFINE new == Append(log, r)
<1>1. /\ new \in Seq(Row) /\ Len(new) = Len(log) + 1 /\ new[Len(log) + 1] = r
      /\ Len(log) \in 0 .. Len(log) /\ Len(log) \in 0 .. Len(new)
      /\ Len(log) < Len(new)
  OBVIOUS
<1>2. \A i \in Intents : StateAt(log, i, Len(log)) = ents[i].state
  BY DEF Reflects
<1>3. ASSUME NEW i \in Intents
      PROVE  StateAt(new, i, Len(new)) = IF r.intent = i THEN r.target
                                         ELSE ents[i].state
  <2>1. StateAt(new, i, Len(log)) = ents[i].state
    BY <1>1, <1>2, AppendKeepsPrefix
  <2> HIDE DEF new
  <2>2. StateAt(new, i, Len(log) + 1) = IF new[Len(log) + 1].intent = i
                                        THEN new[Len(log) + 1].target
                                        ELSE StateAt(new, i, Len(log))
    BY <1>1, NextState
  <2> QED
    BY <1>1, <2>1, <2>2
<1>4. r.intent \in Intents /\ r.source \in EntryState
  BY DEF Row
<1>5. /\ r.target \in Allowed(ents[r.intent].state)
      /\ ents[r.intent].state \in EntryState
      /\ r.target = "SENDING" => InFlight(ents, SymbolOf[r.intent]) = {}
  BY <1>4 DEF Valid
<1>6. r.target \in InFlightStates =>
          \/ ents[r.intent].state \in InFlightStates
          \/ r.target = "SENDING"
  BY <1>5 DEF Allowed, EntryState, IntentState, SendOutcome, InFlightStates
<1>7. ASSUME NEW j \in Intents, j # r.intent, SymbolOf[j] = SymbolOf[r.intent],
             r.target \in InFlightStates, ents[j].state \in InFlightStates
      PROVE  FALSE
  <2>1. CASE ents[r.intent].state \in InFlightStates
    BY <1>2, <1>4, <1>7, <2>1 DEF OneInFlightIn
  <2>2. CASE r.target = "SENDING"
    BY <1>5, <1>7, <2>2 DEF InFlight
  <2> QED
    BY <1>6, <1>7, <2>1, <2>2
<1> HIDE DEF new
<1>8. OneInFlightIn(new)
  <2>1. SUFFICES ASSUME NEW i \in Intents, NEW j \in Intents,
                        SymbolOf[i] = SymbolOf[j],
                        StateAt(new, i, Len(new)) \in InFlightStates,
                        StateAt(new, j, Len(new)) \in InFlightStates,
                        i # j
                 PROVE  FALSE
    BY DEF OneInFlightIn
  <2>2. CASE i = r.intent
    BY <1>3, <1>7, <2>1, <2>2
  <2>3. CASE j = r.intent
    BY <1>3, <1>7, <2>1, <2>3
  <2>4. CASE i # r.intent /\ j # r.intent
    BY <1>2, <1>3, <2>1, <2>4 DEF OneInFlightIn
  <2> QED
    BY <2>2, <2>3, <2>4
<1> QED
  BY <1>8 DEF new

(* An empty memory view reflects no rows at all. *)
LEMMA EmptyReflects ==
    ASSUME NEW log
    PROVE  /\ NoEntries \in [Intents -> Entry]
           /\ NoOrders \in [OrderIds -> Intents \union {NoIntent}]
           /\ InOrder(NoEntries)
           /\ Reflects(NoEntries, NoOrders, log, 0)
<1>1. \A i : RowsOf(log, i, 0) = {}
  BY DEF RowsOf
<1>2. \A i \in Intents : NoEntries[i].state = StateAt(log, i, 0)
  BY DEF StateAt, NoEntries, NewEntry
<1>3. \A i \in Intents, o \in OrderIds : ~MappedAt(log, o, i, 0)
  BY <1>1 DEF MappedAt
<1>4. \A i \in Intents, b \in {"consumed", "exempt"} : ~MarkedAt(log, i, b, 0)
  BY <1>1 DEF MarkedAt
<1>5. Reflects(NoEntries, NoOrders, log, 0)
  BY <1>2, <1>3, <1>4, NoOrderAssumption, NoIntentAssumption
     DEF Reflects, NoEntries, NewEntry, NoOrders
<1> QED
  BY <1>5 DEF NoEntries, NewEntry, NoOrders, Entry, EntryState, BudgetMark, InOrder

(***************************************************************************)
(* The three ways an append can end, from a ledger in use.                 *)
(***************************************************************************)

(* A validated row keeps the file justified, whatever becomes of memory. *)
LEMMA DurableRow ==
    ASSUME LedgerInvariant, mode \in {"open", "marking"},
           NEW r \in Row, Valid(entries, orderMap, r), OrderShape(r)
    PROVE  /\ Append(rows, r) \in Seq(Row)
           /\ LogJustified(Append(rows, r))
           /\ OneInFlightIn(Append(rows, r))
<1>1. /\ rows \in Seq(Row)
      /\ entries \in [Intents -> Entry]
      /\ orderMap \in [OrderIds -> Intents \union {NoIntent}]
      /\ Reflects(entries, orderMap, rows, Len(rows))
      /\ LogJustified(rows)
      /\ OneInFlightIn(rows)
  BY DEF LedgerInvariant, TypeOK, RowsSeen, OneInFlightOnDisk
<1> QED
  BY <1>1, ValidRowJustified, ValidRowOneInFlight

(* The row is written and applied. *)
LEMMA AppliedInvariant ==
    ASSUME LedgerInvariant, mode \in {"open", "marking"},
           NEW r \in Row, Valid(entries, orderMap, r), OrderShape(r),
           AppendAndApply(r), mode' \in {"open", "marking"},
           toMark' \in SUBSET Intents
    PROVE  LedgerInvariant'
<1> USE DEF AppendAndApply
<1>1. /\ rows \in Seq(Row)
      /\ entries \in [Intents -> Entry]
      /\ orderMap \in [OrderIds -> Intents \union {NoIntent}]
      /\ InOrder(entries)
      /\ Reflects(entries, orderMap, rows, Len(rows))
  BY DEF LedgerInvariant, TypeOK, RowsSeen
<1>2. /\ rows' \in Seq(Row)
      /\ Len(rows') = Len(rows) + 1
      /\ rows'[Len(rows) + 1] = r
      /\ Len(rows) \in 0 .. Len(rows)
      /\ Len(rows) \in 0 .. Len(rows')
      /\ Len(rows) < Len(rows')
  BY <1>1
<1>3. LogJustified(rows') /\ OneInFlightIn(rows')
  BY DurableRow
<1>4. /\ entries' \in [Intents -> Entry]
      /\ orderMap' \in [OrderIds -> Intents \union {NoIntent}]
      /\ InOrder(entries')
  BY <1>1, ApplyTyped
<1>5. Reflects(entries, orderMap, rows', Len(rows))
  BY <1>1, <1>2, AppendKeepsPrefix DEF Reflects
<1>6. Reflects(entries', orderMap', rows', Len(rows'))
  BY <1>1, <1>2, <1>5, ApplyReflects
<1>7. RowsSeen' = Len(rows')
  BY DEF RowsSeen
<1>8. TypeOK'
  BY <1>2, <1>4 DEF LedgerInvariant, TypeOK, Mode
<1>9. RecoveryInOrder'
  BY <1>2 DEF LedgerInvariant, RecoveryInOrder
<1> QED
  BY <1>3, <1>4, <1>6, <1>7, <1>8, <1>9
     DEF LedgerInvariant, NeverCorrupt, OneInFlightOnDisk

(* Memory is forgotten; the file may have one more justified row. *)
LEMMA ForgottenInvariant ==
    ASSUME ForgetMemory, rows' \in Seq(Row), LogJustified(rows'),
           OneInFlightIn(rows'), torn' \in SUBSET Intents,
           sidecar' \in SUBSET Intents
    PROVE  LedgerInvariant'
<1>1. /\ mode' = "down" /\ pos' = 0 /\ toMark' = {}
      /\ entries' = NoEntries /\ orderMap' = NoOrders
  BY DEF ForgetMemory
<1>2. /\ entries' \in [Intents -> Entry]
      /\ orderMap' \in [OrderIds -> Intents \union {NoIntent}]
      /\ InOrder(entries')
      /\ Reflects(entries', orderMap', rows', 0)
  BY <1>1, EmptyReflects
<1>3. TypeOK'
  BY <1>1, <1>2 DEF TypeOK, Mode
<1>4. Reflects(entries', orderMap', rows', RowsSeen')
  BY <1>1, <1>2 DEF RowsSeen
<1>5. RecoveryInOrder'
  BY <1>1 DEF RecoveryInOrder
<1> QED
  BY <1>1, <1>2, <1>3, <1>4, <1>5
     DEF LedgerInvariant, NeverCorrupt, OneInFlightOnDisk

(* Every operation that writes one row from an open ledger. *)
LEMMA WriteInvariant ==
    ASSUME LedgerInvariant, NEW r \in Row, OrderShape(r), Write(r)
    PROVE  LedgerInvariant'
<1>1. mode = "open" /\ Valid(entries, orderMap, r)
  BY DEF Write
<1>2. CASE AppendAndApply(r) /\ UNCHANGED <<mode, toMark>>
  <2>1. toMark' \in SUBSET Intents
    BY <1>2 DEF LedgerInvariant, TypeOK
  <2> QED
    BY <1>1, <1>2, <2>1, AppliedInvariant
<1>3. CASE AppendThenCrash(r)
  BY <1>1, <1>3, DurableRow, ForgottenInvariant
     DEF AppendThenCrash, LedgerInvariant, TypeOK
<1>4. CASE TearThenCrash(r)
  <2>1. r.intent \in Intents
    BY DEF Row
  <2> QED
    BY <1>4, <2>1, ForgottenInvariant
       DEF TearThenCrash, LedgerInvariant, TypeOK, OneInFlightOnDisk
<1> QED
  BY <1>2, <1>3, <1>4 DEF Write

(* The rows the operations write are typed, and only ACCEPTED rows carry an*)
(* order number.                                                           *)
LEMMA RowForTyped ==
    ASSUME TypeOK, NEW i \in Intents, NEW t \in IntentState,
           NEW o \in OrderIds \union {NoOrder}, NEW ev \in BOOLEAN,
           NEW b \in BudgetMark
    PROVE  /\ RowFor(i, t, o, ev, b) \in Row
           /\ RowFor(i, t, o, ev, b).target = t
           /\ RowFor(i, t, o, ev, b).order = o
<1>1. entries[i].state \in EntryState
  BY DEF TypeOK, Entry
<1> QED
  BY <1>1 DEF RowFor, Row

(* An operation of the ledger, whichever it is, is the write of one typed  *)
(* row: in an open ledger, or as the next row of mark_interrupted_sends.   *)
LEMMA OperationWrites ==
    ASSUME TypeOK, NEW i \in Intents, Operation(i)
    PROVE  \E r \in Row : /\ OrderShape(r)
                         /\ r.intent = i
                         /\ \/ Write(r)
                            \/ MarkNext(i) /\ r = PlainRow(i, "SEND_TIMEOUT")
<1>1. ASSUME NEW t \in IntentState, t # "ACCEPTED"
      PROVE  /\ PlainRow(i, t) \in Row /\ OrderShape(PlainRow(i, t))
             /\ PlainRow(i, t).intent = i
  BY <1>1, RowForTyped DEF PlainRow, OrderShape, BudgetMark, RowFor
<1>2. ASSUME NEW t \in IntentState, t # "ACCEPTED", NEW ev \in BOOLEAN,
             NEW b \in BudgetMark
      PROVE  /\ RowFor(i, t, NoOrder, ev, b) \in Row
             /\ OrderShape(RowFor(i, t, NoOrder, ev, b))
             /\ RowFor(i, t, NoOrder, ev, b).intent = i
  BY <1>2, RowForTyped DEF OrderShape, RowFor
<1>3. ASSUME NEW o \in OrderIds, NEW ev \in BOOLEAN
      PROVE  /\ RowFor(i, "ACCEPTED", o, ev, "unmarked") \in Row
             /\ OrderShape(RowFor(i, "ACCEPTED", o, ev, "unmarked"))
             /\ RowFor(i, "ACCEPTED", o, ev, "unmarked").intent = i
  <2>1. "ACCEPTED" \in IntentState /\ "unmarked" \in BudgetMark
    BY DEF IntentState, BudgetMark
  <2>2. /\ RowFor(i, "ACCEPTED", o, ev, "unmarked") \in Row
        /\ RowFor(i, "ACCEPTED", o, ev, "unmarked").target = "ACCEPTED"
        /\ RowFor(i, "ACCEPTED", o, ev, "unmarked").order = o
    BY <2>1, RowForTyped
  <2>3. RowFor(i, "ACCEPTED", o, ev, "unmarked").intent = i
    BY DEF RowFor
  <2> QED
    BY <2>2, <2>3, NoOrderAssumption DEF OrderShape
<1>4. CASE RecordIntent(i) \/ GateReject(i) \/ Reject(i) \/ MarkSendTimeout(i)
           \/ BlockDryRun(i) \/ PaperReject(i)
  BY <1>1, <1>4
     DEF RecordIntent, GateReject, Reject, MarkSendTimeout, BlockDryRun,
         PaperReject, IntentState
<1>5. CASE PaperFill(i) \/ ResolveTimeoutFailed(i)
  BY <1>2, <1>5 DEF PaperFill, ResolveTimeoutFailed, IntentState, BudgetMark
<1>6. ASSUME NEW b \in {"consumed", "exempt"}, BeginSend(i, b)
      PROVE  \E r \in Row : OrderShape(r) /\ r.intent = i /\ Write(r)
  BY <1>2, <1>6 DEF BeginSend, IntentState, BudgetMark
<1>7. ASSUME NEW o \in OrderIds, NEW ev \in BOOLEAN, Accept(i, o, ev)
      PROVE  \E r \in Row : OrderShape(r) /\ r.intent = i /\ Write(r)
  BY <1>3, <1>7 DEF Accept
<1>8. CASE MarkNext(i)
  BY <1>1, <1>8 DEF IntentState
<1> QED
  BY <1>4, <1>5, <1>6, <1>7, <1>8 DEF Operation

(* One row of mark_interrupted_sends. *)
LEMMA MarkNextInvariant ==
    ASSUME LedgerInvariant, NEW i \in Intents, MarkNext(i),
           PlainRow(i, "SEND_TIMEOUT") \in Row,
           OrderShape(PlainRow(i, "SEND_TIMEOUT"))
    PROVE  LedgerInvariant'
<1> DEFINE r == PlainRow(i, "SEND_TIMEOUT")
<1>1. /\ mode = "marking"
      /\ Valid(entries, orderMap, r)
      /\ \/ /\ AppendAndApply(r)
            /\ toMark' = toMark \ {i}
            /\ mode' = IF toMark' = {} THEN "open" ELSE "marking"
         \/ AppendThenCrash(r)
         \/ TearThenCrash(r)
  BY DEF MarkNext
<1>2. r \in Row /\ OrderShape(r) /\ r.intent \in Intents
  BY DEF Row
<1> HIDE DEF r
<1>3. CASE /\ AppendAndApply(r)
           /\ toMark' = toMark \ {i}
           /\ mode' = IF toMark' = {} THEN "open" ELSE "marking"
  <2>1. toMark' \in SUBSET Intents /\ mode' \in {"open", "marking"}
    BY <1>3 DEF LedgerInvariant, TypeOK
  <2> QED
    BY <1>1, <1>2, <1>3, <2>1, AppliedInvariant
<1>4. CASE AppendThenCrash(r)
  BY <1>1, <1>2, <1>4, DurableRow, ForgottenInvariant
     DEF AppendThenCrash, LedgerInvariant, TypeOK
<1>5. CASE TearThenCrash(r)
  BY <1>2, <1>5, ForgottenInvariant
     DEF TearThenCrash, LedgerInvariant, TypeOK, OneInFlightOnDisk
<1> QED
  BY <1>1, <1>3, <1>4, <1>5

(* One row of the replay: it is valid, so the ledger is not corrupt. *)
LEMMA ReplayInvariant ==
    ASSUME LedgerInvariant, ReplayRow
    PROVE  LedgerInvariant'
<1> DEFINE r == rows[pos + 1]
<1>1. /\ rows \in Seq(Row)
      /\ entries \in [Intents -> Entry]
      /\ orderMap \in [OrderIds -> Intents \union {NoIntent}]
      /\ mode = "replaying"
      /\ pos \in 0 .. Len(rows)
      /\ pos < Len(rows)
      /\ InOrder(entries)
      /\ LogJustified(rows)
      /\ Reflects(entries, orderMap, rows, pos)
  BY DEF LedgerInvariant, TypeOK, ReplayRow, RowsSeen, RecoveryInOrder
<1>2. Valid(entries, orderMap, r) /\ OrderShape(r)
  BY <1>1, JustifiedRowValid
<1>3. r \in Row
  BY <1>1
<1>4. /\ entries' = ApplyEntry(entries, r)
      /\ orderMap' = ApplyOrder(orderMap, r)
      /\ pos' = pos + 1
      /\ mode' = mode
      /\ UNCHANGED <<rows, torn, sidecar, toMark>>
  BY <1>2 DEF ReplayRow
<1>5. Reflects(entries', orderMap', rows, pos + 1)
  BY <1>1, <1>2, <1>4, ApplyReflects
<1>6. /\ entries' \in [Intents -> Entry]
      /\ orderMap' \in [OrderIds -> Intents \union {NoIntent}]
      /\ InOrder(entries')
  BY <1>1, <1>2, <1>3, <1>4, ApplyTyped
<1>7. RowsSeen' = pos + 1
  BY <1>1, <1>4 DEF RowsSeen
<1>8. Reflects(entries', orderMap', rows', RowsSeen')
  BY <1>4, <1>5, <1>7
<1>9. TypeOK'
  BY <1>1, <1>4, <1>6 DEF LedgerInvariant, TypeOK
<1>10. RecoveryInOrder'
  BY <1>1, <1>4 DEF LedgerInvariant, RecoveryInOrder
<1> QED
  BY <1>1, <1>4, <1>6, <1>8, <1>9, <1>10
     DEF LedgerInvariant, NeverCorrupt, OneInFlightOnDisk

(* The remaining steps change neither the file nor what memory shows of it.*)
LEMMA QuietInvariant ==
    ASSUME LedgerInvariant,
           \/ OpenIntact \/ WriteSidecar \/ TruncateTorn \/ FinishLoad
           \/ MarkInterruptedSends
    PROVE  LedgerInvariant'
<1>1. UNCHANGED <<rows, pos, entries, orderMap>>
  BY DEF OpenIntact, WriteSidecar, TruncateTorn, FinishLoad, MarkInterruptedSends
<1>2. RowsSeen' = RowsSeen
  BY DEF OpenIntact, WriteSidecar, TruncateTorn, FinishLoad,
         MarkInterruptedSends, RowsSeen, LedgerInvariant, RecoveryInOrder
<1>3. TypeOK'
  BY DEF OpenIntact, WriteSidecar, TruncateTorn, FinishLoad,
         MarkInterruptedSends, InterruptedSends, LedgerInvariant, TypeOK, Mode
<1>4. RecoveryInOrder'
  BY DEF OpenIntact, WriteSidecar, TruncateTorn, FinishLoad,
         MarkInterruptedSends, LedgerInvariant, RecoveryInOrder
<1>5. NeverCorrupt'
  BY DEF OpenIntact, WriteSidecar, TruncateTorn, FinishLoad,
         MarkInterruptedSends, NeverCorrupt
<1> QED
  BY <1>1, <1>2, <1>3, <1>4, <1>5
     DEF LedgerInvariant, OneInFlightOnDisk

(***************************************************************************)
(* The inductive invariant and what follows from it.                       *)
(***************************************************************************)
LEMMA InitInvariant ==
    ASSUME Init
    PROVE  LedgerInvariant
<1>1. rows = <<>> /\ Len(rows) = 0 /\ rows \in Seq(Row)
  BY DEF Init
<1>2. /\ entries \in [Intents -> Entry]
      /\ orderMap \in [OrderIds -> Intents \union {NoIntent}]
      /\ InOrder(entries)
      /\ Reflects(entries, orderMap, rows, 0)
  BY EmptyReflects DEF Init
<1>3. LogJustified(rows)
  BY <1>1 DEF LogJustified
<1>4. OneInFlightIn(rows)
  <2>1. \A i : StateAt(rows, i, 0) = "ABSENT"
    BY DEF StateAt
  <2> QED
    BY <1>1, <2>1 DEF OneInFlightIn, InFlightStates
<1>5. RowsSeen = 0
  BY DEF Init, RowsSeen
<1> QED
  BY <1>1, <1>2, <1>3, <1>4, <1>5
     DEF Init, LedgerInvariant, TypeOK, Mode, NeverCorrupt, RecoveryInOrder,
         OneInFlightOnDisk

(* Every action of the ledger keeps the inductive invariant. *)
LEMMA NextInvariant ==
    ASSUME LedgerInvariant, [Next]_vars
    PROVE  LedgerInvariant'
<1>1. ASSUME NEW i \in Intents, Operation(i)
      PROVE  LedgerInvariant'
  <2>1. PICK r \in Row : /\ OrderShape(r)
                         /\ \/ Write(r)
                            \/ MarkNext(i) /\ r = PlainRow(i, "SEND_TIMEOUT")
    BY <1>1, OperationWrites DEF LedgerInvariant
  <2> QED
    BY <2>1, WriteInvariant, MarkNextInvariant
<1>2. CASE MarkInterruptedSends
  BY <1>2, QuietInvariant
<1>3. CASE Load
  BY <1>3, QuietInvariant, ReplayInvariant DEF Load
<1>4. CASE Crash
  BY <1>4, ForgottenInvariant
     DEF Crash, LedgerInvariant, TypeOK, OneInFlightOnDisk
<1>5. CASE UNCHANGED vars
  BY <1>5
     DEF vars, LedgerInvariant, TypeOK, NeverCorrupt, RowsSeen, InOrder,
         Reflects, RecoveryInOrder, OneInFlightOnDisk
<1> QED
  BY <1>1, <1>2, <1>3, <1>4, <1>5 DEF Next

(* The invariant holds in every state of the ledger. *)
THEOREM LedgerInductive == Spec => []LedgerInvariant
<1>1. Init => LedgerInvariant
  BY InitInvariant
<1>2. LedgerInvariant /\ [Next]_vars => LedgerInvariant'
  BY NextInvariant
<1> QED
  BY <1>1, <1>2, PTL DEF Spec

(* Types of every variable. *)
THEOREM LedgerTypeCorrect == Spec => []TypeOK
BY LedgerInductive, PTL DEF LedgerInvariant

(* No crash, torn row or interrupted replay leaves a file that _load       *)
(* refuses.                                                                *)
THEOREM LedgerAlwaysLoads == Spec => []NeverCorrupt
BY LedgerInductive, PTL DEF LedgerInvariant

(* On disk at most one intent of a symbol is in flight. *)
THEOREM LedgerOneInFlight == Spec => []OneInFlightOnDisk
BY LedgerInductive, PTL DEF LedgerInvariant

(* A ledger in use shows exactly what its file says. *)
THEOREM LedgerMemoryDurable == Spec => []MemoryIsDurable
<1>1. LedgerInvariant => MemoryIsDurable
  BY DEF LedgerInvariant, MemoryIsDurable, RowsSeen
<1> QED
  BY <1>1, LedgerInductive, PTL

(* An order number is mapped by one row of the file. *)
THEOREM LedgerOrderUnique == Spec => []OrderOfOneIntent
<1>1. ASSUME LedgerInvariant
      PROVE  OrderOfOneIntent
  <2>1. rows \in Seq(Row) /\ LogJustified(rows)
    BY <1>1 DEF LedgerInvariant, TypeOK
  <2>2. ASSUME NEW k \in 1 .. Len(rows), NEW l \in 1 .. Len(rows), k < l,
               rows[k].target = "ACCEPTED", rows[l].target = "ACCEPTED",
               rows[k].order = rows[l].order
        PROVE  FALSE
    <3>1. RowJustified(rows, l)
      BY <2>1 DEF LogJustified
    <3>2. rows[k] \in Row /\ rows[k].intent \in Intents
      <4>1. rows[k] \in Row
        BY <2>1
      <4> QED
        BY <4>1 DEF Row
    <3>3. ~MappedAt(rows, rows[l].order, rows[k].intent, l - 1)
      BY <2>2, <3>1, <3>2 DEF RowJustified
    <3>4. k \in RowsOf(rows, rows[k].intent, l - 1)
      BY <2>1, <2>2 DEF RowsOf
    <3> QED
      BY <2>2, <3>3, <3>4 DEF MappedAt
  <2>3. \A k, l \in 1 .. Len(rows) : k < l \/ l < k \/ k = l
    BY <2>1
  <2> QED
    BY <2>2, <2>3 DEF OrderOfOneIntent
<1> QED
  BY <1>1, LedgerInductive, PTL

(* A torn row leaves the file only once a sidecar holds it. *)
THEOREM LedgerFragmentsKept == Spec => FragmentsKept
<1>1. ASSUME LedgerInvariant, [Next]_vars
      PROVE  [torn \subseteq torn' \union sidecar']_vars
  <2>1. ASSUME mode \in {"open", "marking"}
        PROVE  torn = {}
    BY <1>1, <2>1 DEF LedgerInvariant, RecoveryInOrder
  <2>2. ASSUME NEW i \in Intents, Operation(i)
        PROVE  torn = {}
    BY <2>1, <2>2
       DEF Operation, RecordIntent, GateReject, BeginSend, Accept, Reject,
           MarkSendTimeout, BlockDryRun, PaperFill, PaperReject,
           ResolveTimeoutFailed, MarkNext, Write
  <2>3. CASE MarkInterruptedSends
    BY <2>3 DEF MarkInterruptedSends
  <2>4. CASE Load
    BY <1>1, <2>4
       DEF Load, OpenIntact, WriteSidecar, TruncateTorn, ReplayRow, FinishLoad,
           LedgerInvariant, RecoveryInOrder
  <2>5. CASE Crash
    BY <2>5 DEF Crash
  <2> QED
    BY <1>1, <2>2, <2>3, <2>4, <2>5 DEF Next
<1> QED
  BY <1>1, LedgerInductive, PTL DEF Spec, FragmentsKept

(***************************************************************************)
(* The file implements the abstract life of the intents.                   *)
(***************************************************************************)

(* What a view of the whole log shows is the abstract state of the log. *)
LEMMA ViewIsAbstract ==
    ASSUME NEW ents \in [Intents -> Entry],
           NEW omap \in [OrderIds -> Intents \union {NoIntent}],
           NEW log, Reflects(ents, omap, log, Len(log))
    PROVE  /\ StateOf(log) = [i \in Intents |-> ents[i].state]
           /\ OwnerOf(log) = omap
<1>1. StateOf(log) = [i \in Intents |-> ents[i].state]
  BY DEF StateOf, Reflects
<1>2. \A i \in Intents, o \in OrderIds :
          (omap[o] = i) <=> MappedAt(log, o, i, Len(log))
  BY DEF Reflects
<1>3. ASSUME NEW o \in OrderIds
      PROVE  OwnerOf(log)[o] = omap[o]
  <2>1. CASE omap[o] = NoIntent
    <3>1. ~\E i \in Intents : MappedAt(log, o, i, Len(log))
      BY <1>2, <2>1, NoIntentAssumption
    <3> QED
      BY <2>1, <3>1 DEF OwnerOf
  <2>2. CASE omap[o] \in Intents
    <3>1. \A i \in Intents : MappedAt(log, o, i, Len(log)) <=> i = omap[o]
      BY <1>2
    <3>2. (CHOOSE i \in Intents : MappedAt(log, o, i, Len(log))) = omap[o]
      BY <2>2, <3>1
    <3> QED
      BY <2>2, <3>1, <3>2 DEF OwnerOf
  <2> QED
    BY <2>1, <2>2
<1>4. OwnerOf(log) = omap
  BY <1>3 DEF OwnerOf
<1> QED
  BY <1>1, <1>4

(* Both specifications read the same table of moves. *)
LEMMA SameTable ==
    /\ \A s : Lifecycle!Allowed(s) = Allowed(s)
    /\ Lifecycle!IntentState = IntentState
    /\ Lifecycle!InFlightStates = InFlightStates
<1>1. \A s : Lifecycle!Allowed(s) = Allowed(s)
  BY Zenon DEF Lifecycle!Allowed, Allowed, Lifecycle!SendOutcome, SendOutcome
<1> QED
  BY <1>1
     DEF Lifecycle!IntentState, IntentState, Lifecycle!InFlightStates,
         InFlightStates

(* A validated row is one step of the abstract life. *)
LEMMA RowIsLifecycleStep ==
    ASSUME LedgerInvariant, mode \in {"open", "marking"},
           NEW r \in Row, Valid(entries, orderMap, r), OrderShape(r),
           rows' = Append(rows, r)
    PROVE  Lifecycle!Next
<1> DEFINE newE == ApplyEntry(entries, r)
           newO == ApplyOrder(orderMap, r)
<1>1. /\ rows \in Seq(Row)
      /\ entries \in [Intents -> Entry]
      /\ orderMap \in [OrderIds -> Intents \union {NoIntent}]
      /\ InOrder(entries)
      /\ Reflects(entries, orderMap, rows, Len(rows))
  BY DEF LedgerInvariant, TypeOK, RowsSeen
<1>2. /\ rows' \in Seq(Row)
      /\ Len(rows') = Len(rows) + 1
      /\ rows'[Len(rows) + 1] = r
      /\ Len(rows) \in 0 .. Len(rows)
      /\ Len(rows) \in 0 .. Len(rows')
      /\ Len(rows) < Len(rows')
  BY <1>1
<1>3. Reflects(entries, orderMap, rows', Len(rows))
  BY <1>1, <1>2, AppendKeepsPrefix DEF Reflects
<1>4. Reflects(newE, newO, rows', Len(rows'))
  BY <1>1, <1>2, <1>3, ApplyReflects
<1>5. /\ newE \in [Intents -> Entry]
      /\ newO \in [OrderIds -> Intents \union {NoIntent}]
  BY <1>1, ApplyTyped
<1>6. /\ StateOf(rows) = [i \in Intents |-> entries[i].state]
      /\ OwnerOf(rows) = orderMap
  BY <1>1, ViewIsAbstract
<1> HIDE DEF newE, newO
<1>7. /\ StateOf(rows)' = [i \in Intents |-> newE[i].state]
      /\ OwnerOf(rows)' = newO
  <2>1. /\ StateOf(rows') = [i \in Intents |-> newE[i].state]
        /\ OwnerOf(rows') = newO
    BY <1>4, <1>5, ViewIsAbstract
  <2> QED
    BY <2>1
<1>8. /\ r.intent \in Intents
      /\ r.target \in IntentState
      /\ r.source \in EntryState
      /\ r.source = entries[r.intent].state
      /\ r.target \in Allowed(entries[r.intent].state)
  BY DEF Row, Valid
<1>9. StateOf(rows)' = [StateOf(rows) EXCEPT ![r.intent] = r.target]
  BY <1>1, <1>6, <1>7, <1>8 DEF newE, ApplyEntry
<1>10. StateOf(rows)[r.intent] = entries[r.intent].state
  BY <1>6, <1>8
<1>11. CASE r.target = "ACCEPTED"
  <2>1. r.order \in OrderIds /\ orderMap[r.order] = NoIntent
    BY <1>11 DEF Valid
  <2>2. newO = [orderMap EXCEPT ![r.order] = r.intent]
    BY <1>11, <2>1, NoOrderAssumption DEF newO, ApplyOrder
  <2>3. Lifecycle!Accept(r.intent, r.order)
    BY <1>6, <1>7, <1>8, <1>9, <1>10, <1>11, <2>1, <2>2,
       SameTable DEF Lifecycle!Accept
  <2> QED
    BY <1>8, <2>1, <2>3, SameTable DEF Lifecycle!Next
<1>12. CASE r.target # "ACCEPTED"
  <2>1. OwnerOf(rows)' = OwnerOf(rows)
    BY <1>6, <1>7, <1>12 DEF newO, ApplyOrder
  <2>2. r.target = "SENDING" => Lifecycle!Idle(SymbolOf[r.intent])
    BY <1>6, <1>8, SameTable DEF Valid, InFlight, Lifecycle!Idle
  <2>3. StateOf(rows)'[r.intent] = r.target
    BY <1>8, <1>9 DEF StateOf
  <2>4. Lifecycle!Move(r.intent, r.target)
    BY <1>8, <1>9, <1>10, <1>12, <2>1, <2>2, <2>3, SameTable DEF Lifecycle!Move
  <2> QED
    BY <1>8, <1>10, <2>4, SameTable DEF Lifecycle!Next
<1> QED
  BY <1>11, <1>12

(* Every behaviour of the ledger file is a life of the intents: crashes,   *)
(* torn rows and replays change nothing of it.                             *)
THEOREM LedgerImplementsLifecycle == Spec => ImplementsLifecycle
<1>1. Init => Lifecycle!Init
  <2>1. SUFFICES ASSUME Init PROVE Lifecycle!Init
    OBVIOUS
  <2>2. Reflects(NoEntries, NoOrders, rows, Len(rows)) /\ Len(rows) = 0
    BY <2>1, EmptyReflects DEF Init
  <2>3. /\ StateOf(rows) = [i \in Intents |-> NoEntries[i].state]
        /\ OwnerOf(rows) = NoOrders
    BY <2>2, EmptyReflects, ViewIsAbstract
  <2> QED
    BY <2>3 DEF Lifecycle!Init, NoEntries, NewEntry, NoOrders
<1>2. ASSUME LedgerInvariant, [Next]_vars
      PROVE  [Lifecycle!Next]_<<StateOf(rows), OwnerOf(rows)>>
  <2>1. CASE rows' = rows
    BY <2>1
  <2>2. ASSUME NEW r \in Row, OrderShape(r), Valid(entries, orderMap, r),
               mode \in {"open", "marking"},
               AppendAndApply(r) \/ AppendThenCrash(r) \/ TearThenCrash(r)
        PROVE  Lifecycle!Next \/ rows' = rows
    BY <1>2, <2>2, RowIsLifecycleStep
       DEF AppendAndApply, AppendThenCrash, TearThenCrash
  <2>3. ASSUME NEW i \in Intents, Operation(i)
        PROVE  Lifecycle!Next \/ rows' = rows
    <3>1. PICK r \in Row : /\ OrderShape(r)
                           /\ \/ Write(r)
                              \/ MarkNext(i) /\ r = PlainRow(i, "SEND_TIMEOUT")
      BY <1>2, <2>3, OperationWrites DEF LedgerInvariant
    <3> QED
      BY <2>2, <3>1 DEF Write, MarkNext
  <2>4. CASE MarkInterruptedSends \/ Load \/ Crash \/ UNCHANGED vars
    BY <2>4
       DEF MarkInterruptedSends, Load, OpenIntact, WriteSidecar, TruncateTorn,
           ReplayRow, FinishLoad, Crash, vars
  <2> QED
    BY <1>2, <2>1, <2>3, <2>4 DEF Next
<1> QED
  BY <1>1, <1>2, LedgerInductive, PTL
     DEF Spec, ImplementsLifecycle, Lifecycle!Spec

=============================================================================
