------------------------ MODULE DualReconcileProofs ------------------------
(***************************************************************************)
(* Proofs about DualReconcile, for any orders and any number of lots: the  *)
(* store never runs ahead of the exchange and never goes back, and the     *)
(* asset audit leaves exactly the lots of foreign orders unexplained.      *)
(***************************************************************************)
EXTENDS DualReconcile, FiniteSetTheorems, WellFoundedInduction, TLAPS

(***************************************************************************)
(* The lots of the balances are counted by a fold, the fills by a          *)
(* cardinality.  The two agree: the least set of orders for which they do  *)
(* not has an order the fold begins with.                                  *)
(***************************************************************************)
First(s) == CHOOSE x \in s : TRUE
SumsUp(f, S, g) ==
    g = [s \in SUBSET S |-> IF s = {} THEN 0 ELSE f[First(s)] + g[s \ {First(s)}]]

(* A family of subsets of a finite set has a least one. *)
LEMMA LeastSubset ==
    ASSUME NEW S, IsFiniteSet(S), NEW F \in SUBSET SUBSET S, F # {}
    PROVE  \E T \in F : \A U \in F : U \subseteq T => U = T
<1>1. IsWellFoundedOn(StrictSubsetOrdering(S), SUBSET S)
  BY FS_FiniteSubsetsOfFinite, FS_StrictSubsetOrderingWellFounded
<1>2. PICK T \in F : \A U \in F : ~ (<<U, T>> \in StrictSubsetOrdering(S))
  BY <1>1, WFMin
<1>3. ASSUME NEW U \in F, U \subseteq T, U # T PROVE FALSE
  BY <1>2, <1>3 DEF StrictSubsetOrdering
<1> QED
  BY <1>2, <1>3

(* Two foldings of one function over one finite set are the same. *)
LEMMA SumsAgree ==
    ASSUME NEW f, NEW S, IsFiniteSet(S),
           NEW g, NEW h, SumsUp(f, S, g), SumsUp(f, S, h)
    PROVE  h[S] = g[S]
<1> DEFINE F == {s \in SUBSET S : h[s] # g[s]}
<1>1. ASSUME F # {} PROVE FALSE
  <2>1. F \in SUBSET SUBSET S
    OBVIOUS
  <2>2. PICK s \in F : \A U \in F : U \subseteq s => U = s
    <3> HIDE DEF F
    <3> QED
      BY <1>1, <2>1, LeastSubset
  <2>3. /\ g[s] = IF s = {} THEN 0 ELSE f[First(s)] + g[s \ {First(s)}]
        /\ h[s] = IF s = {} THEN 0 ELSE f[First(s)] + h[s \ {First(s)}]
    <3>1. s \in SUBSET S
      OBVIOUS
    <3> QED
      BY <3>1, Zenon DEF SumsUp
  <2>4. s # {} => h[s \ {First(s)}] = g[s \ {First(s)}]
    <3>1. s # {} => First(s) \in s
      BY DEF First
    <3> QED
      BY <2>2, <3>1
  <2> QED
    BY <2>2, <2>3, <2>4
<1> QED
  BY <1>1

(* The lots of the orders in s. *)
LotsOf(f, s) == {p \in Fills : p[1] \in s /\ p[2] <= f[p[1]]}

(* There are n numbers from 1 to n. *)
LEMMA FirstNumbers ==
    ASSUME NEW n \in Nat
    PROVE  IsFiniteSet(1 .. n) /\ Cardinality(1 .. n) = n
<1>1. 1 \in Int /\ n \in Int
  OBVIOUS
<1>2. IsFiniteSet(1 .. n) /\ Cardinality(1 .. n) = IF 1 > n THEN 0 ELSE n - 1 + 1
  BY <1>1, FS_Interval, Zenon
<1> QED
  BY <1>2

(* All fills there can be are as many as the lots of all orders. *)
LEMMA FillsAreFinite ==
    IsFiniteSet(Fills) /\ Cardinality(Fills) = Cardinality(Orders) * Lots
<1>1. Lots \in Nat
  BY LimitAssumption
<1>2. IsFiniteSet(1 .. Lots) /\ Cardinality(1 .. Lots) = Lots
  BY <1>1, FirstNumbers
<1>3. /\ IsFiniteSet(Orders \X (1 .. Lots))
      /\ Cardinality(Orders \X (1 .. Lots)) = Cardinality(Orders) * Cardinality(1 .. Lots)
  BY <1>2, OrderAssumption, FS_Product, Zenon
<1> QED
  BY <1>2, <1>3 DEF Fills

(* An order adds its executed lots. *)
LEMMA OrderAddsLots ==
    ASSUME NEW f \in [Orders -> 0 .. Lots], NEW s \in SUBSET Orders, NEW x \in s
    PROVE  Cardinality(LotsOf(f, s)) = f[x] + Cardinality(LotsOf(f, s \ {x}))
<1> DEFINE mine == {x} \X (1 .. f[x])
           rest == LotsOf(f, s \ {x})
<1>1. f[x] \in Nat /\ f[x] <= Lots /\ Lots \in Nat
  BY LimitAssumption
<1>2. IsFiniteSet(mine) /\ Cardinality(mine) = f[x]
  <2>1. IsFiniteSet({x}) /\ Cardinality({x}) = 1
    BY FS_Singleton
  <2>2. IsFiniteSet(1 .. f[x]) /\ Cardinality(1 .. f[x]) = f[x]
    BY <1>1, FirstNumbers
  <2>3. IsFiniteSet(mine) /\ Cardinality(mine) = Cardinality({x}) * Cardinality(1 .. f[x])
    BY <2>1, <2>2, FS_Product, Zenon
  <2> HIDE DEF mine
  <2> QED
    BY <1>1, <2>1, <2>2, <2>3
<1>3. IsFiniteSet(rest) /\ Cardinality(rest) \in Nat
  BY FillsAreFinite, FS_Subset, FS_CardinalityType DEF LotsOf
<1>4. LotsOf(f, s) = mine \cup rest
  BY <1>1 DEF LotsOf, Fills
<1>5. mine \cap rest = {}
  BY DEF LotsOf
<1>6. Cardinality(mine \cap rest) = 0
  BY <1>5, FS_EmptySet
<1> HIDE DEF mine, rest
<1>7. Cardinality(mine \cup rest) = Cardinality(mine) + Cardinality(rest) - Cardinality(mine \cap rest)
  BY <1>2, <1>3, FS_Union
<1> QED
  BY <1>1, <1>2, <1>3, <1>4, <1>6, <1>7 DEF rest

(* A total is the number of fills behind it. *)
LEMMA TotalCounts ==
    ASSUME NEW f \in [Orders -> 0 .. Lots]
    PROVE  Total(f) = Cardinality(FillsOf(f))
<1> DEFINE g == [s \in SUBSET Orders |-> Cardinality(LotsOf(f, s))]
<1>1. SumsUp(f, Orders, g)
  <2>1. ASSUME NEW s \in SUBSET Orders
        PROVE  g[s] = IF s = {} THEN 0 ELSE f[First(s)] + g[s \ {First(s)}]
    <3>1. CASE s = {}
      <4>1. LotsOf(f, s) = {}
        BY <3>1 DEF LotsOf
      <4> QED
        BY <3>1, <4>1, FS_EmptySet
    <3>2. CASE s # {}
      <4>1. First(s) \in s
        BY <3>2 DEF First
      <4> QED
        BY <3>2, <4>1, OrderAddsLots
    <3> QED
      BY <3>1, <3>2
  <2>2. g = [s \in SUBSET Orders |-> g[s]]
    OBVIOUS
  <2> HIDE DEF g
  <2>3. [s \in SUBSET Orders |-> g[s]] =
        [s \in SUBSET Orders |-> IF s = {} THEN 0 ELSE f[First(s)] + g[s \ {First(s)}]]
    BY <2>1
  <2>4. g = [s \in SUBSET Orders |-> IF s = {} THEN 0 ELSE f[First(s)] + g[s \ {First(s)}]]
    BY <2>2, <2>3
  <2> QED
    BY <2>4, Zenon DEF SumsUp
<1>2. LotsOf(f, Orders) = FillsOf(f)
  BY DEF LotsOf, FillsOf, Fills
<1>3. g[Orders] = Cardinality(FillsOf(f))
  BY <1>2
<1> HIDE DEF g
<1>4. PICK h : h = (CHOOSE k : SumsUp(f, Orders, k)) /\ SumsUp(f, Orders, h)
  BY <1>1
<1>5. Total(f) = h[Orders]
  BY <1>4 DEF Total, SumsUp, First, MapThenSumSet, MapThenFoldSet
<1> QED
  BY <1>1, <1>3, <1>4, <1>5, SumsAgree, OrderAssumption

(***************************************************************************)
(* The exchange only advances: lots are added, a closed order stays        *)
(* closed, and an order that exists does not vanish.                       *)
(***************************************************************************)
LaterMarket ==
    /\ market' \in [Orders -> PastOrders]
    /\ \A o \in Orders :
          /\ market[o].done <= market'[o].done
          /\ market[o].status # "none" => market'[o].status # "none"
          /\ (market[o].status # "none" /\ o \notin Open) => o \notin Open'

(* What the states of an order say of its lots. *)
LEMMA OrderKinds ==
    ASSUME NEW r \in PastOrders
    PROVE  /\ r = [status |-> r.status, done |-> r.done]
           /\ r.status \in {"none", "ORDERED", "CANCELED", "EXECUTED"}
           /\ r.done \in 0 .. Lots
           /\ r.done = Lots <=> r.status = "EXECUTED"
           /\ r.status = "none" => r.done = 0
BY LimitAssumption DEF PastOrders

(* The orders a step of the exchange can make. *)
LEMMA OrdersMade ==
    /\ [status |-> "EXECUTED", done |-> Lots] \in PastOrders
    /\ \A n \in 0 .. Lots - 1 : \A s \in {"ORDERED", "CANCELED"} :
          [status |-> s, done |-> n] \in PastOrders
BY DEF PastOrders

(* A new state leaves the lots of an order alone. *)
LEMMA NewStatus ==
    ASSUME NEW lots, NEW old, NEW new, NEW r, r = [status |-> old, done |-> lots]
    PROVE  [r EXCEPT !.status = new] = [status |-> new, done |-> lots]
OBVIOUS

(* A step of the exchange advances it. *)
LEMMA MarketMoves ==
    ASSUME TypeOK, NEW o \in Orders, Place(o) \/ Fill(o) \/ Cancel(o)
    PROVE  LaterMarket
<1>1. market \in [Orders -> PastOrders] /\ Lots \in Nat \ {0}
  BY LimitAssumption DEF TypeOK
<1>2. /\ market[o] \in PastOrders
      /\ market[o] = [status |-> market[o].status, done |-> market[o].done]
      /\ market[o].done \in 0 .. Lots
      /\ market[o].done = Lots <=> market[o].status = "EXECUTED"
      /\ market[o].status = "none" => market[o].done = 0
  BY <1>1, OrderKinds
<1>3. CASE Place(o)
  <2>1. market' = [market EXCEPT ![o] = [status |-> "ORDERED", done |-> 0]]
    <3>1. [market[o] EXCEPT !.status = "ORDERED"] = [status |-> "ORDERED", done |-> market[o].done]
      BY <1>2, NewStatus
    <3>2. market' = [market EXCEPT ![o] = [market[o] EXCEPT !.status = "ORDERED"]]
      BY <1>3 DEF Place
    <3>3. market[o].done = 0
      BY <1>2, <1>3 DEF Place
    <3> QED
      BY <3>1, <3>2, <3>3
  <2>2. [status |-> "ORDERED", done |-> 0] \in PastOrders
    <3>1. 0 \in 0 .. Lots - 1
      BY <1>1
    <3> QED
      BY <3>1, OrdersMade, Zenon
  <2>3. market[o].status = "none" /\ market[o].done = 0
    BY <1>2, <1>3 DEF Place
  <2> QED
    BY <1>1, <2>1, <2>2, <2>3, OrderKinds DEF LaterMarket, Open, Active
<1>4. CASE Fill(o)
  <2> DEFINE lots == market[o].done + 1
             new == [status |-> IF lots = Lots THEN "EXECUTED" ELSE "ORDERED", done |-> lots]
  <2>1. market' = [market EXCEPT ![o] = new] /\ market[o].status = "ORDERED"
    BY <1>4 DEF Fill, Open, Active
  <2>2. new \in PastOrders
    <3>1. lots \in 1 .. Lots
      BY <1>1, <1>2, <2>1
    <3>2. CASE lots = Lots
      BY <3>2, OrdersMade
    <3>3. CASE lots # Lots
      <4>1. lots \in 0 .. Lots - 1
        BY <1>1, <3>1, <3>3
      <4>2. [status |-> "ORDERED", done |-> lots] \in PastOrders
        BY <4>1, OrdersMade, Zenon
      <4> QED
        BY <3>3, <4>2
    <3> QED
      BY <3>2, <3>3
  <2>3. new.done = market[o].done + 1 /\ new.status # "none"
    OBVIOUS
  <2> HIDE DEF new
  <2> QED
    BY <1>1, <1>2, <2>1, <2>2, <2>3, OrderKinds DEF LaterMarket, Open, Active
<1>5. CASE Cancel(o)
  <2>1. market' = [market EXCEPT ![o] = [status |-> "CANCELED", done |-> market[o].done]]
        /\ market[o].status = "ORDERED"
    <3>1. [market[o] EXCEPT !.status = "CANCELED"] = [status |-> "CANCELED", done |-> market[o].done]
      BY <1>2, NewStatus
    <3>2. market' = [market EXCEPT ![o] = [market[o] EXCEPT !.status = "CANCELED"]]
      BY <1>5 DEF Cancel
    <3> QED
      BY <1>5, <3>1, <3>2 DEF Cancel, Open, Active
  <2>2. [status |-> "CANCELED", done |-> market[o].done] \in PastOrders
    <3>1. market[o].done \in 0 .. Lots - 1
      BY <1>1, <1>2, <2>1
    <3> QED
      BY <3>1, OrdersMade, Zenon
  <2> QED
    BY <1>1, <1>2, <2>1, <2>2, OrderKinds DEF LaterMarket, Open, Active
<1> QED
  BY <1>3, <1>4, <1>5

(* Nothing else touches it. *)
LEMMA MarketAdvances ==
    ASSUME TypeOK, [Next]_vars
    PROVE  LaterMarket
<1>1. CASE Market
  BY <1>1, MarketMoves DEF Market
<1>2. CASE UNCHANGED market
  BY <1>2, OrderKinds DEF LaterMarket, TypeOK, Open
<1> QED
  BY <1>1, <1>2 DEF Next, Link, Connect, Subscribe, Disconnect, ApplyEvent, RoundStep,
     StartRound, ReadActive, ReadExecutions, ReadAssets, MergeOrders, LookUp, MergeFacts,
     Backfill, InputsFail, QueryFails, Stopped, vars

(* What was executed stays so. *)
LEMMA ExecutedStays ==
    ASSUME TypeOK, LaterMarket
    PROVE  Executed \subseteq Executed'
<1>1. \A o \in Orders : market[o].done \in Nat /\ market'[o].done \in Nat
  BY LimitAssumption, OrderKinds DEF TypeOK, LaterMarket
<1> QED
  BY <1>1 DEF LaterMarket, Executed, Fills

(***************************************************************************)
(* Frames.                                                                 *)
(***************************************************************************)
(* Whatever is sent is true when it is sent, and stays true of the past.   *)
LEMMA FramesStayPast ==
    ASSUME SessionInvariant, [Next]_vars
    PROVE  WireIsPast'
<1> DEFINE true(f) == /\ market'[f.order].status # "none"
                      /\ f.done <= market'[f.order].done
                      /\ f.status = "CANCELED" => f.order \notin Open'
                      /\ f.kind = "execution" => f.done >= 1 /\ f.status = "ORDERED"
<1>0. TypeOK /\ WireIsPast /\ LaterMarket
  BY MarketAdvances DEF SessionInvariant
<1>1. ASSUME NEW f \in wire PROVE true(f)
  <2>1. f.order \in Orders /\ f.done \in Nat
    BY <1>0, LimitAssumption DEF TypeOK
  <2>2. market[f.order].done \in Nat /\ market'[f.order].done \in Nat
    BY <1>0, <2>1, LimitAssumption, OrderKinds DEF TypeOK, LaterMarket
  <2> QED
    BY <1>0, <2>1, <2>2 DEF WireIsPast, LaterMarket
<1>2. ASSUME NEW f \in wire', f \notin wire PROVE true(f)
  <2>1. PICK o \in Orders : Place(o) \/ Fill(o) \/ Cancel(o)
    BY <1>2 DEF Next, Market, Link, Connect, Subscribe, Disconnect, ApplyEvent, RoundStep,
       StartRound, ReadActive, ReadExecutions, ReadAssets, MergeOrders, LookUp, MergeFacts,
       Backfill, InputsFail, QueryFails, Stopped, vars
  <2>2. market \in [Orders -> PastOrders] /\ market[o].done \in Nat
    BY <1>0, OrderKinds DEF TypeOK
  <2>3. CASE Place(o)
    <3>1. f = Frame("order", o, "ORDERED", 0)
      BY <1>2, <2>3 DEF Place, Send
    <3>2. market'[o].status = "ORDERED" /\ market'[o].done = market[o].done
      BY <2>2, <2>3, OrderKinds DEF Place
    <3> QED
      BY <2>2, <3>1, <3>2 DEF Frame
  <2>4. CASE Fill(o)
    <3>1. f = Frame("execution", o, "ORDERED", market[o].done + 1)
      BY <1>2, <2>4 DEF Fill
    <3>2. market'[o].status # "none" /\ market'[o].done = market[o].done + 1
      BY <2>2, <2>4 DEF Fill
    <3> QED
      BY <2>2, <3>1, <3>2 DEF Frame
  <2>5. CASE Cancel(o)
    <3>1. f = Frame("order", o, "CANCELED", market[o].done)
      BY <1>2, <2>5 DEF Cancel, Send
    <3>2. market'[o].status = "CANCELED" /\ market'[o].done = market[o].done
      BY <2>2, <2>5, OrderKinds DEF Cancel
    <3> QED
      BY <2>2, <3>1, <3>2 DEF Frame, Open, Active
  <2> QED
    BY <2>1, <2>3, <2>4, <2>5
<1> QED
  BY <1>1, <1>2 DEF WireIsPast

(***************************************************************************)
(* The store.                                                              *)
(***************************************************************************)
ViewStates == [status : Active \cup Closed \cup {"unknown"}, done : 0 .. Lots]

\* A step may take what is known of an order from old to new.
Follows(o, old, new) ==
    /\ new \in ViewStates
    /\ old.done <= new.done
    /\ old.status \in Closed => new.status \in Closed
    /\ new.status \in Closed => o \notin Open
    /\ new.done <= market[o].done
    /\ new.status # "unknown" => market[o].status # "none"

(* What the types say of an order, on the exchange and in the store. *)
LEMMA OrderTyped ==
    ASSUME TypeOK, NEW o \in Orders
    PROVE  /\ market[o] \in PastOrders /\ view[o] \in ViewStates
           /\ market[o].done \in 0 .. Lots /\ view[o].done \in 0 .. Lots
           /\ Lots \in Nat \ {0}
BY LimitAssumption, OrderKinds DEF TypeOK, ViewStates

(* The handlers of the stream, whatever order frames arrive in. *)
LEMMA EventFollows ==
    ASSUME SessionInvariant, NEW f \in wire
    PROVE  f.order \in Orders /\ Follows(f.order, view[f.order], EventView(view[f.order], f))
<1> DEFINE o == f.order
           old == view[o]
           new == EventView(old, f)
<1>1. TypeOK /\ WireIsPast /\ StoreIsPast
  BY DEF SessionInvariant
<1>2. /\ o \in Orders /\ f.done \in 0 .. Lots /\ f.kind \in {"order", "execution"}
      /\ f.status \in {"ORDERED", "CANCELED"}
  BY <1>1 DEF TypeOK
<1>3. /\ market[o] \in PastOrders /\ old \in ViewStates
      /\ market[o].done \in 0 .. Lots /\ old.done \in 0 .. Lots
      /\ Lots \in Nat \ {0}
  BY <1>1, <1>2, OrderTyped
<1>4. /\ market[o].status # "none" /\ f.done <= market[o].done
      /\ f.status = "CANCELED" => o \notin Open
      /\ f.kind = "execution" => f.status = "ORDERED"
  BY <1>1 DEF WireIsPast
<1>5. old.status \in Closed => o \notin Open
  BY <1>1, <1>2 DEF StoreIsPast, ViewIsReal
<1>6. old.done <= market[o].done
  BY <1>1, <1>2 DEF StoreIsPast, ViewIsReal
<1>7. market[o].done >= Lots => o \notin Open
  <2>1. market[o].done = Lots <=> market[o].status = "EXECUTED"
    BY <1>3, OrderKinds
  <2> QED
    BY <1>3, <2>1 DEF Open, Active
<1>8. /\ Later(old.done, f.done) \in 0 .. Lots
      /\ old.done <= Later(old.done, f.done)
      /\ Later(old.done, f.done) <= market[o].done
  BY <1>2, <1>3, <1>4, <1>6 DEF Later
<1> DEFINE lots == Later(old.done, f.done)
<1>9. CASE f.kind = "order"
  <2>1. new = [status |-> IF old.status \in Closed /\ f.status \in Active
                          THEN old.status ELSE f.status, done |-> lots]
    BY <1>9, Zenon DEF EventView, OrderEventView
  <2>2. new.done = lots
    BY <2>1
  <2>3. new.status = IF old.status \in Closed /\ f.status \in Active
                     THEN old.status ELSE f.status
    BY <2>1
  <2>4. /\ new.status \in Active \cup Closed
        /\ old.status \in Closed => new.status \in Closed
        /\ new.status \in Closed => o \notin Open
    BY <1>2, <1>3, <1>4, <1>5, <2>3 DEF Active, Closed, ViewStates
  <2>5. new \in ViewStates
    BY <1>8, <2>1, <2>2, <2>4 DEF ViewStates
  <2> HIDE DEF new, lots
  <2> QED
    BY <1>2, <1>4, <1>8, <2>2, <2>4, <2>5 DEF Follows, new, lots
<1>10. CASE f.kind = "execution"
  <2>1. new = [status |-> IF lots >= Lots THEN "EXECUTED"
                          ELSE IF old.status \in Closed THEN old.status
                          ELSE "ORDERED", done |-> lots]
    BY <1>10, Zenon DEF EventView, ExecutionEventView
  <2>2. new.done = lots
    BY <2>1
  <2>3. new.status = IF lots >= Lots THEN "EXECUTED"
                     ELSE IF old.status \in Closed THEN old.status ELSE "ORDERED"
    BY <2>1
  <2>4. /\ new.status \in Active \cup Closed
        /\ old.status \in Closed => new.status \in Closed
    BY <2>3 DEF Active, Closed
  <2>5. new.status \in Closed => o \notin Open
    <3>1. CASE lots >= Lots
      BY <1>3, <1>7, <1>8, <3>1
    <3>2. CASE ~(lots >= Lots)
      BY <1>5, <2>3, <3>2 DEF Closed
    <3> QED
      BY <3>1, <3>2
  <2>6. new \in ViewStates
    BY <1>8, <2>1, <2>2, <2>4 DEF ViewStates
  <2> HIDE DEF new, lots
  <2> QED
    BY <1>2, <1>4, <1>8, <2>2, <2>4, <2>5, <2>6 DEF Follows, new, lots
<1> QED
  BY <1>2, <1>9, <1>10

(* What a snapshot or a query says of an order. *)
LEMMA AnswerFollows ==
    ASSUME SessionInvariant, NEW o \in Orders
    PROVE  /\ (pc = "merge" /\ o \in DOMAIN snap.listed) =>
                 Follows(o, view[o], [status |-> "ORDERED", done |-> snap.listed[o]])
           /\ (pc = "lookup" /\ o \in Stale) =>
                 \A answered \in SUBSET Stale : Follows(o, view[o], Resolved(o, answered))
           /\ Follows(o, view[o], view[o])
<1>1. TypeOK /\ StoreIsPast /\ ListedFits /\ StaleFits
  BY DEF SessionInvariant
<1>2. /\ market[o] \in PastOrders /\ view[o] \in ViewStates
      /\ market[o].done \in 0 .. Lots /\ view[o].done \in 0 .. Lots
      /\ Lots \in Nat \ {0}
  BY <1>1, OrderTyped
<1>3. Follows(o, view[o], view[o])
  BY <1>1, <1>2 DEF Follows, StoreIsPast, ViewIsReal
<1>4. ASSUME pc = "merge", o \in DOMAIN snap.listed
      PROVE  Follows(o, view[o], [status |-> "ORDERED", done |-> snap.listed[o]])
  <2>1. snap.listed[o] \in 0 .. Lots
    BY <1>1, <1>4 DEF TypeOK
  <2>2. /\ market[o].status # "none" /\ view[o].status \notin Closed
        /\ view[o].done <= snap.listed[o] /\ snap.listed[o] <= market[o].done
    BY <1>1, <1>4 DEF ListedFits
  <2> QED
    BY <1>2, <2>1, <2>2 DEF Follows, ViewStates, Active, Closed
<1>5. ASSUME pc = "lookup", o \in Stale, NEW answered \in SUBSET Stale
      PROVE  Follows(o, view[o], Resolved(o, answered))
  <2>1. view[o].status \in Active /\ o \notin Open
    BY <1>1, <1>5 DEF StaleFits
  <2>2. market[o].status # "none" /\ view[o].done <= market[o].done
    BY <1>1, <2>1 DEF StoreIsPast, ViewIsReal, Active
  <2>3. CASE o \in answered
    <3>1. market[o].status \in {"CANCELED", "EXECUTED"}
      BY <1>2, <2>1, <2>2, OrderKinds DEF Open, Active
    <3>2. market[o] = [status |-> market[o].status, done |-> market[o].done]
      BY <1>2, OrderKinds
    <3>3. market[o] \in ViewStates
      BY <1>2, <3>1, <3>2 DEF ViewStates, Closed
    <3> QED
      BY <1>2, <2>1, <2>2, <2>3, <3>1, <3>3 DEF Follows, Resolved, Closed
  <2>4. CASE o \notin answered
    <3> DEFINE new == [view[o] EXCEPT !.status = "EXPIRED"]
    <3>1. new \in ViewStates /\ new.status = "EXPIRED" /\ new.done = view[o].done
      BY <1>2 DEF ViewStates, Closed
    <3>2. Resolved(o, answered) = new
      BY <2>4 DEF Resolved
    <3> HIDE DEF new
    <3> QED
      BY <1>2, <2>1, <2>2, <3>1, <3>2 DEF Follows, Closed
  <2> QED
    BY <2>3, <2>4
<1> QED
  BY <1>3, <1>4, <1>5

(* Every step takes the store to what follows from it. *)
LEMMA StoreFollows ==
    ASSUME SessionInvariant, [Next]_vars
    PROVE  /\ view' \in [Orders -> ViewStates]
           /\ \A o \in Orders : Follows(o, view[o], view'[o])
<1>1. view \in [Orders -> ViewStates]
  BY DEF SessionInvariant, TypeOK, ViewStates
<1>2. CASE UNCHANGED view
  BY <1>1, <1>2, AnswerFollows
<1>3. CASE ApplyEvent
  <2>1. PICK f \in wire : view' = [view EXCEPT ![f.order] = EventView(@, f)]
    BY <1>3 DEF ApplyEvent
  <2>2. f.order \in Orders /\ Follows(f.order, view[f.order], EventView(view[f.order], f))
    BY EventFollows
  <2>3. EventView(view[f.order], f) \in ViewStates
    BY <2>2 DEF Follows
  <2> QED
    BY <1>1, <2>1, <2>2, <2>3, AnswerFollows
<1>4. CASE MergeOrders
  <2>1. pc = "merge"
    BY <1>4 DEF MergeOrders
  <2>2. view' = [o \in Orders |->
            IF o \in DOMAIN snap.listed
            THEN [status |-> "ORDERED", done |-> snap.listed[o]] ELSE view[o]]
    BY <1>4 DEF MergeOrders
  <2>3. ASSUME NEW o \in Orders PROVE Follows(o, view[o], view'[o])
    BY <2>1, <2>2, AnswerFollows
  <2>4. \A o \in Orders : view'[o] \in ViewStates
    BY <2>3 DEF Follows
  <2>5. view' \in [Orders -> ViewStates]
    BY <2>2, <2>4
  <2> QED
    BY <2>3, <2>5
<1>5. CASE LookUp
  <2>1. pc = "lookup"
    BY <1>5 DEF LookUp
  <2>2. PICK answered \in SUBSET Stale :
          view' = [o \in Orders |->
              IF o \in Stale THEN Resolved(o, answered) ELSE view[o]]
    BY <1>5 DEF LookUp
  <2>3. ASSUME NEW o \in Orders PROVE Follows(o, view[o], view'[o])
    BY <2>1, <2>2, AnswerFollows
  <2>4. \A o \in Orders : view'[o] \in ViewStates
    BY <2>3 DEF Follows
  <2>5. view' \in [Orders -> ViewStates]
    BY <2>2, <2>4
  <2> QED
    BY <2>3, <2>5
<1> QED
  BY <1>2, <1>3, <1>4, <1>5 DEF Next, Market, Place, Fill, Cancel, Link, Connect, Subscribe,
     Disconnect, RoundStep, StartRound, ReadActive, ReadExecutions, ReadAssets, MergeFacts,
     Backfill, InputsFail, QueryFails, Stopped, vars, store

(* Every fill the store counts was executed. *)
LEMMA FactsArePast ==
    ASSUME SessionInvariant, [Next]_vars
    PROVE  facts' \subseteq Executed'
<1>1. TypeOK /\ WireIsPast /\ ReportedFits /\ facts \subseteq Executed
  BY DEF SessionInvariant, StoreIsPast, ViewIsReal
<1>2. Executed \subseteq Executed'
  BY <1>1, MarketAdvances, ExecutedStays
<1>3. facts' \subseteq Executed
  <2>1. CASE ApplyEvent
    <3>1. PICK f \in wire : facts' = IF f.kind = "execution"
                      THEN facts \cup {<<f.order, f.done>>} ELSE facts
      BY <2>1 DEF ApplyEvent
    <3>2. ASSUME f.kind = "execution" PROVE <<f.order, f.done>> \in Executed
      <4>1. f.order \in Orders /\ f.done \in 0 .. Lots
        BY <1>1 DEF TypeOK
      <4>2. f.done >= 1 /\ f.done <= market[f.order].done
        BY <1>1, <3>2 DEF WireIsPast
      <4>3. Lots \in Nat
        BY LimitAssumption
      <4> QED
        BY <4>1, <4>2, <4>3 DEF Executed, Fills
    <3> QED
      BY <1>1, <3>1, <3>2
  <2>2. CASE MergeFacts
    BY <1>1, <2>2 DEF MergeFacts, MergeExecutions, ReportedFits
  <2>3. CASE Backfill
    BY <1>1, <2>3 DEF Backfill
  <2>4. CASE UNCHANGED facts
    BY <1>1, <2>4
  <2> QED
    BY <2>1, <2>2, <2>3, <2>4 DEF Next, Market, Place, Fill, Cancel, Link, Connect, Subscribe,
       Disconnect, RoundStep, StartRound, ReadActive, ReadExecutions, ReadAssets, MergeOrders,
       LookUp, InputsFail, QueryFails, Stopped, vars, store
<1> QED
  BY <1>2, <1>3

(* The picture stays behind the exchange. *)
LEMMA StoreStaysPast ==
    ASSUME SessionInvariant, [Next]_vars
    PROVE  StoreIsPast'
<1>1. TypeOK /\ LaterMarket /\ StoreIsPast
  BY MarketAdvances DEF SessionInvariant
<1>2. ASSUME NEW o \in Orders
      PROVE  /\ view'[o].status \in Closed => o \notin Open'
             /\ view'[o].done <= market'[o].done
             /\ view'[o].status # "unknown" => market'[o].status # "none"
  <2>1. Follows(o, view[o], view'[o])
    BY StoreFollows
  <2>2. /\ market[o].done \in Nat /\ market'[o].done \in Nat /\ view'[o].done \in Nat
        /\ Lots \in Nat
    BY <1>1, <2>1, LimitAssumption, OrderKinds DEF TypeOK, LaterMarket, Follows, ViewStates
  <2>3. view'[o].status \in Closed => view'[o].status # "unknown"
    BY DEF Closed
  <2> QED
    BY <1>1, <2>1, <2>2, <2>3 DEF LaterMarket, Follows
<1> QED
  BY <1>2, FactsArePast DEF StoreIsPast, ViewIsReal

(***************************************************************************)
(* What a round has read.                                                  *)
(***************************************************************************)
(* The list of open orders is of the past from when it is read to when it  *)
(* is merged, and what it lacks is closed.                                 *)
LEMMA ListedStaysFit ==
    ASSUME SessionInvariant, [Next]_vars
    PROVE  ListedFits'
<1>1. TypeOK /\ LaterMarket /\ StoreIsPast /\ ListedFits
  BY MarketAdvances DEF SessionInvariant
<1>2. CASE ReadActive
  <2>1. /\ snap'.listed = [o \in Open |-> market[o].done]
        /\ UNCHANGED <<market, view>>
    BY <1>1, <1>2 DEF ReadActive, TypeOK, store
  <2>2. Open' = Open /\ Open \subseteq Orders
    BY <2>1 DEF Open
  <2>3. ASSUME NEW o \in DOMAIN snap'.listed
        PROVE  /\ market'[o].status # "none" /\ view'[o].status \notin Closed
               /\ view'[o].done <= snap'.listed[o] /\ snap'.listed[o] <= market'[o].done
    <3>1. o \in Open /\ o \in Orders
      BY <2>1, <2>2, <2>3
    <3>2. market[o].done \in 0 .. Lots /\ Lots \in Nat
      BY <1>1, <3>1, OrderTyped
    <3> QED
      BY <1>1, <2>1, <3>1, <3>2 DEF StoreIsPast, ViewIsReal, Open, Active
  <2>4. ASSUME NEW o \in Orders \ DOMAIN snap'.listed
        PROVE  o \notin Open'
    BY <2>1, <2>2
  <2> QED
    BY <2>3, <2>4 DEF ListedFits
<1>3. ASSUME pc \in {"executions", "assets", "merge"}, UNCHANGED view,
             snap'.listed = snap.listed
      PROVE  ListedFits'
  <2>1. ASSUME NEW o \in DOMAIN snap.listed
        PROVE  /\ market'[o].status # "none" /\ view'[o].status \notin Closed
               /\ view'[o].done <= snap.listed[o] /\ snap.listed[o] <= market'[o].done
    <3>1. o \in Orders /\ snap.listed[o] \in 0 .. Lots
      BY <1>1 DEF TypeOK
    <3>2. market[o].done \in Nat /\ market'[o].done \in Nat /\ Lots \in Nat
      BY <1>1, <3>1, LimitAssumption, OrderKinds DEF TypeOK, LaterMarket
    <3> QED
      BY <1>1, <1>3, <3>1, <3>2 DEF ListedFits, LaterMarket
  <2>2. ASSUME NEW o \in Orders \ DOMAIN snap.listed, view[o].status \in Active
        PROVE  o \notin Open'
    <3>1. market[o].status # "none"
      BY <1>1, <2>2 DEF StoreIsPast, Active
    <3>2. o \notin Open
      BY <1>1, <1>3, <2>2 DEF ListedFits
    <3> QED
      BY <1>1, <3>1, <3>2 DEF LaterMarket
  <2> QED
    BY <1>3, <2>1, <2>2 DEF ListedFits
<1>4. CASE ReadExecutions \/ ReadAssets
  BY <1>1, <1>3, <1>4 DEF ReadExecutions, ReadAssets, TypeOK, store
<1>5. CASE UNCHANGED <<pc, snap, view>>
  BY <1>3, <1>5 DEF ListedFits
<1>6. CASE pc' \notin {"executions", "assets", "merge"}
  BY <1>6 DEF ListedFits
<1> QED
  BY <1>2, <1>4, <1>5, <1>6 DEF Next, Market, Place, Fill, Cancel, Link, Connect, Subscribe,
     Disconnect, ApplyEvent, RoundStep, StartRound, MergeOrders, LookUp, MergeFacts, Backfill,
     EndRound, Fail, InputsFail, QueryFails, Stopped, vars, store

(* What is looked up is closed. *)
LEMMA StaleStayFit ==
    ASSUME SessionInvariant, [Next]_vars
    PROVE  StaleFits'
<1>1. TypeOK /\ LaterMarket /\ StoreIsPast /\ ListedFits /\ StaleFits
  BY MarketAdvances DEF SessionInvariant
<1>2. CASE MergeOrders
  <2>1. /\ pc = "merge" /\ UNCHANGED market
        /\ snap'.disagree = DetectMismatches
        /\ \A o \in Orders \ DOMAIN snap.listed : view'[o] = view[o]
    BY <1>1, <1>2 DEF MergeOrders, TypeOK
  <2>2. Stale' = StaleIn(view)
    <3>1. \A m \in DetectMismatches : m[1] = "stale_active_order" => m[2] \in StaleIn(view)
      BY DEF DetectMismatches
    <3>2. \A o \in StaleIn(view) : <<"stale_active_order", o>> \in DetectMismatches
      BY DEF DetectMismatches
    <3>3. Stale' = {m[2] : m \in {n \in DetectMismatches : n[1] = "stale_active_order"}}
      BY <2>1 DEF Stale
    <3> HIDE DEF DetectMismatches
    <3>4. ASSUME NEW o \in StaleIn(view) PROVE o \in Stale'
      <4> DEFINE m == <<"stale_active_order", o>>
      <4>1. m \in DetectMismatches /\ m[1] = "stale_active_order" /\ m[2] = o
        BY <3>2
      <4> QED
        BY <3>3, <4>1
    <3> QED
      BY <3>1, <3>3, <3>4
  <2>3. ASSUME NEW o \in Stale' PROVE view'[o].status \in Active /\ o \notin Open'
    <3>1. o \in Orders \ DOMAIN snap.listed /\ view[o].status \in Active
      BY <2>2 DEF StaleIn
    <3>2. o \notin Open
      BY <1>1, <2>1, <3>1 DEF ListedFits
    <3> QED
      BY <2>1, <3>1, <3>2 DEF Open
  <2> QED
    BY <2>3 DEF StaleFits
<1>3. CASE pc = "lookup" /\ UNCHANGED <<snap, view>>
  <2>1. Stale' = Stale
    BY <1>3 DEF Stale
  <2>2. ASSUME NEW o \in Stale PROVE view'[o].status \in Active /\ o \notin Open'
    <3>1. o \in Orders
      BY <1>1 DEF Stale, TypeOK
    <3>2. view[o].status \in Active /\ o \notin Open
      BY <1>1, <1>3 DEF StaleFits
    <3>3. market[o].status # "none"
      BY <1>1, <3>1, <3>2 DEF StoreIsPast, Active
    <3> QED
      BY <1>1, <1>3, <3>1, <3>2, <3>3 DEF LaterMarket
  <2> QED
    BY <2>1, <2>2 DEF StaleFits
<1>4. CASE pc' # "lookup"
  BY <1>4 DEF StaleFits
<1> QED
  BY <1>2, <1>3, <1>4 DEF Next, Market, Place, Fill, Cancel, Link, Connect, Subscribe,
     Disconnect, ApplyEvent, RoundStep, StartRound, ReadActive, ReadExecutions, ReadAssets,
     LookUp, MergeFacts, Backfill, EndRound, Fail, InputsFail, QueryFails, Stopped, vars, store

(* Own lots grow with an own fill only. *)
LEMMA OwnFillsOnly ==
    ASSUME SessionInvariant, [Next]_vars,
           ~ \E o \in Ours : Fill(o)
    PROVE  \A o \in Ours : market'[o].done = market[o].done
<1>1. market \in [Orders -> PastOrders] /\ Ours \subseteq Orders
  BY OrderAssumption DEF SessionInvariant, TypeOK
<1>2. ASSUME NEW o \in Orders, Place(o) \/ Fill(o) \/ Cancel(o), NEW p \in Ours
      PROVE  market'[p].done = market[p].done
  <2>1. CASE Place(o) \/ Cancel(o)
    <3>1. PICK s : market' = [market EXCEPT ![o].status = s]
      BY <2>1 DEF Place, Cancel
    <3>2. CASE p # o
      BY <1>1, <3>1, <3>2
    <3>3. CASE p = o
      <4>1. market'[p] = [market[p] EXCEPT !.status = s]
        BY <1>1, <3>1, <3>3
      <4>2. market[p] = [status |-> market[p].status, done |-> market[p].done]
        BY <1>1, OrderKinds
      <4> QED
        BY <4>1, <4>2, NewStatus
    <3> QED
      BY <3>2, <3>3
  <2>2. CASE Fill(o)
    <3>1. o # p
      BY <2>2
    <3>2. PICK r : market' = [market EXCEPT ![o] = r]
      BY <2>2 DEF Fill
    <3> QED
      BY <1>1, <3>1, <3>2
  <2> QED
    BY <1>2, <2>1, <2>2
<1>3. CASE Market
  BY <1>2, <1>3 DEF Market
<1>4. CASE UNCHANGED market
  BY <1>4
<1> QED
  BY <1>3, <1>4 DEF Next, Link, Connect, Subscribe, Disconnect, ApplyEvent, RoundStep,
     StartRound, ReadActive, ReadExecutions, ReadAssets, MergeOrders, LookUp, MergeFacts,
     Backfill, InputsFail, QueryFails, Stopped, vars

(* A fill leaves the round alone and is remembered where it may part the   *)
(* answers of two queries.                                                 *)
LEMMA FillIsRemembered ==
    ASSUME TypeOK, NEW o \in Ours, Fill(o)
    PROVE  /\ pc = "assets" => history'.raced
           /\ (expected = NoBaseline /\ pc \in {"merge", "lookup", "facts", "backfill"})
                 => history'.baseRaced
BY DEF Fill, TypeOK

\* A step that leaves what the round has read and counted alone, and
\* remembers what it has to.
RoundStays ==
    /\ UNCHANGED <<pc, snap, expected, explained>>
    /\ facts \subseteq facts' /\ (pc # "idle" => facts' = facts)
    /\ history'.foreign = history.foreign
    /\ history.raced => history'.raced
    /\ history.baseRaced => history'.baseRaced

(* The exchange, the connection and the stream are such steps. *)
LEMMA OthersLeaveRound ==
    ASSUME TypeOK, Market \/ Link \/ ApplyEvent \/ Stopped \/ UNCHANGED vars
    PROVE  RoundStays
<1>1. history = [lost |-> history.lost, raced |-> history.raced,
                 baseRaced |-> history.baseRaced, foreign |-> history.foreign,
                 aligned |-> history.aligned]
  BY DEF TypeOK
<1>2. CASE Market
  BY <1>1, <1>2 DEF Market, Place, Fill, Cancel, Send, RoundStays, store, assets
<1>3. CASE Link
  BY <1>1, <1>3 DEF Link, Connect, Subscribe, Disconnect, RoundStays, store, assets
<1>4. CASE ApplyEvent
  BY <1>4 DEF ApplyEvent, RoundStays, assets
<1>5. CASE Stopped \/ UNCHANGED vars
  BY <1>5 DEF Stopped, vars, RoundStays, store, assets
<1> QED
  BY <1>2, <1>3, <1>4, <1>5

(* The executions a round has read. *)
LEMMA ReportedStaysFit ==
    ASSUME SessionInvariant, [Next]_vars
    PROVE  ReportedFits'
<1>1. /\ TypeOK /\ ReportedFits /\ facts \subseteq Executed
      /\ Executed \subseteq Executed' /\ Executed \subseteq Fills
  BY MarketAdvances, ExecutedStays
     DEF SessionInvariant, StoreIsPast, ViewIsReal, Executed
<1>2. CASE RoundStays
  <2>1. pc \in {"assets", "merge", "lookup", "facts"} => facts' = facts
    BY <1>2 DEF RoundStays
  <2>2. ASSUME pc = "assets", ~history'.raced
        PROVE  OwnOf(Executed') = OwnOf(snap.reported)
    <3>1. ~ \E o \in Ours : Fill(o)
      BY <1>1, <2>2, FillIsRemembered
    <3>2. \A o \in Ours : market'[o].done = market[o].done
      BY <3>1, OwnFillsOnly
    <3>3. OwnOf(Executed') = OwnOf(Executed)
      BY <3>2 DEF OwnOf, Executed, Fills
    <3> QED
      BY <1>1, <1>2, <2>2, <3>3 DEF ReportedFits, RoundStays
  <2>3. FillsOf(snap'.balance) = FillsOf(snap.balance) /\ snap'.reported = snap.reported
    BY <1>2 DEF RoundStays
  <2> QED
    BY <1>1, <1>2, <2>1, <2>2, <2>3 DEF ReportedFits, RoundStays, OwnOf, FillsOf
<1>3. CASE ReadExecutions
  <2>1. /\ snap'.reported = Executed /\ UNCHANGED <<market, facts>> /\ pc' = "assets"
    BY <1>1, <1>3 DEF ReadExecutions, TypeOK, store
  <2>2. Executed' = Executed
    BY <2>1 DEF Executed
  <2> QED
    BY <1>1, <2>1, <2>2 DEF ReportedFits, OwnOf
<1>4. CASE ReadAssets
  <2>1. /\ snap'.reported = snap.reported /\ snap'.balance = [o \in Orders |-> market[o].done]
        /\ UNCHANGED <<market, facts, history>> /\ pc = "assets" /\ pc' = "merge"
    BY <1>1, <1>4 DEF ReadAssets, TypeOK, store
  <2>2. Executed' = Executed /\ FillsOf(snap'.balance) = Executed
    BY <2>1 DEF Executed, FillsOf, Fills
  <2> QED
    BY <1>1, <2>1, <2>2 DEF ReportedFits, OwnOf, FillsOf
<1>5. CASE MergeOrders \/ LookUp
  <2>1. /\ snap'.reported = snap.reported /\ snap'.balance = snap.balance
        /\ UNCHANGED <<market, facts, history>> /\ pc \in {"merge", "lookup"}
        /\ pc' \in {"lookup", "facts"}
    BY <1>1, <1>5 DEF MergeOrders, LookUp, TypeOK
  <2>2. Executed' = Executed /\ FillsOf(snap'.balance) = FillsOf(snap.balance)
    BY <2>1 DEF Executed
  <2> QED
    BY <1>1, <2>1, <2>2 DEF ReportedFits, OwnOf, FillsOf
<1>6. CASE pc' \notin {"assets", "merge", "lookup", "facts"}
  BY <1>6 DEF ReportedFits
<1> QED
  BY <1>1, <1>2, <1>3, <1>4, <1>5, <1>6, OthersLeaveRound DEF Next, RoundStep, StartRound,
     ReadActive, MergeFacts, Backfill, EndRound, Fail, InputsFail, QueryFails

(* The assets a round has read. *)
LEMMA BalanceStaysFit ==
    ASSUME SessionInvariant, [Next]_vars
    PROVE  BalanceFits'
<1>1. TypeOK /\ BalanceFits /\ LaterMarket /\ Ours \subseteq Orders
  BY MarketAdvances, OrderAssumption DEF SessionInvariant
<1>2. \A o \in Orders : /\ snap.balance[o] \in Nat /\ market[o].done \in Nat
                        /\ market'[o].done \in Nat
  BY <1>1, LimitAssumption, OrderKinds DEF TypeOK, LaterMarket
<1>3. CASE RoundStays
  <2>1. ASSUME pc \in {"merge", "lookup", "facts", "backfill"}, NEW o \in Orders
        PROVE  snap.balance[o] <= market'[o].done
    BY <1>1, <1>2, <2>1 DEF BalanceFits, LaterMarket
  <2>2. ASSUME pc \in {"merge", "lookup", "facts", "backfill"}, expected = NoBaseline,
               ~history'.baseRaced, NEW o \in Ours
        PROVE  snap.balance[o] = market'[o].done
    <3>1. ~ \E p \in Ours : Fill(p)
      BY <1>1, <2>2, FillIsRemembered
    <3>2. market'[o].done = market[o].done
      BY <3>1, OwnFillsOnly
    <3> QED
      BY <1>1, <1>3, <2>2, <3>2 DEF BalanceFits, RoundStays
  <2> QED
    BY <1>1, <1>3, <2>1, <2>2 DEF BalanceFits, RoundStays, NoBaseline
<1>4. CASE ReadAssets
  <2>1. /\ snap'.balance = [o \in Orders |-> market[o].done] /\ UNCHANGED market
    BY <1>1, <1>4 DEF ReadAssets, TypeOK
  <2> QED
    BY <1>1, <1>2, <2>1 DEF BalanceFits
<1>5. CASE MergeOrders \/ LookUp \/ (MergeFacts /\ UNCHANGED <<assets, errors, snap>>)
  <2>1. /\ snap'.balance = snap.balance /\ UNCHANGED <<market, expected>>
        /\ history'.baseRaced = history.baseRaced
        /\ pc \in {"merge", "lookup", "facts"}
    BY <1>1, <1>5 DEF MergeOrders, LookUp, MergeFacts, TypeOK, assets
  <2> QED
    BY <1>1, <2>1 DEF BalanceFits, NoBaseline
<1>6. CASE pc' \notin {"merge", "lookup", "facts", "backfill"}
  BY <1>6 DEF BalanceFits
<1> QED
  BY <1>1, <1>3, <1>4, <1>5, <1>6, OthersLeaveRound DEF Next, RoundStep, StartRound,
     ReadActive, ReadExecutions, MergeFacts, Backfill, EndRound, Fail, InputsFail, QueryFails

(***************************************************************************)
(* The asset audit.                                                        *)
(***************************************************************************)
ForeignBalance == Total([o \in Orders |-> IF o \in Ours THEN 0 ELSE snap.balance[o]])

(* Fills are own or foreign. *)
LEMMA FillsSplit ==
    ASSUME NEW S \in SUBSET Fills
    PROVE  /\ IsFiniteSet(S) /\ Cardinality(S) \in Nat
           /\ IsFiniteSet(OwnOf(S)) /\ Cardinality(OwnOf(S)) \in Nat
           /\ IsFiniteSet(ForeignOf(S)) /\ Cardinality(ForeignOf(S)) \in Nat
           /\ Cardinality(S) = Cardinality(OwnOf(S)) + Cardinality(ForeignOf(S))
<1> DEFINE own == OwnOf(S)
           foreign == ForeignOf(S)
<1>1. own \subseteq S /\ foreign \subseteq S /\ S = own \cup foreign /\ own \cap foreign = {}
  BY DEF OwnOf, ForeignOf
<1> HIDE DEF own, foreign
<1>2. IsFiniteSet(S)
  BY FillsAreFinite, FS_Subset
<1>3. IsFiniteSet(own) /\ IsFiniteSet(foreign)
  BY <1>1, <1>2, FS_Subset
<1>4. /\ Cardinality(S) \in Nat /\ Cardinality(own) \in Nat /\ Cardinality(foreign) \in Nat
  BY <1>2, <1>3, FS_CardinalityType
<1>5. Cardinality(own \cap foreign) = 0
  BY <1>1, FS_EmptySet
<1>6. Cardinality(own \cup foreign) =
        Cardinality(own) + Cardinality(foreign) - Cardinality(own \cap foreign)
  BY <1>3, FS_Union
<1> QED
  BY <1>1, <1>2, <1>3, <1>4, <1>5, <1>6 DEF own, foreign

(* The balances are the own and the foreign lots in them. *)
LEMMA BalanceSplits ==
    ASSUME TypeOK
    PROVE  /\ ForeignBalance = Cardinality(ForeignOf(FillsOf(snap.balance)))
           /\ Total(snap.balance) =
                 Cardinality(OwnOf(FillsOf(snap.balance))) + ForeignBalance
           /\ Cardinality(OwnOf(FillsOf(snap.balance))) \in Nat
           /\ ForeignBalance \in Nat
           /\ ForeignBalance <= Cardinality(ForeignOf(Fills))
<1> DEFINE lots == snap.balance
           others == [o \in Orders |-> IF o \in Ours THEN 0 ELSE lots[o]]
<1>1. lots \in [Orders -> 0 .. Lots] /\ Lots \in Nat
  BY LimitAssumption DEF TypeOK
<1>2. others \in [Orders -> 0 .. Lots]
  BY <1>1
<1>3. Total(lots) = Cardinality(FillsOf(lots))
  BY <1>1, TotalCounts
<1>4. Total(others) = Cardinality(FillsOf(others))
  <2> HIDE DEF others
  <2> QED
    BY <1>2, TotalCounts
<1>5. FillsOf(others) = ForeignOf(FillsOf(lots))
  BY <1>1 DEF FillsOf, ForeignOf, Fills
<1>6. FillsOf(lots) \in SUBSET Fills /\ ForeignOf(FillsOf(lots)) \in SUBSET ForeignOf(Fills)
  BY DEF FillsOf, ForeignOf
<1>7. /\ Cardinality(FillsOf(lots)) =
           Cardinality(OwnOf(FillsOf(lots))) + Cardinality(ForeignOf(FillsOf(lots)))
      /\ Cardinality(OwnOf(FillsOf(lots))) \in Nat
      /\ Cardinality(ForeignOf(FillsOf(lots))) \in Nat
  BY <1>6, FillsSplit
<1>8. Cardinality(ForeignOf(FillsOf(lots))) <= Cardinality(ForeignOf(Fills))
  <2>1. IsFiniteSet(ForeignOf(Fills))
    BY FillsSplit
  <2> QED
    BY <1>6, <2>1, FS_Subset
<1>9. ForeignBalance = Total(others)
  BY DEF ForeignBalance
<1> HIDE DEF others, lots
<1> QED
  BY <1>3, <1>4, <1>5, <1>7, <1>8, <1>9 DEF lots

(* What is explained for the first time adds to what is explained.         *)
LEMMA ExplainingAdds ==
    ASSUME NEW known \in SUBSET Fills, explained \subseteq Fills
    PROVE  /\ OwnOf(explained \cup NewlyExplained(known)) = OwnOf(explained) \cup NewlyExplained(known)
           /\ Cardinality(NewlyExplained(known)) \in Nat
           /\ Cardinality(OwnOf(explained)) \in Nat
           /\ Cardinality(OwnOf(explained \cup NewlyExplained(known))) =
                 Cardinality(OwnOf(explained)) + Cardinality(NewlyExplained(known))
<1> DEFINE new == NewlyExplained(known)
           old == OwnOf(explained)
<1>1. /\ OwnOf(explained \cup new) = old \cup new
      /\ new \in SUBSET Fills /\ old \cap new = {}
  BY DEF NewlyExplained, OwnOf
<1>2. IsFiniteSet(old) /\ Cardinality(old) \in Nat
  BY FillsSplit
<1> HIDE DEF new, old
<1>3. IsFiniteSet(new) /\ Cardinality(new) \in Nat
  BY <1>1, FillsSplit
<1>4. Cardinality(old \cap new) = 0
  BY <1>1, FS_EmptySet
<1>5. Cardinality(old \cup new) = Cardinality(old) + Cardinality(new) - Cardinality(old \cap new)
  BY <1>2, <1>3, FS_Union
<1>6. Cardinality(OwnOf(explained \cup new)) = Cardinality(old) + Cardinality(new)
  <2>1. Cardinality(old \cup new) = Cardinality(old) + Cardinality(new)
    BY <1>2, <1>3, <1>4, <1>5
  <2> QED
    BY <1>1, <2>1, Zenon
<1> QED
  BY <1>1, <1>2, <1>3, <1>6, Zenon DEF new, old

(* An audit moves the expectation by the own fills it explains.            *)
LEMMA AuditKeepsBaseline ==
    ASSUME SessionInvariant, MergeFacts, expected # NoBaseline
    PROVE  /\ expected' <= history.foreign + Cardinality(OwnOf(explained'))
           /\ expected' \in Nat
           /\ ~history.baseRaced =>
                 expected' = history.foreign + Cardinality(OwnOf(explained'))
           /\ explained' \subseteq facts'
           /\ OwnOf(explained') = OwnOf(explained \cup facts')
<1> DEFINE known == MergeExecutions(facts)
<1>1. TypeOK /\ BaselineFits /\ ReportedFits
  BY DEF SessionInvariant
<1>2. /\ expected' = expected + Cardinality(NewlyExplained(known))
      /\ explained' = explained \cup NewlyExplained(known)
      /\ facts' = known
  BY DEF MergeFacts
<1>3. known \in SUBSET Fills /\ explained \subseteq Fills
  BY <1>1 DEF MergeExecutions, TypeOK
<1>4. /\ Cardinality(NewlyExplained(known)) \in Nat
      /\ Cardinality(OwnOf(explained)) \in Nat
      /\ Cardinality(OwnOf(explained')) =
            Cardinality(OwnOf(explained)) + Cardinality(NewlyExplained(known))
  <2> HIDE DEF known
  <2> QED
    BY <1>2, <1>3, ExplainingAdds
<1>5. expected \in Nat /\ history.foreign \in Nat
  BY <1>1, LimitAssumption, OrderAssumption, FS_CardinalityType DEF TypeOK
<1>6. explained' \subseteq facts' /\ OwnOf(explained') = OwnOf(explained \cup facts')
  BY <1>1, <1>2 DEF BaselineFits, NewlyExplained, MergeExecutions, OwnOf
<1> HIDE DEF known
<1>7. /\ expected <= history.foreign + Cardinality(OwnOf(explained))
      /\ ~history.baseRaced => expected = history.foreign + Cardinality(OwnOf(explained))
  BY <1>1 DEF BaselineFits
<1> QED
  BY <1>2, <1>4, <1>5, <1>6, <1>7

(* A new baseline is the balances, and every own fill is explained in it.  *)
LEMMA BackfillMakesBaseline ==
    ASSUME SessionInvariant, Backfill
    PROVE  /\ expected' <= history'.foreign + Cardinality(OwnOf(explained'))
           /\ expected' \in Nat
           /\ ~history.baseRaced =>
                 expected' = history'.foreign + Cardinality(OwnOf(explained'))
           /\ explained' = facts'
           /\ history'.foreign \in Nat /\ history'.foreign <= Cardinality(ForeignOf(Fills))
<1> DEFINE known == facts \cup {f \in Executed : f[1] \in Ours}
           held == OwnOf(FillsOf(snap.balance))
<1>1. TypeOK /\ BaselineFits /\ BalanceFits /\ facts \subseteq Executed /\ Ours \subseteq Orders
  BY OrderAssumption DEF SessionInvariant, StoreIsPast, ViewIsReal
<1>2. /\ expected' = Total(snap.balance) /\ explained' = known /\ facts' = known
      /\ history'.foreign = ForeignBalance
      /\ pc = "backfill" /\ expected = NoBaseline
  BY <1>1 DEF Backfill, ForeignBalance, BaselineFits, TypeOK
<1>3. OwnOf(known) = OwnOf(Executed) /\ known \subseteq Fills
  BY <1>1 DEF OwnOf, Executed
<1>4. held \subseteq OwnOf(Executed) /\ (~history.baseRaced => held = OwnOf(Executed))
  <2>1. /\ \A o \in Orders : snap.balance[o] <= market[o].done
        /\ ~history.baseRaced => \A o \in Ours : snap.balance[o] = market[o].done
    BY <1>1, <1>2 DEF BalanceFits
  <2>2. \A o \in Orders : snap.balance[o] \in Nat /\ market[o].done \in Nat
    BY <1>1, LimitAssumption, OrderKinds DEF TypeOK
  <2> QED
    BY <1>1, <2>1, <2>2, LimitAssumption DEF OwnOf, FillsOf, Executed, Fills
<1>5. /\ Cardinality(OwnOf(known)) \in Nat /\ IsFiniteSet(OwnOf(known))
  <2> HIDE DEF known
  <2> QED
    BY <1>3, FillsSplit
<1>6. Cardinality(held) <= Cardinality(OwnOf(known))
  <2> HIDE DEF held, known
  <2> QED
    BY <1>3, <1>4, <1>5, FS_Subset
<1>7. /\ Total(snap.balance) = Cardinality(held) + ForeignBalance
      /\ Cardinality(held) \in Nat /\ ForeignBalance \in Nat
      /\ ForeignBalance <= Cardinality(ForeignOf(Fills))
  BY <1>1, BalanceSplits
<1> HIDE DEF held, known
<1>8. OwnOf(explained') = OwnOf(known)
  BY <1>2
<1>9. ~history.baseRaced => Cardinality(held) = Cardinality(OwnOf(known))
  BY <1>3, <1>4
<1> QED
  BY <1>2, <1>5, <1>6, <1>7, <1>8, <1>9

(* The books of the audit. *)
LEMMA BaselineStaysFit ==
    ASSUME SessionInvariant, [Next]_vars
    PROVE  BaselineFits'
<1>1. TypeOK /\ BaselineFits
  BY DEF SessionInvariant
<1>2. OwnOf(explained)' = OwnOf(explained') /\ (ForeignOf(Fills))' = ForeignOf(Fills)
  BY DEF OwnOf, ForeignOf, Fills
<1>3. CASE RoundStays
  <2>1. OwnOf(explained') = OwnOf(explained)
    BY <1>3 DEF RoundStays
  <2> QED
    BY <1>1, <1>2, <1>3, <2>1 DEF BaselineFits, RoundStays, NoBaseline
<1>4. CASE MergeFacts /\ expected # NoBaseline
  <2>1. pc' # "backfill" /\ history'.foreign = history.foreign
        /\ history'.baseRaced = history.baseRaced
    BY <1>1, <1>4 DEF MergeFacts, EndRound, Fail, TypeOK
  <2> QED
    BY <1>1, <1>2, <1>4, <2>1, AuditKeepsBaseline DEF BaselineFits
<1>5. CASE MergeFacts /\ expected = NoBaseline
  <2>1. history'.foreign = history.foreign /\ UNCHANGED <<expected, explained>>
        /\ facts \subseteq facts'
    BY <1>1, <1>5 DEF MergeFacts, MergeExecutions, TypeOK, assets
  <2> QED
    BY <1>1, <1>2, <1>5, <2>1 DEF BaselineFits, NoBaseline
<1>6. CASE Backfill
  <2>1. pc' # "backfill" /\ history'.baseRaced = history.baseRaced
    BY <1>1, <1>6 DEF Backfill, EndRound, Fail, TypeOK
  <2> QED
    BY <1>2, <1>6, <2>1, BackfillMakesBaseline DEF BaselineFits
<1>7. ASSUME StartRound \/ ReadActive \/ ReadExecutions \/ ReadAssets \/ MergeOrders
             \/ LookUp \/ InputsFail \/ QueryFails
      PROVE  BaselineFits'
  <2>1. /\ UNCHANGED <<facts, expected, explained>> /\ pc' # "backfill"
        /\ history'.foreign = history.foreign /\ history'.baseRaced = history.baseRaced
    BY <1>1, <1>7 DEF StartRound, ReadActive, ReadExecutions, ReadAssets, MergeOrders, LookUp,
       InputsFail, QueryFails, Fail, TypeOK, store, assets
  <2> QED
    BY <1>1, <1>2, <2>1 DEF BaselineFits, NoBaseline
<1> QED
  BY <1>1, <1>3, <1>4, <1>5, <1>6, <1>7, OthersLeaveRound DEF Next, RoundStep

(***************************************************************************)
(* Types.                                                                  *)
(***************************************************************************)
Frames == [kind : {"order", "execution"}, order : Orders,
           status : {"ORDERED", "CANCELED"}, done : 0 .. Lots]

(* Frames are made of what the exchange has. *)
LEMMA WireStaysTyped ==
    ASSUME SessionInvariant, [Next]_vars
    PROVE  wire' \subseteq Frames
<1>1. TypeOK /\ wire \subseteq Frames
  BY DEF SessionInvariant, TypeOK, Frames
<1>2. ASSUME NEW o \in Orders, Place(o) \/ Fill(o) \/ Cancel(o)
      PROVE  wire' \subseteq Frames
  <2>1. market[o] \in PastOrders /\ market[o].done \in 0 .. Lots /\ Lots \in Nat \ {0}
    BY <1>1, OrderTyped
  <2>2. CASE Place(o)
    <3>1. Frame("order", o, "ORDERED", 0) \in Frames
      BY <2>1 DEF Frame, Frames
    <3> QED
      BY <1>1, <2>2, <3>1 DEF Place, Send
  <2>3. CASE Fill(o)
    <3>1. market[o].done # Lots
      BY <2>1, <2>3, OrderKinds DEF Fill, Open, Active
    <3>2. Frame("execution", o, "ORDERED", market[o].done + 1) \in Frames
      BY <2>1, <3>1 DEF Frame, Frames
    <3> QED
      BY <1>1, <2>3, <3>2 DEF Fill
  <2>4. CASE Cancel(o)
    <3>1. Frame("order", o, "CANCELED", market[o].done) \in Frames
      BY <2>1 DEF Frame, Frames
    <3> QED
      BY <1>1, <2>4, <3>1 DEF Cancel, Send
  <2> QED
    BY <1>2, <2>2, <2>3, <2>4
<1>3. CASE Market
  BY <1>2, <1>3 DEF Market
<1>4. CASE wire' \subseteq wire
  BY <1>1, <1>4
<1> QED
  BY <1>3, <1>4 DEF Next, Link, Connect, Subscribe, Disconnect, ApplyEvent, RoundStep,
     StartRound, ReadActive, ReadExecutions, ReadAssets, MergeOrders, LookUp, MergeFacts,
     Backfill, EndRound, Fail, InputsFail, QueryFails, Stopped, vars

\* The parts of TypeOK that a step of the round writes.
RoundTyped ==
    /\ pc \in {"idle", "active", "executions", "assets", "merge", "lookup",
               "facts", "backfill", "stopped"}
    /\ realign \in BOOLEAN /\ snapshotTaken \in BOOLEAN
    /\ errors \in 0 .. ErrorLimit
    /\ failures \in 0 .. FailureLimit /\ tripped \in BOOLEAN
    /\ link \in {"down", "joined", "up"} /\ connectedOnce \in BOOLEAN
    /\ drops \in 0 .. MaxDrops

SnapTyped ==
    /\ snap = [mode |-> snap.mode, listed |-> snap.listed,
               reported |-> snap.reported, balance |-> snap.balance,
               disagree |-> snap.disagree]
    /\ snap.mode \in Modes
    /\ DOMAIN snap.listed \subseteq Orders
    /\ \A o \in DOMAIN snap.listed : snap.listed[o] \in 0 .. Lots
    /\ snap.reported \subseteq Fills
    /\ snap.balance \in [Orders -> 0 .. Lots]
    /\ snap.disagree \subseteq Mismatches \X Orders

(* There are finitely many mismatches to count. *)
LEMMA CountedIsNatural ==
    ASSUME SessionInvariant
    PROVE  Cardinality(snap.disagree) \in Nat
<1>1. snap.disagree \in SUBSET (Mismatches \X Orders)
  BY DEF SessionInvariant, TypeOK
<1>2. IsFiniteSet(Mismatches)
  <2>1. Mismatches = ((({"ws_missing_order"} \cup {"status_mismatch"})
                       \cup {"executed_size_mismatch"}) \cup {"stale_active_order"})
    BY DEF Mismatches
  <2>2. IsFiniteSet({"ws_missing_order"})
    BY FS_Singleton
  <2> QED
    BY <2>1, <2>2, FS_AddElement
<1>3. IsFiniteSet(Mismatches \X Orders)
  BY <1>2, OrderAssumption, FS_Product
<1> QED
  BY <1>1, <1>3, FS_Subset, FS_CardinalityType

(* Where the round is, and the counters. *)
LEMMA RoundStaysTyped ==
    ASSUME SessionInvariant, [Next]_vars
    PROVE  RoundTyped' /\ ErrorsFit'
<1>1. RoundTyped /\ ErrorsFit /\ ErrorLimit \in Nat /\ FailureLimit \in Nat /\ MaxDrops \in Nat
      /\ ErrorLimit > 0
  BY LimitAssumption DEF SessionInvariant, TypeOK, RoundTyped
<1>2. CASE UNCHANGED <<pc, runner, breaker, connection>>
  BY <1>1, <1>2 DEF RoundTyped, ErrorsFit, Halted, runner, breaker, connection
<1>3. CASE Link
  <2>1. realign' \in BOOLEAN
    BY <1>1, <1>3, Zenon DEF Link, Connect, Subscribe, Disconnect, RoundTyped, runner
  <2>2. /\ UNCHANGED <<pc, snapshotTaken, errors, breaker>>
        /\ link' \in {"down", "joined", "up"}
    BY <1>1, <1>3, Zenon DEF Link, Connect, Subscribe, Disconnect, RoundTyped, runner
  <2>3. connectedOnce' \in BOOLEAN
    BY <1>1, <1>3, Zenon DEF Link, Connect, Subscribe, Disconnect, RoundTyped
  <2>4. drops' \in 0 .. MaxDrops
    <3>1. drops \in 0 .. MaxDrops
      BY <1>1, Zenon DEF RoundTyped
    <3>2. drops' = drops \/ (drops < MaxDrops /\ drops' = drops + 1)
      BY <1>3, Zenon DEF Link, Connect, Subscribe, Disconnect
    <3> QED
      BY <1>1, <3>1, <3>2
  <2> QED
    BY <1>1, <2>1, <2>2, <2>3, <2>4 DEF RoundTyped, ErrorsFit, Halted, breaker
<1>4. CASE StartRound
  BY <1>1, <1>4 DEF StartRound, RoundTyped, ErrorsFit, Halted, breaker, connection
<1>5. CASE ReadActive \/ ReadExecutions \/ ReadAssets \/ MergeOrders \/ LookUp
  BY <1>1, <1>5 DEF ReadActive, ReadExecutions, ReadAssets, MergeOrders, LookUp, RoundTyped,
     ErrorsFit, Halted, runner, breaker, connection
<1>6. ASSUME errors < ErrorLimit, Fail
      PROVE  /\ errors' \in 0 .. ErrorLimit /\ pc' \in {"idle", "stopped"} /\ ErrorsFit'
  BY <1>1, <1>6 DEF Fail, RoundTyped, ErrorsFit, Halted
<1>7. CASE InputsFail \/ QueryFails
  <2>1. errors < ErrorLimit /\ Fail
    BY <1>1, <1>7 DEF InputsFail, QueryFails, ErrorsFit, Halted
  <2> QED
    BY <1>1, <1>6, <1>7, <2>1 DEF InputsFail, QueryFails, RoundTyped, breaker, connection
<1>8. ASSUME errors < ErrorLimit, EndRound
      PROVE  /\ errors' \in 0 .. ErrorLimit /\ pc' \in {"idle", "stopped"} /\ ErrorsFit'
  BY <1>1, <1>6, <1>8 DEF EndRound, ErrorsFit, Halted
<1>9. CASE MergeFacts
  <2>1. errors < ErrorLimit /\ pc = "facts"
    BY <1>1, <1>9 DEF MergeFacts, ErrorsFit, Halted
  <2>2. /\ errors' \in 0 .. ErrorLimit /\ pc' \in {"idle", "stopped", "backfill"} /\ ErrorsFit'
    BY <1>1, <1>8, <1>9, <2>1 DEF MergeFacts, ErrorsFit, Halted, RoundTyped
  <2>3. failures' \in 0 .. FailureLimit
    <3>1. PICK n : n = (IF snap.mode = "AUDIT" THEN Cardinality(snap.disagree) ELSE 0)
                   /\ failures' = AddFailures(n)
      BY <1>9 DEF MergeFacts
    <3> QED
      BY <1>1, <1>9, <3>1, CountedIsNatural DEF AddFailures, RoundTyped
  <2>4. tripped' \in BOOLEAN
    BY <1>9, Zenon DEF MergeFacts
  <2> QED
    BY <1>1, <1>9, <2>2, <2>3, <2>4 DEF MergeFacts, RoundTyped, connection
<1>10. CASE Backfill
  <2>1. errors < ErrorLimit
    BY <1>1, <1>10 DEF Backfill, ErrorsFit, Halted
  <2> QED
    BY <1>1, <1>8, <1>10, <2>1 DEF Backfill, RoundTyped, connection, breaker
<1> QED
  BY <1>2, <1>3, <1>4, <1>5, <1>7, <1>9, <1>10 DEF Next, RoundStep, Market, Place, Fill,
     Cancel, ApplyEvent, Stopped, vars

(* What it has read. *)
LEMMA SnapStaysTyped ==
    ASSUME SessionInvariant, [Next]_vars
    PROVE  SnapTyped'
<1>1. TypeOK /\ SnapTyped /\ Lots \in Nat
  BY LimitAssumption DEF SessionInvariant, TypeOK, SnapTyped
<1>2. CASE UNCHANGED snap
  BY <1>1, <1>2 DEF SnapTyped
<1>3. CASE snap' = NoSnapshot
  BY <1>1, <1>3 DEF SnapTyped, NoSnapshot, Modes
<1>4. CASE StartRound
  <2>1. PICK m \in Modes : snap' = [NoSnapshot EXCEPT !.mode = m]
    BY <1>4 DEF StartRound, Modes
  <2> QED
    <3>1. snap' = [mode |-> m, listed |-> [o \in {} |-> 0], reported |-> {},
                   balance |-> [o \in Orders |-> 0], disagree |-> {}]
      BY <2>1 DEF NoSnapshot
    <3> QED
      BY <1>1, <3>1 DEF SnapTyped
<1>5. CASE ReadActive
  <2>1. snap' = [snap EXCEPT !.listed = [o \in Open |-> market[o].done]]
    BY <1>5 DEF ReadActive
  <2>2. Open \subseteq Orders /\ \A o \in Open : market[o].done \in 0 .. Lots
    BY <1>1, OrderTyped DEF Open
  <2> QED
    BY <1>1, <2>1, <2>2 DEF SnapTyped
<1>6. CASE ReadExecutions
  BY <1>1, <1>6 DEF ReadExecutions, SnapTyped, Executed
<1>7. CASE ReadAssets
  <2>1. snap' = [snap EXCEPT !.balance = [o \in Orders |-> market[o].done]]
    BY <1>7 DEF ReadAssets
  <2>2. [o \in Orders |-> market[o].done] \in [Orders -> 0 .. Lots]
    BY <1>1, OrderTyped
  <2> QED
    BY <1>1, <2>1, <2>2 DEF SnapTyped
<1>8. CASE MergeOrders
  <2>1. snap' = [snap EXCEPT !.disagree = DetectMismatches]
    BY <1>8 DEF MergeOrders
  <2>2. DetectMismatches \subseteq Mismatches \X Orders
    BY <1>1 DEF DetectMismatches, StaleIn, SnapTyped, Mismatches
  <2> HIDE DEF DetectMismatches
  <2> QED
    BY <1>1, <2>1, <2>2 DEF SnapTyped
<1> QED
  BY <1>2, <1>3, <1>4, <1>5, <1>6, <1>7, <1>8 DEF Next, RoundStep, Market, Place, Fill,
     Cancel, Link, Connect, Subscribe, Disconnect, ApplyEvent, LookUp, MergeFacts, Backfill,
     EndRound, Fail, InputsFail, QueryFails, Stopped, vars

(* The books of the audit are bounded by the fills there can be. *)
LEMMA BooksStayTyped ==
    ASSUME SessionInvariant, [Next]_vars
    PROVE  /\ expected' \in {NoBaseline} \cup 0 .. Lots * Cardinality(Orders)
           /\ explained' \subseteq Fills
           /\ history' \in [lost : SUBSET Orders, raced : BOOLEAN,
                            baseRaced : BOOLEAN,
                            foreign : 0 .. Lots * Cardinality(Orders),
                            aligned : BOOLEAN]
<1> DEFINE most == Lots * Cardinality(Orders)
<1>1. TypeOK /\ BaselineFits /\ wire \subseteq Frames
  BY DEF SessionInvariant, TypeOK, Frames
<1>2. BaselineFits' /\ OwnOf(explained)' = OwnOf(explained') /\ (ForeignOf(Fills))' = ForeignOf(Fills)
  BY BaselineStaysFit DEF OwnOf, ForeignOf, Fills
<1>3. facts' \subseteq Fills
  BY FactsArePast DEF Executed, Fills
<1>4. explained' \subseteq Fills
  BY <1>2, <1>3 DEF BaselineFits
<1>5. /\ Cardinality(Fills) = Cardinality(OwnOf(Fills)) + Cardinality(ForeignOf(Fills))
      /\ Cardinality(OwnOf(Fills)) \in Nat /\ Cardinality(ForeignOf(Fills)) \in Nat
      /\ IsFiniteSet(OwnOf(Fills))
  BY FillsSplit
<1>6. most \in Nat /\ Cardinality(Fills) = most
  <2>1. Lots \in Nat /\ Cardinality(Orders) \in Nat
    BY LimitAssumption, OrderAssumption, FS_CardinalityType
  <2> QED
    BY <2>1, FillsAreFinite
<1>7. /\ Cardinality(OwnOf(explained')) \in Nat
      /\ Cardinality(OwnOf(explained')) <= Cardinality(OwnOf(Fills))
  <2>1. OwnOf(explained') \in SUBSET OwnOf(Fills)
    BY <1>4 DEF OwnOf
  <2> QED
    BY <1>4, <1>5, <2>1, FillsSplit, FS_Subset
<1> HIDE DEF most
<1>8. history'.foreign \in Nat
  <2>1. history.foreign \in Nat
    BY <1>1, <1>6 DEF TypeOK, most
  <2>2. CASE Backfill
    BY <2>2, BackfillMakesBaseline
  <2>3. CASE RoundStays
    BY <2>1, <2>3 DEF RoundStays
  <2>4. CASE history'.foreign = history.foreign
    BY <2>1, <2>4
  <2> QED
    BY <1>1, <2>2, <2>3, <2>4, OthersLeaveRound DEF Next, RoundStep, StartRound, ReadActive,
       ReadExecutions, ReadAssets, MergeOrders, LookUp, MergeFacts, InputsFail, QueryFails,
       TypeOK
<1>9. history'.foreign \in 0 .. most
  BY <1>2, <1>5, <1>6, <1>8 DEF BaselineFits
<1>10. expected' = NoBaseline \/ expected' \in Nat
  <2>1. expected \in {NoBaseline} \cup Nat
    BY <1>1, <1>6 DEF TypeOK, most
  <2>2. CASE Backfill
    BY <2>2, BackfillMakesBaseline
  <2>3. CASE MergeFacts /\ expected # NoBaseline
    BY <2>3, AuditKeepsBaseline
  <2>4. CASE UNCHANGED expected
    BY <2>1, <2>4
  <2> QED
    BY <1>1, <2>2, <2>3, <2>4, OthersLeaveRound DEF Next, RoundStep, StartRound, ReadActive,
       ReadExecutions, ReadAssets, MergeOrders, LookUp, MergeFacts, InputsFail, QueryFails,
       RoundStays, assets
<1>11. expected' \in {NoBaseline} \cup 0 .. most
  <2>1. CASE expected' = NoBaseline
    BY <2>1
  <2>2. CASE expected' # NoBaseline
    <3>1. expected' <= history'.foreign + Cardinality(OwnOf(explained'))
      BY <1>2, <2>2 DEF BaselineFits, NoBaseline
    <3>2. history'.foreign <= Cardinality(ForeignOf(Fills))
      BY <1>2 DEF BaselineFits
    <3> QED
      BY <1>5, <1>6, <1>7, <1>8, <1>10, <2>2, <3>1, <3>2
  <2> QED
    BY <2>1, <2>2
<1>12. /\ history' = [lost |-> history'.lost, raced |-> history'.raced,
                      baseRaced |-> history'.baseRaced, foreign |-> history'.foreign,
                      aligned |-> history'.aligned]
       /\ history'.lost \subseteq Orders
       /\ history'.raced \in BOOLEAN /\ history'.baseRaced \in BOOLEAN
       /\ history'.aligned \in BOOLEAN
  <2>1. /\ history = [lost |-> history.lost, raced |-> history.raced,
                      baseRaced |-> history.baseRaced, foreign |-> history.foreign,
                      aligned |-> history.aligned]
        /\ history.lost \subseteq Orders
        /\ history.raced \in BOOLEAN /\ history.baseRaced \in BOOLEAN
        /\ history.aligned \in BOOLEAN
    BY <1>1 DEF TypeOK
  <2>2. CASE UNCHANGED history
    BY <2>1, <2>2
  <2>3. ASSUME NEW o \in Orders, Place(o) \/ Fill(o) \/ Cancel(o),
               ~UNCHANGED history
        PROVE  \E lost \in SUBSET Orders, raced \in BOOLEAN, baseRaced \in BOOLEAN :
                  history' = [history EXCEPT !.lost = lost, !.raced = raced,
                                             !.baseRaced = baseRaced]
    <3>1. CASE Place(o) \/ Cancel(o)
      <4>1. history' = [history EXCEPT !.lost = @ \cup {o}]
        BY <2>3, <3>1 DEF Place, Cancel, Send, Frame
      <4>2. history' = [history EXCEPT !.lost = history.lost \cup {o}, !.raced = history.raced,
                                       !.baseRaced = history.baseRaced]
        BY <2>1, <4>1
      <4> QED
        BY <2>1, <4>2
    <3>2. CASE Fill(o)
      <4> DEFINE lost == IF link = "up" THEN history.lost ELSE history.lost \cup {o}
                 raced == history.raced \/ (o \in Ours /\ pc = "assets")
                 baseRaced == history.baseRaced
                       \/ (o \in Ours /\ expected = NoBaseline
                           /\ pc \in {"merge", "lookup", "facts", "backfill"})
      <4>1. history' = [history EXCEPT !.lost = lost, !.raced = raced, !.baseRaced = baseRaced]
        BY <3>2, Zenon DEF Fill
      <4>2. raced \in BOOLEAN /\ baseRaced \in BOOLEAN /\ lost \in SUBSET Orders
        BY <2>1
      <4> HIDE DEF lost, raced, baseRaced
      <4> QED
        BY <4>1, <4>2
    <3> QED
      BY <2>3, <3>1, <3>2
  <2>4. CASE Market
    BY <2>1, <2>2, <2>3, <2>4 DEF Market
  <2>5. CASE Connect
    <3>1. PICK b \in BOOLEAN : history' = [history EXCEPT !.aligned = b]
      BY <2>5 DEF Connect
    <3> QED
      BY <2>1, <3>1
  <2>6. CASE Disconnect
    <3>1. PICK kept \in SUBSET wire : history' = [history EXCEPT
                !.lost = @ \cup {f.order : f \in wire \ kept}]
      BY <2>6 DEF Disconnect
    <3>2. {f.order : f \in wire \ kept} \subseteq Orders
      BY <1>1 DEF Frames
    <3> QED
      BY <2>1, <3>1, <3>2
  <2>7. CASE StartRound
    BY <2>1, <2>7 DEF StartRound
  <2>8. CASE MergeFacts
    <3>1. PICK b \in BOOLEAN : history' = [history EXCEPT !.aligned = b]
      <4>1. (history.aligned \/ snap.mode = "REALIGN") \in BOOLEAN
        OBVIOUS
      <4> QED
        BY <2>8, <4>1, Zenon DEF MergeFacts
    <3> QED
      BY <2>1, <3>1
  <2>9. CASE Backfill
    <3>1. PICK n : history' = [history EXCEPT !.foreign = n]
      BY <2>9 DEF Backfill
    <3> QED
      BY <2>1, <3>1
  <2> QED
    BY <2>2, <2>4, <2>5, <2>6, <2>7, <2>8, <2>9 DEF Next, Link, Subscribe, ApplyEvent,
       RoundStep, ReadActive, ReadExecutions, ReadAssets, MergeOrders, LookUp, InputsFail,
       QueryFails, Stopped, vars
<1>13. history' \in [lost : SUBSET Orders, raced : BOOLEAN, baseRaced : BOOLEAN,
                     foreign : 0 .. most, aligned : BOOLEAN]
  BY <1>9, <1>12
<1> QED
  BY <1>4, <1>11, <1>13 DEF most

(* Everything keeps its type. *)
LEMMA TypesStay ==
    ASSUME SessionInvariant, [Next]_vars
    PROVE  TypeOK'
<1>1. market' \in [Orders -> PastOrders]
  BY MarketAdvances DEF LaterMarket, SessionInvariant
<1>2. view' \in [Orders -> [status : Active \cup Closed \cup {"unknown"}, done : 0 .. Lots]]
  BY StoreFollows DEF ViewStates
<1>3. facts' \subseteq Fills
  BY FactsArePast DEF Executed, Fills
<1> QED
  BY <1>1, <1>2, <1>3, WireStaysTyped, RoundStaysTyped, SnapStaysTyped, BooksStayTyped
     DEF TypeOK, RoundTyped, SnapTyped, Frames, Fills, PastOrders, Active, Closed, NoBaseline,
         Modes, Mismatches

(***************************************************************************)
(* The theorems.                                                           *)
(***************************************************************************)
(* A session starts with nothing read and nothing counted.                 *)
LEMMA SessionStarts == Init => SessionInvariant
<1> SUFFICES ASSUME Init PROVE SessionInvariant
  OBVIOUS
<1>1. Lots \in Nat \ {0} /\ ErrorLimit \in Nat \ {0} /\ FailureLimit \in Nat /\ MaxDrops \in Nat
  BY LimitAssumption
<1>2. 0 \in 0 .. Lots * Cardinality(Orders)
  <2>1. Cardinality(Orders) \in Nat
    BY OrderAssumption, FS_CardinalityType
  <2>2. Lots * Cardinality(Orders) \in Nat
    BY <1>1, <2>1
  <2> QED
    BY <2>2
<1>3. \A o \in Orders : market[o].done \in Nat
  BY <1>1, OrderKinds DEF Init
<1>4. TypeOK
  <2>1. /\ snap = [mode |-> snap.mode, listed |-> snap.listed, reported |-> snap.reported,
                   balance |-> snap.balance, disagree |-> snap.disagree]
        /\ snap.mode \in Modes /\ DOMAIN snap.listed = {} /\ snap.reported = {}
        /\ snap.balance \in [Orders -> 0 .. Lots] /\ snap.disagree = {}
    BY <1>1 DEF Init, NoSnapshot, Modes
  <2>2. /\ market \in [Orders -> PastOrders] /\ wire = {} /\ facts = {} /\ explained = {}
        /\ view \in [Orders -> [status : Active \cup Closed \cup {"unknown"}, done : 0 .. Lots]]
        /\ expected = NoBaseline
    BY <1>1 DEF Init
  <2>3. history \in [lost : SUBSET Orders, raced : BOOLEAN, baseRaced : BOOLEAN,
                     foreign : 0 .. Lots * Cardinality(Orders), aligned : BOOLEAN]
    BY <1>2 DEF Init
  <2>4. /\ link = "down" /\ connectedOnce = FALSE /\ drops = 0 /\ pc = "idle"
        /\ realign = FALSE /\ snapshotTaken = FALSE /\ errors = 0
        /\ failures = 0 /\ tripped = FALSE
    BY DEF Init
  <2>5. RoundTyped
    <3>1. /\ realign \in BOOLEAN /\ snapshotTaken \in BOOLEAN /\ tripped \in BOOLEAN
          /\ connectedOnce \in BOOLEAN /\ link \in {"down", "joined", "up"}
      BY <2>4, Zenon
    <3>2. /\ errors \in 0 .. ErrorLimit /\ failures \in 0 .. FailureLimit
          /\ drops \in 0 .. MaxDrops
      BY <1>1, <2>4
    <3> QED
      BY <2>4, <3>1, <3>2 DEF RoundTyped
  <2>6. SnapTyped
    BY <2>1 DEF SnapTyped
  <2> QED
    BY <2>2, <2>3, <2>5, <2>6 DEF TypeOK, RoundTyped, SnapTyped
<1>5. ErrorsFit /\ WireIsPast /\ ListedFits /\ StaleFits /\ ReportedFits /\ BalanceFits
  BY <1>1 DEF Init, ErrorsFit, WireIsPast, ListedFits, StaleFits, ReportedFits, BalanceFits, Halted
<1>6. StoreIsPast
  BY <1>1, <1>3 DEF Init, StoreIsPast, ViewIsReal, Closed
<1>7. BaselineFits
  <2>1. Cardinality(ForeignOf(Fills)) \in Nat
    BY FillsSplit
  <2> QED
    BY <2>1 DEF Init, BaselineFits
<1> QED
  BY <1>4, <1>5, <1>6, <1>7 DEF SessionInvariant

(* SessionInvariant holds in every reachable state: what was sent, read and *)
(* counted is still true of the past when a handler or a round uses it.    *)
THEOREM SessionInductive == Spec => []SessionInvariant
<1>1. SessionInvariant /\ [Next]_vars => SessionInvariant'
  BY TypesStay, RoundStaysTyped, FramesStayPast, StoreStaysPast, ListedStaysFit, StaleStayFit,
     ReportedStaysFit, BalanceStaysFit, BaselineStaysFit DEF SessionInvariant
<1> QED
  BY <1>1, SessionStarts, PTL DEF Spec

(* The exchange, the frames, the store and the round keep their types; the *)
(* failed rounds stay within the limit, the expectation within the lots.   *)
THEOREM SessionTyped == Spec => []TypeOK
<1>1. SessionInvariant => TypeOK
  BY DEF SessionInvariant
<1> QED
  BY <1>1, SessionInductive, PTL

(* The picture of the session never runs ahead of the exchange: no order   *)
(* that stands is held closed, no fill is counted that was not executed.   *)
THEOREM StoreIsReal == Spec => []ViewIsReal
<1>1. SessionInvariant => ViewIsReal
  BY DEF SessionInvariant, StoreIsPast
<1> QED
  BY <1>1, SessionInductive, PTL

(* Whatever order frames of the stream and snapshots arrive in, executed   *)
(* lots never shrink in the store and a closed order is never reopened.    *)
THEOREM StoreAdvances == Spec => ViewOnlyAdvances
<1>1. ASSUME SessionInvariant, [Next]_vars
      PROVE  [\A o \in Orders :
                 /\ view'[o].done >= view[o].done
                 /\ view[o].status \in Closed => view'[o].status \in Closed]_vars
  <2>1. ASSUME NEW o \in Orders
        PROVE  /\ view'[o].done >= view[o].done
               /\ view[o].status \in Closed => view'[o].status \in Closed
    <3>1. Follows(o, view[o], view'[o])
      BY <1>1, StoreFollows
    <3>2. view[o].done \in Nat /\ view'[o].done \in Nat
      BY <1>1, <3>1, LimitAssumption DEF SessionInvariant, TypeOK, Follows, ViewStates
    <3> QED
      BY <3>1, <3>2 DEF Follows
  <2> QED
    BY <2>1
<1> QED
  BY <1>1, SessionInductive, PTL DEF Spec, ViewOnlyAdvances

(* The audit of the assets leaves exactly the lots of foreign orders since *)
(* the baseline unexplained, if no own fill fell between two reads that    *)
(* must agree: AssetReconciliation misses no own fill and counts none      *)
(* twice, in any number of rounds, reconnections and failures.             *)
THEOREM AuditIsExact == Spec => ForeignIsUnexplained
<1>1. ASSUME SessionInvariant, [Next]_vars, Arbitrates, expected # NoBaseline,
             ~history.raced, ~history.baseRaced
      PROVE  Total(snap.balance) - expected' = ForeignBalance - history.foreign
  <2>1. TypeOK /\ ReportedFits /\ BaselineFits
    BY <1>1 DEF SessionInvariant
  <2>2. MergeFacts
    BY <1>1, <2>1, OthersLeaveRound DEF Arbitrates, Next, RoundStep, RoundStays, StartRound,
       ReadActive, ReadExecutions, ReadAssets, MergeOrders, LookUp, Backfill, InputsFail,
       QueryFails
  <2>3. pc = "facts" /\ facts' = facts \cup snap.reported
    BY <2>2 DEF MergeFacts, MergeExecutions
  <2>4. facts' = snap.reported /\ explained \subseteq facts'
    BY <2>1, <2>3 DEF ReportedFits, BaselineFits
  <2>5. OwnOf(explained \cup facts') = OwnOf(FillsOf(snap.balance))
    BY <1>1, <2>1, <2>3, <2>4 DEF ReportedFits, OwnOf
  <2>6. expected' = history.foreign + Cardinality(OwnOf(FillsOf(snap.balance)))
    BY <1>1, <2>2, <2>5, AuditKeepsBaseline
  <2>7. history.foreign \in Nat
    BY <2>1, LimitAssumption, OrderAssumption, FS_CardinalityType DEF TypeOK
  <2> QED
    BY <2>1, <2>6, <2>7, BalanceSplits
<1>2. ASSUME SessionInvariant, [Next]_vars
      PROVE  [(Arbitrates /\ expected # NoBaseline
               /\ ~history.raced /\ ~history.baseRaced) =>
                 Total(snap.balance) - expected' =
                     Total([o \in Orders |-> IF o \in Ours THEN 0 ELSE snap.balance[o]])
                     - history.foreign]_vars
  BY <1>1, <1>2 DEF ForeignBalance
<1> QED
  BY <1>2, SessionInductive, PTL DEF Spec, ForeignIsUnexplained

=============================================================================
