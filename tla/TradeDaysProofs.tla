-------------------------- MODULE TradeDaysProofs --------------------------
(***************************************************************************)
(* Proofs about TradeDays for every number of segments and days, every     *)
(* assignment of trades to them and every number of mishaps: each row is   *)
(* active once, and merging, retiring, retrying and dying are invisible to *)
(* a reader of the active rows.                                            *)
(***************************************************************************)
EXTENDS TradeDays, TLAPS

(***************************************************************************)
(* The inductive invariant.                                                *)
(***************************************************************************)
(* A head of a segment stands for the rows of that segment; a head of a    *)
(* day is empty or starts in that day.                                     *)
HeadsOfKeys ==
    /\ \A s \in Segments :
           SegmentKey(s) \in DOMAIN heads => heads[SegmentKey(s)] = RowsOf[s]
    /\ \A d \in 1 .. Days :
           DayKey(d) \in DOMAIN heads =>
               heads[DayKey(d)] = {} \/ StartsIn(heads[DayKey(d)], d)

(* Whatever is active comes from a segment that will never be materialized *)
(* again: this is what keeps a merged segment from coming back.            *)
ActiveIsDone ==
    \A k \in DOMAIN heads : \A r \in heads[k] : Reusable(r.from)

(* What a cycle has before it is sealed, and what it has in hand is not    *)
(* done yet.                                                               *)
CycleIsDue ==
    job.by = "materializer" =>
        /\ job.todo \subseteq {SegmentKey(s) : s \in 1 .. sealed}
        /\ \A s \in Segments : job.cur = SegmentKey(s) => ~Reusable(s)

(* What a compaction has before it is days. *)
CompactionTakesDays ==
    job.by = "compactor" => job.todo \subseteq {DayKey(d) : d \in 1 .. Days}

HeadsInvariant == HeadsOfKeys /\ ActiveIsDone /\ ActiveOnce

Invariant == TypeOK /\ HeadsInvariant /\ CycleIsDue /\ CompactionTakesDays

(***************************************************************************)
(* What the helpers do.                                                    *)
(***************************************************************************)
(* Keys of different kinds or numbers differ. *)
LEMMA KeysDiffer ==
    /\ \A s, t : SegmentKey(s) = SegmentKey(t) => s = t
    /\ \A d, e : DayKey(d) = DayKey(e) => d = e
    /\ \A s, d : SegmentKey(s) # DayKey(d) /\ SegmentKey(s) # NoKey /\ DayKey(d) # NoKey
BY DEF SegmentKey, DayKey, NoKey

(* Every row names the segment it comes from. *)
LEMMA RowsNameSegment == \A s \in Segments : \A r \in RowsOf[s] : r.from = s
BY DEF RowsOf

(* The head of a day replaces those of its members. *)
LEMMA Switched ==
    ASSUME NEW d
    PROVE  /\ DOMAIN SwitchHeads(d) = (DOMAIN heads \ Members(heads, d)) \union {DayKey(d)}
           /\ SwitchHeads(d)[DayKey(d)] = MergedRows(d)
           /\ \A k \in DOMAIN heads \ Members(heads, d) :
                  k # DayKey(d) => SwitchHeads(d)[k] = heads[k]
BY DEF SwitchHeads, WithHead, Restrict

(* The merged rows are those of the members and start in the day, unless   *)
(* there are none.                                                         *)
LEMMA Merged ==
    ASSUME NEW d
    PROVE  /\ \A r : r \in MergedRows(d) <=> \E k \in Members(heads, d) : r \in heads[k]
           /\ MergedRows(d) = {} \/ StartsIn(MergedRows(d), d)
<1>1. \A r : r \in MergedRows(d) <=> \E k \in Members(heads, d) : r \in heads[k]
  BY DEF MergedRows, Inputs
<1>2. \A k \in Members(heads, d) : k \in DOMAIN heads /\ StartsIn(heads[k], d)
  BY DEF Members
<1>3. ASSUME NEW r \in MergedRows(d) PROVE StartsIn(MergedRows(d), d)
  <2>1. PICK k \in Members(heads, d) : r \in heads[k]
    BY <1>1, <1>3
  <2>2. PICK first \in heads[k] : DayOf[first.trade] = d
    BY <1>2, <2>1 DEF StartsIn
  <2>3. first \in MergedRows(d)
    BY <1>1, <2>1, <2>2
  <2>4. \A q \in MergedRows(d) : d <= DayOf[q.trade]
    BY <1>1, <1>2 DEF StartsIn
  <2> QED
    BY <2>2, <2>3, <2>4 DEF StartsIn
<1> QED
  BY <1>1, <1>3

(***************************************************************************)
(* The steps that change heads keep what the invariant says of them.       *)
(***************************************************************************)
(* A merge keeps every active row, under one head each. *)
LEMMA SwitchKeepsHeads ==
    ASSUME HeadsInvariant, NEW d \in 1 .. Days, heads' = SwitchHeads(d),
           \A s : Reusable(s) => Reusable(s)'
    PROVE  HeadsInvariant' /\ ActiveRows' = ActiveRows
<1> DEFINE stay == DOMAIN heads \ Members(heads, d)
<1>1. /\ DOMAIN heads' = stay \union {DayKey(d)}
      /\ heads'[DayKey(d)] = MergedRows(d)
      /\ \A k \in stay : k # DayKey(d) => heads'[k] = heads[k]
  BY Switched
<1>2. Members(heads, d) \subseteq DOMAIN heads
  BY DEF Members
<1>3. HeadsOfKeys'
  <2>1. ASSUME NEW s \in Segments, SegmentKey(s) \in DOMAIN heads'
        PROVE  heads'[SegmentKey(s)] = RowsOf[s]
    BY <1>1, <2>1, KeysDiffer DEF HeadsInvariant, HeadsOfKeys
  <2>2. ASSUME NEW e \in 1 .. Days, DayKey(e) \in DOMAIN heads'
        PROVE  heads'[DayKey(e)] = {} \/ StartsIn(heads'[DayKey(e)], e)
    BY <1>1, <2>2, KeysDiffer, Merged DEF HeadsInvariant, HeadsOfKeys
  <2> QED
    BY <2>1, <2>2 DEF HeadsOfKeys, StartsIn
<1>4. ActiveIsDone'
  <2>1. ASSUME NEW k \in DOMAIN heads', NEW r \in heads'[k]
        PROVE  Reusable(r.from)
    BY <1>1, <1>2, Merged DEF HeadsInvariant, ActiveIsDone
  <2> QED
    BY <2>1 DEF ActiveIsDone
<1>5. ActiveOnce'
  <2>1. ASSUME NEW k \in stay, k # DayKey(d)
        PROVE  heads'[k] \intersect MergedRows(d) = {}
    BY <1>1, <1>2, <2>1, Merged DEF HeadsInvariant, ActiveOnce
  <2>2. ASSUME NEW k \in stay, NEW l \in stay,
               k # DayKey(d), l # DayKey(d), k # l
        PROVE  heads'[k] \intersect heads'[l] = {}
    BY <1>1, <2>2 DEF HeadsInvariant, ActiveOnce
  <2> HIDE DEF stay
  <2> QED
    BY <1>1, <2>1, <2>2 DEF ActiveOnce
<1>6. ActiveRows' = ActiveRows
  <2>1. ASSUME NEW k \in DOMAIN heads', NEW r \in heads'[k]
        PROVE  \E l \in DOMAIN heads : r \in heads[l]
    BY <1>1, <1>2, Merged
  <2>2. ASSUME NEW l \in DOMAIN heads, NEW r \in heads[l]
        PROVE  \E k \in DOMAIN heads' : r \in heads'[k]
    <3>1. CASE l \in Members(heads, d)
      BY <1>1, <3>1, <2>2, Merged
    <3>2. CASE l \notin Members(heads, d) /\ l # DayKey(d)
      BY <1>1, <3>2, <2>2
    <3>3. CASE l \notin Members(heads, d) /\ l = DayKey(d)
      BY <3>3, <2>2 DEF HeadsInvariant, HeadsOfKeys, Members
    <3> QED
      BY <3>1, <3>2, <3>3
  <2> QED
    BY <2>1, <2>2 DEF ActiveRows
<1> QED
  BY <1>3, <1>4, <1>5, <1>6 DEF HeadsInvariant

(* Retiring the heads without rows takes no row away. *)
LEMMA RetireKeepsHeads ==
    ASSUME HeadsInvariant, heads' = Retired(heads),
           \A s : Reusable(s) => Reusable(s)'
    PROVE  HeadsInvariant' /\ ActiveRows' = ActiveRows
<1>1. /\ DOMAIN heads' \subseteq DOMAIN heads
      /\ \A k \in DOMAIN heads' : heads'[k] = heads[k]
      /\ \A k \in DOMAIN heads \ DOMAIN heads' : heads[k] = {}
  BY DEF Retired, Restrict
<1>2. HeadsOfKeys'
  BY <1>1 DEF HeadsInvariant, HeadsOfKeys, StartsIn
<1>3. ActiveIsDone'
  BY <1>1 DEF HeadsInvariant, ActiveIsDone
<1>4. ActiveOnce'
  BY <1>1 DEF HeadsInvariant, ActiveOnce
<1>5. ActiveRows' = ActiveRows
  BY <1>1 DEF ActiveRows
<1> QED
  BY <1>2, <1>3, <1>4, <1>5 DEF HeadsInvariant

(* The head of a segment that was not done yet adds its rows, and no row   *)
(* of it was active before.                                                *)
LEMMA PublishKeepsHeads ==
    ASSUME HeadsInvariant, NEW s \in Segments, ~Reusable(s), Reusable(s)',
           heads' = WithHead(heads, SegmentKey(s), RowsOf[s]),
           \A t : Reusable(t) => Reusable(t)'
    PROVE  HeadsInvariant' /\ ActiveRows' = ActiveRows \union RowsOf[s]
<1>1. /\ DOMAIN heads' = DOMAIN heads \union {SegmentKey(s)}
      /\ heads'[SegmentKey(s)] = RowsOf[s]
      /\ \A k \in DOMAIN heads : k # SegmentKey(s) => heads'[k] = heads[k]
  BY DEF WithHead
<1>2. SegmentKey(s) \in DOMAIN heads => heads[SegmentKey(s)] = RowsOf[s]
  BY DEF HeadsInvariant, HeadsOfKeys
<1>3. \A k \in DOMAIN heads : heads[k] \intersect RowsOf[s] = {}
  BY RowsNameSegment DEF HeadsInvariant, ActiveIsDone
<1>4. HeadsOfKeys'
  BY <1>1, KeysDiffer DEF HeadsInvariant, HeadsOfKeys, StartsIn
<1>5. ActiveIsDone'
  BY <1>1, RowsNameSegment DEF HeadsInvariant, ActiveIsDone
<1>6. ActiveOnce'
  BY <1>1, <1>3 DEF HeadsInvariant, ActiveOnce
<1>7. ActiveRows' = ActiveRows \union RowsOf[s]
  BY <1>1, <1>2 DEF ActiveRows
<1> QED
  BY <1>4, <1>5, <1>6, <1>7 DEF HeadsInvariant

(* The outcome of an attempt forgets no completed one. *)
LEMMA SettleKeepsDone ==
    ASSUME NEW key, NEW inputs, NEW status, attempts' = Settle(key, inputs, status)
    PROVE  \A s : Reusable(s) => Reusable(s)'
BY DEF Settle, Attempt, Reusable, Completed

(***************************************************************************)
(* Types.  AllRows is what the segments recorded altogether.               *)
(***************************************************************************)
AllRows == UNION {RowsOf[s] : s \in Segments}

(* Keys of segments and days are keys. *)
LEMMA KeysTyped ==
    /\ \A s \in Segments : SegmentKey(s) \in Keys
    /\ \A d \in 1 .. Days : DayKey(d) \in Keys
    /\ \A s \in Segments : RowsOf[s] \subseteq AllRows
BY DEF Keys, AllRows

(* Every attempt the actions register or settle has its type. *)
LEMMA AttemptTyped ==
    ASSUME TypeOK, NEW key \in Keys, NEW inputs \in SUBSET SUBSET AllRows,
           NEW status \in {"running", "failed", "complete"},
           \/ attempts' = Settle(key, inputs, status)
           \/ attempts' = attempts \union {Attempt(key, inputs, status)}
    PROVE  attempts' \subseteq
               [key : Keys, inputs : SUBSET SUBSET AllRows,
                status : {"running", "orphan", "failed", "complete"}]
<1>1. attempts \subseteq [key : Keys, inputs : SUBSET SUBSET AllRows,
                          status : {"running", "orphan", "failed", "complete"}]
  BY DEF TypeOK, AllRows
<1>2. Attempt(key, inputs, status) \in
          [key : Keys, inputs : SUBSET SUBSET AllRows,
           status : {"running", "orphan", "failed", "complete"}]
  BY DEF Attempt
<1> QED
  BY <1>1, <1>2 DEF Settle

(* What a merge takes in are rows of the segments. *)
LEMMA InputsTyped ==
    ASSUME TypeOK, NEW d
    PROVE  Inputs(d) \in SUBSET SUBSET AllRows
<1>1. \A k \in DOMAIN heads : heads[k] \subseteq AllRows
  BY StreamAssumption DEF TypeOK, ActiveRows, AllRows, Segments
<1> QED
  BY <1>1 DEF Inputs, Members

Jobs == [by : {"nobody", "materializer", "compactor"},
         todo : SUBSET Keys, cur : Keys \union {NoKey}]

(* The holder takes a key in hand, and puts it behind. *)
LEMMA JobsTyped ==
    ASSUME TypeOK, NEW key
    PROVE  /\ NoJob \in Jobs /\ NoJob.cur \in NoJob.todo \union {NoKey}
           /\ Did(key) \in Jobs /\ Did(key).cur \in Did(key).todo \union {NoKey}
           /\ Did(key).by = job.by /\ Did(key).cur = NoKey /\ Did(key).todo \subseteq job.todo
           /\ key \in job.todo =>
                  Took(key) \in Jobs /\ Took(key).cur \in Took(key).todo \union {NoKey}
           /\ Took(key).by = job.by /\ Took(key).cur = key /\ Took(key).todo = job.todo
BY DEF TypeOK, Jobs, NoJob, Did, Took

(* What is taken next is a key of the job. *)
LEMMA UpcomingIsDue ==
    ASSUME Invariant
    PROVE  /\ \A s \in Segments : s \in Upcoming("materializer") =>
                  /\ job.by = "materializer" /\ SegmentKey(s) \in job.todo
                  /\ s \in 1 .. sealed
           /\ \A d \in 1 .. Days : d \in Upcoming("compactor") =>
                  job.by = "compactor" /\ DayKey(d) \in job.todo
<1>1. ASSUME NEW s \in Segments, s \in Upcoming("materializer")
      PROVE  /\ job.by = "materializer" /\ SegmentKey(s) \in job.todo
             /\ s \in 1 .. sealed
  <2>1. job.by = "materializer" /\ \E k \in job.todo : k[2] = s
    BY <1>1 DEF Upcoming, At
  <2>2. PICK t \in 1 .. sealed : SegmentKey(t) \in job.todo /\ SegmentKey(t)[2] = s
    BY <2>1 DEF Invariant, CycleIsDue
  <2> QED
    BY <2>1, <2>2 DEF SegmentKey
<1>2. ASSUME NEW d \in 1 .. Days, d \in Upcoming("compactor")
      PROVE  job.by = "compactor" /\ DayKey(d) \in job.todo
  <2>1. job.by = "compactor" /\ \E k \in job.todo : k[2] = d
    BY <1>2 DEF Upcoming, At
  <2>2. PICK e \in 1 .. Days : DayKey(e) \in job.todo /\ DayKey(e)[2] = d
    BY <2>1 DEF Invariant, CompactionTakesDays
  <2> QED
    BY <2>1, <2>2 DEF DayKey
<1> QED
  BY <1>1, <1>2

(* Of a cycle: the segment in hand is sealed and not done. *)
LEMMA InHandIsDue ==
    ASSUME Invariant, NEW s \in Segments, At("materializer", SegmentKey(s))
    PROVE  s \in 1 .. sealed /\ ~Reusable(s)
<1>1. SegmentKey(s) \in job.todo
  BY KeysDiffer DEF Invariant, TypeOK, At
<1>2. PICK t \in 1 .. sealed : SegmentKey(s) = SegmentKey(t)
  BY <1>1 DEF Invariant, CycleIsDue, At
<1> QED
  BY <1>2, KeysDiffer DEF Invariant, CycleIsDue, At

(***************************************************************************)
(* The invariant holds.                                                    *)
(***************************************************************************)
(* A step of the materializer in one of its segments, or of the compactor  *)
(* in one of its days, that ends with the key behind it.                   *)
LEMMA DidKeepsJobs ==
    ASSUME Invariant, NEW key, job' = Did(key), sealed' = sealed
    PROVE  CycleIsDue' /\ CompactionTakesDays'
<1>1. job'.by = job.by /\ job'.cur = NoKey /\ job'.todo \subseteq job.todo
  BY JobsTyped DEF Invariant
<1> QED
  BY <1>1, KeysDiffer DEF Invariant, CycleIsDue, CompactionTakesDays

(* Types follow from the pieces when the heads keep to sealed segments. *)
LEMMA TypesPut ==
    ASSUME TypeOK, sealed' = sealed, closed' = closed,
           attempts' \subseteq [key : Keys, inputs : SUBSET SUBSET AllRows,
                                status : {"running", "orphan", "failed", "complete"}],
           DOMAIN heads' \subseteq Keys,
           ActiveRows' \subseteq UNION {RowsOf[s] : s \in 1 .. sealed},
           job' \in Jobs, job'.cur \in job'.todo \union {NoKey},
           cooling' \subseteq Segments, mishaps' \in 0 .. MaxMishaps
    PROVE  TypeOK'
BY DEF TypeOK, AllRows, Jobs

(* And where no head changes. *)
LEMMA TypesKept ==
    ASSUME TypeOK, UNCHANGED <<sealed, closed, heads>>,
           attempts' \subseteq [key : Keys, inputs : SUBSET SUBSET AllRows,
                                status : {"running", "orphan", "failed", "complete"}],
           job' \in Jobs, job'.cur \in job'.todo \union {NoKey},
           cooling' \subseteq Segments, mishaps' \in 0 .. MaxMishaps
    PROVE  TypeOK'
<1>1. DOMAIN heads' \subseteq Keys
      /\ ActiveRows' \subseteq UNION {RowsOf[s] : s \in 1 .. sealed}
  BY DEF TypeOK, ActiveRows
<1> QED
  BY <1>1, TypesPut

(* The materializer's steps. *)
LEMMA SegmentSteps ==
    ASSUME Invariant, NEW s \in Segments,
           Skip(s) \/ Register(s) \/ Publish(s) \/ PublishFails(s)
    PROVE  Invariant'
<1> USE KeysTyped
<1>0. /\ TypeOK /\ HeadsInvariant
      /\ {RowsOf[s]} \in SUBSET SUBSET AllRows
      /\ job \in Jobs /\ job.cur \in job.todo \union {NoKey}
      /\ attempts \subseteq [key : Keys, inputs : SUBSET SUBSET AllRows,
                             status : {"running", "orphan", "failed", "complete"}]
  BY DEF Invariant, TypeOK, AllRows, Jobs
<1>1. CASE Skip(s)
  <2>1. TypeOK'
    BY <1>0, <1>1, JobsTyped, TypesKept DEF Skip, TypeOK
  <2>2. HeadsInvariant'
    BY <1>0, <1>1 DEF Skip, HeadsInvariant, HeadsOfKeys, ActiveIsDone, ActiveOnce,
           StartsIn, Reusable, Completed
  <2> QED
    BY <1>1, <2>1, <2>2, DidKeepsJobs DEF Skip, Invariant
<1>2. CASE Register(s)
  <2>1. /\ job.by = "materializer" /\ SegmentKey(s) \in job.todo
        /\ ~Reusable(s) /\ job' = Took(SegmentKey(s))
        /\ attempts' = attempts \union {Attempt(SegmentKey(s), {RowsOf[s]}, "running")}
        /\ UNCHANGED <<sealed, closed, heads, cooling, mishaps>>
    BY <1>2, UpcomingIsDue DEF Register
  <2>2. \A t : Reusable(t) <=> Reusable(t)'
    BY <2>1 DEF Reusable, Completed, Attempt
  <2>3. attempts' \subseteq [key : Keys, inputs : SUBSET SUBSET AllRows,
                             status : {"running", "orphan", "failed", "complete"}]
    BY <1>0, <2>1, AttemptTyped
  <2>4. job' \in Jobs /\ job'.cur \in job'.todo \union {NoKey}
    BY <1>0, <2>1, JobsTyped
  <2>5. TypeOK'
    BY <1>0, <2>1, <2>3, <2>4, TypesKept DEF TypeOK
  <2>6. HeadsInvariant'
    BY <1>0, <2>1, <2>2 DEF HeadsInvariant, HeadsOfKeys, ActiveIsDone, ActiveOnce, StartsIn
  <2>7. job'.by = "materializer" /\ job'.cur = SegmentKey(s) /\ job'.todo = job.todo
    BY <1>0, <2>1, JobsTyped
  <2>8. CycleIsDue' /\ CompactionTakesDays'
    BY <2>1, <2>2, <2>7, KeysDiffer DEF Invariant, CycleIsDue, CompactionTakesDays
  <2> QED
    BY <2>5, <2>6, <2>8 DEF Invariant
<1>3. CASE Publish(s)
  <2>1. /\ s \in 1 .. sealed /\ ~Reusable(s) /\ job' = Did(SegmentKey(s))
        /\ attempts' = Settle(SegmentKey(s), {RowsOf[s]}, "complete")
        /\ heads' = WithHead(heads, SegmentKey(s), RowsOf[s])
        /\ UNCHANGED <<sealed, closed, cooling, mishaps>>
    BY <1>3, InHandIsDue DEF Publish
  <2>2. \A t : Reusable(t) => Reusable(t)'
    BY <2>1, SettleKeepsDone
  <2>3. Reusable(s)'
    BY <2>1 DEF Settle, Reusable, Completed
  <2>4. HeadsInvariant' /\ ActiveRows' = ActiveRows \union RowsOf[s]
    BY <1>0, <2>1, <2>2, <2>3, PublishKeepsHeads
  <2>5. attempts' \subseteq [key : Keys, inputs : SUBSET SUBSET AllRows,
                             status : {"running", "orphan", "failed", "complete"}]
    BY <1>0, <2>1, AttemptTyped
  <2>6. DOMAIN heads' \subseteq Keys
    BY <2>1 DEF WithHead, Invariant, TypeOK
  <2>7. ActiveRows' \subseteq UNION {RowsOf[t] : t \in 1 .. sealed}
    BY <1>0, <2>1, <2>4 DEF TypeOK
  <2>8. job' \in Jobs /\ job'.cur \in job'.todo \union {NoKey}
    BY <1>0, <2>1, JobsTyped
  <2>9. cooling' \subseteq Segments /\ mishaps' \in 0 .. MaxMishaps
    BY <1>0, <2>1 DEF TypeOK
  <2>10. TypeOK'
    BY <1>0, <2>1, <2>5, <2>6, <2>7, <2>8, <2>9, TypesPut
  <2> QED
    BY <2>1, <2>4, <2>10, DidKeepsJobs DEF Invariant
<1>4. CASE PublishFails(s)
  <2>1. /\ job' = Did(SegmentKey(s))
        /\ attempts' = Settle(SegmentKey(s), {RowsOf[s]}, "failed")
        /\ cooling' = cooling \union {s}
        /\ mishaps < MaxMishaps /\ mishaps' = mishaps + 1
        /\ UNCHANGED <<sealed, closed, heads>>
    BY <1>4 DEF PublishFails
  <2>2. \A t : Reusable(t) => Reusable(t)'
    BY <2>1, SettleKeepsDone
  <2>3. attempts' \subseteq [key : Keys, inputs : SUBSET SUBSET AllRows,
                             status : {"running", "orphan", "failed", "complete"}]
    BY <1>0, <2>1, AttemptTyped
  <2>4. job' \in Jobs /\ job'.cur \in job'.todo \union {NoKey}
    BY <1>0, <2>1, JobsTyped
  <2>5. cooling' \subseteq Segments /\ mishaps' \in 0 .. MaxMishaps
    BY <1>0, <2>1, StreamAssumption DEF TypeOK
  <2>6. TypeOK'
    BY <1>0, <2>1, <2>3, <2>4, <2>5, TypesKept
  <2>7. HeadsInvariant'
    BY <1>0, <2>1, <2>2 DEF HeadsInvariant, HeadsOfKeys, ActiveIsDone, ActiveOnce, StartsIn
  <2> QED
    BY <2>1, <2>6, <2>7, DidKeepsJobs DEF Invariant
<1> QED
  BY <1>1, <1>2, <1>3, <1>4

(* The compaction's steps. *)
LEMMA DaySteps ==
    ASSUME Invariant, NEW d \in 1 .. Days,
           TakeDay(d) \/ Merge(d) \/ RefuseMerge(d) \/ MergeFails(d)
    PROVE  Invariant'
<1> DEFINE AllAttempts == [key : Keys, inputs : SUBSET SUBSET AllRows,
                           status : {"running", "orphan", "failed", "complete"}]
<1> USE KeysTyped
<1>0. /\ TypeOK /\ HeadsInvariant
      /\ Inputs(d) \in SUBSET SUBSET AllRows
      /\ job \in Jobs /\ job.cur \in job.todo \union {NoKey}
      /\ attempts \subseteq AllAttempts
      /\ DOMAIN heads \subseteq Keys
      /\ ActiveRows \subseteq UNION {RowsOf[s] : s \in 1 .. sealed}
      /\ cooling \subseteq Segments /\ mishaps \in 0 .. MaxMishaps
  BY InputsTyped DEF Invariant, TypeOK, AllRows, Jobs
<1>1. DOMAIN SwitchHeads(d) \subseteq Keys
  BY <1>0, Switched
<1>2. ASSUME heads' = SwitchHeads(d), job' = Did(DayKey(d)),
             attempts' \subseteq AllAttempts, \A s : Reusable(s) => Reusable(s)',
             UNCHANGED <<sealed, closed, cooling, mishaps>>
      PROVE  Invariant'
  <2>1. HeadsInvariant' /\ ActiveRows' = ActiveRows
    BY <1>0, <1>2, SwitchKeepsHeads
  <2>2. job' \in Jobs /\ job'.cur \in job'.todo \union {NoKey}
    BY <1>0, <1>2, JobsTyped
  <2>3. TypeOK'
    BY <1>0, <1>1, <1>2, <2>1, <2>2, TypesPut
  <2> QED
    BY <1>2, <2>1, <2>3, DidKeepsJobs DEF Invariant
<1>3. ASSUME job' = NoJob, attempts' = Settle(DayKey(d), Inputs(d), "failed"),
             mishaps' \in 0 .. MaxMishaps,
             UNCHANGED <<sealed, closed, heads, cooling>>
      PROVE  Invariant'
  <2>1. attempts' \subseteq AllAttempts
    BY <1>0, <1>3, AttemptTyped
  <2>2. TypeOK'
    BY <1>0, <1>3, <2>1, JobsTyped, TypesKept
  <2>3. \A s : Reusable(s) => Reusable(s)'
    BY <1>3, SettleKeepsDone
  <2>4. HeadsInvariant'
    BY <1>0, <1>3, <2>3 DEF HeadsInvariant, HeadsOfKeys, ActiveIsDone, ActiveOnce, StartsIn
  <2>5. CycleIsDue' /\ CompactionTakesDays'
    BY <1>3 DEF NoJob, CycleIsDue, CompactionTakesDays
  <2> QED
    BY <2>2, <2>4, <2>5 DEF Invariant
<1>4. CASE TakeDay(d)
  <2>1. job.by = "compactor" /\ DayKey(d) \in job.todo
    BY <1>4, UpcomingIsDue DEF TakeDay
  <2>2. CASE Completed(DayKey(d), Inputs(d))
    BY <1>0, <1>2, <1>4, <2>2 DEF TakeDay, Reusable, Completed
  <2>3. CASE ~Completed(DayKey(d), Inputs(d))
    <3>1. /\ attempts' = attempts \union {Attempt(DayKey(d), Inputs(d), "running")}
          /\ job' = Took(DayKey(d))
          /\ UNCHANGED <<sealed, closed, heads, cooling, mishaps>>
      BY <1>4, <2>3 DEF TakeDay
    <3>2. attempts' \subseteq AllAttempts
      BY <1>0, <3>1, AttemptTyped
    <3>3. /\ job' \in Jobs /\ job'.cur \in job'.todo \union {NoKey}
          /\ job'.by = "compactor" /\ job'.todo = job.todo
      BY <1>0, <2>1, <3>1, JobsTyped
    <3>4. TypeOK'
      BY <1>0, <3>1, <3>2, <3>3, TypesKept
    <3>5. \A s : Reusable(s) => Reusable(s)'
      BY <3>1 DEF Reusable, Completed
    <3>6. HeadsInvariant'
      BY <1>0, <3>1, <3>5 DEF HeadsInvariant, HeadsOfKeys, ActiveIsDone, ActiveOnce, StartsIn
    <3>7. CycleIsDue' /\ CompactionTakesDays'
      BY <2>1, <3>3 DEF Invariant, CycleIsDue, CompactionTakesDays
    <3> QED
      BY <3>4, <3>6, <3>7 DEF Invariant
  <2> QED
    BY <2>2, <2>3
<1>5. CASE Merge(d)
  <2>1. /\ attempts' = Settle(DayKey(d), Inputs(d), "complete")
        /\ heads' = SwitchHeads(d) /\ job' = Did(DayKey(d))
        /\ UNCHANGED <<sealed, closed, cooling, mishaps>>
    BY <1>5 DEF Merge
  <2>2. attempts' \subseteq AllAttempts
    BY <1>0, <2>1, AttemptTyped
  <2>3. \A s : Reusable(s) => Reusable(s)'
    BY <2>1, SettleKeepsDone
  <2> QED
    BY <1>2, <2>1, <2>2, <2>3
<1>6. CASE RefuseMerge(d)
  BY <1>0, <1>3, <1>6 DEF RefuseMerge, AbandonMerge
<1>7. CASE MergeFails(d)
  <2>1. mishaps' \in 0 .. MaxMishaps
    BY <1>0, <1>7, StreamAssumption DEF MergeFails
  <2> QED
    BY <1>3, <1>7, <2>1 DEF MergeFails, AbandonMerge
<1> QED
  BY <1>4, <1>5, <1>6, <1>7

(* Where neither an attempt nor a head changes, neither does what is said  *)
(* of the heads.                                                           *)
LEMMA HeadsStay ==
    ASSUME HeadsInvariant, UNCHANGED <<attempts, heads>>
    PROVE  HeadsInvariant'
BY DEF HeadsInvariant, HeadsOfKeys, ActiveIsDone, ActiveOnce, StartsIn, Reusable, Completed

(* The recorder, the clock and the hour after a failure. *)
LEMMA OutsideSteps ==
    ASSUME Invariant,
           Seal \/ DayCloses \/ (\E s \in Segments : RetryDue(s)) \/ UNCHANGED vars
    PROVE  Invariant'
<1>1. UNCHANGED <<attempts, heads, job, mishaps>>
  BY DEF Seal, DayCloses, RetryDue, vars
<1>2. /\ sealed \in Nat /\ sealed' \in 0 .. Last /\ sealed <= sealed'
      /\ closed' \in 0 .. Days /\ cooling' \subseteq Segments
  BY StreamAssumption DEF Invariant, TypeOK, Seal, DayCloses, RetryDue, vars
<1>3. 1 .. sealed \subseteq 1 .. sealed'
  BY <1>2
<1>4. ActiveRows' \subseteq UNION {RowsOf[s] : s \in 1 .. sealed'}
  BY <1>1, <1>3 DEF Invariant, TypeOK, ActiveRows
<1>5. TypeOK'
  BY <1>1, <1>2, <1>4 DEF Invariant, TypeOK
<1>6. HeadsInvariant'
  BY <1>1, HeadsStay DEF Invariant
<1>7. CycleIsDue' /\ CompactionTakesDays'
  BY <1>1, <1>3 DEF Invariant, CycleIsDue, CompactionTakesDays, Reusable, Completed
<1> QED
  BY <1>5, <1>6, <1>7 DEF Invariant

(* A cycle or a compaction begins or ends, another hand retires heads, a   *)
(* process is killed.                                                      *)
LEMMA JobSteps ==
    ASSUME Invariant,
           Watch \/ CatchUp \/ StartCompaction \/ Release \/ RoundRetires \/ Kill
    PROVE  Invariant'
<1>0. /\ TypeOK /\ HeadsInvariant /\ CycleIsDue /\ CompactionTakesDays
      /\ job \in Jobs /\ job.cur \in job.todo \union {NoKey}
      /\ attempts \subseteq [key : Keys, inputs : SUBSET SUBSET AllRows,
                             status : {"running", "orphan", "failed", "complete"}]
      /\ DOMAIN heads \subseteq Keys
      /\ ActiveRows \subseteq UNION {RowsOf[s] : s \in 1 .. sealed}
      /\ cooling \subseteq Segments /\ mishaps \in 0 .. MaxMishaps
      /\ 1 .. sealed \subseteq Segments /\ 1 .. closed \subseteq 1 .. Days
  BY StreamAssumption DEF Invariant, TypeOK, AllRows, Jobs, Segments
<1>1. CASE Watch \/ CatchUp
  <2>1. PICK chosen \in SUBSET (1 .. sealed) : StartCycle(chosen)
    BY <1>0, <1>1, StreamAssumption
       DEF Watch, CatchUp, Latest, AllSealed, TypeOK, Segments
  <2>2. /\ job' = [by |-> "materializer", todo |-> {SegmentKey(s) : s \in chosen},
                   cur |-> NoKey]
        /\ UNCHANGED <<sealed, closed, attempts, heads, cooling, mishaps>>
    BY <2>1 DEF StartCycle
  <2>3. {SegmentKey(s) : s \in chosen} \subseteq Keys
    BY <1>0, KeysTyped
  <2>4. TypeOK'
    BY <1>0, <2>2, <2>3, TypesKept DEF Jobs
  <2>5. CycleIsDue' /\ CompactionTakesDays'
    BY <2>2, KeysDiffer DEF CycleIsDue, CompactionTakesDays
  <2> QED
    BY <1>0, <2>2, <2>4, <2>5, HeadsStay DEF Invariant
<1>2. ASSUME heads' = Retired(heads), UNCHANGED <<sealed, closed, attempts, cooling, mishaps>>
      PROVE  /\ HeadsInvariant'
             /\ job' \in Jobs /\ job'.cur \in job'.todo \union {NoKey} => TypeOK'
  <2>1. HeadsInvariant' /\ ActiveRows' = ActiveRows
    BY <1>0, <1>2, RetireKeepsHeads DEF Reusable, Completed
  <2>2. DOMAIN heads' \subseteq Keys
    BY <1>0, <1>2 DEF Retired, Restrict
  <2> QED
    BY <1>0, <1>2, <2>1, <2>2, TypesPut
<1>3. CASE StartCompaction
  <2>1. /\ job' = [by |-> "compactor", todo |-> {DayKey(d) : d \in DuePlans(heads')},
                   cur |-> NoKey]
        /\ heads' = Retired(heads)
        /\ UNCHANGED <<sealed, closed, attempts, cooling, mishaps>>
    BY <1>3 DEF StartCompaction
  <2>2. DuePlans(heads') \subseteq 1 .. Days
    BY <1>0 DEF DuePlans
  <2>3. {DayKey(d) : d \in DuePlans(heads')} \subseteq {DayKey(d) : d \in 1 .. Days}
    BY <2>2
  <2>4. job' \in Jobs /\ job'.cur \in job'.todo \union {NoKey}
    BY <2>1, <2>3, KeysTyped DEF Jobs
  <2>5. CycleIsDue' /\ CompactionTakesDays'
    BY <2>1, <2>3 DEF CycleIsDue, CompactionTakesDays
  <2> QED
    BY <1>2, <2>1, <2>4, <2>5 DEF Invariant
<1>4. CASE Release
  <2>1. job' = NoJob /\ UNCHANGED <<sealed, closed, attempts, heads, cooling, mishaps>>
    BY <1>4 DEF Release
  <2>2. TypeOK'
    BY <1>0, <2>1, JobsTyped, TypesKept
  <2>3. CycleIsDue' /\ CompactionTakesDays'
    BY <2>1 DEF NoJob, CycleIsDue, CompactionTakesDays
  <2> QED
    BY <1>0, <2>1, <2>2, <2>3, HeadsStay DEF Invariant
<1>5. CASE RoundRetires
  <2>1. /\ heads' = Retired(heads) /\ job' = job /\ sealed' = sealed
        /\ UNCHANGED <<sealed, closed, attempts, cooling, mishaps>>
    BY <1>5 DEF RoundRetires
  <2>2. CycleIsDue' /\ CompactionTakesDays'
    BY <1>0, <2>1 DEF CycleIsDue, CompactionTakesDays, Reusable, Completed
  <2> QED
    BY <1>0, <1>2, <2>1, <2>2 DEF Invariant
<1>6. CASE Kill
  <2>1. /\ attempts' = {IF a.status = "running" THEN [a EXCEPT !.status = "orphan"] ELSE a :
                            a \in attempts}
        /\ job' = NoJob /\ mishaps < MaxMishaps /\ mishaps' = mishaps + 1
        /\ UNCHANGED <<sealed, closed, heads, cooling>>
    BY <1>6 DEF Kill
  <2>2. attempts' \subseteq [key : Keys, inputs : SUBSET SUBSET AllRows,
                             status : {"running", "orphan", "failed", "complete"}]
    BY <1>0, <2>1
  <2>3. mishaps' \in 0 .. MaxMishaps
    BY <1>0, <2>1, StreamAssumption
  <2>4. TypeOK'
    BY <1>0, <2>1, <2>2, <2>3, JobsTyped, TypesKept
  <2>5. \A s : Reusable(s) => Reusable(s)'
    BY <2>1 DEF Reusable, Completed, Attempt
  <2>6. HeadsInvariant'
    BY <1>0, <2>1, <2>5 DEF HeadsInvariant, HeadsOfKeys, ActiveIsDone, ActiveOnce, StartsIn
  <2>7. CycleIsDue' /\ CompactionTakesDays'
    BY <2>1 DEF NoJob, CycleIsDue, CompactionTakesDays
  <2> QED
    BY <2>4, <2>6, <2>7 DEF Invariant
<1> QED
  BY <1>1, <1>3, <1>4, <1>5, <1>6

(* The invariant holds in every behaviour. *)
THEOREM DaysInductive == Spec => []Invariant
<1>1. Init => Invariant
  <2> SUFFICES ASSUME Init PROVE Invariant
    OBVIOUS
  <2>1. DOMAIN heads = {} /\ job = NoJob
    BY DEF Init
  <2>2. TypeOK
    BY <2>1, StreamAssumption DEF Init, TypeOK, ActiveRows, NoJob
  <2>3. HeadsInvariant
    BY <2>1 DEF HeadsInvariant, HeadsOfKeys, ActiveIsDone, ActiveOnce
  <2>4. CycleIsDue /\ CompactionTakesDays
    BY <2>1 DEF NoJob, CycleIsDue, CompactionTakesDays
  <2> QED
    BY <2>2, <2>3, <2>4 DEF Invariant
<1>2. Invariant /\ [Next]_vars => Invariant'
  <2> SUFFICES ASSUME Invariant, [Next]_vars PROVE Invariant'
    OBVIOUS
  <2>1. CASE Work
    BY <2>1, SegmentSteps, DaySteps, JobSteps DEF Work
  <2>2. CASE \E s \in Segments : PublishFails(s)
    BY <2>2, SegmentSteps
  <2>3. CASE \E d \in 1 .. Days : MergeFails(d)
    BY <2>3, DaySteps
  <2> QED
    BY <2>1, <2>2, <2>3, OutsideSteps, JobSteps DEF Next
<1> QED
  BY <1>1, <1>2, PTL DEF Spec

(* Types: what is active comes from sealed segments, keys and attempts are *)
(* those of the stream, the holder of the lock works on its own keys.      *)
THEOREM DaysTyped == Spec => []TypeOK
BY DaysInductive, PTL DEF Invariant

(* No row is ever active under two heads, for any stream, any order of     *)
(* cycles and compactions and any number of kills and failed attempts.     *)
THEOREM DaysActiveOnce == Spec => []ActiveOnce
BY DaysInductive, PTL DEF Invariant, HeadsInvariant

(***************************************************************************)
(* The active rows are the facts.                                          *)
(***************************************************************************)
(* Every step seals a segment, makes all rows of a sealed one active, or   *)
(* leaves both as they are.                                                *)
LEMMA StepIsFact ==
    ASSUME Invariant, [Next]_vars
    PROVE  Facts!Next \/ UNCHANGED <<1 .. sealed, ActiveRows>>
<1>0. /\ HeadsInvariant /\ sealed \in Nat
      /\ 1 .. sealed \subseteq Segments
  BY StreamAssumption DEF Invariant, TypeOK, Segments
<1>1. ASSUME UNCHANGED <<sealed, heads>>
      PROVE  UNCHANGED <<1 .. sealed, ActiveRows>>
  BY <1>1 DEF ActiveRows
<1>2. CASE Seal
  <2>1. ActiveRows' = ActiveRows
    BY <1>2 DEF Seal, ActiveRows
  <2>2. sealed' = sealed + 1 /\ sealed + 1 \in Segments
    BY <1>0, <1>2, StreamAssumption DEF Seal, Segments
  <2>3. 1 .. (sealed + 1) = (1 .. sealed) \union {sealed + 1}
    BY <1>0
  <2> QED
    BY <2>1, <2>2, <2>3 DEF Facts!Next, Facts!Seal
<1>3. ASSUME NEW s \in Segments, Publish(s) PROVE Facts!Next
  <2>1. /\ s \in 1 .. sealed /\ ~Reusable(s)
        /\ attempts' = Settle(SegmentKey(s), {RowsOf[s]}, "complete")
        /\ heads' = WithHead(heads, SegmentKey(s), RowsOf[s])
        /\ sealed' = sealed
    BY <1>3, InHandIsDue DEF Publish
  <2>2. (\A t : Reusable(t) => Reusable(t)') /\ Reusable(s)'
    BY <2>1, SettleKeepsDone DEF Settle, Reusable, Completed
  <2>3. ActiveRows' = ActiveRows \union RowsOf[s]
    BY <1>0, <2>1, <2>2, PublishKeepsHeads
  <2> QED
    BY <2>1, <2>3 DEF Facts!Next, Facts!Publish
<1>4. ASSUME heads' = Retired(heads), UNCHANGED <<sealed, attempts>>
      PROVE  UNCHANGED <<1 .. sealed, ActiveRows>>
  BY <1>0, <1>4, RetireKeepsHeads DEF Reusable, Completed
<1>5. ASSUME NEW d \in 1 .. Days, heads' = SwitchHeads(d), sealed' = sealed,
             \A s : Reusable(s) => Reusable(s)'
      PROVE  UNCHANGED <<1 .. sealed, ActiveRows>>
  BY <1>0, <1>5, SwitchKeepsHeads
<1>6. ASSUME NEW d \in 1 .. Days, TakeDay(d) \/ Merge(d)
      PROVE  UNCHANGED <<1 .. sealed, ActiveRows>>
  <2>1. CASE TakeDay(d)
    BY <1>1, <1>5, <2>1 DEF TakeDay, Reusable, Completed
  <2>2. CASE Merge(d)
    BY <1>5, <2>2, SettleKeepsDone DEF Merge
  <2> QED
    BY <1>6, <2>1, <2>2
<1>7. CASE Work
  <2>1. ASSUME NEW s \in Segments, Skip(s) \/ Register(s)
        PROVE  UNCHANGED <<sealed, heads>>
    BY <2>1 DEF Skip, Register
  <2>2. ASSUME NEW d \in 1 .. Days, RefuseMerge(d)
        PROVE  UNCHANGED <<sealed, heads>>
    BY <2>2 DEF RefuseMerge, AbandonMerge
  <2>3. CASE Release
    BY <1>1, <2>3 DEF Release
  <2> QED
    BY <1>1, <1>3, <1>6, <1>7, <2>1, <2>2, <2>3 DEF Work
<1>8. CASE StartCompaction \/ RoundRetires
  BY <1>4, <1>8 DEF StartCompaction, RoundRetires
<1>9. CASE \/ DayCloses \/ Watch \/ CatchUp \/ Kill \/ UNCHANGED vars
           \/ \E s \in Segments : RetryDue(s) \/ PublishFails(s)
           \/ \E d \in 1 .. Days : MergeFails(d)
  <2>1. UNCHANGED <<sealed, heads>>
    BY <1>9 DEF DayCloses, Watch, CatchUp, StartCycle, Kill, RetryDue, PublishFails,
           MergeFails, AbandonMerge, vars
  <2> QED
    BY <1>1, <2>1
<1> QED
  BY <1>2, <1>7, <1>8, <1>9 DEF Next

(* A reader of the active rows sees rows of one sealed segment at a time   *)
(* appear, and none go.                                                    *)
THEOREM DaysImplementFacts == Spec => ImplementsFacts
<1>1. Init => Facts!Init
  BY DEF Init, Facts!Init, ActiveRows
<1>2. Invariant /\ [Next]_vars => [Facts!Next]_<<1 .. sealed, ActiveRows>>
  BY StepIsFact
<1> QED
  BY <1>1, <1>2, DaysInductive, PTL
     DEF Spec, ImplementsFacts, Facts!Spec, Facts!vars
=============================================================================
