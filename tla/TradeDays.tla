----------------------------- MODULE TradeDays -----------------------------
(***************************************************************************)
(* The active heads of the realtime trades of one market: a materializer   *)
(* turns every sealed raw segment into an output with a head of its own    *)
(* (data/trade_realtime_materialize.py), and a daily compaction joins the  *)
(* outputs of a past UTC day into one and moves the heads to it            *)
(* (data/trade_realtime_compact.py).  Both run as processes of their own   *)
(* that may be killed anywhere; both write inside the writer lock of the   *)
(* data root (data/sqlite_writer_lock.py), whose holder is `job'.          *)
(*                                                                         *)
(* A row is a trade as one segment recorded it; its observation id is the  *)
(* trade, so two segments that recorded the same trade hold two rows of    *)
(* one observation.  An output stands for its content, the set of its rows *)
(* (files are named by their hash), and time counts the days whose grace   *)
(* period of an hour is over.                                              *)
(***************************************************************************)
EXTENDS Integers, FiniteSets, FiniteSetsExt, Functions

CONSTANTS
    Last,       \* the segments of the stream are 1 .. Last, in sealing order
    Days,       \* UTC days 1 .. Days
    TradesOf,   \* the trades each segment recorded
    DayOf,      \* the UTC day of each trade
    Window,     \* segments per stream the resident materializer looks back
    MaxMishaps  \* bound: processes killed in the lock, attempts the host fails

Segments == 1 .. Last

ASSUME StreamAssumption ==
    /\ Last \in Nat /\ Days \in Nat /\ Window \in Nat \ {0}
    /\ MaxMishaps \in Nat
    /\ DOMAIN TradesOf = Segments
    /\ \A s \in Segments : \A t \in TradesOf[s] : DayOf[t] \in 1 .. Days

VARIABLES
    sealed,     \* number of segments sealed so far
    closed,     \* number of days whose grace period is over
    attempts,   \* rows of partition_attempt
    heads,      \* materialization_partition_head: key -> output
    job,        \* the holder of the writer lock and the work left to it
    cooling,    \* segments that failed less than FAILED_RETRY_SECONDS ago
    mishaps     \* kills and faults so far

vars == <<sealed, closed, attempts, heads, job, cooling, mishaps>>

-----------------------------------------------------------------------------
(* Rows, outputs and partition keys. *)

RowsOf == [s \in Segments |-> {[trade |-> t, from |-> s] : t \in TradesOf[s]}]

SegmentKey(s) == <<"segment", s>>
DayKey(d) == <<"day", d>>
Keys == {SegmentKey(s) : s \in Segments} \union {DayKey(d) : d \in 1 .. Days}
NoKey == <<"none", 0>>

(* The day an output belongs to is that of its earliest event. *)
StartsIn(rows, d) ==
    /\ \E r \in rows : DayOf[r.trade] = d
    /\ \A r \in rows : d <= DayOf[r.trade]

(* One observation in two rows: the merge refuses such outputs. *)
Repeats(rows) == Cardinality({r.trade : r \in rows}) # Cardinality(rows)

Attempt(key, inputs, status) == [key |-> key, inputs |-> inputs, status |-> status]
Completed(key, inputs) == Attempt(key, inputs, "complete") \in attempts

(* The outcome of the attempt in progress replaces its 'running' row. *)
Settle(key, inputs, status) ==
    (attempts \ {Attempt(key, inputs, "running")})
        \union {Attempt(key, inputs, status)}

(* The head of a key is inserted, or replaced where the key has one. *)
WithHead(h, key, rows) ==
    [k \in DOMAIN h \union {key} |-> IF k = key THEN rows ELSE h[k]]

NoJob == [by |-> "nobody", todo |-> {}, cur |-> NoKey]
Free == job = NoJob
At(by, cur) == job.by = by /\ job.cur = cur

(* Segments and days are taken in order. *)
Upcoming(by) ==
    {n \in 1 .. Max({Last, Days}) :
        /\ At(by, NoKey)
        /\ \E k \in job.todo : k[2] = n /\ \A l \in job.todo : n <= l[2]}

Took(key) == [job EXCEPT !.cur = key]
Did(key) == [job EXCEPT !.todo = @ \ {key}, !.cur = NoKey]

-----------------------------------------------------------------------------
(* The recorder and the clock. *)

(* The recorder seals its next segment; its trades have happened by then,  *)
(* but the venue or a slow segment may deliver them after their day.       *)
Seal ==
    /\ sealed < Last
    /\ \A t \in TradesOf[sealed + 1] : DayOf[t] <= closed + 1
    /\ sealed' = sealed + 1
    /\ UNCHANGED <<closed, attempts, heads, job, cooling, mishaps>>

DayCloses ==
    /\ closed < Days
    /\ closed' = closed + 1
    /\ UNCHANGED <<sealed, attempts, heads, job, cooling, mishaps>>

(* The hour after a failed attempt is over. *)
RetryDue(s) ==
    /\ s \in cooling
    /\ cooling' = cooling \ {s}
    /\ UNCHANGED <<sealed, closed, attempts, heads, job, mishaps>>

-----------------------------------------------------------------------------
(* The materializer: one cycle holds the lock and goes through its inputs. *)

(* The resident process takes the latest sealed segments, fewer when a new *)
(* run of the recorder hides those of the one before.                      *)
Latest == {{s \in Segments : sealed - n < s /\ s <= sealed} : n \in 1 .. Window}

(* The daily catch-up takes every sealed segment. *)
AllSealed == 1 .. sealed

StartCycle(chosen) ==
    /\ Free
    /\ job' = [by |-> "materializer", todo |-> {SegmentKey(s) : s \in chosen},
               cur |-> NoKey]
    /\ UNCHANGED <<sealed, closed, attempts, heads, cooling, mishaps>>

Watch == \E chosen \in Latest : StartCycle(chosen)
CatchUp == StartCycle(AllSealed)

(* Faulty variants of Reusable: only an output that still has its head is  *)
(* reused; any earlier attempt, also a failed or dead one, is taken for it.*)
ReusableActive(s) ==
    Completed(SegmentKey(s), {RowsOf[s]}) /\ SegmentKey(s) \in DOMAIN heads
ReusableTried(s) == \E a \in attempts : a.key = SegmentKey(s)

(* A completed attempt of the same input is reused whether or not its head *)
(* still stands: the head of a merged segment is not put back.             *)
Reusable(s) == Completed(SegmentKey(s), {RowsOf[s]})

Skip(s) ==
    /\ s \in Upcoming("materializer")
    /\ Reusable(s) \/ s \in cooling
    /\ job' = Did(SegmentKey(s))
    /\ UNCHANGED <<sealed, closed, attempts, heads, cooling, mishaps>>

Register(s) ==
    /\ s \in Upcoming("materializer")
    /\ ~Reusable(s) /\ s \notin cooling
    /\ attempts' = attempts \union {Attempt(SegmentKey(s), {RowsOf[s]}, "running")}
    /\ job' = Took(SegmentKey(s))
    /\ UNCHANGED <<sealed, closed, heads, cooling, mishaps>>

(* Output, inputs, the completed attempt and the head in one transaction.  *)
Publish(s) ==
    /\ At("materializer", SegmentKey(s))
    /\ attempts' = Settle(SegmentKey(s), {RowsOf[s]}, "complete")
    /\ heads' = WithHead(heads, SegmentKey(s), RowsOf[s])
    /\ job' = Did(SegmentKey(s))
    /\ UNCHANGED <<sealed, closed, cooling, mishaps>>

(* An exception rolls the transaction back; the cycle goes on.             *)
PublishFails(s) ==
    /\ mishaps < MaxMishaps
    /\ At("materializer", SegmentKey(s))
    /\ attempts' = Settle(SegmentKey(s), {RowsOf[s]}, "failed")
    /\ cooling' = cooling \union {s}
    /\ mishaps' = mishaps + 1
    /\ job' = Did(SegmentKey(s))
    /\ UNCHANGED <<sealed, closed, heads>>

-----------------------------------------------------------------------------
(* The compaction of a market.                                             *)

(* Heads without the zero-row segment heads: equal files would stand under *)
(* several of them.                                                        *)
Retired(h) == Restrict(h, {k \in DOMAIN h : ~(k[1] = "segment" /\ h[k] = {})})

(* The heads whose output starts in day d. *)
Members(h, d) == {k \in DOMAIN h : StartsIn(h[k], d)}

(* Faulty variant of DuePlans: a day that has its head is done. *)
DuePlansOnce(h) == {d \in 1 .. closed : Members(h, d) # {} /\ DayKey(d) \notin DOMAIN h}

(* Days past their grace period that are not yet just their own day head.  *)
DuePlans(h) == {d \in 1 .. closed : Members(h, d) \notin {{}, {DayKey(d)}}}

StartCompaction ==
    /\ Free
    /\ heads' = Retired(heads)
    /\ job' = [by |-> "compactor", todo |-> {DayKey(d) : d \in DuePlans(heads')},
               cur |-> NoKey]
    /\ UNCHANGED <<sealed, closed, attempts, cooling, mishaps>>

Inputs(d) == {heads[k] : k \in Members(heads, d)}
MergedRows(d) == UNION Inputs(d)

(* Faulty variant of SwitchHeads: the day's head comes before the others go.*)
SwitchBackwards(d) ==
    LET added == WithHead(heads, DayKey(d), MergedRows(d))
    IN  Restrict(added, DOMAIN added \ Members(heads, d))

(* The heads of the merged outputs go, that of the day comes: the day's    *)
(* own head may be one of those that go.                                   *)
SwitchHeads(d) ==
    WithHead(Restrict(heads, DOMAIN heads \ Members(heads, d)),
             DayKey(d), MergedRows(d))

(* Members that were merged before only need the heads moved; with heads   *)
(* that nothing puts back this does not come up.                           *)
TakeDay(d) ==
    /\ d \in Upcoming("compactor")
    /\ LET merged == Completed(DayKey(d), Inputs(d))
           started == attempts \union {Attempt(DayKey(d), Inputs(d), "running")}
       IN  /\ attempts' = IF merged THEN attempts ELSE started
           /\ heads' = IF merged THEN SwitchHeads(d) ELSE heads
           /\ job' = IF merged THEN Did(DayKey(d)) ELSE Took(DayKey(d))
    /\ UNCHANGED <<sealed, closed, cooling, mishaps>>

(* Output, inputs, lineage, the completed attempt and the heads in one     *)
(* transaction.                                                            *)
Merge(d) ==
    /\ At("compactor", DayKey(d))
    /\ ~Repeats(MergedRows(d))
    /\ attempts' = Settle(DayKey(d), Inputs(d), "complete")
    /\ heads' = SwitchHeads(d)
    /\ job' = Did(DayKey(d))
    /\ UNCHANGED <<sealed, closed, cooling, mishaps>>

(* A refused or failed merge ends the process: the days after it wait for  *)
(* the next one.                                                           *)
AbandonMerge(d) ==
    /\ At("compactor", DayKey(d))
    /\ attempts' = Settle(DayKey(d), Inputs(d), "failed")
    /\ job' = NoJob
    /\ UNCHANGED <<sealed, closed, heads, cooling>>

RefuseMerge(d) == Repeats(MergedRows(d)) /\ AbandonMerge(d) /\ UNCHANGED mishaps

MergeFails(d) ==
    /\ mishaps < MaxMishaps
    /\ AbandonMerge(d)
    /\ mishaps' = mishaps + 1

(* The end of a cycle or of a compaction gives the lock back. *)
Release ==
    /\ ~Free /\ job.cur = NoKey /\ job.todo = {}
    /\ job' = NoJob
    /\ UNCHANGED <<sealed, closed, attempts, heads, cooling, mishaps>>

-----------------------------------------------------------------------------
(* Other hands on the same tables. *)

(* The hourly round of the frozen plans retires zero-row heads as well.    *)
RoundRetires ==
    /\ Free
    /\ heads' = Retired(heads)
    /\ UNCHANGED <<sealed, closed, attempts, job, cooling, mishaps>>

(* A killed process loses the lock and its open transaction; the row of    *)
(* its attempt stays 'running' with nobody behind it.                      *)
Kill ==
    /\ ~Free /\ mishaps < MaxMishaps
    /\ attempts' = {IF a.status = "running" THEN [a EXCEPT !.status = "orphan"] ELSE a :
                        a \in attempts}
    /\ job' = NoJob
    /\ mishaps' = mishaps + 1
    /\ UNCHANGED <<sealed, closed, heads, cooling>>

-----------------------------------------------------------------------------
Init ==
    /\ sealed = 0
    /\ closed = 0
    /\ attempts = {}
    /\ heads = << >>
    /\ job = NoJob
    /\ cooling = {}
    /\ mishaps = 0

(* What the holder of the lock does next, faults and kills aside. *)
Work ==
    \/ \E s \in Segments : Skip(s) \/ Register(s) \/ Publish(s)
    \/ \E d \in 1 .. Days : TakeDay(d) \/ Merge(d) \/ RefuseMerge(d)
    \/ Release

Next ==
    \/ Seal
    \/ DayCloses
    \/ \E s \in Segments : RetryDue(s) \/ PublishFails(s)
    \/ Watch
    \/ CatchUp
    \/ StartCompaction
    \/ Work
    \/ \E d \in 1 .. Days : MergeFails(d)
    \/ RoundRetires
    \/ Kill

Spec == Init /\ [][Next]_vars

(* A process that runs makes progress, an hour passes, and the daily tasks *)
(* find the lock free on some day: the others sleep between their cycles.  *)
Fairness ==
    /\ WF_vars(Work)
    /\ \A s \in Segments : WF_vars(RetryDue(s))
    /\ SF_vars(CatchUp)
    /\ SF_vars(StartCompaction)

FairSpec == Spec /\ Fairness

-----------------------------------------------------------------------------
(* Properties. *)

ActiveRows == UNION {heads[k] : k \in DOMAIN heads}

TypeOK ==
    /\ sealed \in 0 .. Last
    /\ closed \in 0 .. Days
    /\ attempts \subseteq
           [key : Keys, inputs : SUBSET SUBSET UNION {RowsOf[s] : s \in Segments},
            status : {"running", "orphan", "failed", "complete"}]
    /\ DOMAIN heads \subseteq Keys
    /\ ActiveRows \subseteq UNION {RowsOf[s] : s \in 1 .. sealed}
    /\ job \in [by : {"nobody", "materializer", "compactor"},
               todo : SUBSET Keys, cur : Keys \union {NoKey}]
    /\ job.cur \in job.todo \union {NoKey}
    /\ cooling \subseteq Segments
    /\ mishaps \in 0 .. MaxMishaps

(* No row stands under two heads, whatever was merged, absorbed late,      *)
(* retried or left half done: neither a reader that adds up outputs nor    *)
(* the next merge counts it twice.                                         *)
ActiveOnce ==
    \A k, l \in DOMAIN heads : k # l => heads[k] \intersect heads[l] = {}

(* To a reader only one thing ever happens: a sealed segment's rows appear *)
(* all at once, and nothing that appeared goes away again, neither when    *)
(* heads are merged or retired nor when a process dies or fails.           *)
Facts == INSTANCE ActiveFacts
    WITH sealed <- 1 .. sealed, active <- ActiveRows

ImplementsFacts == Facts!Spec

(* Time and again everything sealed so far is active, also a segment the   *)
(* resident process never looked at and one whose attempt died or failed.  *)
SealedIsActive == []<>(\A s \in 1 .. sealed : RowsOf[s] \subseteq ActiveRows)

(* Segments that start in the days up to d record no trade twice. *)
CleanUpTo(d) ==
    ~Repeats(UNION {RowsOf[s] : s \in
                 {s \in Segments : \E e \in 1 .. d : StartsIn(RowsOf[s], e)}})

(* A past day comes to stand under its own head alone, late segments       *)
(* included, unless it or a day before it holds a trade two segments       *)
(* recorded: the compaction stops at the first day it refuses.             *)
DaysMerge ==
    \A d \in 1 .. Days :
        CleanUpTo(d) => <>[](closed >= d => Members(heads, d) \in {{}, {DayKey(d)}})

-----------------------------------------------------------------------------
(* What one might expect and the code does not do: a day whose own trades  *)
(* are recorded once is merged, whatever the days before it hold.          *)
EveryCleanDayMerges ==
    \A d \in 1 .. Days :
        ~Repeats(UNION {RowsOf[s] : s \in {s \in Segments : StartsIn(RowsOf[s], d)}})
            => <>[](closed >= d => Members(heads, d) \in {{}, {DayKey(d)}})

=============================================================================
