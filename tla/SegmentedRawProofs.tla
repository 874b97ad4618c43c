------------------------- MODULE SegmentedRawProofs -------------------------
(***************************************************************************)
(* Proofs about SegmentedRaw for runs of any length, with any number of    *)
(* segments.  The first half is about the frames and holds whatever the    *)
(* clock does; the second is about the manifests and takes it that a       *)
(* writer that lives renews its checkpoint (MayPause = FALSE).             *)
(***************************************************************************)
EXTENDS SegmentedRaw, FiniteSetTheorems, TLAPS

(***************************************************************************)
(* Contents, and what tells them from the marks of a missing file.         *)
(***************************************************************************)
(* A missing file and a missing manifest are no content and no manifest. *)
LEMMA MarksApart ==
    /\ Absent \notin Content
    /\ None \notin Manifest /\ None \notin Terminal
    /\ None \notin [records: Nat, segments: Nat]
    /\ None \notin [records: Nat, receipts: SUBSET Receipt]
<1>1. ASSUME Absent \in Content PROVE FALSE
  <2>1. DOMAIN Absent = {"recs", "torn"}
    BY <1>1 DEF Content
  <2>2. DOMAIN Absent = {"recs", "torn", "absent"}
    BY DEF Absent
  <2> QED
    BY <2>1, <2>2
<1>2. DOMAIN None = {"none"}
  BY DEF None
<1>3. None \notin Manifest
  <2>1. ASSUME None \in Manifest PROVE DOMAIN None = {"status", "bytes", "count"}
    BY <2>1 DEF Manifest
  <2> QED
    BY <1>2, <2>1
<1>4. None \notin Terminal
  <2>1. ASSUME None \in Terminal
        PROVE  DOMAIN None = {"status", "records", "receipts"}
    BY <2>1 DEF Terminal
  <2> QED
    BY <1>2, <2>1
<1>5. None \notin [records: Nat, segments: Nat]
  <2>1. ASSUME None \in [records: Nat, segments: Nat]
        PROVE  DOMAIN None = {"records", "segments"}
    BY <2>1
  <2> QED
    BY <1>2, <2>1
<1>6. None \notin [records: Nat, receipts: SUBSET Receipt]
  <2>1. ASSUME None \in [records: Nat, receipts: SUBSET Receipt]
        PROVE  DOMAIN None = {"records", "receipts"}
    BY <2>1
  <2> QED
    BY <1>2, <2>1
<1> QED
  BY <1>1, <1>3, <1>4, <1>5, <1>6

(* The bounds are numbers. *)
LEMMA BoundsTyped ==
    /\ MaxSegments \in Nat /\ MaxRecords \in Nat
    /\ Segments \subseteq 0 .. MaxSegments /\ 0 \in 0 .. MaxSegments
BY BoundAssumption DEF Segments

(* The bytes of a segment are a content, whatever it is called. *)
LEMMA BytesTyped ==
    ASSUME TypeOK, NEW s \in Segments
    PROVE  /\ Bytes(s) \in Content
           /\ Bytes(s).recs \subseteq Records
           /\ Exists(open, s) => open[s] \in Content
           /\ Exists(final, s) => final[s] \in Content
<1>1. Empty \in Content
  BY DEF Empty, Content
<1>2. Bytes(s) \in Content
  BY <1>1 DEF TypeOK, FileContent, Bytes, Exists
<1> QED
  BY <1>2 DEF TypeOK, FileContent, Exists, Content

(* A set of records is finite and has a number of members. *)
LEMMA RecordsFinite ==
    \A R \in SUBSET Records : IsFiniteSet(R) /\ Cardinality(R) \in Nat
<1>1. IsFiniteSet(Records)
  BY BoundsTyped, FS_Interval DEF Records
<1> QED
  BY <1>1, FS_Subset, FS_CardinalityType

(* What an interrupted append may leave is a content. *)
LEMMA LeftoversTyped ==
    ASSUME TypeOK, NEW s \in Segments, Appending(s), NEW bytes \in Leftovers(Bytes(s))
    PROVE  /\ bytes \in Content
           /\ Bytes(s).recs \subseteq bytes.recs
           /\ bytes.recs \subseteq Bytes(s).recs \union {writer.acked + 1}
<1> DEFINE b == Bytes(s)
<1>1. b \in Content /\ b.recs \subseteq Records
  BY BytesTyped
<1>2. writer.acked + 1 \in Records
  BY BoundsTyped DEF TypeOK, WriterState, Appending, Records
<1>3. bytes \in {b, [b EXCEPT !.torn = TRUE],
                 [b EXCEPT !.recs = @ \union {writer.acked + 1}]}
  BY DEF Leftovers
<1> HIDE DEF b
<1>4. CASE bytes = b
  BY <1>1, <1>4 DEF b
<1>5. CASE bytes = [b EXCEPT !.torn = TRUE]
  <2>1. bytes \in Content /\ bytes.recs = b.recs
    BY <1>1, <1>5 DEF Content
  <2> QED
    BY <2>1 DEF b
<1>6. CASE bytes = [b EXCEPT !.recs = @ \union {writer.acked + 1}]
  <2>1. bytes \in Content /\ bytes.recs = b.recs \union {writer.acked + 1}
    BY <1>1, <1>2, <1>6 DEF Content
  <2> QED
    BY <2>1 DEF b
<1> QED
  BY <1>3, <1>4, <1>5, <1>6

(***************************************************************************)
(* What the steps do to the files: put bytes under the name in use, or     *)
(* change the name.                                                        *)
(***************************************************************************)
(* Every segment but s keeps its files. *)
OthersKeep(s) ==
    \A t \in Segments \ {s} : open'[t] = open[t] /\ final'[t] = final[t]

(* Bytes put into a segment are its bytes, under one name. *)
LEMMA PutTyped ==
    ASSUME TypeOK, NEW s \in Segments, NEW bytes \in Content, PutBytes(s, bytes)
    PROVE  /\ open' \in [Segments -> FileContent]
           /\ final' \in [Segments -> FileContent]
           /\ OthersKeep(s)
           /\ ~(Exists(open, s) /\ Exists(final, s)) =>
                ~(Exists(open, s) /\ Exists(final, s))'
           /\ Bytes(s)' = bytes
<1>1. CASE Exists(final, s)
  <2>1. /\ final' = [final EXCEPT ![s] = bytes] /\ open' = open
        /\ final'[s] = bytes /\ final'[s] # Absent
    BY <1>1, MarksApart DEF TypeOK, PutBytes
  <2> QED
    BY <1>1, <2>1 DEF TypeOK, FileContent, OthersKeep, Exists, Bytes
<1>2. CASE ~Exists(final, s)
  <2>1. /\ open' = [open EXCEPT ![s] = bytes] /\ final' = final
        /\ open'[s] = bytes /\ open'[s] # Absent
    BY <1>2, MarksApart DEF TypeOK, PutBytes
  <2> QED
    BY <1>2, <2>1 DEF TypeOK, FileContent, OthersKeep, Exists, Bytes
<1> QED
  BY <1>1, <1>2

(* The rename of a segment to its final name. *)
Seals(s) ==
    /\ Exists(open, s)
    /\ final' = [final EXCEPT ![s] = open[s]]
    /\ open' = [open EXCEPT ![s] = Absent]

(* The rename of a segment back to its open name. *)
Reopens(s) ==
    /\ open' = [open EXCEPT ![s] = final[s]]
    /\ final' = [final EXCEPT ![s] = Absent]

(* A rename keeps the bytes. *)
LEMMA RenamesTyped ==
    ASSUME TypeOK, NamesFit, NEW s \in Segments,
           Seals(s) \/ (Exists(final, s) /\ Reopens(s))
    PROVE  /\ open' \in [Segments -> FileContent]
           /\ final' \in [Segments -> FileContent]
           /\ OthersKeep(s)
           /\ ~(Exists(open, s) /\ Exists(final, s))'
           /\ \A t \in Segments : Bytes(t)' = Bytes(t)
<1>1. CASE Seals(s)
  <2>1. /\ open'[s] = Absent /\ final'[s] = open[s] /\ open[s] # Absent
        /\ final[s] = Absent
    BY <1>1 DEF TypeOK, NamesFit, Seals, Exists
  <2>2. OthersKeep(s)
    BY <1>1 DEF TypeOK, Seals, OthersKeep
  <2>3. ASSUME NEW t \in Segments PROVE Bytes(t)' = Bytes(t)
    BY <2>1, <2>2 DEF OthersKeep, Bytes, Exists
  <2>4. open' \in [Segments -> FileContent] /\ final' \in [Segments -> FileContent]
    BY <1>1 DEF TypeOK, Seals, FileContent
  <2> QED
    BY <2>1, <2>2, <2>3, <2>4 DEF Exists
<1>2. CASE Exists(final, s) /\ Reopens(s)
  <2>1. /\ open'[s] = final[s] /\ final'[s] = Absent /\ open[s] = Absent
        /\ final[s] # Absent
    BY <1>2 DEF TypeOK, NamesFit, Reopens, Exists
  <2>2. OthersKeep(s)
    BY <1>2 DEF TypeOK, Reopens, OthersKeep
  <2>3. ASSUME NEW t \in Segments PROVE Bytes(t)' = Bytes(t)
    BY <2>1, <2>2 DEF OthersKeep, Bytes, Exists
  <2>4. open' \in [Segments -> FileContent] /\ final' \in [Segments -> FileContent]
    BY <1>2 DEF TypeOK, Reopens, FileContent
  <2> QED
    BY <2>1, <2>2, <2>3, <2>4 DEF Exists
<1> QED
  BY <1>1, <1>2

(***************************************************************************)
(* What the steps do to the memory of the writer.                          *)
(***************************************************************************)
(* The writer keeps what a step does not name. *)
KeepsRun == writer'.sealed = writer.sealed /\ writer'.ending = writer.ending

(* A frame kept is the next one, in the segment that is its turn. *)
LEMMA FrameKeptDoes ==
    ASSUME TypeOK, NEW s \in Segments, FrameKept(s)
    PROVE  /\ Appending(s) /\ writer' \in WriterState
           /\ PutBytes(s, [recs |-> Bytes(s).recs \union {writer.acked + 1},
                           torn |-> FALSE])
           /\ [recs |-> Bytes(s).recs \union {writer.acked + 1},
               torn |-> FALSE] \in Content
           /\ writer'.pc = "run" /\ writer'.seg = s /\ writer'.handle = TRUE
           /\ writer'.acked = writer.acked + 1
           /\ writer'.n = IF writer.handle THEN writer.n + 1 ELSE 1
           /\ writer'.failed = writer.failed /\ writer'.tainted = writer.tainted
           /\ KeepsRun
<1> DEFINE k == writer.acked + 1
           m == IF writer.handle THEN writer.n + 1 ELSE 1
<1>1. k \in Nat /\ k \in Records
  BY BoundsTyped DEF TypeOK, WriterState, FrameKept, Appending, Records
<1>2. m \in Nat
  BY DEF TypeOK, WriterState
<1>3. writer' = [writer EXCEPT !.pc = "run", !.seg = s, !.handle = TRUE, !.acked = k,
                               !.n = m]
  BY DEF FrameKept
<1>4. [recs |-> Bytes(s).recs \union {k}, torn |-> FALSE] \in Content
  BY <1>1, BytesTyped DEF Content
<1>5. Appending(s) /\ PutBytes(s, [recs |-> Bytes(s).recs \union {k}, torn |-> FALSE])
  BY DEF FrameKept
<1> HIDE DEF k, m
<1>6. /\ writer' \in WriterState
      /\ writer'.pc = "run" /\ writer'.seg = s /\ writer'.handle = TRUE
      /\ writer'.acked = k /\ writer'.n = m
      /\ writer'.failed = writer.failed /\ writer'.tainted = writer.tainted
      /\ KeepsRun
  BY <1>1, <1>2, <1>3, BoundsTyped DEF TypeOK, WriterState, KeepsRun
<1> QED
  BY <1>4, <1>5, <1>6 DEF k, m

(* A frame rolled back leaves the bytes and a writer that failed. *)
LEMMA FrameRolledBackDoes ==
    ASSUME TypeOK, NEW s \in Segments, FrameRolledBack(s)
    PROVE  /\ Appending(s) /\ writer' \in WriterState
           /\ PutBytes(s, Bytes(s))
           /\ writer'.pc = "run" /\ writer'.seg = s /\ writer'.handle = TRUE
           /\ writer'.acked = writer.acked
           /\ writer'.n = IF writer.handle THEN writer.n ELSE 0
           /\ writer'.failed = TRUE /\ writer'.tainted = writer.tainted
           /\ KeepsRun
<1> DEFINE m == IF writer.handle THEN writer.n ELSE 0
<1>1. m \in Nat
  BY DEF TypeOK, WriterState
<1>2. writer' = [writer EXCEPT !.pc = "run", !.seg = s, !.handle = TRUE,
                               !.failed = TRUE, !.n = m]
  BY DEF FrameRolledBack
<1>3. Appending(s) /\ PutBytes(s, Bytes(s))
  BY DEF FrameRolledBack
<1> HIDE DEF m
<1>4. /\ writer' \in WriterState
      /\ writer'.pc = "run" /\ writer'.seg = s /\ writer'.handle = TRUE
      /\ writer'.acked = writer.acked /\ writer'.n = m
      /\ writer'.failed = TRUE /\ writer'.tainted = writer.tainted
      /\ KeepsRun
  BY <1>1, <1>2, BoundsTyped DEF TypeOK, WriterState, KeepsRun
<1> QED
  BY <1>3, <1>4 DEF m

(* A tainted frame leaves anything an append may leave. *)
LEMMA FrameTaintedDoes ==
    ASSUME TypeOK, NEW s \in Segments, FrameTainted(s)
    PROVE  /\ Appending(s) /\ writer' \in WriterState
           /\ \E bytes \in Leftovers(Bytes(s)): PutBytes(s, bytes)
           /\ writer'.pc = "run" /\ writer'.seg = s /\ writer'.handle = TRUE
           /\ writer'.acked = writer.acked
           /\ writer'.failed = TRUE /\ writer'.tainted = TRUE
           /\ KeepsRun
<1> DEFINE m == IF writer.handle THEN writer.n ELSE 0
<1>1. m \in Nat
  BY DEF TypeOK, WriterState
<1>2. writer' = [writer EXCEPT !.pc = "run", !.seg = s, !.handle = TRUE,
                               !.failed = TRUE, !.tainted = TRUE, !.n = m]
  BY DEF FrameTainted
<1>3. Appending(s) /\ \E bytes \in Leftovers(Bytes(s)): PutBytes(s, bytes)
  BY DEF FrameTainted
<1> HIDE DEF m
<1>4. /\ writer' \in WriterState
      /\ writer'.pc = "run" /\ writer'.seg = s /\ writer'.handle = TRUE
      /\ writer'.acked = writer.acked
      /\ writer'.failed = TRUE /\ writer'.tainted = TRUE
      /\ KeepsRun
  BY <1>1, <1>2, BoundsTyped DEF TypeOK, WriterState, KeepsRun
<1> QED
  BY <1>3, <1>4

(* What an error in a seal leaves of the memory of the writer. *)
Spoils(ending) ==
    /\ writer'.pc = IF ending = "none" THEN "run" ELSE "closing"
    /\ writer'.ending = IF ending = "none" THEN "none" ELSE "failed"
    /\ writer'.handle = FALSE /\ writer'.failed = TRUE /\ writer'.tainted = TRUE

(* What a seal never touches in it. *)
KeepsCount ==
    /\ writer'.seg = writer.seg /\ writer'.n = writer.n
    /\ writer'.acked = writer.acked /\ writer'.sealed = writer.sealed

(* A rename, a segment without a record, or an error: what a seal comes to. *)
LEMMA ClosesDoes ==
    ASSUME TypeOK, NEW ending \in {"none", "complete", "interrupted", "failed"},
           CloseAndRename([writer EXCEPT !.ending = ending])
    PROVE  /\ writer' \in WriterState
           /\ KeepsCount
           /\ \/ /\ writer.n > 0 /\ Seals(writer.seg)
                 /\ writer'.pc = "renamed" /\ writer'.ending = ending
                 /\ writer'.handle = FALSE
                 /\ writer'.failed = writer.failed /\ writer'.tainted = writer.tainted
              \/ /\ writer.n = 0 /\ UNCHANGED <<open, final>>
                 /\ writer'.pc = "closing" /\ writer'.ending = ending
                 /\ writer'.handle = FALSE
                 /\ writer'.failed = writer.failed /\ writer'.tainted = writer.tainted
              \/ UNCHANGED <<open, final>> /\ Spoils(ending)
<1> DEFINE w == [writer EXCEPT !.ending = ending]
<1>1. /\ w \in WriterState
      /\ w.seg = writer.seg /\ w.n = writer.n /\ w.acked = writer.acked
      /\ w.sealed = writer.sealed /\ w.ending = ending
      /\ w.failed = writer.failed /\ w.tainted = writer.tainted
  BY DEF TypeOK, WriterState
<1>2. CloseAndRename(w)
  OBVIOUS
<1> HIDE DEF w
<1>3. CASE writer' = [w EXCEPT !.handle = FALSE, !.pc = "renamed"]
           /\ w.n > 0 /\ Seals(w.seg)
  BY <1>1, <1>3 DEF WriterState, KeepsCount
<1>4. CASE writer' = [w EXCEPT !.handle = FALSE, !.pc = "closing"]
           /\ w.n = 0 /\ UNCHANGED <<open, final>>
  BY <1>1, <1>4 DEF WriterState, KeepsCount
<1>5. CASE writer' = AfterSealError(w) /\ UNCHANGED <<open, final>>
  BY <1>1, <1>5 DEF WriterState, KeepsCount, AfterSealError, Spoils
<1> QED
  BY <1>2, <1>3, <1>4, <1>5 DEF CloseAndRename, Seals

(* The rotation is a seal in the middle of the run. *)
LEMMA RotateDoes ==
    ASSUME TypeOK, Rotate
    PROVE  /\ writer.pc = "run" /\ writer.ending = "none" /\ ~writer.failed
           /\ writer.handle /\ writer.n > 0
           /\ CloseAndRename([writer EXCEPT !.ending = "none"])
<1>1. [writer EXCEPT !.ending = "none"] = writer
  BY DEF TypeOK, WriterState, Rotate
<1> QED
  BY <1>1 DEF Rotate

(* The end of the run: a seal, or nothing to seal. *)
LEMMA FinishDoes ==
    ASSUME TypeOK, NEW status \in {"complete", "interrupted", "failed"},
           Finish(status)
    PROVE  /\ writer.pc \in {"run", "rotated"} /\ writer.ending = "none"
           /\ \E ending \in {"complete", "interrupted", "failed"} :
                /\ writer.failed => ending = "failed"
                /\ \/ /\ ~writer.tainted /\ writer.handle
                      /\ CloseAndRename([writer EXCEPT !.ending = ending])
                   \/ /\ writer.tainted \/ ~writer.handle
                      /\ UNCHANGED <<open, final>>
                      /\ writer' \in WriterState
                      /\ KeepsCount
                      /\ writer'.pc = "closing" /\ writer'.ending = ending
                      /\ writer'.handle = FALSE
                      /\ writer'.failed = writer.failed
                      /\ writer'.tainted = writer.tainted
<1> DEFINE ending == IF writer.failed THEN "failed" ELSE status
           w == [writer EXCEPT !.ending = ending]
<1>1. /\ ending \in {"complete", "interrupted", "failed"}
      /\ writer.failed => ending = "failed"
  OBVIOUS
<1>2. /\ writer.pc \in {"run", "rotated"} /\ writer.ending = "none"
      /\ IF w.tainted \/ ~w.handle
           THEN /\ writer' = [w EXCEPT !.handle = FALSE, !.pc = "closing"]
                /\ UNCHANGED <<open, final>>
           ELSE CloseAndRename(w)
  BY DEF Finish
<1> HIDE DEF ending
<1>3. /\ w \in WriterState
      /\ w.seg = writer.seg /\ w.n = writer.n /\ w.acked = writer.acked
      /\ w.sealed = writer.sealed /\ w.ending = ending /\ w.handle = writer.handle
      /\ w.failed = writer.failed /\ w.tainted = writer.tainted
  BY <1>1 DEF TypeOK, WriterState
<1>4. CASE w.tainted \/ ~w.handle
  <2> HIDE DEF w
  <2>1. writer' = [w EXCEPT !.handle = FALSE, !.pc = "closing"]
        /\ UNCHANGED <<open, final>>
    BY <1>2, <1>4
  <2>2. /\ writer' \in WriterState /\ KeepsCount
        /\ writer'.pc = "closing" /\ writer'.ending = ending
        /\ writer'.handle = FALSE
        /\ writer'.failed = writer.failed /\ writer'.tainted = writer.tainted
    BY <1>3, <2>1 DEF WriterState, KeepsCount
  <2> QED
    BY <1>1, <1>2, <1>3, <1>4, <2>1, <2>2
<1>5. CASE ~(w.tainted \/ ~w.handle)
  <2>1. ~writer.tainted /\ writer.handle
    BY <1>3, <1>5 DEF WriterState, TypeOK
  <2>2. CloseAndRename([writer EXCEPT !.ending = ending])
    BY <1>2, <1>5
  <2> HIDE DEF w
  <2> QED
    BY <1>1, <1>2, <2>1, <2>2
<1> QED
  BY <1>4, <1>5

(* The manifest the writer puts beside the segment it renamed. *)
Statement == StatesOf(SealStatus, final[writer.seg], writer.n)

(* It states the bytes that are there. *)
LEMMA StatementTyped ==
    ASSUME TypeOK, PlaceFits, writer.pc = "renamed"
    PROVE  /\ writer.seg \in Segments /\ final[writer.seg] \in Content
           /\ Statement \in Manifest
           /\ Statement.bytes = final[writer.seg] /\ Statement.count = writer.n
           /\ Statement.status = IF writer.failed THEN "recovered_incomplete"
                                                  ELSE "sealed"
<1>1. writer.seg \in Segments /\ final[writer.seg] \in Content /\ writer.n \in Nat
  BY BytesTyped DEF TypeOK, WriterState, PlaceFits
<1>2. SealStatus \in {"sealed", "recovered_incomplete"}
  BY DEF SealStatus
<1> QED
  BY <1>1, <1>2 DEF Statement, StatesOf, Manifest, SealStatus

(* The segment is published and its receipt kept. *)
LEMMA PublishDoes ==
    ASSUME TypeOK, PlaceFits, PublishSegment
    PROVE  /\ writer.pc = "renamed"
           /\ manifest' = [manifest EXCEPT ![writer.seg] = Statement]
           /\ writer' \in WriterState
           /\ writer'.pc = IF writer.ending = "none" THEN "rotated" ELSE "closing"
           /\ writer'.ending = writer.ending
                \/ (writer.ending # "none" /\ writer'.ending = "failed")
           /\ writer'.sealed = writer.sealed \union
                {[seg |-> writer.seg, bytes |-> final[writer.seg],
                  count |-> writer.n]}
           /\ writer'.seg = writer.seg /\ writer'.acked = writer.acked
           /\ writer'.handle = writer.handle /\ writer'.failed = writer.failed
           /\ writer'.tainted = FALSE
<1> DEFINE place == IF writer.ending = "none" THEN "rotated" ELSE "closing"
           receipt == [seg |-> writer.seg, bytes |-> final[writer.seg],
                       count |-> writer.n]
<1>1. writer.pc = "renamed"
  BY DEF PublishSegment
<1>2. manifest' = [manifest EXCEPT ![writer.seg] = Statement]
  BY DEF PublishSegment, Statement
<1>3. receipt \in Receipt
  BY <1>1, StatementTyped DEF TypeOK, WriterState, Receipt
<1>4. /\ Statement.bytes = final[writer.seg] /\ Statement.count = writer.n
  BY <1>1, StatementTyped
<1>5. PICK ending \in {writer.ending} \union
                 (IF writer.ending = "none" THEN {} ELSE {"failed"}) :
         writer' = [Reset(writer) EXCEPT
              !.pc = place, !.ending = ending,
              !.sealed = @ \union {[seg |-> writer.seg, bytes |-> Statement.bytes,
                                    count |-> Statement.count]}]
  BY DEF PublishSegment, Statement
<1>6. writer' = [Reset(writer) EXCEPT
              !.pc = place, !.ending = ending, !.sealed = @ \union {receipt}]
  BY <1>4, <1>5
<1>7. /\ Reset(writer) \in WriterState
      /\ Reset(writer).seg = writer.seg /\ Reset(writer).acked = writer.acked
      /\ Reset(writer).handle = writer.handle
      /\ Reset(writer).failed = writer.failed
      /\ Reset(writer).sealed = writer.sealed
      /\ Reset(writer).tainted = FALSE
  BY DEF TypeOK, WriterState, Reset
<1>8. /\ ending \in {"none", "complete", "interrupted", "failed"}
      /\ place \in {"rotated", "closing"}
      /\ ending = writer.ending \/ (writer.ending # "none" /\ ending = "failed")
  BY DEF TypeOK, WriterState
<1> DEFINE w == Reset(writer)
<1> HIDE DEF place, receipt, w
<1>9. w \in WriterState /\ writer' = [w EXCEPT
              !.pc = place, !.ending = ending, !.sealed = @ \union {receipt}]
  BY <1>6, <1>7 DEF w
<1>10. /\ writer' \in WriterState
       /\ writer'.pc = place /\ writer'.ending = ending
       /\ writer'.sealed = w.sealed \union {receipt}
       /\ writer'.seg = w.seg /\ writer'.acked = w.acked
       /\ writer'.handle = w.handle /\ writer'.failed = w.failed
       /\ writer'.tainted = w.tainted
  BY <1>3, <1>8, <1>9 DEF WriterState
<1> QED
  BY <1>1, <1>2, <1>7, <1>8, <1>10 DEF w, place, receipt

(* The manifest could not be written, or so it seemed. *)
LEMMA PublishFailsDoes ==
    ASSUME TypeOK, PublishFails
    PROVE  /\ writer.pc = "renamed"
           /\ writer' \in WriterState /\ KeepsCount /\ Spoils(writer.ending)
           /\ \/ /\ ~Published(writer.seg) /\ Reopens(writer.seg)
                 /\ UNCHANGED manifest
              \/ UNCHANGED <<open, final, manifest>>
              \/ /\ manifest' = [manifest EXCEPT ![writer.seg] = Statement]
                 /\ UNCHANGED <<open, final>>
<1>1. writer' = AfterSealError(writer) /\ writer.pc = "renamed"
  BY DEF PublishFails
<1>2. writer' \in WriterState /\ KeepsCount /\ Spoils(writer.ending)
  BY <1>1 DEF TypeOK, WriterState, AfterSealError, KeepsCount, Spoils
<1> QED
  BY <1>1, <1>2 DEF PublishFails, Reopens, Statement, files

(* The writer keeps all but its place. *)
KeepsAll ==
    /\ KeepsCount
    /\ writer'.ending = writer.ending
    /\ writer'.failed = writer.failed /\ writer'.tainted = writer.tainted

(* The last two steps of finish. *)
LEMMA EndsDo ==
    ASSUME TypeOK, DropCheckpoint \/ EndRun
    PROVE  /\ writer' \in WriterState /\ KeepsAll
           /\ writer'.handle = writer.handle
           /\ DropCheckpoint => /\ writer.pc = "closing"
                                /\ writer'.pc \in {"dead", "unlinked"}
           /\ EndRun => writer.pc = "unlinked" /\ writer'.pc = "done"
<1>1. CASE DropCheckpoint
  <2>1. /\ writer.pc = "closing"
        /\ \/ writer' = [writer EXCEPT !.pc = "dead"]
           \/ writer' = [writer EXCEPT !.pc = "unlinked"]
    BY <1>1 DEF DropCheckpoint
  <2>2. ~ EndRun
    BY <2>1 DEF EndRun
  <2> QED
    BY <2>1, <2>2 DEF TypeOK, WriterState, KeepsAll, KeepsCount
<1>2. CASE EndRun
  <2>1. writer.pc = "unlinked" /\ writer' = [writer EXCEPT !.pc = "done"]
    BY <1>2 DEF EndRun
  <2>2. ~ DropCheckpoint
    BY <2>1 DEF DropCheckpoint
  <2> QED
    BY <2>1, <2>2 DEF TypeOK, WriterState, KeepsAll, KeepsCount
<1> QED
  BY <1>1, <1>2

(* The death of the process, in an append or elsewhere. *)
LEMMA DieDoes ==
    ASSUME TypeOK, Die
    PROVE  /\ ~Over /\ writer' \in WriterState /\ KeepsAll
           /\ writer'.pc = "dead" /\ writer'.handle = FALSE
           /\ \/ UNCHANGED <<open, final, old>>
              \/ /\ \E s \in Segments : /\ Appending(s)
                                        /\ \E bytes \in Leftovers(Bytes(s)) :
                                              PutBytes(s, bytes)
                 /\ old' = old \ {"segment"}
<1>1. writer' = [writer EXCEPT !.pc = "dead", !.handle = FALSE]
  BY DEF Die
<1>2. /\ writer' \in WriterState /\ KeepsAll
      /\ writer'.pc = "dead" /\ writer'.handle = FALSE
  BY <1>1 DEF TypeOK, WriterState, KeepsAll, KeepsCount
<1> QED
  BY <1>2 DEF Die

(***************************************************************************)
(* Types.                                                                  *)
(***************************************************************************)
(* What a recovery or a reconciliation holds in each of its places. *)
LEMMA MemoryTyped ==
    ASSUME TypeOK
    PROVE  /\ scan.pc = "listed" => scan.seg \in Segments /\ scan.isOpen \in BOOLEAN
           /\ scan.pc = "read" => /\ scan.seg \in Segments /\ scan.isOpen \in BOOLEAN
                                  /\ scan.count \in Nat
           /\ scan.pc = "taken" => /\ scan.seg \in Segments /\ scan.bytes \in Content
                                   /\ scan.count \in Nat
           /\ audit.pc = "inspected" => audit.records \in Nat
                                         /\ audit.receipts \in SUBSET Receipt
           /\ Idle.pc = "idle"
BY DEF TypeOK, ScanState, AuditState, Idle

(* The steps of the writer that leave the recovery and the run manifests. *)
AuditTyped ==
    /\ checkpoint' \in [records: Nat, segments: Nat] \union {None}
    /\ terminal' \in Terminal \union {None}
    /\ reconciled' \in [records: Nat, receipts: SUBSET Receipt] \union {None}
    /\ scan' \in ScanState /\ audit' \in AuditState

(* The files, the manifests and the ages. *)
FilesTyped ==
    /\ open' \in [Segments -> FileContent]
    /\ final' \in [Segments -> FileContent]
    /\ manifest' \in [Segments -> Manifest \union {None}]
    /\ old' \subseteq {"segment", "checkpoint"}

(* Both and the memory of the writer are the types. *)
LEMMA TypedInParts ==
    ASSUME AuditTyped, FilesTyped, writer' \in WriterState
    PROVE  TypeOK'
BY DEF TypeOK, AuditTyped, FilesTyped, FileContent, Content, Records, Segments, Manifest,
       Receipt, Terminal, ScanState, AuditState, WriterState, Idle, None, Absent

(* What a step does not touch keeps its type. *)
LEMMA UntouchedTyped ==
    ASSUME TypeOK
    PROVE  /\ UNCHANGED <<checkpoint, terminal, reconciled, scan, audit>> => AuditTyped
           /\ UNCHANGED <<open, final>> =>
                /\ open' \in [Segments -> FileContent]
                /\ final' \in [Segments -> FileContent]
           /\ UNCHANGED manifest => manifest' \in [Segments -> Manifest \union {None}]
           /\ UNCHANGED writer => writer' \in WriterState
           /\ old' \subseteq old => old' \subseteq {"segment", "checkpoint"}
BY DEF TypeOK, AuditTyped

(* The writer keeps the types. *)
LEMMA WriterTypes ==
    ASSUME TypeOK, NamesFit, PlaceFits, WriterStep
    PROVE  TypeOK'
<1> SUFFICES AuditTyped /\ FilesTyped /\ writer' \in WriterState
  BY TypedInParts
<1> USE DEF FilesTyped
<1>1. ASSUME NEW s \in Segments, FrameKept(s)
      PROVE  AuditTyped /\ FilesTyped /\ writer' \in WriterState
  <2>1. UNCHANGED <<manifest, checkpoint, terminal, reconciled, scan, audit>>
        /\ old' = old \ {"segment"}
    BY <1>1 DEF FrameKept
  <2>2. open' \in [Segments -> FileContent] /\ final' \in [Segments -> FileContent]
    BY <1>1, FrameKeptDoes, PutTyped
  <2> QED
    BY <1>1, <2>1, <2>2, FrameKeptDoes, UntouchedTyped
<1>2. ASSUME NEW s \in Segments, FrameRolledBack(s)
      PROVE  AuditTyped /\ FilesTyped /\ writer' \in WriterState
  <2>1. UNCHANGED <<manifest, checkpoint, terminal, reconciled, scan, audit>>
        /\ old' = old \ {"segment"}
    BY <1>2 DEF FrameRolledBack
  <2>2. open' \in [Segments -> FileContent] /\ final' \in [Segments -> FileContent]
    BY <1>2, FrameRolledBackDoes, PutTyped, BytesTyped
  <2> QED
    BY <1>2, <2>1, <2>2, FrameRolledBackDoes, UntouchedTyped
<1>3. ASSUME NEW s \in Segments, FrameTainted(s)
      PROVE  AuditTyped /\ FilesTyped /\ writer' \in WriterState
  <2>1. UNCHANGED <<manifest, checkpoint, terminal, reconciled, scan, audit>>
        /\ old' = old \ {"segment"}
    BY <1>3 DEF FrameTainted
  <2>2. open' \in [Segments -> FileContent] /\ final' \in [Segments -> FileContent]
    BY <1>3, FrameTaintedDoes, PutTyped, LeftoversTyped
  <2> QED
    BY <1>3, <2>1, <2>2, FrameTaintedDoes, UntouchedTyped
<1>4. ASSUME NEW ending \in {"none", "complete", "interrupted", "failed"},
             CloseAndRename([writer EXCEPT !.ending = ending]),
             writer.seg \in Segments
      PROVE  /\ open' \in [Segments -> FileContent]
             /\ final' \in [Segments -> FileContent]
             /\ writer' \in WriterState
  BY <1>4, ClosesDoes, RenamesTyped, UntouchedTyped
<1>5. CASE Rotate
  <2>1. UNCHANGED <<manifest, checkpoint, terminal, reconciled, old, scan, audit>>
    BY <1>5 DEF Rotate
  <2>2. writer.seg \in Segments /\ CloseAndRename([writer EXCEPT !.ending = "none"])
    BY <1>5, RotateDoes DEF PlaceFits
  <2> QED
    BY <1>4, <2>1, <2>2, UntouchedTyped
<1>6. ASSUME NEW status \in {"complete", "interrupted", "failed"}, Finish(status)
      PROVE  AuditTyped /\ FilesTyped /\ writer' \in WriterState
  <2>1. UNCHANGED <<manifest, checkpoint, terminal, reconciled, old, scan, audit>>
    BY <1>6 DEF Finish
  <2> PICK ending \in {"complete", "interrupted", "failed"} :
         \/ /\ writer.handle
            /\ CloseAndRename([writer EXCEPT !.ending = ending])
         \/ UNCHANGED <<open, final>> /\ writer' \in WriterState
    BY <1>6, FinishDoes
  <2>2. /\ open' \in [Segments -> FileContent]
        /\ final' \in [Segments -> FileContent]
        /\ writer' \in WriterState
    BY <1>4, UntouchedTyped DEF PlaceFits
  <2> QED
    BY <2>1, <2>2, UntouchedTyped
<1>7. CASE PublishSegment
  <2>1. UNCHANGED <<open, final, checkpoint, terminal, reconciled, old, scan, audit>>
    BY <1>7 DEF PublishSegment
  <2>2. manifest' \in [Segments -> Manifest \union {None}]
    BY <1>7, PublishDoes, StatementTyped DEF TypeOK
  <2> QED
    BY <1>7, <2>1, <2>2, PublishDoes, UntouchedTyped
<1>8. CASE PublishFails
  <2>1. UNCHANGED <<checkpoint, terminal, reconciled, old, scan, audit>>
    BY <1>8 DEF PublishFails
  <2>2. manifest' \in [Segments -> Manifest \union {None}]
    BY <1>8, PublishFailsDoes, StatementTyped DEF TypeOK
  <2>3. open' \in [Segments -> FileContent] /\ final' \in [Segments -> FileContent]
    BY <1>8, PublishFailsDoes, RenamesTyped, UntouchedTyped DEF PlaceFits
  <2> QED
    BY <1>8, <2>1, <2>2, <2>3, PublishFailsDoes, UntouchedTyped
<1>9. CASE Checkpoint
  <2>1. writer.acked \in Nat /\ Cardinality(writer.sealed) \in Nat
    BY FS_CardinalityType DEF TypeOK, WriterState, PlaceFits
  <2>2. checkpoint' \in [records: Nat, segments: Nat]
    BY <1>9, <2>1 DEF Checkpoint
  <2>3. /\ UNCHANGED <<open, final, manifest, terminal, reconciled, writer, scan, audit>>
        /\ old' = old \ {"checkpoint"}
    BY <1>9 DEF Checkpoint
  <2> QED
    BY <2>2, <2>3, UntouchedTyped DEF TypeOK, AuditTyped
<1>10. CASE DropCheckpoint
  <2>1. /\ UNCHANGED <<open, final, manifest, terminal, reconciled, scan, audit>>
        /\ old' \subseteq old
        /\ checkpoint' = checkpoint \/ checkpoint' = None
    BY <1>10 DEF DropCheckpoint
  <2> QED
    BY <1>10, <2>1, EndsDo, UntouchedTyped DEF TypeOK, AuditTyped
<1>11. CASE EndRun
  <2>1. UNCHANGED <<open, final, manifest, checkpoint, reconciled, old, scan, audit>>
    BY <1>11 DEF EndRun
  <2>2. /\ writer.ending \in {"complete", "interrupted", "failed"}
        /\ writer.acked \in Nat /\ writer.sealed \in SUBSET Receipt
    BY <1>11, EndsDo DEF TypeOK, WriterState, PlaceFits
  <2>3. terminal' \in Terminal
    BY <1>11, <2>2 DEF EndRun, Terminal
  <2> QED
    BY <1>11, <2>1, <2>3, EndsDo, UntouchedTyped DEF TypeOK, AuditTyped
<1>12. CASE Die
  <2>1. /\ UNCHANGED <<manifest, checkpoint, terminal, reconciled, scan, audit>>
        /\ old' \subseteq old
    BY <1>12, DieDoes DEF Die
  <2>2. open' \in [Segments -> FileContent] /\ final' \in [Segments -> FileContent]
    BY <1>12, DieDoes, PutTyped, LeftoversTyped, UntouchedTyped
  <2> QED
    BY <1>12, <2>1, <2>2, DieDoes, UntouchedTyped
<1> QED
  BY <1>1, <1>2, <1>3, <1>5, <1>6, <1>7, <1>8, <1>9, <1>10, <1>11, <1>12
     DEF WriterStep

(* What the recovery reads and writes has the type of its memory. *)
LEMMA ScanTypes ==
    ASSUME TypeOK, NamesFit, ScanStep
    PROVE  TypeOK'
<1> SUFFICES AuditTyped /\ FilesTyped /\ writer' \in WriterState
  BY TypedInParts
<1> USE DEF FilesTyped
<1>0. ASSUME UNCHANGED <<checkpoint, terminal, reconciled, audit>>, scan' \in ScanState
      PROVE  AuditTyped
  BY <1>0 DEF TypeOK, AuditTyped
<1>1. CASE ScanLists
  <2>1. scan' \in ScanState
    <3>1. ASSUME NEW s \in Segments, NEW b \in BOOLEAN PROVE Listed(s, b) \in ScanState
      BY DEF Listed, ScanState
    <3>2. PICK s \in Segments : scan' = Listed(s, TRUE) \/ scan' = Listed(s, FALSE)
      BY <1>1 DEF ScanLists
    <3>3. TRUE \in BOOLEAN /\ FALSE \in BOOLEAN
      OBVIOUS
    <3> QED
      BY <3>1, <3>2, <3>3
  <2> QED
    BY <1>0, <1>1, <2>1, UntouchedTyped DEF ScanLists
<1>2. CASE ScanExamines
  <2>1. /\ scan.pc = "listed"
        /\ scan' = IF Abandoned(scan.seg, scan.isOpen)
                 THEN [pc |-> "read", seg |-> scan.seg, isOpen |-> scan.isOpen,
                       count |-> Cardinality(Bytes(scan.seg).recs)]
                 ELSE Idle
    BY <1>2 DEF ScanExamines
  <2>2. scan.seg \in Segments /\ scan.isOpen \in BOOLEAN
    BY <2>1, MemoryTyped
  <2>3. Cardinality(Bytes(scan.seg).recs) \in Nat
    BY <2>2, BytesTyped, RecordsFinite
  <2>4. scan' \in ScanState
    BY <2>1, <2>2, <2>3 DEF ScanState
  <2> QED
    BY <1>0, <1>2, <2>4, UntouchedTyped DEF ScanExamines
<1>3. CASE ScanTakes
  <2>1. scan.pc = "read" /\ scan.seg \in Segments /\ scan.count \in Nat
    BY <1>3, MemoryTyped DEF ScanTakes
  <2>2. \/ /\ Seals(scan.seg)
           /\ scan' = [pc |-> "taken", seg |-> scan.seg, bytes |-> open[scan.seg],
                       count |-> scan.count]
           /\ Exists(open, scan.seg)
        \/ /\ UNCHANGED <<open, final>>
           /\ scan' = [pc |-> "taken", seg |-> scan.seg, bytes |-> final[scan.seg],
                       count |-> scan.count]
           /\ Exists(final, scan.seg)
    BY <1>3 DEF ScanTakes, Seals
  <2>3. scan' \in ScanState
    BY <2>1, <2>2, BytesTyped DEF ScanState
  <2>4. open' \in [Segments -> FileContent] /\ final' \in [Segments -> FileContent]
    BY <2>1, <2>2, RenamesTyped, UntouchedTyped
  <2> QED
    BY <1>0, <1>3, <2>3, <2>4, UntouchedTyped DEF ScanTakes
<1>4. CASE ScanPublishes
  <2>1. scan.seg \in Segments /\ scan.bytes \in Content /\ scan.count \in Nat
    BY <1>4, MemoryTyped DEF ScanPublishes
  <2>2. StatesOf("recovered_incomplete", scan.bytes, scan.count) \in Manifest
    BY <2>1 DEF StatesOf, Manifest
  <2>3. manifest' \in [Segments -> Manifest \union {None}]
    BY <1>4, <2>2 DEF TypeOK, ScanPublishes
  <2>4. scan' \in ScanState
    BY <1>4 DEF ScanPublishes, ScanState
  <2> QED
    BY <1>0, <1>4, <2>3, <2>4, UntouchedTyped DEF ScanPublishes
<1>5. CASE ScanDies
  <2>1. scan' \in ScanState
    BY <1>5 DEF ScanDies, ScanState
  <2> QED
    BY <1>0, <1>5, <2>1, UntouchedTyped DEF ScanDies
<1> QED
  BY <1>1, <1>2, <1>3, <1>4, <1>5 DEF ScanStep

(* The records of the segments a reconciliation reads. *)
LEMMA FinalRecordsTyped ==
    ASSUME TypeOK
    PROVE  FinalRecords \subseteq Records /\ Cardinality(FinalRecords) \in Nat
<1>1. \A s \in FinalSegments : final[s].recs \subseteq Records
  BY BytesTyped DEF FinalSegments, Content
<1>2. FinalRecords \subseteq Records
  BY <1>1 DEF FinalRecords
<1> QED
  BY <1>2, RecordsFinite

(* What the reconciliation reads and writes has the type of its memory. *)
LEMMA AuditTypes ==
    ASSUME TypeOK, AuditStep
    PROVE  TypeOK'
<1> SUFFICES AuditTyped /\ FilesTyped /\ writer' \in WriterState
  BY TypedInParts
<1> USE DEF FilesTyped
<1>1. CASE AuditInspects
  <2> DEFINE receipts == {[seg |-> s, bytes |-> final[s], count |-> manifest[s].count]
                            : s \in FinalSegments}
  <2>1. checkpoint \in [records: Nat, segments: Nat]
    BY <1>1 DEF TypeOK, AuditInspects, Eligible
  <2>2. ASSUME NEW s \in FinalSegments
        PROVE  [seg |-> s, bytes |-> final[s], count |-> manifest[s].count] \in Receipt
    <3>1. s \in Segments /\ final[s] \in Content
      BY <2>2, BytesTyped DEF FinalSegments
    <3>2. manifest[s] \in Manifest
      BY <1>1, <2>2, <3>1 DEF TypeOK, AuditInspects, Eligible, ReceiptHolds, Published
    <3> QED
      BY <3>1, <3>2 DEF Receipt, Manifest
  <2>3. receipts \in SUBSET Receipt
    BY <2>2
  <2>4. audit' = [pc |-> "inspected", checkpoint |-> checkpoint,
                  records |-> Cardinality(FinalRecords), receipts |-> receipts]
    BY <1>1 DEF AuditInspects
  <2> HIDE DEF receipts
  <2>5. audit' \in AuditState
    BY <2>1, <2>3, <2>4, FinalRecordsTyped DEF AuditState
  <2> QED
    BY <1>1, <2>5, UntouchedTyped DEF AuditInspects, TypeOK, AuditTyped
<1>2. CASE ReconcileWrites
  <2>1. audit.records \in Nat /\ audit.receipts \in SUBSET Receipt
    BY <1>2, MemoryTyped DEF ReconcileWrites
  <2>2. reconciled' = reconciled
          \/ reconciled' = [records |-> audit.records, receipts |-> audit.receipts]
    BY <1>2 DEF ReconcileWrites
  <2>3. reconciled' \in [records: Nat, receipts: SUBSET Receipt] \union {None}
    BY <2>1, <2>2 DEF TypeOK
  <2>4. audit' \in AuditState
    BY <1>2 DEF ReconcileWrites, AuditState
  <2> QED
    BY <1>2, <2>3, <2>4, UntouchedTyped DEF ReconcileWrites, TypeOK, AuditTyped
<1> QED
  BY <1>1, <1>2 DEF AuditStep

(* Every step keeps the types. *)
LEMMA TypesKept ==
    ASSUME TypeOK, NamesFit, PlaceFits, [Next]_vars
    PROVE  TypeOK'
<1>1. CASE TimeStep
  <2>1. /\ UNCHANGED <<open, final, manifest, checkpoint, terminal, reconciled, writer,
                       scan, audit>>
        /\ old' \subseteq {"segment", "checkpoint"}
    BY <1>1 DEF TypeOK, TimeStep, SegmentAges, CheckpointAges
  <2> QED
    BY <2>1, UntouchedTyped, TypedInParts DEF FilesTyped
<1>2. CASE UNCHANGED vars
  <2>1. UNCHANGED <<open, final, manifest, checkpoint, terminal, reconciled, old, writer,
                    scan, audit>>
    BY <1>2 DEF vars
  <2> QED
    BY <2>1, UntouchedTyped, TypedInParts DEF FilesTyped
<1> QED
  BY <1>1, <1>2, WriterTypes, ScanTypes, AuditTypes DEF Next

(***************************************************************************)
(* Names.                                                                  *)
(***************************************************************************)
(* The numbers of the segments and of the frames. *)
LEMMA NumbersTyped ==
    ASSUME TypeOK
    PROVE  /\ writer.seg \in 0 .. MaxSegments /\ writer.seg \in Nat
           /\ writer.acked \in Nat /\ writer.n \in Nat
           /\ \A s \in Segments : s \in Nat /\ s >= 1
BY BoundsTyped DEF TypeOK, WriterState, Segments

(* A segment gets another name or other bytes. *)
LEMMA NamesAtOne ==
    ASSUME TypeOK, TypeOK', NamesFit, NEW s \in Segments, OthersKeep(s),
           ~(Exists(open, s) /\ Exists(final, s))',
           writer'.pc # "dead" =>
               /\ writer.pc # "dead"
               /\ writer'.seg >= writer.seg /\ s <= writer'.seg
    PROVE  NamesFit'
<1> SUFFICES ASSUME NEW t \in Segments
             PROVE  /\ ~(Exists(open, t) /\ Exists(final, t))'
                    /\ (t > writer'.seg /\ writer'.pc # "dead") =>
                         ~Exists(open, t)' /\ ~Exists(final, t)'
  BY DEF NamesFit, Segments
<1>1. writer.seg \in Nat /\ writer'.seg \in Nat /\ t \in Nat /\ s \in Nat
  <2>1. writer.seg \in Nat /\ t \in Nat /\ s \in Nat
    BY NumbersTyped
  <2>2. writer'.seg \in Nat
    BY BoundsTyped DEF TypeOK, WriterState
  <2> QED
    BY <2>1, <2>2
<1>2. CASE t = s
  BY <1>1, <1>2
<1>3. CASE t # s
  <2>1. open'[t] = open[t] /\ final'[t] = final[t]
    BY <1>3 DEF OthersKeep
  <2>2. Exists(open, t)' = Exists(open, t) /\ Exists(final, t)' = Exists(final, t)
    BY <2>1 DEF Exists, Absent
  <2>3. ~(Exists(open, t) /\ Exists(final, t))
    BY DEF NamesFit
  <2>4. ASSUME t > writer'.seg, writer'.pc # "dead"
        PROVE  ~Exists(open, t) /\ ~Exists(final, t)
    BY <1>1, <2>4 DEF NamesFit
  <2> QED
    BY <2>2, <2>3, <2>4
<1> QED
  BY <1>2, <1>3

(* No segment does. *)
LEMMA NamesUntouched ==
    ASSUME NamesFit, UNCHANGED <<open, final>>,
           writer'.pc # "dead" => writer.pc # "dead" /\ writer'.seg = writer.seg
    PROVE  NamesFit'
BY DEF NamesFit, Exists, Absent, Segments

(* The segment an append is for is the last one. *)
LEMMA AppendsLast ==
    ASSUME TypeOK, NamesFit, PlaceFits, NEW s \in Segments, Appending(s)
    PROVE  /\ writer.pc # "dead" /\ ~writer.failed /\ s >= writer.seg
           /\ \A t \in Segments : t > s => Bytes(t).recs = {}
<1>1. writer.pc # "dead" /\ ~writer.failed
  BY DEF Appending
<1>2. s >= writer.seg
  BY NumbersTyped DEF Appending
<1>3. ASSUME NEW t \in Segments, t > s PROVE Bytes(t).recs = {}
  <2>1. t > writer.seg
    BY <1>2, <1>3, NumbersTyped
  <2>2. ~Exists(open, t) /\ ~Exists(final, t)
    BY <1>1, <2>1 DEF NamesFit
  <2> QED
    BY <2>2 DEF Bytes, Empty
<1> QED
  BY <1>1, <1>2, <1>3

(* Every step keeps one name for a segment. *)
LEMMA NamesKept ==
    ASSUME TypeOK, TypeOK', NamesFit, PlaceFits, [Next]_vars
    PROVE  NamesFit'
<1>1. ASSUME NEW s \in Segments, NEW bytes \in Content, Appending(s),
             PutBytes(s, bytes),
             writer'.pc # "dead" => writer'.seg = s
      PROVE  NamesFit'
  <2>1. OthersKeep(s) /\ ~(Exists(open, s) /\ Exists(final, s))'
    BY <1>1, PutTyped DEF NamesFit
  <2>2. writer'.pc # "dead" => writer'.seg >= writer.seg /\ s <= writer'.seg
    BY <1>1, AppendsLast, NumbersTyped
  <2>3. writer.pc # "dead"
    BY <1>1 DEF Appending
  <2> QED
    BY <2>1, <2>2, <2>3, NamesAtOne
<1>2. ASSUME NEW s \in Segments, FrameKept(s) PROVE NamesFit'
  BY <1>1, <1>2, FrameKeptDoes
<1>3. ASSUME NEW s \in Segments, FrameRolledBack(s) PROVE NamesFit'
  BY <1>1, <1>3, FrameRolledBackDoes, BytesTyped
<1>4. ASSUME NEW s \in Segments, FrameTainted(s) PROVE NamesFit'
  <2> PICK bytes \in Leftovers(Bytes(s)) : PutBytes(s, bytes)
    BY <1>4, FrameTaintedDoes
  <2>1. Appending(s) /\ writer'.seg = s
    BY <1>4, FrameTaintedDoes
  <2>2. bytes \in Content
    BY <2>1, LeftoversTyped
  <2> QED
    BY <1>1, <2>1, <2>2
<1>5. ASSUME NEW s \in Segments, Seals(s) \/ (Exists(final, s) /\ Reopens(s)),
             writer'.pc # "dead" =>
                 writer.pc # "dead" /\ writer'.seg = writer.seg
      PROVE  NamesFit'
  <2>1. OthersKeep(s) /\ ~(Exists(open, s) /\ Exists(final, s))'
    BY <1>5, RenamesTyped
  <2>2. Exists(open, s) \/ Exists(final, s)
    BY <1>5 DEF Seals
  <2>3. writer.pc # "dead" => s <= writer.seg
    BY <2>2, NumbersTyped DEF NamesFit
  <2>4. writer.seg >= writer.seg
    BY NumbersTyped
  <2> QED
    BY <1>5, <2>1, <2>3, <2>4, NamesAtOne
<1>6. ASSUME NEW ending \in {"none", "complete", "interrupted", "failed"},
             writer.pc # "dead", writer.seg \in Segments,
             CloseAndRename([writer EXCEPT !.ending = ending])
      PROVE  NamesFit'
  <2>1. writer'.seg = writer.seg
        /\ (Seals(writer.seg) \/ UNCHANGED <<open, final>>)
    BY <1>6, ClosesDoes DEF KeepsCount
  <2> QED
    BY <1>5, <1>6, <2>1, NamesUntouched
<1>7. CASE Rotate
  BY <1>6, <1>7, RotateDoes DEF PlaceFits
<1>8. ASSUME NEW status \in {"complete", "interrupted", "failed"}, Finish(status)
      PROVE  NamesFit'
  <2> PICK ending \in {"complete", "interrupted", "failed"} :
         \/ writer.handle /\ CloseAndRename([writer EXCEPT !.ending = ending])
         \/ UNCHANGED <<open, final>> /\ KeepsCount
    BY <1>8, FinishDoes
  <2>1. writer.pc # "dead"
    BY <1>8, FinishDoes
  <2>2. CASE writer.handle /\ CloseAndRename([writer EXCEPT !.ending = ending])
    BY <1>6, <2>1, <2>2 DEF PlaceFits
  <2>3. CASE UNCHANGED <<open, final>> /\ KeepsCount
    BY <2>1, <2>3, NamesUntouched DEF KeepsCount
  <2> QED
    BY <2>2, <2>3
<1>9. CASE PublishSegment
  BY <1>9, PublishDoes, NamesUntouched DEF PublishSegment
<1>10. CASE PublishFails
  <2>1. /\ writer.pc = "renamed" /\ writer'.seg = writer.seg
        /\ Reopens(writer.seg) \/ UNCHANGED <<open, final>>
    BY <1>10, PublishFailsDoes DEF KeepsCount
  <2>2. writer.seg \in Segments /\ Exists(final, writer.seg)
    BY <2>1 DEF PlaceFits
  <2> QED
    BY <1>5, <2>1, <2>2, NamesUntouched
<1>11. CASE Checkpoint \/ TimeStep \/ AuditStep
  BY <1>11, NamesUntouched DEF Checkpoint, TimeStep, SegmentAges, CheckpointAges,
                               AuditStep, AuditInspects, ReconcileWrites
<1>12. CASE DropCheckpoint \/ EndRun
  <2>1. UNCHANGED <<open, final>>
    BY <1>12 DEF DropCheckpoint, EndRun
  <2>2. writer'.seg = writer.seg /\ writer.pc # "dead"
    BY <1>12, EndsDo DEF KeepsAll, KeepsCount, DropCheckpoint, EndRun
  <2> QED
    BY <2>1, <2>2, NamesUntouched
<1>13. CASE Die
  <2>1. writer'.pc = "dead"
    BY <1>13, DieDoes
  <2>2. CASE UNCHANGED <<open, final, old>>
    BY <2>1, <2>2, NamesUntouched
  <2>3. ASSUME NEW s \in Segments, Appending(s),
               NEW bytes \in Leftovers(Bytes(s)), PutBytes(s, bytes)
        PROVE  NamesFit'
    BY <1>1, <2>1, <2>3, LeftoversTyped
  <2> QED
    BY <1>13, <2>2, <2>3, DieDoes
<1>14. CASE ScanStep
  <2>1. UNCHANGED writer
    BY <1>14 DEF ScanStep, ScanLists, ScanExamines, ScanTakes, ScanPublishes, ScanDies
  <2>2. CASE ScanTakes
    <3>1. scan.seg \in Segments
      BY <2>2, MemoryTyped DEF ScanTakes
    <3>2. Seals(scan.seg) \/ UNCHANGED <<open, final>>
      BY <2>2 DEF ScanTakes, Seals
    <3> QED
      BY <1>5, <2>1, <3>1, <3>2, NamesUntouched
  <2>3. CASE ~ScanTakes
    <3>1. UNCHANGED <<open, final>>
      BY <1>14, <2>3 DEF ScanStep, ScanLists, ScanExamines, ScanPublishes, ScanDies
    <3> QED
      BY <2>1, <3>1, NamesUntouched
  <2> QED
    BY <2>2, <2>3
<1>15. CASE UNCHANGED vars
  BY <1>15, NamesUntouched DEF vars
<1> QED
  BY <1>2, <1>3, <1>4, <1>7, <1>8, <1>9, <1>10, <1>11, <1>12, <1>13, <1>14, <1>15
     DEF Next, WriterStep

(***************************************************************************)
(* Places.                                                                 *)
(***************************************************************************)
(* A writer without a handle that is between two steps of the end. *)
LEMMA PlaceLetGo ==
    ASSUME writer'.handle = FALSE,
           writer'.pc = "renamed" =>
               writer'.seg \in Segments /\ final'[writer'.seg] # Absent,
           writer'.pc \in {"closing", "unlinked"} => writer'.ending # "none",
           IsFiniteSet(writer'.sealed)
    PROVE  PlaceFits'
BY DEF PlaceFits, Segments, Exists, Absent

(* A seal lets go of the handle. *)
LEMMA PlaceAfterClose ==
    ASSUME TypeOK, PlaceFits, writer.seg \in Segments,
           NEW ending \in {"none", "complete", "interrupted", "failed"},
           CloseAndRename([writer EXCEPT !.ending = ending]),
           ending = "none" => writer.n > 0
    PROVE  PlaceFits'
<1>1. writer'.handle = FALSE /\ KeepsCount
  BY ClosesDoes DEF Spoils
<1>2. writer'.pc = "renamed" => Seals(writer.seg)
  BY ClosesDoes DEF Spoils
<1>3. writer'.pc \in {"closing", "unlinked"} => writer'.ending # "none"
  <2>1. ~(ending = "none" /\ writer.n = 0)
    BY NumbersTyped
  <2> QED
    BY <2>1, ClosesDoes DEF Spoils
<1>4. Seals(writer.seg) => final'[writer.seg] # Absent
  BY DEF TypeOK, Seals, Exists
<1> QED
  BY <1>1, <1>2, <1>3, <1>4, PlaceLetGo DEF PlaceFits, KeepsCount

(* Every step keeps the places of the writer. *)
LEMMA PlacesKept ==
    ASSUME TypeOK, PlaceFits, [Next]_vars
    PROVE  PlaceFits'
<1>1. ASSUME NEW s \in Segments,
             FrameKept(s) \/ FrameRolledBack(s) \/ FrameTainted(s)
      PROVE  PlaceFits'
  <2>1. /\ writer'.pc = "run" /\ writer'.seg = s /\ KeepsRun /\ Appending(s)
    BY <1>1, FrameKeptDoes, FrameRolledBackDoes, FrameTaintedDoes
  <2> QED
    BY <2>1 DEF PlaceFits, KeepsRun, Appending, Segments
<1>2. CASE Rotate
  BY <1>2, RotateDoes, PlaceAfterClose DEF PlaceFits
<1>3. ASSUME NEW status \in {"complete", "interrupted", "failed"}, Finish(status)
      PROVE  PlaceFits'
  <2> PICK ending \in {"complete", "interrupted", "failed"} :
         \/ writer.handle /\ CloseAndRename([writer EXCEPT !.ending = ending])
         \/ /\ KeepsCount /\ writer'.pc = "closing" /\ writer'.ending = ending
            /\ writer'.handle = FALSE
    BY <1>3, FinishDoes
  <2>1. CASE writer.handle /\ CloseAndRename([writer EXCEPT !.ending = ending])
    BY <2>1, PlaceAfterClose DEF PlaceFits
  <2>2. CASE /\ KeepsCount /\ writer'.pc = "closing" /\ writer'.ending = ending
             /\ writer'.handle = FALSE
    BY <2>2, PlaceLetGo DEF KeepsCount, PlaceFits
  <2> QED
    BY <2>1, <2>2
<1>4. CASE PublishSegment
  <2>1. writer.handle = FALSE
    BY <1>4, PublishDoes DEF TypeOK, WriterState, PlaceFits
  <2>2. IsFiniteSet(writer'.sealed)
    BY <1>4, PublishDoes, FS_AddElement DEF PlaceFits
  <2>3. /\ writer'.pc # "renamed"
        /\ writer'.pc \in {"closing", "unlinked"} => writer'.ending # "none"
    BY <1>4, PublishDoes
  <2> QED
    BY <1>4, <2>1, <2>2, <2>3, PublishDoes, PlaceLetGo
<1>5. CASE PublishFails
  BY <1>5, PublishFailsDoes, PlaceLetGo DEF Spoils, KeepsCount, PlaceFits
<1>6. CASE DropCheckpoint \/ EndRun
  <2>1. writer.handle = FALSE
    BY <1>6, EndsDo DEF TypeOK, WriterState, PlaceFits
  <2>2. /\ writer'.handle = writer.handle /\ KeepsAll
        /\ writer'.pc # "renamed"
        /\ writer'.pc \in {"closing", "unlinked"} => writer.pc = "closing"
    BY <1>6, EndsDo
  <2> QED
    BY <2>1, <2>2, PlaceLetGo DEF KeepsAll, KeepsCount, PlaceFits
<1>7. CASE Die
  BY <1>7, DieDoes, PlaceLetGo DEF KeepsAll, KeepsCount, PlaceFits
<1>8. ASSUME UNCHANGED writer,
             \A s \in Segments : Exists(final, s) => Exists(final, s)'
      PROVE  PlaceFits'
  BY <1>8 DEF PlaceFits, Segments, Exists, Absent
<1>9. CASE ScanStep
  <2>1. UNCHANGED writer
    BY <1>9 DEF ScanStep, ScanLists, ScanExamines, ScanTakes, ScanPublishes, ScanDies
  <2>2. CASE ScanTakes
    <3>1. \/ Seals(scan.seg)
          \/ UNCHANGED <<open, final>>
      BY <2>2 DEF ScanTakes, Seals
    <3>2. \A s \in Segments : Exists(final, s) => Exists(final, s)'
      BY <3>1 DEF TypeOK, Seals, Exists, Absent
    <3> QED
      BY <1>8, <2>1, <3>2
  <2>3. CASE ~ScanTakes
    <3>1. UNCHANGED final
      BY <1>9, <2>3 DEF ScanStep, ScanLists, ScanExamines, ScanPublishes, ScanDies
    <3> QED
      BY <1>8, <2>1, <3>1 DEF Exists, Absent
  <2> QED
    BY <2>2, <2>3
<1>10. CASE Checkpoint \/ TimeStep \/ AuditStep \/ UNCHANGED vars
  <2>1. UNCHANGED <<final, writer>>
    BY <1>10 DEF Checkpoint, TimeStep, SegmentAges, CheckpointAges, AuditStep,
                 AuditInspects, ReconcileWrites, vars
  <2> QED
    BY <1>8, <2>1 DEF Exists, Absent
<1> QED
  BY <1>1, <1>2, <1>3, <1>4, <1>5, <1>6, <1>7, <1>9, <1>10 DEF Next, WriterStep

(***************************************************************************)
(* Frames.                                                                 *)
(***************************************************************************)
(* Nothing happens to the bytes, and the writer acknowledges nothing. *)
LEMMA FramesStay ==
    ASSUME FramesFit, \A t \in Segments : Bytes(t)' = Bytes(t),
           writer'.acked = writer.acked,
           (~writer'.failed /\ writer'.pc # "dead") =>
               (~writer.failed /\ writer.pc # "dead")
    PROVE  FramesFit'
<1>1. Segments' = Segments
  BY DEF Segments
<1>2. \A k \in 1 .. writer'.acked : \E s \in Segments : k \in Bytes(s)'.recs
  BY DEF FramesFit
<1>3. \A s, t \in Segments : \A j \in Bytes(s)'.recs, k \in Bytes(t)'.recs :
          s < t => j < k
  BY DEF FramesFit
<1>4. \A s \in Segments : Bytes(s)'.recs \subseteq 1 .. writer'.acked + 1
  BY DEF FramesFit
<1>5. ASSUME ~writer'.failed, writer'.pc # "dead"
      PROVE  \A s \in Segments : Bytes(s)'.recs \subseteq 1 .. writer'.acked
  BY <1>5 DEF FramesFit
<1> QED
  BY <1>1, <1>2, <1>3, <1>4, <1>5 DEF FramesFit

(* An append adds the next frame to the last segment, or none. *)
LEMMA FramesPut ==
    ASSUME TypeOK, NamesFit, PlaceFits, FramesFit, NEW s \in Segments, Appending(s),
           NEW bytes \in Content,
           Bytes(s).recs \subseteq bytes.recs,
           bytes.recs \subseteq Bytes(s).recs \union {writer.acked + 1},
           OthersKeep(s), Bytes(s)' = bytes,
           \/ writer'.acked = writer.acked
           \/ writer'.acked = writer.acked + 1 /\ writer.acked + 1 \in bytes.recs,
           (~writer'.failed /\ writer'.pc # "dead") =>
               writer'.acked = writer.acked + 1
    PROVE  FramesFit'
<1> DEFINE next == writer.acked + 1
<1>1. /\ writer.acked \in Nat /\ next \in Nat
      /\ \A t \in Segments : t \in Nat
  BY NumbersTyped
<1>2. \A t \in Segments \ {s} : Bytes(t)' = Bytes(t)
  BY DEF OthersKeep, Bytes, Exists, Absent, Empty
<1>3. \A t \in Segments : Bytes(t).recs \subseteq 1 .. writer.acked
  BY DEF FramesFit, Appending
<1>4. \A t \in Segments : t > s => Bytes(t).recs = {}
  BY AppendsLast
<1>5. \A t \in Segments : Bytes(t).recs \subseteq Bytes(t)'.recs
  BY <1>2
<1>6. \A k \in 1 .. writer'.acked : \E t \in Segments : k \in Bytes(t)'.recs
  <2> SUFFICES ASSUME NEW k \in 1 .. writer'.acked
               PROVE  \E t \in Segments : k \in Bytes(t)'.recs
    OBVIOUS
  <2>1. CASE k \in 1 .. writer.acked
    <3>1. PICK t \in Segments : k \in Bytes(t).recs
      BY <2>1 DEF FramesFit
    <3> QED
      BY <1>5, <3>1
  <2>2. CASE k \notin 1 .. writer.acked
    <3>1. k = next /\ next \in bytes.recs
      BY <1>1, <2>2
    <3> QED
      BY <3>1
  <2> QED
    BY <2>1, <2>2
<1>7. ASSUME NEW a \in Segments, NEW b \in Segments,
             NEW j \in Bytes(a)'.recs, NEW k \in Bytes(b)'.recs, a < b
      PROVE  j < k
  <2>1. a # s
    <3>1. ASSUME a = s PROVE FALSE
      <4>1. b # s /\ b > s
        BY <1>1, <1>7, <3>1
      <4>2. Bytes(b)'.recs = {}
        BY <1>2, <1>4, <4>1
      <4> QED
        BY <4>2
    <3> QED
      BY <3>1
  <2>2. j \in Bytes(a).recs
    BY <1>2, <2>1
  <2>3. CASE k \in Bytes(b).recs
    BY <1>7, <2>2, <2>3 DEF FramesFit
  <2>4. CASE k \notin Bytes(b).recs
    <3>1. k = next
      BY <1>2, <2>4
    <3>2. j \in 1 .. writer.acked
      BY <1>3, <2>2
    <3> QED
      BY <1>1, <3>1, <3>2
  <2> QED
    BY <2>3, <2>4
<1>8. \A t \in Segments : Bytes(t)'.recs \subseteq 1 .. next
  <2>1. 1 .. writer.acked \subseteq 1 .. next /\ next \in 1 .. next
    BY <1>1
  <2> QED
    BY <1>2, <1>3, <2>1
<1>9. Segments' = Segments
  BY DEF Segments
<1>10. \A t \in Segments : Bytes(t)'.recs \subseteq 1 .. writer'.acked + 1
  <2>1. 1 .. next \subseteq 1 .. writer'.acked + 1
    BY <1>1
  <2> QED
    BY <1>8, <2>1
<1>11. (~writer'.failed /\ writer'.pc # "dead") =>
          \A t \in Segments : Bytes(t)'.recs \subseteq 1 .. writer'.acked
  BY <1>8
<1> HIDE DEF next
<1> QED
  BY <1>6, <1>7, <1>9, <1>10, <1>11 DEF FramesFit

(* Every step keeps the frames that were acknowledged, in their order. *)
LEMMA FramesKept ==
    ASSUME TypeOK, NamesFit, PlaceFits, FramesFit, [Next]_vars
    PROVE  FramesFit'
<1>1. ASSUME NEW s \in Segments, FrameKept(s) PROVE FramesFit'
  <2> DEFINE bytes == [recs |-> Bytes(s).recs \union {writer.acked + 1},
                       torn |-> FALSE]
  <2>1. /\ bytes \in Content /\ PutBytes(s, bytes) /\ Appending(s)
        /\ writer'.acked = writer.acked + 1
    BY <1>1, FrameKeptDoes
  <2>2. bytes.recs = Bytes(s).recs \union {writer.acked + 1}
    OBVIOUS
  <2> HIDE DEF bytes
  <2>3. OthersKeep(s) /\ Bytes(s)' = bytes
    BY <2>1, PutTyped
  <2> QED
    BY <2>1, <2>2, <2>3, FramesPut
<1>2. ASSUME NEW s \in Segments, FrameRolledBack(s) PROVE FramesFit'
  <2>1. /\ Bytes(s) \in Content /\ PutBytes(s, Bytes(s))
        /\ writer'.acked = writer.acked /\ writer'.failed
    BY <1>2, FrameRolledBackDoes, BytesTyped
  <2>2. OthersKeep(s) /\ Bytes(s)' = Bytes(s)
    BY <2>1, PutTyped
  <2>3. \A t \in Segments : Bytes(t)' = Bytes(t)
    BY <2>2 DEF OthersKeep, Bytes, Exists, Absent, Empty
  <2> QED
    BY <2>1, <2>3, FramesStay
<1>3. ASSUME NEW s \in Segments, Appending(s), NEW bytes \in Leftovers(Bytes(s)),
             PutBytes(s, bytes), writer'.acked = writer.acked,
             writer'.failed \/ writer'.pc = "dead"
      PROVE  FramesFit'
  <2>1. /\ bytes \in Content
        /\ Bytes(s).recs \subseteq bytes.recs
        /\ bytes.recs \subseteq Bytes(s).recs \union {writer.acked + 1}
    BY <1>3, LeftoversTyped
  <2>2. OthersKeep(s) /\ Bytes(s)' = bytes
    BY <1>3, <2>1, PutTyped
  <2> QED
    BY <1>3, <2>1, <2>2, FramesPut
<1>4. ASSUME NEW s \in Segments, FrameTainted(s) PROVE FramesFit'
  BY <1>3, <1>4, FrameTaintedDoes
<1>5. ASSUME UNCHANGED <<open, final>>, writer'.acked = writer.acked,
             (~writer'.failed /\ writer'.pc # "dead") =>
                 (~writer.failed /\ writer.pc # "dead")
      PROVE  FramesFit'
  <2>1. \A t \in Segments : Bytes(t)' = Bytes(t)
    BY <1>5 DEF Bytes, Exists, Absent, Empty
  <2> QED
    BY <1>5, <2>1, FramesStay
<1>6. ASSUME NEW s \in Segments, Seals(s) \/ (Exists(final, s) /\ Reopens(s)),
             writer'.acked = writer.acked,
             (~writer'.failed /\ writer'.pc # "dead") =>
                 (~writer.failed /\ writer.pc # "dead")
      PROVE  FramesFit'
  BY <1>6, RenamesTyped, FramesStay
<1>7. ASSUME NEW ending \in {"none", "complete", "interrupted", "failed"},
             writer.seg \in Segments, writer.pc # "dead",
             CloseAndRename([writer EXCEPT !.ending = ending])
      PROVE  FramesFit'
  <2>1. /\ Seals(writer.seg) \/ UNCHANGED <<open, final>>
        /\ writer'.acked = writer.acked
        /\ ~writer'.failed => ~writer.failed
    BY <1>7, ClosesDoes DEF KeepsCount, Spoils
  <2> QED
    BY <1>5, <1>6, <1>7, <2>1
<1>8. CASE Rotate
  BY <1>7, <1>8, RotateDoes DEF PlaceFits
<1>9. ASSUME NEW status \in {"complete", "interrupted", "failed"}, Finish(status)
      PROVE  FramesFit'
  <2> PICK ending \in {"complete", "interrupted", "failed"} :
         \/ writer.handle /\ CloseAndRename([writer EXCEPT !.ending = ending])
         \/ /\ UNCHANGED <<open, final>> /\ KeepsCount
            /\ writer'.failed = writer.failed
    BY <1>9, FinishDoes
  <2>1. writer.pc # "dead"
    BY <1>9, FinishDoes
  <2>2. CASE writer.handle /\ CloseAndRename([writer EXCEPT !.ending = ending])
    BY <1>7, <2>1, <2>2 DEF PlaceFits
  <2>3. CASE /\ UNCHANGED <<open, final>> /\ KeepsCount
             /\ writer'.failed = writer.failed
    BY <1>5, <2>1, <2>3 DEF KeepsCount
  <2> QED
    BY <2>2, <2>3
<1>10. CASE PublishSegment
  BY <1>5, <1>10, PublishDoes DEF PublishSegment
<1>11. CASE PublishFails
  <2>1. /\ writer.pc = "renamed" /\ writer'.acked = writer.acked /\ writer'.failed
        /\ Reopens(writer.seg) \/ UNCHANGED <<open, final>>
    BY <1>11, PublishFailsDoes DEF KeepsCount, Spoils
  <2>2. writer.seg \in Segments /\ Exists(final, writer.seg)
    BY <2>1 DEF PlaceFits
  <2> QED
    BY <1>5, <1>6, <2>1, <2>2
<1>12. CASE DropCheckpoint \/ EndRun
  <2>1. UNCHANGED <<open, final>>
    BY <1>12 DEF DropCheckpoint, EndRun
  <2>2. /\ writer'.acked = writer.acked /\ writer'.failed = writer.failed
        /\ writer.pc # "dead"
    BY <1>12, EndsDo DEF KeepsAll, KeepsCount, DropCheckpoint, EndRun
  <2> QED
    BY <1>5, <2>1, <2>2
<1>13. CASE Die
  <2>1. writer'.acked = writer.acked /\ writer'.pc = "dead"
    BY <1>13, DieDoes DEF KeepsAll, KeepsCount
  <2> QED
    BY <1>3, <1>5, <1>13, <2>1, DieDoes
<1>14. CASE ScanTakes
  <2>1. scan.seg \in Segments /\ UNCHANGED writer
    BY <1>14, MemoryTyped DEF ScanTakes
  <2>2. Seals(scan.seg) \/ UNCHANGED <<open, final>>
    BY <1>14 DEF ScanTakes, Seals
  <2> QED
    BY <1>5, <1>6, <2>1, <2>2
<1>15. CASE Checkpoint \/ TimeStep \/ AuditStep \/ UNCHANGED vars
            \/ (ScanStep /\ ~ScanTakes)
  <2>1. UNCHANGED <<open, final, writer>>
    BY <1>15 DEF Checkpoint, TimeStep, SegmentAges, CheckpointAges, AuditStep,
                 AuditInspects, ReconcileWrites, vars, ScanStep, ScanLists,
                 ScanExamines, ScanPublishes, ScanDies
  <2> QED
    BY <1>5, <2>1
<1> QED
  BY <1>1, <1>2, <1>4, <1>8, <1>9, <1>10, <1>11, <1>12, <1>13, <1>14, <1>15
     DEF Next, WriterStep, ScanStep

(* Before the run there is no file. *)
LEMMA FramesAtFirst ==
    ASSUME Init
    PROVE  FramesInvariant
<1>1. TypeOK
  BY BoundsTyped DEF Init, TypeOK, FileContent, WriterState, InitWriter, ScanState,
                     AuditState
<1>2. \A s \in Segments : ~Exists(open, s) /\ ~Exists(final, s)
  BY DEF Init, Exists
<1>3. writer.pc = "run" /\ writer.handle = FALSE /\ writer.acked = 0
      /\ writer.sealed = {}
  BY DEF Init, InitWriter
<1>4. NamesFit
  BY <1>2 DEF NamesFit
<1>5. PlaceFits
  BY <1>3, FS_EmptySet DEF PlaceFits
<1>6. \A s \in Segments : Bytes(s).recs = {}
  BY <1>2 DEF Bytes, Empty
<1>7. FramesFit
  BY <1>3, <1>6 DEF FramesFit
<1> QED
  BY <1>1, <1>4, <1>5, <1>7 DEF FramesInvariant

(* Every step keeps the invariant of the frames. *)
LEMMA FramesAfterNext ==
    ASSUME FramesInvariant, [Next]_vars
    PROVE  FramesInvariant'
BY TypesKept, NamesKept, PlacesKept, FramesKept DEF FramesInvariant

(* The invariant of the frames, with a writer that pauses or without. *)
THEOREM FramesInductive == Spec => []FramesInvariant
<1>1. Init => FramesInvariant
  BY FramesAtFirst
<1>2. FramesInvariant /\ [Next]_vars => FramesInvariant'
  BY FramesAfterNext
<1> QED
  BY <1>1, <1>2, PTL DEF Spec

(* The types of the files and of all that works on them. *)
THEOREM RunTyped == Spec => []TypeOK
<1>1. FramesInvariant => TypeOK
  BY DEF FramesInvariant
<1> QED
  BY <1>1, FramesInductive, PTL

(* A frame whose write_frame returned stays on disk, in one segment and in *)
(* the order it came, through every error of the disk, every death and     *)
(* every recovery, even when a recovery takes a live writer for a dead one *)
THEOREM FramesAreKept == Spec => []AcknowledgedIsKept
<1>1. FramesInvariant => AcknowledgedIsKept
  <2> SUFFICES ASSUME FramesInvariant PROVE AcknowledgedIsKept
    OBVIOUS
  <2>1. TypeOK /\ FramesFit
    BY DEF FramesInvariant
  <2>2. ASSUME NEW k \in 1 .. writer.acked
        PROVE  Cardinality({s \in Segments: k \in Bytes(s).recs}) = 1
    <3>1. PICK s \in Segments : k \in Bytes(s).recs
      BY <2>1, <2>2 DEF FramesFit
    <3>2. ASSUME NEW t \in Segments, k \in Bytes(t).recs PROVE t = s
      <4>1. k < k \/ t = s
        BY <2>1, <3>1, <3>2, NumbersTyped DEF FramesFit
      <4>2. writer.acked \in Nat
        BY <2>1, NumbersTyped
      <4> QED
        BY <2>2, <4>1, <4>2
    <3>3. {t \in Segments: k \in Bytes(t).recs} = {s}
      BY <3>1, <3>2
    <3> QED
      BY <3>3, FS_Singleton
  <2> QED
    BY <2>1, <2>2 DEF FramesFit, AcknowledgedIsKept
<1> QED
  BY <1>1, FramesInductive, PTL

(***************************************************************************)
(* Manifests.  From here on a writer that lives renews its checkpoint.     *)
(* The parts of ClaimsInvariant beyond the frames, after a step.           *)
(***************************************************************************)
ClaimsKept ==
    /\ FilesFit'
    /\ HandleFits'
    /\ RenamedFits'
    /\ SealsFit'
    /\ TerminalFits'
    /\ AgesFit'
    /\ ScanFits'
    /\ AuditFits'
    /\ ManifestIsTrue'
    /\ ReconciledIsLast'

(* An append is to the file with the open name, new or the writer's own. *)
LEMMA AppendsOpen ==
    ASSUME ClaimsInvariant, NEW s \in Segments, Appending(s)
    PROVE  /\ ~Exists(final, s)
           /\ writer.handle => s = writer.seg /\ Bytes(s) = open[s] /\ Exists(open, s)
           /\ ~writer.handle => s = writer.seg + 1 /\ Bytes(s) = Empty
           /\ \A bytes : PutBytes(s, bytes) =>
                open' = [open EXCEPT ![s] = bytes] /\ UNCHANGED final
<1>1. TypeOK /\ NamesFit /\ HandleFits
  BY DEF ClaimsInvariant, FramesInvariant
<1>2. CASE writer.handle
  <2>1. s = writer.seg /\ Exists(open, s)
    BY <1>1, <1>2 DEF Appending, HandleFits
  <2>2. ~Exists(final, s)
    BY <1>1, <2>1 DEF NamesFit
  <2> QED
    BY <1>2, <2>1, <2>2 DEF Bytes, PutBytes
<1>3. CASE ~writer.handle
  <2>1. s = writer.seg + 1 /\ writer.pc # "dead"
    BY <1>3 DEF Appending
  <2>2. s > writer.seg
    BY <1>1, <2>1, NumbersTyped
  <2>3. ~Exists(open, s) /\ ~Exists(final, s)
    BY <1>1, <2>1, <2>2 DEF NamesFit
  <2> QED
    BY <1>3, <2>1, <2>3 DEF Bytes, PutBytes
<1> QED
  BY <1>2, <1>3

(* Files and manifests that do not change go on fitting each other. *)
LEMMA FilesStay ==
    ASSUME ClaimsInvariant, UNCHANGED <<final, manifest>>
    PROVE  /\ FilesFit'
           /\ (\A k \in 1 .. writer.acked : k \in 1 .. writer'.acked) => ManifestIsTrue'
           /\ \A s \in Segments : Published(s)' = Published(s)
           /\ writer'.sealed = writer.sealed => \A s : SealedBy(s)' = SealedBy(s)
<1>1. FilesFit'
  BY DEF ClaimsInvariant, FilesFit, Exists, Published, Segments, Absent, None
<1>2. ASSUME \A k \in 1 .. writer.acked : k \in 1 .. writer'.acked
      PROVE  ManifestIsTrue'
  BY <1>2 DEF ClaimsInvariant, ManifestIsTrue, Published, Segments, None
<1> QED
  BY <1>1, <1>2 DEF Published, None, SealedBy

(* While the writer is at work no recovery is past its examination, and    *)
(* nothing has been said about the run as a whole.                         *)
LEMMA BusyWriter ==
    ASSUME ClaimsInvariant, ~Quiet, UNCHANGED <<terminal, reconciled, scan, audit>>
    PROVE  /\ scan.pc \notin {"read", "taken"} /\ "checkpoint" \notin old
           /\ terminal = None /\ reconciled = None
           /\ ScanFits' /\ AuditFits' /\ ReconciledIsLast'
           /\ writer'.pc \notin {"unlinked", "done"} => TerminalFits'
           /\ (old' \subseteq old /\ checkpoint' = checkpoint) => AgesFit'
<1>1. scan.pc \notin {"read", "taken"}
  BY DEF ClaimsInvariant, ScanFits
<1>2. writer.pc # "dead" /\ writer.pc # "done" /\ ~Over
  BY DEF Quiet, Over
<1>3. "checkpoint" \notin old
  BY <1>2 DEF ClaimsInvariant, AgesFit
<1>4. audit.pc # "inspected" /\ reconciled = None /\ terminal = None
  BY <1>2 DEF ClaimsInvariant, AuditFits, ReconciledIsLast, TerminalFits
<1>5. ScanFits' /\ AuditFits' /\ ReconciledIsLast'
  BY <1>1, <1>4 DEF ScanFits, AuditFits, ReconciledIsLast, None
<1>6. writer'.pc \notin {"unlinked", "done"} => TerminalFits'
  BY <1>4 DEF TerminalFits, None
<1>7. ASSUME old' \subseteq old, checkpoint' = checkpoint PROVE AgesFit'
  <2>1. ~("segment" \in old /\ checkpoint = None)
    BY DEF ClaimsInvariant, AgesFit
  <2> QED
    BY <1>3, <1>7, <2>1 DEF AgesFit, None
<1> QED
  BY <1>1, <1>3, <1>4, <1>5, <1>6, <1>7

(* An append touches no file that has a manifest, and nothing that is said *)
(* about the run.                                                          *)
LEMMA AppendKeeps ==
    ASSUME ClaimsInvariant, NEW s \in Segments, Appending(s),
           \E bytes : PutBytes(s, bytes),
           UNCHANGED <<manifest, checkpoint, terminal, reconciled, scan, audit>>,
           old' \subseteq old, writer'.pc \in {"run", "dead"},
           writer'.acked = writer.acked \/ writer'.acked = writer.acked + 1,
           writer'.sealed = writer.sealed
    PROVE  /\ FilesFit' /\ ManifestIsTrue' /\ RenamedFits' /\ TerminalFits' /\ AgesFit'
           /\ ScanFits' /\ AuditFits' /\ ReconciledIsLast'
           /\ \A t : SealedBy(t)' = SealedBy(t)
           /\ UNCHANGED <<final, manifest>>
<1>1. UNCHANGED final
  BY AppendsOpen
<1>2. ~Quiet
  BY DEF Quiet, Appending
<1>3. \A k \in 1 .. writer.acked : k \in 1 .. writer'.acked
  BY NumbersTyped DEF ClaimsInvariant, FramesInvariant
<1>4. RenamedFits'
  BY DEF RenamedFits
<1> QED
  BY <1>1, <1>2, <1>3, <1>4, FilesStay, BusyWriter

(* The writer that appends has sealed every segment but its own. *)
LEMMA AppendsAfterSeals ==
    ASSUME ClaimsInvariant, NEW s \in Segments, Appending(s)
    PROVE  \A t \in 1 .. s : t = s \/ SealedBy(t)
<1>1. /\ writer.pc \in {"run", "rotated"} /\ ~writer.failed
      /\ s = IF writer.handle THEN writer.seg ELSE writer.seg + 1
  BY DEF Appending
<1>2. writer.seg \in Nat
  BY NumbersTyped DEF ClaimsInvariant, FramesInvariant
<1>3. \A t \in 1 .. writer.seg : SealedBy(t) \/ (t = writer.seg /\ writer.handle)
  BY <1>1 DEF ClaimsInvariant, SealsFit
<1>4. ASSUME NEW t \in 1 .. s, t # s PROVE SealedBy(t)
  <2>1. CASE writer.handle
    <3>1. t \in 1 .. writer.seg /\ t # writer.seg
      BY <1>1, <1>4, <2>1
    <3> QED
      BY <1>3, <3>1
  <2>2. CASE ~writer.handle
    <3>1. t \in 1 .. writer.seg
      BY <1>1, <1>2, <1>4, <2>2
    <3> QED
      BY <1>3, <2>2, <3>1
  <2> QED
    BY <2>1, <2>2
<1> QED
  BY <1>4

(* What a writer with the claim on its seals says after a step that leaves *)
(* the manifests and the receipts.                                         *)
LEMMA SealsStay ==
    ASSUME ClaimsInvariant, UNCHANGED manifest, writer'.sealed = writer.sealed,
           writer'.ending = "complete" => ~writer'.failed,
           (~writer'.failed /\ writer'.pc # "dead") =>
              \A t \in 1 .. writer'.seg :
                 SealedBy(t)' \/ (t = writer'.seg
                                   /\ (writer'.handle \/ writer'.pc = "renamed"))
    PROVE  SealsFit'
<1>1. \A r \in writer'.sealed : Published(r.seg)' /\ manifest'[r.seg].bytes = r.bytes
  BY DEF ClaimsInvariant, SealsFit, Published, None
<1> QED
  BY <1>1 DEF SealsFit, SealedBy, Published

(* One frame more is one record more. *)
LEMMA OneMore ==
    ASSUME NEW R \in SUBSET Records, NEW k, k \notin R
    PROVE  Cardinality(R \union {k}) = Cardinality(R) + 1
BY RecordsFinite, FS_AddElement

(* A frame that was kept. *)
LEMMA KeptClaims ==
    ASSUME ClaimsInvariant, NEW s \in Segments, FrameKept(s)
    PROVE  ClaimsKept
<1> DEFINE k == writer.acked + 1
           bytes == [recs |-> Bytes(s).recs \union {k}, torn |-> FALSE]
<1>1. TypeOK /\ HandleFits /\ FramesFit /\ Appending(s)
  BY DEF ClaimsInvariant, FramesInvariant, FrameKept
<1>2. /\ PutBytes(s, bytes) /\ bytes \in Content
      /\ writer'.pc = "run" /\ writer'.seg = s /\ writer'.handle = TRUE
      /\ writer'.acked = writer.acked + 1
      /\ writer'.n = IF writer.handle THEN writer.n + 1 ELSE 1
      /\ writer'.failed = writer.failed /\ writer'.tainted = writer.tainted
      /\ writer'.sealed = writer.sealed /\ writer'.ending = writer.ending
  BY <1>1, FrameKeptDoes DEF KeepsRun
<1>3. /\ UNCHANGED <<manifest, checkpoint, terminal, reconciled, scan, audit>>
      /\ old' \subseteq old
  BY DEF FrameKept
<1>4. /\ writer.pc # "dead" /\ ~writer.failed /\ writer.ending = "none"
      /\ ~writer.tainted
  BY <1>1 DEF Appending, HandleFits
<1>5. writer'.n = Cardinality(bytes.recs) /\ writer'.n > 0
  <2>1. k \notin Bytes(s).recs /\ Bytes(s).recs \in SUBSET Records
    <3>1. Bytes(s).recs \subseteq 1 .. writer.acked
      BY <1>1, <1>4 DEF FramesFit
    <3>2. k \notin 1 .. writer.acked
      BY <1>1, NumbersTyped
    <3> QED
      BY <1>1, <3>1, <3>2, BytesTyped
  <2>2. Cardinality(bytes.recs) = Cardinality(Bytes(s).recs) + 1
    BY <2>1, OneMore
  <2>3. Cardinality(Bytes(s).recs) = IF writer.handle THEN writer.n ELSE 0
    <3>1. CASE writer.handle
      <4>1. Bytes(s) = open[writer.seg]
        BY <1>1, <3>1, AppendsOpen
      <4> QED
        BY <1>1, <1>4, <3>1, <4>1 DEF HandleFits
    <3>2. CASE ~writer.handle
      BY <1>1, <3>2, AppendsOpen, FS_EmptySet DEF Empty
    <3> QED
      BY <3>1, <3>2
  <2> QED
    BY <1>1, <1>2, <2>2, <2>3, NumbersTyped
<1>6. bytes.torn = FALSE
  OBVIOUS
<1> HIDE DEF bytes, k
<1>7. open'[s] = bytes /\ open'[s] # Absent
  BY <1>1, <1>2, AppendsOpen, MarksApart DEF TypeOK
<1>8. HandleFits'
  BY <1>2, <1>4, <1>5, <1>6, <1>7 DEF HandleFits, Exists, Absent
<1>9. /\ FilesFit' /\ ManifestIsTrue' /\ RenamedFits' /\ TerminalFits' /\ AgesFit'
      /\ ScanFits' /\ AuditFits' /\ ReconciledIsLast'
      /\ \A t : SealedBy(t)' = SealedBy(t)
  BY <1>1, <1>2, <1>3, AppendKeeps
<1>10. SealsFit'
  BY <1>1, <1>2, <1>3, <1>4, <1>9, AppendsAfterSeals, SealsStay
<1> QED
  BY <1>8, <1>9, <1>10 DEF ClaimsKept

(* A frame that failed, cut back or not: the writer has failed. *)
LEMMA FailedClaims ==
    ASSUME ClaimsInvariant, NEW s \in Segments,
           FrameRolledBack(s) \/ FrameTainted(s)
    PROVE  ClaimsKept
<1>1. TypeOK /\ HandleFits /\ FramesFit
  BY DEF ClaimsInvariant, FramesInvariant
<1>2. /\ UNCHANGED <<manifest, checkpoint, terminal, reconciled, scan, audit>>
      /\ old' \subseteq old /\ Appending(s)
  BY DEF FrameRolledBack, FrameTainted
<1>3. /\ writer'.pc = "run" /\ writer'.seg = s /\ writer'.handle = TRUE
      /\ writer'.acked = writer.acked /\ writer'.failed = TRUE
      /\ writer'.sealed = writer.sealed /\ writer'.ending = writer.ending
      /\ \E bytes \in Content : PutBytes(s, bytes)
  BY <1>1, <1>2, FrameRolledBackDoes, FrameTaintedDoes, BytesTyped, LeftoversTyped
     DEF KeepsRun
<1>4. /\ FilesFit' /\ ManifestIsTrue' /\ RenamedFits' /\ TerminalFits' /\ AgesFit'
      /\ ScanFits' /\ AuditFits' /\ ReconciledIsLast'
  BY <1>2, <1>3, AppendKeeps
<1>5. SealsFit'
  BY <1>2, <1>3, SealsStay DEF Appending
<1>6. PICK bytes \in Content : PutBytes(s, bytes)
  BY <1>3
<1>7. open'[s] # Absent
  BY <1>1, <1>2, <1>6, AppendsOpen, MarksApart DEF TypeOK
<1>8. CASE FrameTainted(s)
  <2>1. writer'.tainted = TRUE
    BY <1>1, <1>8, FrameTaintedDoes
  <2>2. HandleFits'
    BY <1>3, <1>7, <2>1 DEF HandleFits, Exists, Absent
  <2> QED
    BY <1>4, <1>5, <2>2 DEF ClaimsKept
<1>9. CASE FrameRolledBack(s)
  <2>1. /\ PutBytes(s, Bytes(s))
        /\ writer'.tainted = writer.tainted
        /\ writer'.n = IF writer.handle THEN writer.n ELSE 0
    BY <1>1, <1>9, FrameRolledBackDoes
  <2>2. open'[s] = Bytes(s)
    BY <1>1, <1>2, <2>1, AppendsOpen DEF TypeOK
  <2>3. ~writer.tainted
    BY <1>1, <1>2 DEF HandleFits, Appending
  <2>4. ~Bytes(s).torn /\ writer'.n = Cardinality(Bytes(s).recs)
    <3>1. CASE writer.handle
      BY <1>1, <1>2, <2>1, <2>3, <3>1, AppendsOpen DEF HandleFits
    <3>2. CASE ~writer.handle
      BY <1>1, <1>2, <2>1, <3>2, AppendsOpen, FS_EmptySet DEF Empty
    <3> QED
      BY <3>1, <3>2
  <2>5. HandleFits'
    BY <1>3, <1>7, <2>2, <2>4 DEF HandleFits, Exists, Absent
  <2> QED
    BY <1>4, <1>5, <2>5 DEF ClaimsKept
<1> QED
  BY <1>8, <1>9

(* The writer lets go of its segment: renamed, empty, or after an error. *)
LEMMA ClosedClaims ==
    ASSUME ClaimsInvariant, writer.handle, ~writer.tainted,
           NEW ending \in {"none", "complete", "interrupted", "failed"},
           CloseAndRename([writer EXCEPT !.ending = ending]),
           writer.failed => ending # "complete",
           UNCHANGED <<manifest, checkpoint, terminal, reconciled, old, scan, audit>>
    PROVE  ClaimsKept
<1> DEFINE u == writer.seg
<1>1. TypeOK /\ NamesFit /\ PlaceFits /\ HandleFits /\ FilesFit
  BY DEF ClaimsInvariant, FramesInvariant
<1>2. /\ writer.pc = "run" /\ u \in Segments /\ u \in Nat
      /\ Exists(open, u) /\ ~open[u].torn
      /\ writer.failed \/ writer.n > 0
      /\ writer.n = Cardinality(open[u].recs)
  BY <1>1, NumbersTyped DEF PlaceFits, HandleFits
<1>3. ~Published(u)
  BY <1>1, <1>2 DEF NamesFit, FilesFit
<1>4. /\ KeepsCount /\ writer'.handle = FALSE
      /\ writer'.pc \in {"run", "renamed", "closing"}
  BY <1>1, ClosesDoes DEF Spoils
<1>5. ~Quiet
  BY <1>2 DEF Quiet
<1>6. ScanFits' /\ AuditFits' /\ ReconciledIsLast' /\ TerminalFits' /\ AgesFit'
  BY <1>4, <1>5, BusyWriter
<1>7. \A t \in 1 .. u : SealedBy(t) \/ t = u \/ writer.failed
  BY <1>2 DEF ClaimsInvariant, SealsFit
<1>8. CASE /\ Seals(u) /\ writer'.pc = "renamed" /\ writer'.ending = ending
           /\ writer'.failed = writer.failed /\ writer'.tainted = writer.tainted
  <2>1. /\ final'[u] = open[u]
        /\ \A t : t # u => final'[t] = final[t]
    BY <1>1, <1>2, <1>8 DEF TypeOK, Seals
  <2>2. FilesFit'
    BY <1>1, <1>2, <2>1 DEF FilesFit, Exists, Published, Segments, Absent, None
  <2>3. ManifestIsTrue'
    <3>1. \A t \in Segments : Published(t) => t # u /\ final'[t] = final[t]
      BY <1>3, <2>1
    <3>2. writer'.acked = writer.acked
      BY <1>4 DEF KeepsCount
    <3> QED
      BY <3>1, <3>2 DEF ClaimsInvariant, ManifestIsTrue, Published, Segments, None
  <2>4. HandleFits'
    BY <1>4, <1>8 DEF HandleFits
  <2>5. RenamedFits'
    BY <1>2, <1>3, <1>4, <2>1 DEF RenamedFits, Published, None, KeepsCount
  <2>6. \A t : t # u /\ SealedBy(t) => SealedBy(t)'
    BY <1>4, <2>1 DEF SealedBy, Published, None, KeepsCount
  <2>7. SealsFit'
    BY <1>4, <1>7, <1>8, <2>6, SealsStay DEF KeepsCount
  <2> QED
    BY <1>6, <2>2, <2>3, <2>4, <2>5, <2>7 DEF ClaimsKept
<1>9. CASE /\ UNCHANGED <<open, final>> /\ writer'.pc # "renamed"
           /\ writer'.failed /\ writer'.ending # "complete"
  <2>1. FilesFit' /\ ManifestIsTrue'
    BY <1>4, <1>9, FilesStay DEF KeepsCount
  <2>2. HandleFits' /\ RenamedFits'
    BY <1>4, <1>9 DEF HandleFits, RenamedFits
  <2>3. SealsFit'
    BY <1>4, <1>9, SealsStay DEF KeepsCount
  <2> QED
    BY <1>6, <2>1, <2>2, <2>3 DEF ClaimsKept
<1>10. writer.n = 0 => writer.failed
  BY <1>1, <1>2, NumbersTyped
<1>11. \/ /\ Seals(u) /\ writer'.pc = "renamed" /\ writer'.ending = ending
          /\ writer'.failed = writer.failed /\ writer'.tainted = writer.tainted
       \/ /\ UNCHANGED <<open, final>> /\ writer'.pc # "renamed"
          /\ writer'.failed /\ writer'.ending # "complete"
  BY <1>1, <1>10, ClosesDoes DEF Spoils
<1> QED
  BY <1>8, <1>9, <1>11

(* The rotation lets go of a segment that holds a record. *)
LEMMA RotateClaims ==
    ASSUME ClaimsInvariant, Rotate
    PROVE  ClaimsKept
<1>1. /\ writer.handle /\ ~writer.failed
      /\ CloseAndRename([writer EXCEPT !.ending = "none"])
  BY RotateDoes DEF ClaimsInvariant, FramesInvariant
<1>2. ~writer.tainted
  BY <1>1 DEF ClaimsInvariant, HandleFits
<1>3. UNCHANGED <<manifest, checkpoint, terminal, reconciled, old, scan, audit>>
  BY DEF Rotate
<1> QED
  BY <1>1, <1>2, <1>3, ClosedClaims

(* The end of the run lets go of the last one, unless it lost track of it. *)
LEMMA FinishClaims ==
    ASSUME ClaimsInvariant, NEW status \in {"complete", "interrupted", "failed"},
           Finish(status)
    PROVE  ClaimsKept
<1>1. TypeOK /\ HandleFits
  BY DEF ClaimsInvariant, FramesInvariant
<1>2. UNCHANGED <<manifest, checkpoint, terminal, reconciled, old, scan, audit>>
  BY DEF Finish
<1>3. writer.pc \in {"run", "rotated"} /\ ~Quiet
  BY <1>1, FinishDoes DEF Quiet
<1> PICK ending \in {"complete", "interrupted", "failed"} :
       /\ writer.failed => ending = "failed"
       /\ \/ /\ ~writer.tainted /\ writer.handle
             /\ CloseAndRename([writer EXCEPT !.ending = ending])
          \/ /\ writer.tainted \/ ~writer.handle
             /\ UNCHANGED <<open, final>> /\ KeepsCount
             /\ writer'.pc = "closing" /\ writer'.ending = ending
             /\ writer'.handle = FALSE
             /\ writer'.failed = writer.failed
             /\ writer'.tainted = writer.tainted
  BY <1>1, FinishDoes
<1>4. CASE /\ ~writer.tainted /\ writer.handle
           /\ CloseAndRename([writer EXCEPT !.ending = ending])
  BY <1>2, <1>4, ClosedClaims
<1>5. CASE /\ writer.tainted \/ ~writer.handle
           /\ UNCHANGED <<open, final>> /\ KeepsCount
           /\ writer'.pc = "closing" /\ writer'.ending = ending
           /\ writer'.handle = FALSE
           /\ writer'.failed = writer.failed
           /\ writer'.tainted = writer.tainted
  <2>1. ScanFits' /\ AuditFits' /\ ReconciledIsLast' /\ TerminalFits' /\ AgesFit'
    BY <1>2, <1>3, <1>5, BusyWriter
  <2>2. FilesFit' /\ ManifestIsTrue' /\ \A t : SealedBy(t)' = SealedBy(t)
    BY <1>2, <1>5, FilesStay DEF KeepsCount
  <2>3. HandleFits' /\ RenamedFits'
    BY <1>1, <1>5 DEF HandleFits, RenamedFits
  <2>4. SealsFit'
    <3>1. ~writer.failed => \A t \in 1 .. writer.seg : SealedBy(t)
      BY <1>1, <1>3, <1>5 DEF ClaimsInvariant, SealsFit, HandleFits
    <3> QED
      BY <1>2, <1>5, <2>2, <3>1, SealsStay DEF KeepsCount
  <2> QED
    BY <2>1, <2>2, <2>3, <2>4 DEF ClaimsKept
<1> QED
  BY <1>4, <1>5

(* Between the rename and the manifest the segment has none. *)
LEMMA RenamedPlace ==
    ASSUME ClaimsInvariant, writer.pc = "renamed"
    PROVE  /\ writer.seg \in Segments /\ writer.seg \in Nat
           /\ Exists(final, writer.seg) /\ ~Published(writer.seg)
           /\ writer.n = Cardinality(final[writer.seg].recs)
           /\ writer.handle = FALSE /\ ~Quiet
           /\ ~writer.failed => \A t \in 1 .. writer.seg : SealedBy(t) \/ t = writer.seg
<1>1. TypeOK /\ PlaceFits /\ RenamedFits
  BY DEF ClaimsInvariant, FramesInvariant
<1>2. writer.handle = FALSE
  BY <1>1 DEF TypeOK, WriterState, PlaceFits
<1> QED
  BY <1>1, <1>2, NumbersTyped DEF PlaceFits, RenamedFits, Quiet, ClaimsInvariant, SealsFit

(* The manifest of the writer is true, and takes the place of no other. *)
LEMMA StatedClaims ==
    ASSUME ClaimsInvariant, writer.pc = "renamed",
           manifest' = [manifest EXCEPT ![writer.seg] = Statement],
           UNCHANGED <<open, final>>, writer'.acked = writer.acked,
           writer.sealed \subseteq writer'.sealed
    PROVE  /\ FilesFit' /\ ManifestIsTrue'
           /\ manifest'[writer.seg] = Statement /\ Statement # None
           /\ \A r \in writer.sealed :
                Published(r.seg)' /\ manifest'[r.seg].bytes = r.bytes
           /\ \A t \in Segments : SealedBy(t) => SealedBy(t)'
<1> DEFINE u == writer.seg
<1>1. TypeOK /\ PlaceFits /\ FilesFit /\ ManifestIsTrue /\ FramesFit
  BY DEF ClaimsInvariant, FramesInvariant
<1>2. /\ u \in Segments /\ Exists(final, u) /\ ~Published(u)
      /\ writer.n = Cardinality(final[u].recs)
  BY RenamedPlace
<1>3. /\ Statement # None
      /\ Statement.bytes = final[u] /\ Statement.count = writer.n
      /\ Statement.status = "sealed" => ~writer.failed
  BY <1>1, StatementTyped, MarksApart
<1>4. /\ manifest'[u] = Statement
      /\ \A t : t # u => manifest'[t] = manifest[t]
  BY <1>1, <1>2 DEF TypeOK
<1>5. FilesFit'
  BY <1>1, <1>2, <1>4 DEF FilesFit, Exists, Published, Segments, Absent, None
<1>6. /\ manifest'[u].bytes = final'[u]
      /\ manifest'[u].count = Cardinality(final'[u].recs)
      /\ ~final'[u].torn
      /\ manifest'[u].status = "sealed" => final'[u].recs \subseteq 1 .. writer'.acked
  <2>1. ~final[u].torn
    BY <1>1, <1>2 DEF FilesFit
  <2>2. ~writer.failed => final[u].recs \subseteq 1 .. writer.acked
    <3>1. Bytes(u) = final[u]
      BY <1>2 DEF Bytes
    <3> QED
      BY <1>1, <1>2, <3>1 DEF FramesFit
  <2> QED
    BY <1>2, <1>3, <1>4, <2>1, <2>2
<1>7. ASSUME NEW t \in Segments, t # u, manifest'[t] # None
      PROVE  /\ manifest'[t].bytes = final'[t]
             /\ manifest'[t].count = Cardinality(final'[t].recs)
             /\ ~final'[t].torn
             /\ manifest'[t].status = "sealed" => final'[t].recs \subseteq 1 .. writer'.acked
  BY <1>1, <1>4, <1>7 DEF ManifestIsTrue, Published
<1>8. ManifestIsTrue'
  <2>1. Segments' = Segments /\ None' = None
    BY DEF Segments, None
  <2> QED
    BY <1>6, <1>7, <2>1 DEF ManifestIsTrue, Published
<1>9. ASSUME NEW r \in writer.sealed
      PROVE  Published(r.seg)' /\ manifest'[r.seg].bytes = r.bytes
  <2>1. Published(r.seg) /\ manifest[r.seg].bytes = r.bytes
    BY <1>9 DEF ClaimsInvariant, SealsFit
  <2>2. r.seg # u
    BY <1>2, <2>1
  <2> QED
    BY <1>4, <2>1, <2>2 DEF Published, None
<1>10. ASSUME NEW t \in Segments, SealedBy(t) PROVE SealedBy(t)'
  <2>1. t # u
    BY <1>2, <1>10 DEF SealedBy
  <2> QED
    BY <1>4, <1>10, <2>1 DEF SealedBy, Published, None
<1> QED
  BY <1>3, <1>4, <1>5, <1>8, <1>9, <1>10

(* The segment is published and its receipt kept. *)
LEMMA PublishClaims ==
    ASSUME ClaimsInvariant, PublishSegment
    PROVE  ClaimsKept
<1> DEFINE u == writer.seg
           receipt == [seg |-> u, bytes |-> final[u], count |-> writer.n]
<1>1. TypeOK /\ PlaceFits
  BY DEF ClaimsInvariant, FramesInvariant
<1>2. /\ UNCHANGED <<open, final, checkpoint, terminal, reconciled, old, scan, audit>>
  BY DEF PublishSegment
<1>3. /\ writer.pc = "renamed"
      /\ manifest' = [manifest EXCEPT ![u] = Statement]
      /\ writer'.pc \in {"rotated", "closing"}
      /\ writer'.ending = "complete" => writer.ending = "complete"
      /\ writer'.sealed = writer.sealed \union {receipt}
      /\ writer'.seg = u /\ writer'.acked = writer.acked
      /\ writer'.handle = writer.handle /\ writer'.failed = writer.failed
      /\ writer'.tainted = FALSE
  BY <1>1, PublishDoes
<1>4. /\ u \in Segments /\ u \in Nat /\ writer.handle = FALSE /\ ~Quiet
      /\ writer.n = Cardinality(final[u].recs)
      /\ ~writer.failed => \A t \in 1 .. u : SealedBy(t) \/ t = u
  BY <1>3, RenamedPlace
<1>5. /\ Statement.bytes = final[u] /\ Statement.count = writer.n
      /\ ~writer.failed => Statement.status = "sealed"
  BY <1>1, <1>3, StatementTyped
<1> HIDE DEF receipt
<1>6. /\ FilesFit' /\ ManifestIsTrue'
      /\ manifest'[u] = Statement /\ Statement # None
      /\ \A r \in writer.sealed : Published(r.seg)' /\ manifest'[r.seg].bytes = r.bytes
      /\ \A t \in Segments : SealedBy(t) => SealedBy(t)'
  BY <1>2, <1>3, StatedClaims
<1>7. ScanFits' /\ AuditFits' /\ ReconciledIsLast' /\ TerminalFits' /\ AgesFit'
  BY <1>2, <1>3, <1>4, BusyWriter
<1>8. HandleFits' /\ RenamedFits'
  BY <1>3, <1>4 DEF HandleFits, RenamedFits
<1>9. SealsFit'
  <2>1. PICK v : v = u
    OBVIOUS
  <2>2. PICK r : r = receipt
    OBVIOUS
  <2>3. /\ manifest'[v] = Statement /\ Statement # None
        /\ r = [seg |-> v, bytes |-> final'[v], count |-> manifest'[v].count]
        /\ r \in writer'.sealed
        /\ manifest'[v].bytes = final'[v]
    BY <1>2, <1>3, <1>5, <1>6, <2>1, <2>2 DEF receipt
  <2>4. Published(v)'
    BY <2>3 DEF Published, None
  <2>5. ~writer.failed => SealedBy(v)'
    BY <1>5, <2>3, <2>4 DEF SealedBy, Published
  <2>6. \A t \in 1 .. u : t \in Segments
    BY <1>4, BoundsTyped DEF Segments
  <2>7. ~writer'.failed => \A t \in 1 .. writer'.seg : SealedBy(t)'
    BY <1>3, <1>4, <1>6, <2>1, <2>5, <2>6
  <2>8. Published(r.seg)' /\ manifest'[r.seg].bytes = r.bytes
    BY <2>3, <2>4
  <2>9. \A q \in writer'.sealed : Published(q.seg)' /\ manifest'[q.seg].bytes = q.bytes
    BY <1>3, <1>6, <2>2, <2>8
  <2>10. writer'.ending = "complete" => ~writer'.failed
    BY <1>3 DEF ClaimsInvariant, SealsFit
  <2> QED
    BY <2>7, <2>9, <2>10 DEF SealsFit, SealedBy, Published
<1> QED
  BY <1>6, <1>7, <1>8, <1>9 DEF ClaimsKept

(* The manifest could not be written, or so it seemed. *)
LEMMA PublishFailsClaims ==
    ASSUME ClaimsInvariant, PublishFails
    PROVE  ClaimsKept
<1> DEFINE u == writer.seg
<1>1. TypeOK /\ NamesFit /\ PlaceFits /\ FilesFit
  BY DEF ClaimsInvariant, FramesInvariant
<1>2. UNCHANGED <<checkpoint, terminal, reconciled, old, scan, audit>>
  BY DEF PublishFails
<1>3. /\ writer.pc = "renamed" /\ KeepsCount
      /\ writer'.pc \in {"run", "closing"} /\ writer'.ending # "complete"
      /\ writer'.handle = FALSE /\ writer'.failed = TRUE
  BY <1>1, PublishFailsDoes DEF Spoils
<1>4. u \in Segments /\ ~Published(u) /\ ~Quiet
  BY <1>3, RenamedPlace
<1>5. ScanFits' /\ AuditFits' /\ ReconciledIsLast' /\ TerminalFits' /\ AgesFit'
  BY <1>2, <1>3, <1>4, BusyWriter
<1>6. HandleFits' /\ RenamedFits'
  BY <1>3 DEF HandleFits, RenamedFits
<1>7. CASE Reopens(u) /\ UNCHANGED manifest
  <2>1. \A t : t # u => final'[t] = final[t]
    BY <1>1, <1>4, <1>7 DEF TypeOK, Reopens
  <2>2. final'[u] = Absent
    BY <1>1, <1>4, <1>7 DEF TypeOK, Reopens
  <2>3. FilesFit'
    BY <1>1, <1>4, <1>7, <2>1, <2>2 DEF FilesFit, Exists, Published, Segments, Absent, None
  <2>4. ManifestIsTrue'
    <3>1. \A t \in Segments : Published(t) => final'[t] = final[t]
      BY <1>4, <2>1
    <3>2. writer'.acked = writer.acked
      BY <1>3 DEF KeepsCount
    <3> QED
      BY <1>7, <3>1, <3>2 DEF ClaimsInvariant, ManifestIsTrue, Published, Segments, None
  <2>5. SealsFit'
    BY <1>3, <1>7, SealsStay DEF KeepsCount
  <2> QED
    BY <1>5, <1>6, <2>3, <2>4, <2>5 DEF ClaimsKept
<1>8. CASE UNCHANGED <<open, final, manifest>>
  <2>1. FilesFit' /\ ManifestIsTrue'
    BY <1>3, <1>8, FilesStay DEF KeepsCount
  <2>2. SealsFit'
    BY <1>3, <1>8, SealsStay DEF KeepsCount
  <2> QED
    BY <1>5, <1>6, <2>1, <2>2 DEF ClaimsKept
<1>9. CASE /\ manifest' = [manifest EXCEPT ![u] = Statement]
           /\ UNCHANGED <<open, final>>
  <2>1. /\ FilesFit' /\ ManifestIsTrue'
        /\ \A r \in writer.sealed : Published(r.seg)' /\ manifest'[r.seg].bytes = r.bytes
    BY <1>3, <1>9, StatedClaims DEF KeepsCount
  <2>2. writer'.sealed = writer.sealed
    BY <1>3 DEF KeepsCount
  <2>3. SealsFit'
    BY <1>3, <2>1, <2>2 DEF SealsFit, SealedBy, Published
  <2> QED
    BY <1>5, <1>6, <2>1, <2>3 DEF ClaimsKept
<1> QED
  BY <1>1, <1>7, <1>8, <1>9, PublishFailsDoes

(* Steps that leave the files, the manifests and the writer. *)
LEMMA RestStays ==
    ASSUME ClaimsInvariant, UNCHANGED <<open, final, manifest, writer>>
    PROVE  FilesFit' /\ HandleFits' /\ RenamedFits' /\ SealsFit' /\ ManifestIsTrue'
<1>1. FilesFit' /\ ManifestIsTrue' /\ \A t : SealedBy(t)' = SealedBy(t)
  BY FilesStay
<1>2. HandleFits' /\ RenamedFits'
  BY DEF ClaimsInvariant, HandleFits, RenamedFits, Exists, Absent, Published, None
<1>3. writer.ending = "complete" => ~writer.failed
  BY DEF ClaimsInvariant, SealsFit
<1>4. (~writer.failed /\ writer.pc # "dead") =>
         \A t \in 1 .. writer.seg :
            SealedBy(t) \/ (t = writer.seg /\ (writer.handle \/ writer.pc = "renamed"))
  BY DEF ClaimsInvariant, SealsFit
<1>5. SealsFit'
  BY <1>1, <1>3, <1>4, SealsStay
<1> QED
  BY <1>1, <1>2, <1>5

(* Steps that only move the writer on to its end. *)
LEMMA EndStays ==
    ASSUME ClaimsInvariant, UNCHANGED <<open, final, manifest>>, KeepsAll,
           writer'.handle = FALSE, writer'.pc \in {"unlinked", "done", "dead"},
           writer'.pc = "dead" \/ (~writer.handle /\ writer.pc # "renamed"
                                    /\ writer.pc # "dead")
    PROVE  FilesFit' /\ HandleFits' /\ RenamedFits' /\ SealsFit' /\ ManifestIsTrue'
<1>1. FilesFit' /\ ManifestIsTrue' /\ \A t : SealedBy(t)' = SealedBy(t)
  BY FilesStay DEF KeepsAll, KeepsCount
<1>2. HandleFits' /\ RenamedFits'
  BY DEF ClaimsInvariant, HandleFits, RenamedFits, KeepsAll
<1>3. (~writer'.failed /\ writer'.pc # "dead") =>
         \A t \in 1 .. writer'.seg : SealedBy(t)'
  BY <1>1 DEF ClaimsInvariant, SealsFit, KeepsAll, KeepsCount
<1>4. writer'.ending = "complete" => ~writer'.failed
  BY DEF ClaimsInvariant, SealsFit, KeepsAll
<1>5. writer'.sealed = writer.sealed
  BY DEF KeepsAll, KeepsCount
<1>6. SealsFit'
  BY <1>3, <1>4, <1>5, SealsStay
<1> QED
  BY <1>1, <1>2, <1>6

(* The end of the writer disturbs no recovery, and there is nothing to be  *)
(* disturbed of what is said about the run.                                *)
LEMMA EndAlone ==
    ASSUME ClaimsInvariant, ~Over, Quiet', UNCHANGED <<open, final, reconciled, scan, audit>>
    PROVE  /\ ScanFits' /\ AuditFits' /\ ReconciledIsLast'
           /\ terminal = None /\ "checkpoint" \notin old
<1>1. ScanFits'
  BY DEF ClaimsInvariant, ScanFits, Exists, Bytes, Absent, Empty
<1>2. audit.pc # "inspected" /\ reconciled = None /\ terminal = None
  BY DEF ClaimsInvariant, AuditFits, ReconciledIsLast, TerminalFits, Over
<1>3. AuditFits' /\ ReconciledIsLast'
  BY <1>2 DEF AuditFits, ReconciledIsLast, None
<1>4. "checkpoint" \notin old
  BY DEF ClaimsInvariant, AgesFit
<1> QED
  BY <1>1, <1>2, <1>3, <1>4

(* The writer renews its checkpoint. *)
LEMMA CheckpointClaims ==
    ASSUME ClaimsInvariant, Checkpoint
    PROVE  ClaimsKept
<1>1. /\ UNCHANGED <<open, final, manifest, terminal, reconciled, writer, scan, audit>>
      /\ writer.pc = "run" /\ old' = old \ {"checkpoint"}
  BY DEF Checkpoint
<1>2. checkpoint' # None
  <2>1. writer.acked \in Nat /\ Cardinality(writer.sealed) \in Nat
    BY FS_CardinalityType DEF ClaimsInvariant, FramesInvariant, TypeOK, WriterState,
                              PlaceFits
  <2>2. checkpoint' \in [records: Nat, segments: Nat]
    BY <2>1 DEF Checkpoint
  <2> QED
    BY <2>2, MarksApart
<1>3. ~Quiet
  BY <1>1 DEF Quiet
<1>4. ScanFits' /\ AuditFits' /\ ReconciledIsLast' /\ TerminalFits'
  BY <1>1, <1>3, BusyWriter
<1>5. AgesFit'
  BY <1>1, <1>2 DEF AgesFit, None
<1> QED
  BY <1>1, <1>4, <1>5, RestStays DEF ClaimsKept

(* finish takes the checkpoint away, or refuses the counts. *)
LEMMA DropClaims ==
    ASSUME ClaimsInvariant, DropCheckpoint
    PROVE  ClaimsKept
<1>1. TypeOK /\ PlaceFits
  BY DEF ClaimsInvariant, FramesInvariant
<1>2. /\ writer.pc = "closing" /\ KeepsAll /\ writer'.handle = writer.handle
      /\ writer'.pc \in {"dead", "unlinked"}
  BY <1>1, EndsDo
<1>3. writer.handle = FALSE
  BY <1>1, <1>2 DEF TypeOK, WriterState, PlaceFits
<1>4. UNCHANGED <<open, final, manifest, terminal, reconciled, scan, audit>>
  BY DEF DropCheckpoint
<1>5. /\ ~Over /\ Quiet'
  BY <1>2 DEF Over, Quiet
<1>6. FilesFit' /\ HandleFits' /\ RenamedFits' /\ SealsFit' /\ ManifestIsTrue'
  BY <1>2, <1>3, <1>4, EndStays
<1>7. /\ ScanFits' /\ AuditFits' /\ ReconciledIsLast'
      /\ terminal = None /\ "checkpoint" \notin old
  BY <1>4, <1>5, EndAlone
<1>8. TerminalFits'
  <2>1. writer'.pc = "unlinked" => checkpoint' = None
    <3>1. writer' = [writer EXCEPT !.pc = "dead"] => writer'.pc = "dead"
      BY <1>1 DEF TypeOK, WriterState
    <3> QED
      BY <3>1 DEF DropCheckpoint
  <2> QED
    BY <1>2, <1>4, <1>7, <2>1 DEF TerminalFits, None
<1>9. AgesFit'
  <2>1. "checkpoint" \notin old'
    BY <1>7 DEF DropCheckpoint
  <2> QED
    BY <1>5, <2>1 DEF AgesFit
<1> QED
  BY <1>6, <1>7, <1>8, <1>9 DEF ClaimsKept

(* The manifest of the run is written. *)
LEMMA EndRunClaims ==
    ASSUME ClaimsInvariant, EndRun
    PROVE  ClaimsKept
<1>1. TypeOK /\ PlaceFits
  BY DEF ClaimsInvariant, FramesInvariant
<1>2. /\ writer.pc = "unlinked" /\ KeepsAll /\ writer'.handle = writer.handle
      /\ writer'.pc = "done"
  BY <1>1, EndsDo
<1>3. writer.handle = FALSE
  BY <1>1, <1>2 DEF TypeOK, WriterState, PlaceFits
<1>4. /\ UNCHANGED <<open, final, manifest, checkpoint, reconciled, old, scan, audit>>
      /\ terminal' = [status |-> writer.ending, records |-> writer.acked,
                      receipts |-> writer.sealed]
  BY DEF EndRun
<1>5. /\ ~Over /\ Quiet'
  BY <1>2 DEF Over, Quiet
<1>6. FilesFit' /\ HandleFits' /\ RenamedFits' /\ SealsFit' /\ ManifestIsTrue'
  BY <1>2, <1>3, <1>4, EndStays
<1>7. ScanFits' /\ AuditFits' /\ ReconciledIsLast' /\ "checkpoint" \notin old
  BY <1>4, <1>5, EndAlone
<1>8. TerminalFits'
  <2>1. checkpoint' = None
    BY <1>2, <1>4 DEF ClaimsInvariant, TerminalFits
  <2>2. terminal' = [status |-> writer'.ending, records |-> writer'.acked,
                     receipts |-> writer'.sealed]
    BY <1>2, <1>4 DEF KeepsAll, KeepsCount
  <2> QED
    BY <1>2, <2>1, <2>2 DEF TerminalFits, None
<1>9. AgesFit'
  BY <1>4, <1>5, <1>7 DEF AgesFit
<1> QED
  BY <1>6, <1>7, <1>8, <1>9 DEF ClaimsKept

(* The process is killed, in an append or elsewhere. *)
LEMMA DieClaims ==
    ASSUME ClaimsInvariant, Die
    PROVE  ClaimsKept
<1>1. TypeOK /\ PlaceFits
  BY DEF ClaimsInvariant, FramesInvariant
<1>2. /\ ~Over /\ KeepsAll /\ writer'.pc = "dead" /\ writer'.handle = FALSE
      /\ UNCHANGED <<manifest, checkpoint, terminal, reconciled, scan, audit>>
  BY <1>1, DieDoes DEF Die
<1>3. Quiet' /\ Over'
  BY <1>2 DEF Quiet, Over
<1>4. CASE UNCHANGED <<open, final, old>>
  <2>1. FilesFit' /\ HandleFits' /\ RenamedFits' /\ SealsFit' /\ ManifestIsTrue'
    BY <1>2, <1>4, EndStays
  <2>2. ScanFits' /\ AuditFits' /\ ReconciledIsLast' /\ terminal = None
    BY <1>2, <1>3, <1>4, EndAlone
  <2>3. TerminalFits'
    BY <1>2, <2>2 DEF TerminalFits, None
  <2>4. AgesFit'
    BY <1>3 DEF AgesFit
  <2> QED
    BY <2>1, <2>2, <2>3, <2>4 DEF ClaimsKept
<1>5. CASE /\ \E s \in Segments : /\ Appending(s)
                                  /\ \E bytes \in Leftovers(Bytes(s)) : PutBytes(s, bytes)
           /\ old' = old \ {"segment"}
  <2>1. PICK s \in Segments : Appending(s) /\ \E bytes : PutBytes(s, bytes)
    BY <1>5
  <2>2. writer'.acked = writer.acked /\ writer'.sealed = writer.sealed
    BY <1>2 DEF KeepsAll, KeepsCount
  <2>3. /\ FilesFit' /\ ManifestIsTrue' /\ RenamedFits' /\ TerminalFits' /\ AgesFit'
        /\ ScanFits' /\ AuditFits' /\ ReconciledIsLast'
    BY <1>2, <1>5, <2>1, <2>2, AppendKeeps
  <2>4. HandleFits'
    BY <1>2 DEF ClaimsInvariant, HandleFits, KeepsAll
  <2>5. SealsFit'
    <3>1. writer'.ending # "complete"
      BY <1>2, <2>1 DEF KeepsAll, Appending
    <3> QED
      BY <1>2, <2>2, <3>1, SealsStay
  <2> QED
    BY <2>3, <2>4, <2>5 DEF ClaimsKept
<1> QED
  BY <1>1, <1>4, <1>5, DieDoes

(* What is said about the run stays said when the writer is not at work. *)
LEMMA RunStays ==
    ASSUME ClaimsInvariant, UNCHANGED <<checkpoint, terminal, reconciled, old, writer, audit>>
    PROVE  TerminalFits' /\ AgesFit' /\ AuditFits' /\ ReconciledIsLast'
BY DEF ClaimsInvariant, TerminalFits, AgesFit, AuditFits, ReconciledIsLast, Quiet, Over,
       None

(* Time passes: only what a dead writer left grows old. *)
LEMMA TimeClaims ==
    ASSUME ~MayPause, ClaimsInvariant, TimeStep
    PROVE  ClaimsKept
<1>1. UNCHANGED <<open, final, manifest, checkpoint, terminal, reconciled, writer, scan,
                  audit>>
  BY DEF TimeStep, SegmentAges, CheckpointAges
<1>2. AgesFit'
  <2>1. CASE SegmentAges
    <3>1. /\ Over \/ checkpoint # None
          /\ old' = old \union {"segment"}
      BY <2>1 DEF SegmentAges
    <3> QED
      BY <1>1, <3>1 DEF ClaimsInvariant, AgesFit, Over, Quiet, None
  <2>2. CASE CheckpointAges
    BY <1>1, <2>2 DEF CheckpointAges, ClaimsInvariant, AgesFit, Over, None, Quiet
  <2> QED
    BY <2>1, <2>2 DEF TimeStep
<1>3. TerminalFits' /\ AuditFits' /\ ReconciledIsLast'
  BY <1>1 DEF ClaimsInvariant, TerminalFits, AuditFits, ReconciledIsLast, None
<1>4. ScanFits'
  BY <1>1 DEF ClaimsInvariant, ScanFits, Exists, Bytes, Absent, Empty, Quiet
<1> QED
  BY <1>1, <1>2, <1>3, <1>4, RestStays DEF ClaimsKept

(* A recovery that has examined its candidate is alone with it. *)
LEMMA ExaminedAlone ==
    ASSUME ClaimsInvariant, NEW s \in Segments, NEW isOpen \in BOOLEAN,
           Abandoned(s, isOpen)
    PROVE  /\ Quiet
           /\ Exists(open, s) = isOpen /\ Exists(final, s) = ~isOpen
           /\ ~Bytes(s).torn
<1>1. "segment" \in old /\ (checkpoint = None \/ "checkpoint" \in old)
  BY DEF Abandoned
<1>2. Quiet
  BY <1>1 DEF ClaimsInvariant, AgesFit, Over, Quiet
<1> QED
  BY <1>2 DEF Abandoned

(* The recovery lists, examines, or dies. *)
LEMMA ScanReadsClaims ==
    ASSUME ClaimsInvariant, ScanLists \/ ScanExamines \/ ScanDies
    PROVE  ClaimsKept
<1>1. UNCHANGED <<open, final, manifest, checkpoint, terminal, reconciled, old, writer,
                  audit>>
  BY DEF ScanLists, ScanExamines, ScanDies
<1>2. TypeOK
  BY DEF ClaimsInvariant, FramesInvariant
<1>3. CASE ScanLists \/ ScanDies
  <2>1. scan'.pc \notin {"read", "taken"}
    BY <1>3 DEF ScanLists, ScanDies, Listed, Idle
  <2>2. ScanFits'
    BY <2>1 DEF ScanFits
  <2> QED
    BY <1>1, <2>2, RestStays, RunStays DEF ClaimsKept
<1>4. CASE ScanExamines
  <2> DEFINE s == scan.seg
  <2>1. s \in Segments /\ scan.isOpen \in BOOLEAN
    BY <1>2, <1>4, MemoryTyped DEF ScanExamines
  <2>2. CASE Abandoned(s, scan.isOpen)
    <3>1. scan' = [pc |-> "read", seg |-> s, isOpen |-> scan.isOpen,
                   count |-> Cardinality(Bytes(s).recs)]
      BY <1>4, <2>2 DEF ScanExamines
    <3>2. /\ Quiet
          /\ Exists(open, s) = scan.isOpen /\ Exists(final, s) = ~scan.isOpen
          /\ ~Bytes(s).torn
      BY <2>1, <2>2, ExaminedAlone
    <3>3. PICK t : t = s
      OBVIOUS
    <3>4. /\ scan'.pc = "read" /\ scan'.seg = t /\ scan'.isOpen = scan.isOpen
          /\ scan'.count = Cardinality(Bytes(t).recs)
      BY <3>1, <3>3
    <3>5. /\ Exists(open, t)' = Exists(open, t) /\ Exists(final, t)' = Exists(final, t)
          /\ Bytes(t)' = Bytes(t) /\ Quiet'
      BY <1>1, <3>2 DEF Exists, Absent, Bytes, Empty, Quiet
    <3>6. /\ Exists(open, t)' = scan'.isOpen /\ Exists(final, t)' = ~scan'.isOpen
          /\ ~Bytes(t)'.torn /\ scan'.count = Cardinality(Bytes(t)'.recs)
      BY <3>2, <3>3, <3>4, <3>5
    <3>7. ScanFits'
      BY <3>4, <3>5, <3>6 DEF ScanFits, Exists, Bytes
    <3> QED
      BY <1>1, <3>7, RestStays, RunStays DEF ClaimsKept
  <2>3. CASE ~Abandoned(s, scan.isOpen)
    <3>1. scan'.pc = "idle"
      BY <1>4, <2>3 DEF ScanExamines, Idle
    <3>2. ScanFits'
      BY <3>1 DEF ScanFits
    <3> QED
      BY <1>1, <3>2, RestStays, RunStays DEF ClaimsKept
  <2> QED
    BY <2>2, <2>3
<1> QED
  BY <1>3, <1>4

(* The recovery takes its candidate: nobody else is there. *)
LEMMA ScanTakesClaims ==
    ASSUME ClaimsInvariant, ScanTakes
    PROVE  ClaimsKept
<1>1. TypeOK /\ NamesFit /\ PlaceFits /\ FilesFit
  BY DEF ClaimsInvariant, FramesInvariant
<1>2. UNCHANGED <<manifest, checkpoint, terminal, reconciled, old, writer, audit>>
  BY DEF ScanTakes
<1>3. PICK u : u = scan.seg
  OBVIOUS
<1>4. scan.pc = "read" /\ u \in Segments
  BY <1>1, <1>3, MemoryTyped DEF ScanTakes
<1>5. /\ Quiet
      /\ Exists(open, u) = scan.isOpen /\ Exists(final, u) = ~scan.isOpen
      /\ ~Bytes(u).torn /\ scan.count = Cardinality(Bytes(u).recs)
  BY <1>3, <1>4 DEF ClaimsInvariant, ScanFits
<1>6. writer.pc # "run" /\ writer.pc # "renamed" /\ Quiet'
  BY <1>2, <1>5 DEF Quiet
<1>7. writer.handle = FALSE
  BY <1>1, <1>6 DEF TypeOK, WriterState, PlaceFits
<1>8. HandleFits' /\ RenamedFits'
  BY <1>2, <1>6, <1>7 DEF ClaimsInvariant, HandleFits, RenamedFits
<1>9. CASE /\ scan.isOpen /\ Exists(open, u)
           /\ final' = [final EXCEPT ![u] = open[u]]
           /\ scan' = [pc |-> "taken", seg |-> u, bytes |-> open[u],
                       count |-> scan.count]
  <2>1. /\ final'[u] = open[u] /\ open[u] # Absent
        /\ \A t : t # u => final'[t] = final[t]
    BY <1>1, <1>4, <1>9 DEF TypeOK, Exists
  <2>2. ~Exists(final, u) /\ ~Published(u)
    BY <1>1, <1>4, <1>9 DEF NamesFit, FilesFit
  <2>3. Bytes(u) = open[u]
    BY <1>9, <2>2 DEF Bytes
  <2>4. FilesFit'
    BY <1>1, <1>2, <1>5, <2>1, <2>3 DEF FilesFit, Exists, Published, Segments, Absent, None
  <2>5. ManifestIsTrue'
    <3>1. \A t \in Segments : Published(t) => t # u /\ final'[t] = final[t]
      BY <2>1, <2>2
    <3> QED
      BY <1>2, <3>1 DEF ClaimsInvariant, ManifestIsTrue, Published, Segments, None
  <2>6. \A t : SealedBy(t) => SealedBy(t)'
    BY <1>2, <2>1, <2>2 DEF SealedBy, Published, None
  <2>7. SealsFit'
    <3>1. (~writer.failed /\ writer.pc # "dead") => \A t \in 1 .. writer.seg : SealedBy(t)
      BY <1>6, <1>7 DEF ClaimsInvariant, SealsFit
    <3>2. writer.ending = "complete" => ~writer.failed
      BY DEF ClaimsInvariant, SealsFit
    <3> QED
      BY <1>2, <2>6, <3>1, <3>2, SealsStay
  <2>8. ScanFits'
    <3>1. /\ scan'.pc = "taken" /\ scan'.seg = u /\ scan'.bytes = open[u]
          /\ scan'.count = scan.count
      BY <1>9
    <3>2. /\ final'[u] # Absent /\ scan'.bytes = final'[u]
          /\ scan'.count = Cardinality(final'[u].recs)
      BY <1>5, <2>1, <2>3, <3>1
    <3> QED
      BY <1>6, <3>1, <3>2 DEF ScanFits, Exists, Absent
  <2> QED
    BY <1>2, <1>8, <2>4, <2>5, <2>7, <2>8, RunStays DEF ClaimsKept
<1>10. CASE /\ ~scan.isOpen /\ Exists(final, u)
            /\ scan' = [pc |-> "taken", seg |-> u, bytes |-> final[u],
                        count |-> scan.count]
            /\ UNCHANGED <<open, final>>
  <2>1. Bytes(u) = final[u]
    BY <1>10 DEF Bytes
  <2>2. ScanFits'
    <3>1. /\ scan'.pc = "taken" /\ scan'.seg = u /\ scan'.bytes = final[u]
          /\ scan'.count = scan.count
      BY <1>10
    <3>2. /\ final'[u] # Absent /\ scan'.bytes = final'[u]
          /\ scan'.count = Cardinality(final'[u].recs)
      BY <1>5, <1>10, <2>1, <3>1 DEF Exists
    <3> QED
      BY <1>6, <3>1, <3>2 DEF ScanFits, Exists, Absent
  <2> QED
    BY <1>2, <1>10, <2>2, RestStays, RunStays DEF ClaimsKept
<1> QED
  BY <1>3, <1>9, <1>10 DEF ScanTakes

(* The recovery publishes what it took, unless a manifest is there. *)
LEMMA ScanPublishesClaims ==
    ASSUME ClaimsInvariant, ScanPublishes
    PROVE  ClaimsKept
<1>1. TypeOK /\ NamesFit /\ PlaceFits /\ FilesFit /\ ManifestIsTrue
  BY DEF ClaimsInvariant, FramesInvariant
<1>2. /\ UNCHANGED <<open, final, checkpoint, terminal, reconciled, old, writer, audit>>
      /\ scan'.pc = "idle"
  BY DEF ScanPublishes, Idle
<1>3. PICK u : u = scan.seg
  OBVIOUS
<1>4. scan.pc = "taken" /\ u \in Segments
  BY <1>1, <1>3, MemoryTyped DEF ScanPublishes
<1>5. /\ Quiet /\ Exists(final, u)
      /\ scan.bytes = final[u] /\ scan.count = Cardinality(final[u].recs)
  BY <1>3, <1>4 DEF ClaimsInvariant, ScanFits
<1>6. ScanFits'
  BY <1>2 DEF ScanFits
<1>7. CASE Published(u)
  <2>1. manifest' = manifest
    BY <1>3, <1>7 DEF ScanPublishes
  <2> QED
    BY <1>2, <1>6, <2>1, RestStays, RunStays DEF ClaimsKept
<1>8. CASE ~Published(u)
  <2> DEFINE m == StatesOf("recovered_incomplete", scan.bytes, scan.count)
  <2>1. manifest' = [manifest EXCEPT ![u] = m]
    BY <1>3, <1>8 DEF ScanPublishes
  <2>2. /\ m.bytes = final[u] /\ m.count = Cardinality(final[u].recs)
        /\ m.status # "sealed" /\ m # None
    <3>1. scan.bytes \in Content /\ scan.count \in Nat
      BY <1>1, <1>4, MemoryTyped
    <3>2. m \in Manifest
      BY <3>1 DEF StatesOf, Manifest
    <3> QED
      BY <1>5, <3>2, MarksApart DEF StatesOf
  <2> HIDE DEF m
  <2>3. /\ manifest'[u] = m
        /\ \A t : t # u => manifest'[t] = manifest[t]
    BY <1>1, <1>4, <2>1 DEF TypeOK
  <2>4. FilesFit'
    BY <1>1, <1>2, <1>4, <1>5, <2>3 DEF FilesFit, Exists, Published, Segments, Absent, None
  <2>5. /\ manifest'[u].bytes = final'[u]
        /\ manifest'[u].count = Cardinality(final'[u].recs)
        /\ ~final'[u].torn
        /\ manifest'[u].status # "sealed"
    BY <1>1, <1>2, <1>4, <1>5, <2>2, <2>3 DEF FilesFit
  <2>6. ASSUME NEW t \in Segments, t # u, manifest'[t] # None
        PROVE  /\ manifest'[t].bytes = final'[t]
               /\ manifest'[t].count = Cardinality(final'[t].recs)
               /\ ~final'[t].torn
               /\ manifest'[t].status = "sealed" =>
                     final'[t].recs \subseteq 1 .. writer'.acked
    BY <1>1, <1>2, <2>3, <2>6 DEF ManifestIsTrue, Published
  <2>7. ManifestIsTrue'
    <3>1. Segments' = Segments /\ None' = None
      BY DEF Segments, None
    <3> QED
      BY <2>5, <2>6, <3>1 DEF ManifestIsTrue, Published
  <2>8. writer.pc # "run" /\ writer.pc # "renamed"
    BY <1>5 DEF Quiet
  <2>9. writer.handle = FALSE
    BY <1>1, <2>8 DEF TypeOK, WriterState, PlaceFits
  <2>10. HandleFits' /\ RenamedFits'
    BY <1>2, <2>8, <2>9 DEF ClaimsInvariant, HandleFits, RenamedFits
  <2>11. \A t : SealedBy(t) => SealedBy(t)'
    BY <1>2, <1>8, <2>3 DEF SealedBy, Published, None
  <2>12. \A t : Published(t) => Published(t)' /\ manifest'[t] = manifest[t]
    BY <1>8, <2>3 DEF Published, None
  <2>13. SealsFit'
    <3>1. (~writer.failed /\ writer.pc # "dead") => \A t \in 1 .. writer.seg : SealedBy(t)
      BY <2>8, <2>9 DEF ClaimsInvariant, SealsFit
    <3>2. writer.ending = "complete" => ~writer.failed
      BY DEF ClaimsInvariant, SealsFit
    <3>3. \A r \in writer.sealed : Published(r.seg)' /\ manifest'[r.seg].bytes = r.bytes
      BY <2>12 DEF ClaimsInvariant, SealsFit
    <3> QED
      BY <1>2, <2>11, <3>1, <3>2, <3>3 DEF SealsFit, SealedBy, Published
  <2> QED
    BY <1>2, <1>6, <2>4, <2>7, <2>10, <2>13, RunStays DEF ClaimsKept
<1> QED
  BY <1>7, <1>8

(* The numbers a reconciliation finds are not short of the acknowledged. *)
LEMMA InspectsAll ==
    ASSUME ClaimsInvariant, Eligible
    PROVE  writer.pc = "dead" /\ Cardinality(FinalRecords) >= writer.acked
<1>1. TypeOK /\ FramesFit
  BY DEF ClaimsInvariant, FramesInvariant
<1>2. writer.pc = "dead"
  <2>1. Over /\ checkpoint # None
    BY DEF Eligible, ClaimsInvariant, AgesFit
  <2>2. writer.pc # "done"
    BY <2>1 DEF ClaimsInvariant, TerminalFits
  <2> QED
    BY <2>1, <2>2 DEF Over
<1>3. 1 .. writer.acked \subseteq FinalRecords
  <2> SUFFICES ASSUME NEW k \in 1 .. writer.acked PROVE k \in FinalRecords
    OBVIOUS
  <2>1. PICK s \in Segments : k \in Bytes(s).recs
    BY <1>1 DEF FramesFit
  <2>2. ~Exists(open, s)
    BY <2>1 DEF Eligible
  <2>3. Exists(final, s) /\ k \in final[s].recs
    BY <2>1, <2>2 DEF Bytes, Empty
  <2> QED
    BY <2>1, <2>3 DEF FinalRecords, FinalSegments
<1>4. FinalRecords \subseteq Records /\ Cardinality(FinalRecords) \in Nat
  BY <1>1, FinalRecordsTyped
<1>5. writer.acked \in Nat
  BY <1>1, NumbersTyped
<1>6. Cardinality(1 .. writer.acked) = writer.acked
  <2>1. Cardinality(1 .. writer.acked) = IF 1 > writer.acked THEN 0 ELSE writer.acked - 1 + 1
    BY <1>5, FS_Interval
  <2> QED
    BY <1>5, <2>1
<1>7. IsFiniteSet(FinalRecords)
  BY <1>4, RecordsFinite
<1>8. Cardinality(1 .. writer.acked) <= Cardinality(FinalRecords)
  BY <1>3, <1>7, FS_Subset
<1> QED
  BY <1>2, <1>4, <1>5, <1>6, <1>8

(* The reconciliation inspects a dead run, and speaks after all others. *)
LEMMA AuditClaims ==
    ASSUME ClaimsInvariant, AuditStep
    PROVE  ClaimsKept
<1>1. UNCHANGED <<open, final, manifest, checkpoint, terminal, old, writer, scan>>
  BY DEF AuditStep, AuditInspects, ReconcileWrites
<1>2. FilesFit' /\ HandleFits' /\ RenamedFits' /\ SealsFit' /\ ManifestIsTrue'
  BY <1>1, RestStays
<1>3. TerminalFits' /\ AgesFit' /\ ScanFits'
  BY <1>1 DEF ClaimsInvariant, TerminalFits, AgesFit, ScanFits, Quiet, Over, None, Exists,
              Absent, Bytes, Empty
<1>4. CASE AuditInspects
  <2>1. Eligible /\ reconciled' = reconciled
    BY <1>4 DEF AuditInspects
  <2>2. audit'.records = Cardinality(FinalRecords)
    BY <1>4 DEF AuditInspects
  <2>3. AuditFits'
    BY <1>1, <2>1, <2>2, InspectsAll DEF AuditFits
  <2>4. ReconciledIsLast'
    BY <1>1, <2>1 DEF ClaimsInvariant, ReconciledIsLast, None
  <2> QED
    BY <1>2, <1>3, <2>3, <2>4 DEF ClaimsKept
<1>5. CASE ReconcileWrites
  <2>1. audit'.pc # "inspected"
    BY <1>5 DEF ReconcileWrites, Idle
  <2>2. \/ reconciled' = reconciled
        \/ terminal = None /\ reconciled'.records = audit.records
    BY <1>5 DEF ReconcileWrites
  <2>3. writer.pc = "dead" /\ audit.records >= writer.acked
    BY <1>5 DEF ReconcileWrites, ClaimsInvariant, AuditFits
  <2>4. ReconciledIsLast'
    BY <1>1, <2>2, <2>3 DEF ClaimsInvariant, ReconciledIsLast, None
  <2> QED
    BY <1>2, <1>3, <2>1, <2>4 DEF ClaimsKept, AuditFits
<1> QED
  BY <1>4, <1>5 DEF AuditStep

(* Every step keeps the claims. *)
LEMMA ClaimsAfterNext ==
    ASSUME ~MayPause, ClaimsInvariant, [Next]_vars
    PROVE  ClaimsKept
<1>1. CASE WriterStep
  BY <1>1, KeptClaims, FailedClaims, RotateClaims, FinishClaims, PublishClaims,
     PublishFailsClaims, CheckpointClaims, DropClaims, EndRunClaims, DieClaims
     DEF WriterStep
<1>2. CASE ScanStep
  BY <1>2, ScanReadsClaims, ScanTakesClaims, ScanPublishesClaims DEF ScanStep
<1>3. CASE UNCHANGED vars
  <2>1. UNCHANGED <<open, final, manifest, checkpoint, terminal, reconciled, old, writer,
                    scan, audit>>
    BY <1>3 DEF vars
  <2>2. ScanFits'
    BY <2>1 DEF ClaimsInvariant, ScanFits, Quiet, Exists, Absent, Bytes, Empty
  <2> QED
    BY <2>1, <2>2, RestStays, RunStays DEF ClaimsKept
<1> QED
  BY <1>1, <1>2, <1>3, TimeClaims, AuditClaims DEF Next

(* The invariant of the manifests, for a writer that renews its checkpoint. *)
THEOREM ClaimsInductive == ASSUME ~MayPause PROVE Spec => []ClaimsInvariant
<1>1. Init => ClaimsInvariant
  <2> SUFFICES ASSUME Init PROVE ClaimsInvariant
    OBVIOUS
  <2>1. FramesInvariant
    BY FramesAtFirst
  <2>2. \A s \in Segments : ~Exists(final, s) /\ ~Published(s)
    BY DEF Init, Exists, Published
  <2>3. /\ writer.pc = "run" /\ writer.seg = 0 /\ writer.handle = FALSE
        /\ writer.sealed = {} /\ writer.tainted = FALSE /\ writer.ending = "none"
    BY DEF Init, InitWriter
  <2>4. scan.pc = "idle" /\ audit.pc = "idle" /\ terminal = None /\ reconciled = None
        /\ old = {}
    BY DEF Init, Idle
  <2>5. FilesFit /\ ManifestIsTrue
    BY <2>2 DEF FilesFit, ManifestIsTrue
  <2>6. HandleFits /\ RenamedFits
    BY <2>3 DEF HandleFits, RenamedFits
  <2>7. SealsFit
    BY <2>3 DEF SealsFit
  <2>8. TerminalFits /\ AgesFit /\ ScanFits /\ AuditFits /\ ReconciledIsLast
    BY <2>3, <2>4 DEF TerminalFits, AgesFit, ScanFits, AuditFits, ReconciledIsLast
  <2> QED
    BY <2>1, <2>5, <2>6, <2>7, <2>8 DEF ClaimsInvariant
<1>2. ClaimsInvariant /\ [Next]_vars => ClaimsInvariant'
  <2> SUFFICES ASSUME ClaimsInvariant, [Next]_vars PROVE ClaimsInvariant'
    OBVIOUS
  <2>1. FramesInvariant'
    BY FramesAfterNext DEF ClaimsInvariant
  <2>2. ClaimsKept
    BY ClaimsAfterNext
  <2> QED
    BY <2>1, <2>2 DEF ClaimsInvariant, ClaimsKept
<1> QED
  BY <1>1, <1>2, PTL DEF Spec

(* A run that ends complete has sealed all it acknowledged. *)
LEMMA CompleteIsAll ==
    ASSUME ClaimsInvariant
    PROVE  CompleteMeansAll
<1> SUFFICES ASSUME terminal # None, terminal.status = "complete"
             PROVE  /\ UNION {final[s].recs : s \in {t \in Segments: Published(t)}}
                          = 1 .. terminal.records
                    /\ \A s \in Segments: Published(s) => manifest[s].status = "sealed"
                    /\ \A r \in terminal.receipts:
                          Published(r.seg) /\ manifest[r.seg].bytes = r.bytes
  BY DEF CompleteMeansAll
<1>1. TypeOK /\ NamesFit /\ PlaceFits /\ FramesFit /\ FilesFit /\ SealsFit
  BY DEF ClaimsInvariant, FramesInvariant
<1>2. /\ writer.pc = "done" /\ terminal.records = writer.acked
      /\ terminal.receipts = writer.sealed /\ ~writer.failed
  BY <1>1 DEF ClaimsInvariant, TerminalFits, SealsFit
<1>3. \A s \in 1 .. writer.seg : SealedBy(s)
  BY <1>1, <1>2 DEF SealsFit, PlaceFits
<1>4. ASSUME NEW s \in Segments, Exists(open, s) \/ Exists(final, s)
      PROVE  SealedBy(s)
  <2>1. ~(s > writer.seg)
    BY <1>1, <1>2, <1>4 DEF NamesFit
  <2>2. s \in 1 .. writer.seg
    BY <1>1, <2>1, NumbersTyped
  <2> QED
    BY <1>3, <2>2
<1>5. ASSUME NEW s \in Segments, Published(s)
      PROVE  manifest[s].status = "sealed" /\ final[s].recs \subseteq 1 .. writer.acked
  <2>1. Exists(final, s)
    BY <1>1, <1>5 DEF FilesFit
  <2>2. SealedBy(s) /\ Bytes(s) = final[s]
    BY <1>4, <2>1 DEF Bytes
  <2>3. Bytes(s).recs \subseteq 1 .. writer.acked
    BY <1>1, <1>2 DEF FramesFit
  <2> QED
    BY <2>2, <2>3 DEF SealedBy
<1>6. ASSUME NEW k \in 1 .. writer.acked
      PROVE  \E s \in Segments : Published(s) /\ k \in final[s].recs
  <2>1. PICK s \in Segments : k \in Bytes(s).recs
    BY <1>1, <1>6 DEF FramesFit
  <2>2. Exists(open, s) \/ Exists(final, s)
    BY <2>1 DEF Bytes, Empty
  <2>3. Published(s)
    BY <1>4, <2>2 DEF SealedBy
  <2>4. Bytes(s) = final[s]
    BY <1>1, <2>3 DEF FilesFit, Bytes
  <2> QED
    BY <2>1, <2>3, <2>4
<1>7. UNION {final[s].recs : s \in {t \in Segments: Published(t)}} = 1 .. writer.acked
  BY <1>5, <1>6
<1> QED
  BY <1>1, <1>2, <1>5, <1>7 DEF SealsFit

(* What any manifest of the run claims is so: of the bytes of a segment, of *)
(* the completeness of a run, and of a run closed after its writer.         *)
THEOREM RunClaimsAreTrue == ASSUME ~MayPause PROVE Spec => []ClaimsAreTrue
<1>1. ClaimsInvariant => ClaimsAreTrue
  BY CompleteIsAll DEF ClaimsInvariant, ClaimsAreTrue
<1> QED
  BY <1>1, ClaimsInductive, PTL

(* No manifest is ever written over another one, nor a manifest of the run, *)
(* by the writer, by the recovery or by the reconciliation.                 *)
THEOREM ManifestsStay == ASSUME ~MayPause PROVE Spec => EvidenceIsForGood
<1> DEFINE Stays == /\ \A s \in Segments: Published(s) => manifest'[s] = manifest[s]
                    /\ terminal # None => terminal' = terminal
                    /\ reconciled # None => reconciled' = reconciled
<1>1. ClaimsInvariant /\ [Next]_vars => Stays
  <2> SUFFICES ASSUME ClaimsInvariant, [Next]_vars PROVE Stays
    OBVIOUS
  <2>1. TypeOK /\ PlaceFits
    BY DEF ClaimsInvariant, FramesInvariant
  <2>2. CASE PublishSegment \/ PublishFails
    <3>1. writer.pc = "renamed"
      BY <2>2 DEF PublishSegment, PublishFails
    <3>2. writer.seg \in Segments /\ ~Published(writer.seg)
      BY <3>1, RenamedPlace
    <3>3. UNCHANGED <<terminal, reconciled>>
      BY <2>2 DEF PublishSegment, PublishFails
    <3>4. manifest' = manifest \/ manifest' = [manifest EXCEPT ![writer.seg] = Statement]
      BY <2>1, <2>2, PublishDoes, PublishFailsDoes
    <3>5. \A s \in Segments : Published(s) => manifest'[s] = manifest[s]
      BY <2>1, <3>2, <3>4 DEF TypeOK
    <3> QED
      BY <3>3, <3>5
  <2>3. CASE ScanPublishes
    <3>1. UNCHANGED <<terminal, reconciled>>
      BY <2>3 DEF ScanPublishes
    <3>2. \A s \in Segments : Published(s) => manifest'[s] = manifest[s]
      BY <2>1, <2>3 DEF ScanPublishes, TypeOK
    <3> QED
      BY <3>1, <3>2
  <2>4. CASE EndRun
    <3>1. terminal = None
      BY <2>4 DEF EndRun, ClaimsInvariant, TerminalFits
    <3> QED
      BY <2>4, <3>1 DEF EndRun
  <2>5. CASE AuditStep
    BY <2>5 DEF AuditStep, AuditInspects, ReconcileWrites
  <2>6. CASE \/ \E s \in Segments: FrameKept(s) \/ FrameRolledBack(s) \/ FrameTainted(s)
             \/ Rotate \/ \E status \in {"complete", "interrupted", "failed"}: Finish(status)
             \/ Checkpoint \/ DropCheckpoint \/ Die \/ TimeStep
             \/ ScanLists \/ ScanExamines \/ ScanTakes \/ ScanDies \/ UNCHANGED vars
    <3>1. UNCHANGED <<manifest, terminal, reconciled>>
      BY <2>6 DEF FrameKept, FrameRolledBack, FrameTainted, Rotate, Finish, Checkpoint,
                  DropCheckpoint, Die, TimeStep, SegmentAges, CheckpointAges, ScanLists,
                  ScanExamines, ScanTakes, ScanDies, vars
    <3> QED
      BY <3>1
  <2> QED
    BY <2>2, <2>3, <2>4, <2>5, <2>6 DEF Next, WriterStep, ScanStep
<1>2. ClaimsInvariant /\ [Next]_vars =>
         [/\ \A s \in Segments: Published(s) => manifest'[s] = manifest[s]
          /\ terminal # None => terminal' = terminal
          /\ reconciled # None => reconciled' = reconciled]_vars
  BY <1>1
<1> QED
  BY <1>2, ClaimsInductive, PTL DEF Spec, EvidenceIsForGood

=============================================================================
