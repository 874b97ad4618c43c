---------------------------- MODULE SegmentedRaw ----------------------------
(***************************************************************************)
(* One capture run of the raw layer (src/guvolu/data/segmented_raw.py):    *)
(* the writer that appends each frame to the open segment, seals segments  *)
(* and ends the run with one manifest, and the two programs that work on   *)
(* the same directory when the writer is gone, recover_open_segments and   *)
(* reconcile_unfinished_segmented_runs.                                    *)
(*                                                                         *)
(* A segment is two possible files, segment-N.jsonl.open and               *)
(* segment-N.jsonl, and its manifest.  The bytes of a file are abstracted  *)
(* to the record sequence numbers on its complete lines and to whether a   *)
(* torn line follows them; a SHA-256 is the content it was taken of.       *)
(* The programs decide by age: a file is old when its mtime is before the  *)
(* cutoff (an hour, start_marketdata_pipeline.ps1:789).                    *)
(***************************************************************************)
EXTENDS Naturals, FiniteSets

CONSTANTS
    MaxSegments,    \* bound: segments of the run
    MaxRecords,     \* bound: frames the run may receive
    MayPause        \* may a live writer be silent for the whole cutoff?

ASSUME BoundAssumption == MaxSegments \in Nat \ {0} /\ MaxRecords \in Nat
ASSUME PauseAssumption == MayPause \in BOOLEAN

VARIABLES
    open,           \* segment-N.jsonl.open: its content, or Absent
    final,          \* segment-N.jsonl: its content, or Absent
    manifest,       \* segment-N.manifest.json, or None
    checkpoint,     \* checkpoint.json, or None
    terminal,       \* run.manifest.json, or None
    reconciled,     \* run.recovered-incomplete.manifest.json, or None
    old,            \* which of the live files are older than the cutoff
    writer,         \* memory of the SegmentedRawWriter
    scan,           \* progress of a recover_open_segments
    audit           \* progress of a reconcile_unfinished_segmented_runs

files == <<open, final, manifest>>
vars == <<open, final, manifest, checkpoint, terminal, reconciled, old,
          writer, scan, audit>>

-----------------------------------------------------------------------------
Segments == 1 .. MaxSegments
Records == 1 .. MaxRecords

Content == [recs: SUBSET Records, torn: BOOLEAN]
Absent == [recs |-> {}, torn |-> TRUE, absent |-> TRUE]
None == [none |-> TRUE]
Empty == [recs |-> {}, torn |-> FALSE]

\* What a manifest states of its segment: the bytes it hashed and the
\* number of records it counted.
Manifest == [status: {"sealed", "recovered_incomplete"},
             bytes: Content, count: Nat]
\* A receipt of a segment in a run manifest.
Receipt == [seg: Segments, bytes: Content, count: Nat]
Terminal == [status: {"complete", "interrupted", "failed"},
             records: Nat, receipts: SUBSET Receipt]

Exists(file, s) == file[s] # Absent
Published(s) == manifest[s] # None

\* The bytes of segment s, under whichever name they are found.
Bytes(s) == IF Exists(final, s) THEN final[s]
            ELSE IF Exists(open, s) THEN open[s] ELSE Empty

\* _sha256_file and the record counter agree with a content.
StatesOf(status, bytes, count) ==
    [status |-> status, bytes |-> bytes, count |-> count]

\* A process that has ended: every step of the writer is over.
Over == writer.pc \in {"done", "dead"}

\* The handle of the writer still points to the file after a rename.
PutBytes(s, bytes) ==
    IF Exists(final, s)
      THEN final' = [final EXCEPT ![s] = bytes] /\ UNCHANGED open
      ELSE open' = [open EXCEPT ![s] = bytes] /\ UNCHANGED final

-----------------------------------------------------------------------------
(* The writer.  pc: "run" between two calls, "rotated" inside a write_frame *)
(* that has sealed the previous segment, "renamed" inside seal_segment      *)
(* between the rename and the manifest, "closing" and "unlinked" inside     *)
(* finish, "done" after it; "dead" when the process was killed.  ending is  *)
(* the state finish was asked for, "none" while the run goes on.            *)

InitWriter ==
    [pc |-> "run", seg |-> 0, handle |-> FALSE, n |-> 0, acked |-> 0,
     sealed |-> {}, failed |-> FALSE, tainted |-> FALSE, ending |-> "none"]

\* _reset_active_segment
Reset(w) == [w EXCEPT !.n = 0, !.tainted = FALSE]

\* write_frame is at the point where it has a segment to append to.
Appending(s) ==
    /\ writer.pc \in {"run", "rotated"}
    /\ writer.ending = "none"
    /\ ~writer.failed
    /\ writer.acked < MaxRecords
    /\ s \in Segments
    /\ s = IF writer.handle THEN writer.seg ELSE writer.seg + 1

\* Faulty variant of FrameKept: the counter advances before the record is
\* numbered, so that its line carries the next number.
FrameNumberedLate(s) ==
    /\ Appending(s)
    /\ LET k == writer.acked + 1 IN
        /\ PutBytes(s, [recs |-> Bytes(s).recs \union {k + 1},
                        torn |-> FALSE])
        /\ writer' = [writer EXCEPT
              !.pc = "run", !.seg = s, !.handle = TRUE, !.acked = k,
              !.n = IF writer.handle THEN writer.n + 1 ELSE 1]
    /\ old' = old \ {"segment"}
    /\ UNCHANGED <<manifest, checkpoint, terminal, reconciled, scan, audit>>

\* A frame written and synced: the only case in which write_frame returns.
FrameKept(s) ==
    /\ Appending(s)
    /\ LET k == writer.acked + 1 IN
        /\ PutBytes(s, [recs |-> Bytes(s).recs \union {k}, torn |-> FALSE])
        /\ writer' = [writer EXCEPT
              !.pc = "run", !.seg = s, !.handle = TRUE, !.acked = k,
              !.n = IF writer.handle THEN writer.n + 1 ELSE 1]
    /\ old' = old \ {"segment"}
    /\ UNCHANGED <<manifest, checkpoint, terminal, reconciled, scan, audit>>

\* Faulty variant of FrameRolledBack: the file is cut back to nothing.
FrameCutToZero(s) ==
    /\ Appending(s)
    /\ PutBytes(s, Empty)
    /\ writer' = [writer EXCEPT
          !.pc = "run", !.seg = s, !.handle = TRUE, !.failed = TRUE,
          !.n = IF writer.handle THEN writer.n ELSE 0]
    /\ old' = old \ {"segment"}
    /\ UNCHANGED <<manifest, checkpoint, terminal, reconciled, scan, audit>>

\* The write or its fsync raised and the file was cut back to its length
\* before the frame: the writer refuses every further frame.
FrameRolledBack(s) ==
    /\ Appending(s)
    /\ PutBytes(s, Bytes(s))
    /\ writer' = [writer EXCEPT
          !.pc = "run", !.seg = s, !.handle = TRUE, !.failed = TRUE,
          !.n = IF writer.handle THEN writer.n ELSE 0]
    /\ old' = old \ {"segment"}
    /\ UNCHANGED <<manifest, checkpoint, terminal, reconciled, scan, audit>>

\* What an append that did not finish may leave behind: nothing, a torn
\* line, or the whole line nobody acknowledged.
Leftovers(bytes) ==
    {bytes, [bytes EXCEPT !.torn = TRUE],
     [bytes EXCEPT !.recs = @ \union {writer.acked + 1}]}

\* The roll back raised too: the end of the file is unknown.
FrameTainted(s) ==
    /\ Appending(s)
    /\ \E bytes \in Leftovers(Bytes(s)): PutBytes(s, bytes)
    /\ writer' = [writer EXCEPT
          !.pc = "run", !.seg = s, !.handle = TRUE, !.failed = TRUE,
          !.tainted = TRUE, !.n = IF writer.handle THEN writer.n ELSE 0]
    /\ old' = old \ {"segment"}
    /\ UNCHANGED <<manifest, checkpoint, terminal, reconciled, scan, audit>>

-----------------------------------------------------------------------------
(* seal_segment, called by write_frame when the rotation is due and by      *)
(* finish.  While finish runs an error of it turns the run into a failed    *)
(* one and the manifest of the run is written all the same.                 *)

AfterSealError(w) ==
    [w EXCEPT !.handle = FALSE, !.failed = TRUE, !.tainted = TRUE,
              !.pc = IF w.ending = "none" THEN "run" ELSE "closing",
              !.ending = IF w.ending = "none" THEN "none" ELSE "failed"]

\* The writer w closes the file and renames it; the close or the rename may
\* raise, and a segment without a record keeps the name .open.
CloseAndRename(w) ==
    LET s == w.seg IN
    \/ /\ w.n > 0
       /\ Exists(open, s)
       /\ final' = [final EXCEPT ![s] = open[s]]
       /\ open' = [open EXCEPT ![s] = Absent]
       /\ writer' = [w EXCEPT !.handle = FALSE, !.pc = "renamed"]
    \/ /\ w.n = 0
       /\ writer' = [w EXCEPT !.handle = FALSE, !.pc = "closing"]
       /\ UNCHANGED <<open, final>>
    \/ /\ writer' = AfterSealError(w)
       /\ UNCHANGED <<open, final>>

\* Rotation: the segment is old or large enough, and holds a record.
Rotate ==
    /\ writer.pc = "run"
    /\ writer.ending = "none"
    /\ ~writer.failed
    /\ writer.handle
    /\ writer.n > 0
    /\ writer.seg < MaxSegments
    /\ writer.acked < MaxRecords
    /\ CloseAndRename(writer)
    /\ UNCHANGED <<manifest, checkpoint, terminal, reconciled, old, scan,
                   audit>>

\* Faulty variant of Finish: the status asked for is kept although the
\* writer had failed.
FinishAsAsked(status) ==
    /\ writer.pc = "run" \/ (writer.pc = "rotated" /\ status = "failed")
    /\ writer.ending = "none"
    /\ LET w == [writer EXCEPT !.ending = status]
       IN IF w.tainted \/ ~w.handle
            THEN /\ writer' = [w EXCEPT !.handle = FALSE, !.pc = "closing"]
                 /\ UNCHANGED <<open, final>>
            ELSE CloseAndRename(w)
    /\ UNCHANGED <<manifest, checkpoint, terminal, reconciled, old, scan,
                   audit>>

\* finish: a writer that failed cannot end complete; a tainted segment is
\* left to the recovery; any other open segment is sealed first.
Finish(status) ==
    /\ writer.pc = "run" \/ (writer.pc = "rotated" /\ status = "failed")
    /\ writer.ending = "none"
    /\ LET w == [writer EXCEPT
                   !.ending = IF writer.failed THEN "failed" ELSE status]
       IN IF w.tainted \/ ~w.handle
            THEN /\ writer' = [w EXCEPT !.handle = FALSE, !.pc = "closing"]
                 /\ UNCHANGED <<open, final>>
            ELSE CloseAndRename(w)
    /\ UNCHANGED <<manifest, checkpoint, terminal, reconciled, old, scan,
                   audit>>

\* The status of the manifest: finish seals the segment of a writer that
\* rolled a frame back as recovered_incomplete.
SealStatus == IF writer.failed THEN "recovered_incomplete" ELSE "sealed"

\* The manifest is written.  In finish an error of the callback that
\* reports the segment still fails the run.
PublishSegment ==
    /\ writer.pc = "renamed"
    /\ LET s == writer.seg
           m == StatesOf(SealStatus, final[s], writer.n)
       IN /\ manifest' = [manifest EXCEPT ![s] = m]
          /\ \E ending \in {writer.ending} \union
                 (IF writer.ending = "none" THEN {} ELSE {"failed"}):
               writer' = [Reset(writer) EXCEPT
                  !.pc = IF writer.ending = "none" THEN "rotated"
                                                   ELSE "closing",
                  !.ending = ending,
                  !.sealed = @ \union
                     {[seg |-> s, bytes |-> m.bytes, count |-> m.count]}]
    /\ UNCHANGED <<open, final, checkpoint, terminal, reconciled, old, scan,
                   audit>>

\* The manifest could not be written: the file goes back to its open name,
\* unless that raises too, or the manifest had landed before the error.
PublishFails ==
    /\ writer.pc = "renamed"
    /\ writer' = AfterSealError(writer)
    /\ LET s == writer.seg IN
        \/ /\ ~Published(s)
           /\ open' = [open EXCEPT ![s] = final[s]]
           /\ final' = [final EXCEPT ![s] = Absent]
           /\ UNCHANGED manifest
        \/ UNCHANGED files
        \/ /\ manifest' = [manifest EXCEPT
                ![s] = StatesOf(SealStatus, final[s], writer.n)]
           /\ UNCHANGED <<open, final>>
    /\ UNCHANGED <<checkpoint, terminal, reconciled, old, scan, audit>>

-----------------------------------------------------------------------------
(* checkpoint, the end of finish, and the death of the process.             *)

Checkpoint ==
    /\ writer.pc = "run"
    /\ writer.ending = "none"
    /\ ~writer.failed
    /\ checkpoint' = [records |-> writer.acked,
                      segments |-> Cardinality(writer.sealed)]
    /\ old' = old \ {"checkpoint"}
    /\ UNCHANGED <<open, final, manifest, terminal, reconciled, writer, scan,
                   audit>>

\* Every record the writer counted is in a segment it sealed.
SealedRecords == UNION {r.bytes.recs : r \in writer.sealed}
CountsAgree == Cardinality(SealedRecords) = writer.acked

\* finish drops the checkpoint; a complete run whose counts disagree is
\* refused, and the process ends without a manifest of the run.
DropCheckpoint ==
    /\ writer.pc = "closing"
    /\ IF writer.ending = "complete" /\ ~CountsAgree
         THEN /\ writer' = [writer EXCEPT !.pc = "dead"]
              /\ UNCHANGED <<checkpoint, old>>
         ELSE /\ writer' = [writer EXCEPT !.pc = "unlinked"]
              /\ checkpoint' = None
              /\ old' = old \ {"checkpoint"}
    /\ UNCHANGED <<open, final, manifest, terminal, reconciled, scan, audit>>

EndRun ==
    /\ writer.pc = "unlinked"
    /\ terminal' = [status |-> writer.ending, records |-> writer.acked,
                    receipts |-> writer.sealed]
    /\ writer' = [writer EXCEPT !.pc = "done"]
    /\ UNCHANGED <<open, final, manifest, checkpoint, reconciled, old, scan,
                   audit>>

\* The process is killed; an append it was in may have left anything.
Die ==
    /\ ~Over
    /\ writer' = [writer EXCEPT !.pc = "dead", !.handle = FALSE]
    /\ \/ UNCHANGED <<open, final, old>>
       \/ /\ \E s \in Segments:
               /\ Appending(s)
               /\ \E bytes \in Leftovers(Bytes(s)): PutBytes(s, bytes)
          /\ old' = old \ {"segment"}
    /\ UNCHANGED <<manifest, checkpoint, terminal, reconciled, scan, audit>>

-----------------------------------------------------------------------------
(* Time.  A live writer renews the checkpoint every minute, so that its     *)
(* checkpoint grows old only when it may pause; the segment of a sparse     *)
(* stream grows old under a live writer, but not before a first checkpoint. *)

SegmentAges ==
    /\ "segment" \notin old
    /\ \E s \in Segments: Exists(open, s) \/ Exists(final, s)
    /\ Over \/ MayPause \/ checkpoint # None
    /\ old' = old \union {"segment"}
    /\ UNCHANGED <<open, final, manifest, checkpoint, terminal, reconciled,
                   writer, scan, audit>>

CheckpointAges ==
    /\ "checkpoint" \notin old
    /\ checkpoint # None
    /\ Over \/ MayPause
    /\ old' = old \union {"checkpoint"}
    /\ UNCHANGED <<open, final, manifest, checkpoint, terminal, reconciled,
                   writer, scan, audit>>

-----------------------------------------------------------------------------
(* recover_open_segments: one candidate at a time.  The list is made first, *)
(* and by the time a candidate is examined, renamed or published the writer *)
(* may have moved on.                                                       *)

Idle == [pc |-> "idle"]

Listed(s, isOpen) == [pc |-> "listed", seg |-> s, isOpen |-> isOpen]

\* Faulty variant of ScanLists: only files that still have the open name.
ScanListsOpen ==
    /\ scan = Idle
    /\ \E s \in Segments: Exists(open, s) /\ scan' = Listed(s, TRUE)
    /\ UNCHANGED <<open, final, manifest, checkpoint, terminal, reconciled,
                   old, writer, audit>>

ScanLists ==
    /\ scan = Idle
    /\ \E s \in Segments:
         \/ Exists(open, s) /\ scan' = Listed(s, TRUE)
         \/ Exists(final, s) /\ ~Published(s) /\ scan' = Listed(s, FALSE)
    /\ UNCHANGED <<open, final, manifest, checkpoint, terminal, reconciled,
                   old, writer, audit>>

\* Faulty variant of Abandoned: the age of the checkpoint is not asked for.
AbandonedByMtime(s, isOpen) ==
    /\ Exists(open, s) = isOpen
    /\ Exists(final, s) = ~isOpen
    /\ "segment" \in old
    /\ ~Bytes(s).torn
    /\ Bytes(s).recs # {}

\* The candidate is still there, alone, silent, under no fresh checkpoint,
\* and every line of it is a record.
Abandoned(s, isOpen) ==
    /\ Exists(open, s) = isOpen
    /\ Exists(final, s) = ~isOpen
    /\ "segment" \in old
    /\ checkpoint = None \/ "checkpoint" \in old
    /\ ~Bytes(s).torn
    /\ Bytes(s).recs # {}

ScanExamines ==
    /\ scan.pc = "listed"
    /\ scan' = IF Abandoned(scan.seg, scan.isOpen)
                 THEN [pc |-> "read", seg |-> scan.seg,
                       isOpen |-> scan.isOpen,
                       count |-> Cardinality(Bytes(scan.seg).recs)]
                 ELSE Idle
    /\ UNCHANGED <<open, final, manifest, checkpoint, terminal, reconciled,
                   old, writer, audit>>

\* Rename an open candidate; a candidate that is gone ends the scan.
ScanTakes ==
    /\ scan.pc = "read"
    /\ LET s == scan.seg IN
        \/ /\ scan.isOpen
           /\ Exists(open, s)
           /\ final' = [final EXCEPT ![s] = open[s]]
           /\ open' = [open EXCEPT ![s] = Absent]
           /\ scan' = [pc |-> "taken", seg |-> s, bytes |-> open[s],
                       count |-> scan.count]
        \/ /\ ~scan.isOpen
           /\ Exists(final, s)
           /\ scan' = [pc |-> "taken", seg |-> s, bytes |-> final[s],
                       count |-> scan.count]
           /\ UNCHANGED <<open, final>>
    /\ UNCHANGED <<manifest, checkpoint, terminal, reconciled, old, writer,
                   audit>>

\* Faulty variant of ScanPublishes: a manifest that appeared since the list
\* was made is replaced.
ScanPublishesBlindly ==
    /\ scan.pc = "taken"
    /\ manifest' = [manifest EXCEPT ![scan.seg] =
                       StatesOf("recovered_incomplete", scan.bytes,
                                scan.count)]
    /\ scan' = Idle
    /\ UNCHANGED <<open, final, checkpoint, terminal, reconciled, old,
                   writer, audit>>

ScanPublishes ==
    /\ scan.pc = "taken"
    /\ manifest' = IF Published(scan.seg) THEN manifest
                   ELSE [manifest EXCEPT ![scan.seg] =
                           StatesOf("recovered_incomplete", scan.bytes,
                                    scan.count)]
    /\ scan' = Idle
    /\ UNCHANGED <<open, final, checkpoint, terminal, reconciled, old,
                   writer, audit>>

\* The recovery is killed, or a step of it raised.
ScanDies ==
    /\ scan # Idle
    /\ scan' = Idle
    /\ UNCHANGED <<open, final, manifest, checkpoint, terminal, reconciled,
                   old, writer, audit>>

-----------------------------------------------------------------------------
(* reconcile_unfinished_segmented_runs: a directory without a manifest of   *)
(* the run is inspected as a whole, and gets one that claims nothing but    *)
(* the receipts; the target is checked again before it is written.          *)

FinalSegments == {s \in Segments: Exists(final, s)}

\* _segment_receipt_for_audit: the manifest states the bytes.
ReceiptHolds(s) ==
    /\ Published(s)
    /\ manifest[s].bytes = final[s]
    /\ manifest[s].count = Cardinality(final[s].recs)
    /\ ~final[s].torn

FinalRecords == UNION {final[s].recs : s \in FinalSegments}

\* Faulty variant of Eligible: a fresh checkpoint is no issue.
EligibleAtAnyAge ==
    /\ terminal = None
    /\ reconciled = None
    /\ checkpoint # None
    /\ \A s \in Segments: ~Exists(open, s)
    /\ \A s \in FinalSegments: ReceiptHolds(s) /\ 1 .. s \subseteq FinalSegments
    /\ FinalRecords = 1 .. Cardinality(FinalRecords)
    /\ checkpoint.records = Cardinality(FinalRecords)
    /\ Cardinality(FinalSegments) \in
          checkpoint.segments .. checkpoint.segments + 1

\* _inspect_unfinished_segmented_runs finds no issue.
Eligible ==
    /\ terminal = None
    /\ reconciled = None
    /\ checkpoint # None
    /\ "checkpoint" \in old
    /\ \A s \in Segments: ~Exists(open, s)
    /\ \A s \in FinalSegments: ReceiptHolds(s) /\ 1 .. s \subseteq FinalSegments
    /\ FinalRecords = 1 .. Cardinality(FinalRecords)
    /\ checkpoint.records = Cardinality(FinalRecords)
    /\ Cardinality(FinalSegments) \in
          checkpoint.segments .. checkpoint.segments + 1

AuditInspects ==
    /\ audit = Idle
    /\ Eligible
    /\ audit' = [pc |-> "inspected", checkpoint |-> checkpoint,
                 records |-> Cardinality(FinalRecords),
                 receipts |-> {[seg |-> s, bytes |-> final[s],
                                count |-> manifest[s].count]
                               : s \in FinalSegments}]
    /\ UNCHANGED <<open, final, manifest, checkpoint, terminal, reconciled,
                   old, writer, scan>>

ReconcileWrites ==
    /\ audit.pc = "inspected"
    /\ reconciled' = IF /\ reconciled = None
                        /\ terminal = None
                        /\ \A s \in Segments: ~Exists(open, s)
                        /\ checkpoint = audit.checkpoint
                       THEN [records |-> audit.records,
                             receipts |-> audit.receipts]
                       ELSE reconciled
    /\ audit' = Idle
    /\ UNCHANGED <<open, final, manifest, checkpoint, terminal, old, writer,
                   scan>>

-----------------------------------------------------------------------------
Init ==
    /\ open = [s \in Segments |-> Absent]
    /\ final = [s \in Segments |-> Absent]
    /\ manifest = [s \in Segments |-> None]
    /\ checkpoint = None
    /\ terminal = None
    /\ reconciled = None
    /\ old = {}
    /\ writer = InitWriter
    /\ scan = Idle
    /\ audit = Idle

WriterStep ==
    \/ \E s \in Segments: FrameKept(s) \/ FrameRolledBack(s) \/ FrameTainted(s)
    \/ Rotate
    \/ \E status \in {"complete", "interrupted", "failed"}: Finish(status)
    \/ PublishSegment
    \/ PublishFails
    \/ Checkpoint
    \/ DropCheckpoint
    \/ EndRun
    \/ Die

TimeStep == SegmentAges \/ CheckpointAges

ScanStep ==
    ScanLists \/ ScanExamines \/ ScanTakes \/ ScanPublishes \/ ScanDies

AuditStep == AuditInspects \/ ReconcileWrites

Next == WriterStep \/ TimeStep \/ ScanStep \/ AuditStep

Spec == Init /\ [][Next]_vars

(***************************************************************************)
(* The pipeline script runs the recovery at every start of it, and a guard *)
(* task starts the pipeline again and again; time passes.  A recovery may  *)
(* be killed, but not each time at the same step.                          *)
(***************************************************************************)
FairSpec ==
    /\ Spec
    /\ WF_vars(SegmentAges)
    /\ WF_vars(CheckpointAges)
    /\ WF_vars(ScanLists)
    /\ SF_vars(ScanExamines)
    /\ SF_vars(ScanTakes)
    /\ SF_vars(ScanPublishes)

-----------------------------------------------------------------------------
(* Properties                                                              *)

FileContent == Content \union {Absent}

WriterState ==
    [pc: {"run", "rotated", "renamed", "closing", "unlinked", "done", "dead"},
     seg: 0 .. MaxSegments, handle: BOOLEAN, n: Nat, acked: Nat,
     sealed: SUBSET Receipt, failed: BOOLEAN, tainted: BOOLEAN,
     ending: {"none", "complete", "interrupted", "failed"}]

ScanState ==
    {Idle}
    \union [pc: {"listed"}, seg: Segments, isOpen: BOOLEAN]
    \union [pc: {"read"}, seg: Segments, isOpen: BOOLEAN, count: Nat]
    \union [pc: {"taken"}, seg: Segments, bytes: Content, count: Nat]

AuditState ==
    {Idle}
    \union [pc: {"inspected"}, checkpoint: [records: Nat, segments: Nat],
             records: Nat, receipts: SUBSET Receipt]

\* Every variable has its type: files hold records of the run, manifests and
\* receipts state contents.
TypeOK ==
    /\ open \in [Segments -> FileContent]
    /\ final \in [Segments -> FileContent]
    /\ manifest \in [Segments -> Manifest \union {None}]
    /\ checkpoint \in [records: Nat, segments: Nat] \union {None}
    /\ terminal \in Terminal \union {None}
    /\ reconciled \in [records: Nat, receipts: SUBSET Receipt] \union {None}
    /\ old \subseteq {"segment", "checkpoint"}
    /\ writer \in WriterState
    /\ scan \in ScanState
    /\ audit \in AuditState

\* A frame whose write_frame returned stays on disk, in exactly one segment
\* and in the order it came, through roll backs, failed seals, the death of
\* the writer and the recovery of what it left; nothing but the one frame
\* that was being appended may be there unacknowledged.
AcknowledgedIsKept ==
    /\ \A k \in 1 .. writer.acked:
         Cardinality({s \in Segments: k \in Bytes(s).recs}) = 1
    /\ \A s, t \in Segments: \A j \in Bytes(s).recs, k \in Bytes(t).recs:
         s < t => j < k
    /\ \A s \in Segments: Bytes(s).recs \subseteq 1 .. writer.acked + 1

\* A manifest states the bytes of its segment and their number, whoever
\* wrote it; a segment whose manifest claims completion holds acknowledged
\* frames only and no torn line.
ManifestIsTrue ==
    \A s \in Segments: Published(s) =>
        /\ manifest[s].bytes = final[s]
        /\ manifest[s].count = Cardinality(final[s].recs)
        /\ ~final[s].torn
        /\ manifest[s].status = "sealed" =>
              final[s].recs \subseteq 1 .. writer.acked

\* Evidence is never rewritten: neither the manifest of a segment nor a
\* manifest of the run, by the writer or by the recovery.
EvidenceIsForGood ==
    [][/\ \A s \in Segments: Published(s) => manifest'[s] = manifest[s]
       /\ terminal # None => terminal' = terminal
       /\ reconciled # None => reconciled' = reconciled]_vars

\* A run that ends complete holds every frame it acknowledged in segments
\* whose manifests claim completion, although an error of the disk may have
\* been taken for one of the connection by the recorder.
CompleteMeansAll ==
    (terminal # None /\ terminal.status = "complete") =>
        /\ UNION {final[s].recs : s \in {t \in Segments: Published(t)}}
              = 1 .. terminal.records
        /\ \A s \in Segments: Published(s) => manifest[s].status = "sealed"
        /\ \A r \in terminal.receipts:
              Published(r.seg) /\ manifest[r.seg].bytes = r.bytes

\* A run is closed once: what the reconciliation states is stated of a run
\* whose writer died before its own manifest, and it states every frame the
\* writer had acknowledged.
ReconciledIsLast ==
    reconciled # None =>
        /\ terminal = None
        /\ writer.pc = "dead"
        /\ reconciled.records >= writer.acked

\* What any manifest of the run claims is so: of the bytes of a segment, of
\* the completeness of a run, and of a run that was closed after its writer.
ClaimsAreTrue == ManifestIsTrue /\ CompleteMeansAll /\ ReconciledIsLast

(***************************************************************************)
(* The inductive invariants behind these.  The first is about the frames   *)
(* and holds whatever the clock does.                                      *)
(***************************************************************************)
\* A segment has one of its two names, none ahead of a writer that lives.
NamesFit ==
    \A s \in Segments:
        /\ ~(Exists(open, s) /\ Exists(final, s))
        /\ (s > writer.seg /\ writer.pc # "dead") =>
             ~Exists(open, s) /\ ~Exists(final, s)

\* Where the writer is: with a handle only between two calls, between the
\* rename and the manifest with a file that has its final name, and in its
\* last steps with the status of the run.
PlaceFits ==
    /\ writer.handle =>
         writer.pc = "run" /\ writer.ending = "none" /\ writer.seg \in Segments
    /\ writer.pc = "renamed" =>
         writer.seg \in Segments /\ Exists(final, writer.seg)
    /\ writer.pc \in {"closing", "unlinked"} => writer.ending # "none"
    /\ IsFiniteSet(writer.sealed)

\* The acknowledged frames are on disk and in their order; only a writer
\* that failed or died leaves more than those.
FramesFit ==
    /\ \A k \in 1 .. writer.acked: \E s \in Segments: k \in Bytes(s).recs
    /\ \A s, t \in Segments: \A j \in Bytes(s).recs, k \in Bytes(t).recs:
         s < t => j < k
    /\ \A s \in Segments: Bytes(s).recs \subseteq 1 .. writer.acked + 1
    /\ (~writer.failed /\ writer.pc # "dead") =>
         \A s \in Segments: Bytes(s).recs \subseteq 1 .. writer.acked

\* The conjunction every step keeps, with a writer that pauses or without.
FramesInvariant == TypeOK /\ NamesFit /\ PlaceFits /\ FramesFit

(***************************************************************************)
(* The second is about the manifests, for a writer that renews its         *)
(* checkpoint (MayPause = FALSE).                                          *)
(***************************************************************************)
\* No manifest without the file, no torn line under the final name.
FilesFit ==
    \A s \in Segments:
        /\ Published(s) => Exists(final, s)
        /\ Exists(final, s) => ~final[s].torn

\* A writer with a handle appends to the open file of its segment, whose
\* lines it has counted unless it lost track of them.
HandleFits ==
    /\ writer.tainted => writer.failed
    /\ writer.handle =>
         /\ Exists(open, writer.seg)
         /\ writer.failed \/ writer.n > 0
         /\ ~writer.tainted =>
               /\ ~open[writer.seg].torn
               /\ writer.n = Cardinality(open[writer.seg].recs)

\* Between the rename and the manifest the writer is alone with the segment.
RenamedFits ==
    writer.pc = "renamed" =>
        /\ ~Published(writer.seg)
        /\ writer.n = Cardinality(final[writer.seg].recs)

\* The writer sealed segment s and holds its receipt.
SealedBy(s) ==
    /\ Published(s) /\ manifest[s].status = "sealed"
    /\ [seg |-> s, bytes |-> final[s], count |-> manifest[s].count]
          \in writer.sealed

\* A writer that did not fail has sealed all it is not working on.
SealsFit ==
    /\ (~writer.failed /\ writer.pc # "dead") =>
         \A s \in 1 .. writer.seg:
            SealedBy(s) \/ (s = writer.seg
                              /\ (writer.handle \/ writer.pc = "renamed"))
    /\ writer.ending = "complete" => ~writer.failed
    /\ \A r \in writer.sealed:
         Published(r.seg) /\ manifest[r.seg].bytes = r.bytes

\* The manifest of the run is what the writer ended with.
TerminalFits ==
    /\ writer.pc \in {"unlinked", "done"} => checkpoint = None
    /\ terminal # None =>
         /\ writer.pc = "done"
         /\ terminal = [status |-> writer.ending, records |-> writer.acked,
                        receipts |-> writer.sealed]

\* The writer does not touch the files of a segment any more.
Quiet == writer.pc \in {"unlinked", "done", "dead"}

\* What has grown old was left by a writer that is over.
AgesFit ==
    /\ ("segment" \in old /\ checkpoint = None) => Quiet
    /\ "checkpoint" \in old => Over

\* A recovery past its examination is alone with the segment.
ScanFits ==
    /\ scan.pc \in {"read", "taken"} => Quiet
    /\ scan.pc = "read" =>
         /\ Exists(open, scan.seg) = scan.isOpen
         /\ Exists(final, scan.seg) = ~scan.isOpen
         /\ ~Bytes(scan.seg).torn
         /\ scan.count = Cardinality(Bytes(scan.seg).recs)
    /\ scan.pc = "taken" =>
         /\ Exists(final, scan.seg)
         /\ scan.bytes = final[scan.seg]
         /\ scan.count = Cardinality(final[scan.seg].recs)

\* A reconciliation past its inspection is of a dead writer, and of a
\* directory that holds all the writer acknowledged.
AuditFits ==
    audit.pc = "inspected" =>
        writer.pc = "dead" /\ audit.records >= writer.acked

\* The conjunction every step keeps when a writer renews its checkpoint.
ClaimsInvariant ==
    /\ FramesInvariant
    /\ FilesFit
    /\ HandleFits
    /\ RenamedFits
    /\ SealsFit
    /\ TerminalFits
    /\ AgesFit
    /\ ScanFits
    /\ AuditFits
    /\ ManifestIsTrue
    /\ ReconciledIsLast

\* Whole lines that were left behind by a writer are published in the end.
AbandonedIsPublished ==
    \A s \in Segments:
        (Over /\ Bytes(s).recs # {} /\ ~Bytes(s).torn) ~> Published(s)
=============================================================================
