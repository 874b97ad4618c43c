--------------------------- MODULE MCSegmentedRaw ---------------------------
(* A run of SegmentedRaw with three segments and four frames: a rotation, a *)
(* sealed and an abandoned segment, and a frame lost in between.            *)
EXTENDS SegmentedRaw
=============================================================================
