--------------------------- MODULE MCSegmentFiles ---------------------------
(* A segment file of up to six pages, with packers of two and four blocks. *)
EXTENDS SegmentFiles
=============================================================================
