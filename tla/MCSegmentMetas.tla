--------------------------- MODULE MCSegmentMetas ---------------------------
(* Small instances of SegmentMetas.  The index starts with two segments and *)
(* a target of one segment, so the first INSERT that gets the merge lock    *)
(* has something to merge.                                                  *)
EXTENDS FreezeLimit

MCStart == <<{1}, {2}>>

\* One segment keeps a live document when VACUUM takes document 2 from it,
\* the other is emptied when document 3 goes.
MCStartVacuum == <<{1, 2}, {3}>>
=============================================================================
