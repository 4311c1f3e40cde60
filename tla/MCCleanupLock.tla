--------------------------- MODULE MCCleanupLock ---------------------------
(* Two heap blocks, each with a live and a dead tuple; segments that keep a *)
(* live document.                                                           *)
EXTENDS CleanupLock

MCBlockOf == [t1 |-> "b1", d1 |-> "b1", t2 |-> "b2", d2 |-> "b2"]

MCDocsOf  == [g1 |-> {"t1", "d2"}, g2 |-> {"t2", "d1"}]
=============================================================================
