---------------------------- MODULE CleanupLock ----------------------------
(***************************************************************************)
(* The CLEANUP_LOCK page: VACUUM against scans that answer from the        *)
(* visibility map (index/reader/index.rs, postgres/delete.rs,              *)
(* exec_methods/normal.rs).                                                *)
(*                                                                         *)
(* SELECT COUNT does not fetch heap tuples from all-visible blocks, so it  *)
(* must not come by a ctid that VACUUM is about to let go.  Readers pin    *)
(* the page before they open the index; ambulkdelete waits until nobody    *)
(* has it pinned before PostgreSQL removes the dead line pointers and sets *)
(* the blocks all-visible.  One VACUUM; every scan runs once.  A scan may  *)
(* belong to a statement whose body inserts into the same table.           *)
(***************************************************************************)
EXTENDS Naturals

CONSTANTS
  Scans,        \* scans that use the visibility map
  Inserting,    \* those whose statement also runs a bulk INSERT
  Tuples, Dead, \* heap tuples, and those that are dead to every transaction
  BlockOf,      \* BlockOf[t]: the heap block of tuple t
  Segments,
  DocsOf        \* DocsOf[g]: the tuples whose ctids segment g holds

Blocks     == {BlockOf[t] : t \in Tuples}
DeadBlocks == {BlockOf[t] : t \in Dead}
NoBlock    == "none"
Nobody     == "nobody"
Vacuum     == "vacuum"

ASSUME CleanupAssumption ==
  /\ Inserting \subseteq Scans /\ Dead \subseteq Tuples
  /\ DocsOf \in [Segments -> SUBSET Tuples]
  /\ NoBlock \notin Blocks /\ Nobody \notin Scans /\ Vacuum \notin Scans

VARIABLES
  pins,       \* the scans that have the CLEANUP_LOCK buffer pinned
  mergeLock,  \* who has the MERGE_LOCK buffer locked
  deleted,    \* the tuples recorded in delete files
  retired,    \* the segments to which VACUUM gave an xmax
  allVisible, \* the blocks whose visibility map bit is set
  vpc,        \* where VACUUM is
  pc,         \* where each scan is
  sees,       \* the scans whose snapshot sees the VACUUM's transaction ended
  results,    \* results[s]: the ctids s has still to look at
  block,      \* block[s]: blockvis.0, the block s looked up last
  visible,    \* blockvis.1: the scans that found it all-visible
  counted     \* counted[s]: the ctids returned without a look at the heap

scanVars == <<pc, sees, results, block, visible, counted>>
vars == <<pins, mergeLock, deleted, retired, allVisible, vpc, scanVars>>

Init ==
  /\ pins = {} /\ mergeLock = Nobody
  /\ deleted = {} /\ retired = {}
  /\ allVisible = Blocks \ DeadBlocks
  /\ vpc = "heap"
  /\ pc = [s \in Scans |-> "idle"]
  /\ sees = {}
  /\ results = [s \in Scans |-> {}]
  /\ block = [s \in Scans |-> NoBlock] /\ visible = {}
  /\ counted = [s \in Scans |-> {}]

-----------------------------------------------------------------------------
(* A scan: rescan_custom_scan, SearchIndexReader::open, internal_next       *)

TakeSnapshot(s) ==
  /\ pc[s] = "idle"
  /\ pc' = [pc EXCEPT ![s] = "snapshot"]
  /\ sees' = IF vpc = "ended" THEN sees \cup {s} ELSE sees
  /\ UNCHANGED <<pins, mergeLock, deleted, retired, allVisible, vpc,
                 results, block, visible, counted>>

\* Mutant of PinCleanupLock: the reader does without the pin.
ForgetCleanupLock(s) ==
  /\ pc[s] = "snapshot"
  /\ pc' = [pc EXCEPT ![s] = "pinned"]
  /\ UNCHANGED <<pins, mergeLock, deleted, retired, allVisible, vpc,
                 sees, results, block, visible, counted>>

\* bman.pinned_buffer(CLEANUP_LOCK): a pin waits for nobody.
PinCleanupLock(s) ==
  /\ pc[s] = "snapshot"
  /\ pc' = [pc EXCEPT ![s] = "pinned"]
  /\ pins' = pins \cup {s}
  /\ UNCHANGED <<mergeLock, deleted, retired, allVisible, vpc,
                 sees, results, block, visible, counted>>

\* A segment VACUUM retired is still visible to a snapshot that does not see
\* the VACUUM.
VisibleSegments(s) == IF s \in sees THEN Segments \ retired ELSE Segments

OpenIndex(s) ==
  /\ pc[s] = "pinned"
  /\ pc' = [pc EXCEPT ![s] = "open"]
  /\ results' = [results EXCEPT ![s] =
                   (UNION {DocsOf[g] : g \in VisibleSegments(s)}) \ deleted]
  /\ UNCHANGED <<pins, mergeLock, deleted, retired, allVisible, vpc,
                 sees, block, visible, counted>>

\* The visibility of a tuple's block, from the cache if it was the last one.
IsVisible(s, t) ==
  IF block[s] = BlockOf[t] THEN s \in visible ELSE BlockOf[t] \in allVisible

\* The next result, in any order: counted if its block is all-visible, else
\* looked up in the heap (which finds nothing for a dead tuple).
InternalNext(s, t) ==
  /\ pc[s] \in {"open", "inserted"} /\ t \in results[s]
  /\ results' = [results EXCEPT ![s] = @ \ {t}]
  /\ block' = [block EXCEPT ![s] = BlockOf[t]]
  /\ visible' = IF IsVisible(s, t) THEN visible \cup {s} ELSE visible \ {s}
  /\ counted' = [counted EXCEPT ![s] = IF IsVisible(s, t) THEN @ \cup {t} ELSE @]
  /\ UNCHANGED <<pins, mergeLock, deleted, retired, allVisible, vpc, pc, sees>>

\* The statement's body inserts: set_num_segments asks for the MERGE_LOCK
\* buffer and waits for it, with the scan still open.
BeginBulkInsert(s) ==
  /\ s \in Inserting /\ pc[s] = "open"
  /\ pc' = [pc EXCEPT ![s] = "inserting"]
  /\ UNCHANGED <<pins, mergeLock, deleted, retired, allVisible, vpc,
                 sees, results, block, visible, counted>>

SetNumSegments(s) ==
  /\ pc[s] = "inserting" /\ mergeLock = Nobody
  /\ pc' = [pc EXCEPT ![s] = "inserted"]
  /\ UNCHANGED <<pins, mergeLock, deleted, retired, allVisible, vpc,
                 sees, results, block, visible, counted>>

\* The reader is dropped, at the end of the results or before (LIMIT).
EndScan(s) ==
  /\ pc[s] \in {"open", "inserted"}
  /\ pc' = [pc EXCEPT ![s] = "done"]
  /\ pins' = pins \ {s}
  /\ results' = [results EXCEPT ![s] = {}]
  /\ UNCHANGED <<mergeLock, deleted, retired, allVisible, vpc, sees, block, visible, counted>>

-----------------------------------------------------------------------------
(* VACUUM: ambulkdelete, and PostgreSQL's second pass over the heap         *)

AcquireForDelete ==
  /\ vpc = "heap" /\ mergeLock = Nobody
  /\ mergeLock' = Vacuum
  /\ vpc' = "locked"
  /\ UNCHANGED <<pins, deleted, retired, allVisible, scanVars>>

\* The delete files of the segments that keep a live document; the others
\* leave the meta, unless none is left (BulkDelete of SegmentMetas).
Emptied == {g \in Segments : DocsOf[g] \subseteq Dead}

BulkDelete ==
  /\ vpc = "locked"
  /\ vpc' = "committed"
  /\ IF Emptied = Segments
     THEN UNCHANGED <<deleted, retired>>
     ELSE /\ deleted' = deleted \cup (Dead \cap UNION {DocsOf[g] : g \in Segments \ Emptied})
          /\ retired' = Emptied
  /\ UNCHANGED <<pins, mergeLock, allVisible, scanVars>>

\* Mutant of DropMergeLock: the merge lock is kept until ambulkdelete returns.
KeepMergeLock ==
  /\ vpc = "committed"
  /\ vpc' = "cleanup"
  /\ UNCHANGED <<pins, mergeLock, deleted, retired, allVisible, scanVars>>

\* drop(merge_lock), so that a scan whose statement waits for it can go on.
DropMergeLock ==
  /\ vpc = "committed"
  /\ mergeLock' = Nobody
  /\ vpc' = "cleanup"
  /\ UNCHANGED <<pins, deleted, retired, allVisible, scanVars>>

\* LockBufferForCleanup(CLEANUP_LOCK), only if something was deleted.
DidDelete == Dead \cap UNION {DocsOf[g] : g \in Segments} # {}

AcquireCleanupLock ==
  /\ vpc = "cleanup"
  /\ DidDelete => pins = {}
  /\ vpc' = "returned"
  /\ UNCHANGED <<pins, mergeLock, deleted, retired, allVisible, scanVars>>

\* lazy_vacuum_heap_rel: the dead line pointers of a block are set unused and
\* the block all-visible.
VacuumHeapBlock(b) ==
  /\ vpc = "returned" /\ b \in DeadBlocks \ allVisible
  /\ allVisible' = allVisible \cup {b}
  /\ UNCHANGED <<pins, mergeLock, deleted, retired, vpc, scanVars>>

EndVacuum ==
  /\ vpc = "returned" /\ DeadBlocks \subseteq allVisible
  /\ vpc' = "ended"
  /\ UNCHANGED <<pins, mergeLock, deleted, retired, allVisible, scanVars>>

-----------------------------------------------------------------------------
ScanStep(s) ==
  \/ TakeSnapshot(s) \/ PinCleanupLock(s) \/ OpenIndex(s)
  \/ \E t \in Tuples : InternalNext(s, t)
  \/ BeginBulkInsert(s) \/ SetNumSegments(s) \/ EndScan(s)

VacuumStep ==
  \/ AcquireForDelete \/ BulkDelete \/ DropMergeLock \/ AcquireCleanupLock
  \/ \E b \in Blocks : VacuumHeapBlock(b)
  \/ EndVacuum

Next == (\E s \in Scans : ScanStep(s)) \/ VacuumStep

Spec == Init /\ [][Next]_vars

\* Statements and the VACUUM go on unless they wait for a lock.
FairSpec == Spec /\ WF_vars(VacuumStep) /\ \A s \in Scans : WF_vars(ScanStep(s))

-----------------------------------------------------------------------------
\* Types; the MERGE_LOCK buffer is VACUUM's or nobody's between steps.
TypeOK ==
  /\ pins \subseteq Scans
  /\ mergeLock \in {Nobody, Vacuum}
  /\ deleted \subseteq Tuples /\ retired \subseteq Segments
  /\ allVisible \subseteq Blocks
  /\ vpc \in {"heap", "locked", "committed", "cleanup", "returned", "ended"}
  /\ pc \in [Scans -> {"idle", "snapshot", "pinned", "open", "inserting", "inserted", "done"}]
  /\ sees \subseteq Scans
  /\ results \in [Scans -> SUBSET Tuples]
  /\ block \in [Scans -> Blocks \cup {NoBlock}] /\ visible \subseteq Scans
  /\ counted \in [Scans -> SUBSET Tuples]

\* The cleanup lock "guarantees that there are no pins on the index", and the
\* scans after it see "the new deleted state of the docs": a scan that trusts
\* the visibility map never returns a dead tuple.
CountedAreVisible == \A s \in Scans : counted[s] \cap Dead = {}

\* ambulkdelete returns, however scans and the inserts of their statements
\* interleave with it ("holding it while we potentially acquire the
\* CLEANUP_LOCK below can cause deadlocks").
VacuumReturns == vpc = "locked" ~> vpc = "ended"

\* Every scan ends, with or without inserts that need the MERGE_LOCK.
ScansEnd == \A s \in Scans : pc[s] = "pinned" ~> pc[s] = "done"

-----------------------------------------------------------------------------
(* The inductive invariant behind CountedAreVisible, for indexes of which   *)
(* VACUUM empties no segment: while a scan has a dead ctid to look at, it   *)
(* holds a pin, so VACUUM has not passed the cleanup lock.                  *)
Indexed == UNION {DocsOf[g] : g \in Segments}

CleanupInv ==
  /\ \A s \in Scans : pc[s] \in {"pinned", "open", "inserting", "inserted"} => s \in pins
  /\ vpc \in {"committed", "cleanup", "returned", "ended"} => Dead \cap Indexed \subseteq deleted
  /\ vpc \notin {"returned", "ended"} => allVisible \cap DeadBlocks = {}
  /\ \A s \in Scans : results[s] \subseteq Indexed
  /\ \A s \in Scans : pc[s] \in {"idle", "snapshot", "pinned"} =>
       results[s] = {} /\ s \notin visible
  /\ \A s \in Scans : results[s] \cap Dead # {} =>
       /\ s \in pins
       /\ vpc \notin {"returned", "ended"}
       /\ s \in visible => block[s] \notin DeadBlocks
  /\ CountedAreVisible
=============================================================================
