-------------------------- MODULE CleanupLockProofs --------------------------
(***************************************************************************)
(* The cleanup lock keeps scans that trust the visibility map right,       *)
(* whatever the heap, the segments and the number of scans, as long as     *)
(* VACUUM finds a live document in every segment.                          *)
(***************************************************************************)
EXTENDS CleanupLock, TLAPS

\* Types are kept by every step of a scan and of VACUUM.
LEMMA TypeInvariant == Spec => []TypeOK
<1> USE DEF Blocks, NoBlock, Nobody, Vacuum
<1>1. Init => TypeOK
  BY CleanupAssumption DEF Init, TypeOK
<1>2. TypeOK /\ [Next]_vars => TypeOK'
  <2> SUFFICES ASSUME TypeOK, [Next]_vars PROVE TypeOK'
    OBVIOUS
  <2>1. ASSUME NEW s \in Scans, ScanStep(s) PROVE TypeOK'
    <3>1. CASE TakeSnapshot(s)
      BY <3>1 DEF TakeSnapshot, TypeOK
    <3>2. CASE PinCleanupLock(s)
      BY <3>2 DEF PinCleanupLock, TypeOK
    <3>3. CASE OpenIndex(s)
      <4>1. (UNION {DocsOf[g] : g \in VisibleSegments(s)}) \ deleted \subseteq Tuples
        BY CleanupAssumption DEF VisibleSegments
      <4> QED BY <3>3, <4>1 DEF OpenIndex, TypeOK
    <3>4. ASSUME NEW t \in Tuples, InternalNext(s, t) PROVE TypeOK'
      <4>1. BlockOf[t] \in Blocks
        BY DEF Blocks
      <4> QED BY <3>4, <4>1 DEF InternalNext, TypeOK
    <3>5. CASE BeginBulkInsert(s) \/ SetNumSegments(s)
      BY <3>5 DEF BeginBulkInsert, SetNumSegments, TypeOK
    <3>6. CASE EndScan(s)
      BY <3>6 DEF EndScan, TypeOK
    <3> QED BY <2>1, <3>1, <3>2, <3>3, <3>4, <3>5, <3>6 DEF ScanStep
  <2>2. CASE VacuumStep
    <3>1. CASE AcquireForDelete \/ DropMergeLock \/ AcquireCleanupLock \/ EndVacuum
      BY <3>1 DEF AcquireForDelete, DropMergeLock, AcquireCleanupLock, EndVacuum,
                  TypeOK, scanVars
    <3>2. CASE BulkDelete
      BY <3>2, CleanupAssumption DEF BulkDelete, Emptied, TypeOK, scanVars
    <3>3. ASSUME NEW b \in Blocks, VacuumHeapBlock(b) PROVE TypeOK'
      BY <3>3 DEF VacuumHeapBlock, TypeOK, scanVars
    <3> QED BY <2>2, <3>1, <3>2, <3>3 DEF VacuumStep
  <2>3. CASE UNCHANGED vars
    BY <2>3 DEF vars, scanVars, TypeOK
  <2> QED BY <2>1, <2>2, <2>3 DEF Next
<1> QED BY <1>1, <1>2, PTL DEF Spec

\* A scan's step: it opens the index with the pin held, and looks at a dead
\* ctid only while VACUUM has set none of the dead tuples' blocks all-visible.
LEMMA ScanKeepsInv ==
  ASSUME TypeOK, TypeOK', CleanupInv, NEW s \in Scans, ScanStep(s)
  PROVE  CleanupInv'
<1> USE DEF Blocks, DeadBlocks, Indexed, NoBlock, Nobody, Vacuum
<1>1. CASE TakeSnapshot(s)
  BY <1>1 DEF TakeSnapshot, CleanupInv, CountedAreVisible, TypeOK
<1>2. CASE PinCleanupLock(s)
  BY <1>2 DEF PinCleanupLock, CleanupInv, CountedAreVisible, TypeOK
<1>3. CASE OpenIndex(s)
  <2> DEFINE found == (UNION {DocsOf[g] : g \in VisibleSegments(s)}) \ deleted
  <2>1. /\ results' = [results EXCEPT ![s] = found] /\ pc[s] = "pinned"
        /\ pc' = [pc EXCEPT ![s] = "open"]
        /\ UNCHANGED <<pins, deleted, allVisible, vpc, block, visible, counted>>
    BY <1>3 DEF OpenIndex
  <2>2. found \subseteq Indexed /\ found \cap deleted = {}
    <3>1. VisibleSegments(s) \subseteq Segments
      BY DEF VisibleSegments
    <3>2. ASSUME NEW t \in found PROVE t \in Indexed
      <4>1. PICK g \in VisibleSegments(s) : t \in DocsOf[g]
        OBVIOUS
      <4> QED BY <3>1, <4>1
    <3>3. found \cap deleted = {}
      OBVIOUS
    <3> HIDE DEF found, Indexed
    <3> QED BY <3>2, <3>3
  <2> HIDE DEF found
  <2>3. s \in pins
    BY <2>1 DEF CleanupInv
  <2>4. found \cap Dead # {} => vpc \notin {"committed", "cleanup", "returned", "ended"}
    BY <2>2 DEF CleanupInv
  <2>5. s \notin visible
    BY <2>1 DEF CleanupInv
  <2> QED BY <2>1, <2>2, <2>3, <2>4, <2>5 DEF CleanupInv, CountedAreVisible, TypeOK
<1>4. ASSUME NEW t \in Tuples, InternalNext(s, t) PROVE CleanupInv'
  <2>1. /\ pc[s] \in {"open", "inserted"} /\ t \in results[s]
        /\ results' = [results EXCEPT ![s] = @ \ {t}]
        /\ block' = [block EXCEPT ![s] = BlockOf[t]]
        /\ visible' = IF IsVisible(s, t) THEN visible \cup {s} ELSE visible \ {s}
        /\ counted' = [counted EXCEPT ![s] = IF IsVisible(s, t) THEN @ \cup {t} ELSE @]
        /\ UNCHANGED <<pins, deleted, allVisible, vpc, pc>>
    BY <1>4 DEF InternalNext
  <2>2. results[s] \cap Dead # {} /\ IsVisible(s, t) => BlockOf[t] \notin DeadBlocks
    BY DEF CleanupInv, IsVisible
  <2>3. t \in Dead => BlockOf[t] \in DeadBlocks
    OBVIOUS
  <2>4. t \in Dead => ~IsVisible(s, t)
    BY <2>1, <2>2, <2>3
  <2>5. CountedAreVisible'
    BY <2>1, <2>4 DEF CleanupInv, CountedAreVisible, TypeOK
  <2>6. ASSUME NEW q \in Scans, results'[q] \cap Dead # {}
        PROVE  /\ q \in pins'
               /\ vpc' \notin {"returned", "ended"}
               /\ q \in visible' => block'[q] \notin DeadBlocks
    <3>1. results[q] \cap Dead # {}
      BY <2>1, <2>6 DEF TypeOK
    <3>2. CASE q = s
      BY <2>1, <2>2, <3>1, <3>2 DEF CleanupInv, TypeOK
    <3>3. CASE q # s
      BY <2>1, <3>1, <3>3 DEF CleanupInv, TypeOK
    <3> QED BY <3>2, <3>3
  <2>7. \A q \in Scans : results'[q] \subseteq results[q]
    BY <2>1 DEF TypeOK
  <2>8. \A q \in Scans : pc'[q] \in {"idle", "snapshot", "pinned"} =>
           results'[q] = {} /\ q \notin visible'
    BY <2>1, <2>7 DEF CleanupInv
  <2> QED BY <2>1, <2>5, <2>6, <2>7, <2>8 DEF CleanupInv
<1>5. CASE BeginBulkInsert(s) \/ SetNumSegments(s)
  BY <1>5 DEF BeginBulkInsert, SetNumSegments, CleanupInv, CountedAreVisible, TypeOK
<1>6. CASE EndScan(s)
  BY <1>6 DEF EndScan, CleanupInv, CountedAreVisible, TypeOK
<1> QED BY <1>1, <1>2, <1>3, <1>4, <1>5, <1>6 DEF ScanStep

\* A step of VACUUM: it sets blocks all-visible only after the cleanup lock,
\* when no scan has a dead ctid left and none can come by one.
LEMMA VacuumKeepsInv ==
  ASSUME TypeOK, TypeOK', CleanupInv, VacuumStep, Emptied = {}
  PROVE  CleanupInv'
<1>1. CASE AcquireForDelete \/ DropMergeLock \/ EndVacuum
  BY <1>1 DEF AcquireForDelete, DropMergeLock, EndVacuum, scanVars,
              CleanupInv, CountedAreVisible
<1>2. CASE BulkDelete
  <2>1. Dead \cap Indexed \subseteq deleted'
    BY <1>2 DEF BulkDelete, Indexed
  <2>2. /\ vpc = "locked" /\ vpc' = "committed"
        /\ UNCHANGED <<pins, allVisible, scanVars>>
    BY <1>2 DEF BulkDelete
  <2> QED BY <2>1, <2>2 DEF CleanupInv, CountedAreVisible, scanVars
<1>3. CASE AcquireCleanupLock
  <2>1. /\ vpc = "cleanup" /\ vpc' = "returned" /\ (DidDelete => pins = {})
        /\ UNCHANGED <<pins, deleted, allVisible, scanVars>>
    BY <1>3 DEF AcquireCleanupLock
  <2>2. \A s \in Scans : results[s] \cap Dead = {}
    <3>1. CASE DidDelete
      BY <2>1, <3>1 DEF CleanupInv
    <3>2. CASE ~DidDelete
      BY <3>2 DEF DidDelete, CleanupInv, Indexed
    <3> QED BY <3>1, <3>2
  <2> QED BY <2>1, <2>2 DEF CleanupInv, CountedAreVisible, scanVars
<1>4. ASSUME NEW b \in Blocks, VacuumHeapBlock(b) PROVE CleanupInv'
  BY <1>4 DEF VacuumHeapBlock, CleanupInv, CountedAreVisible, scanVars
<1> QED BY <1>1, <1>2, <1>3, <1>4 DEF VacuumStep

\* Scans that trust the visibility map return no dead tuple while VACUUM runs
\* (SearchIndexReader::open and ambulkdelete on the CLEANUP_LOCK page), if
\* VACUUM leaves a live document in every segment.
THEOREM CountsAreRight ==
  ASSUME Emptied = {}
  PROVE  Spec => []CountedAreVisible
<1>1. Init => CleanupInv
  BY DEF Init, CleanupInv, CountedAreVisible
<1>2. TypeOK /\ TypeOK' /\ CleanupInv /\ [Next]_vars => CleanupInv'
  <2> SUFFICES ASSUME TypeOK, TypeOK', CleanupInv, [Next]_vars PROVE CleanupInv'
    OBVIOUS
  <2>1. CASE UNCHANGED vars
    BY <2>1 DEF vars, scanVars, CleanupInv, CountedAreVisible
  <2> QED BY <2>1, ScanKeepsInv, VacuumKeepsInv DEF Next
<1>3. CleanupInv => CountedAreVisible
  BY DEF CleanupInv
<1> QED BY <1>1, <1>2, <1>3, TypeInvariant, PTL DEF Spec
=============================================================================
