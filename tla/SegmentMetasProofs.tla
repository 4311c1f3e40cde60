------------------------- MODULE SegmentMetasProofs -------------------------
(***************************************************************************)
(* Proofs about SegmentMetas: type correctness, and that no collection     *)
(* ever takes a segment from a statement that has it open.                 *)
(*                                                                         *)
(* Then what every view of the index finds: NothingLost for any number of  *)
(* statements, VACUUMs, merges and garbage collections; without VACUUM,    *)
(* MergesSeePreviousMerge and NoDuplicates; with one VACUUM at a time,     *)
(* VacuumedStayGone.  At the end, that garbage_collect freezes by wrapping *)
(* arithmetic what it should.                                              *)
(*                                                                         *)
(* The invariants speak of a view as the set V of the transaction ids it   *)
(* sees (ViewSet), and of all views a step could leave behind at once.     *)
(* ViewsShrink says that a view after a step was a view before it, so the  *)
(* steps that do not save metas preserve them; for save_new_metas,         *)
(* SaveSeen says that garbage collection and freezing change nothing that  *)
(* any view sees.                                                          *)
(***************************************************************************)
EXTENDS FreezeLimit, FiniteSetTheorems, WellFoundedInduction, TLAPS

USE DEF InvalidXid, FrozenXid, BuildXid, MinNumSegments

-----------------------------------------------------------------------------
(* Type correctness                                                         *)

\* Saving well-typed metas leaves a well-typed list.
LEMMA SaveNewMetasType ==
  ASSUME TypeOK, NEW p \in Proc, NEW me \in Xid,
         NEW created \in SUBSET SegId, NEW removed \in SUBSET SegId,
         NEW e \in [SegId -> Entry],
         SaveNewMetas(p, me, created, removed, e)
  PROVE  list' \subseteq SegId /\ entry' \in [SegId -> Entry]
<1> DEFINE marked == [s \in SegId |-> IF s \in removed
                                      THEN [e[s] EXCEPT !.xmax = me] ELSE e[s]]
<1>1. marked \in [SegId -> Entry]
  <2>1. \A s \in SegId : [e[s] EXCEPT !.xmax = me] \in Entry
    BY DEF Entry
  <2> QED BY <2>1
<1>2. \A f \in Entry : Frozen(f) \in Entry
  <2>1. FrozenXid \in Xid
    BY ConstantsAssumption DEF Xid
  <2> QED BY <2>1 DEF Entry, Frozen, FrozenId
<1>3. CASE removed = {}
  BY <1>1, <1>3 DEF SaveNewMetas, TypeOK
<1>4. CASE removed # {}
  <2> DEFINE kept == Survivors(p, list \cup created, marked)
  <2>1. list' = kept /\ entry' = [s \in SegId |-> IF s \in kept THEN Frozen(marked[s])
                                                  ELSE marked[s]]
    BY <1>4 DEF SaveNewMetas
  <2>2. kept \subseteq SegId
    BY DEF Survivors, TypeOK
  <2> HIDE DEF marked, kept
  <2> QED BY <1>1, <1>2, <2>1, <2>2
<1> QED BY <1>3, <1>4

\* A fresh snapshot is well typed and is not the absence of a snapshot.
LEMMA SnapshotData ==
  ASSUME TypeOK
  PROVE  /\ GetSnapshotData \in Snapshot
         /\ GetSnapshotData # NoSnapshot
<1>1. RunningXids \subseteq Xid
  BY DEF RunningXids, TypeOK, Proc
<1>2. latestCompleted + 1 \in Nat /\ latestCompleted + 1 # 0
  BY DEF TypeOK
<1> QED BY <1>1, <1>2 DEF GetSnapshotData, Snapshot, NoSnapshot

LEMMA SegmentSetsFinite ==
  ASSUME TypeOK, NEW p \in Proc
  PROVE  /\ IsFiniteSet(segs[p])
         /\ Cardinality(segs[p]) \in Nat
         /\ Cardinality(Created(p)) \in Nat
         /\ Cardinality(Created(p)) <= Cardinality(segs[p])
<1>1. IsFiniteSet(SegId)
  BY FS_Interval, ConstantsAssumption DEF SegId
<1>2. segs[p] \subseteq SegId /\ Created(p) \subseteq segs[p]
  BY DEF TypeOK, Created
<1> QED BY <1>1, <1>2, FS_Subset, FS_CardinalityType

LEMMA InitTypeOK == Init => TypeOK
<1> SUFFICES ASSUME Init PROVE TypeOK
  OBVIOUS
<1>1. StartDocs \subseteq Doc
  BY ConstantsAssumption DEF StartDocs
<1>2. Cardinality(StartDocs) \in 0..MaxDoc
  <2>1. IsFiniteSet(Doc) /\ Cardinality(Doc) = MaxDoc
    BY FS_Interval, ConstantsAssumption DEF Doc
  <2> QED BY <1>1, <2>1, FS_Subset, FS_CardinalityType, ConstantsAssumption
<1>3. entry \in [SegId -> Entry]
  <2>1. \A s \in SegId : s <= Len(Start) => Start[s] \in SUBSET Doc
    BY ConstantsAssumption DEF SegId
  <2>2. 0 \in Xid /\ 2 \in Xid
    BY ConstantsAssumption DEF Xid
  <2> QED BY <2>1, <2>2 DEF Init, Entry, NoEntry
<1>4. list \subseteq SegId /\ nextSeg \in 1..MaxSeg + 1
  <2>1. Len(Start) \in Nat /\ Len(Start) <= MaxSeg /\ MaxSeg \in Nat
    BY ConstantsAssumption
  <2> QED BY <2>1 DEF Init, SegId
<1>5. snap \in [Proc -> Snapshot]
  BY DEF Init, Snapshot, NoSnapshot
<1>6. 0 \in Xid /\ 2 \in Xid
  BY ConstantsAssumption DEF Xid
<1>7. nextXid \in BuildXid + 1 .. MaxXid + 1 /\ latestCompleted \in Nat /\ latestCompleted < nextXid
  BY ConstantsAssumption DEF Init
<1>8. nextDoc \in 1..MaxDoc + 1
  BY <1>2, ConstantsAssumption DEF Init
<1>9. /\ xid \in [Proc -> Xid] /\ (\A p \in Proc : xid[p] < nextXid) /\ lastMerge \in Xid /\ inserter \in [Doc -> Xid]
      /\ holder \in Proc \cup {NoProc}
      /\ numSegments \in Nat
  BY <1>6, ConstantsAssumption DEF Init
<1>10. /\ pc \in [Proc -> PC]
       /\ base \in [Proc -> SUBSET SegId] /\ segs \in [Proc -> SUBSET SegId]
       /\ withDeletes \in [Proc -> SUBSET SegId] /\ cand \in [Proc -> SUBSET SegId]
       /\ dead \subseteq Doc /\ vacuumed \subseteq Doc
       /\ deadItems \in [Vacuums -> SUBSET Doc] /\ passes \in [Vacuums -> Nat]
  BY DEF Init, PC
<1> QED BY <1>3, <1>4, <1>5, <1>7, <1>8, <1>9, <1>10 DEF TypeOK

XidTypes ==
  /\ nextXid \in BuildXid + 1 .. MaxXid + 1 /\ latestCompleted < nextXid
  /\ xid \in [Proc -> Xid] /\ \A q \in Proc : xid[q] < nextXid

\* Assigning the next transaction id.
LEMMA AssignXidType ==
  ASSUME TypeOK, NEW p \in Proc, nextXid <= MaxXid,
         xid' = [xid EXCEPT ![p] = nextXid], nextXid' = nextXid + 1,
         latestCompleted' = latestCompleted
  PROVE  XidTypes'
<1>1. /\ nextXid \in Nat /\ nextXid >= 3 /\ MaxXid \in Nat /\ latestCompleted \in Nat
      /\ latestCompleted < nextXid /\ xid \in [Proc -> Xid] /\ \A q \in Proc : xid[q] < nextXid
  BY ConstantsAssumption DEF TypeOK
<1>2. nextXid \in Xid /\ Xid \subseteq Nat
  BY <1>1 DEF Xid
<1>3. \A q \in Proc : xid'[q] \in Xid /\ xid'[q] < nextXid'
  <2> TAKE q \in Proc
  <2>1. CASE q = p
    BY <1>1, <1>2, <2>1
  <2>2. CASE q # p
    <3>1. xid'[q] = xid[q] /\ xid[q] \in Nat /\ xid[q] < nextXid
      BY <1>1, <1>2, <2>2
    <3> QED BY <1>1, <3>1
  <2> QED BY <2>1, <2>2
<1>4. xid' \in [Proc -> Xid]
  BY <1>1, <1>2
<1>5. nextXid' \in BuildXid + 1 .. MaxXid + 1 /\ latestCompleted' < nextXid'
  BY <1>1
<1> QED BY <1>3, <1>4, <1>5 DEF XidTypes

LEMMA SameXidType ==
  ASSUME TypeOK, UNCHANGED <<xid, nextXid, latestCompleted>>
  PROVE  XidTypes'
BY DEF TypeOK, XidTypes

\* Every step of an inserter keeps the types.
LEMMA InserterStepType ==
  ASSUME TypeOK, NEW p \in Inserters, InserterStep(p)
  PROVE  TypeOK'
<1> USE ConstantsAssumption DEF Proc, vars, xactVars, listVars, lockVars, procVars, heapVars
<1>1. CASE BeginInsert(p)
  <2>1. snap' \in [Proc -> Snapshot] /\ pc' \in [Proc -> PC]
    BY <1>1, SnapshotData DEF TypeOK, BeginInsert, Begin, PC
  <2>2. XidTypes'
    <3>1. CASE xid[p] = InvalidXid
      <4>1. nextXid <= MaxXid
        BY <1>1, <3>1 DEF BeginInsert, TypeOK
      <4> QED BY <1>1, <3>1, <4>1, AssignXidType DEF BeginInsert
    <3>2. CASE xid[p] # InvalidXid
      BY <1>1, <3>2, SameXidType DEF BeginInsert
    <3> QED BY <3>1, <3>2
  <2> QED BY <1>1, <2>1, <2>2 DEF TypeOK, XidTypes, BeginInsert
<1>2. CASE Open(p)
  BY <1>2 DEF TypeOK, Open, LoadSnapshot, HasDeletes, PC
<1>3. CASE SetNumSegments(p)
  <2>1. /\ Cardinality(Created(p)) > 1 /\ Cardinality(Created(p)) <= Cardinality(segs[p])
        /\ Cardinality(segs[p]) \in Nat /\ Cardinality(Created(p)) \in Nat
    BY <1>3, SegmentSetsFinite DEF SetNumSegments
  <2>2. numSegments' \in Nat
    BY <1>3, <2>1 DEF SetNumSegments
  <2> QED BY <1>3, <2>2 DEF TypeOK, SetNumSegments, PC
<1>4. CASE NoMerge(p)
  BY <1>4 DEF TypeOK, NoMerge, PC
<1>5. CASE EndStatement(p)
  BY <1>5 DEF TypeOK, EndStatement, DropMergeLock, CloseIndex, Snapshot, NoSnapshot, PC
<1>6. CASE EndTransaction(p)
  BY <1>6 DEF TypeOK, EndTransaction, Complete, Snapshot, NoSnapshot, Xid, PC
<1>7. CASE AbortInsert(p)
  BY <1>7, SMTT(20) DEF TypeOK, AbortInsert, DropMergeLock, CloseIndex, Complete, Snapshot, NoSnapshot, Xid, PC
<1>8. ASSUME NEW n \in 1..2, CommitInsert(p, n)
      PROVE  TypeOK'
  <2> DEFINE created == nextSeg..(nextSeg + n - 1)
             e == [s \in SegId |-> IF s \in created
                    THEN [xmin |-> xid[p], xmax |-> InvalidXid,
                          docs |-> {nextDoc + (s - nextSeg)}, deleted |-> {}]
                    ELSE entry[s]]
  <2>1. created \subseteq SegId
    BY <1>8 DEF CommitInsert, SegId, TypeOK
  <2>2. e \in [SegId -> Entry]
    <3>1. \A s \in created : nextDoc + (s - nextSeg) \in Doc
      BY <1>8 DEF CommitInsert, Doc, TypeOK
    <3>2. 0 \in Xid /\ xid[p] \in Xid /\ entry \in [SegId -> Entry]
      BY DEF Xid, TypeOK
    <3> HIDE DEF created
    <3> QED BY <3>1, <3>2 DEF Entry
  <2>3. list' \subseteq SegId /\ entry' \in [SegId -> Entry]
    <3>1. SaveNewMetas(p, xid[p], created, {}, e) /\ xid[p] \in Xid
      BY <1>8 DEF CommitInsert, TypeOK
    <3> HIDE DEF created, e
    <3> QED BY <2>1, <2>2, <3>1, SaveNewMetasType
  <2>4. /\ nextSeg' \in 1..MaxSeg + 1 /\ nextDoc' \in 1..MaxDoc + 1
        /\ inserter' \in [Doc -> Xid]
        /\ segs' \in [Proc -> SUBSET SegId] /\ pc' \in [Proc -> PC]
    BY <1>8, <2>1 DEF CommitInsert, TypeOK, PC
  <2> QED BY <1>8, <2>3, <2>4 DEF CommitInsert, TypeOK
<1>9. CASE AcquireForMerge(p)
  <2>1. \A C \in MergeCandidates(p) : C \subseteq SegId
    BY DEF MergeCandidates, TypeOK
  <2>2. PICK C \in MergeCandidates(p) :
          /\ cand' = [cand EXCEPT ![p] = C]
          /\ pc' = [pc EXCEPT ![p] = IF C = {} THEN "done" ELSE "merging"]
    BY <1>9 DEF AcquireForMerge
  <2>3. cand' \in [Proc -> SUBSET SegId] /\ pc' \in [Proc -> PC]
    BY <2>1, <2>2 DEF TypeOK, PC
  <2> QED BY <1>9, <2>3 DEF AcquireForMerge, TypeOK
<1>10. CASE EndMerge(p)
  <2> DEFINE merged  == UNION {MergeReads(p, s) : s \in cand[p]}
             created == IF merged = {} THEN {} ELSE {nextSeg}
             newMeta == (segs[p] \ cand[p]) \cup created
             e == [s \in SegId |-> IF s \in created
                    THEN [xmin |-> xid[p], xmax |-> InvalidXid,
                          docs |-> merged, deleted |-> {}]
                    ELSE entry[s]]
  <2>1. created \subseteq SegId
    BY <1>10 DEF EndMerge, SegId, TypeOK
  <2>2. e \in [SegId -> Entry]
    <3>1. merged \subseteq Doc
      BY SMTT(20) DEF MergeReads, Alive, TypeOK, Entry
    <3>2. 0 \in Xid /\ xid[p] \in Xid /\ entry \in [SegId -> Entry]
      BY DEF Xid, TypeOK
    <3> HIDE DEF created, merged
    <3> QED BY <3>1, <3>2 DEF Entry
  <2>3. list' \subseteq SegId /\ entry' \in [SegId -> Entry]
    <3>1. \/ UNCHANGED <<list, entry>>
          \/ SaveNewMetas(p, xid[p], created, cand[p], e)
      BY <1>10 DEF EndMerge
    <3>2. xid[p] \in Xid /\ cand[p] \subseteq SegId
      BY DEF TypeOK
    <3> HIDE DEF created, e
    <3>3. CASE UNCHANGED <<list, entry>>
      BY <3>3 DEF TypeOK
    <3>4. CASE SaveNewMetas(p, xid[p], created, cand[p], e)
      BY <2>1, <2>2, <3>2, <3>4, SaveNewMetasType
    <3> QED BY <3>1, <3>3, <3>4
  <2>4. nextSeg' \in 1..MaxSeg + 1
    BY <1>10 DEF EndMerge, TypeOK
  <2>5. segs' \in [Proc -> SUBSET SegId]
    <3>1. segs' = [segs EXCEPT ![p] = newMeta]
      BY <1>10 DEF EndMerge
    <3>2. newMeta \subseteq SegId
      BY <2>1 DEF TypeOK
    <3> QED BY <3>1, <3>2 DEF TypeOK
  <2>6. cand' \in [Proc -> SUBSET SegId] /\ pc' \in [Proc -> PC]
    BY <1>10 DEF EndMerge, TypeOK, PC
  <2> QED BY <1>10, <2>3, <2>4, <2>5, <2>6 DEF EndMerge, TypeOK
<1> QED BY <1>1, <1>2, <1>3, <1>4, <1>5, <1>6, <1>7, <1>8, <1>9, <1>10 DEF InserterStep

\* Every step of a reader keeps the types.
LEMMA ReaderStepType ==
  ASSUME TypeOK, NEW p \in Readers, ReaderStep(p)
  PROVE  TypeOK'
<1> USE ConstantsAssumption DEF Proc, vars, xactVars, listVars, lockVars, procVars, heapVars
<1>1. CASE BeginScan(p)
  <2>1. snap' \in [Proc -> Snapshot] /\ pc' \in [Proc -> PC]
    BY <1>1, SnapshotData DEF TypeOK, BeginScan, Begin, PC
  <2> QED BY <1>1, <2>1 DEF TypeOK, BeginScan
<1>2. CASE Open(p)
  BY <1>2 DEF TypeOK, Open, LoadSnapshot, HasDeletes, PC
<1>3. CASE EndStatement(p)
  BY <1>3 DEF TypeOK, EndStatement, DropMergeLock, CloseIndex, Snapshot, NoSnapshot, PC
<1>4. CASE EndTransaction(p)
  BY <1>4 DEF TypeOK, EndTransaction, Complete, Snapshot, NoSnapshot, Xid, PC
<1> QED BY <1>1, <1>2, <1>3, <1>4 DEF ReaderStep

\* Every step of a VACUUM keeps the types.
LEMMA VacuumStepType ==
  ASSUME TypeOK, NEW v \in Vacuums, VacuumStep(v)
  PROVE  TypeOK'
<1> USE ConstantsAssumption DEF Proc, vars, xactVars, listVars, lockVars, procVars, heapVars
<1>1. CASE VacuumScan(v)
  <2>1. snap' \in [Proc -> Snapshot] /\ pc' \in [Proc -> PC]
    BY <1>1, SnapshotData DEF TypeOK, VacuumScan, PC
  <2> QED BY <1>1, <2>1 DEF TypeOK, VacuumScan
<1>2. CASE AcquireForDelete(v)
  BY <1>2 DEF TypeOK, AcquireForDelete, LoadAny, HasDeletes, PC
<1>3. ASSUME AssignVacuumXid(v), UNCHANGED latestCompleted
      PROVE  XidTypes'
  BY <1>3, AssignXidType, SameXidType DEF AssignVacuumXid
<1>4. CASE BulkDelete(v)
  <2> DEFINE purged == [s \in SegId |->
                  [entry[s] EXCEPT !.deleted = @ \cup (entry[s].docs \cap deadItems[v])]]
             emptied == {s \in segs[v] : Alive(purged[s]) = {}}
             newMeta == segs[v] \ emptied
             e == [s \in SegId |-> IF s \in newMeta THEN purged[s] ELSE entry[s]]
  <2>1. XidTypes'
    <3>1. AssignVacuumXid(v) \/ UNCHANGED <<xid, nextXid>>
      BY <1>4 DEF BulkDelete
    <3>2. UNCHANGED latestCompleted
      BY <1>4 DEF BulkDelete
    <3> QED BY <1>3, <3>1, <3>2, SameXidType
  <2>2. e \in [SegId -> Entry]
    <3>1. entry \in [SegId -> Entry] /\ deadItems[v] \subseteq Doc
      BY DEF TypeOK
    <3>2. \A s \in SegId : purged[s] \in Entry
      BY <3>1 DEF Entry
    <3> HIDE DEF purged
    <3> QED BY <3>1, <3>2
  <2>3. emptied \subseteq SegId
    BY DEF TypeOK
  <2>4. list' \subseteq SegId /\ entry' \in [SegId -> Entry]
    <3>1. \/ UNCHANGED <<list, entry>>
          \/ SaveNewMetas(v, xid'[v], {}, emptied, e)
      BY <1>4 DEF BulkDelete
    <3>2. xid'[v] \in Xid
      BY <2>1 DEF XidTypes
    <3> HIDE DEF emptied, e
    <3>3. CASE UNCHANGED <<list, entry>>
      BY <3>3 DEF TypeOK
    <3>4. CASE SaveNewMetas(v, xid'[v], {}, emptied, e)
      BY <2>2, <2>3, <3>2, <3>4, SaveNewMetasType
    <3> QED BY <3>1, <3>3, <3>4
  <2>5. segs' \in [Proc -> SUBSET SegId] /\ pc' \in [Proc -> PC]
    <3>1. segs' = [segs EXCEPT ![v] = newMeta] /\ newMeta \subseteq SegId
      BY <1>4, <2>3 DEF BulkDelete, TypeOK
    <3>2. pc' = [pc EXCEPT ![v] = "committed"]
      BY <1>4 DEF BulkDelete
    <3> QED BY <3>1, <3>2 DEF TypeOK, PC
  <2> QED BY <1>4, <2>1, <2>4, <2>5 DEF BulkDelete, TypeOK, XidTypes
<1>5. CASE ReleaseForDelete(v)
  <2>1. XidTypes'
    <3>1. AssignVacuumXid(v) /\ UNCHANGED latestCompleted
      BY <1>5 DEF ReleaseForDelete
    <3> QED BY <1>3, <3>1
  <2>2. holder' \in Proc \cup {NoProc} /\ lastMerge' \in Xid
    <3>1. xid'[v] \in Xid /\ lastMerge \in Xid /\ holder \in Proc \cup {NoProc}
      BY <2>1 DEF XidTypes, TypeOK
    <3>2. DropMergeLock(v, xid'[v])
      BY <1>5 DEF ReleaseForDelete
    <3> QED BY <3>1, <3>2 DEF DropMergeLock
  <2>3. /\ base' \in [Proc -> SUBSET SegId] /\ segs' \in [Proc -> SUBSET SegId]
        /\ withDeletes' \in [Proc -> SUBSET SegId] /\ pc' \in [Proc -> PC]
        /\ vacuumed' \subseteq Doc /\ deadItems' \in [Vacuums -> SUBSET Doc]
    BY <1>5 DEF ReleaseForDelete, TypeOK, PC
  <2> QED BY <1>5, <2>1, <2>2, <2>3 DEF ReleaseForDelete, TypeOK, XidTypes
<1>6. CASE EndVacuum(v)
  BY <1>6, SMTT(20) DEF TypeOK, EndVacuum, Complete, Snapshot, NoSnapshot, Xid, PC
<1> QED BY <1>1, <1>2, <1>4, <1>5, <1>6 DEF VacuumStep

LEMMA NextTypeOK == TypeOK /\ [Next]_vars => TypeOK'
<1> SUFFICES ASSUME TypeOK, [Next]_vars PROVE TypeOK'
  OBVIOUS
<1>1. CASE \E d \in Doc : HeapTupleDies(d)
  BY <1>1 DEF HeapTupleDies, TypeOK, xactVars, listVars, lockVars, procVars
<1>2. CASE UNCHANGED vars
  BY <1>2 DEF TypeOK, vars, xactVars, listVars, lockVars, procVars, heapVars
<1> QED BY <1>1, <1>2, InserterStepType, ReaderStepType, VacuumStepType DEF Next

\* Every variable keeps its type, and no transaction runs with an id that was
\* not assigned (all of SegmentMetas: save_new_metas, merge_policy.rs, delete.rs).
THEOREM TypeCorrect == Spec => []TypeOK
BY InitTypeOK, NextTypeOK, PTL DEF Spec

-----------------------------------------------------------------------------
(* Open segments are kept                                                   *)

\* What one snapshot in use considers running is not behind the horizon.
LEMMA HorizonRespectsSnapshots ==
  ASSUME TypeOK, NEW p \in Backends, HasSnapshot(p),
         NEW x \in Xid, XidInMVCCSnapshot(x, snap[p])
  PROVE  ~PrecedesHorizon(x)
<1>1. x \in Nat /\ snap[p].xmax \in Nat
  BY ConstantsAssumption DEF TypeOK, Snapshot, Backends, Proc, Xid
<1>2. CASE x >= snap[p].xmax
  BY <1>1, <1>2 DEF PrecedesHorizon, Backends
<1>3. CASE x \in snap[p].xip
  BY <1>1, <1>3 DEF PrecedesHorizon, Backends
<1> QED BY <1>2, <1>3 DEF XidInMVCCSnapshot

LEMMA InitKeepInv == Init => KeepInv
<1> SUFFICES ASSUME Init PROVE KeepInv
  OBVIOUS
<1>1. LockInv
  BY DEF Init, LockInv, Backends, Proc
<1>2. SnapshotInv
  BY DEF Init, SnapshotInv, HasSnapshot, BusyPC, Backends, Proc
<1>3. VacuumXidInv
  BY DEF Init, VacuumXidInv, Proc
<1>4. OpenSegmentsInv
  BY DEF Init, OpenSegmentsInv, Backends, Proc
<1> QED BY <1>1, <1>2, <1>3, <1>4 DEF KeepInv

LEMMA LockInvStep ==
  ASSUME TypeOK, LockInv, Next
  PROVE  LockInv'
<1> USE ConstantsAssumption DEF Proc, Backends, vars, xactVars, listVars, lockVars, procVars, heapVars,
        LockInv, TypeOK, BusyPC
<1>1. ASSUME NEW p \in Inserters, InserterStep(p) PROVE LockInv'
  <2>1. CASE BeginInsert(p)
    BY <2>1 DEF BeginInsert, Begin
  <2>2. CASE Open(p)
    BY <2>2 DEF Open
  <2>3. CASE \E n \in 1..2 : CommitInsert(p, n)
    BY <2>3 DEF CommitInsert
  <2>4. CASE SetNumSegments(p)
    BY <2>4 DEF SetNumSegments
  <2>5. CASE AcquireForMerge(p)
    BY <2>5 DEF AcquireForMerge
  <2>6. CASE NoMerge(p)
    BY <2>6 DEF NoMerge
  <2>7. CASE EndMerge(p)
    BY <2>7 DEF EndMerge
  <2>8. CASE EndStatement(p)
    BY <2>8 DEF EndStatement, DropMergeLock, CloseIndex
  <2>9. CASE EndTransaction(p)
    BY <2>9 DEF EndTransaction
  <2>10. CASE AbortInsert(p)
    BY <2>10 DEF AbortInsert, DropMergeLock, CloseIndex
  <2> QED BY <1>1, <2>1, <2>2, <2>3, <2>4, <2>5, <2>6, <2>7, <2>8, <2>9, <2>10 DEF InserterStep
<1>2. ASSUME NEW p \in Readers, ReaderStep(p) PROVE LockInv'
  <2>1. CASE BeginScan(p)
    BY <2>1 DEF BeginScan, Begin
  <2>2. CASE Open(p)
    BY <2>2 DEF Open
  <2>3. CASE EndStatement(p)
    BY <2>3 DEF EndStatement, DropMergeLock, CloseIndex
  <2>4. CASE EndTransaction(p)
    BY <2>4 DEF EndTransaction
  <2> QED BY <1>2, <2>1, <2>2, <2>3, <2>4 DEF ReaderStep
<1>3. ASSUME NEW v \in Vacuums, VacuumStep(v) PROVE LockInv'
  <2>1. CASE VacuumScan(v)
    BY <2>1 DEF VacuumScan
  <2>2. CASE AcquireForDelete(v)
    BY <2>2 DEF AcquireForDelete
  <2>3. CASE BulkDelete(v)
    BY <2>3 DEF BulkDelete
  <2>4. CASE ReleaseForDelete(v)
    BY <2>4 DEF ReleaseForDelete, DropMergeLock
  <2>5. CASE EndVacuum(v)
    BY <2>5 DEF EndVacuum
  <2> QED BY <1>3, <2>1, <2>2, <2>3, <2>4, <2>5 DEF VacuumStep
<1>4. CASE \E d \in Doc : HeapTupleDies(d)
  BY <1>4 DEF HeapTupleDies
<1> QED BY <1>1, <1>2, <1>3, <1>4 DEF Next

\* Steps that leave the backends' transactions and snapshots alone.
LEMMA SnapshotInvFrame ==
  ASSUME TypeOK, TypeOK', SnapshotInv,
         \A p \in Backends : snap'[p] = snap[p] /\ xid'[p] = xid[p],
         \A p \in Backends : pc'[p] \in BusyPC => pc[p] \in BusyPC,
         nextXid' >= nextXid
  PROVE  SnapshotInv'
<1>1. \A p \in Backends : snap[p].xmax \in Nat
  BY DEF TypeOK, Snapshot, Backends, Proc
<1>2. nextXid \in Nat /\ nextXid' \in Nat
  BY ConstantsAssumption DEF TypeOK
<1> QED BY <1>1, <1>2 DEF SnapshotInv, HasSnapshot, XidInMVCCSnapshot

\* A fresh snapshot considers every running transaction running, also the
\* one whose id is assigned right after it.
LEMMA FreshSnapshot ==
  ASSUME TypeOK, NEW q \in Backends
  PROVE  /\ xid[q] # InvalidXid => XidInMVCCSnapshot(xid[q], GetSnapshotData)
         /\ XidInMVCCSnapshot(nextXid, GetSnapshotData)
         /\ GetSnapshotData.xmax <= nextXid
<1>1. xid[q] \in Nat /\ latestCompleted \in Nat /\ nextXid \in Nat /\ latestCompleted < nextXid
  BY ConstantsAssumption DEF TypeOK, Xid, Backends, Proc
<1>2. ASSUME xid[q] # InvalidXid, xid[q] <= latestCompleted
      PROVE  xid[q] \in GetSnapshotData.xip
  BY <1>2 DEF RunningXids, GetSnapshotData, Backends
<1> QED BY <1>1, <1>2 DEF XidInMVCCSnapshot, GetSnapshotData

\* A VACUUM leaves the state of the other backends alone.
LEMMA VacuumFrame ==
  ASSUME TypeOK, NEW v \in Vacuums, VacuumStep(v)
  PROVE  /\ \A p \in Backends : /\ snap'[p] = snap[p] /\ xid'[p] = xid[p]
                                /\ pc'[p] = pc[p] /\ segs'[p] = segs[p] /\ cand'[p] = cand[p]
         /\ nextXid' >= nextXid
<1> USE DEF xactVars, TypeOK
<1>0. /\ \A p \in Backends : p # v /\ p \in Proc
      /\ v \in Proc /\ nextXid \in Nat
  BY ConstantsAssumption DEF Backends, Proc
<1>1. CASE VacuumScan(v)
  BY <1>0, <1>1 DEF VacuumScan
<1>2. CASE AcquireForDelete(v)
  BY <1>0, <1>2 DEF AcquireForDelete
<1>3. CASE BulkDelete(v)
  <2>1. AssignVacuumXid(v) \/ UNCHANGED <<xid, nextXid>>
    BY <1>3 DEF BulkDelete
  <2>2. /\ nextXid' >= nextXid
        /\ \A p \in Backends : xid'[p] = xid[p]
    BY <1>0, <2>1 DEF AssignVacuumXid
  <2>3. /\ UNCHANGED <<snap, cand>>
        /\ pc' = [pc EXCEPT ![v] = "committed"]
        /\ \E S : segs' = [segs EXCEPT ![v] = S]
    BY <1>3 DEF BulkDelete
  <2> QED BY <1>0, <2>2, <2>3
<1>4. CASE ReleaseForDelete(v)
  <2>1. /\ nextXid' >= nextXid
        /\ \A p \in Backends : xid'[p] = xid[p]
    BY <1>0, <1>4 DEF AssignVacuumXid, ReleaseForDelete
  <2> QED BY <1>0, <1>4, <2>1 DEF ReleaseForDelete
<1>5. CASE EndVacuum(v)
  BY <1>0, <1>5 DEF EndVacuum
<1> QED BY <1>1, <1>2, <1>3, <1>4, <1>5 DEF VacuumStep

LEMMA SnapshotInvStep ==
  ASSUME TypeOK, TypeOK', SnapshotInv, Next
  PROVE  SnapshotInv'
<1> USE DEF Backends
<1> DEFINE Frame == /\ \A p \in Backends : snap'[p] = snap[p] /\ xid'[p] = xid[p]
                    /\ \A p \in Backends : pc'[p] \in BusyPC => pc[p] \in BusyPC
                    /\ nextXid' >= nextXid
<1>0. nextXid \in Nat /\ nextXid' \in Nat /\ Backends \subseteq Proc
  BY ConstantsAssumption DEF TypeOK, Proc
<1>1. ASSUME NEW p \in Backends, BeginScan(p) \/ BeginInsert(p)
      PROVE  SnapshotInv'
  <2>1. /\ snap' = [snap EXCEPT ![p] = IF HasSnapshot(p) THEN @ ELSE GetSnapshotData]
        /\ pc' = [pc EXCEPT ![p] = "started"]
    BY <1>1 DEF BeginScan, BeginInsert, Begin
  <2>2. \/ UNCHANGED <<xid, nextXid>>
        \/ xid' = [xid EXCEPT ![p] = nextXid] /\ nextXid' = nextXid + 1
    BY <1>1 DEF BeginScan, BeginInsert
  <2>3. \A q \in Backends : HasSnapshot(q)' => snap'[q].xmax <= nextXid'
    <3> SUFFICES ASSUME NEW q \in Backends, HasSnapshot(q)'
                 PROVE  snap'[q].xmax <= nextXid'
      OBVIOUS
    <3>1. nextXid <= nextXid'
      BY <1>0, <2>2
    <3>2. snap'[q].xmax \in Nat
      BY DEF TypeOK, Snapshot, Proc
    <3>3. snap'[q].xmax <= nextXid
      <4>1. CASE q = p /\ ~HasSnapshot(p)
        BY <2>1, <4>1, FreshSnapshot DEF TypeOK, Proc
      <4>2. CASE ~(q = p /\ ~HasSnapshot(p))
        <5>1. snap'[q] = snap[q]
          BY <1>0, <2>1, <4>2 DEF TypeOK
        <5> QED BY <5>1 DEF SnapshotInv, HasSnapshot
      <4> QED BY <4>1, <4>2
    <3> QED BY <1>0, <3>1, <3>2, <3>3
  <2>4. ASSUME NEW q \in Backends, NEW r \in Backends, HasSnapshot(q)', xid'[r] # InvalidXid
        PROVE  XidInMVCCSnapshot(xid'[r], snap'[q])
    <3>1. CASE q = p /\ ~HasSnapshot(p)
      <4>1. snap'[q] = GetSnapshotData
        BY <1>0, <2>1, <3>1 DEF TypeOK
      <4>2. xid'[r] = xid[r] \/ xid'[r] = nextXid
        BY <1>0, <2>2 DEF TypeOK
      <4> QED BY <2>4, <4>1, <4>2, FreshSnapshot
    <3>2. CASE ~(q = p /\ ~HasSnapshot(p))
      <4>1. snap'[q] = snap[q] /\ HasSnapshot(q)
        BY <1>0, <2>1, <2>4, <3>2 DEF TypeOK, HasSnapshot
      <4>2. CASE xid'[r] = xid[r]
        BY <2>4, <4>1, <4>2 DEF SnapshotInv
      <4>3. CASE xid'[r] = nextXid
        BY <4>1, <4>3 DEF SnapshotInv, XidInMVCCSnapshot
      <4> QED BY <1>0, <2>2, <4>2, <4>3 DEF TypeOK
    <3> QED BY <3>1, <3>2
  <2>5. \A q \in Backends : pc'[q] \in BusyPC => HasSnapshot(q)'
    <3> SUFFICES ASSUME NEW q \in Backends, pc'[q] \in BusyPC PROVE HasSnapshot(q)'
      OBVIOUS
    <3>1. CASE q = p
      BY <1>0, <2>1, <3>1, SnapshotData DEF TypeOK, HasSnapshot
    <3>2. CASE q # p
      BY <1>0, <2>1, <3>2 DEF TypeOK, HasSnapshot, SnapshotInv
    <3> QED BY <3>1, <3>2
  <2> QED BY <2>3, <2>4, <2>5 DEF SnapshotInv
<1>2. ASSUME NEW p \in Backends, NEW x \in Xid, NEW t \in Snapshot,
             x = xid[p] \/ x = InvalidXid, t = snap[p] \/ t = NoSnapshot,
             xid' = [xid EXCEPT ![p] = x], snap' = [snap EXCEPT ![p] = t],
             pc' = [pc EXCEPT ![p] = "idle"], nextXid' = nextXid
      PROVE  SnapshotInv'
  <2>1. \A q \in Backends : /\ snap'[q] = snap[q] \/ ~HasSnapshot(q)'
                            /\ xid'[q] = xid[q] \/ xid'[q] = InvalidXid
    BY <1>0, <1>2 DEF TypeOK, HasSnapshot
  <2>2. \A q \in Backends : pc'[q] \in BusyPC => snap'[q] = snap[q] /\ pc[q] \in BusyPC
    BY <1>0, <1>2 DEF TypeOK, BusyPC
  <2> QED BY <1>2, <2>1, <2>2 DEF SnapshotInv, HasSnapshot
<1>3. ASSUME NEW p \in Backends, EndStatement(p) \/ EndTransaction(p) \/ AbortInsert(p)
      PROVE  SnapshotInv'
  <2>1. 0 \in Xid /\ NoSnapshot \in Snapshot /\ xid[p] \in Xid /\ snap[p] \in Snapshot
    BY <1>0, ConstantsAssumption DEF Xid, NoSnapshot, Snapshot, TypeOK
  <2>2. CASE EndStatement(p)
    <3>1. xid' = [xid EXCEPT ![p] = xid[p]]
      BY <1>0, <2>2 DEF EndStatement, TypeOK
    <3> QED BY <1>2, <2>1, <2>2, <3>1 DEF EndStatement, CloseIndex
  <2>3. CASE EndTransaction(p)
    <3>1. pc' = [pc EXCEPT ![p] = "idle"]
      BY <1>0, <2>3 DEF EndTransaction, TypeOK, procVars
    <3> QED BY <1>2, <2>1, <2>3, <3>1 DEF EndTransaction
  <2>4. CASE AbortInsert(p)
    BY <1>2, <2>1, <2>4 DEF AbortInsert, CloseIndex
  <2> QED BY <1>3, <2>2, <2>3, <2>4
<1>4. ASSUME NEW p \in Backends,
             \/ Open(p) \/ \E n \in 1..2 : CommitInsert(p, n)
             \/ SetNumSegments(p) \/ AcquireForMerge(p) \/ NoMerge(p) \/ EndMerge(p)
      PROVE  SnapshotInv'
  <2>1. UNCHANGED xactVars
    BY <1>4 DEF Open, CommitInsert, SetNumSegments, AcquireForMerge, NoMerge, EndMerge
  <2>2. pc[p] \in BusyPC /\ \A q \in Backends : q # p => pc'[q] = pc[q]
    BY <1>0, <1>4 DEF Open, CommitInsert, SetNumSegments, AcquireForMerge, NoMerge,
                      EndMerge, BusyPC, TypeOK
  <2>3. \A q \in Backends : pc'[q] \in BusyPC => pc[q] \in BusyPC
    BY <2>2
  <2>4. Frame
    BY <1>0, <2>1, <2>3 DEF xactVars
  <2> QED BY <2>4, SnapshotInvFrame
<1>5. ASSUME NEW v \in Vacuums, VacuumStep(v)
      PROVE  SnapshotInv'
  <2> QED BY <1>5, VacuumFrame, SnapshotInvFrame
<1>6. CASE \E d \in Doc : HeapTupleDies(d)
  <2>1. UNCHANGED <<xactVars, procVars>>
    BY <1>6 DEF HeapTupleDies
  <2>2. Frame
    BY <1>0, <2>1 DEF xactVars, procVars
  <2> QED BY <2>2, SnapshotInvFrame
<1> QED BY <1>1, <1>3, <1>4, <1>5, <1>6 DEF Next, InserterStep, ReaderStep

LEMMA VacuumXidInvStep ==
  ASSUME MaxPasses <= 1, TypeOK, LockInv, VacuumXidInv, Next
  PROVE  VacuumXidInv'
<1> USE DEF VacuumXidInv, TypeOK, xactVars, procVars, heapVars
<1>0. /\ \A v \in Vacuums : v \in Proc /\ passes[v] \in Nat
      /\ MaxPasses \in Nat
  BY ConstantsAssumption DEF Proc
<1>1. ASSUME NEW p \in Backends, InserterStep(p) \/ ReaderStep(p)
      PROVE  VacuumXidInv'
  <2>1. p \in Proc /\ \A v \in Vacuums : v # p
    BY ConstantsAssumption DEF Backends, Proc
  <2>2. \A v \in Vacuums : xid'[v] = xid[v] /\ pc'[v] = pc[v]
    BY <1>0, <1>1, <2>1 DEF InserterStep, ReaderStep, BeginInsert, BeginScan, Begin, Open,
         CommitInsert, SetNumSegments, AcquireForMerge, NoMerge, EndMerge, EndStatement,
         EndTransaction, AbortInsert, CloseIndex
  <2>3. passes' = passes
    BY <1>1 DEF InserterStep, ReaderStep, BeginInsert, BeginScan, Open,
         CommitInsert, SetNumSegments, AcquireForMerge, NoMerge, EndMerge, EndStatement,
         EndTransaction, AbortInsert
  <2> QED BY <2>2, <2>3
<1>2. ASSUME NEW v \in Vacuums, VacuumStep(v)
      PROVE  VacuumXidInv'
  <2>1. CASE VacuumScan(v)
    <3>1. pc[v] = "idle" /\ xid[v] = InvalidXid
      BY <1>0, <2>1 DEF VacuumScan
    <3> QED BY <1>0, <2>1, <3>1 DEF VacuumScan
  <2>2. CASE AcquireForDelete(v)
    BY <1>0, <2>2 DEF AcquireForDelete
  <2>3. CASE BulkDelete(v)
    <3>1. AssignVacuumXid(v) \/ UNCHANGED <<xid, nextXid>>
      BY <2>3 DEF BulkDelete
    <3>2. \A w \in Vacuums : w # v => xid'[w] = xid[w]
      BY <1>0, <3>1 DEF AssignVacuumXid
    <3>3. pc[v] = "bulkdelete" /\ pc' = [pc EXCEPT ![v] = "committed"] /\ UNCHANGED passes
      BY <2>3 DEF BulkDelete
    <3> QED BY <1>0, <3>2, <3>3
  <2>4. CASE ReleaseForDelete(v)
    <3>1. \A w \in Vacuums : w # v => xid'[w] = xid[w]
      BY <1>0, <2>4 DEF AssignVacuumXid, ReleaseForDelete
    <3> QED BY <1>0, <2>4, <3>1 DEF ReleaseForDelete
  <2>5. CASE EndVacuum(v)
    BY <1>0, <2>5 DEF EndVacuum
  <2> QED BY <1>2, <2>1, <2>2, <2>3, <2>4, <2>5 DEF VacuumStep
<1>3. CASE \E d \in Doc : HeapTupleDies(d)
  BY <1>3 DEF HeapTupleDies
<1> QED BY <1>1, <1>2, <1>3 DEF Next, Backends

\* Whoever saves metas, the segments another statement has open stay, and who
\* replaced them is still running for that statement.
LEMMA SaveKeepsOpen ==
  ASSUME TypeOK, SnapshotInv, OpenSegmentsInv,
         NEW a \in Proc, NEW me \in Xid,
         NEW created \in SUBSET SegId, NEW removed \in SUBSET SegId,
         NEW e \in [SegId -> Entry],
         SaveNewMetas(a, me, created, removed, e),
         NEW p \in Backends, pc[p] \in OpenPC,
         me = InvalidXid \/ XidInMVCCSnapshot(me, snap[p]),
         NEW s \in list \cup created,
         e[s].xmax = InvalidXid \/ (s \in segs[p] /\ e[s].xmax = entry[s].xmax)
  PROVE  /\ s \in list'
         /\ entry'[s].xmax = InvalidXid \/ XidInMVCCSnapshot(entry'[s].xmax, snap[p])
<1> DEFINE x == IF s \in removed THEN me ELSE e[s].xmax
<1>1. HasSnapshot(p)
  BY DEF SnapshotInv, OpenPC, BusyPC
<1>2. s \in SegId /\ e[s].xmax \in Xid
  BY DEF TypeOK, Entry
<1>3. x \in Xid
  BY <1>2
<1>4. x = InvalidXid \/ XidInMVCCSnapshot(x, snap[p])
  BY DEF OpenSegmentsInv, OpenPC
<1> HIDE DEF x
<1>5. x = InvalidXid \/ ~PrecedesHorizon(x)
  BY <1>1, <1>3, <1>4, HorizonRespectsSnapshots
<1> DEFINE marked == [t \in SegId |-> IF t \in removed
                                      THEN [e[t] EXCEPT !.xmax = me] ELSE e[t]]
           kept == Survivors(a, list \cup created, marked)
<1>6. marked[s].xmax = x
  BY <1>2 DEF Entry, x
<1>7. ~Recyclable(marked[s], snap[a])
  BY <1>5, <1>6 DEF Recyclable
<1>8. s \in kept
  BY <1>7 DEF Survivors
<1>9. Frozen(marked[s]).xmax = x
  BY <1>5, <1>6 DEF Frozen, FrozenId, NeedsFreeze
<1>10. s \in list' /\ entry'[s].xmax = x
  <2>1. CASE removed = {}
    <3>1. list' = list \cup created /\ entry' = marked
      BY <2>1 DEF SaveNewMetas
    <3> QED BY <1>6, <3>1
  <2>2. CASE removed # {}
    <3>1. list' = kept /\ entry' = [t \in SegId |-> IF t \in kept THEN Frozen(marked[t])
                                                    ELSE marked[t]]
      BY <2>2 DEF SaveNewMetas
    <3> HIDE DEF marked, kept
    <3> QED BY <1>2, <1>8, <1>9, <3>1
  <2> QED BY <2>1, <2>2
<1> QED BY <1>4, <1>10

\* Steps that leave the list alone.
LEMMA OpenSegmentsFrame ==
  ASSUME OpenSegmentsInv, UNCHANGED <<list, entry>>,
         \A p \in Backends : pc'[p] \in OpenPC =>
            pc[p] \in OpenPC /\ segs'[p] = segs[p] /\ snap'[p] = snap[p],
         \A v \in Vacuums : pc'[v] = "bulkdelete" => pc[v] = "bulkdelete" /\ segs'[v] = segs[v]
  PROVE  OpenSegmentsInv'
BY DEF OpenSegmentsInv, OpenPC

LEMMA OpenSegmentsBackend ==
  ASSUME TypeOK, TypeOK', LockInv, SnapshotInv, OpenSegmentsInv,
         NEW p \in Backends, InserterStep(p) \/ ReaderStep(p)
  PROVE  OpenSegmentsInv'
<1> USE DEF OpenPC
<1>0. /\ p \in Proc /\ \A v \in Vacuums : v # p /\ v \in Proc
      /\ \A q \in Backends : q \in Proc
  BY ConstantsAssumption DEF Backends, Proc
<1>1. CASE BeginInsert(p) \/ BeginScan(p) \/ SetNumSegments(p) \/ NoMerge(p)
           \/ EndStatement(p) \/ EndTransaction(p) \/ AbortInsert(p) \/ AcquireForMerge(p)
  <2>1. UNCHANGED <<list, entry>>
    BY <1>1 DEF BeginInsert, BeginScan, SetNumSegments, NoMerge, EndStatement, EndTransaction,
                AbortInsert, AcquireForMerge, listVars
  <2>2. \A q \in Proc : q # p => pc'[q] = pc[q] /\ segs'[q] = segs[q] /\ snap'[q] = snap[q]
    BY <1>1 DEF BeginInsert, BeginScan, Begin, SetNumSegments, NoMerge, EndStatement, EndTransaction,
                AbortInsert, AcquireForMerge, CloseIndex, TypeOK, xactVars, procVars
  <2>3. pc'[p] \in OpenPC => pc[p] \in OpenPC /\ segs'[p] = segs[p] /\ snap'[p] = snap[p]
    BY <1>0, <1>1 DEF BeginInsert, BeginScan, Begin, SetNumSegments, NoMerge, EndStatement,
                EndTransaction, AbortInsert, AcquireForMerge, CloseIndex, TypeOK, xactVars, procVars
  <2> QED BY <1>0, <2>1, <2>2, <2>3, OpenSegmentsFrame
<1>2. CASE Open(p)
  <2>1. \A s \in LoadSnapshot(p) : s \in list /\ (\/ entry[s].xmax = InvalidXid
                                                  \/ XidInMVCCSnapshot(entry[s].xmax, snap[p]))
    BY DEF LoadSnapshot, Visible
  <2>2. /\ UNCHANGED <<list, entry, snap>>
        /\ pc' = [pc EXCEPT ![p] = "open"]
        /\ segs' = [segs EXCEPT ![p] = LoadSnapshot(p)]
    BY <1>2 DEF Open, listVars, xactVars
  <2> QED BY <1>0, <2>1, <2>2 DEF OpenSegmentsInv, TypeOK
<1>3. CASE \E n \in 1..2 : CommitInsert(p, n)
  <2>1. PICK n \in 1..2 : CommitInsert(p, n)
    BY <1>3
  <2> DEFINE created == nextSeg..(nextSeg + n - 1)
             e == [s \in SegId |-> IF s \in created
                     THEN [xmin |-> xid[p], xmax |-> InvalidXid,
                           docs |-> {nextDoc + (s - nextSeg)}, deleted |-> {}]
                     ELSE entry[s]]
  <2>2. SaveNewMetas(p, xid[p], created, {}, e)
    BY <2>1 DEF CommitInsert
  <2>3. created \in SUBSET SegId /\ xid[p] \in Xid
    BY <1>0, <2>1, ConstantsAssumption DEF CommitInsert, TypeOK, SegId
  <2>4. list' = list \cup created /\ entry' = [s \in SegId |-> e[s]]
    BY <2>2 DEF SaveNewMetas
  <2>5. \A s \in SegId : entry'[s].xmax = InvalidXid \/ entry'[s].xmax = entry[s].xmax
    BY <2>4
  <2>6. \A s \in created : entry'[s].xmax = InvalidXid
    BY <2>3, <2>4
  <2>7. /\ pc[p] = "open" /\ pc' = [pc EXCEPT ![p] = "saved"]
        /\ segs' = [segs EXCEPT ![p] = @ \cup created]
        /\ snap' = snap
    BY <2>1 DEF CommitInsert, xactVars
  <2> HIDE DEF created, e
  <2>8. ASSUME NEW q \in Backends, pc'[q] \in OpenPC, NEW s \in segs'[q]
        PROVE  s \in list' /\ (\/ entry'[s].xmax = InvalidXid
                               \/ XidInMVCCSnapshot(entry'[s].xmax, snap'[q]))
    <3>1. CASE s \in created
      BY <2>4, <2>6, <3>1
    <3>2. CASE s \notin created
      <4>1. pc[q] \in OpenPC /\ s \in segs[q] /\ s \in SegId
        BY <1>0, <2>7, <2>8, <3>2 DEF TypeOK
      <4> QED BY <2>4, <2>5, <2>7, <4>1 DEF OpenSegmentsInv
    <3> QED BY <3>1, <3>2
  <2>9. ASSUME NEW v \in Vacuums, pc'[v] = "bulkdelete" PROVE segs'[v] \subseteq list'
    BY <1>0, <2>4, <2>7, <2>9 DEF OpenSegmentsInv, TypeOK
  <2> QED BY <2>8, <2>9 DEF OpenSegmentsInv
<1>4. CASE EndMerge(p)
  <2> DEFINE merged   == UNION {MergeReads(p, s) : s \in cand[p]}
             created  == IF merged = {} THEN {} ELSE {nextSeg}
             newMeta  == (segs[p] \ cand[p]) \cup created
             e == [s \in SegId |-> IF s \in created
                     THEN [xmin |-> xid[p], xmax |-> InvalidXid, docs |-> merged, deleted |-> {}]
                     ELSE entry[s]]
  <2>1. \/ UNCHANGED <<list, entry>>
        \/ SaveNewMetas(p, xid[p], created, cand[p], e)
    BY <1>4 DEF EndMerge
  <2>2. /\ pc[p] = "merging" /\ pc' = [pc EXCEPT ![p] = "done"]
        /\ segs' = [segs EXCEPT ![p] = newMeta]
        /\ snap' = snap
    BY <1>4 DEF EndMerge, xactVars
  <2>3. holder = p /\ \A v \in Vacuums : pc[v] # "bulkdelete"
    BY <1>0, <2>2 DEF LockInv
  <2>4. created \in SUBSET SegId /\ cand[p] \in SUBSET SegId /\ xid[p] \in Xid
    BY <1>0, <1>4, ConstantsAssumption DEF EndMerge, TypeOK, SegId
  <2>5. merged \subseteq Doc
    <3>1. \A s \in cand[p] : MergeReads(p, s) \subseteq Doc
      BY <2>4 DEF MergeReads, Alive, TypeOK, Entry
    <3> QED BY <3>1
  <2>6. e \in [SegId -> Entry]
    <3> HIDE DEF merged, created
    <3>1. \A s \in SegId : entry[s] \in Entry
      BY DEF TypeOK
    <3>2. [xmin |-> xid[p], xmax |-> InvalidXid, docs |-> merged, deleted |-> {}] \in Entry
      BY <2>4, <2>5, ConstantsAssumption DEF Entry, Xid
    <3> QED BY <3>1, <3>2
  <2>7. \A s \in SegId : e[s].xmax = InvalidXid \/ e[s].xmax = entry[s].xmax
    OBVIOUS
  <2> HIDE DEF created, e, newMeta, merged
  <2>8. ASSUME NEW q \in Backends, pc'[q] \in OpenPC, NEW s \in segs'[q]
        PROVE  s \in list' /\ (\/ entry'[s].xmax = InvalidXid
                               \/ XidInMVCCSnapshot(entry'[s].xmax, snap'[q]))
    <3>1. q # p /\ pc[q] \in OpenPC /\ s \in segs[q] /\ snap'[q] = snap[q]
      BY <1>0, <2>2, <2>8 DEF TypeOK
    <3>2. s \in list /\ s \in SegId
      BY <3>1 DEF OpenSegmentsInv, TypeOK
    <3>3. CASE UNCHANGED <<list, entry>>
      BY <3>1, <3>3 DEF OpenSegmentsInv
    <3>4. CASE SaveNewMetas(p, xid[p], created, cand[p], e)
      <4>1. xid[p] = InvalidXid \/ XidInMVCCSnapshot(xid[p], snap[q])
        BY <3>1 DEF SnapshotInv, BusyPC
      <4>2. e[s].xmax = InvalidXid \/ (s \in segs[q] /\ e[s].xmax = entry[s].xmax)
        BY <2>7, <3>1, <3>2
      <4> QED BY <1>0, <2>4, <2>6, <3>1, <3>2, <3>4, <4>1, <4>2, SaveKeepsOpen, ZenonT(30)
    <3> QED BY <2>1, <3>3, <3>4
  <2>9. \A v \in Vacuums : pc'[v] # "bulkdelete"
    BY <1>0, <2>2, <2>3 DEF TypeOK
  <2> QED BY <2>8, <2>9 DEF OpenSegmentsInv
<1> QED BY <1>1, <1>2, <1>3, <1>4 DEF InserterStep, ReaderStep

LEMMA OpenSegmentsVacuum ==
  ASSUME TypeOK, TypeOK', LockInv, SnapshotInv, VacuumXidInv, OpenSegmentsInv,
         NEW v \in Vacuums, VacuumStep(v)
  PROVE  OpenSegmentsInv'
<1> USE DEF OpenPC
<1>0. /\ v \in Proc /\ \A w \in Vacuums : w \in Proc
      /\ \A q \in Backends : q \in Proc /\ q # v
      /\ nextXid \in Nat
  BY ConstantsAssumption DEF Backends, Proc, TypeOK
<1>1. \A q \in Backends : pc'[q] = pc[q] /\ segs'[q] = segs[q] /\ snap'[q] = snap[q]
  BY VacuumFrame
<1>2. CASE VacuumScan(v) \/ ReleaseForDelete(v) \/ EndVacuum(v)
  <2>1. UNCHANGED <<list, entry>>
    BY <1>2 DEF VacuumScan, ReleaseForDelete, EndVacuum, listVars
  <2>2. \A w \in Vacuums : pc'[w] = "bulkdelete" => pc[w] = "bulkdelete" /\ segs'[w] = segs[w]
    BY <1>0, <1>2 DEF VacuumScan, ReleaseForDelete, EndVacuum, TypeOK
  <2> QED BY <1>1, <2>1, <2>2, OpenSegmentsFrame
<1>3. CASE AcquireForDelete(v)
  <2>1. /\ UNCHANGED <<list, entry>>
        /\ pc' = [pc EXCEPT ![v] = "bulkdelete"]
        /\ segs' = [segs EXCEPT ![v] = LoadAny(v)]
    BY <1>3 DEF AcquireForDelete, listVars
  <2>2. LoadAny(v) \subseteq list
    BY DEF LoadAny
  <2>3. \A w \in Vacuums : pc'[w] = "bulkdelete" => segs'[w] \subseteq list'
    BY <1>0, <2>1, <2>2 DEF TypeOK, OpenSegmentsInv
  <2> QED BY <1>1, <2>1, <2>3 DEF OpenSegmentsInv
<1>4. CASE BulkDelete(v)
  <2> DEFINE purged == [s \in SegId |->
                  [entry[s] EXCEPT !.deleted = @ \cup (entry[s].docs \cap deadItems[v])]]
             emptied == {s \in segs[v] : Alive(purged[s]) = {}}
             newMeta == segs[v] \ emptied
             e == [s \in SegId |-> IF s \in newMeta THEN purged[s] ELSE entry[s]]
  <2>1. /\ pc[v] = "bulkdelete"
        /\ pc' = [pc EXCEPT ![v] = "committed"]
        /\ segs' = [segs EXCEPT ![v] = newMeta]
    BY <1>4 DEF BulkDelete
  <2>2. \A w \in Vacuums : pc'[w] # "bulkdelete"
    BY <1>0, <2>1 DEF LockInv, TypeOK
  <2>3. \/ UNCHANGED <<list, entry>>
        \/ /\ IF emptied = {} THEN UNCHANGED <<xid, nextXid>> ELSE AssignVacuumXid(v)
           /\ SaveNewMetas(v, xid'[v], {}, emptied, e)
    BY <1>4 DEF BulkDelete
  <2>4. emptied \in SUBSET SegId /\ xid'[v] \in Xid
    BY <1>0 DEF TypeOK
  <2>5. e \in [SegId -> Entry]
    <3> SUFFICES ASSUME NEW s \in SegId PROVE e[s] \in Entry
      OBVIOUS
    <3>1. entry[s] \in Entry /\ entry[s].docs \cap deadItems[v] \subseteq Doc
      BY DEF TypeOK, Entry
    <3>2. purged[s] \in Entry
      BY <3>1 DEF Entry
    <3> HIDE DEF purged
    <3> QED BY <3>1, <3>2
  <2>6. \A s \in SegId : e[s].xmax = entry[s].xmax
    <3>1. \A s \in SegId : purged[s].xmax = entry[s].xmax
      BY DEF TypeOK, Entry
    <3> HIDE DEF purged
    <3> QED BY <3>1
  <2>7. xid[v] = InvalidXid
    BY <2>1 DEF VacuumXidInv
  <2> HIDE DEF e, emptied, newMeta
  <2>8. ASSUME NEW q \in Backends, pc'[q] \in OpenPC, NEW s \in segs'[q]
        PROVE  s \in list' /\ (\/ entry'[s].xmax = InvalidXid
                               \/ XidInMVCCSnapshot(entry'[s].xmax, snap'[q]))
    <3>1. pc[q] \in OpenPC /\ s \in segs[q] /\ snap'[q] = snap[q]
      BY <1>1, <2>8
    <3>2. s \in list /\ s \in SegId
      BY <3>1 DEF OpenSegmentsInv, TypeOK
    <3>3. CASE UNCHANGED <<list, entry>>
      BY <3>1, <3>3 DEF OpenSegmentsInv
    <3>4. CASE /\ IF emptied = {} THEN UNCHANGED <<xid, nextXid>> ELSE AssignVacuumXid(v)
               /\ SaveNewMetas(v, xid'[v], {}, emptied, e)
      <4>1. xid'[v] = InvalidXid \/ xid'[v] = nextXid
        BY <1>0, <2>7, <3>4 DEF AssignVacuumXid, TypeOK
      <4>2. HasSnapshot(q) /\ snap[q].xmax <= nextXid
        BY <3>1 DEF SnapshotInv, BusyPC
      <4>3. xid'[v] = InvalidXid \/ XidInMVCCSnapshot(xid'[v], snap[q])
        <5>1. snap[q].xmax \in Nat
          BY <1>0 DEF TypeOK, Snapshot
        <5> QED BY <1>0, <4>1, <4>2, <5>1 DEF XidInMVCCSnapshot
      <4>4. s \in segs[q] /\ e[s].xmax = entry[s].xmax
        BY <2>6, <3>1, <3>2
      <4>5. {} \in SUBSET SegId
        OBVIOUS
      <4> QED BY <1>0, <2>4, <2>5, <3>1, <3>2, <3>4, <4>3, <4>4, <4>5, SaveKeepsOpen, ZenonT(30)
    <3> QED BY <2>3, <3>3, <3>4
  <2> QED BY <2>2, <2>8 DEF OpenSegmentsInv
<1> QED BY <1>2, <1>3, <1>4 DEF VacuumStep

LEMMA KeepInvStep ==
  ASSUME MaxPasses <= 1, TypeOK, TypeOK', KeepInv, [Next]_vars
  PROVE  KeepInv'
<1>1. CASE Next
  <2>1. OpenSegmentsInv'
    <3>1. CASE \E d \in Doc : HeapTupleDies(d)
      BY <3>1, OpenSegmentsFrame DEF HeapTupleDies, KeepInv, xactVars, listVars, procVars
    <3> QED BY <1>1, <3>1, OpenSegmentsBackend, OpenSegmentsVacuum DEF Next, KeepInv, Backends
  <2> QED BY <1>1, <2>1, LockInvStep, SnapshotInvStep, VacuumXidInvStep DEF KeepInv
<1>2. CASE UNCHANGED vars
  BY <1>2 DEF vars, xactVars, listVars, lockVars, procVars, heapVars, KeepInv, LockInv,
              SnapshotInv, HasSnapshot, XidInMVCCSnapshot, VacuumXidInv, OpenSegmentsInv
<1> QED BY <1>1, <1>2

\* Garbage collection in a concurrent merge or VACUUM (save_new_metas,
\* recyclable) never takes a segment out of the list that some statement has
\* open, as long as no VACUUM needs a second ambulkdelete pass.
THEOREM OpenSegmentsAreKept ==
  ASSUME MaxPasses <= 1
  PROVE  Spec => []OpenSegmentsKept
<1>1. TypeOK /\ KeepInv => OpenSegmentsKept
  BY DEF KeepInv, LockInv, OpenSegmentsInv, OpenSegmentsKept, OpenPC, BusyPC, Backends, Proc
<1>2. TypeOK /\ KeepInv /\ [Next]_vars => TypeOK' /\ KeepInv'
  BY NextTypeOK, KeepInvStep
<1>3. Init => TypeOK /\ KeepInv
  BY InitTypeOK, InitKeepInv
<1> QED BY <1>1, <1>2, <1>3, PTL DEF Spec

HIDE DEF MinNumSegments

-----------------------------------------------------------------------------
(* Transactions, as the backends see them                                   *)

Begins(p) ==
  /\ snap' = [snap EXCEPT ![p] = IF HasSnapshot(p) THEN @ ELSE GetSnapshotData]
  /\ latestCompleted' = latestCompleted
  /\ \/ UNCHANGED <<xid, nextXid>>
     \/ xid[p] = InvalidXid /\ xid' = [xid EXCEPT ![p] = nextXid] /\ nextXid' = nextXid + 1

Closes(p) ==
  /\ UNCHANGED <<xid, nextXid, latestCompleted>>
  /\ snap' = snap \/ snap' = [snap EXCEPT ![p] = NoSnapshot]

Ends(p) ==
  /\ nextXid' = nextXid /\ Complete(xid[p])
  /\ xid' = [xid EXCEPT ![p] = InvalidXid] /\ snap' = [snap EXCEPT ![p] = NoSnapshot]

Stays ==
  /\ \A q \in Backends : xid'[q] = xid[q] /\ snap'[q] = snap[q]
  /\ nextXid' >= nextXid /\ latestCompleted' >= latestCompleted

LEMMA NumberTypes ==
  ASSUME TypeOK
  PROVE  /\ nextXid \in Nat /\ latestCompleted \in Nat /\ latestCompleted < nextXid
         /\ Xid \subseteq Nat /\ Backends \subseteq Proc
         /\ \A p \in Backends : /\ xid[p] \in Xid /\ xid[p] \in Nat /\ xid[p] < nextXid
                                /\ snap[p] \in Snapshot /\ snap[p].xmax \in Nat
                                /\ snap[p].xip \subseteq Xid
<1>1. Backends \subseteq Proc /\ Xid \subseteq Nat
  BY ConstantsAssumption DEF Backends, Proc, Xid
<1>2. nextXid \in Nat
  BY ConstantsAssumption DEF TypeOK
<1> QED BY <1>1, <1>2 DEF TypeOK, Snapshot

\* Every step begins, closes or ends the statement or transaction of one
\* backend, or leaves the transactions of all of them as they are.
LEMMA XactSteps ==
  ASSUME TypeOK, [Next]_vars
  PROVE  Stays \/ \E p \in Backends : Begins(p) \/ Closes(p) \/ Ends(p)
<1>0. nextXid \in Nat /\ latestCompleted \in Nat /\ Backends \subseteq Proc
  BY NumberTypes
<1>1. ASSUME NEW p \in Backends, InserterStep(p) \/ ReaderStep(p)
      PROVE  Stays \/ Begins(p) \/ Closes(p) \/ Ends(p)
  <2>1. CASE BeginInsert(p) \/ BeginScan(p)
    BY <2>1 DEF BeginInsert, BeginScan, Begin, Begins
  <2>2. CASE Open(p) \/ (\E n \in 1..2 : CommitInsert(p, n)) \/ SetNumSegments(p) \/ AcquireForMerge(p)
             \/ NoMerge(p) \/ EndMerge(p)
    <3>1. UNCHANGED xactVars
      BY <2>2 DEF Open, CommitInsert, SetNumSegments, AcquireForMerge, NoMerge, EndMerge
    <3> QED BY <3>1 DEF xactVars, Closes
  <2>3. CASE EndStatement(p)
    BY <1>0, <2>3 DEF EndStatement, Closes, TypeOK
  <2>4. CASE EndTransaction(p) \/ AbortInsert(p)
    BY <2>4 DEF EndTransaction, AbortInsert, Ends
  <2> QED BY <1>1, <2>1, <2>2, <2>3, <2>4 DEF InserterStep, ReaderStep
<1>2. ASSUME NEW v \in Vacuums, VacuumStep(v) PROVE Stays
  <2>1. latestCompleted' >= latestCompleted
    <3>1. xid[v] \in Nat
      BY ConstantsAssumption DEF TypeOK, Xid, Proc
    <3>2. UNCHANGED latestCompleted \/ Complete(xid[v])
      BY <1>2 DEF VacuumStep, VacuumScan, AcquireForDelete, BulkDelete, ReleaseForDelete, EndVacuum, xactVars
    <3> QED BY <1>0, <3>1, <3>2 DEF Complete
  <2> QED BY <1>2, <2>1, VacuumFrame DEF Stays
<1>3. CASE (\E d \in Doc : HeapTupleDies(d)) \/ UNCHANGED vars
  BY <1>0, <1>3 DEF HeapTupleDies, vars, xactVars, Stays
<1> QED BY <1>1, <1>2, <1>3 DEF Next, Backends

LEMMA HistoryStep ==
  ASSUME TypeOK, TypeOK', HistoryInv, [Next]_vars
  PROVE  HistoryInv'
<1>0. /\ nextXid \in Nat /\ latestCompleted \in Nat /\ latestCompleted < nextXid /\ nextXid > 2
      /\ latestCompleted >= 2 /\ latestCompleted' \in Nat
      /\ \A p \in Backends : p \in Proc /\ snap[p].xmax \in Nat /\ xid[p] \in Nat /\ xid[p] < nextXid
  <2>1. latestCompleted' \in Nat /\ nextXid > 2
    BY ConstantsAssumption DEF TypeOK
  <2> QED BY <2>1, NumberTypes DEF HistoryInv
<1>1. CASE Stays
  BY <1>0, <1>1 DEF Stays, HistoryInv, HasSnapshot
<1>2. ASSUME NEW p \in Backends, Begins(p) PROVE HistoryInv'
  <2>1. /\ latestCompleted' = latestCompleted
        /\ \A q \in Backends : q # p => xid'[q] = xid[q] /\ snap'[q] = snap[q]
        /\ xid'[p] = xid[p] \/ xid'[p] = nextXid
        /\ HasSnapshot(p) => snap'[p] = snap[p]
        /\ ~HasSnapshot(p) => snap'[p] = GetSnapshotData
    BY <1>0, <1>2 DEF Begins, TypeOK
  <2>2. /\ GetSnapshotData.xmax = latestCompleted + 1
        /\ \A y \in GetSnapshotData.xip : y > BuildXid
    BY DEF GetSnapshotData, RunningXids, HistoryInv, Backends
  <2>3. \A q \in Backends : HasSnapshot(q)' =>
          /\ snap'[q].xmax > BuildXid /\ snap'[q].xmax <= latestCompleted' + 1
          /\ \A y \in snap'[q].xip : y > BuildXid
    BY <1>0, <2>1, <2>2 DEF HistoryInv, HasSnapshot
  <2>4. \A q \in Backends : xid'[q] # InvalidXid => xid'[q] > BuildXid
    BY <1>0, <2>1 DEF HistoryInv
  <2>5. \A q, r \in Backends : xid'[q] # InvalidXid /\ xid'[q] = xid'[r] => q = r
    BY <1>0, <2>1 DEF HistoryInv
  <2> QED BY <1>0, <2>1, <2>3, <2>4, <2>5 DEF HistoryInv
<1>3. ASSUME NEW p \in Backends, Closes(p) \/ Ends(p) PROVE HistoryInv'
  <2>1. /\ \A q \in Backends : xid'[q] = xid[q] \/ xid'[q] = InvalidXid
        /\ \A q \in Backends : snap'[q] = snap[q] \/ snap'[q] = NoSnapshot
    BY <1>0, <1>3 DEF Closes, Ends, TypeOK
  <2>2. latestCompleted' >= latestCompleted
    BY <1>0, <1>3 DEF Closes, Ends, Complete
  <2> QED BY <1>0, <2>1, <2>2 DEF HistoryInv, HasSnapshot
<1> QED BY <1>1, <1>2, <1>3, XactSteps

\* A view after a step was a view before it.
LEMMA ViewsShrink ==
  ASSUME TypeOK, TypeOK', [Next]_vars, NEW V \in SUBSET Xid, ViewSet(V)'
  PROVE  ViewSet(V)
<1>0. /\ nextXid \in Nat /\ latestCompleted \in Nat /\ latestCompleted < nextXid
      /\ nextXid' \in Nat /\ latestCompleted' \in Nat /\ Xid \subseteq Nat
      /\ \A p \in Backends : p \in Proc /\ xid[p] \in Nat /\ xid[p] < nextXid
  <2>1. nextXid' \in Nat /\ latestCompleted' \in Nat
    BY ConstantsAssumption DEF TypeOK
  <2> QED BY <2>1, NumberTypes
<1>1. /\ nextXid <= nextXid' /\ latestCompleted <= latestCompleted'
      /\ \A q \in Backends : xid'[q] = xid[q] \/ xid'[q] = InvalidXid \/ xid'[q] = nextXid
  <2>1. CASE Stays
    BY <2>1 DEF Stays
  <2>2. ASSUME NEW p \in Backends, Begins(p) \/ Closes(p) \/ Ends(p)
        PROVE  /\ nextXid <= nextXid' /\ latestCompleted <= latestCompleted'
               /\ \A q \in Backends : xid'[q] = xid[q] \/ xid'[q] = InvalidXid \/ xid'[q] = nextXid
    BY <1>0, <2>2 DEF Begins, Closes, Ends, Complete, TypeOK
  <2> QED BY <2>1, <2>2, XactSteps
<1>2. CASE \A y \in Xid \ {InvalidXid} : y <= latestCompleted' /\ y \notin RunningXids' => y \in V
  <2> SUFFICES ASSUME NEW y \in Xid \ {InvalidXid}, y <= latestCompleted, y \notin RunningXids PROVE y \in V
    BY DEF ViewSet
  <2>1. y \in Nat /\ y <= latestCompleted' /\ y # nextXid /\ y # InvalidXid
    BY <1>0, <1>1
  <2>2. y \notin RunningXids'
    BY <1>1, <2>1 DEF RunningXids, Backends
  <2> QED BY <1>2, <2>1, <2>2
<1>3. ASSUME NEW p \in Backends, HasSnapshot(p)',
             \A y \in Xid \ {InvalidXid} : y < nextXid' => (y \in V <=> VisibleXid(y, p)')
      PROVE  ViewSet(V)
  <2>0. \A y \in Xid \ {InvalidXid} : y < nextXid => y < nextXid' /\ y # nextXid /\ y # InvalidXid
    BY <1>0, <1>1
  <2>1. CASE snap'[p] = snap[p] /\ (xid'[p] = xid[p] \/ (xid[p] = InvalidXid /\ xid'[p] = nextXid))
    <3>1. HasSnapshot(p)
      BY <1>3, <2>1 DEF HasSnapshot
    <3>2. \A y \in Xid \ {InvalidXid} : y < nextXid => (VisibleXid(y, p)' <=> VisibleXid(y, p))
      BY <2>0, <2>1 DEF VisibleXid, IsCurrent
    <3> QED BY <1>3, <2>0, <3>1, <3>2 DEF ViewSet
  <2>2. CASE snap'[p] = GetSnapshotData
    <3> SUFFICES ASSUME NEW y \in Xid \ {InvalidXid}, y <= latestCompleted, y \notin RunningXids PROVE y \in V
      BY DEF ViewSet
    <3>1. y \in Nat /\ y < nextXid
      BY <1>0
    <3>2. ~XidInMVCCSnapshot(y, GetSnapshotData)
      BY <1>0, <3>1 DEF XidInMVCCSnapshot, GetSnapshotData
    <3>3. VisibleXid(y, p)'
      BY <2>2, <3>2 DEF VisibleXid, XidInMVCCSnapshot
    <3> QED BY <1>3, <2>0, <3>1, <3>3
  <2>3. CASE Stays
    BY <2>1, <2>3 DEF Stays
  <2>4. ASSUME NEW q \in Backends, Begins(q) \/ Closes(q) \/ Ends(q) PROVE ViewSet(V)
    <3>1. CASE q # p
      BY <1>0, <2>1, <2>4, <3>1 DEF Begins, Closes, Ends, TypeOK
    <3>2. CASE q = p
      <4>1. CASE Begins(p)
        BY <1>0, <2>1, <2>2, <4>1 DEF Begins, TypeOK
      <4>2. CASE Closes(p) \/ Ends(p)
        BY <1>0, <1>3, <2>1, <4>2 DEF Closes, Ends, TypeOK, HasSnapshot
      <4> QED BY <2>4, <3>2, <4>1, <4>2
    <3> QED BY <3>1, <3>2
  <2> QED BY <2>3, <2>4, XactSteps
<1> QED BY <1>2, <1>3 DEF ViewSet

-----------------------------------------------------------------------------
(* save_new_metas, as the views see it                                      *)

\* Every view sees what is behind the removal horizon.
LEMMA HorizonSeen ==
  ASSUME TypeOK, NEW V \in SUBSET Xid, ViewSet(V),
         NEW x \in Xid \ {InvalidXid}, PrecedesHorizon(x)
  PROVE  x \in V
<1>0. /\ x \in Nat /\ x <= latestCompleted /\ x < nextXid
      /\ \A p \in Backends : xid[p] \in Nat /\ snap[p].xmax \in Nat /\ snap[p].xip \subseteq Nat
  BY NumberTypes DEF PrecedesHorizon
<1>1. x \notin RunningXids
  BY <1>0 DEF PrecedesHorizon, RunningXids, Backends
<1>2. \A p \in Backends : HasSnapshot(p) => VisibleXid(x, p)
  BY <1>0 DEF PrecedesHorizon, VisibleXid, XidInMVCCSnapshot, Backends
<1> QED BY <1>0, <1>1, <1>2 DEF ViewSet

\* Every view sees frozen ids.
LEMMA FrozenSeen ==
  ASSUME TypeOK, HistoryInv, NEW V \in SUBSET Xid, ViewSet(V)
  PROVE  FrozenXid \in V
<1>0. /\ 1 \in Xid \ {InvalidXid} /\ 1 < nextXid /\ 1 <= latestCompleted
  BY ConstantsAssumption, NumberTypes DEF HistoryInv, Xid
<1>1. \A p \in Backends : xid[p] # 1
  BY DEF HistoryInv
<1>2. \A p \in Backends : HasSnapshot(p) => VisibleXid(1, p)
  BY NumberTypes DEF HistoryInv, VisibleXid, XidInMVCCSnapshot
<1>3. 1 \notin RunningXids
  BY <1>1 DEF RunningXids, Backends
<1> QED BY <1>0, <1>2, <1>3 DEF ViewSet

\* The entry save_new_metas leaves for s before it collects garbage.
Marked(e, removed, me, s) == IF s \in removed THEN [e[s] EXCEPT !.xmax = me] ELSE e[s]

\* Garbage collection takes entries no view sees, and freezing an entry
\* changes for no view whether it sees the entry.
LEMMA SaveSeen ==
  ASSUME TypeOK, HistoryInv, NEW V \in SUBSET Xid, ViewSet(V),
         NEW p \in Proc, NEW me \in Xid,
         NEW created \in SUBSET SegId, NEW removed \in SUBSET SegId,
         NEW e \in [SegId -> Entry],
         SaveNewMetas(p, me, created, removed, e),
         NEW s \in SegId
  PROVE  LET m == Marked(e, removed, me, s) IN
         /\ entry'[s].docs = e[s].docs /\ entry'[s].deleted = e[s].deleted
         /\ s \in list' => s \in list \cup created
         /\ s \in list \cup created /\ s \notin list' => ~Seen(V, m)
         /\ entry'[s].xmin = InvalidXid <=> m.xmin = InvalidXid
         /\ entry'[s].xmin \in V <=> m.xmin \in V
         /\ entry'[s].xmax = InvalidXid <=> m.xmax = InvalidXid
         /\ entry'[s].xmax \in V <=> m.xmax \in V
<1> DEFINE m == Marked(e, removed, me, s)
           marked == [t \in SegId |-> IF t \in removed THEN [e[t] EXCEPT !.xmax = me] ELSE e[t]]
           kept == Survivors(p, list \cup created, marked)
<1>1. marked[s] = m /\ m \in Entry /\ m.docs = e[s].docs /\ m.deleted = e[s].deleted
  BY DEF Marked, Entry
<1>2. m.xmin \in Xid /\ m.xmax \in Xid
  BY <1>1 DEF Entry
<1>3. ASSUME NEW x \in Xid
      PROVE  (FrozenId(x) = InvalidXid <=> x = InvalidXid) /\ (FrozenId(x) \in V <=> x \in V)
  <2>1. CASE NeedsFreeze(x)
    <3>1. x # InvalidXid /\ PrecedesHorizon(x)
      BY <2>1, NumberTypes DEF NeedsFreeze
    <3> QED BY <2>1, <3>1, HorizonSeen, FrozenSeen DEF FrozenId
  <2>2. CASE ~NeedsFreeze(x)
    BY <2>2 DEF FrozenId
  <2> QED BY <2>1, <2>2
<1>4. CASE removed = {}
  <2>1. list' = list \cup created /\ entry' = marked
    BY <1>4 DEF SaveNewMetas
  <2> QED BY <1>1, <2>1
<1>5. CASE removed # {}
  <2>1. list' = kept /\ entry'[s] = IF s \in kept THEN Frozen(marked[s]) ELSE marked[s]
    BY <1>5 DEF SaveNewMetas
  <2>2. s \in list \cup created /\ s \notin kept => ~Seen(V, m)
    <3> SUFFICES ASSUME s \in list \cup created, s \notin kept PROVE ~Seen(V, m)
      OBVIOUS
    <3>1. Recyclable(m, snap[p])
      BY <1>1 DEF Survivors
    <3>2. m.xmax # InvalidXid /\ PrecedesHorizon(m.xmax)
      BY <3>1 DEF Recyclable
    <3>3. m.xmax \in V
      BY <1>2, <3>2, HorizonSeen
    <3> QED BY <3>2, <3>3 DEF Seen
  <2>3. kept \subseteq list \cup created
    BY DEF Survivors
  <2>4. /\ Frozen(m).docs = m.docs /\ Frozen(m).deleted = m.deleted
        /\ Frozen(m).xmin = FrozenId(m.xmin) /\ Frozen(m).xmax = FrozenId(m.xmax)
    BY DEF Frozen
  <2> HIDE DEF m, marked, kept
  <2>5. CASE s \in kept
    BY <1>1, <1>2, <1>3, <2>1, <2>2, <2>3, <2>4, <2>5 DEF m
  <2>6. CASE s \notin kept
    BY <1>1, <2>1, <2>2, <2>3, <2>6 DEF m
  <2> QED BY <2>5, <2>6
<1> QED BY <1>4, <1>5

-----------------------------------------------------------------------------
(* The steps that save metas                                                *)

\* What the commit of an INSERT adds.
LEMMA CommitSaves ==
  ASSUME TypeOK, NEW p \in Proc, NEW n \in 1..2, CommitInsert(p, n)
  PROVE  LET created == nextSeg..(nextSeg + n - 1) IN
         /\ nextSeg \in Nat /\ nextDoc \in Nat /\ nextSeg' = nextSeg + n /\ nextDoc' = nextDoc + n
         /\ created \subseteq SegId /\ list' = list \cup created
         /\ \A s \in SegId \ created : entry'[s] = entry[s]
         /\ \A s \in created : entry'[s] = [xmin |-> xid[p], xmax |-> InvalidXid,
                                            docs |-> {nextDoc + (s - nextSeg)}, deleted |-> {}]
         /\ inserter' = [d \in Doc |-> IF d \in nextDoc..(nextDoc + n - 1) THEN xid[p] ELSE inserter[d]]
<1> DEFINE created == nextSeg..(nextSeg + n - 1)
           e == [s \in SegId |-> IF s \in created
                   THEN [xmin |-> xid[p], xmax |-> InvalidXid,
                         docs |-> {nextDoc + (s - nextSeg)}, deleted |-> {}]
                   ELSE entry[s]]
<1>1. nextSeg \in Nat /\ nextDoc \in Nat /\ created \subseteq SegId
  BY ConstantsAssumption DEF CommitInsert, TypeOK, SegId
<1>2. SaveNewMetas(p, xid[p], created, {}, e)
  BY DEF CommitInsert
<1>3. list' = list \cup created /\ entry' = [s \in SegId |-> e[s]]
  BY <1>2 DEF SaveNewMetas
<1>4. /\ nextSeg' = nextSeg + n /\ nextDoc' = nextDoc + n
      /\ inserter' = [d \in Doc |-> IF d \in nextDoc..(nextDoc + n - 1) THEN xid[p] ELSE inserter[d]]
  BY DEF CommitInsert
<1> QED BY <1>1, <1>3, <1>4

\* What the merged segment holds, and what is saved of it.
MergedDocs(p) == UNION {MergeReads(p, s) : s \in cand[p]}
MergeCreates(p) == IF MergedDocs(p) = {} THEN {} ELSE {nextSeg}
MergeEntries(p) ==
  [s \in SegId |-> IF s \in MergeCreates(p)
     THEN [xmin |-> xid[p], xmax |-> InvalidXid, docs |-> MergedDocs(p), deleted |-> {}]
     ELSE entry[s]]

LEMMA MergeSaves ==
  ASSUME TypeOK, NEW p \in Proc, EndMerge(p)
  PROVE  /\ \/ UNCHANGED <<list, entry>> /\ MergedDocs(p) = {}
            \/ SaveNewMetas(p, xid[p], MergeCreates(p), cand[p], MergeEntries(p))
         /\ nextSeg \in SegId /\ nextSeg' = IF MergedDocs(p) = {} THEN nextSeg ELSE nextSeg + 1
         /\ MergeCreates(p) \in SUBSET SegId /\ cand[p] \in SUBSET SegId /\ xid[p] \in Xid
         /\ MergeEntries(p) \in [SegId -> Entry]
         /\ segs' = [segs EXCEPT ![p] = (segs[p] \ cand[p]) \cup MergeCreates(p)]
<1>1. nextSeg \in SegId /\ nextSeg' = IF MergedDocs(p) = {} THEN nextSeg ELSE nextSeg + 1
  BY ConstantsAssumption DEF EndMerge, TypeOK, SegId, MergedDocs
<1>2. MergeCreates(p) \in SUBSET SegId /\ cand[p] \in SUBSET SegId /\ xid[p] \in Xid
  BY <1>1 DEF MergeCreates, TypeOK
<1>3. MergedDocs(p) \subseteq Doc
  <2>1. \A s \in cand[p] : MergeReads(p, s) \subseteq Doc
    BY <1>2 DEF MergeReads, Alive, TypeOK, Entry
  <2> QED BY <2>1 DEF MergedDocs
<1>4. MergeEntries(p) \in [SegId -> Entry]
  <2>1. [xmin |-> xid[p], xmax |-> InvalidXid, docs |-> MergedDocs(p), deleted |-> {}] \in Entry
    BY <1>2, <1>3, ConstantsAssumption DEF Entry, Xid
  <2>2. \A s \in SegId : entry[s] \in Entry
    BY DEF TypeOK
  <2> QED BY <2>1, <2>2 DEF MergeEntries
<1>5. segs' = [segs EXCEPT ![p] = (segs[p] \ cand[p]) \cup MergeCreates(p)]
  BY DEF EndMerge, MergeCreates, MergedDocs
<1>6. \/ UNCHANGED <<list, entry>> /\ (segs[p] \ cand[p]) \cup MergeCreates(p) = {}
      \/ SaveNewMetas(p, xid[p], MergeCreates(p), cand[p], MergeEntries(p))
  BY DEF EndMerge, MergeCreates, MergedDocs, MergeEntries
<1> QED BY <1>1, <1>2, <1>4, <1>5, <1>6 DEF MergeCreates

\* What a bulk delete saves: e is the entry function with the dead documents
\* deleted, emptied the segments it retires.
LEMMA BulkDeleteSaves ==
  ASSUME TypeOK, TypeOK', NEW v \in Vacuums, BulkDelete(v)
  PROVE  \/ UNCHANGED <<list, entry>>
         \/ \E emptied \in SUBSET segs[v], e \in [SegId -> Entry] :
              /\ SaveNewMetas(v, xid'[v], {}, emptied, e)
              /\ \A s \in SegId :
                   /\ e[s].xmin = entry[s].xmin /\ e[s].xmax = entry[s].xmax /\ e[s].docs = entry[s].docs
                   /\ Alive(entry[s]) \ deadItems[v] \subseteq Alive(e[s])
              /\ \A s \in emptied : Alive(entry[s]) \subseteq deadItems[v]
<1> DEFINE purged == [s \in SegId |->
                        [entry[s] EXCEPT !.deleted = @ \cup (entry[s].docs \cap deadItems[v])]]
           emptied == {s \in segs[v] : Alive(purged[s]) = {}}
           newMeta == segs[v] \ emptied
           e == [s \in SegId |-> IF s \in newMeta THEN purged[s] ELSE entry[s]]
<1>1. UNCHANGED <<list, entry>> \/ SaveNewMetas(v, xid'[v], {}, emptied, e)
  BY DEF BulkDelete
<1>2. ASSUME NEW s \in SegId
      PROVE  /\ purged[s] \in Entry /\ entry[s] \in Entry
             /\ purged[s].xmin = entry[s].xmin /\ purged[s].xmax = entry[s].xmax
             /\ purged[s].docs = entry[s].docs
             /\ Alive(purged[s]) = Alive(entry[s]) \ deadItems[v]
  <2>1. entry[s] \in Entry /\ entry[s].docs \cap deadItems[v] \subseteq Doc
    BY DEF TypeOK, Entry
  <2>2. purged[s] = [entry[s] EXCEPT !.deleted = @ \cup (entry[s].docs \cap deadItems[v])]
    OBVIOUS
  <2> HIDE DEF purged
  <2>3. /\ purged[s] \in Entry
        /\ purged[s].xmin = entry[s].xmin /\ purged[s].xmax = entry[s].xmax
        /\ purged[s].docs = entry[s].docs
        /\ purged[s].deleted = entry[s].deleted \cup (entry[s].docs \cap deadItems[v])
    BY <2>1, <2>2 DEF Entry
  <2> QED BY <2>1, <2>3 DEF Alive
<1>3. emptied \subseteq segs[v] /\ segs[v] \subseteq SegId
  BY DEF TypeOK, Proc
<1> HIDE DEF purged
<1>4. e \in [SegId -> Entry]
  BY <1>2
<1>5. \A s \in SegId : /\ e[s].xmin = entry[s].xmin /\ e[s].xmax = entry[s].xmax /\ e[s].docs = entry[s].docs
                       /\ Alive(entry[s]) \ deadItems[v] \subseteq Alive(e[s])
  BY <1>2
<1>6. \A s \in emptied : Alive(entry[s]) \subseteq deadItems[v]
  BY <1>2, <1>3
<1> HIDE DEF e, emptied
<1> QED BY <1>1, <1>3, <1>4, <1>5, <1>6

\* The other steps leave the list and the documents alone.
LEMMA OtherSteps ==
  ASSUME [Next]_vars
  PROVE  \/ \E p \in Inserters : \E n \in 1..2 : CommitInsert(p, n)
         \/ \E p \in Inserters : EndMerge(p)
         \/ \E v \in Vacuums : BulkDelete(v)
         \/ UNCHANGED <<list, entry, nextSeg, inserter, nextDoc>>
<1>1. ASSUME NEW p \in Backends, InserterStep(p) \/ ReaderStep(p)
      PROVE  \/ (\E n \in 1..2 : CommitInsert(p, n)) \/ EndMerge(p)
             \/ UNCHANGED <<list, entry, nextSeg, inserter, nextDoc>>
  BY <1>1 DEF InserterStep, ReaderStep, BeginInsert, BeginScan, Open, SetNumSegments, AcquireForMerge, NoMerge,
       EndStatement, EndTransaction, AbortInsert, listVars, heapVars
<1>2. ASSUME NEW p \in Readers, ReaderStep(p)
      PROVE  UNCHANGED <<list, entry, nextSeg, inserter, nextDoc>>
  BY <1>2 DEF ReaderStep, BeginScan, Open, EndStatement, EndTransaction, listVars, heapVars
<1>3. ASSUME NEW v \in Vacuums, VacuumStep(v)
      PROVE  BulkDelete(v) \/ UNCHANGED <<list, entry, nextSeg, inserter, nextDoc>>
  BY <1>3 DEF VacuumStep, VacuumScan, AcquireForDelete, ReleaseForDelete, EndVacuum, listVars, heapVars
<1>4. CASE (\E d \in Doc : HeapTupleDies(d)) \/ UNCHANGED vars
  BY <1>4 DEF HeapTupleDies, vars, listVars, heapVars
<1> QED BY <1>1, <1>2, <1>3, <1>4 DEF Next, Backends

LEMMA FreshStep ==
  ASSUME TypeOK, TypeOK', FreshInv, [Next]_vars
  PROVE  FreshInv' /\ dead \subseteq dead'
<1>0. nextSeg \in Nat /\ nextSeg' \in Nat /\ SegId \subseteq Nat /\ list' \subseteq SegId
  BY ConstantsAssumption DEF TypeOK, SegId
<1>b. \A s \in list : s \in Nat /\ s < nextSeg
  BY <1>0 DEF TypeOK, FreshInv
<1> DEFINE Below(S, n) == \A s \in S : s < n
<1>1. nextSeg <= nextSeg' /\ Below(list', nextSeg')
  <2>1. ASSUME NEW p \in Inserters, NEW n \in 1..2, CommitInsert(p, n)
        PROVE  nextSeg <= nextSeg' /\ Below(list', nextSeg')
    <3>1. nextSeg' = nextSeg + n /\ list' = list \cup nextSeg..(nextSeg + n - 1)
      BY <2>1, CommitSaves DEF Proc
    <3>2. n \in {1, 2}
      OBVIOUS
    <3>3. \A s \in nextSeg..(nextSeg + n - 1) : s < nextSeg + n
      BY <1>0, <3>2
    <3>4. \A s \in list : s < nextSeg + n
      BY <1>0, <1>b, <3>2
    <3>5. nextSeg <= nextSeg'
      BY <1>0, <3>1, <3>2
    <3> QED BY <3>1, <3>3, <3>4, <3>5
  <2>2. ASSUME NEW p \in Inserters, EndMerge(p)
        PROVE  nextSeg <= nextSeg' /\ Below(list', nextSeg')
    <3>1. /\ nextSeg' = IF MergedDocs(p) = {} THEN nextSeg ELSE nextSeg + 1
          /\ \/ UNCHANGED <<list, entry>>
             \/ SaveNewMetas(p, xid[p], MergeCreates(p), cand[p], MergeEntries(p))
      BY <2>2, MergeSaves DEF Proc
    <3>2. list' \subseteq list \cup MergeCreates(p)
      BY <3>1 DEF SaveNewMetas, Survivors
    <3>3. \A s \in MergeCreates(p) : s < nextSeg'
      BY <1>0, <3>1 DEF MergeCreates
    <3> QED BY <1>0, <3>1, <3>2, <3>3 DEF FreshInv
  <2>3. ASSUME NEW v \in Vacuums, BulkDelete(v)
        PROVE  nextSeg <= nextSeg' /\ Below(list', nextSeg')
    <3>1. nextSeg' = nextSeg /\ list' \subseteq list
      BY <2>3 DEF BulkDelete, SaveNewMetas, Survivors
    <3> QED BY <1>0, <1>b, <3>1
  <2>4. CASE UNCHANGED <<list, entry, nextSeg, inserter, nextDoc>>
    BY <1>0, <2>4 DEF FreshInv
  <2> QED BY <2>1, <2>2, <2>3, <2>4, OtherSteps
<1>a. \A q \in Proc : \A s \in segs[q] \cup cand[q] \cup list : s < nextSeg'
  BY <1>0, <1>1 DEF FreshInv, TypeOK
<1>2. \A q \in Proc : \A s \in segs'[q] \cup cand'[q] : s < nextSeg'
  <2> SUFFICES ASSUME NEW q \in Proc
               PROVE  segs'[q] \subseteq segs[q] \cup list \cup list' \cup {nextSeg}
                      /\ (nextSeg \in segs'[q] => nextSeg < nextSeg') /\ cand'[q] \subseteq segs[q] \cup cand[q]
    BY <1>1, <1>a
  <2>0. \A s \in segs[q] : s # nextSeg
    BY <1>0 DEF FreshInv
  <2> DEFINE Ok == /\ segs'[q] \subseteq segs[q] \cup list \cup list' \cup {nextSeg}
                   /\ nextSeg \in segs'[q] => nextSeg < nextSeg'
                   /\ cand'[q] \subseteq segs[q] \cup cand[q]
  <2>1. ASSUME NEW p \in Backends, Open(p) PROVE Ok
    <3>1. LoadSnapshot(p) \subseteq list /\ cand' = cand
      BY <2>1 DEF LoadSnapshot, Open
    <3>2. \A s \in list : s # nextSeg
      BY <1>0 DEF FreshInv, TypeOK
    <3> QED BY <2>0, <2>1, <3>1, <3>2 DEF Open, TypeOK, Backends, Proc
  <2>2. ASSUME NEW p \in Inserters, NEW n \in 1..2, CommitInsert(p, n) PROVE Ok
    <3>1. /\ list' = list \cup nextSeg..(nextSeg + n - 1) /\ nextSeg' = nextSeg + n
      BY <2>2, CommitSaves DEF Proc
    <3>2. cand' = cand /\ segs' = [segs EXCEPT ![p] = @ \cup nextSeg..(nextSeg + n - 1)]
      BY <2>2 DEF CommitInsert
    <3> QED BY <1>0, <3>1, <3>2 DEF TypeOK
  <2>3. ASSUME NEW p \in Inserters, AcquireForMerge(p) PROVE Ok
    <3>1. \E C \in MergeCandidates(p) : cand' = [cand EXCEPT ![p] = C]
      BY <2>3 DEF AcquireForMerge
    <3>2. \A C \in MergeCandidates(p) : C \subseteq segs[p]
      BY DEF MergeCandidates
    <3>3. segs' = segs
      BY <2>3 DEF AcquireForMerge
    <3> QED BY <2>0, <3>1, <3>2, <3>3 DEF TypeOK
  <2>4. ASSUME NEW p \in Inserters, EndMerge(p) PROVE Ok
    <3>1. /\ nextSeg' = IF MergedDocs(p) = {} THEN nextSeg ELSE nextSeg + 1
          /\ segs' = [segs EXCEPT ![p] = (segs[p] \ cand[p]) \cup MergeCreates(p)]
      BY <2>4, MergeSaves DEF Proc
    <3>2. cand' = [cand EXCEPT ![p] = {}]
      BY <2>4 DEF EndMerge
    <3> QED BY <1>0, <2>0, <3>1, <3>2 DEF TypeOK, MergeCreates
  <2>5. ASSUME NEW p \in Backends, EndStatement(p) \/ AbortInsert(p) PROVE Ok
    BY <2>0, <2>5 DEF EndStatement, AbortInsert, CloseIndex, TypeOK
  <2>6. ASSUME NEW v \in Vacuums, VacuumStep(v) PROVE Ok
    <3>1. LoadAny(v) \subseteq list
      BY DEF LoadAny
    <3>2. \A s \in list : s # nextSeg
      BY <1>0 DEF FreshInv, TypeOK
    <3>3. cand' = cand
      BY <2>6 DEF VacuumStep, VacuumScan, AcquireForDelete, BulkDelete, ReleaseForDelete, EndVacuum
    <3>4. segs' = segs \/ \E S \in SUBSET (segs[v] \cup list) : segs' = [segs EXCEPT ![v] = S]
      BY <2>6, <3>1 DEF VacuumStep, VacuumScan, AcquireForDelete, BulkDelete, ReleaseForDelete, EndVacuum
    <3> QED BY <2>0, <3>2, <3>3, <3>4 DEF TypeOK, Proc
  <2>7. CASE UNCHANGED <<segs, cand>>
    BY <2>0, <2>7
  <2>8. ASSUME NEW p \in Backends, InserterStep(p) \/ ReaderStep(p)
        PROVE  \/ Open(p) \/ (\E n \in 1..2 : CommitInsert(p, n)) \/ AcquireForMerge(p) \/ EndMerge(p)
               \/ EndStatement(p) \/ AbortInsert(p) \/ UNCHANGED <<segs, cand>>
    BY <2>8 DEF InserterStep, ReaderStep, BeginInsert, BeginScan, SetNumSegments, NoMerge, EndTransaction, procVars
  <2>9. CASE (\E d \in Doc : HeapTupleDies(d)) \/ UNCHANGED vars
    BY <2>7, <2>9 DEF HeapTupleDies, vars, procVars
  <2>10. ASSUME NEW p \in Inserters, InserterStep(p) PROVE Ok
    BY <2>1, <2>2, <2>3, <2>4, <2>5, <2>7, <2>8, <2>10 DEF Backends
  <2>11. ASSUME NEW p \in Readers, ReaderStep(p) PROVE Ok
    <3>1. Open(p) \/ EndStatement(p) \/ UNCHANGED <<segs, cand>>
      BY <2>11 DEF ReaderStep, BeginScan, EndTransaction, procVars
    <3> QED BY <2>1, <2>5, <2>7, <3>1 DEF Backends
  <2> QED BY <2>6, <2>9, <2>10, <2>11 DEF Next
<1>3. dead \subseteq dead' /\ \A v \in Vacuums : deadItems'[v] \subseteq dead'
  <2>1. ASSUME NEW v \in Vacuums, VacuumStep(v)
        PROVE  dead' = dead /\ \A w \in Vacuums : deadItems'[w] \subseteq dead
    BY <2>1 DEF VacuumStep, VacuumScan, AcquireForDelete, BulkDelete, ReleaseForDelete, EndVacuum,
       heapVars, FreshInv, TypeOK
  <2>2. ASSUME NEW p \in Backends, InserterStep(p) \/ ReaderStep(p) PROVE UNCHANGED <<dead, deadItems>>
    BY <2>2 DEF InserterStep, ReaderStep, BeginInsert, BeginScan, Open, CommitInsert, SetNumSegments,
       AcquireForMerge, NoMerge, EndMerge, EndStatement, EndTransaction, AbortInsert, heapVars
  <2>3. ASSUME NEW d \in Doc, HeapTupleDies(d) PROVE dead \subseteq dead' /\ deadItems' = deadItems
    BY <2>3 DEF HeapTupleDies
  <2>4. CASE UNCHANGED vars
    BY <2>4 DEF vars, heapVars, FreshInv
  <2> QED BY <2>1, <2>2, <2>3, <2>4 DEF Next, FreshInv, Backends
<1> QED BY <1>1, <1>2, <1>3 DEF FreshInv

-----------------------------------------------------------------------------
(* Nothing is lost                                                          *)

\* A segment that a save leaves unmarked, and in which a view finds a document
\* that the save does not delete, is one the view still finds it in.
LEMMA SaveFinds ==
  ASSUME TypeOK, HistoryInv, NEW V \in SUBSET Xid, ViewSet(V),
         NEW p \in Proc, NEW me \in Xid,
         NEW created \in SUBSET SegId, NEW removed \in SUBSET SegId,
         NEW e \in [SegId -> Entry],
         SaveNewMetas(p, me, created, removed, e),
         NEW s \in list \cup created, NEW d, d \in Alive(e[s]), Seen(V, e[s]),
         s \in removed => me \notin V \/ me = InvalidXid
  PROVE  s \in list' /\ d \in Alive(entry'[s]) /\ Seen(V, entry'[s])
<1> DEFINE m == Marked(e, removed, me, s)
<1>0. s \in SegId
  BY DEF TypeOK
<1>1. /\ entry'[s].docs = e[s].docs /\ entry'[s].deleted = e[s].deleted
      /\ s \notin list' => ~Seen(V, m)
      /\ entry'[s].xmin \in V <=> m.xmin \in V
      /\ entry'[s].xmax = InvalidXid <=> m.xmax = InvalidXid
      /\ entry'[s].xmax \in V <=> m.xmax \in V
  BY <1>0, SaveSeen
<1>2. e[s] \in Entry
  BY <1>0
<1>3. m.xmin = e[s].xmin /\ m.xmax = (IF s \in removed THEN me ELSE e[s].xmax)
  BY <1>2 DEF Marked, Entry
<1> HIDE DEF m
<1>4. Seen(V, m)
  BY <1>3 DEF Seen
<1> QED BY <1>1, <1>4 DEF Seen, Alive

LEMMA FoundStep ==
  ASSUME TypeOK, TypeOK', LossInv, [Next]_vars
  PROVE  FoundInv'
<1> SUFFICES ASSUME NEW V \in SUBSET Xid, ViewSet(V)',
                    NEW d \in Doc, d \notin dead', inserter'[d] # InvalidXid, inserter'[d] \in V
             PROVE  \E s \in list' : d \in Alive(entry'[s]) /\ Seen(V, entry'[s])
  BY DEF FoundInv, Seen, Alive
<1> DEFINE Finds == \E s \in list' : d \in Alive(entry'[s]) /\ Seen(V, entry'[s])
<1>1. ViewSet(V) /\ d \notin dead /\ HistoryInv
  BY ViewsShrink, FreshStep DEF LossInv
<1>2. ASSUME inserter'[d] = inserter[d]
      PROVE  \E s \in list : d \in Alive(entry[s]) /\ Seen(V, entry[s])
  BY <1>1, <1>2 DEF LossInv, FoundInv
<1>3. CASE UNCHANGED <<list, entry, nextSeg, inserter, nextDoc>>
  BY <1>2, <1>3
<1>4. ASSUME NEW p \in Inserters, NEW n \in 1..2, CommitInsert(p, n) PROVE Finds
  <2> DEFINE created == nextSeg..(nextSeg + n - 1)
  <2>1. /\ nextSeg \in Nat /\ nextDoc \in Nat /\ list' = list \cup created /\ created \subseteq SegId
        /\ \A s \in SegId \ created : entry'[s] = entry[s]
        /\ \A s \in created : entry'[s] = [xmin |-> xid[p], xmax |-> InvalidXid,
                                           docs |-> {nextDoc + (s - nextSeg)}, deleted |-> {}]
        /\ inserter' = [x \in Doc |-> IF x \in nextDoc..(nextDoc + n - 1) THEN xid[p] ELSE inserter[x]]
    BY <1>4, CommitSaves DEF Proc
  <2>2. CASE d \in nextDoc..(nextDoc + n - 1)
    <3> DEFINE s == nextSeg + (d - nextDoc)
    <3>1. s \in created /\ nextDoc + (s - nextSeg) = d
      BY <2>1, <2>2
    <3>2. inserter'[d] = xid[p]
      BY <2>1, <2>2
    <3> HIDE DEF s
    <3>3. entry'[s] = [xmin |-> xid[p], xmax |-> InvalidXid, docs |-> {d}, deleted |-> {}]
      BY <2>1, <3>1
    <3> QED BY <2>1, <3>1, <3>2, <3>3 DEF Alive, Seen
  <2>3. CASE d \notin nextDoc..(nextDoc + n - 1)
    <3>1. inserter'[d] = inserter[d]
      BY <2>1, <2>3
    <3>2. PICK s \in list : d \in Alive(entry[s]) /\ Seen(V, entry[s])
      BY <1>2, <3>1
    <3>3. s \in SegId /\ s < nextSeg /\ s \in Nat
      BY ConstantsAssumption DEF TypeOK, LossInv, FreshInv, SegId
    <3>4. s \notin created
      BY <2>1, <3>3
    <3> QED BY <2>1, <3>2, <3>3, <3>4
  <2> QED BY <2>2, <2>3
<1>5. ASSUME NEW p \in Inserters, EndMerge(p) PROVE Finds
  <2>1. /\ \/ UNCHANGED <<list, entry>> /\ MergedDocs(p) = {}
           \/ SaveNewMetas(p, xid[p], MergeCreates(p), cand[p], MergeEntries(p))
        /\ MergeCreates(p) \in SUBSET SegId /\ cand[p] \in SUBSET SegId /\ xid[p] \in Xid
        /\ MergeEntries(p) \in [SegId -> Entry] /\ p \in Proc /\ nextSeg \in SegId
    BY <1>5, MergeSaves DEF Proc
  <2>2. inserter' = inserter
    BY <1>5 DEF EndMerge, heapVars
  <2>3. PICK s \in list : d \in Alive(entry[s]) /\ Seen(V, entry[s])
    BY <1>2, <2>2
  <2>4. CASE UNCHANGED <<list, entry>>
    BY <2>3, <2>4
  <2>5. CASE SaveNewMetas(p, xid[p], MergeCreates(p), cand[p], MergeEntries(p))
    <3>1. /\ s \in SegId /\ s # nextSeg /\ nextSeg \notin cand[p]
      BY <2>1, ConstantsAssumption DEF TypeOK, LossInv, FreshInv, SegId
    <3>2. MergeEntries(p)[s] = entry[s]
      BY <3>1 DEF MergeEntries, MergeCreates
    <3>3. CASE s \in cand[p] => xid[p] \notin V \/ xid[p] = InvalidXid
      <4>1. s \in list \cup MergeCreates(p) /\ d \in Alive(MergeEntries(p)[s]) /\ Seen(V, MergeEntries(p)[s])
        BY <2>3, <3>2
      <4>2. s \in list' /\ d \in Alive(entry'[s]) /\ Seen(V, entry'[s])
        BY <1>1, <2>1, <2>5, <3>3, <4>1, SaveFinds
      <4> QED BY <4>2
    <3>4. CASE s \in cand[p] /\ xid[p] \in V
      <4>1. d \in MergedDocs(p)
        BY <2>3, <3>4 DEF MergedDocs, MergeReads, Alive
      <4>2. MergeCreates(p) = {nextSeg}
        BY <4>1 DEF MergeCreates
      <4>3. MergeEntries(p)[nextSeg] = [xmin |-> xid[p], xmax |-> InvalidXid, docs |-> MergedDocs(p), deleted |-> {}]
        BY <2>1, <4>2 DEF MergeEntries
      <4>4. d \in Alive(MergeEntries(p)[nextSeg]) /\ Seen(V, MergeEntries(p)[nextSeg])
        BY <3>4, <4>1, <4>3 DEF Alive, Seen
      <4>5. nextSeg \in list \cup MergeCreates(p)
        BY <4>2
      <4>6. nextSeg \in list' /\ d \in Alive(entry'[nextSeg]) /\ Seen(V, entry'[nextSeg])
        BY <1>1, <2>1, <2>5, <3>1, <4>4, <4>5, SaveFinds
      <4> QED BY <4>6
    <3> QED BY <3>3, <3>4
  <2> QED BY <2>1, <2>4, <2>5
<1>6. ASSUME NEW v \in Vacuums, BulkDelete(v) PROVE Finds
  <2>1. inserter' = inserter /\ v \in Proc /\ segs[v] \subseteq SegId /\ deadItems[v] \subseteq dead
    BY <1>6 DEF BulkDelete, heapVars, TypeOK, LossInv, FreshInv, Proc
  <2>2. PICK s \in list : d \in Alive(entry[s]) /\ Seen(V, entry[s])
    BY <1>2, <2>1
  <2>3. CASE UNCHANGED <<list, entry>>
    BY <2>2, <2>3
  <2>4. ASSUME NEW emptied \in SUBSET segs[v], NEW e \in [SegId -> Entry],
               SaveNewMetas(v, xid'[v], {}, emptied, e),
               \A t \in SegId :
                 /\ e[t].xmin = entry[t].xmin /\ e[t].xmax = entry[t].xmax /\ e[t].docs = entry[t].docs
                 /\ Alive(entry[t]) \ deadItems[v] \subseteq Alive(e[t]),
               \A t \in emptied : Alive(entry[t]) \subseteq deadItems[v]
        PROVE  Finds
    <3>1. s \in SegId /\ s \notin emptied /\ emptied \in SUBSET SegId
      BY <1>1, <2>1, <2>2, <2>4 DEF TypeOK
    <3>2. d \in Alive(e[s]) /\ Seen(V, e[s])
      BY <1>1, <2>1, <2>2, <2>4, <3>1 DEF Seen
    <3>3. PICK me \in Xid : me = xid'[v]
      BY <2>1 DEF TypeOK
    <3>4. SaveNewMetas(v, me, {}, emptied, e)
      BY <2>4, <3>3
    <3> QED BY <1>1, <2>1, <3>1, <3>2, <3>4, SaveFinds
  <2> QED BY <1>6, <2>3, <2>4, BulkDeleteSaves
<1> QED BY <1>3, <1>4, <1>5, <1>6, OtherSteps

LEMMA InitLossInv == Init => LossInv
<1> SUFFICES ASSUME Init PROVE LossInv
  OBVIOUS
<1>0. /\ Len(Start) \in Nat /\ Len(Start) <= MaxSeg /\ MaxSeg \in Nat
      /\ \A s \in 1..Len(Start) : s \in SegId /\ Start[s] \subseteq Doc
  BY ConstantsAssumption DEF SegId
<1>1. HistoryInv
  BY DEF Init, HistoryInv, HasSnapshot, Backends, Proc
<1>2. FreshInv
  BY <1>0 DEF Init, FreshInv, Proc
<1>3. FoundInv
  <2> SUFFICES ASSUME NEW V \in SUBSET Xid, NEW d \in Doc, inserter[d] # InvalidXid, inserter[d] \in V
               PROVE  \E s \in list : d \in Alive(entry[s]) /\ Seen(V, entry[s])
    BY DEF FoundInv
  <2>1. d \in StartDocs /\ BuildXid \in V
    BY DEF Init
  <2>2. PICK s \in 1..Len(Start) : d \in Start[s]
    BY <2>1 DEF StartDocs
  <2>3. s \in SegId /\ s <= Len(Start)
    BY <1>0
  <2>4. entry[s] = [xmin |-> BuildXid, xmax |-> InvalidXid, docs |-> Start[s], deleted |-> {}]
    BY <2>3 DEF Init
  <2>5. d \in Alive(entry[s]) /\ Seen(V, entry[s])
    BY <2>1, <2>2, <2>4 DEF Alive, Seen
  <2>6. s \in list
    BY DEF Init
  <2> QED BY <2>5, <2>6
<1> QED BY <1>1, <1>2, <1>3 DEF LossInv

LEMMA LossStep ==
  ASSUME TypeOK, TypeOK', LossInv, [Next]_vars
  PROVE  LossInv'
BY HistoryStep, FreshStep, FoundStep DEF LossInv

\* The ids that the view v sees.
SeenIds(v) == {y \in Xid : IsCurrent(y, v[2]) \/ ~XidInMVCCSnapshot(y, v[1])}

LEMMA ViewsAreViewSets ==
  ASSUME TypeOK, NEW v \in Views
  PROVE  ViewSet(SeenIds(v))
<1>1. CASE v = <<GetSnapshotData, InvalidXid>>
  <2>1. \A y \in Xid : y <= latestCompleted /\ y \notin RunningXids => y \in SeenIds(v)
    BY <1>1, NumberTypes DEF SeenIds, XidInMVCCSnapshot, GetSnapshotData
  <2> QED BY <2>1 DEF ViewSet
<1>2. ASSUME NEW p \in Backends, HasSnapshot(p), v = <<snap[p], xid[p]>> PROVE ViewSet(SeenIds(v))
  <2>1. \A y \in Xid : y \in SeenIds(v) <=> VisibleXid(y, p)
    BY <1>2 DEF SeenIds, VisibleXid
  <2> QED BY <1>2, <2>1 DEF ViewSet
<1> QED BY <1>1, <1>2 DEF Views, Backends

\* Merges, VACUUMs, garbage collection and freezing (save_new_metas), by any
\* number of processes in any order, take no live row away from any snapshot
\* that sees its insertion.
THEOREM RowsAreNeverLost == Spec => []NothingLost
<1>1. TypeOK /\ LossInv => NothingLost
  <2> SUFFICES ASSUME TypeOK, LossInv, NEW v \in Views, NEW d \in Doc \ dead, SeesInsertOf(v, d)
               PROVE  FoundIn(v, d) # {}
    BY DEF NothingLost
  <2>1. ViewSet(SeenIds(v)) /\ SeenIds(v) \in SUBSET Xid
    BY ViewsAreViewSets DEF SeenIds
  <2>2. inserter[d] \in SeenIds(v) /\ inserter[d] # InvalidXid
    BY DEF SeesInsertOf, SeenIds, TypeOK
  <2>3. PICK s \in list : d \in Alive(entry[s]) /\ Seen(SeenIds(v), entry[s])
    BY <2>1, <2>2 DEF LossInv, FoundInv
  <2>4. entry[s].xmin \in Xid /\ entry[s].xmax \in Xid
    BY DEF TypeOK, Entry
  <2>5. Visible(entry[s], v[1], v[2])
    BY <2>3, <2>4 DEF Seen, SeenIds, Visible
  <2> QED BY <2>3, <2>5 DEF FoundIn
<1>2. TypeOK /\ LossInv /\ [Next]_vars => TypeOK' /\ LossInv'
  BY NextTypeOK, LossStep
<1>3. Init => TypeOK /\ LossInv
  BY InitTypeOK, InitLossInv
<1> QED BY <1>1, <1>2, <1>3, PTL DEF Spec

-----------------------------------------------------------------------------
(* Without VACUUM: merges see the previous merge, and no row is found twice *)

MergingInv == KeepInv /\ LossInv /\ MergeInv

LEMMA QuietSteps ==
  ASSUME Vacuums = {}, [Next]_vars
  PROVE  \/ \E p \in Inserters : InserterStep(p)
         \/ \E p \in Readers : ReaderStep(p)
         \/ (\E d \in Doc : HeapTupleDies(d)) \/ UNCHANGED vars
BY DEF Next

LEMMA QuietKeepStep ==
  ASSUME Vacuums = {}, TypeOK, TypeOK', KeepInv, [Next]_vars
  PROVE  KeepInv'
<1>1. CASE Next
  <2>1. OpenSegmentsInv'
    <3>1. CASE \E d \in Doc : HeapTupleDies(d)
      BY <3>1, OpenSegmentsFrame DEF HeapTupleDies, KeepInv, xactVars, listVars, procVars
    <3> QED BY <1>1, <3>1, OpenSegmentsBackend DEF Next, KeepInv, Backends
  <2>2. VacuumXidInv'
    BY DEF VacuumXidInv
  <2> QED BY <1>1, <2>1, <2>2, LockInvStep, SnapshotInvStep DEF KeepInv
<1>2. CASE UNCHANGED vars
  BY <1>2 DEF vars, xactVars, listVars, lockVars, procVars, heapVars, KeepInv, LockInv,
              SnapshotInv, HasSnapshot, XidInMVCCSnapshot, VacuumXidInv, OpenSegmentsInv
<1> QED BY <1>1, <1>2

\* A view that sees the transaction of a backend sees all that the backend sees.
LEMMA PeerView ==
  ASSUME TypeOK, SnapshotInv, HistoryInv, NEW V \in SUBSET Xid, ViewSet(V),
         NEW p \in Backends, HasSnapshot(p), xid[p] # InvalidXid, xid[p] \in V,
         NEW x \in Xid, x # InvalidXid, VisibleXid(x, p)
  PROVE  x \in V
<1>0. /\ nextXid \in Nat /\ latestCompleted \in Nat /\ latestCompleted < nextXid /\ x \in Nat
      /\ \A q \in Backends : xid[q] \in Xid /\ xid[q] < nextXid /\ snap[q].xmax \in Nat
  BY NumberTypes
<1>1. SUFFICES ASSUME x # xid[p] PROVE x \in V
  OBVIOUS
<1>2. ~XidInMVCCSnapshot(x, snap[p])
  BY <1>1 DEF VisibleXid, IsCurrent
<1>3. x <= latestCompleted /\ x < nextXid
  BY <1>0, <1>2 DEF XidInMVCCSnapshot, HistoryInv
<1>4. x \notin RunningXids
  BY <1>2 DEF SnapshotInv, RunningXids, Backends
<1>5. ASSUME NEW q \in Backends, HasSnapshot(q),
             \A y \in Xid \ {InvalidXid} : y < nextXid => (y \in V <=> VisibleXid(y, q))
      PROVE  x \in V
  <2>1. VisibleXid(xid[p], q)
    BY <1>0, <1>5
  <2>2. XidInMVCCSnapshot(xid[p], snap[q])
    BY <1>5 DEF SnapshotInv
  <2>3. p = q
    BY <2>1, <2>2 DEF VisibleXid, IsCurrent, HistoryInv
  <2> QED BY <1>0, <1>3, <1>5, <2>3
<1> QED BY <1>3, <1>4, <1>5 DEF ViewSet

\* What a backend itself sees.
OwnView(p) == {y \in Xid : VisibleXid(y, p)}

LEMMA OwnViewIsView ==
  ASSUME NEW p \in Backends, HasSnapshot(p)
  PROVE  OwnView(p) \in SUBSET Xid /\ ViewSet(OwnView(p))
BY DEF OwnView, ViewSet

\* Saving leaves the ids of an entry as they are, or freezes them.
LEMMA SaveIds ==
  ASSUME TypeOK, NEW p \in Proc, NEW me \in Xid,
         NEW created \in SUBSET SegId, NEW removed \in SUBSET SegId,
         NEW e \in [SegId -> Entry],
         SaveNewMetas(p, me, created, removed, e), NEW s \in SegId
  PROVE  LET m == Marked(e, removed, me, s) IN
         /\ entry'[s].xmin = m.xmin \/ entry'[s].xmin = FrozenXid
         /\ entry'[s].xmax = m.xmax \/ entry'[s].xmax = FrozenXid
         /\ m.xmin = e[s].xmin /\ m.xmax = IF s \in removed THEN me ELSE e[s].xmax
<1> DEFINE m == Marked(e, removed, me, s)
<1>1. entry'[s] = m \/ entry'[s] = Frozen(m)
  BY DEF SaveNewMetas, Marked
<1>2. m.xmin = e[s].xmin /\ m.xmax = IF s \in removed THEN me ELSE e[s].xmax
  <2>1. e[s] \in Entry
    OBVIOUS
  <2> QED BY <2>1 DEF Marked, Entry
<1> HIDE DEF m
<1>3. Frozen(m).xmin = FrozenId(m.xmin) /\ Frozen(m).xmax = FrozenId(m.xmax)
  BY DEF Frozen
<1> QED BY <1>1, <1>2, <1>3 DEF FrozenId, m

LEMMA MergeLockStep ==
  ASSUME Vacuums = {}, TypeOK, TypeOK', LockInv, MergeLockInv, [Next]_vars
  PROVE  MergeLockInv'
<1> USE ConstantsAssumption DEF Proc, MergeLockInv, TypeOK, BusyPC, vars, xactVars, listVars, lockVars, procVars
<1>1. nextXid \in Nat /\ nextXid # 0
  OBVIOUS
<1>2. ASSUME NEW p \in Inserters, InserterStep(p) PROVE MergeLockInv'
  <2>1. CASE BeginInsert(p)
    BY <1>1, <2>1 DEF BeginInsert, Begin
  <2>2. CASE Open(p)
    BY <2>2 DEF Open
  <2>3. CASE \E n \in 1..2 : CommitInsert(p, n)
    BY <2>3 DEF CommitInsert
  <2>4. CASE SetNumSegments(p)
    BY <2>4 DEF SetNumSegments
  <2>5. CASE AcquireForMerge(p)
    <3>1. /\ pc[p] = "saved" /\ holder' = p /\ lastMerge' = xid[p] /\ xid' = xid
          /\ pc' = [pc EXCEPT ![p] = "merging"] \/ pc' = [pc EXCEPT ![p] = "done"]
      BY <2>5 DEF AcquireForMerge
    <3> QED BY <3>1, ZenonT(30)
  <2>6. CASE NoMerge(p)
    BY <2>6 DEF NoMerge
  <2>7. CASE EndMerge(p)
    BY <2>7 DEF EndMerge, LockInv, Backends
  <2>8. CASE EndStatement(p)
    BY <2>8 DEF EndStatement, DropMergeLock, CloseIndex
  <2>9. CASE EndTransaction(p)
    BY <2>9 DEF EndTransaction
  <2>10. CASE AbortInsert(p)
    BY <2>10 DEF AbortInsert, DropMergeLock, CloseIndex
  <2> QED BY <1>2, <2>1, <2>2, <2>3, <2>4, <2>5, <2>6, <2>7, <2>8, <2>9, <2>10 DEF InserterStep
<1>3. ASSUME NEW p \in Readers, ReaderStep(p) PROVE MergeLockInv'
  <2>0. p \notin Inserters /\ holder # p
    OBVIOUS
  <2>1. CASE BeginScan(p)
    BY <2>0, <2>1 DEF BeginScan, Begin
  <2>2. CASE Open(p)
    BY <2>0, <2>2 DEF Open
  <2>3. CASE EndStatement(p)
    BY <2>0, <2>3 DEF EndStatement, DropMergeLock, CloseIndex
  <2>4. CASE EndTransaction(p)
    BY <2>0, <2>4 DEF EndTransaction
  <2> QED BY <1>3, <2>1, <2>2, <2>3, <2>4 DEF ReaderStep
<1>4. CASE (\E d \in Doc : HeapTupleDies(d)) \/ UNCHANGED vars
  BY <1>4 DEF HeapTupleDies
<1> QED BY <1>2, <1>3, <1>4, QuietSteps

\* Without VACUUM only commits and merges change the list.
LEMMA QuietListSteps ==
  ASSUME Vacuums = {}, [Next]_vars
  PROVE  \/ \E p \in Inserters : \E n \in 1..2 : CommitInsert(p, n)
         \/ \E p \in Inserters : EndMerge(p)
         \/ UNCHANGED <<list, entry, nextSeg, inserter, nextDoc>>
BY OtherSteps

\* What a merge replaces is in the list, not yet replaced, and seen by the
\* merging transaction, which stamped the merge lock.
LEMMA MergeState ==
  ASSUME TypeOK, MergingInv, NEW p \in Inserters, EndMerge(p)
  PROVE  /\ p \in Proc /\ p \in Backends /\ HasSnapshot(p) /\ holder = p
         /\ lastMerge = xid[p] /\ xid[p] \in Xid /\ xid[p] # InvalidXid
         /\ nextSeg \notin list \cup cand[p] /\ cand[p] \subseteq list
         /\ \A s \in cand[p] : /\ entry[s].xmax = InvalidXid /\ entry[s].xmin # InvalidXid
                               /\ VisibleXid(entry[s].xmin, p)
         /\ MergedDocs(p) = UNION {entry[s].docs : s \in cand[p]}
<1>1. p \in Proc /\ p \in Backends /\ pc[p] = "merging" /\ holder = p
  BY DEF Proc, Backends, EndMerge, MergingInv, KeepInv, LockInv
<1>2. HasSnapshot(p)
  BY <1>1 DEF MergingInv, KeepInv, SnapshotInv, BusyPC
<1>3. lastMerge = xid[p] /\ xid[p] \in Xid /\ xid[p] # InvalidXid
  BY <1>1 DEF MergingInv, MergeInv, MergeLockInv, BusyPC, TypeOK
<1>4. cand[p] \subseteq segs[p] /\ segs[p] \subseteq list
  BY <1>1 DEF MergingInv, KeepInv, OpenSegmentsInv, MergeInv, OwnSegmentsInv, OpenPC
<1>5. nextSeg \notin list \cup cand[p]
  BY <1>1, ConstantsAssumption DEF MergingInv, LossInv, FreshInv, TypeOK, SegId
<1>6. \A s \in cand[p] : /\ entry[s].xmax = InvalidXid /\ entry[s].xmin # InvalidXid
                         /\ VisibleXid(entry[s].xmin, p)
  BY <1>1, <1>4 DEF MergingInv, MergeInv, OwnSegmentsInv, EntriesInv, OpenPC
<1>7. \A s \in cand[p] : MergeReads(p, s) = entry[s].docs
  <2>1. cand[p] \subseteq SegId
    BY <1>4 DEF TypeOK
  <2>2. \A s \in cand[p] : entry[s].deleted = {}
    BY <2>1 DEF MergingInv, MergeInv, EntriesInv
  <2> QED BY <2>2 DEF MergeReads, Alive
<1>8. MergedDocs(p) = UNION {entry[s].docs : s \in cand[p]}
  BY <1>7 DEF MergedDocs
<1> QED BY <1>1, <1>2, <1>3, <1>4, <1>5, <1>6, <1>8

LEMMA EveryIdIsAView == Xid \in SUBSET Xid /\ ViewSet(Xid)
BY DEF ViewSet

LEMMA EntriesStep ==
  ASSUME Vacuums = {}, TypeOK, TypeOK', MergingInv, [Next]_vars
  PROVE  EntriesInv'
<1>0. /\ list \subseteq SegId /\ nextDoc \in Nat /\ EntriesInv /\ HistoryInv
      /\ \A s \in SegId : entry[s].docs \subseteq Nat
  BY ConstantsAssumption DEF TypeOK, MergingInv, MergeInv, LossInv, Entry, Doc
<1>1. ASSUME NEW p \in Inserters, NEW n \in 1..2, CommitInsert(p, n) PROVE EntriesInv'
  <2> DEFINE created == nextSeg..(nextSeg + n - 1)
  <2>1. /\ nextSeg \in Nat /\ nextDoc' = nextDoc + n /\ list' = list \cup created /\ created \subseteq SegId
        /\ \A s \in SegId \ created : entry'[s] = entry[s]
        /\ \A s \in created : entry'[s] = [xmin |-> xid[p], xmax |-> InvalidXid,
                                           docs |-> {nextDoc + (s - nextSeg)}, deleted |-> {}]
    BY <1>1, CommitSaves DEF Proc
  <2>2. xid[p] # InvalidXid
    BY <1>1 DEF CommitInsert, MergingInv, MergeInv, MergeLockInv, BusyPC
  <2>3. \A s \in created : /\ entry'[s].deleted = {} /\ entry'[s].xmin # InvalidXid
                           /\ \A d \in entry'[s].docs : d < nextDoc'
    <3> TAKE s \in created
    <3>1. /\ entry'[s].deleted = {} /\ entry'[s].xmin # InvalidXid
          /\ entry'[s].docs = {nextDoc + (s - nextSeg)}
      <4>1. entry'[s] = [xmin |-> xid[p], xmax |-> InvalidXid, docs |-> {nextDoc + (s - nextSeg)}, deleted |-> {}]
        BY <2>1
      <4> HIDE DEF created
      <4> QED BY <2>2, <4>1
    <3>2. nextDoc + (s - nextSeg) < nextDoc + n
      <4>1. s \in Nat /\ nextSeg <= s /\ s < nextSeg + n
        BY <2>1
      <4> QED BY <1>0, <2>1, <4>1
    <3> QED BY <2>1, <3>1, <3>2
  <2>4. \A s \in SegId \ created : entry'[s].deleted = {}
    BY <1>0, <2>1 DEF EntriesInv
  <2>5. \A s \in list \ created : entry'[s].xmin # InvalidXid /\ \A d \in entry'[s].docs : d < nextDoc'
    <3> TAKE s \in list \ created
    <3>1. s \in SegId /\ entry'[s] = entry[s] /\ entry[s].docs \subseteq Nat
      BY <1>0, <2>1
    <3> QED BY <1>0, <2>1, <3>1 DEF EntriesInv
  <2> QED BY <2>1, <2>3, <2>4, <2>5 DEF EntriesInv
<1>2. ASSUME NEW p \in Inserters, EndMerge(p) PROVE EntriesInv'
  <2>1. /\ \/ UNCHANGED <<list, entry>> /\ MergedDocs(p) = {}
           \/ SaveNewMetas(p, xid[p], MergeCreates(p), cand[p], MergeEntries(p))
        /\ MergeCreates(p) \in SUBSET SegId /\ cand[p] \in SUBSET SegId /\ xid[p] \in Xid
        /\ MergeEntries(p) \in [SegId -> Entry] /\ p \in Proc /\ nextSeg \in SegId
    BY <1>2, MergeSaves DEF Proc
  <2>2. nextDoc' = nextDoc
    BY <1>2 DEF EndMerge, heapVars
  <2>3. /\ xid[p] # InvalidXid /\ \A d \in MergedDocs(p) : d < nextDoc
    BY <1>0, <1>2, MergeState DEF EntriesInv
  <2>4. CASE UNCHANGED <<list, entry>>
    BY <1>0, <2>2, <2>4 DEF EntriesInv
  <2>5. CASE SaveNewMetas(p, xid[p], MergeCreates(p), cand[p], MergeEntries(p))
    <3>1. ASSUME NEW s \in SegId
          PROVE  /\ entry'[s].docs = MergeEntries(p)[s].docs /\ entry'[s].deleted = MergeEntries(p)[s].deleted
                 /\ s \in list' => s \in list \cup MergeCreates(p)
                 /\ entry'[s].xmin = InvalidXid <=> Marked(MergeEntries(p), cand[p], xid[p], s).xmin = InvalidXid
      <4>1. PICK V \in SUBSET Xid : ViewSet(V)
        BY EveryIdIsAView
      <4> QED BY <1>0, <2>1, <2>5, <4>1, SaveSeen
    <3>2. \A s \in SegId : Marked(MergeEntries(p), cand[p], xid[p], s).xmin = MergeEntries(p)[s].xmin
      BY <2>1, <2>5, SaveIds
    <3>3. \A s \in SegId : /\ MergeEntries(p)[s].deleted = {}
                           /\ s \in list \cup MergeCreates(p) =>
                                /\ MergeEntries(p)[s].xmin # InvalidXid
                                /\ \A d \in MergeEntries(p)[s].docs : d < nextDoc
      <4> TAKE s \in SegId
      <4>1. CASE s \in MergeCreates(p)
        <5>1. MergeEntries(p)[s] = [xmin |-> xid[p], xmax |-> InvalidXid, docs |-> MergedDocs(p), deleted |-> {}]
          BY <4>1 DEF MergeEntries
        <5> QED BY <2>3, <5>1
      <4>2. CASE s \notin MergeCreates(p)
        <5>1. MergeEntries(p)[s] = entry[s]
          BY <4>2 DEF MergeEntries
        <5> QED BY <1>0, <4>2, <5>1 DEF EntriesInv
      <4> QED BY <4>1, <4>2
    <3>4. list' \subseteq SegId
      BY DEF TypeOK
    <3> QED BY <2>2, <3>1, <3>2, <3>3, <3>4 DEF EntriesInv
  <2> QED BY <2>1, <2>4, <2>5
<1>3. CASE UNCHANGED <<list, entry, nextSeg, inserter, nextDoc>>
  BY <1>0, <1>3 DEF EntriesInv
<1> QED BY <1>1, <1>2, <1>3, QuietListSteps

\* The part of OwnSegmentsInv about one writer.
OwnSegments(p) ==
  pc[p] \in OpenPC =>
    /\ \A s \in segs[p] : entry[s].xmax # xid[p] /\ VisibleXid(entry[s].xmin, p)
    /\ pc[p] = "merging" => /\ cand[p] \subseteq segs[p]
                            /\ \A s \in cand[p] : entry[s].xmax = InvalidXid

\* The other statements' writers.
LEMMA OtherWriters ==
  ASSUME Vacuums = {}, TypeOK, MergingInv,
         NEW a \in Backends, (a \in Inserters /\ InserterStep(a)) \/ (a \in Readers /\ ReaderStep(a)),
         NEW p \in Inserters, p # a
  PROVE  OwnSegments(p)'
<1>1. /\ pc'[p] = pc[p] /\ segs'[p] = segs[p] /\ cand'[p] = cand[p] /\ snap'[p] = snap[p] /\ xid'[p] = xid[p]
      /\ p \in Proc /\ p \in Backends
  BY DEF InserterStep, ReaderStep, BeginInsert, BeginScan, Begin, Open, CommitInsert, SetNumSegments, AcquireForMerge,
     NoMerge, EndMerge, EndStatement, EndTransaction, AbortInsert, CloseIndex, xactVars, procVars,
     TypeOK, Proc, Backends
<1>2. SUFFICES ASSUME pc[p] \in OpenPC
               PROVE  /\ \A s \in segs[p] : entry'[s].xmax # xid[p] /\ VisibleXid(entry'[s].xmin, p)
                      /\ pc[p] = "merging" => /\ cand[p] \subseteq segs[p]
                                              /\ \A s \in cand[p] : entry'[s].xmax = InvalidXid
  BY <1>1 DEF OwnSegments, VisibleXid, XidInMVCCSnapshot
<1>3. /\ \A s \in segs[p] : entry[s].xmax # xid[p] /\ VisibleXid(entry[s].xmin, p)
      /\ pc[p] = "merging" => /\ cand[p] \subseteq segs[p]
                              /\ \A s \in cand[p] : entry[s].xmax = InvalidXid
  BY <1>2 DEF MergingInv, MergeInv, OwnSegmentsInv
<1>4. CASE UNCHANGED entry
  BY <1>3, <1>4
<1>5. segs[p] \subseteq SegId /\ \A s \in segs[p] : s \in Nat /\ s < nextSeg
  BY <1>1, ConstantsAssumption DEF TypeOK, SegId, MergingInv, LossInv, FreshInv
<1>6. ASSUME NEW n \in 1..2, CommitInsert(a, n)
      PROVE  \A s \in segs[p] : entry'[s] = entry[s]
  <2>1. /\ nextSeg \in Nat
        /\ \A s \in SegId \ nextSeg..(nextSeg + n - 1) : entry'[s] = entry[s]
    BY <1>6, CommitSaves DEF Proc, Backends
  <2> QED BY <1>5, <2>1
<1>7. CASE \E n \in 1..2 : CommitInsert(a, n)
  BY <1>3, <1>6, <1>7
<1>8. CASE EndMerge(a) /\ a \in Inserters
  <2>1. /\ holder = a /\ xid[a] # InvalidXid
    BY <1>8, MergeState
  <2>2. pc[p] # "merging"
    BY <1>1, <2>1 DEF MergingInv, KeepInv, LockInv
  <2>3. /\ \/ UNCHANGED <<list, entry>> /\ MergedDocs(a) = {}
           \/ SaveNewMetas(a, xid[a], MergeCreates(a), cand[a], MergeEntries(a))
        /\ MergeCreates(a) \in SUBSET SegId /\ cand[a] \in SUBSET SegId /\ xid[a] \in Xid
        /\ MergeEntries(a) \in [SegId -> Entry] /\ a \in Proc
    BY <1>8, MergeSaves DEF Proc
  <2>4. SUFFICES ASSUME SaveNewMetas(a, xid[a], MergeCreates(a), cand[a], MergeEntries(a)), NEW s \in segs[p]
                 PROVE  entry'[s].xmax # xid[p] /\ VisibleXid(entry'[s].xmin, p)
    BY <1>4, <2>2, <2>3
  <2>5. s \in SegId /\ s # nextSeg /\ MergeEntries(a)[s] = entry[s]
    BY <1>5, <2>3 DEF MergeEntries, MergeCreates, TypeOK
  <2>6. /\ HasSnapshot(p) /\ xid[p] # InvalidXid /\ xid[p] # FrozenXid /\ xid[p] # xid[a] /\ HistoryInv
    BY <1>1, <1>2, <2>1 DEF MergingInv, KeepInv, SnapshotInv, MergeInv, MergeLockInv, OpenPC, BusyPC, LossInv, HistoryInv
  <2> DEFINE m == Marked(MergeEntries(a), cand[a], xid[a], s)
  <2>7. /\ entry'[s].xmax = m.xmax \/ entry'[s].xmax = FrozenXid
        /\ entry'[s].xmin = m.xmin \/ entry'[s].xmin = FrozenXid
        /\ m.xmin = entry[s].xmin /\ m.xmax = IF s \in cand[a] THEN xid[a] ELSE entry[s].xmax
    BY <2>3, <2>4, <2>5, SaveIds
  <2> HIDE DEF m
  <2>8. entry'[s].xmax # xid[p]
    BY <1>3, <2>6, <2>7
  <2>9. VisibleXid(FrozenXid, p)
    <3>1. FrozenXid \in OwnView(p)
      BY <1>1, <2>6, OwnViewIsView, FrozenSeen
    <3> QED BY <3>1 DEF OwnView
  <2> QED BY <1>3, <2>7, <2>8, <2>9
<1>9. \/ UNCHANGED entry \/ (\E n \in 1..2 : CommitInsert(a, n)) \/ (EndMerge(a) /\ a \in Inserters)
  <2>1. ASSUME ReaderStep(a) PROVE UNCHANGED entry
    BY <2>1 DEF ReaderStep, BeginScan, Open, EndStatement, EndTransaction, listVars
  <2>2. ASSUME InserterStep(a) PROVE UNCHANGED entry \/ (\E n \in 1..2 : CommitInsert(a, n)) \/ EndMerge(a)
    BY <2>2 DEF InserterStep, BeginInsert, Open, SetNumSegments, AcquireForMerge,
       NoMerge, EndStatement, EndTransaction, AbortInsert, listVars
  <2> QED BY <2>1, <2>2
<1> QED BY <1>4, <1>7, <1>8, <1>9

LEMMA OwnSegmentsStep ==
  ASSUME Vacuums = {}, TypeOK, TypeOK', MergingInv, [Next]_vars
  PROVE  OwnSegmentsInv'
<1>1. SUFFICES ASSUME NEW p \in Inserters PROVE OwnSegments(p)'
  BY DEF OwnSegmentsInv, OwnSegments
<1>2. p \in Proc /\ p \in Backends /\ OwnSegments(p)
  BY DEF Proc, Backends, MergingInv, MergeInv, OwnSegmentsInv, OwnSegments
<1>3. ASSUME UNCHANGED <<entry, xid, snap>>, UNCHANGED <<segs, cand>>, pc'[p] \in OpenPC => pc'[p] = pc[p]
      PROVE  OwnSegments(p)'
  BY <1>2, <1>3 DEF OwnSegments, VisibleXid, XidInMVCCSnapshot, OpenPC
<1>4. CASE Open(p)
  <2>1. /\ pc'[p] = "open" /\ segs'[p] = LoadSnapshot(p) /\ UNCHANGED <<entry, xid, snap>> /\ pc[p] = "started"
    BY <1>2, <1>4 DEF Open, TypeOK, xactVars, listVars
  <2>2. xid[p] # InvalidXid
    BY <2>1 DEF MergingInv, MergeInv, MergeLockInv, BusyPC
  <2>3. \A s \in LoadSnapshot(p) : entry[s].xmax # xid[p] /\ VisibleXid(entry[s].xmin, p)
    BY <2>2 DEF LoadSnapshot, Visible, VisibleXid, IsCurrent
  <2> QED BY <2>1, <2>3 DEF OwnSegments, VisibleXid, XidInMVCCSnapshot
<1>5. ASSUME NEW n \in 1..2, CommitInsert(p, n) PROVE OwnSegments(p)'
  <2> DEFINE created == nextSeg..(nextSeg + n - 1)
  <2>1. /\ nextSeg \in Nat
        /\ \A s \in SegId \ created : entry'[s] = entry[s]
        /\ \A s \in created : entry'[s] = [xmin |-> xid[p], xmax |-> InvalidXid,
                                           docs |-> {nextDoc + (s - nextSeg)}, deleted |-> {}]
    BY <1>2, <1>5, CommitSaves
  <2>2. /\ pc'[p] = "saved" /\ segs'[p] = segs[p] \cup created /\ UNCHANGED <<xid, snap>> /\ pc[p] = "open"
    BY <1>2, <1>5 DEF CommitInsert, TypeOK, xactVars
  <2>3. xid[p] # InvalidXid
    BY <2>2 DEF MergingInv, MergeInv, MergeLockInv, BusyPC
  <2>4. \A s \in created : entry'[s].xmax # xid[p] /\ VisibleXid(entry'[s].xmin, p)
    <3> TAKE s \in created
    <3>1. entry'[s] = [xmin |-> xid[p], xmax |-> InvalidXid, docs |-> {nextDoc + (s - nextSeg)}, deleted |-> {}]
      BY <2>1
    <3> HIDE DEF created
    <3>2. entry'[s].xmax = InvalidXid /\ entry'[s].xmin = xid[p]
      BY <3>1
    <3> QED BY <2>3, <3>2 DEF VisibleXid, IsCurrent
  <2>5. \A s \in segs[p] : s \in SegId /\ s \notin created
    <3>1. segs[p] \subseteq SegId /\ \A s \in segs[p] : s \in Nat /\ s < nextSeg
      BY <1>2, ConstantsAssumption DEF TypeOK, SegId, MergingInv, LossInv, FreshInv
    <3> QED BY <2>1, <3>1
  <2>6. \A s \in segs[p] : entry'[s].xmax # xid[p] /\ VisibleXid(entry'[s].xmin, p)
    BY <1>2, <2>1, <2>2, <2>5 DEF OwnSegments, OpenPC
  <2> HIDE DEF created
  <2> QED BY <2>2, <2>4, <2>6 DEF OwnSegments, VisibleXid, XidInMVCCSnapshot
<1>6. CASE AcquireForMerge(p)
  <2>1. /\ pc[p] = "saved" /\ UNCHANGED <<segs, entry, xid, snap>> /\ LastMergeVisible(p)
    BY <1>6 DEF AcquireForMerge, listVars, xactVars
  <2>2. PICK C \in MergeCandidates(p) : cand' = [cand EXCEPT ![p] = C]
    BY <1>6 DEF AcquireForMerge
  <2>3. cand'[p] \subseteq segs[p]
    BY <1>2, <2>2 DEF MergeCandidates, TypeOK
  <2>4. \A s \in segs[p] : entry[s].xmax # xid[p] /\ VisibleXid(entry[s].xmin, p)
    BY <1>2, <2>1 DEF OwnSegments, OpenPC
  <2>5. \A s \in segs[p] : entry[s].xmax = InvalidXid
    <3> SUFFICES ASSUME NEW s \in segs[p], entry[s].xmax # InvalidXid PROVE FALSE
      OBVIOUS
    <3>1. HasSnapshot(p) /\ s \in list /\ XidInMVCCSnapshot(entry[s].xmax, snap[p])
      BY <1>2, <2>1 DEF MergingInv, KeepInv, SnapshotInv, OpenSegmentsInv, OpenPC, BusyPC
    <3>2. lastMerge \in OwnView(p) /\ OwnView(p) \in SUBSET Xid /\ ViewSet(OwnView(p))
      BY <1>2, <2>1, <3>1, OwnViewIsView DEF OwnView, LastMergeVisible, VisibleXid, TypeOK
    <3>3. entry[s].xmax \in OwnView(p)
      BY <3>1, <3>2 DEF MergingInv, MergeInv, ChainInv
    <3>4. entry[s].xmax = xid[p]
      BY <3>1, <3>3 DEF OwnView, VisibleXid, IsCurrent
    <3> QED BY <2>4, <3>4
  <2> QED BY <2>1, <2>3, <2>4, <2>5 DEF OwnSegments, VisibleXid, XidInMVCCSnapshot
<1>7. ASSUME EndMerge(p) \/ SetNumSegments(p) \/ NoMerge(p) \/ BeginInsert(p) \/ EndStatement(p)
             \/ EndTransaction(p) \/ AbortInsert(p)
      PROVE  OwnSegments(p)'
  <2>1. pc'[p] \in {"done", "started", "idle"}
    BY <1>2, <1>7 DEF EndMerge, SetNumSegments, NoMerge, BeginInsert, Begin, EndStatement, EndTransaction, AbortInsert,
       CloseIndex, procVars, TypeOK
  <2> QED BY <2>1 DEF OwnSegments, OpenPC
<1>8. CASE (\E d \in Doc : HeapTupleDies(d)) \/ UNCHANGED vars
  BY <1>3, <1>8 DEF HeapTupleDies, vars, xactVars, listVars, procVars
<1>9. ASSUME NEW a \in Inserters, InserterStep(a) PROVE OwnSegments(p)'
  <2>1. CASE a = p
    BY <1>4, <1>5, <1>6, <1>7, <1>9, <2>1 DEF InserterStep
  <2>2. CASE a # p
    BY <1>9, <2>2, OtherWriters DEF Backends
  <2> QED BY <2>1, <2>2
<1>10. ASSUME NEW a \in Readers, ReaderStep(a) PROVE OwnSegments(p)'
  <2>1. a # p
    BY ConstantsAssumption
  <2> QED BY <1>10, <2>1, OtherWriters DEF Backends
<1> QED BY <1>8, <1>9, <1>10, QuietSteps

LEMMA ChainStep ==
  ASSUME Vacuums = {}, TypeOK, TypeOK', MergingInv, [Next]_vars
  PROVE  ChainInv'
<1> SUFFICES ASSUME NEW V \in SUBSET Xid, ViewSet(V)', lastMerge' = InvalidXid \/ lastMerge' \in V,
                    NEW s \in list', entry'[s].xmax # InvalidXid
             PROVE  entry'[s].xmax \in V
  BY DEF ChainInv
<1>1. ViewSet(V) /\ HistoryInv /\ ChainInv /\ MergeLockInv /\ SnapshotInv /\ s \in SegId
  BY ViewsShrink DEF MergingInv, LossInv, MergeInv, KeepInv, TypeOK
<1>2. ASSUME lastMerge = InvalidXid \/ lastMerge \in V, UNCHANGED <<list, entry>> PROVE entry'[s].xmax \in V
  BY <1>1, <1>2 DEF ChainInv
<1>3. ASSUME NEW p \in Inserters, NEW n \in 1..2, CommitInsert(p, n) PROVE entry'[s].xmax \in V
  <2> DEFINE created == nextSeg..(nextSeg + n - 1)
  <2>1. /\ list' = list \cup created /\ \A t \in SegId \ created : entry'[t] = entry[t]
        /\ \A t \in created : entry'[t] = [xmin |-> xid[p], xmax |-> InvalidXid,
                                           docs |-> {nextDoc + (t - nextSeg)}, deleted |-> {}]
    BY <1>3, CommitSaves DEF Proc
  <2>2. lastMerge' = lastMerge
    BY <1>3 DEF CommitInsert, lockVars
  <2>3. s \notin created
    <3> SUFFICES ASSUME s \in created PROVE FALSE
      OBVIOUS
    <3>1. entry'[s] = [xmin |-> xid[p], xmax |-> InvalidXid, docs |-> {nextDoc + (s - nextSeg)}, deleted |-> {}]
      BY <2>1
    <3> HIDE DEF created
    <3>2. entry'[s].xmax = InvalidXid
      BY <3>1
    <3> QED BY <3>2
  <2> HIDE DEF created
  <2> QED BY <1>1, <2>1, <2>2, <2>3 DEF ChainInv
<1>4. ASSUME NEW p \in Inserters, EndMerge(p) PROVE entry'[s].xmax \in V
  <2>1. /\ \/ UNCHANGED <<list, entry>> /\ MergedDocs(p) = {}
           \/ SaveNewMetas(p, xid[p], MergeCreates(p), cand[p], MergeEntries(p))
        /\ MergeCreates(p) \in SUBSET SegId /\ cand[p] \in SUBSET SegId /\ xid[p] \in Xid
        /\ MergeEntries(p) \in [SegId -> Entry] /\ p \in Proc
    BY <1>4, MergeSaves DEF Proc
  <2>2. lastMerge' = lastMerge /\ lastMerge = xid[p] /\ xid[p] # InvalidXid
    BY <1>4, MergeState DEF EndMerge, lockVars
  <2>3. CASE SaveNewMetas(p, xid[p], MergeCreates(p), cand[p], MergeEntries(p))
    <3> DEFINE m == Marked(MergeEntries(p), cand[p], xid[p], s)
    <3>1. /\ s \in list \cup MergeCreates(p)
          /\ entry'[s].xmax = InvalidXid <=> m.xmax = InvalidXid
          /\ entry'[s].xmax \in V <=> m.xmax \in V
      BY <1>1, <2>1, <2>3, SaveSeen
    <3>2. m.xmax = IF s \in cand[p] THEN xid[p] ELSE MergeEntries(p)[s].xmax
      BY <1>1, <2>1, <2>3, SaveIds
    <3> HIDE DEF m
    <3>3. CASE s \in cand[p]
      BY <2>2, <3>1, <3>2, <3>3
    <3>4. CASE s \notin cand[p] /\ s \in MergeCreates(p)
      <4>1. MergeEntries(p)[s] = [xmin |-> xid[p], xmax |-> InvalidXid, docs |-> MergedDocs(p), deleted |-> {}]
        BY <1>1, <3>4 DEF MergeEntries
      <4>2. m.xmax = InvalidXid
        BY <3>2, <3>4, <4>1
      <4> QED BY <3>1, <4>2
    <3>5. CASE s \notin cand[p] /\ s \notin MergeCreates(p)
      <4>1. MergeEntries(p)[s] = entry[s] /\ s \in list
        BY <1>1, <3>1, <3>5 DEF MergeEntries
      <4>2. m.xmax = entry[s].xmax /\ entry[s].xmax # InvalidXid
        BY <3>1, <3>2, <3>5, <4>1
      <4>3. entry[s].xmax \in V
        BY <1>1, <2>2, <4>1, <4>2 DEF ChainInv
      <4> QED BY <3>1, <4>2, <4>3
    <3> QED BY <3>3, <3>4, <3>5
  <2> QED BY <1>2, <2>1, <2>2, <2>3
<1>5. ASSUME NEW p \in Inserters, AcquireForMerge(p) PROVE entry'[s].xmax \in V
  <2>1. /\ UNCHANGED <<list, entry>> /\ lastMerge' = xid[p] /\ pc[p] = "saved" /\ LastMergeVisible(p)
    BY <1>5 DEF AcquireForMerge, listVars
  <2>2. xid[p] # InvalidXid /\ HasSnapshot(p) /\ p \in Backends
    BY <1>1, <2>1 DEF MergeLockInv, SnapshotInv, BusyPC, Backends
  <2>3. lastMerge \in Xid /\ VisibleXid(lastMerge, p)
    BY <2>1 DEF LastMergeVisible, VisibleXid, TypeOK
  <2>4. lastMerge = InvalidXid \/ lastMerge \in V
    BY <1>1, <2>1, <2>2, <2>3, PeerView
  <2> QED BY <1>2, <2>1, <2>4
<1>6. ASSUME NEW p \in Inserters, InserterStep(p)
      PROVE  \/ (\E n \in 1..2 : CommitInsert(p, n)) \/ EndMerge(p) \/ AcquireForMerge(p)
             \/ UNCHANGED <<list, entry, lastMerge>>
  <2>1. DropMergeLock(p, xid[p]) => lastMerge' = lastMerge
    BY <1>1 DEF DropMergeLock, MergeLockInv, Proc
  <2> QED BY <1>6, <2>1 DEF InserterStep, BeginInsert, Open, SetNumSegments, NoMerge, EndStatement,
           EndTransaction, AbortInsert, listVars, lockVars
<1>7. ASSUME NEW p \in Readers, ReaderStep(p) PROVE UNCHANGED <<list, entry, lastMerge>>
  <2>1. DropMergeLock(p, xid[p]) => lastMerge' = lastMerge
    BY <1>1 DEF DropMergeLock, MergeLockInv, Proc
  <2> QED BY <1>7, <2>1 DEF ReaderStep, BeginScan, Open, EndStatement, EndTransaction, listVars, lockVars
<1>8. ASSUME (\E d \in Doc : HeapTupleDies(d)) \/ UNCHANGED vars PROVE UNCHANGED <<list, entry, lastMerge>>
  BY <1>8 DEF HeapTupleDies, vars, listVars, lockVars
<1>9. CASE UNCHANGED <<list, entry, lastMerge>>
  BY <1>2, <1>9
<1> QED BY <1>3, <1>4, <1>5, <1>6, <1>7, <1>8, <1>9, QuietSteps

LEMMA UniqueStep ==
  ASSUME Vacuums = {}, TypeOK, TypeOK', MergingInv, [Next]_vars
  PROVE  UniqueInv'
<1> SUFFICES ASSUME NEW V \in SUBSET Xid, ViewSet(V)', NEW s \in list', NEW t \in list',
                    Seen(V, entry'[s]), Seen(V, entry'[t]), s # t
             PROVE  entry'[s].docs \cap entry'[t].docs = {}
  BY DEF UniqueInv, Seen
<1>1. ViewSet(V) /\ HistoryInv /\ UniqueInv /\ SnapshotInv /\ s \in SegId /\ t \in SegId
  BY ViewsShrink DEF MergingInv, LossInv, MergeInv, KeepInv, TypeOK
<1>2. CASE UNCHANGED <<list, entry>>
  BY <1>1, <1>2 DEF UniqueInv
<1>3. ASSUME NEW p \in Inserters, NEW n \in 1..2, CommitInsert(p, n)
      PROVE  entry'[s].docs \cap entry'[t].docs = {}
  <2> DEFINE created == nextSeg..(nextSeg + n - 1)
  <2>1. /\ nextSeg \in Nat /\ nextDoc \in Nat
        /\ list' = list \cup created /\ \A u \in SegId \ created : entry'[u] = entry[u]
        /\ \A u \in created : entry'[u] = [xmin |-> xid[p], xmax |-> InvalidXid,
                                           docs |-> {nextDoc + (u - nextSeg)}, deleted |-> {}]
    BY <1>3, CommitSaves DEF Proc
  <2>2. ASSUME NEW u \in created PROVE entry'[u].docs = {nextDoc + (u - nextSeg)}
    <3>1. entry'[u] = [xmin |-> xid[p], xmax |-> InvalidXid, docs |-> {nextDoc + (u - nextSeg)}, deleted |-> {}]
      BY <2>1, <2>2
    <3> HIDE DEF created
    <3> QED BY <3>1
  <2>3. ASSUME NEW u \in list' \ created
        PROVE  u \in list /\ entry'[u] = entry[u] /\ \A d \in entry[u].docs : d \in Nat /\ d < nextDoc
    <3>1. u \in list /\ u \in SegId /\ entry'[u] = entry[u]
      BY <2>1 DEF TypeOK
    <3>2. entry[u].docs \subseteq Nat
      BY <3>1 DEF TypeOK, Entry, Doc
    <3> QED BY <3>1, <3>2 DEF MergingInv, MergeInv, EntriesInv
  <2>4. ASSUME NEW u \in created, NEW w \in list' \ created
        PROVE  entry'[u].docs \cap entry'[w].docs = {}
    <3>1. u \in Nat /\ nextSeg <= u
      BY <2>1
    <3>2. ~(nextDoc + (u - nextSeg) < nextDoc)
      BY <2>1, <3>1
    <3> HIDE DEF created
    <3> QED BY <2>2, <2>3, <3>2
  <2>5. CASE s \in created /\ t \in created
    <3>1. s \in Nat /\ t \in Nat
      BY <2>1, <2>5
    <3>2. nextDoc + (s - nextSeg) # nextDoc + (t - nextSeg)
      BY <2>1, <3>1
    <3> HIDE DEF created
    <3>3. entry'[s].docs = {nextDoc + (s - nextSeg)} /\ entry'[t].docs = {nextDoc + (t - nextSeg)}
      BY <2>2, <2>5
    <3> QED BY <3>2, <3>3
  <2>6. CASE s \notin created /\ t \notin created
    <3>1. s \in list' \ created /\ t \in list' \ created
      BY <2>6
    <3> HIDE DEF created
    <3> QED BY <1>1, <2>3, <3>1 DEF UniqueInv
  <2> HIDE DEF created
  <2> QED BY <2>4, <2>5, <2>6
<1>4. ASSUME NEW p \in Inserters, EndMerge(p)
      PROVE  entry'[s].docs \cap entry'[t].docs = {}
  <2>1. /\ \/ UNCHANGED <<list, entry>> /\ MergedDocs(p) = {}
           \/ SaveNewMetas(p, xid[p], MergeCreates(p), cand[p], MergeEntries(p))
        /\ MergeCreates(p) \in SUBSET SegId /\ cand[p] \in SUBSET SegId /\ xid[p] \in Xid
        /\ MergeEntries(p) \in [SegId -> Entry] /\ p \in Proc
    BY <1>4, MergeSaves DEF Proc
  <2>2. /\ xid[p] # InvalidXid /\ p \in Backends /\ HasSnapshot(p)
        /\ nextSeg \notin list \cup cand[p] /\ cand[p] \subseteq list
        /\ \A c \in cand[p] : /\ entry[c].xmax = InvalidXid /\ entry[c].xmin # InvalidXid
                              /\ VisibleXid(entry[c].xmin, p)
        /\ MergedDocs(p) = UNION {entry[c].docs : c \in cand[p]}
    BY <1>4, MergeState
  <2>3. SUFFICES ASSUME SaveNewMetas(p, xid[p], MergeCreates(p), cand[p], MergeEntries(p))
                 PROVE  entry'[s].docs \cap entry'[t].docs = {}
    BY <1>2, <2>1
  <2>4. ASSUME NEW u \in list', u \in SegId, Seen(V, entry'[u])
        PROVE  /\ u \in list \cup MergeCreates(p) /\ entry'[u].docs = MergeEntries(p)[u].docs
               /\ MergeEntries(p)[u].xmin \in V
               /\ u \in cand[p] => xid[p] \notin V
               /\ u \notin cand[p] => Seen(V, MergeEntries(p)[u])
    <3> DEFINE m == Marked(MergeEntries(p), cand[p], xid[p], u)
    <3>1. /\ u \in list \cup MergeCreates(p) /\ entry'[u].docs = MergeEntries(p)[u].docs
          /\ entry'[u].xmin \in V <=> m.xmin \in V
          /\ entry'[u].xmax = InvalidXid <=> m.xmax = InvalidXid
          /\ entry'[u].xmax \in V <=> m.xmax \in V
      BY <1>1, <2>1, <2>3, <2>4, SaveSeen
    <3>2. /\ m.xmin = MergeEntries(p)[u].xmin
          /\ m.xmax = IF u \in cand[p] THEN xid[p] ELSE MergeEntries(p)[u].xmax
      BY <2>1, <2>3, <2>4, SaveIds
    <3> HIDE DEF m
    <3> QED BY <2>2, <2>4, <3>1, <3>2 DEF Seen
  <2>5. ASSUME NEW u \in list', u \in SegId, Seen(V, entry'[u]), u \notin MergeCreates(p)
        PROVE  u \in list /\ entry'[u].docs = entry[u].docs /\ Seen(V, entry[u])
               /\ (u \in cand[p] => xid[p] \notin V)
    <3>1. MergeEntries(p)[u] = entry[u]
      BY <2>5 DEF MergeEntries
    <3> QED BY <2>2, <2>4, <2>5, <3>1 DEF Seen
  <2>6. ASSUME NEW u \in list', u \in SegId, Seen(V, entry'[u]), u \in MergeCreates(p),
               NEW w \in list', w \in SegId, Seen(V, entry'[w]), w \notin MergeCreates(p)
        PROVE  entry'[u].docs \cap entry'[w].docs = {}
    <3>1. MergeEntries(p)[u] = [xmin |-> xid[p], xmax |-> InvalidXid, docs |-> MergedDocs(p), deleted |-> {}]
      BY <2>6 DEF MergeEntries
    <3>2. /\ entry'[u].docs = MergedDocs(p) /\ xid[p] \in V
      BY <2>4, <2>6, <3>1
    <3>3. w \in list /\ entry'[w].docs = entry[w].docs /\ Seen(V, entry[w]) /\ w \notin cand[p]
      BY <2>5, <2>6, <3>2
    <3>4. ASSUME NEW c \in cand[p] PROVE entry[c].docs \cap entry[w].docs = {}
      <4>1. entry[c].xmin \in Xid
        BY <2>2 DEF TypeOK, Entry
      <4>2. entry[c].xmin \in V
        BY <1>1, <2>2, <3>2, <4>1, PeerView
      <4> QED BY <1>1, <2>2, <3>3, <4>2 DEF UniqueInv, Seen
    <3> QED BY <2>2, <3>2, <3>3, <3>4
  <2>7. CASE s \notin MergeCreates(p) /\ t \notin MergeCreates(p)
    BY <1>1, <2>5, <2>7 DEF UniqueInv
  <2>8. ~(s \in MergeCreates(p) /\ t \in MergeCreates(p))
    BY DEF MergeCreates
  <2> QED BY <1>1, <2>6, <2>7, <2>8
<1> QED BY <1>2, <1>3, <1>4, QuietListSteps

LEMMA MergingStep ==
  ASSUME Vacuums = {}, TypeOK, TypeOK', MergingInv, [Next]_vars
  PROVE  MergingInv'
<1>1. KeepInv /\ LossInv /\ LockInv /\ MergeLockInv
  BY DEF MergingInv, KeepInv, MergeInv
<1>2. KeepInv' /\ LossInv' /\ MergeLockInv'
  BY <1>1, QuietKeepStep, LossStep, MergeLockStep
<1>3. EntriesInv' /\ OwnSegmentsInv' /\ ChainInv' /\ UniqueInv'
  BY EntriesStep, OwnSegmentsStep, ChainStep, UniqueStep
<1> QED BY <1>2, <1>3 DEF MergingInv, MergeInv

LEMMA InitMergingInv == Init => MergingInv
<1> SUFFICES ASSUME Init PROVE MergingInv
  OBVIOUS
<1>0. /\ Len(Start) \in Nat /\ Len(Start) <= MaxSeg /\ MaxSeg \in Nat
      /\ \A s \in 1..Len(Start) : s \in SegId /\ s <= Len(Start)
  BY ConstantsAssumption DEF SegId
<1>1. MergeLockInv
  BY ConstantsAssumption DEF Init, MergeLockInv, Proc, BusyPC
<1>2. \A s \in list : entry[s] = [xmin |-> BuildXid, xmax |-> InvalidXid, docs |-> Start[s], deleted |-> {}]
  BY <1>0 DEF Init
<1>a. \A s \in list : entry[s].xmin = BuildXid /\ entry[s].xmax = InvalidXid /\ entry[s].docs = Start[s]
  <2> TAKE s \in list
  <2>1. PICK D : D = Start[s]
    OBVIOUS
  <2>2. entry[s] = [xmin |-> BuildXid, xmax |-> InvalidXid, docs |-> D, deleted |-> {}]
    BY <1>2, <2>1
  <2> QED BY <2>1, <2>2
<1>3. EntriesInv
  <2>1. \A s \in SegId : entry[s].deleted = {}
    BY DEF Init, NoEntry
  <2>2. \A s \in 1..Len(Start) : \A d \in Start[s] : d < nextDoc
    <3>1. Cardinality(StartDocs) \in Nat
      <4>1. StartDocs \subseteq Doc
        BY ConstantsAssumption DEF StartDocs
      <4>2. IsFiniteSet(Doc)
        BY FS_Interval, ConstantsAssumption DEF Doc
      <4> QED BY <4>1, <4>2, FS_Subset, FS_CardinalityType
    <3>2. \A d \in StartDocs : d < nextDoc
      BY <3>1, StartAssumption DEF Init
    <3> QED BY <3>2 DEF StartDocs
  <2>3. list = 1..Len(Start)
    BY DEF Init
  <2> QED BY <1>a, <2>1, <2>2, <2>3 DEF EntriesInv
<1>4. OwnSegmentsInv
  BY DEF Init, OwnSegmentsInv, OpenPC, Proc
<1>5. ChainInv
  BY <1>a DEF ChainInv
<1>6. UniqueInv
  <2>1. list = 1..Len(Start)
    BY DEF Init
  <2> QED BY <1>a, <2>1, StartAssumption DEF UniqueInv
<1> QED BY <1>1, <1>3, <1>4, <1>5, <1>6, InitKeepInv, InitLossInv DEF MergingInv, MergeInv

LEMMA MergingCorrect ==
  ASSUME Vacuums = {}
  PROVE  Spec => [](TypeOK /\ MergingInv)
<1>1. TypeOK /\ MergingInv /\ [Next]_vars => TypeOK' /\ MergingInv'
  BY NextTypeOK, MergingStep
<1>2. Init => TypeOK /\ MergingInv
  BY InitTypeOK, InitMergingInv
<1> QED BY <1>1, <1>2, PTL DEF Spec

\* As long as no VACUUM runs, the merge lock with its last_merge stamp
\* (merge_policy.rs, MergeLock::acquire_for_merge) keeps every merge from
\* working on a segment that another merge has replaced.
THEOREM MergesSeeMerges ==
  ASSUME Vacuums = {}
  PROVE  Spec => []MergesSeePreviousMerge
<1>1. TypeOK /\ MergingInv => MergesSeePreviousMerge
  <2> SUFFICES ASSUME MergingInv, NEW p \in Inserters, pc[p] = "merging", NEW s \in cand[p]
               PROVE  s \in list /\ entry[s].xmax = InvalidXid
    BY DEF MergesSeePreviousMerge
  <2>1. cand[p] \subseteq segs[p] /\ entry[s].xmax = InvalidXid
    BY DEF MergingInv, MergeInv, OwnSegmentsInv, OpenPC
  <2>2. segs[p] \subseteq list
    BY DEF MergingInv, KeepInv, OpenSegmentsInv, OpenPC, Backends
  <2> QED BY <2>1, <2>2
<1> QED BY <1>1, MergingCorrect, PTL

\* As long as no VACUUM runs, no snapshot, taken or to be taken, finds a row in
\* two segments: a merged segment appears to exactly those snapshots from which
\* the merge hides its sources (save_new_metas).
THEOREM RowsAreFoundOnce ==
  ASSUME Vacuums = {}
  PROVE  Spec => []NoDuplicates
<1>1. TypeOK /\ MergingInv => NoDuplicates
  <2> SUFFICES ASSUME TypeOK, MergingInv, NEW v \in Views, NEW d \in Doc \ dead
               PROVE  Cardinality(FoundIn(v, d)) <= 1
    BY DEF NoDuplicates
  <2>1. ViewSet(SeenIds(v)) /\ SeenIds(v) \in SUBSET Xid
    BY ViewsAreViewSets DEF SeenIds
  <2>2. ASSUME NEW s \in FoundIn(v, d)
        PROVE  s \in list /\ Seen(SeenIds(v), entry[s]) /\ d \in entry[s].docs
    <3>1. s \in list /\ Visible(entry[s], v[1], v[2]) /\ d \in Alive(entry[s])
      BY DEF FoundIn
    <3>2. entry[s].xmin \in Xid /\ entry[s].xmax \in Xid
      BY <3>1 DEF TypeOK, Entry
    <3> QED BY <3>1, <3>2 DEF Seen, SeenIds, Visible, Alive
  <2>3. \A s, t \in FoundIn(v, d) : s = t
    BY <2>1, <2>2 DEF MergingInv, MergeInv, UniqueInv
  <2>4. CASE FoundIn(v, d) = {}
    BY <2>4, FS_EmptySet
  <2>5. ASSUME NEW s \in FoundIn(v, d) PROVE Cardinality(FoundIn(v, d)) = 1
    <3>1. FoundIn(v, d) = {s}
      BY <2>3
    <3> QED BY <3>1, FS_Singleton
  <2> QED BY <2>4, <2>5
<1> QED BY <1>1, MergingCorrect, PTL

-----------------------------------------------------------------------------
(* VACUUM: what it deleted stays deleted                                    *)

LEMMA StepTypes ==
  ASSUME TypeOK, TypeOK'
  PROVE  /\ nextXid \in Nat /\ latestCompleted \in Nat /\ latestCompleted < nextXid
         /\ nextXid' \in Nat /\ latestCompleted' \in Nat /\ Xid \subseteq Nat
         /\ \A p \in Backends : /\ p \in Proc /\ xid[p] \in Nat /\ xid[p] < nextXid
                                /\ snap[p].xmax \in Nat /\ snap[p].xip \subseteq Nat
<1>1. nextXid' \in Nat /\ latestCompleted' \in Nat
  BY ConstantsAssumption DEF TypeOK
<1> QED BY <1>1, NumberTypes

\* What the horizon has passed stays behind it.
LEMMA HorizonStays ==
  ASSUME TypeOK, TypeOK', [Next]_vars, NEW x \in Nat, PrecedesHorizon(x)
  PROVE  PrecedesHorizon(x)'
<1>0. /\ nextXid \in Nat /\ latestCompleted \in Nat /\ latestCompleted < nextXid
      /\ latestCompleted' \in Nat
      /\ \A p \in Backends : /\ p \in Proc /\ xid[p] \in Nat
                             /\ snap[p].xmax \in Nat /\ snap[p].xip \subseteq Nat
  BY StepTypes
<1>1. /\ x <= latestCompleted
      /\ \A p \in Backends : /\ xid[p] # InvalidXid => x < xid[p]
                             /\ HasSnapshot(p) => x < snap[p].xmax /\ \A y \in snap[p].xip : x < y
  BY DEF PrecedesHorizon, Backends
<1> SUFFICES /\ x <= latestCompleted'
             /\ \A p \in Backends : /\ xid'[p] # InvalidXid => x < xid'[p]
                                    /\ HasSnapshot(p)' => x < snap'[p].xmax /\ \A y \in snap'[p].xip : x < y
  BY DEF PrecedesHorizon, Backends
<1>2. CASE Stays
  BY <1>0, <1>1, <1>2 DEF Stays, HasSnapshot
<1>3. ASSUME NEW p \in Backends, Begins(p)
      PROVE  /\ x <= latestCompleted'
             /\ \A q \in Backends : /\ xid'[q] # InvalidXid => x < xid'[q]
                                    /\ HasSnapshot(q)' => x < snap'[q].xmax /\ \A y \in snap'[q].xip : x < y
  <2>1. \A q \in Backends : xid'[q] # InvalidXid => x < xid'[q]
    BY <1>0, <1>1, <1>3 DEF Begins, TypeOK
  <2>2. GetSnapshotData.xmax = latestCompleted + 1 /\ \A y \in GetSnapshotData.xip : x < y
    BY <1>1 DEF GetSnapshotData, RunningXids, Backends
  <2>3. ASSUME NEW q \in Backends, HasSnapshot(q)'
        PROVE  x < snap'[q].xmax /\ \A y \in snap'[q].xip : x < y
    <3>1. (snap'[q] = snap[q] /\ HasSnapshot(q)) \/ snap'[q] = GetSnapshotData
      BY <1>0, <1>3, <2>3 DEF Begins, HasSnapshot, TypeOK
    <3> QED BY <1>0, <1>1, <2>2, <3>1
  <2> QED BY <1>1, <1>3, <2>1, <2>3 DEF Begins
<1>4. ASSUME NEW p \in Backends, Closes(p) \/ Ends(p)
      PROVE  /\ x <= latestCompleted'
             /\ \A q \in Backends : /\ xid'[q] # InvalidXid => x < xid'[q]
                                    /\ HasSnapshot(q)' => x < snap'[q].xmax /\ \A y \in snap'[q].xip : x < y
  <2>1. latestCompleted' >= latestCompleted
    BY <1>0, <1>4 DEF Closes, Ends, Complete
  <2>2. ASSUME NEW q \in Backends
        PROVE  (xid'[q] = xid[q] \/ xid'[q] = InvalidXid) /\ (snap'[q] = snap[q] \/ ~HasSnapshot(q)')
    BY <1>0, <1>4 DEF Closes, Ends, HasSnapshot, TypeOK
  <2> QED BY <1>0, <1>1, <2>1, <2>2 DEF HasSnapshot
<1> QED BY <1>2, <1>3, <1>4, XactSteps

\* The id of a VACUUM stays in nobody's list.
LEMMA NeverListedStays ==
  ASSUME TypeOK, TypeOK', [Next]_vars, NEW x \in Nat, NeverListed(x)
  PROVE  NeverListed(x)'
<1>0. /\ nextXid \in Nat /\ nextXid' \in Nat
      /\ \A p \in Backends : p \in Proc /\ xid[p] \in Nat
  BY StepTypes
<1>1. /\ x # InvalidXid /\ x < nextXid
      /\ \A p \in Backends : xid[p] # x /\ x \notin snap[p].xip
  BY DEF NeverListed, RunningXids, Backends
<1> SUFFICES x < nextXid' /\ \A p \in Backends : xid'[p] # x /\ x \notin snap'[p].xip
  BY <1>1 DEF NeverListed, RunningXids, Backends
<1>2. CASE Stays
  BY <1>0, <1>1, <1>2 DEF Stays
<1>3. ASSUME NEW p \in Backends, Begins(p)
      PROVE  x < nextXid' /\ \A q \in Backends : xid'[q] # x /\ x \notin snap'[q].xip
  <2>1. x \notin GetSnapshotData.xip
    BY DEF NeverListed, GetSnapshotData
  <2>2. \A q \in Backends : snap'[q] = snap[q] \/ snap'[q] = GetSnapshotData
    BY <1>0, <1>3 DEF Begins, TypeOK
  <2>3. x < nextXid' /\ \A q \in Backends : xid'[q] # x
    BY <1>0, <1>1, <1>3 DEF Begins, TypeOK
  <2> QED BY <1>1, <2>1, <2>2, <2>3
<1>4. ASSUME NEW p \in Backends, Closes(p) \/ Ends(p)
      PROVE  x < nextXid' /\ \A q \in Backends : xid'[q] # x /\ x \notin snap'[q].xip
  <2>1. NoSnapshot.xip = {}
    BY DEF NoSnapshot
  <2>2. ASSUME NEW q \in Backends
        PROVE  (xid'[q] = xid[q] \/ xid'[q] = InvalidXid) /\ (snap'[q] = snap[q] \/ snap'[q] = NoSnapshot)
    BY <1>0, <1>4 DEF Closes, Ends, TypeOK
  <2>3. nextXid' = nextXid
    BY <1>4 DEF Closes, Ends
  <2> QED BY <1>1, <2>1, <2>2, <2>3
<1> QED BY <1>2, <1>3, <1>4, XactSteps

LEMMA FrozenIsBehind ==
  ASSUME TypeOK, HistoryInv
  PROVE  PrecedesHorizon(FrozenXid)
<1>1. latestCompleted >= 2 /\ latestCompleted \in Nat
  BY NumberTypes DEF HistoryInv
<1>2. \A p \in Backends : /\ xid[p] \in Nat /\ (xid[p] # InvalidXid => xid[p] > 2)
                          /\ HasSnapshot(p) => /\ snap[p].xmax \in Nat /\ snap[p].xmax > 2
                                               /\ \A y \in snap[p].xip : y \in Nat /\ y > 2
  BY NumberTypes DEF HistoryInv
<1> QED BY <1>1, <1>2 DEF PrecedesHorizon, Backends

\* A segment whose entry stays, or gets a frozen xmax.
Same(s) ==
  /\ entry'[s].docs = entry[s].docs /\ entry'[s].deleted = entry[s].deleted
  /\ entry'[s].xmax = entry[s].xmax \/ entry'[s].xmax = FrozenXid

LEMMA XmaxStays ==
  ASSUME TypeOK, TypeOK', HistoryInv, [Next]_vars, NEW s \in SegId,
         entry'[s].xmax = entry[s].xmax \/ entry'[s].xmax = FrozenXid
  PROVE  /\ Obsolete(s) => Obsolete(s)'
         /\ Obsolete(s)' \/ entry'[s].xmax = entry[s].xmax
         /\ NeverListed(entry[s].xmax) => Obsolete(s)' \/ NeverListed(entry[s].xmax)'
<1>1. PICK x : x = entry[s].xmax
  OBVIOUS
<1>2. x \in Nat
  BY <1>1, NumberTypes DEF TypeOK, Entry
<1>4. CASE entry'[s].xmax = FrozenXid
  <2>1. PrecedesHorizon(FrozenXid)'
    BY HistoryStep, FrozenIsBehind, HorizonStays
  <2>2. Obsolete(s)'
    BY <1>4, <2>1 DEF Obsolete, PrecedesHorizon
  <2> QED BY <2>2
<1>5. CASE entry'[s].xmax = x
  <2>1. Obsolete(s) => Obsolete(s)'
    <3> SUFFICES ASSUME Obsolete(s) PROVE Obsolete(s)'
      OBVIOUS
    <3>1. x # InvalidXid /\ PrecedesHorizon(x)
      BY <1>1 DEF Obsolete
    <3>2. PrecedesHorizon(x)'
      BY <1>2, <3>1, HorizonStays
    <3> QED BY <1>5, <3>1, <3>2 DEF Obsolete, PrecedesHorizon
  <2>2. NeverListed(entry[s].xmax) => NeverListed(entry[s].xmax)'
    <3> SUFFICES ASSUME NeverListed(x) PROVE NeverListed(entry[s].xmax)'
      BY <1>1
    <3>1. NeverListed(x)'
      BY <1>2, NeverListedStays
    <3> QED BY <1>5, <3>1 DEF NeverListed
  <2> QED BY <1>1, <1>5, <2>1, <2>2
<1> QED BY <1>1, <1>4, <1>5

LEMMA SegmentStays ==
  ASSUME TypeOK, TypeOK', HistoryInv, [Next]_vars, NEW s \in SegId, Same(s)
  PROVE  /\ Alive(entry'[s]) = Alive(entry[s])
         /\ Obsolete(s) => Obsolete(s)'
         /\ Obsolete(s)' \/ entry'[s].xmax = entry[s].xmax
         /\ NeverListed(entry[s].xmax) => Obsolete(s)' \/ NeverListed(entry[s].xmax)'
<1>1. Alive(entry'[s]) = Alive(entry[s])
  BY DEF Alive, Same
<1>2. entry'[s].xmax = entry[s].xmax \/ entry'[s].xmax = FrozenXid
  BY DEF Same
<1> QED BY <1>1, <1>2, XmaxStays

\* Steps that add nothing of G keep G gone.
LEMMA GoneStays ==
  ASSUME TypeOK, TypeOK', HistoryInv, [Next]_vars, NEW G,
         \A s \in list' : s \in SegId /\ ((s \in list /\ Same(s)) \/ Alive(entry'[s]) \cap G = {})
  PROVE  /\ GoneFrom(G) => GoneFrom(G)'
         /\ \A s \in Retired(G)' : /\ s \in SegId /\ s \in Retired(G) /\ Same(s)
                                   /\ entry'[s].xmax = entry[s].xmax
<1>1. ASSUME GoneFrom(G), NEW s \in list'
      PROVE  \/ Alive(entry[s])' \cap G = {} \/ Obsolete(s)'
             \/ Alive(entry[s])' \subseteq G /\ NeverListed(entry[s].xmax)'
  <2>0. s \in SegId /\ ((s \in list /\ Same(s)) \/ Alive(entry'[s]) \cap G = {})
    OBVIOUS
  <2>1. CASE Alive(entry'[s]) \cap G = {}
    BY <2>1 DEF Alive
  <2>2. CASE s \in list /\ Same(s)
    <3>1. /\ Alive(entry'[s]) = Alive(entry[s])
          /\ Obsolete(s) => Obsolete(s)'
          /\ NeverListed(entry[s].xmax) => Obsolete(s)' \/ NeverListed(entry[s].xmax)'
      BY <2>0, <2>2, SegmentStays
    <3>2. \/ Alive(entry[s]) \cap G = {} \/ Obsolete(s)
          \/ Alive(entry[s]) \subseteq G /\ NeverListed(entry[s].xmax)
      BY <1>1, <2>2 DEF GoneFrom
    <3>3. Alive(entry[s])' = Alive(entry'[s])
      BY DEF Alive
    <3> QED BY <3>1, <3>2, <3>3
  <2> QED BY <2>0, <2>1, <2>2
<1>2. ASSUME NEW s \in Retired(G)'
      PROVE  s \in SegId /\ s \in Retired(G) /\ Same(s) /\ entry'[s].xmax = entry[s].xmax
  <2>1. s \in list' /\ Alive(entry'[s]) \cap G # {} /\ ~Obsolete(s)'
    BY DEF Retired, Alive
  <2>2. s \in SegId /\ s \in list /\ Same(s)
    BY <2>1
  <2>3. /\ Alive(entry'[s]) = Alive(entry[s])
        /\ Obsolete(s) => Obsolete(s)'
        /\ Obsolete(s)' \/ entry'[s].xmax = entry[s].xmax
    BY <2>2, SegmentStays
  <2> QED BY <2>1, <2>2, <2>3 DEF Retired
<1> QED BY <1>1, <1>2 DEF GoneFrom

LEMMA HeapSteps ==
  ASSUME [Next]_vars
  PROVE  \/ \E p \in Inserters : \E n \in 1..2 : CommitInsert(p, n)
         \/ \E d \in Doc : HeapTupleDies(d)
         \/ \E v \in Vacuums : VacuumScan(v) \/ ReleaseForDelete(v)
         \/ UNCHANGED <<inserter, nextDoc, dead, deadItems, vacuumed>>
<1>1. ASSUME NEW p \in Inserters, InserterStep(p)
      PROVE  (\E n \in 1..2 : CommitInsert(p, n)) \/ UNCHANGED heapVars
  BY <1>1 DEF InserterStep, BeginInsert, Open, SetNumSegments, AcquireForMerge, NoMerge, EndMerge,
       EndStatement, EndTransaction, AbortInsert
<1>2. ASSUME NEW p \in Readers, ReaderStep(p) PROVE UNCHANGED heapVars
  BY <1>2 DEF ReaderStep, BeginScan, Open, EndStatement, EndTransaction
<1>3. ASSUME NEW v \in Vacuums, VacuumStep(v)
      PROVE  \/ VacuumScan(v) \/ ReleaseForDelete(v)
             \/ UNCHANGED <<inserter, nextDoc, dead, deadItems, vacuumed>>
  BY <1>3 DEF VacuumStep, AcquireForDelete, BulkDelete, EndVacuum, heapVars
<1> QED BY <1>1, <1>2, <1>3 DEF Next, heapVars, vars

LEMMA DeadStep ==
  ASSUME \A u, v \in Vacuums : u = v, TypeOK, TypeOK', FreshInv, DeadInv, [Next]_vars
  PROVE  DeadInv'
<1>1. CASE \E p \in Inserters : \E n \in 1..2 : CommitInsert(p, n)
  <2>1. PICK p \in Inserters : \E n \in 1..2 : CommitInsert(p, n)
    BY <1>1
  <2>2. PICK n \in 1..2 : CommitInsert(p, n)
    BY <2>1
  <2>3. /\ nextDoc \in Nat /\ nextDoc' = nextDoc + n /\ n \in Nat
        /\ inserter' = [d \in Doc |-> IF d \in nextDoc..(nextDoc + n - 1) THEN xid[p] ELSE inserter[d]]
    BY <2>2, CommitSaves DEF Proc
  <2>4. UNCHANGED <<dead, deadItems, vacuumed>>
    BY <2>2 DEF CommitInsert
  <2>5. \A d \in Doc : d \in Nat
    BY ConstantsAssumption DEF Doc
  <2>6. PICK d \in Doc : d \in Immortal /\ inserter[d] # InvalidXid
    BY DEF DeadInv
  <2>7. inserter'[d] # InvalidXid
    BY <2>3, <2>5, <2>6 DEF DeadInv
  <2>8. \A c \in Doc : c >= nextDoc' => inserter'[c] = InvalidXid /\ c \notin dead
    BY <2>3, <2>5 DEF DeadInv
  <2> QED BY <2>4, <2>6, <2>7, <2>8 DEF DeadInv
<1>2. CASE \E d \in Doc : HeapTupleDies(d)
  <2>1. PICK d \in Doc : HeapTupleDies(d)
    BY <1>2
  <2>2. /\ d \notin Immortal /\ inserter[d] # InvalidXid /\ dead' = dead \cup {d}
        /\ UNCHANGED <<inserter, nextDoc, deadItems, vacuumed>>
    BY <2>1 DEF HeapTupleDies
  <2> QED BY <2>2 DEF DeadInv
<1>3. ASSUME NEW v \in Vacuums, VacuumScan(v) PROVE DeadInv'
  <2>1. /\ UNCHANGED <<inserter, nextDoc, dead, vacuumed>>
        /\ \A u \in Vacuums : deadItems'[u] = dead \ vacuumed
    BY <1>3 DEF VacuumScan, TypeOK
  <2> QED BY <2>1 DEF DeadInv
<1>4. ASSUME NEW v \in Vacuums, ReleaseForDelete(v) PROVE DeadInv'
  <2>1. /\ UNCHANGED <<inserter, nextDoc, dead>> /\ vacuumed' = vacuumed \cup deadItems[v]
        /\ \A u \in Vacuums : deadItems'[u] = {}
    BY <1>4 DEF ReleaseForDelete, TypeOK
  <2>2. deadItems[v] \subseteq dead
    BY DEF FreshInv
  <2> QED BY <2>1, <2>2 DEF DeadInv
<1>5. CASE UNCHANGED <<inserter, nextDoc, dead, deadItems, vacuumed>>
  BY <1>5 DEF DeadInv
<1> QED BY <1>1, <1>2, <1>3, <1>4, <1>5, HeapSteps

\* The merge lock: who holds it, and its stamp.
LockStamp ==
  /\ \A p \in Inserters : pc[p] \in BusyPC => xid[p] # InvalidXid
  /\ \A p \in Backends : holder = p => /\ p \in Inserters /\ pc[p] \in {"merging", "done"}
                                       /\ lastMerge = xid[p]
  /\ lastMerge < nextXid

LEMMA LockStampStep ==
  ASSUME TypeOK, TypeOK', LockInv, LockStamp, [Next]_vars
  PROVE  LockStamp'
<1> USE DEF LockStamp, BusyPC
<1>1. /\ nextXid \in Nat /\ nextXid # 0 /\ lastMerge \in Nat /\ NoProc \notin Proc
      /\ \A p \in Proc : xid[p] \in Nat /\ xid[p] < nextXid
      /\ \A p \in Proc : xid'[p] \in Nat /\ xid'[p] < nextXid'
      /\ xid \in [Proc -> Xid] /\ pc \in [Proc -> PC] /\ nextXid' \in Nat
      /\ \A p \in Backends : p \in Proc /\ p \notin Vacuums
      /\ \A p \in Inserters : p \in Backends /\ p \notin Readers
      /\ \A p \in Readers : p \in Backends
      /\ \A v \in Vacuums : v \in Proc
  <2>1. Xid \subseteq Nat /\ nextXid \in Nat /\ nextXid # 0 /\ nextXid' \in Nat
    BY ConstantsAssumption DEF TypeOK, Xid
  <2>2. /\ \A p \in Backends : p \in Proc /\ p \notin Vacuums
        /\ \A p \in Inserters : p \in Backends /\ p \notin Readers
        /\ \A p \in Readers : p \in Backends
        /\ \A v \in Vacuums : v \in Proc
    BY ConstantsAssumption DEF Proc, Backends
  <2>3. lastMerge \in Xid /\ xid \in [Proc -> Xid] /\ pc \in [Proc -> PC] /\ xid' \in [Proc -> Xid]
        /\ \A p \in Proc : xid[p] < nextXid /\ xid'[p] < nextXid'
    BY DEF TypeOK
  <2> QED BY <2>1, <2>2, <2>3, ConstantsAssumption
<1> HIDE DEF BusyPC
<1>2. ASSUME NEW p \in Inserters, InserterStep(p) PROVE LockStamp'
  <2>0. p \in Proc /\ p \in Backends /\ {"merging", "done", "started", "open", "saved"} = BusyPC
    BY <1>1 DEF BusyPC
  <2>1. CASE BeginInsert(p)
    <3>1. /\ pc[p] = "idle" /\ pc' = [pc EXCEPT ![p] = "started"] /\ UNCHANGED lockVars
          /\ \/ xid[p] = InvalidXid /\ xid' = [xid EXCEPT ![p] = nextXid] /\ nextXid' = nextXid + 1
             \/ xid[p] # InvalidXid /\ UNCHANGED <<xid, nextXid>>
      BY <2>1 DEF BeginInsert, Begin
    <3> QED BY <1>1, <2>0, <3>1 DEF lockVars
  <2>2. CASE Open(p) \/ (\E n \in 1..2 : CommitInsert(p, n)) \/ SetNumSegments(p) \/ NoMerge(p) \/ EndMerge(p)
    <3>1. /\ UNCHANGED <<xid, nextXid, holder, lastMerge>>
          /\ pc[p] \in BusyPC
          /\ \E c \in BusyPC : pc' = [pc EXCEPT ![p] = c] /\ (pc[p] = "merging" => c = "done")
          /\ pc[p] # "done"
      BY <2>2 DEF Open, CommitInsert, SetNumSegments, NoMerge, EndMerge, BusyPC, xactVars, lockVars
    <3> QED BY <1>1, <2>0, <3>1
  <2>3. CASE AcquireForMerge(p)
    <3>1. /\ pc[p] = "saved" /\ holder' = p /\ lastMerge' = xid[p] /\ UNCHANGED <<xid, nextXid>>
          /\ \E c \in {"merging", "done"} : pc' = [pc EXCEPT ![p] = c]
      BY <2>3 DEF AcquireForMerge, xactVars
    <3> QED BY <1>1, <2>0, <3>1
  <2>4. CASE EndStatement(p)
    <3>1. /\ UNCHANGED <<xid, nextXid>> /\ pc' = [pc EXCEPT ![p] = "idle"]
          /\ \/ holder = p /\ holder' = NoProc /\ lastMerge' = xid[p]
             \/ holder # p /\ UNCHANGED <<holder, lastMerge>>
      BY <2>4 DEF EndStatement, DropMergeLock, CloseIndex
    <3> QED BY <1>1, <2>0, <3>1 DEF BusyPC
  <2>5. CASE EndTransaction(p)
    <3>1. /\ pc[p] = "idle" /\ UNCHANGED <<nextXid, holder, lastMerge, pc>>
          /\ xid' = [xid EXCEPT ![p] = InvalidXid]
      BY <2>5 DEF EndTransaction, lockVars, procVars
    <3> QED BY <1>1, <2>0, <3>1 DEF BusyPC
  <2>6. CASE AbortInsert(p)
    <3>1. /\ UNCHANGED nextXid /\ pc' = [pc EXCEPT ![p] = "idle"] /\ xid' = [xid EXCEPT ![p] = InvalidXid]
          /\ \/ holder = p /\ holder' = NoProc /\ lastMerge' = xid[p]
             \/ holder # p /\ UNCHANGED <<holder, lastMerge>>
      BY <2>6 DEF AbortInsert, DropMergeLock, CloseIndex
    <3> QED BY <1>1, <2>0, <3>1 DEF BusyPC
  <2> QED BY <1>2, <2>1, <2>2, <2>3, <2>4, <2>5, <2>6 DEF InserterStep
<1>3. ASSUME NEW p \in Readers, ReaderStep(p) PROVE LockStamp'
  <2>0. p \in Backends /\ p \notin Inserters /\ p \in Proc /\ holder # p
    BY <1>1
  <2>1. /\ UNCHANGED <<holder, lastMerge, nextXid>>
        /\ \A q \in Proc : q # p => xid'[q] = xid[q] /\ pc'[q] = pc[q]
    BY <1>1, <1>3, <2>0 DEF ReaderStep, BeginScan, Begin, Open, EndStatement, EndTransaction, DropMergeLock, CloseIndex,
       xactVars, lockVars, procVars
  <2> QED BY <1>1, <2>0, <2>1
<1>4. ASSUME NEW v \in Vacuums, VacuumStep(v) PROVE LockStamp'
  <2>1. nextXid' >= nextXid /\ \A p \in Backends : xid'[p] = xid[p] /\ pc'[p] = pc[p]
    BY <1>4, VacuumFrame
  <2>2. \/ UNCHANGED <<holder, lastMerge>>
        \/ holder' = v /\ UNCHANGED lastMerge
        \/ holder' = NoProc /\ lastMerge' = xid'[v]
    BY <1>4 DEF VacuumStep, VacuumScan, AcquireForDelete, BulkDelete, ReleaseForDelete, EndVacuum, DropMergeLock, lockVars
  <2> QED BY <1>1, <2>1, <2>2
<1>5. CASE (\E d \in Doc : HeapTupleDies(d)) \/ UNCHANGED vars
  <2>1. UNCHANGED <<xid, nextXid, pc, holder, lastMerge>>
    BY <1>5 DEF HeapTupleDies, vars, xactVars, lockVars, procVars
  <2> QED BY <2>1
<1> QED BY <1>2, <1>3, <1>4, <1>5 DEF Next

\* The step of a backend leaves the other processes alone.
LEMMA BackendFrame ==
  ASSUME TypeOK, NEW a \in Backends, InserterStep(a) \/ ReaderStep(a)
  PROVE  /\ \A q \in Proc : q # a => /\ pc'[q] = pc[q] /\ snap'[q] = snap[q] /\ xid'[q] = xid[q]
                                     /\ segs'[q] = segs[q] /\ cand'[q] = cand[q]
                                     /\ withDeletes'[q] = withDeletes[q]
         /\ UNCHANGED <<dead, deadItems, vacuumed, passes>>
<1>0. a \in Proc
  BY DEF Backends, Proc
<1> USE <1>0 DEF TypeOK, xactVars, procVars, heapVars
<1>1. CASE BeginInsert(a)
  BY <1>1 DEF BeginInsert, Begin
<1>2. CASE BeginScan(a)
  BY <1>2 DEF BeginScan, Begin
<1>3. CASE Open(a)
  BY <1>3 DEF Open
<1>4. CASE \E n \in 1..2 : CommitInsert(a, n)
  BY <1>4 DEF CommitInsert
<1>5. CASE SetNumSegments(a) \/ NoMerge(a)
  BY <1>5 DEF SetNumSegments, NoMerge
<1>6. CASE AcquireForMerge(a)
  BY <1>6 DEF AcquireForMerge
<1>7. CASE EndMerge(a)
  BY <1>7 DEF EndMerge
<1>8. CASE EndStatement(a)
  BY <1>8 DEF EndStatement, CloseIndex
<1>9. CASE EndTransaction(a)
  BY <1>9 DEF EndTransaction
<1>10. CASE AbortInsert(a)
  BY <1>10 DEF AbortInsert, CloseIndex
<1> QED BY <1>1, <1>2, <1>3, <1>4, <1>5, <1>6, <1>7, <1>8, <1>9, <1>10 DEF InserterStep, ReaderStep

\* A VACUUM's state changes by its own steps only.
LEMMA VacuumAlone ==
  ASSUME \A u, v \in Vacuums : u = v, TypeOK, [Next]_vars, NEW v \in Vacuums
  PROVE  \/ VacuumStep(v)
         \/ /\ pc'[v] = pc[v] /\ snap'[v] = snap[v] /\ xid'[v] = xid[v] /\ segs'[v] = segs[v]
            /\ deadItems' = deadItems /\ vacuumed' = vacuumed /\ passes'[v] = passes[v]
<1>1. v \in Proc /\ v \notin Backends
  BY ConstantsAssumption DEF Proc, Backends
<1>2. ASSUME NEW a \in Backends, InserterStep(a) \/ ReaderStep(a)
      PROVE  /\ pc'[v] = pc[v] /\ snap'[v] = snap[v] /\ xid'[v] = xid[v] /\ segs'[v] = segs[v]
             /\ deadItems' = deadItems /\ vacuumed' = vacuumed /\ passes'[v] = passes[v]
  BY <1>1, <1>2, BackendFrame
<1>3. CASE (\E d \in Doc : HeapTupleDies(d)) \/ UNCHANGED vars
  BY <1>3 DEF HeapTupleDies, vars, xactVars, procVars, heapVars
<1> QED BY <1>2, <1>3 DEF Next, Backends

LEMMA ListedStep ==
  ASSUME TypeOK, TypeOK', [Next]_vars, \A p \in Backends : \A y \in snap[p].xip : y < nextXid
  PROVE  \A p \in Backends : \A y \in snap'[p].xip : y < nextXid'
<1>0. /\ nextXid \in Nat /\ nextXid' \in Nat
      /\ \A p \in Backends : p \in Proc /\ xid[p] \in Nat /\ xid[p] < nextXid /\ snap[p].xip \subseteq Nat
  BY StepTypes
<1>1. CASE Stays
  BY <1>0, <1>1 DEF Stays
<1>2. ASSUME NEW p \in Backends, Begins(p) PROVE \A q \in Backends : \A y \in snap'[q].xip : y < nextXid'
  <2>1. \A y \in GetSnapshotData.xip : y \in Nat /\ y < nextXid
    BY <1>0 DEF GetSnapshotData, RunningXids, Backends
  <2>2. \A q \in Backends : snap'[q] = snap[q] \/ snap'[q] = GetSnapshotData
    BY <1>0, <1>2 DEF Begins, TypeOK
  <2>3. nextXid' >= nextXid
    BY <1>0, <1>2 DEF Begins
  <2> QED BY <1>0, <2>1, <2>2, <2>3
<1>3. ASSUME NEW p \in Backends, Closes(p) \/ Ends(p) PROVE \A q \in Backends : \A y \in snap'[q].xip : y < nextXid'
  <2>1. NoSnapshot.xip = {} /\ nextXid' = nextXid
    BY <1>3 DEF NoSnapshot, Closes, Ends
  <2>2. \A q \in Backends : snap'[q] = snap[q] \/ snap'[q] = NoSnapshot
    BY <1>0, <1>3 DEF Closes, Ends, TypeOK
  <2> QED BY <2>1, <2>2
<1> QED BY <1>1, <1>2, <1>3, XactSteps

LEMMA StampStep ==
  ASSUME \A u, v \in Vacuums : u = v, MaxPasses <= 1,
         TypeOK, TypeOK', LockInv, VacuumXidInv, HistoryInv, StampInv, [Next]_vars
  PROVE  StampInv'
<1>1. LockStamp'
  <2>1. LockStamp
    BY DEF StampInv, LockStamp
  <2> QED BY <2>1, LockStampStep
<1>2. \A p \in Backends : \A y \in snap'[p].xip : y < nextXid'
  BY ListedStep DEF StampInv
<1>3. ASSUME NEW v \in Vacuums
      PROVE  /\ xid'[v] # InvalidXid => NeverListed(xid[v])'
             /\ pc'[v] = "idle" => ~HasSnapshot(v)'
             /\ pc'[v] = "scanned" => snap'[v].xmax > BuildXid /\ \A y \in snap'[v].xip : y > BuildXid
  <2>1. v \in Proc /\ xid[v] \in Nat
    BY ConstantsAssumption DEF Proc, TypeOK, Xid
  <2>2. ASSUME xid'[v] = xid[v], xid[v] # InvalidXid PROVE NeverListed(xid[v])'
    <3>1. PICK x : x = xid[v]
      OBVIOUS
    <3>2. NeverListed(x)'
      BY <2>1, <2>2, <3>1, NeverListedStays DEF StampInv
    <3> QED BY <2>2, <3>1, <3>2 DEF NeverListed
  <2>3. ASSUME AssignVacuumXid(v), VacuumStep(v) PROVE NeverListed(xid[v])'
    <3>1. CASE xid[v] = InvalidXid
      <4>1. xid'[v] = nextXid /\ nextXid' = nextXid + 1
        BY <2>1, <2>3, <3>1 DEF AssignVacuumXid, TypeOK
      <4>2. \A p \in Backends : snap'[p] = snap[p] /\ xid'[p] = xid[p]
        BY <2>3, VacuumFrame
      <4>3. /\ nextXid \in Nat /\ nextXid # 0
            /\ \A p \in Backends : xid[p] \in Nat /\ xid[p] < nextXid /\ nextXid \notin snap[p].xip
        BY NumberTypes DEF TypeOK, StampInv
      <4> QED BY <4>1, <4>2, <4>3 DEF NeverListed, RunningXids, Backends
    <3>2. CASE xid[v] # InvalidXid
      BY <2>2, <2>3, <3>2 DEF AssignVacuumXid
    <3> QED BY <3>1, <3>2
  <2>4. CASE VacuumScan(v)
    <3>1. /\ pc[v] \in {"idle", "deleted"} /\ passes[v] < MaxPasses
          /\ snap'[v] = IF HasSnapshot(v) THEN snap[v] ELSE GetSnapshotData
          /\ xid'[v] = xid[v] /\ pc'[v] = "scanned"
      BY <2>1, <2>4 DEF VacuumScan, TypeOK
    <3>2. pc[v] = "idle" /\ ~HasSnapshot(v)
      BY <3>1, ConstantsAssumption DEF VacuumXidInv, StampInv, TypeOK
    <3>3. GetSnapshotData.xmax > 2 /\ \A y \in GetSnapshotData.xip : y > 2
      BY NumberTypes DEF GetSnapshotData, RunningXids, HistoryInv, Backends
    <3> QED BY <2>2, <3>1, <3>2, <3>3
  <2>5. CASE AcquireForDelete(v)
    <3>1. pc'[v] = "bulkdelete" /\ xid'[v] = xid[v]
      BY <2>1, <2>5 DEF AcquireForDelete, TypeOK, xactVars
    <3> QED BY <2>2, <3>1
  <2>6. CASE BulkDelete(v)
    <3>1. pc'[v] = "committed" /\ (xid' = xid \/ AssignVacuumXid(v))
      BY <2>1, <2>6 DEF BulkDelete, TypeOK
    <3> QED BY <2>2, <2>3, <2>6, <3>1 DEF VacuumStep
  <2>7. CASE ReleaseForDelete(v)
    <3>1. pc'[v] = "deleted" /\ AssignVacuumXid(v)
      BY <2>1, <2>7 DEF ReleaseForDelete, TypeOK
    <3> QED BY <2>3, <2>7, <3>1 DEF VacuumStep
  <2>8. CASE EndVacuum(v)
    <3>1. pc'[v] = "idle" /\ xid'[v] = InvalidXid /\ snap'[v] = NoSnapshot
      BY <2>1, <2>8 DEF EndVacuum, TypeOK
    <3> QED BY <3>1 DEF HasSnapshot
  <2>9. CASE pc'[v] = pc[v] /\ snap'[v] = snap[v] /\ xid'[v] = xid[v]
    BY <2>2, <2>9 DEF StampInv, HasSnapshot
  <2> QED BY <2>4, <2>5, <2>6, <2>7, <2>8, <2>9, VacuumAlone DEF VacuumStep
<1> QED BY <1>1, <1>2, <1>3 DEF StampInv, LockStamp

VacuumInv == KeepInv /\ LossInv /\ GoneInv

\* What save_new_metas leaves of an entry that would be e: it may be marked
\* with me, and frozen.
LEMMA SavedEntry ==
  ASSUME NEW e \in Entry, NEW me, NEW x, x = e \/ x = [e EXCEPT !.xmax = me],
         NEW y, y = x \/ y = Frozen(x)
  PROVE  /\ y.docs = e.docs /\ y.deleted = e.deleted
         /\ x = e => y.xmax = e.xmax \/ y.xmax = FrozenXid
         /\ y.xmax = e.xmax \/ y.xmax = me \/ y.xmax = FrozenXid
<1>1. x.docs = e.docs /\ x.deleted = e.deleted /\ (x.xmax = e.xmax \/ x.xmax = me)
  BY DEF Entry
<1>2. /\ Frozen(x).docs = x.docs /\ Frozen(x).deleted = x.deleted
      /\ Frozen(x).xmax = x.xmax \/ Frozen(x).xmax = FrozenXid
  BY DEF Frozen, FrozenId
<1> QED BY <1>1, <1>2

\* What save_new_metas leaves of the entries, when no VACUUM saves.
LEMMA CommitKeeps ==
  ASSUME TypeOK, FreshInv, DeadInv, NEW p \in Inserters, NEW n \in 1..2, CommitInsert(p, n)
  PROVE  /\ \A s \in list' : s \in SegId /\ ((s \in list /\ Same(s)) \/ entry'[s].docs \cap dead = {})
         /\ \A s \in SegId : s < nextSeg =>
              entry'[s].docs = entry[s].docs /\ entry'[s].deleted = entry[s].deleted
         /\ \A s \in segs'[p] : s \in segs[p] \/ entry'[s].docs \cap dead = {}
<1> DEFINE C == nextSeg..(nextSeg + n - 1)
<1>1. /\ nextSeg \in Nat /\ nextDoc \in Nat /\ C \subseteq SegId /\ list' = list \cup C
      /\ \A s \in SegId \ C : entry'[s] = entry[s]
      /\ \A s \in C : entry'[s] = [xmin |-> xid[p], xmax |-> InvalidXid,
                                   docs |-> {nextDoc + (s - nextSeg)}, deleted |-> {}]
  <2>1. p \in Proc
    BY DEF Proc
  <2> QED BY <2>1, CommitSaves
<1>2. /\ nextSeg \in Nat /\ nextDoc \in Nat /\ C \subseteq SegId /\ list' = list \cup C
      /\ \A s \in SegId \ C : entry'[s] = entry[s]
      /\ \A s \in C : entry'[s].docs = {nextDoc + (s - nextSeg)}
  <2> HIDE DEF C
  <2> SUFFICES ASSUME NEW s \in C PROVE entry'[s].docs = {nextDoc + (s - nextSeg)}
    BY <1>1
  <2>1. entry'[s] = [xmin |-> xid[p], xmax |-> InvalidXid,
                     docs |-> {nextDoc + (s - nextSeg)}, deleted |-> {}]
    BY <1>1
  <2> QED BY <2>1
<1>3. list \subseteq SegId /\ \A s \in list : s < nextSeg
  BY DEF TypeOK, FreshInv
<1>4. \A s \in SegId : s \in Nat /\ (s < nextSeg => s \notin C)
  BY <1>2, ConstantsAssumption DEF SegId
<1>5. \A s \in C : entry'[s].docs \cap dead = {}
  <2> SUFFICES ASSUME NEW s \in C PROVE nextDoc + (s - nextSeg) \notin dead
    BY <1>2
  <2>1. nextDoc + (s - nextSeg) >= nextDoc
    BY <1>2
  <2>2. dead \subseteq Doc
    BY DEF TypeOK
  <2> QED BY <2>1, <2>2 DEF DeadInv
<1>6. \A s \in list : Same(s)
  BY <1>2, <1>3, <1>4 DEF Same
<1>7. segs'[p] = segs[p] \cup C
  BY DEF CommitInsert, TypeOK, Proc
<1> QED BY <1>2, <1>3, <1>4, <1>5, <1>6, <1>7

LEMMA MergeKeeps ==
  ASSUME TypeOK, KeepInv, LossInv, ReadInv, NEW p \in Inserters, EndMerge(p)
  PROVE  /\ \A s \in list' : s \in SegId /\ ((s \in list /\ Same(s)) \/ Alive(entry'[s]) \cap vacuumed = {})
         /\ \A s \in SegId : s < nextSeg =>
              entry'[s].docs = entry[s].docs /\ entry'[s].deleted = entry[s].deleted
         /\ pc[p] = "merging" /\ holder = p
<1>1. p \in Proc /\ p \in Backends /\ pc[p] = "merging" /\ holder = p /\ HistoryInv
  BY DEF EndMerge, Proc, Backends, KeepInv, LockInv, LossInv
<1>2. cand[p] \subseteq segs[p] /\ ReadsNone(p, cand[p], vacuumed)
  BY <1>1 DEF ReadInv
<1>3. \A s \in cand[p] : s < nextSeg
  BY <1>1 DEF LossInv, FreshInv
<1>4. list \subseteq SegId
  BY DEF TypeOK
<1>5. CASE UNCHANGED <<list, entry>>
  BY <1>1, <1>4, <1>5 DEF Same
<1>6. CASE SaveNewMetas(p, xid[p], MergeCreates(p), cand[p], MergeEntries(p))
  <2>1. /\ nextSeg \in SegId /\ MergeCreates(p) \in SUBSET SegId /\ cand[p] \in SUBSET SegId
        /\ xid[p] \in Xid /\ MergeEntries(p) \in [SegId -> Entry]
    BY <1>1, MergeSaves
  <2>2. PICK saved : saved = MergeEntries(p)
    OBVIOUS
  <2>3. PICK fresh : fresh = MergeCreates(p)
    OBVIOUS
  <2>4. \A s \in SegId : /\ s \notin fresh => saved[s] = entry[s]
                         /\ s \in fresh => s = nextSeg /\ saved[s].docs = MergedDocs(p)
    BY <2>2, <2>3 DEF MergeEntries, MergeCreates
  <2>5. ASSUME NEW s \in SegId
        PROVE  /\ entry'[s].docs = saved[s].docs /\ entry'[s].deleted = saved[s].deleted
               /\ s \in list' => s \in list \cup fresh
               /\ s \notin cand[p] => entry'[s].xmax = saved[s].xmax \/ entry'[s].xmax = FrozenXid
    <3>1. PICK x : /\ x = IF s \in cand[p] THEN [saved[s] EXCEPT !.xmax = xid[p]] ELSE saved[s]
                   /\ entry'[s] = x \/ entry'[s] = Frozen(x)
      BY <1>6, <2>2, <2>5 DEF SaveNewMetas
    <3>2. saved[s] \in Entry
      BY <2>1, <2>2, <2>5
    <3>3. s \in list' => s \in list \cup fresh
      BY <1>6, <2>3 DEF SaveNewMetas, Survivors
    <3> QED BY <3>1, <3>2, <3>3, SavedEntry
  <2>6. list' \subseteq SegId
    BY <1>4, <1>6, <2>1 DEF SaveNewMetas, Survivors
  <2>7. \A s \in SegId : s \in Nat /\ nextSeg \in Nat /\ (s < nextSeg => s \notin fresh)
    BY <2>1, <2>4, ConstantsAssumption DEF SegId
  <2>8. MergedDocs(p) \cap vacuumed = {}
    BY <1>2 DEF ReadsNone, MergedDocs
  <2>9. ASSUME NEW s \in list' PROVE (s \in list /\ Same(s)) \/ Alive(entry'[s]) \cap vacuumed = {}
    <3>1. s \in SegId
      BY <2>6
    <3>2. CASE s \in fresh
      BY <2>4, <2>5, <2>8, <3>1, <3>2 DEF Alive
    <3>3. CASE s \notin fresh /\ s \in cand[p]
      <4>1. Alive(entry'[s]) = Alive(entry[s])
        BY <2>4, <2>5, <3>1, <3>3 DEF Alive
      <4>2. Alive(entry[s]) \subseteq MergeReads(p, s) /\ MergeReads(p, s) \cap vacuumed = {}
        BY <1>2, <3>3 DEF MergeReads, Alive, ReadsNone
      <4> QED BY <4>1, <4>2
    <3>4. CASE s \notin fresh /\ s \notin cand[p]
      BY <2>4, <2>5, <3>1, <3>4 DEF Same
    <3> QED BY <3>2, <3>3, <3>4
  <2> QED BY <1>1, <2>4, <2>5, <2>6, <2>7, <2>9
<1> QED BY <1>1, <1>5, <1>6, MergeSaves

LEMMA ListKeeps ==
  ASSUME TypeOK, VacuumInv, [Next]_vars, \A v \in Vacuums : ~BulkDelete(v)
  PROVE  /\ \A s \in list' : s \in SegId /\ ((s \in list /\ Same(s)) \/ Alive(entry'[s]) \cap vacuumed = {})
         /\ holder \in Vacuums =>
              \A s \in list' : (s \in list /\ Same(s)) \/ entry'[s].docs \cap dead = {}
         /\ \A s \in SegId : s < nextSeg =>
              entry'[s].docs = entry[s].docs /\ entry'[s].deleted = entry[s].deleted
<1>0. KeepInv /\ LossInv /\ ReadInv /\ FreshInv /\ DeadInv /\ vacuumed \subseteq dead
  BY DEF VacuumInv, LossInv, GoneInv, DeadInv
<1>1. ASSUME NEW p \in Inserters, NEW n \in 1..2, CommitInsert(p, n)
      PROVE  /\ \A s \in list' : s \in SegId /\ ((s \in list /\ Same(s)) \/ entry'[s].docs \cap dead = {})
             /\ \A s \in SegId : s < nextSeg =>
                  entry'[s].docs = entry[s].docs /\ entry'[s].deleted = entry[s].deleted
  BY <1>0, <1>1, CommitKeeps
<1>2. ASSUME NEW p \in Inserters, EndMerge(p)
      PROVE  /\ \A s \in list' : s \in SegId /\ ((s \in list /\ Same(s)) \/ Alive(entry'[s]) \cap vacuumed = {})
             /\ \A s \in SegId : s < nextSeg =>
                  entry'[s].docs = entry[s].docs /\ entry'[s].deleted = entry[s].deleted
             /\ holder \notin Vacuums
  <2>1. p \notin Vacuums
    BY ConstantsAssumption
  <2> QED BY <1>0, <1>2, <2>1, MergeKeeps
<1>3. CASE UNCHANGED <<list, entry, nextSeg, inserter, nextDoc>>
  BY <1>3 DEF Same, TypeOK
<1>4. \A s : Alive(entry'[s]) \subseteq entry'[s].docs
  BY DEF Alive
<1> QED BY <1>0, <1>1, <1>2, <1>3, <1>4, OtherSteps

\* What the save of a VACUUM leaves of the entries.
LEMMA BulkDeleteKeeps ==
  ASSUME TypeOK, TypeOK', VacuumInv, NEW v \in Vacuums, BulkDelete(v)
  PROVE  \E emptied \in SUBSET segs[v] :
           /\ \A s \in emptied : Alive(entry[s]) \subseteq deadItems[v]
           /\ emptied # {} => xid'[v] # InvalidXid
           /\ \A s \in SegId :
                /\ s \in list' => s \in list
                /\ entry'[s].docs = entry[s].docs
                /\ Alive(entry'[s]) = IF s \in segs[v] \ emptied THEN Alive(entry[s]) \ deadItems[v]
                                                                ELSE Alive(entry[s])
                /\ s \notin emptied => entry'[s].xmax = entry[s].xmax \/ entry'[s].xmax = FrozenXid
                /\ s \in emptied => entry'[s].xmax = xid'[v] \/ entry'[s].xmax = FrozenXid
<1> DEFINE purged == [s \in SegId |->
                        [entry[s] EXCEPT !.deleted = @ \cup (entry[s].docs \cap deadItems[v])]]
           emptied == {s \in segs[v] : Alive(purged[s]) = {}}
           newMeta == segs[v] \ emptied
           ee == [s \in SegId |-> IF s \in newMeta THEN purged[s] ELSE entry[s]]
<1>0. v \in Proc /\ segs[v] \subseteq SegId /\ pc[v] = "bulkdelete"
  BY DEF TypeOK, Proc, BulkDelete
<1>1. \/ newMeta = {}
      \/ /\ IF emptied = {} THEN UNCHANGED <<xid, nextXid>> ELSE AssignVacuumXid(v)
         /\ SaveNewMetas(v, xid'[v], {}, emptied, ee)
  BY DEF BulkDelete
<1>2. ASSUME NEW s \in SegId
      PROVE  /\ purged[s] \in Entry /\ entry[s] \in Entry /\ purged[s].xmax = entry[s].xmax
             /\ purged[s].docs = entry[s].docs
             /\ Alive(purged[s]) = Alive(entry[s]) \ deadItems[v]
  <2>1. entry[s] \in Entry /\ entry[s].docs \cap deadItems[v] \subseteq Doc
    BY DEF TypeOK, Entry
  <2>2. purged[s] = [entry[s] EXCEPT !.deleted = @ \cup (entry[s].docs \cap deadItems[v])]
    OBVIOUS
  <2> HIDE DEF purged
  <2>3. /\ purged[s] \in Entry
        /\ purged[s].xmax = entry[s].xmax /\ purged[s].docs = entry[s].docs
        /\ purged[s].deleted = entry[s].deleted \cup (entry[s].docs \cap deadItems[v])
    BY <2>1, <2>2 DEF Entry
  <2> QED BY <2>1, <2>3 DEF Alive
<1> HIDE DEF purged
<1>3. newMeta # {}
  <2>1. PICK s \in segs[v] : Alive(entry[s]) \cap Immortal # {}
    BY <1>0 DEF VacuumInv, GoneInv, PurgeInv
  <2>2. deadItems[v] \cap Immortal = {}
    BY DEF VacuumInv, LossInv, FreshInv, GoneInv, DeadInv
  <2>3. Alive(purged[s]) = Alive(entry[s]) \ deadItems[v]
    BY <1>0, <1>2, <2>1
  <2> QED BY <2>1, <2>2, <2>3
<1>4. \A s \in emptied : Alive(entry[s]) \subseteq deadItems[v]
  BY <1>0, <1>2
<1>5. emptied # {} => xid'[v] # InvalidXid
  <2>1. emptied # {} => AssignVacuumXid(v)
    BY <1>1, <1>3
  <2>2. nextXid # 0 /\ xid \in [Proc -> Xid]
    BY ConstantsAssumption DEF TypeOK
  <2> QED BY <1>0, <2>1, <2>2 DEF AssignVacuumXid
<1>6. SaveNewMetas(v, xid'[v], {}, emptied, ee)
  BY <1>1, <1>3
<1>7. emptied \in SUBSET segs[v]
  OBVIOUS
<1> HIDE DEF emptied
<1>8. ASSUME NEW s \in SegId
      PROVE  /\ s \in list' => s \in list
             /\ entry'[s].docs = entry[s].docs
             /\ Alive(entry'[s]) = IF s \in segs[v] \ emptied THEN Alive(entry[s]) \ deadItems[v]
                                                             ELSE Alive(entry[s])
             /\ s \notin emptied => entry'[s].xmax = entry[s].xmax \/ entry'[s].xmax = FrozenXid
             /\ s \in emptied => entry'[s].xmax = xid'[v] \/ entry'[s].xmax = FrozenXid
  <2>1. PICK z : z = ee[s]
    OBVIOUS
  <2>2. PICK x : /\ x = IF s \in emptied THEN [z EXCEPT !.xmax = xid'[v]] ELSE z
                 /\ entry'[s] = x \/ entry'[s] = Frozen(x)
    <3> HIDE DEF ee
    <3> QED BY <1>6, <1>8, <2>1 DEF SaveNewMetas
  <2>3. /\ z \in Entry /\ z.docs = entry[s].docs /\ z.xmax = entry[s].xmax
        /\ Alive(z) = IF s \in segs[v] \ emptied THEN Alive(entry[s]) \ deadItems[v] ELSE Alive(entry[s])
    BY <1>2, <1>8, <2>1
  <2>4. s \in list' => s \in list
    <3> HIDE DEF ee
    <3> QED BY <1>6 DEF SaveNewMetas, Survivors
  <2>5. /\ entry'[s].docs = z.docs /\ entry'[s].deleted = z.deleted
        /\ x = z => entry'[s].xmax = z.xmax \/ entry'[s].xmax = FrozenXid
    BY <2>2, <2>3, SavedEntry
  <2>6. s \in emptied => entry'[s].xmax = xid'[v] \/ entry'[s].xmax = FrozenXid
    <3>1. s \in emptied => x.xmax = xid'[v]
      BY <2>2, <2>3 DEF Entry
    <3>2. Frozen(x).xmax = x.xmax \/ Frozen(x).xmax = FrozenXid
      BY DEF Frozen, FrozenId
    <3> QED BY <2>2, <3>1, <3>2
  <2>7. Alive(entry'[s]) = Alive(z)
    BY <2>5 DEF Alive
  <2> QED BY <2>2, <2>3, <2>4, <2>5, <2>6, <2>7
<1> QED BY <1>4, <1>5, <1>7, <1>8

\* The id a VACUUM gets while it saves is a fresh one.
LEMMA BulkDeleteXid ==
  ASSUME TypeOK, NEW v \in Vacuums, BulkDelete(v), xid[v] = InvalidXid, xid'[v] # InvalidXid
  PROVE  xid'[v] = nextXid
<1>1. AssignVacuumXid(v) \/ xid' = xid
  BY DEF BulkDelete
<1>2. v \in Proc /\ xid \in [Proc -> Xid]
  BY DEF Proc, TypeOK
<1> QED BY <1>1, <1>2 DEF AssignVacuumXid

\* Once its deletions are saved, what the VACUUM was to delete is gone.
LEMMA BulkDeleteGone ==
  ASSUME TypeOK, TypeOK', VacuumInv, StampInv', NEW v \in Vacuums, BulkDelete(v), [Next]_vars
  PROVE  /\ GoneFrom(Purged(v))' /\ GoneFrom(vacuumed)'
         /\ xid'[v] # InvalidXid => \A s \in Retired(Purged(v))' : entry'[s].xmax <= xid'[v]
         /\ \A s \in Retired(vacuumed)' : /\ s \in SegId /\ s \in Retired(vacuumed)
                                          /\ entry'[s].xmax = entry[s].xmax
<1>0. /\ v \in Proc /\ pc[v] = "bulkdelete" /\ deadItems' = deadItems /\ vacuumed' = vacuumed
      /\ xid[v] = InvalidXid /\ deadItems[v] \cap vacuumed = {} /\ HistoryInv /\ list \subseteq SegId
      /\ segs[v] \subseteq SegId
  <2>1. v \in Proc /\ pc[v] = "bulkdelete" /\ deadItems' = deadItems /\ vacuumed' = vacuumed
    BY DEF BulkDelete, heapVars, Proc
  <2>2. xid[v] = InvalidXid
    BY <2>1 DEF VacuumInv, KeepInv, VacuumXidInv
  <2>3. deadItems[v] \cap vacuumed = {} /\ HistoryInv
    BY DEF VacuumInv, GoneInv, DeadInv, LossInv
  <2> QED BY <2>1, <2>2, <2>3 DEF TypeOK
<1>1. PICK emptied \in SUBSET segs[v] :
        /\ \A s \in emptied : Alive(entry[s]) \subseteq deadItems[v]
        /\ emptied # {} => xid'[v] # InvalidXid
        /\ \A s \in SegId :
             /\ s \in list' => s \in list
             /\ entry'[s].docs = entry[s].docs
             /\ Alive(entry'[s]) = IF s \in segs[v] \ emptied THEN Alive(entry[s]) \ deadItems[v]
                                                             ELSE Alive(entry[s])
             /\ s \notin emptied => entry'[s].xmax = entry[s].xmax \/ entry'[s].xmax = FrozenXid
             /\ s \in emptied => entry'[s].xmax = xid'[v] \/ entry'[s].xmax = FrozenXid
  BY BulkDeleteKeeps
<1>2. list' \subseteq SegId
  BY DEF TypeOK
<1>3. PICK G : G = vacuumed \cup deadItems[v]
  OBVIOUS
<1> DEFINE Old(s) == /\ Alive(entry'[s]) = Alive(entry[s]) /\ Alive(entry[s]) \subseteq vacuumed
                     /\ entry'[s].xmax = entry[s].xmax /\ NeverListed(entry[s].xmax)
                     /\ NeverListed(entry[s].xmax)' /\ s \in list /\ ~Obsolete(s)
           New(s) == /\ Alive(entry'[s]) \subseteq deadItems[v] /\ entry'[s].xmax = xid'[v]
                     /\ NeverListed(xid[v])'
<1>4. ASSUME NEW s \in list'
      PROVE  Alive(entry'[s]) \cap G = {} \/ Obsolete(s)' \/ Old(s) \/ New(s)
  <2>0. s \in SegId /\ s \in list
    BY <1>1, <1>2
  <2>1. ASSUME s \notin emptied
        PROVE  /\ Obsolete(s) => Obsolete(s)'
               /\ Obsolete(s)' \/ entry'[s].xmax = entry[s].xmax
               /\ NeverListed(entry[s].xmax) => Obsolete(s)' \/ NeverListed(entry[s].xmax)'
    <3>1. entry'[s].xmax = entry[s].xmax \/ entry'[s].xmax = FrozenXid
      BY <1>1, <2>0, <2>1
    <3> QED BY <1>0, <2>0, <3>1, XmaxStays
  <2>2. CASE s \notin segs[v]
    <3>1. Obsolete(s) \/ entry[s].docs \cap G = {}
      BY <1>0, <1>3, <2>0, <2>2 DEF VacuumInv, GoneInv, PurgeInv, Purged
    <3>2. s \notin emptied
      BY <1>1, <2>2
    <3>3. Alive(entry'[s]) \subseteq entry[s].docs
      BY <1>1, <2>0, <2>2 DEF Alive
    <3> QED BY <2>1, <3>1, <3>2, <3>3
  <2>3. CASE s \in segs[v] /\ s \notin emptied
    <3>1. Alive(entry'[s]) = Alive(entry[s]) \ deadItems[v]
      BY <1>1, <2>0, <2>3
    <3>2. CASE Alive(entry[s]) \cap vacuumed = {}
      BY <1>3, <3>1, <3>2
    <3>3. CASE Alive(entry[s]) \subseteq vacuumed
      <4>1. Alive(entry'[s]) = Alive(entry[s])
        BY <1>0, <3>1, <3>3
      <4>2. \/ Alive(entry[s]) \cap vacuumed = {} \/ Obsolete(s)
            \/ Alive(entry[s]) \subseteq vacuumed /\ NeverListed(entry[s].xmax)
        BY <2>0 DEF VacuumInv, GoneInv, GoneFrom
      <4>3. CASE Obsolete(s)
        BY <2>1, <2>3, <4>3
      <4>4. CASE ~Obsolete(s) /\ NeverListed(entry[s].xmax)
        BY <2>0, <2>1, <2>3, <3>3, <4>1, <4>4
      <4> QED BY <3>2, <4>2, <4>3, <4>4
    <3>4. Alive(entry[s]) \cap vacuumed = {} \/ Alive(entry[s]) \subseteq vacuumed
      BY <1>0, <2>3 DEF VacuumInv, GoneInv, PurgeInv
    <3> QED BY <3>2, <3>3, <3>4
  <2>4. CASE s \in emptied
    <3>1. Alive(entry'[s]) \subseteq deadItems[v] /\ xid'[v] # InvalidXid
          /\ (entry'[s].xmax = xid'[v] \/ entry'[s].xmax = FrozenXid)
      BY <1>1, <2>0, <2>4
    <3>2. CASE entry'[s].xmax = FrozenXid
      <4>1. PrecedesHorizon(FrozenXid)'
        BY <1>0, HistoryStep, FrozenIsBehind, HorizonStays
      <4> QED BY <3>2, <4>1 DEF Obsolete, PrecedesHorizon
    <3>3. NeverListed(xid[v])'
      BY <3>1 DEF StampInv
    <3> QED BY <3>1, <3>2, <3>3
  <2> QED BY <1>1, <2>2, <2>3, <2>4
<1>5. Purged(v)' = G /\ vacuumed' \subseteq G /\ vacuumed' = vacuumed
  BY <1>0, <1>3 DEF Purged
<1>6. \A s : Alive(entry[s])' = Alive(entry'[s])
  BY DEF Alive
<1>7. ASSUME NEW s \in list'
      PROVE  \/ Alive(entry[s])' \cap G = {} \/ Obsolete(s)'
             \/ Alive(entry[s])' \subseteq G /\ NeverListed(entry[s].xmax)'
  <2>1. CASE Old(s)
    BY <1>3, <1>6, <2>1
  <2>2. CASE New(s)
    <3>1. NeverListed(entry[s].xmax)'
      BY <2>2 DEF NeverListed
    <3> QED BY <1>3, <1>6, <2>2, <3>1
  <2> QED BY <1>4, <1>6, <2>1, <2>2
<1>8. ASSUME NEW s \in list'
      PROVE  \/ Alive(entry[s])' \cap vacuumed = {} \/ Obsolete(s)'
             \/ Alive(entry[s])' \subseteq vacuumed /\ NeverListed(entry[s].xmax)'
  <2>1. CASE Old(s)
    BY <1>6, <2>1
  <2>2. CASE New(s)
    BY <1>0, <1>6, <2>2
  <2> QED BY <1>3, <1>4, <1>6, <2>1, <2>2
<1>9. GoneFrom(Purged(v))' /\ GoneFrom(vacuumed)'
  BY <1>5, <1>7, <1>8 DEF GoneFrom
<1>10. ASSUME xid'[v] # InvalidXid, NEW s \in Retired(Purged(v))' PROVE entry'[s].xmax <= xid'[v]
  <2>1. s \in list' /\ Alive(entry'[s]) \cap G # {} /\ ~Obsolete(s)'
    BY <1>5, <1>6, <1>10 DEF Retired
  <2>2. xid'[v] \in Nat
    BY <1>0, NumberTypes DEF TypeOK
  <2>3. CASE Old(s)
    <3>1. xid'[v] = nextXid
      BY <1>0, <1>10, BulkDeleteXid
    <3>2. entry[s].xmax < nextXid /\ nextXid \in Nat /\ entry[s].xmax \in Nat
      <4>1. s \in SegId
        BY <1>0, <2>3
      <4> QED BY <2>3, <4>1, NumberTypes DEF NeverListed, TypeOK, Entry
    <3> QED BY <2>3, <3>1, <3>2
  <2>4. CASE New(s)
    BY <2>2, <2>4
  <2> QED BY <1>4, <2>1, <2>3, <2>4
<1>11. ASSUME NEW s \in Retired(vacuumed)'
       PROVE  s \in SegId /\ s \in Retired(vacuumed) /\ entry'[s].xmax = entry[s].xmax
  <2>1. s \in list' /\ Alive(entry'[s]) \cap vacuumed # {} /\ ~Obsolete(s)'
    BY <1>5, <1>6, <1>11 DEF Retired
  <2>2. Old(s)
    BY <1>0, <1>3, <1>4, <2>1
  <2> QED BY <1>0, <2>1, <2>2 DEF Retired
<1> QED BY <1>9, <1>10, <1>11

\* What is deleted stays gone, and what is retired was.
LEMMA GoneStep ==
  ASSUME \A u, v \in Vacuums : u = v,
         TypeOK, TypeOK', VacuumInv, StampInv', [Next]_vars,
         \A v \in Vacuums : ~ReleaseForDelete(v)
  PROVE  /\ GoneFrom(vacuumed)' /\ vacuumed' = vacuumed
         /\ \A s \in Retired(vacuumed)' : /\ s \in SegId /\ s \in Retired(vacuumed)
                                          /\ entry'[s].xmax = entry[s].xmax
<1>1. vacuumed' = vacuumed
  <2>1. \A p \in Inserters : \A n \in 1..2 : CommitInsert(p, n) => vacuumed' = vacuumed
    BY DEF CommitInsert
  <2>2. \A d \in Doc : HeapTupleDies(d) => vacuumed' = vacuumed
    BY DEF HeapTupleDies
  <2>3. \A v \in Vacuums : VacuumScan(v) => vacuumed' = vacuumed
    BY DEF VacuumScan
  <2> QED BY <2>1, <2>2, <2>3, HeapSteps
<1>2. CASE \E v \in Vacuums : BulkDelete(v)
  BY <1>1, <1>2, BulkDeleteGone
<1>3. CASE \A v \in Vacuums : ~BulkDelete(v)
  <2>1. PICK G : G = vacuumed
    OBVIOUS
  <2>2. \A s \in list' : s \in SegId /\ ((s \in list /\ Same(s)) \/ Alive(entry'[s]) \cap G = {})
    BY <1>3, <2>1, ListKeeps
  <2>3. HistoryInv /\ GoneFrom(G)
    BY <2>1 DEF VacuumInv, LossInv, GoneInv
  <2>4. /\ GoneFrom(G)'
        /\ \A s \in Retired(G)' : /\ s \in SegId /\ s \in Retired(G) /\ Same(s)
                                  /\ entry'[s].xmax = entry[s].xmax
    BY <2>2, <2>3, GoneStays
  <2>5. GoneFrom(vacuumed)' /\ Retired(vacuumed)' = Retired(G)'
    BY <1>1, <2>1, <2>4 DEF GoneFrom, Retired
  <2> QED BY <1>1, <2>1, <2>4, <2>5
<1> QED BY <1>2, <1>3

\* What is behind the horizon is seen by a snapshot taken now.
LEMMA FreshSees ==
  ASSUME TypeOK, NEW x \in Nat, PrecedesHorizon(x)
  PROVE  ~XidInMVCCSnapshot(x, GetSnapshotData)
<1>1. x <= latestCompleted /\ latestCompleted \in Nat
  BY NumberTypes DEF PrecedesHorizon
<1>2. x \notin RunningXids
  BY NumberTypes DEF PrecedesHorizon, RunningXids, Backends
<1> QED BY <1>1, <1>2 DEF XidInMVCCSnapshot, GetSnapshotData

LEMMA PurgeStep ==
  ASSUME \A u, v \in Vacuums : u = v, MaxPasses <= 1,
         TypeOK, TypeOK', VacuumInv, StampInv', [Next]_vars
  PROVE  PurgeInv'
<1> SUFFICES ASSUME NEW v \in Vacuums
             PROVE  /\ pc'[v] = "scanned" =>
                         \A s \in list' : \/ Alive(entry'[s]) \cap vacuumed' = {} \/ Alive(entry'[s]) \subseteq vacuumed'
                                          \/ ~XidInMVCCSnapshot(entry'[s].xmax, snap'[v])
                    /\ pc'[v] = "bulkdelete" =>
                         /\ \E s \in segs'[v] : Alive(entry'[s]) \cap Immortal # {}
                         /\ \A s \in segs'[v] : \/ Alive(entry'[s]) \cap vacuumed' = {}
                                                \/ Alive(entry'[s]) \subseteq vacuumed'
                         /\ \A s \in list' \ segs'[v] : Obsolete(s)' \/ entry'[s].docs \cap Purged(v)' = {}
                    /\ pc'[v] = "committed" =>
                         /\ GoneFrom(Purged(v))'
                         /\ xid'[v] # InvalidXid => \A s \in Retired(Purged(v))' : entry'[s].xmax <= xid'[v]
  BY DEF PurgeInv, Alive, XidInMVCCSnapshot
<1>0. /\ v \in Proc /\ HistoryInv /\ FreshInv /\ DeadInv /\ StampInv /\ PurgeInv /\ GoneFrom(vacuumed) /\ FoundInv
      /\ LockInv /\ VacuumXidInv /\ list \subseteq SegId
      /\ \A s \in SegId : entry[s].xmax \in Xid /\ entry[s].xmax \in Nat
  BY NumberTypes DEF Proc, VacuumInv, KeepInv, LossInv, GoneInv, TypeOK, Entry
<1>1. CASE VacuumScan(v)
  <2>1. /\ pc'[v] = "scanned" /\ UNCHANGED <<list, entry, vacuumed>>
        /\ pc[v] \in {"idle", "deleted"} /\ passes[v] < MaxPasses
        /\ snap'[v] = IF HasSnapshot(v) THEN snap[v] ELSE GetSnapshotData
    BY <1>0, <1>1 DEF VacuumScan, TypeOK, listVars
  <2>2. pc[v] = "idle" /\ ~HasSnapshot(v)
    BY <1>0, <2>1, ConstantsAssumption DEF VacuumXidInv, StampInv, TypeOK
  <2>3. ASSUME NEW s \in list
        PROVE  \/ Alive(entry[s]) \cap vacuumed = {} \/ Alive(entry[s]) \subseteq vacuumed
               \/ ~XidInMVCCSnapshot(entry[s].xmax, GetSnapshotData)
    <3>1. CASE Obsolete(s)
      BY <1>0, <3>1, FreshSees DEF Obsolete
    <3> QED BY <1>0, <3>1 DEF GoneFrom
  <2> QED BY <2>1, <2>2, <2>3
<1>2. CASE AcquireForDelete(v)
  <2>1. /\ pc'[v] = "bulkdelete" /\ UNCHANGED <<list, entry, vacuumed>>
        /\ pc[v] = "scanned" /\ segs'[v] = LoadAny(v) /\ UNCHANGED xactVars
    BY <1>0, <1>2 DEF AcquireForDelete, TypeOK, listVars, heapVars
  <2>2. \E s \in LoadAny(v) : Alive(entry[s]) \cap Immortal # {}
    <3>1. PICK d \in Doc : d \in Immortal /\ inserter[d] # InvalidXid
      BY <1>0 DEF DeadInv
    <3>2. d \notin dead /\ inserter[d] \in Xid
      BY <1>0, <3>1 DEF DeadInv, TypeOK
    <3>3. PICK s \in list : d \in Alive(entry[s]) /\ Seen(Xid, entry[s])
      BY <1>0, <3>1, <3>2, EveryIdIsAView DEF FoundInv
    <3>4. entry[s].xmax = InvalidXid
      BY <1>0, <3>3 DEF Seen
    <3> QED BY <3>1, <3>3, <3>4 DEF LoadAny, Recyclable
  <2>3. ASSUME NEW s \in LoadAny(v)
        PROVE  Alive(entry[s]) \cap vacuumed = {} \/ Alive(entry[s]) \subseteq vacuumed
    <3>1. s \in list /\ ~Recyclable(entry[s], snap[v])
      BY DEF LoadAny
    <3>2. Obsolete(s) => XidInMVCCSnapshot(entry[s].xmax, snap[v])
      BY <3>1 DEF Obsolete, Recyclable
    <3> QED BY <1>0, <2>1, <3>1, <3>2 DEF GoneFrom, PurgeInv
  <2>4. ASSUME NEW s \in list \ LoadAny(v) PROVE Obsolete(s)'
    <3>1. Recyclable(entry[s], snap[v])
      BY DEF LoadAny
    <3>2. Obsolete(s)
      BY <3>1 DEF Recyclable, Obsolete
    <3> QED BY <2>1, <3>2 DEF Obsolete, PrecedesHorizon, HasSnapshot, xactVars
  <2> QED BY <2>1, <2>2, <2>3, <2>4
<1>3. CASE BulkDelete(v)
  <2>1. pc'[v] = "committed"
    BY <1>0, <1>3 DEF BulkDelete, TypeOK
  <2> QED BY <1>3, <2>1, BulkDeleteGone
<1>4. CASE ReleaseForDelete(v) \/ EndVacuum(v)
  BY <1>0, <1>4 DEF ReleaseForDelete, EndVacuum, TypeOK
<1>5. CASE /\ ~VacuumStep(v)
           /\ pc'[v] = pc[v] /\ snap'[v] = snap[v] /\ xid'[v] = xid[v] /\ segs'[v] = segs[v]
           /\ deadItems' = deadItems /\ vacuumed' = vacuumed /\ passes'[v] = passes[v]
  <2>1. \A u \in Vacuums : ~BulkDelete(u)
    BY <1>5 DEF VacuumStep
  <2>2. /\ \A s \in list' : s \in SegId /\ ((s \in list /\ Same(s)) \/ Alive(entry'[s]) \cap vacuumed = {})
        /\ holder \in Vacuums =>
             \A s \in list' : (s \in list /\ Same(s)) \/ entry'[s].docs \cap dead = {}
        /\ \A s \in SegId : s < nextSeg =>
             entry'[s].docs = entry[s].docs /\ entry'[s].deleted = entry[s].deleted
    BY <2>1, ListKeeps
  <2>3. Purged(v) \subseteq dead /\ Purged(v)' = Purged(v)
    BY <1>0, <1>5 DEF Purged, FreshInv, DeadInv
  <2>4. \A s : Alive(entry'[s]) \subseteq entry'[s].docs
    BY DEF Alive
  <2>5. ASSUME pc[v] = "scanned", NEW s \in list'
        PROVE  \/ Alive(entry'[s]) \cap vacuumed = {} \/ Alive(entry'[s]) \subseteq vacuumed
               \/ ~XidInMVCCSnapshot(entry'[s].xmax, snap[v])
    <3>1. CASE s \in list /\ Same(s)
      <4>1. Alive(entry'[s]) = Alive(entry[s])
        BY <3>1 DEF Alive, Same
      <4>2. CASE entry'[s].xmax = entry[s].xmax
        BY <1>0, <2>5, <3>1, <4>1, <4>2 DEF PurgeInv
      <4>3. CASE entry'[s].xmax = FrozenXid
        <5>1. snap[v].xmax \in Nat /\ snap[v].xmax > 2 /\ \A y \in snap[v].xip : y > 2
          BY <1>0, <2>5 DEF StampInv, TypeOK, Snapshot
        <5> QED BY <4>3, <5>1 DEF XidInMVCCSnapshot
      <4> QED BY <3>1, <4>2, <4>3 DEF Same
    <3> QED BY <2>2, <2>5, <3>1
  <2>6. ASSUME pc[v] = "bulkdelete"
        PROVE  /\ \E s \in segs[v] : Alive(entry'[s]) \cap Immortal # {}
               /\ \A s \in segs[v] : \/ Alive(entry'[s]) \cap vacuumed = {}
                                     \/ Alive(entry'[s]) \subseteq vacuumed
               /\ \A s \in list' \ segs[v] : Obsolete(s)' \/ entry'[s].docs \cap Purged(v) = {}
    <3>1. \A s \in segs[v] : Alive(entry'[s]) = Alive(entry[s])
      <4> SUFFICES ASSUME NEW s \in segs[v] PROVE Alive(entry'[s]) = Alive(entry[s])
        OBVIOUS
      <4>1. s \in SegId /\ s < nextSeg
        BY <1>0 DEF FreshInv, TypeOK
      <4>2. entry'[s].docs = entry[s].docs /\ entry'[s].deleted = entry[s].deleted
        BY <2>2, <4>1
      <4> QED BY <4>2 DEF Alive
    <3>2. ASSUME NEW s \in list' \ segs[v] PROVE Obsolete(s)' \/ entry'[s].docs \cap Purged(v) = {}
      <4>1. CASE entry'[s].docs \cap dead = {}
        BY <2>3, <4>1
      <4>2. CASE s \in list /\ Same(s)
        <5>1. s \in SegId /\ (Obsolete(s) \/ entry[s].docs \cap Purged(v) = {})
          BY <1>0, <2>6, <3>2, <4>2 DEF PurgeInv
        <5>2. Obsolete(s) => Obsolete(s)'
          BY <1>0, <4>2, <5>1, SegmentStays
        <5> QED BY <4>2, <5>1, <5>2 DEF Same
      <4>3. holder \in Vacuums
        BY <1>0, <2>6 DEF LockInv
      <4> QED BY <2>2, <3>2, <4>1, <4>2, <4>3
    <3>3. /\ \E s \in segs[v] : Alive(entry[s]) \cap Immortal # {}
          /\ \A s \in segs[v] : \/ Alive(entry[s]) \cap vacuumed = {}
                                \/ Alive(entry[s]) \subseteq vacuumed
      BY <1>0, <2>6 DEF PurgeInv
    <3> QED BY <3>1, <3>2, <3>3
  <2>7. ASSUME pc[v] = "committed"
        PROVE  /\ GoneFrom(Purged(v))'
               /\ xid'[v] # InvalidXid => \A s \in Retired(Purged(v))' : entry'[s].xmax <= xid'[v]
    <3>1. PICK G : G = Purged(v)
      OBVIOUS
    <3>2. \A s \in list' : s \in SegId /\ ((s \in list /\ Same(s)) \/ Alive(entry'[s]) \cap G = {})
      <4>1. holder \in Vacuums
        BY <1>0, <2>7 DEF LockInv
      <4> QED BY <2>2, <2>3, <2>4, <3>1, <4>1
    <3>3. GoneFrom(G) /\ (xid[v] # InvalidXid => \A s \in Retired(G) : entry[s].xmax <= xid[v])
      BY <1>0, <2>7, <3>1 DEF PurgeInv
    <3>4. /\ GoneFrom(G)'
          /\ \A s \in Retired(G)' : /\ s \in SegId /\ s \in Retired(G) /\ Same(s)
                                    /\ entry'[s].xmax = entry[s].xmax
      BY <1>0, <3>2, <3>3, GoneStays
    <3>5. GoneFrom(Purged(v))' /\ Retired(Purged(v))' = Retired(G)'
      BY <2>3, <3>1, <3>4 DEF GoneFrom, Retired
    <3> QED BY <1>5, <3>3, <3>4, <3>5
  <2> QED BY <1>5, <2>3, <2>5, <2>6, <2>7
<1> QED BY <1>1, <1>2, <1>3, <1>4, <1>5, VacuumAlone DEF VacuumStep

\* The stamp of the merge lock: dropping the lock leaves it.
LEMMA LastMergeSteps ==
  ASSUME StampInv, [Next]_vars
  PROVE  \/ lastMerge' = lastMerge
         \/ \E q \in Inserters : AcquireForMerge(q)
         \/ \E v \in Vacuums : ReleaseForDelete(v)
<1>1. ASSUME NEW p \in Backends, InserterStep(p) \/ ReaderStep(p)
      PROVE  AcquireForMerge(p) \/ lastMerge' = lastMerge
  <2>1. CASE EndStatement(p) \/ AbortInsert(p)
    <3>1. lastMerge' = lastMerge \/ (holder = p /\ lastMerge' = xid[p])
      BY <2>1 DEF EndStatement, AbortInsert, DropMergeLock
    <3> QED BY <3>1 DEF StampInv
  <2> QED BY <1>1, <2>1 DEF InserterStep, ReaderStep, BeginInsert, BeginScan, Open, CommitInsert, SetNumSegments,
                            NoMerge, EndMerge, EndTransaction, lockVars
<1>2. ASSUME NEW p \in Readers, ReaderStep(p) PROVE lastMerge' = lastMerge
  <2>1. p \in Backends
    BY DEF Backends
  <2> QED BY <1>2, <2>1 DEF ReaderStep, BeginScan, Open, EndStatement, EndTransaction, DropMergeLock, lockVars, StampInv
<1>3. ASSUME NEW v \in Vacuums, VacuumStep(v) PROVE ReleaseForDelete(v) \/ lastMerge' = lastMerge
  BY <1>3 DEF VacuumStep, VacuumScan, AcquireForDelete, BulkDelete, EndVacuum, lockVars
<1>4. CASE (\E d \in Doc : HeapTupleDies(d)) \/ UNCHANGED vars
  BY <1>4 DEF HeapTupleDies, vars, lockVars
<1>5. \A p \in Inserters : p \in Backends
  BY DEF Backends
<1> QED BY <1>1, <1>2, <1>3, <1>4, <1>5 DEF Next

\* Nobody but q sees what q, whose transaction runs, is doing.
LEMMA OnlyOwn ==
  ASSUME HistoryInv, SnapshotInv, NEW p \in Backends, NEW q \in Backends, HasSnapshot(p),
         xid[q] # InvalidXid, IsCurrent(xid[q], xid[p]) \/ ~XidInMVCCSnapshot(xid[q], snap[p])
  PROVE  p = q
BY DEF HistoryInv, SnapshotInv, IsCurrent

\* What retired segments are when VACUUM has released the lock.
LEMMA RetiredReleased ==
  ASSUME TypeOK, TypeOK', VacuumInv, StampInv', [Next]_vars, NEW v \in Vacuums, ReleaseForDelete(v)
  PROVE  /\ GoneFrom(vacuumed)' /\ vacuumed' = Purged(v)
         /\ xid'[v] # InvalidXid /\ lastMerge' = xid'[v] /\ NeverListed(lastMerge)' /\ lastMerge' \in Nat
         /\ xid[v] = InvalidXid => xid'[v] = nextXid
         /\ xid[v] # InvalidXid => xid'[v] = xid[v]
         /\ pc[v] = "committed" /\ holder = v
         /\ \A s \in Retired(vacuumed)' : entry'[s].xmax \in Nat /\ entry'[s].xmax <= lastMerge'
<1>0. /\ v \in Proc /\ pc[v] = "committed" /\ holder = v /\ HistoryInv
      /\ UNCHANGED <<list, entry>> /\ vacuumed' = Purged(v)
      /\ AssignVacuumXid(v) /\ lastMerge' = xid'[v] /\ nextXid \in Nat /\ nextXid # 0
  <2>1. v \in Proc /\ pc[v] = "committed" /\ holder = v /\ HistoryInv /\ nextXid \in Nat /\ nextXid # 0
    BY NumberTypes DEF Proc, ReleaseForDelete, VacuumInv, KeepInv, LockInv, LossInv, TypeOK
  <2> QED BY <2>1 DEF ReleaseForDelete, DropMergeLock, listVars, Purged
<1>1. /\ xid[v] = InvalidXid => xid'[v] = nextXid
      /\ xid[v] # InvalidXid => xid'[v] = xid[v]
  BY <1>0 DEF AssignVacuumXid, TypeOK
<1>2. xid'[v] # InvalidXid /\ NeverListed(lastMerge)'
  <2>1. NeverListed(xid[v])'
    BY <1>0, <1>1 DEF StampInv
  <2> QED BY <1>0, <1>1, <2>1 DEF NeverListed
<1>3. PICK G : G = Purged(v)
  OBVIOUS
<1>4. \A s \in list' : s \in SegId /\ s \in list /\ Same(s)
  BY <1>0 DEF Same, TypeOK
<1>5. GoneFrom(G) /\ (xid[v] # InvalidXid => \A s \in Retired(G) : entry[s].xmax <= xid[v])
  BY <1>0, <1>3 DEF VacuumInv, GoneInv, PurgeInv
<1>6. /\ GoneFrom(G)'
      /\ \A s \in Retired(G)' : s \in SegId /\ s \in Retired(G) /\ entry'[s].xmax = entry[s].xmax
  BY <1>0, <1>4, <1>5, GoneStays
<1>7. GoneFrom(vacuumed)' /\ Retired(vacuumed)' = Retired(G)'
  BY <1>0, <1>3, <1>6 DEF GoneFrom, Retired
<1>8. ASSUME NEW s \in Retired(G)' PROVE entry'[s].xmax \in Nat /\ entry'[s].xmax <= lastMerge'
  <2>1. s \in SegId /\ s \in Retired(G) /\ entry'[s].xmax = entry[s].xmax /\ entry[s].xmax \in Nat
    BY <1>6, <1>8, NumberTypes DEF TypeOK, Entry
  <2>2. CASE xid[v] # InvalidXid
    BY <1>0, <1>1, <1>5, <2>1, <2>2
  <2>3. CASE xid[v] = InvalidXid
    <3>1. NeverListed(entry[s].xmax)
      BY <1>5, <2>1 DEF GoneFrom, Retired
    <3>2. entry[s].xmax < nextXid
      BY <3>1 DEF NeverListed
    <3> QED BY <1>0, <1>1, <2>1, <2>3, <3>2
  <2> QED BY <2>2, <2>3
<1>9. lastMerge' \in Nat
  BY NumberTypes DEF TypeOK
<1> QED BY <1>0, <1>1, <1>2, <1>7, <1>8, <1>9

LEMMA RetiredStep ==
  ASSUME \A u, v \in Vacuums : u = v,
         TypeOK, TypeOK', VacuumInv, StampInv', [Next]_vars
  PROVE  RetiredInv'
<1> SUFFICES ASSUME NEW s \in Retired(vacuumed)'
             PROVE  /\ \A p \in Backends : HasSnapshot(p)' /\ LastMergeVisible(p)' => entry'[s].xmax < snap'[p].xmax
                    /\ \/ entry'[s].xmax <= latestCompleted'
                       \/ entry'[s].xmax <= lastMerge' /\ lastMerge' \notin RunningXids'
  BY DEF RetiredInv
<1>0. /\ nextXid \in Nat /\ latestCompleted \in Nat /\ latestCompleted < nextXid
      /\ nextXid' \in Nat /\ latestCompleted' \in Nat
      /\ \A p \in Backends : /\ p \in Proc /\ xid[p] \in Nat /\ xid[p] < nextXid
                             /\ snap[p].xmax \in Nat /\ snap'[p].xmax \in Nat
      /\ lastMerge \in Nat /\ lastMerge < nextXid
      /\ HistoryInv /\ SnapshotInv /\ StampInv /\ GoneFrom(vacuumed) /\ RetiredInv
  <2>1. \A p \in Backends : p \in Proc /\ snap'[p] \in Snapshot
    BY NumberTypes DEF TypeOK
  <2> QED BY <2>1, StepTypes DEF VacuumInv, KeepInv, LossInv, GoneInv, StampInv, TypeOK, Snapshot
<1>1. CASE \E v \in Vacuums : ReleaseForDelete(v)
  <2>1. PICK v \in Vacuums : ReleaseForDelete(v)
    BY <1>1
  <2>2. /\ NeverListed(lastMerge)' /\ lastMerge' \in Nat
        /\ entry'[s].xmax \in Nat /\ entry'[s].xmax <= lastMerge'
    BY <2>1, RetiredReleased
  <2>3. lastMerge' \notin RunningXids' /\ lastMerge' # InvalidXid
    BY <2>2 DEF NeverListed
  <2>4. ASSUME NEW p \in Backends, HasSnapshot(p)', LastMergeVisible(p)' PROVE entry'[s].xmax < snap'[p].xmax
    <3>1. ~IsCurrent(lastMerge', xid'[p])
      BY <2>3 DEF IsCurrent, RunningXids, Backends
    <3>2. lastMerge' < snap'[p].xmax
      BY <1>0, <2>2, <2>4, <3>1 DEF LastMergeVisible, XidInMVCCSnapshot, IsCurrent
    <3> QED BY <1>0, <2>2, <3>2
  <2> QED BY <2>2, <2>3, <2>4
<1>2. CASE \A v \in Vacuums : ~ReleaseForDelete(v)
  <2>0. s \in SegId /\ s \in Retired(vacuumed) /\ entry'[s].xmax = entry[s].xmax
    BY <1>2, GoneStep
  <2>1. PICK x \in Nat : x = entry[s].xmax
    BY <2>0, NumberTypes DEF TypeOK, Entry
  <2>2. /\ \A p \in Backends : HasSnapshot(p) /\ LastMergeVisible(p) => x < snap[p].xmax
        /\ x <= latestCompleted \/ (x <= lastMerge /\ lastMerge \notin RunningXids)
    BY <1>0, <2>0, <2>1 DEF RetiredInv
  <2> DEFINE Goal == /\ \A p \in Backends : HasSnapshot(p)' /\ LastMergeVisible(p)' => x < snap'[p].xmax
                     /\ \/ x <= latestCompleted'
                        \/ x <= lastMerge' /\ lastMerge' \notin RunningXids'
  <2> SUFFICES Goal
    BY <2>0, <2>1
  <2>3. ASSUME NEW q \in Inserters, AcquireForMerge(q) PROVE Goal
    <3>1. /\ UNCHANGED xactVars /\ lastMerge' = xid[q] /\ LastMergeVisible(q) /\ pc[q] = "saved" /\ q \in Backends
      BY <2>3 DEF AcquireForMerge, Backends
    <3>2. HasSnapshot(q) /\ xid[q] # InvalidXid
      BY <1>0, <3>1 DEF SnapshotInv, StampInv, BusyPC
    <3>3. x < snap[q].xmax /\ snap[q].xmax <= latestCompleted + 1
      BY <1>0, <2>2, <3>1, <3>2 DEF HistoryInv
    <3>4. x <= latestCompleted'
      BY <1>0, <3>1, <3>3 DEF xactVars
    <3>5. ASSUME NEW p \in Backends, HasSnapshot(p)', LastMergeVisible(p)' PROVE x < snap'[p].xmax
      <4>1. /\ HasSnapshot(p) /\ snap'[p] = snap[p]
            /\ IsCurrent(xid[q], xid[p]) \/ ~XidInMVCCSnapshot(xid[q], snap[p])
        BY <3>1, <3>5 DEF xactVars, HasSnapshot, LastMergeVisible, XidInMVCCSnapshot, IsCurrent
      <4>2. p = q
        BY <1>0, <3>1, <3>2, <4>1, OnlyOwn
      <4> QED BY <3>3, <4>1, <4>2
    <3> QED BY <3>4, <3>5
  <2>4. CASE lastMerge' = lastMerge
    <3>1. CASE Stays
      <4>1. \A p \in Backends : snap'[p] = snap[p] /\ xid'[p] = xid[p]
        BY <3>1 DEF Stays
      <4>2. latestCompleted' >= latestCompleted /\ RunningXids' = RunningXids
        BY <3>1, <4>1 DEF Stays, RunningXids, Backends
      <4>3. \A p \in Backends : (HasSnapshot(p)' <=> HasSnapshot(p)) /\ (LastMergeVisible(p)' <=> LastMergeVisible(p))
        BY <2>4, <4>1 DEF HasSnapshot, LastMergeVisible, IsCurrent, XidInMVCCSnapshot
      <4> QED BY <1>0, <2>2, <2>4, <4>1, <4>2, <4>3
    <3>2. ASSUME NEW b \in Backends, Begins(b) PROVE Goal
      <4>1. /\ latestCompleted' = latestCompleted
            /\ \A p \in Backends : p # b => snap'[p] = snap[p] /\ xid'[p] = xid[p]
            /\ snap'[b] = IF HasSnapshot(b) THEN snap[b] ELSE GetSnapshotData
            /\ xid'[b] = xid[b] \/ (xid[b] = InvalidXid /\ xid'[b] = nextXid)
        BY <1>0, <3>2 DEF Begins, TypeOK
      <4>2. lastMerge \notin RunningXids => lastMerge' \notin RunningXids'
        BY <1>0, <2>4, <4>1 DEF RunningXids, Backends
      <4>3. ASSUME NEW p \in Backends, HasSnapshot(p)', LastMergeVisible(p)' PROVE x < snap'[p].xmax
        <5>1. CASE snap'[p] = snap[p]
          <6>1. HasSnapshot(p) /\ LastMergeVisible(p)
            BY <1>0, <2>4, <3>2, <4>1, <4>3, <5>1 DEF HasSnapshot, LastMergeVisible, IsCurrent, XidInMVCCSnapshot
          <6> QED BY <2>2, <5>1, <6>1
        <5>2. CASE p = b /\ snap'[p] = GetSnapshotData
          <6>1. snap'[p].xmax = latestCompleted + 1
            BY <5>2 DEF GetSnapshotData
          <6>2. CASE x <= latestCompleted
            BY <1>0, <6>1, <6>2
          <6>3. CASE x <= lastMerge /\ lastMerge \notin RunningXids
            <7>1. ~IsCurrent(lastMerge, xid'[p])
              BY <1>0, <4>1, <5>2, <6>3 DEF IsCurrent, RunningXids, Backends
            <7>2. lastMerge < snap'[p].xmax
              BY <1>0, <2>4, <4>3, <7>1 DEF LastMergeVisible, XidInMVCCSnapshot, IsCurrent
            <7> QED BY <1>0, <4>3, <6>3, <7>2
          <6> QED BY <2>2, <6>2, <6>3
        <5> QED BY <4>1, <4>3, <5>1, <5>2
      <4> QED BY <2>2, <2>4, <4>1, <4>2, <4>3
    <3>3. ASSUME NEW b \in Backends, Closes(b) \/ Ends(b) PROVE Goal
      <4>1. /\ latestCompleted' >= latestCompleted
            /\ \A p \in Backends : snap'[p] = NoSnapshot \/ (snap'[p] = snap[p] /\ xid'[p] = xid[p])
            /\ \A p \in Backends : xid'[p] = xid[p] \/ xid'[p] = InvalidXid
        BY <1>0, <3>3 DEF Closes, Ends, Complete, TypeOK
      <4>2. RunningXids' \subseteq RunningXids
        BY <4>1 DEF RunningXids, Backends
      <4>3. ASSUME NEW p \in Backends, HasSnapshot(p)', LastMergeVisible(p)' PROVE x < snap'[p].xmax
        <5>1. snap'[p] = snap[p] /\ xid'[p] = xid[p]
          BY <4>1, <4>3 DEF HasSnapshot
        <5>2. HasSnapshot(p) /\ LastMergeVisible(p)
          BY <2>4, <4>3, <5>1 DEF HasSnapshot, LastMergeVisible, IsCurrent, XidInMVCCSnapshot
        <5> QED BY <2>2, <5>1, <5>2
      <4> QED BY <1>0, <2>2, <2>4, <4>1, <4>2, <4>3
    <3> QED BY <3>1, <3>2, <3>3, XactSteps
  <2> HIDE DEF Goal
  <2> QED BY <1>0, <1>2, <2>3, <2>4, LastMergeSteps
<1> QED BY <1>1, <1>2

\* A step of somebody else leaves a writer's statement alone.
LEMMA InserterFrame ==
  ASSUME TypeOK, [Next]_vars, NEW p \in Inserters
  PROVE  \/ InserterStep(p)
         \/ /\ pc'[p] = pc[p] /\ snap'[p] = snap[p] /\ xid'[p] = xid[p]
            /\ segs'[p] = segs[p] /\ cand'[p] = cand[p] /\ withDeletes'[p] = withDeletes[p]
<1>0. p \in Proc /\ p \in Backends /\ p \notin Readers /\ p \notin Vacuums
  BY ConstantsAssumption DEF Proc, Backends
<1>1. ASSUME NEW a \in Backends, a # p, InserterStep(a) \/ ReaderStep(a)
      PROVE  /\ pc'[p] = pc[p] /\ snap'[p] = snap[p] /\ xid'[p] = xid[p]
             /\ segs'[p] = segs[p] /\ cand'[p] = cand[p] /\ withDeletes'[p] = withDeletes[p]
  BY <1>0, <1>1, BackendFrame
<1>2. ASSUME NEW v \in Vacuums, VacuumStep(v)
      PROVE  /\ pc'[p] = pc[p] /\ snap'[p] = snap[p] /\ xid'[p] = xid[p]
             /\ segs'[p] = segs[p] /\ cand'[p] = cand[p] /\ withDeletes'[p] = withDeletes[p]
  <2>1. withDeletes'[p] = withDeletes[p]
    BY <1>0, <1>2 DEF VacuumStep, VacuumScan, AcquireForDelete, BulkDelete, ReleaseForDelete, EndVacuum, TypeOK
  <2> QED BY <1>0, <1>2, <2>1, VacuumFrame
<1>3. CASE (\E d \in Doc : HeapTupleDies(d)) \/ UNCHANGED vars
  BY <1>3 DEF HeapTupleDies, vars, xactVars, procVars
<1> QED BY <1>0, <1>1, <1>2, <1>3 DEF Next, Backends

\* Documents do not come back into a segment.
LEMMA EntriesShrink ==
  ASSUME TypeOK, TypeOK', VacuumInv, [Next]_vars, NEW s \in SegId, s < nextSeg
  PROVE  entry'[s].docs = entry[s].docs /\ Alive(entry'[s]) \subseteq Alive(entry[s])
<1>1. CASE \A v \in Vacuums : ~BulkDelete(v)
  <2>1. entry'[s].docs = entry[s].docs /\ entry'[s].deleted = entry[s].deleted
    BY <1>1, ListKeeps
  <2> QED BY <2>1 DEF Alive
<1>2. ASSUME NEW v \in Vacuums, BulkDelete(v)
      PROVE  entry'[s].docs = entry[s].docs /\ Alive(entry'[s]) \subseteq Alive(entry[s])
  BY <1>2, BulkDeleteKeeps
<1> QED BY <1>1, <1>2

\* A writer that opens the index finds nothing of what every view misses.
LEMMA OpenReads ==
  ASSUME TypeOK, NEW p \in Inserters, HasSnapshot(p), Open(p), NEW G, GoneFrom(G),
         \A s \in Retired(G) : entry[s].xmax < snap[p].xmax
  PROVE  \A s \in segs'[p] : MergeReads(p, s)' \cap G = {}
<1> SUFFICES ASSUME NEW s \in segs'[p] PROVE MergeReads(p, s)' \cap G = {}
  OBVIOUS
<1>0. p \in Proc /\ p \in Backends
  BY DEF Proc, Backends
<1>1. /\ s \in LoadSnapshot(p) /\ withDeletes'[p] = HasDeletes(LoadSnapshot(p)) /\ entry' = entry
  BY <1>0 DEF Open, TypeOK, listVars
<1>2. s \in list /\ Visible(entry[s], snap[p], xid[p])
  BY <1>1 DEF LoadSnapshot
<1>3. MergeReads(p, s)' = Alive(entry[s])
  BY <1>1 DEF MergeReads, HasDeletes, Alive
<1>4. entry[s].xmax \in Xid /\ entry[s].xmax \in Nat /\ snap[p].xmax \in Nat
  BY <1>0, <1>2, NumberTypes DEF TypeOK, Entry
<1>5. entry[s].xmax = InvalidXid \/ XidInMVCCSnapshot(entry[s].xmax, snap[p])
  BY <1>2 DEF Visible
<1>6. ~Obsolete(s)
  BY <1>0, <1>4, <1>5, HorizonRespectsSnapshots DEF Obsolete
<1>7. ASSUME Alive(entry[s]) \cap G # {} PROVE FALSE
  <2>1. NeverListed(entry[s].xmax) /\ s \in Retired(G)
    BY <1>2, <1>6, <1>7 DEF GoneFrom, Retired
  <2>2. entry[s].xmax < snap[p].xmax /\ entry[s].xmax # InvalidXid /\ entry[s].xmax \notin snap[p].xip
    BY <1>0, <2>1 DEF NeverListed
  <2> QED BY <1>4, <1>5, <2>2 DEF XidInMVCCSnapshot
<1> QED BY <1>3, <1>7

LEMMA ReadStep ==
  ASSUME \A u, v \in Vacuums : u = v,
         TypeOK, TypeOK', VacuumInv, StampInv', [Next]_vars
  PROVE  ReadInv'
<1> SUFFICES ASSUME NEW p \in Inserters
             PROVE  /\ pc'[p] \in {"open", "saved"} =>
                         /\ LastMergeVisible(p)' => ReadsNone(p, segs[p], vacuumed)'
                         /\ \A v \in Vacuums :
                              pc'[v] = "committed" /\ xid'[v] # InvalidXid /\ ~XidInMVCCSnapshot(xid'[v], snap'[p])
                                => ReadsNone(p, segs[p], Purged(v))'
                    /\ pc'[p] = "merging" => cand'[p] \subseteq segs'[p] /\ ReadsNone(p, cand[p], vacuumed)'
  BY DEF ReadInv, XidInMVCCSnapshot
<1>0. /\ nextXid \in Nat /\ p \in Proc /\ p \in Backends /\ snap[p].xmax \in Nat
      /\ segs[p] \subseteq SegId /\ cand[p] \subseteq SegId
      /\ \A s \in segs[p] \cup cand[p] : s < nextSeg
      /\ HistoryInv /\ SnapshotInv /\ StampInv /\ LockInv /\ VacuumXidInv /\ FreshInv /\ DeadInv /\ RetiredInv
      /\ PurgeInv /\ ReadInv /\ GoneFrom(vacuumed)
      /\ vacuumed \subseteq dead /\ \A v \in Vacuums : Purged(v) \subseteq dead /\ v \in Proc
  <2>1. p \in Proc /\ p \in Backends /\ \A v \in Vacuums : v \in Proc
    BY DEF Proc, Backends
  <2>2. /\ HistoryInv /\ SnapshotInv /\ StampInv /\ LockInv /\ VacuumXidInv /\ FreshInv /\ DeadInv /\ RetiredInv
        /\ PurgeInv /\ ReadInv /\ GoneFrom(vacuumed)
    BY DEF VacuumInv, KeepInv, LossInv, GoneInv
  <2>3. /\ segs[p] \subseteq SegId /\ cand[p] \subseteq SegId
        /\ \A s \in segs[p] \cup cand[p] : s < nextSeg
    BY <2>1, <2>2 DEF FreshInv, TypeOK
  <2>4. vacuumed \subseteq dead /\ \A v \in Vacuums : Purged(v) \subseteq dead
    BY <2>2 DEF FreshInv, DeadInv, Purged
  <2> QED BY <2>1, <2>2, <2>3, <2>4, NumberTypes
<1>1. ASSUME withDeletes'[p] = withDeletes[p], NEW s \in segs[p] \cup cand[p]
      PROVE  MergeReads(p, s)' \subseteq MergeReads(p, s)
  <2>1. s \in SegId /\ s < nextSeg
    BY <1>0
  <2>2. entry'[s].docs = entry[s].docs /\ Alive(entry'[s]) \subseteq Alive(entry[s])
    BY <2>1, EntriesShrink
  <2> QED BY <1>1, <2>2 DEF MergeReads, Alive
<1>2. ASSUME NEW v \in Vacuums, pc'[v] = "committed", xid'[v] # InvalidXid,
             snap'[p] = snap[p], HasSnapshot(p), ~XidInMVCCSnapshot(xid'[v], snap'[p])
      PROVE  /\ pc[v] = "committed" /\ xid[v] # InvalidXid /\ xid'[v] = xid[v]
             /\ ~XidInMVCCSnapshot(xid[v], snap[p]) /\ Purged(v)' = Purged(v)
  <2>1. CASE VacuumStep(v)
    <3>1. BulkDelete(v)
      BY <1>0, <1>2, <2>1 DEF VacuumStep, VacuumScan, AcquireForDelete, ReleaseForDelete, EndVacuum, TypeOK
    <3>2. xid[v] = InvalidXid
      BY <1>0, <3>1 DEF VacuumXidInv, BulkDelete
    <3>3. xid'[v] = nextXid
      BY <1>2, <3>1, <3>2, BulkDeleteXid
    <3>4. snap[p].xmax <= nextXid
      BY <1>0, <1>2 DEF SnapshotInv
    <3> QED BY <1>0, <1>2, <3>3, <3>4 DEF XidInMVCCSnapshot
  <2>2. CASE /\ pc'[v] = pc[v] /\ xid'[v] = xid[v] /\ deadItems' = deadItems /\ vacuumed' = vacuumed
    BY <1>2, <2>2 DEF Purged
  <2> QED BY <2>1, <2>2, VacuumAlone
<1>3. ASSUME InserterStep(p)
      PROVE  vacuumed' = vacuumed /\ \A v \in Vacuums : ~VacuumStep(v) => Purged(v)' = Purged(v)
  BY <1>0, <1>3, BackendFrame DEF Purged
<1>4. CASE Open(p)
  <2>1. /\ pc'[p] = "open" /\ UNCHANGED <<xactVars, lockVars, heapVars>> /\ HasSnapshot(p)
        /\ \A v \in Vacuums : pc'[v] = pc[v] /\ xid'[v] = xid[v]
    <3>1. pc[p] = "started" /\ pc'[p] = "open" /\ UNCHANGED <<xactVars, lockVars, heapVars>>
      BY <1>0, <1>4 DEF Open, TypeOK
    <3>2. HasSnapshot(p)
      BY <1>0, <3>1 DEF SnapshotInv, BusyPC
    <3>3. \A v \in Vacuums : v # p
      BY ConstantsAssumption
    <3>4. \A v \in Vacuums : pc'[v] = pc[v] /\ xid'[v] = xid[v]
      BY <1>0, <1>4, <3>1, <3>3 DEF Open, TypeOK, xactVars
    <3> QED BY <3>1, <3>2, <3>4
  <2>2. ASSUME LastMergeVisible(p)' PROVE ReadsNone(p, segs[p], vacuumed)'
    <3>1. PICK G : G = vacuumed
      OBVIOUS
    <3>2. LastMergeVisible(p)
      BY <2>1, <2>2 DEF LastMergeVisible, XidInMVCCSnapshot, IsCurrent, xactVars, lockVars
    <3>3. \A s \in Retired(G) : entry[s].xmax < snap[p].xmax
      BY <1>0, <2>1, <3>1, <3>2 DEF RetiredInv
    <3>4. \A s \in segs'[p] : MergeReads(p, s)' \cap G = {}
      BY <1>0, <1>4, <2>1, <3>1, <3>3, OpenReads
    <3>5. vacuumed' = G
      BY <2>1, <3>1 DEF heapVars
    <3> QED BY <3>4, <3>5 DEF ReadsNone, MergeReads, Alive
  <2>3. ASSUME NEW v \in Vacuums, pc'[v] = "committed", xid'[v] # InvalidXid, ~XidInMVCCSnapshot(xid'[v], snap'[p])
        PROVE  ReadsNone(p, segs[p], Purged(v))'
    <3>1. PICK G : G = Purged(v)
      OBVIOUS
    <3>2. /\ pc[v] = "committed" /\ xid[v] # InvalidXid /\ ~XidInMVCCSnapshot(xid[v], snap[p])
          /\ Purged(v)' = G
      BY <2>1, <2>3, <3>1 DEF xactVars, heapVars, Purged, XidInMVCCSnapshot
    <3>3. GoneFrom(G) /\ \A s \in Retired(G) : entry[s].xmax <= xid[v]
      BY <1>0, <3>1, <3>2 DEF PurgeInv
    <3>4. xid[v] \in Nat /\ xid[v] < snap[p].xmax
      BY <1>0, <3>2, NumberTypes DEF XidInMVCCSnapshot, TypeOK
    <3>5. \A s \in Retired(G) : entry[s].xmax < snap[p].xmax
      <4>1. \A s \in Retired(G) : entry[s].xmax \in Nat
        BY NumberTypes DEF Retired, TypeOK, Entry
      <4> QED BY <1>0, <3>3, <3>4, <4>1
    <3>6. \A s \in segs'[p] : MergeReads(p, s)' \cap G = {}
      BY <1>0, <1>4, <2>1, <3>3, <3>5, OpenReads
    <3> QED BY <3>2, <3>6 DEF ReadsNone, MergeReads, Alive
  <2> QED BY <2>1, <2>2, <2>3
<1>5. ASSUME NEW n \in 1..2, CommitInsert(p, n)
      PROVE  /\ pc'[p] = "saved"
             /\ LastMergeVisible(p)' => ReadsNone(p, segs[p], vacuumed)'
             /\ \A v \in Vacuums :
                  pc'[v] = "committed" /\ xid'[v] # InvalidXid /\ ~XidInMVCCSnapshot(xid'[v], snap'[p])
                    => ReadsNone(p, segs[p], Purged(v))'
  <2>1. /\ pc'[p] = "saved" /\ UNCHANGED <<xactVars, lockVars, withDeletes, vacuumed>> /\ HasSnapshot(p)
        /\ pc[p] = "open"
    <3>1. pc[p] = "open" /\ pc'[p] = "saved" /\ UNCHANGED <<xactVars, lockVars, withDeletes, vacuumed>>
      BY <1>0, <1>5 DEF CommitInsert, TypeOK
    <3>2. HasSnapshot(p)
      BY <1>0, <3>1 DEF SnapshotInv, BusyPC
    <3> QED BY <3>1, <3>2
  <2>2. ASSUME NEW G, G \subseteq dead, ReadsNone(p, segs[p], G), NEW s \in segs'[p]
        PROVE  MergeReads(p, s)' \cap G = {}
    <3>1. CASE s \in segs[p]
      BY <1>1, <2>1, <2>2, <3>1 DEF ReadsNone
    <3>2. CASE entry'[s].docs \cap dead = {}
      <4>1. MergeReads(p, s)' \subseteq entry'[s].docs
        BY DEF MergeReads, Alive
      <4> QED BY <2>2, <3>2, <4>1
    <3> QED BY <1>0, <1>5, <2>2, <3>1, <3>2, CommitKeeps
  <2>3. ASSUME LastMergeVisible(p)' PROVE ReadsNone(p, segs[p], vacuumed)'
    <3>1. LastMergeVisible(p)
      BY <2>1, <2>3 DEF LastMergeVisible, XidInMVCCSnapshot, IsCurrent, xactVars, lockVars
    <3>2. ReadsNone(p, segs[p], vacuumed)
      BY <1>0, <2>1, <3>1 DEF ReadInv
    <3>3. \A s \in segs'[p] : MergeReads(p, s)' \cap vacuumed = {}
      BY <1>0, <2>2, <3>2
    <3> QED BY <2>1, <3>3 DEF ReadsNone, MergeReads, Alive
  <2>4. ASSUME NEW v \in Vacuums, pc'[v] = "committed", xid'[v] # InvalidXid, ~XidInMVCCSnapshot(xid'[v], snap'[p])
        PROVE  ReadsNone(p, segs[p], Purged(v))'
    <3>1. snap'[p] = snap[p]
      BY <2>1 DEF xactVars
    <3>2. /\ pc[v] = "committed" /\ xid[v] # InvalidXid /\ ~XidInMVCCSnapshot(xid[v], snap[p])
          /\ Purged(v)' = Purged(v)
      BY <1>2, <2>1, <2>4, <3>1
    <3>3. ReadsNone(p, segs[p], Purged(v))
      BY <1>0, <2>1, <3>2 DEF ReadInv
    <3>4. \A s \in segs'[p] : MergeReads(p, s)' \cap Purged(v) = {}
      BY <1>0, <2>2, <3>3
    <3> QED BY <3>2, <3>4 DEF ReadsNone, MergeReads, Alive
  <2> QED BY <2>1, <2>3, <2>4
<1>6. CASE AcquireForMerge(p)
  <2>1. /\ pc[p] = "saved" /\ LastMergeVisible(p) /\ UNCHANGED <<segs, withDeletes, entry, vacuumed>>
        /\ pc'[p] \in {"merging", "done"}
        /\ \E C \in MergeCandidates(p) : cand'[p] = C
    BY <1>0, <1>6 DEF AcquireForMerge, TypeOK, listVars, heapVars
  <2>2. cand'[p] \subseteq segs[p]
    BY <2>1 DEF MergeCandidates
  <2>3. ReadsNone(p, segs[p], vacuumed)
    BY <1>0, <2>1 DEF ReadInv
  <2>4. ReadsNone(p, cand[p], vacuumed)'
    BY <2>1, <2>2, <2>3 DEF ReadsNone, MergeReads, Alive
  <2> QED BY <2>1, <2>2, <2>4
<1>7. CASE BeginInsert(p) \/ SetNumSegments(p) \/ NoMerge(p) \/ EndMerge(p) \/ EndStatement(p)
           \/ EndTransaction(p) \/ AbortInsert(p)
  <2>1. pc'[p] \in {"started", "done", "idle"}
    BY <1>0, <1>7 DEF BeginInsert, Begin, SetNumSegments, NoMerge, EndMerge, EndStatement, CloseIndex, EndTransaction,
                      AbortInsert, TypeOK, procVars
  <2> QED BY <2>1
<1>8. CASE /\ pc'[p] = pc[p] /\ snap'[p] = snap[p] /\ xid'[p] = xid[p] /\ ~InserterStep(p)
           /\ segs'[p] = segs[p] /\ cand'[p] = cand[p] /\ withDeletes'[p] = withDeletes[p]
  <2>0. ASSUME NEW G, NEW S, S \subseteq segs[p] \cup cand[p], ReadsNone(p, S, G)
        PROVE  \A s \in S : MergeReads(p, s)' \cap G = {}
    BY <1>1, <1>8, <2>0 DEF ReadsNone
  <2>1. ASSUME pc[p] \in {"open", "saved"} PROVE HasSnapshot(p)
    BY <1>0, <2>1 DEF SnapshotInv, BusyPC
  <2>2. ASSUME pc[p] \in {"open", "saved"}, LastMergeVisible(p)' PROVE ReadsNone(p, segs[p], vacuumed)'
    <3>1. ASSUME NEW v \in Vacuums, ReleaseForDelete(v) PROVE ReadsNone(p, segs[p], vacuumed)'
      <4>1. /\ vacuumed' = Purged(v) /\ xid'[v] # InvalidXid /\ lastMerge' = xid'[v] /\ NeverListed(lastMerge)'
            /\ xid[v] = InvalidXid => xid'[v] = nextXid
            /\ xid[v] # InvalidXid => xid'[v] = xid[v]
            /\ pc[v] = "committed"
        BY <3>1, RetiredReleased
      <4>2. ~IsCurrent(lastMerge', xid'[p])
        BY <1>0, <4>1 DEF IsCurrent, NeverListed, RunningXids, Backends
      <4>3. ~XidInMVCCSnapshot(xid'[v], snap[p])
        BY <1>8, <2>2, <4>1, <4>2 DEF LastMergeVisible, XidInMVCCSnapshot, IsCurrent
      <4>4. CASE xid[v] = InvalidXid
        <5>1. snap[p].xmax <= nextXid
          BY <1>0, <2>1, <2>2 DEF SnapshotInv
        <5> QED BY <1>0, <4>1, <4>3, <4>4, <5>1 DEF XidInMVCCSnapshot
      <4>5. CASE xid[v] # InvalidXid
        <5>1. ReadsNone(p, segs[p], Purged(v))
          BY <1>0, <2>2, <4>1, <4>3, <4>5 DEF ReadInv
        <5>2. \A s \in segs[p] : MergeReads(p, s)' \cap Purged(v) = {}
          BY <2>0, <5>1
        <5> QED BY <1>8, <4>1, <5>2 DEF ReadsNone, MergeReads, Alive
      <4> QED BY <4>4, <4>5
    <3>2. ASSUME NEW q \in Inserters, AcquireForMerge(q) PROVE FALSE
      <4>1. q # p
        BY <1>8, <3>2 DEF InserterStep
      <4>2. /\ UNCHANGED xactVars /\ lastMerge' = xid[q] /\ pc[q] = "saved" /\ q \in Backends
        BY <3>2 DEF AcquireForMerge, Backends
      <4>3. xid[q] # InvalidXid
        BY <1>0, <3>2, <4>2 DEF StampInv, BusyPC
      <4>4. IsCurrent(xid[q], xid[p]) \/ ~XidInMVCCSnapshot(xid[q], snap[p])
        BY <1>8, <2>2, <4>2 DEF LastMergeVisible, XidInMVCCSnapshot, IsCurrent
      <4> QED BY <1>0, <2>1, <2>2, <4>1, <4>2, <4>3, <4>4, OnlyOwn
    <3>3. CASE lastMerge' = lastMerge /\ \A v \in Vacuums : ~ReleaseForDelete(v)
      <4>1. LastMergeVisible(p)
        BY <1>8, <2>2, <3>3 DEF LastMergeVisible, XidInMVCCSnapshot, IsCurrent
      <4>2. ReadsNone(p, segs[p], vacuumed)
        BY <1>0, <2>2, <4>1 DEF ReadInv
      <4>3. \A s \in segs[p] : MergeReads(p, s)' \cap vacuumed = {}
        BY <2>0, <4>2
      <4>4. vacuumed' = vacuumed
        BY <3>3, GoneStep
      <4> QED BY <1>8, <4>3, <4>4 DEF ReadsNone, MergeReads, Alive
    <3> QED BY <1>0, <3>1, <3>2, <3>3, LastMergeSteps
  <2>3. ASSUME pc[p] \in {"open", "saved"},
               NEW v \in Vacuums, pc'[v] = "committed", xid'[v] # InvalidXid, ~XidInMVCCSnapshot(xid'[v], snap'[p])
        PROVE  ReadsNone(p, segs[p], Purged(v))'
    <3>1. /\ pc[v] = "committed" /\ xid[v] # InvalidXid /\ ~XidInMVCCSnapshot(xid[v], snap[p])
          /\ Purged(v)' = Purged(v)
      BY <1>2, <1>8, <2>1, <2>3
    <3>2. ReadsNone(p, segs[p], Purged(v))
      BY <1>0, <2>3, <3>1 DEF ReadInv
    <3>3. \A s \in segs[p] : MergeReads(p, s)' \cap Purged(v) = {}
      BY <2>0, <3>2
    <3> QED BY <1>8, <3>1, <3>3 DEF ReadsNone, MergeReads, Alive
  <2>4. ASSUME pc[p] = "merging"
        PROVE  cand'[p] \subseteq segs'[p] /\ ReadsNone(p, cand[p], vacuumed)'
    <3>1. cand[p] \subseteq segs[p] /\ ReadsNone(p, cand[p], vacuumed) /\ holder = p
      BY <1>0, <2>4 DEF ReadInv, LockInv
    <3>2. \A v \in Vacuums : ~ReleaseForDelete(v)
      <4>1. \A v \in Vacuums : v # p
        BY ConstantsAssumption
      <4> QED BY <1>0, <3>1, <4>1 DEF ReleaseForDelete, LockInv
    <3>3. vacuumed' = vacuumed
      BY <3>2, GoneStep
    <3>4. \A s \in cand[p] : MergeReads(p, s)' \cap vacuumed = {}
      BY <2>0, <3>1
    <3> QED BY <1>8, <3>1, <3>3, <3>4 DEF ReadsNone, MergeReads, Alive
  <2> QED BY <1>8, <2>2, <2>3, <2>4
<1> QED BY <1>4, <1>5, <1>6, <1>7, <1>8, InserterFrame DEF InserterStep

LEMMA InitGoneInv ==
  ASSUME Immortal \cap StartDocs # {}, Init
  PROVE  GoneInv
<1>1. Cardinality(StartDocs) \in Nat /\ StartDocs \subseteq Doc
  <2>1. StartDocs \subseteq Doc
    BY ConstantsAssumption DEF StartDocs
  <2>2. IsFiniteSet(Doc)
    BY FS_Interval, ConstantsAssumption DEF Doc
  <2> QED BY <2>1, <2>2, FS_Subset, FS_CardinalityType
<1>2. DeadInv
  <2>1. PICK d \in Immortal : d \in StartDocs
    OBVIOUS
  <2>2. d \in Doc /\ inserter[d] # InvalidXid
    BY <1>1, <2>1 DEF Init
  <2>3. \A c \in Doc : c >= nextDoc => c \notin StartDocs
    BY <1>1, StartAssumption, ConstantsAssumption DEF Init, Doc
  <2>4. \A c \in Doc : c >= nextDoc => inserter[c] = InvalidXid
    BY <2>3 DEF Init
  <2> QED BY <2>2, <2>4 DEF DeadInv, Init
<1>3. StampInv
  BY ConstantsAssumption DEF Init, StampInv, Proc, Backends, BusyPC, NoSnapshot, HasSnapshot
<1>4. GoneFrom(vacuumed) /\ RetiredInv
  BY DEF Init, GoneFrom, RetiredInv, Retired
<1>5. PurgeInv
  BY DEF Init, PurgeInv, Proc
<1>6. ReadInv
  BY DEF Init, ReadInv, Proc
<1> QED BY <1>2, <1>3, <1>4, <1>5, <1>6 DEF GoneInv

LEMMA VacuumInvStep ==
  ASSUME \A u, v \in Vacuums : u = v, MaxPasses <= 1,
         TypeOK, TypeOK', VacuumInv, [Next]_vars
  PROVE  VacuumInv'
<1>0. /\ KeepInv /\ LossInv /\ LockInv /\ VacuumXidInv /\ HistoryInv /\ FreshInv /\ DeadInv /\ StampInv
  BY DEF VacuumInv, KeepInv, LossInv, GoneInv
<1>1. KeepInv' /\ LossInv'
  BY <1>0, KeepInvStep, LossStep
<1>2. DeadInv' /\ StampInv'
  BY <1>0, DeadStep, StampStep
<1>3. PurgeInv' /\ RetiredInv' /\ ReadInv'
  BY <1>2, PurgeStep, RetiredStep, ReadStep
<1>4. GoneFrom(vacuumed)'
  <2>1. CASE \E v \in Vacuums : ReleaseForDelete(v)
    BY <1>2, <2>1, RetiredReleased
  <2>2. CASE \A v \in Vacuums : ~ReleaseForDelete(v)
    BY <1>2, <2>2, GoneStep
  <2> QED BY <2>1, <2>2
<1> QED BY <1>1, <1>2, <1>3, <1>4 DEF VacuumInv, GoneInv

\* Once ambulkdelete has returned, no snapshot, taken or to be taken, finds a
\* ctid it was asked to delete, except in a segment that VACUUM retired as a
\* whole; a merge that began before it, or that overlaps it, does not bring the
\* ctid back (delete.rs, MergeLock::acquire_for_delete).  One VACUUM at a time,
\* one ambulkdelete call in it, and an index that never gets empty: save_metas
\* does not save an IndexMeta without segments.
THEOREM VacuumedRowsStayGone ==
  ASSUME \A u, v \in Vacuums : u = v, MaxPasses <= 1, Immortal \cap StartDocs # {}
  PROVE  Spec => []VacuumedStayGone
<1>1. TypeOK /\ VacuumInv => VacuumedStayGone
  <2> SUFFICES ASSUME TypeOK, VacuumInv, NEW v \in Views, NEW d \in vacuumed, NEW s \in FoundIn(v, d)
               PROVE  entry[s].xmax # InvalidXid /\ Alive(entry[s]) \subseteq vacuumed
    BY DEF VacuumedStayGone
  <2>1. ViewSet(SeenIds(v)) /\ SeenIds(v) \in SUBSET Xid
    BY ViewsAreViewSets DEF SeenIds
  <2>2. s \in list /\ Visible(entry[s], v[1], v[2]) /\ d \in Alive(entry[s]) /\ entry[s].xmax \in Xid
    BY DEF FoundIn, TypeOK, Entry
  <2>3. ~Obsolete(s)
    <3> SUFFICES ASSUME Obsolete(s) PROVE FALSE
      OBVIOUS
    <3>1. entry[s].xmax \in SeenIds(v) /\ entry[s].xmax # InvalidXid
      BY <2>1, <2>2, HorizonSeen DEF Obsolete
    <3> QED BY <2>2, <3>1 DEF SeenIds, Visible
  <2> QED BY <2>2, <2>3 DEF VacuumInv, GoneInv, GoneFrom, NeverListed
<1>2. TypeOK /\ VacuumInv /\ [Next]_vars => TypeOK' /\ VacuumInv'
  BY NextTypeOK, VacuumInvStep
<1>3. Init => TypeOK /\ VacuumInv
  BY InitTypeOK, InitKeepInv, InitLossInv, InitGoneInv DEF VacuumInv
<1> QED BY <1>1, <1>2, <1>3, PTL DEF Spec

-----------------------------------------------------------------------------
(* Freezing                                                                 *)

LEMMA SmallRemainder ==
  ASSUME NEW M \in Nat, NEW x \in Nat, x < M
  PROVE  x % M = x
OBVIOUS

LEMMA NegativeRemainder ==
  ASSUME NEW M \in Nat, NEW x \in Nat, NEW y \in Nat, x < y, y < M
  PROVE  (x - y) % M = M - (y - x)
OBVIOUS

LEMMA HalfIs == Half \in Nat /\ Modulus \in Nat /\ Half < Modulus /\ Modulus = 2 * Half /\ Half > 3
BY HalfAssumption DEF Modulus, FirstNormalTransactionId

LEMMA LowIs ==
  ASSUME NEW x \in Nat, x < Half
  PROVE  Low(x) = x /\ x % Modulus = x
<1>1. x < Modulus
  BY HalfIs
<1> QED BY <1>1, HalfIs, SmallRemainder DEF Low

\* In the first half of the id space the comparisons are those of numbers.
LEMMA PlainPrecedes ==
  ASSUME NEW x \in Nat, NEW y \in Nat, x < Half, y < Half
  PROVE  TransactionIdPrecedes(x, y) <=> x < y
<1>1. CASE x < y
  <2>1. (x - y) % Modulus = Modulus - (y - x)
    BY <1>1, HalfIs, NegativeRemainder
  <2>2. AsSigned((x - y) % Modulus) = x - y
    BY <2>1, HalfIs DEF AsSigned
  <2> QED BY <1>1, <2>2 DEF TransactionIdPrecedes
<1>2. CASE ~(x < y)
  <2>1. x - y \in Nat /\ x - y < Half
    BY <1>2, HalfIs
  <2>2. (x - y) % Modulus = x - y
    BY <2>1, HalfIs, SmallRemainder
  <2>3. AsSigned((x - y) % Modulus) = x - y
    BY <2>1, <2>2, HalfIs DEF AsSigned
  <2> QED BY <1>2, <2>1, <2>3 DEF TransactionIdPrecedes
<1> QED BY <1>1, <1>2

NatLess == {z \in Nat \X Nat : z[1] < z[2]}

LEMMA NatLessFounded == IsWellFoundedOn(NatLess, Nat)
BY NatLessThanWellFounded DEF OpToRel, NatLess

\* The horizon is an id, and what precedes the horizon precedes that id.
LEMMA OldestIs ==
  ASSUME TypeOK, HistoryInv
  PROVE  /\ OldestNonRemovable \in Nat
         /\ BuildXid < OldestNonRemovable /\ OldestNonRemovable <= nextXid
         /\ \A x \in Xid : PrecedesHorizon(x) <=> x < OldestNonRemovable
<1>1. nextXid \in Nat /\ nextXid <= MaxXid + 1 /\ latestCompleted \in Nat /\ MaxXid \in Nat
  BY NumberTypes, ConstantsAssumption DEF TypeOK
<1>2. ~PrecedesHorizon(nextXid)
  BY NumberTypes DEF PrecedesHorizon
<1>3. \A x, y \in Nat : PrecedesHorizon(x) /\ y < x => PrecedesHorizon(y)
  <2> SUFFICES ASSUME NEW x \in Nat, NEW y \in Nat, PrecedesHorizon(x), y < x
               PROVE  PrecedesHorizon(y)
    OBVIOUS
  <2>1. \A p \in Backends : \A z \in snap[p].xip : z \in Nat
    BY NumberTypes
  <2> QED BY <1>1, <2>1, NumberTypes DEF PrecedesHorizon, Backends
<1>4. PrecedesHorizon(BuildXid)
  BY NumberTypes DEF PrecedesHorizon, HistoryInv, Backends
<1>5. PICK S : S = {x \in Nat : ~PrecedesHorizon(x)}
  OBVIOUS
<1>6. PICK x \in S : \A y \in S : ~(y < x)
  <2>1. S \in SUBSET Nat /\ S # {}
    BY <1>1, <1>2, <1>5
  <2>2. PICK x \in S : \A y \in S : ~(<<y, x>> \in NatLess)
    BY <2>1, NatLessFounded, WFMin
  <2>3. ASSUME NEW y \in S PROVE ~(y < x)
    <3>1. x \in Nat /\ y \in Nat /\ <<y, x>> \notin NatLess
      BY <2>1, <2>2
    <3> QED BY <3>1 DEF NatLess
  <2> QED BY <2>2, <2>3
<1>7. x \in Nat /\ ~PrecedesHorizon(x) /\ \A y \in Nat : y < x => PrecedesHorizon(y)
  BY <1>5, <1>6
<1>8. x <= nextXid
  BY <1>1, <1>2, <1>7
<1>9. x \in Xid \cup {nextXid}
  BY <1>1, <1>7, <1>8 DEF Xid
<1>10. \A y \in Xid : y \in Nat
  BY NumberTypes
<1>11. PICK o : o = OldestNonRemovable
  OBVIOUS
<1>12. /\ o \in Xid \cup {nextXid} /\ ~PrecedesHorizon(o)
       /\ \A y \in Xid : y < o => PrecedesHorizon(y)
  BY <1>7, <1>9, <1>10, <1>11 DEF OldestNonRemovable
<1>13. o \in Nat /\ o <= nextXid
  <2>1. CASE o \in Xid
    <3>1. ~(nextXid < o)
      BY <1>1, <1>2, <1>12, <2>1, NumberTypes DEF TypeOK, Xid
    <3> QED BY <1>1, <1>10, <2>1, <3>1
  <2> QED BY <1>1, <1>12, <2>1
<1>14. BuildXid < o
  <2>1. ~(o <= BuildXid)
    BY <1>3, <1>4, <1>12, <1>13
  <2> QED BY <1>13, <2>1
<1>15. \A y \in Xid : PrecedesHorizon(y) => y < o
  <2> SUFFICES ASSUME NEW y \in Xid, PrecedesHorizon(y), ~(y < o) PROVE FALSE
    OBVIOUS
  <2>1. y \in Nat /\ (o < y \/ o = y)
    BY <1>10, <1>13
  <2> QED BY <1>3, <1>12, <1>13, <2>1
<1> QED BY <1>11, <1>12, <1>13, <1>14, <1>15

\* Wherever in the first half of the id space the cluster is, with any
\* vacuum_freeze_min_age, the wrapping comparisons of vacuum_get_freeze_limit
\* and of xmin_needs_freeze freeze the ids that are older than the minimum age
\* and behind every snapshot's horizon, and no others.
THEOREM FreezingIsExact == Spec => []FreezeExact
<1>1. TypeOK /\ HistoryInv => FreezeExact
  <2> SUFFICES ASSUME TypeOK, HistoryInv,
                      NEW offset \in FirstNormalTransactionId - BuildXid .. Half - 1 - nextXid,
                      NEW limit,
                      limit = VacuumGetFreezeLimit(Low(nextXid + offset), Low(OldestNonRemovable + offset)),
                      NEW x \in BuildXid..(nextXid - 1)
               PROVE  NeedsFreeze(x) <=> XidNeedsFreeze(Low(x + offset), limit)
    BY DEF FreezeExact
  <2>1. PICK o : o = OldestNonRemovable
    OBVIOUS
  <2>2. PICK n : n = nextXid + offset
    OBVIOUS
  <2>3. PICK a : a = FreezeMinAge
    OBVIOUS
  <2>4. /\ nextXid \in Nat /\ nextXid <= MaxXid + 1 /\ MaxXid \in Nat
        /\ offset \in Nat /\ offset >= 1 /\ nextXid + offset < Half
    BY NumberTypes, ConstantsAssumption, HalfIs DEF TypeOK, FirstNormalTransactionId
  <2>5. x \in Nat /\ x >= 2 /\ x < nextXid /\ x \in Xid
    BY <2>4 DEF Xid
  <2>6. o \in Nat /\ 2 < o /\ o <= nextXid /\ (PrecedesHorizon(x) <=> x < o)
    BY <2>1, <2>5, OldestIs
  <2>7. n \in Nat /\ n < Half /\ a \in Nat /\ a < Half
    BY <2>2, <2>3, <2>4, ConstantsAssumption, HalfAssumption
  <2>8. Low(n) = n /\ Low(o + offset) = o + offset /\ Low(x + offset) = x + offset
    <3>1. /\ o + offset \in Nat /\ o + offset < Half
          /\ x + offset \in Nat /\ x + offset < Half
      BY <2>4, <2>5, <2>6, HalfIs
    <3> QED BY <2>7, <3>1, LowIs
  <2>9. NeedsFreeze(x) <=> x + a < nextXid /\ x < o
    BY <2>3, <2>5, <2>6 DEF NeedsFreeze
  <2>10. AsSigned(n) = n
    BY <2>7, HalfIs DEF AsSigned
  <2>11. ASSUME NEW l \in Nat, l < Half
         PROVE  XidNeedsFreeze(x + offset, l) <=> x + offset < l
    <3>1. x + offset \in Nat /\ x + offset < Half /\ x + offset >= 3
      BY <2>4, <2>5, HalfIs
    <3>2. TransactionIdPrecedes(x + offset, l) <=> x + offset < l
      BY <2>11, <3>1, PlainPrecedes
    <3> QED BY <3>1, <3>2 DEF XidNeedsFreeze, TransactionIdIsNormal, FirstNormalTransactionId
  <2>12. CASE a > n
    <3>1. limit = 3
      BY <2>1, <2>2, <2>3, <2>8, <2>10, <2>12 DEF VacuumGetFreezeLimit, FirstNormalTransactionId
    <3>2. ~XidNeedsFreeze(Low(x + offset), limit)
      BY <2>4, <2>5, <2>8, <2>11, <3>1, HalfIs
    <3> QED BY <2>2, <2>4, <2>5, <2>7, <2>9, <2>12, <3>2
  <2>13. CASE ~(a > n)
    <3>1. PICK age : age = (n - a) % Modulus
      OBVIOUS
    <3>2. age = n - a /\ age \in Nat /\ age < Half
      <4>1. n - a \in Nat /\ n - a < Half
        BY <2>7, <2>13, HalfIs
      <4> QED BY <3>1, <4>1, LowIs
    <3>3. PICK l : l = IF age >= 3 THEN age ELSE 3
      OBVIOUS
    <3>4. l \in Nat /\ l < Half
      BY <3>2, <3>3, HalfIs
    <3>5. o + offset \in Nat /\ o + offset < Half
      BY <2>4, <2>6, HalfIs
    <3>6. TransactionIdPrecedes(o + offset, l) <=> o + offset < l
      BY <3>4, <3>5, PlainPrecedes
    <3>7. limit = IF o + offset < l THEN o + offset ELSE l
      BY <2>1, <2>2, <2>3, <2>8, <2>10, <2>13, <3>1, <3>3, <3>6
         DEF VacuumGetFreezeLimit, TransactionIdIsNormal, FirstNormalTransactionId
    <3>8. XidNeedsFreeze(Low(x + offset), limit) <=> x + offset < limit
      BY <2>8, <2>11, <3>4, <3>5, <3>7
    <3> QED BY <2>2, <2>4, <2>5, <2>6, <2>7, <2>9, <3>2, <3>3, <3>7, <3>8
  <2> QED BY <2>12, <2>13
<1>2. TypeOK /\ LossInv /\ [Next]_vars => TypeOK' /\ LossInv'
  BY NextTypeOK, LossStep
<1>3. Init => TypeOK /\ LossInv
  BY InitTypeOK, InitLossInv
<1>4. LossInv => HistoryInv
  BY DEF LossInv
<1> QED BY <1>1, <1>2, <1>3, <1>4, PTL DEF Spec
=============================================================================
