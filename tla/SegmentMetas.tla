---------------------------- MODULE SegmentMetas ----------------------------
(***************************************************************************)
(* The segment-metadata layer of a BM25 index: the SegmentMetaEntry list,  *)
(* the merge lock page and the statements that work on them.               *)
(*                                                                         *)
(*   - an INSERT/UPDATE/COPY statement opens a SearchIndexWriter on the    *)
(*     segments its snapshot sees, saves the segments it created, and may  *)
(*     then merge the smallest segments it knows of;                       *)
(*   - a scan opens a SearchIndexReader on the segments its snapshot sees; *)
(*   - VACUUM (ambulkdelete) opens every segment that may still matter and *)
(*     records the dead heap tuples as deleted.                            *)
(*                                                                         *)
(* Source: index/directory/utils.rs (save_new_metas, load_metas),          *)
(* index/directory/mvcc.rs, index/merge_policy.rs, postgres/delete.rs,     *)
(* postgres/storage/block.rs (MVCCEntry).                                  *)
(*                                                                         *)
(* The list is a set here: how its pages are walked and compacted is the   *)
(* subject of LinkedItems.  Transaction ids are naturals in assignment     *)
(* order (their 32-bit wrap-around is the subject of FreezeLimit).         *)
(***************************************************************************)
EXTENDS Naturals, FiniteSets, Sequences

CONSTANTS
  Inserters,       \* backends that run INSERT statements
  Readers,         \* backends that run scans
  Vacuums,         \* backends that run VACUUM on the table
  RepeatableRead,  \* the backends whose transactions keep one snapshot
  Start,           \* sequence: the documents of each segment found at Init
  StartNumSegments,\* MergeLockData.num_segments at Init
  Parallelism,     \* std::thread::available_parallelism()
  FreezeMinAge,    \* vacuum_freeze_min_age
  Immortal,        \* documents whose heap tuple is never deleted
  MaxXid, MaxSeg, MaxDoc,   \* bounds on the three counters
  MaxPasses        \* ambulkdelete calls per VACUUM

Proc == Inserters \cup Readers \cup Vacuums

InvalidXid  == 0
FrozenXid   == 1
BuildXid    == 2        \* the transaction that left the segments of Start
Xid         == 0..MaxXid
SegId       == 1..MaxSeg
Doc         == 1..MaxDoc
NoProc      == "nobody"
MinNumSegments == 2     \* MIN_NUM_SEGMENTS

ASSUME ConstantsAssumption ==
  /\ Inserters \cap Readers = {}
  /\ Vacuums \cap (Inserters \cup Readers) = {}
  /\ NoProc \notin Proc
  /\ RepeatableRead \subseteq Proc
  /\ MaxXid \in Nat /\ MaxXid >= BuildXid
  /\ MaxSeg \in Nat /\ MaxDoc \in Nat
  /\ Start \in Seq(SUBSET Doc) /\ Len(Start) <= MaxSeg
  /\ StartNumSegments \in Nat
  /\ Parallelism \in Nat \ {0}
  /\ FreezeMinAge \in Nat
  /\ MaxPasses \in Nat

StartDocs == UNION {Start[s] : s \in 1..Len(Start)}

\* The build indexed every heap tuple there was, once.
ASSUME StartAssumption ==
  /\ StartDocs = 1..Cardinality(StartDocs)
  /\ \A s, t \in 1..Len(Start) : s # t => Start[s] \cap Start[t] = {}

VARIABLES
  nextXid,         \* the next transaction id to assign
  latestCompleted, \* the largest transaction id that has ended
  xid,             \* xid[p]: the id of p's transaction, InvalidXid if none yet
  snap,            \* snap[p]: p's active snapshot
  list,            \* the ids in the SegmentMetaEntry list
  entry,           \* entry[s]: the entry of segment s
  nextSeg,         \* the next fresh segment id
  holder,          \* who holds the MERGE_LOCK buffer exclusively
  lastMerge,       \* MergeLockData.last_merge
  numSegments,     \* MergeLockData.num_segments
  pc,              \* pc[p]: where p is in its statement
  base,            \* base[p]: the segments p's IndexMeta had when it was opened
  segs,            \* segs[p]: the segments of p's current IndexMeta
  withDeletes,     \* withDeletes[p]: those of segs[p] whose meta names a .del file
  cand,            \* cand[p]: the segments p is merging
  inserter,        \* inserter[d]: the transaction that inserted document d
  nextDoc,         \* the next fresh document (heap tuple)
  dead,            \* documents whose heap tuple is dead to every transaction
  deadItems,       \* deadItems[v]: the dead tuples VACUUM v collected
  passes,          \* passes[v]: ambulkdelete calls v has made
  vacuumed         \* documents whose heap line pointers may be reused

xactVars == <<nextXid, latestCompleted, xid, snap>>
listVars == <<list, entry, nextSeg>>
lockVars == <<holder, lastMerge, numSegments>>
procVars == <<pc, base, segs, withDeletes, cand>>
heapVars == <<inserter, nextDoc, dead, deadItems, passes, vacuumed>>
vars     == <<xactVars, listVars, lockVars, procVars, heapVars>>

Entry    == [xmin : Xid, xmax : Xid, docs : SUBSET Doc, deleted : SUBSET Doc]
Snapshot == [xmax : Nat, xip : SUBSET Xid]
NoSnapshot == [xmax |-> 0, xip |-> {}]
NoEntry  == [xmin |-> InvalidXid, xmax |-> InvalidXid, docs |-> {}, deleted |-> {}]

-----------------------------------------------------------------------------
(* Transactions and snapshots: PostgreSQL, as the code relies on it.        *)

\* A VACUUM runs with PROC_IN_VACUUM set: neither snapshots nor the removal
\* horizon take its transaction into account.
RunningXids == {xid[p] : p \in {q \in Inserters \cup Readers : xid[q] # InvalidXid}}

GetSnapshotData ==
  [xmax |-> latestCompleted + 1,
   xip  |-> {x \in RunningXids : x <= latestCompleted}]

HasSnapshot(p) == snap[p] # NoSnapshot

\* XidInMVCCSnapshot: "the snapshot considers x still running".
XidInMVCCSnapshot(x, s) == x >= s.xmax \/ x \in s.xip

IsCurrent(x, me) == me # InvalidXid /\ x = me

\* GlobalVisCheckRemovableXid, at its sharpest: nothing running, and no
\* snapshot in use, can still consider x running.
PrecedesHorizon(x) ==
  /\ x <= latestCompleted
  /\ \A p \in Inserters \cup Readers :
       /\ xid[p] # InvalidXid => x < xid[p]
       /\ HasSnapshot(p) => x < snap[p].xmax /\ \A y \in snap[p].xip : x < y

-----------------------------------------------------------------------------
(* MVCCEntry (storage/block.rs)                                             *)

Alive(e) == e.docs \ e.deleted

Visible(e, s, me) ==
  /\ IsCurrent(e.xmin, me) \/ ~XidInMVCCSnapshot(e.xmin, s)
  /\ ~ /\ e.xmax # InvalidXid
       /\ IsCurrent(e.xmax, me) \/ ~XidInMVCCSnapshot(e.xmax, s)

\* Mutant of Recyclable: forgets that other backends may still need the entry.
RecyclableForMe(e, s) == e.xmax # InvalidXid /\ ~XidInMVCCSnapshot(e.xmax, s)

Recyclable(e, s) ==
  /\ e.xmax # InvalidXid
  /\ ~XidInMVCCSnapshot(e.xmax, s)
  /\ PrecedesHorizon(e.xmax)

\* vacuum_get_freeze_limit caps the limit at the horizon.
NeedsFreeze(x) ==
  /\ x > FrozenXid
  /\ x + FreezeMinAge < nextXid
  /\ PrecedesHorizon(x)

FrozenId(x) == IF NeedsFreeze(x) THEN FrozenXid ELSE x

Frozen(e) == [xmin |-> FrozenId(e.xmin), xmax |-> FrozenId(e.xmax),
              docs |-> e.docs, deleted |-> e.deleted]

\* load_metas, in its two styles (MvccSatisfies::Snapshot and ::Any).
LoadSnapshot(p) == {s \in list : Visible(entry[s], snap[p], xid[p])}
LoadAny(p)      == {s \in list : ~Recyclable(entry[s], snap[p])}

HasDeletes(S) == {s \in S : entry[s].deleted # {}}

-----------------------------------------------------------------------------
(* save_new_metas: new_meta and previous_meta are sets of segment ids.      *)
(* e is the entry function after the delete entries of the modified         *)
(* segments were replaced and the created entries written; created and      *)
(* removed are new \ previous and previous \ new.  An entry that leaves the *)
(* meta gets xmax; the list is garbage-collected if any entry left it.      *)

\* LinkedItemList::garbage_collect
Survivors(p, l, e) == {s \in l : ~Recyclable(e[s], snap[p])}

SaveNewMetas(p, me, created, removed, e) ==
  LET marked == [s \in SegId |-> IF s \in removed
                                 THEN [e[s] EXCEPT !.xmax = me] ELSE e[s]]
      kept   == Survivors(p, list \cup created, marked)
  IN  IF removed = {}
      THEN /\ list' = list \cup created
           /\ entry' = marked
      ELSE /\ list' = kept
           /\ entry' = [s \in SegId |-> IF s \in kept THEN Frozen(marked[s])
                                        ELSE marked[s]]

-----------------------------------------------------------------------------
Init ==
  /\ nextXid = BuildXid + 1
  /\ latestCompleted = BuildXid
  /\ xid = [p \in Proc |-> InvalidXid]
  /\ snap = [p \in Proc |-> NoSnapshot]
  /\ list = 1..Len(Start)
  /\ entry = [s \in SegId |-> IF s <= Len(Start)
                THEN [xmin |-> BuildXid, xmax |-> InvalidXid,
                      docs |-> Start[s], deleted |-> {}]
                ELSE NoEntry]
  /\ nextSeg = Len(Start) + 1
  /\ holder = NoProc
  /\ lastMerge = InvalidXid
  /\ numSegments = StartNumSegments
  /\ pc = [p \in Proc |-> "idle"]
  /\ base = [p \in Proc |-> {}]
  /\ segs = [p \in Proc |-> {}]
  /\ withDeletes = [p \in Proc |-> {}]
  /\ cand = [p \in Proc |-> {}]
  /\ inserter = [d \in Doc |-> IF d \in StartDocs THEN BuildXid ELSE InvalidXid]
  /\ nextDoc = Cardinality(StartDocs) + 1
  /\ dead = {}
  /\ deadItems = [v \in Vacuums |-> {}]
  /\ passes = [v \in Vacuums |-> 0]
  /\ vacuumed = {}

-----------------------------------------------------------------------------
(* Statements of inserters and readers                                      *)

Begin(p) ==
  /\ pc[p] = "idle"
  /\ pc' = [pc EXCEPT ![p] = "started"]
  /\ snap' = [snap EXCEPT ![p] = IF HasSnapshot(p) THEN @ ELSE GetSnapshotData]

\* A scan takes its snapshot; it needs no transaction id.
BeginScan(p) ==
  /\ Begin(p)
  /\ UNCHANGED <<nextXid, latestCompleted, xid, base, segs, withDeletes, cand,
                 listVars, lockVars, heapVars>>

\* An INSERT takes its snapshot, and its first heap_insert assigns the
\* transaction an id unless it has one.
BeginInsert(p) ==
  /\ Begin(p)
  /\ nextDoc <= MaxDoc
  /\ IF xid[p] = InvalidXid
     THEN /\ nextXid < MaxXid      \* the last id is left to a VACUUM
          /\ xid' = [xid EXCEPT ![p] = nextXid]
          /\ nextXid' = nextXid + 1
     ELSE UNCHANGED <<xid, nextXid>>
  /\ UNCHANGED <<latestCompleted, base, segs, withDeletes, cand,
                 listVars, lockVars, heapVars>>

\* SearchIndexWriter::open and SearchIndexReader::open: Index::open calls
\* load_metas with the active snapshot.
Open(p) ==
  /\ pc[p] = "started"
  /\ pc' = [pc EXCEPT ![p] = "open"]
  /\ base' = [base EXCEPT ![p] = LoadSnapshot(p)]
  /\ segs' = [segs EXCEPT ![p] = LoadSnapshot(p)]
  /\ withDeletes' = [withDeletes EXCEPT ![p] = HasDeletes(LoadSnapshot(p))]
  /\ UNCHANGED <<xactVars, listVars, lockVars, cand, heapVars>>

\* Tantivy commits: n indexing threads had documents, so n segments are
\* created; save_metas adds their entries.
CommitInsert(p, n) ==
  LET created == nextSeg..(nextSeg + n - 1)
      e == [s \in SegId |-> IF s \in created
              THEN [xmin |-> xid[p], xmax |-> InvalidXid,
                    docs |-> {nextDoc + (s - nextSeg)}, deleted |-> {}]
              ELSE entry[s]]
  IN /\ pc[p] = "open"
     /\ nextSeg + n - 1 <= MaxSeg /\ nextDoc + n - 1 <= MaxDoc
     /\ SaveNewMetas(p, xid[p], created, {}, e)
     /\ nextSeg' = nextSeg + n
     /\ nextDoc' = nextDoc + n
     /\ inserter' = [d \in Doc |-> IF d \in nextDoc..(nextDoc + n - 1)
                                   THEN xid[p] ELSE inserter[d]]
     /\ segs' = [segs EXCEPT ![p] = @ \cup created]
     /\ pc' = [pc EXCEPT ![p] = "saved"]
     /\ UNCHANGED <<xactVars, lockVars, base, withDeletes, cand,
                    dead, deadItems, passes, vacuumed>>

-----------------------------------------------------------------------------
(* reconsider_merge_policy, called by the commit after save_metas           *)

Created(p) == segs[p] \ base[p]

\* More than one new segment: a bulk insert.  It raises the target segment
\* count (waiting for the MERGE_LOCK buffer) and does not merge.
SetNumSegments(p) ==
  /\ pc[p] = "saved"
  /\ Cardinality(Created(p)) > 1
  /\ holder = NoProc
  /\ numSegments' = Cardinality(segs[p]) - 1
  /\ pc' = [pc EXCEPT ![p] = "done"]
  /\ UNCHANGED <<xactVars, listVars, holder, lastMerge,
                 base, segs, withDeletes, cand, heapVars>>

\* Mutant of LastMergeVisible: asks whether the last merge has ended, not
\* whether this statement's snapshot sees it.
LastMergeEnded(p) == lastMerge = xid[p] \/ lastMerge \notin RunningXids

LastMergeVisible(p) ==
  IsCurrent(lastMerge, xid[p]) \/ ~XidInMVCCSnapshot(lastMerge, snap[p])

\* NPlusOneMergePolicy::compute_merge_candidates: what is left after the n
\* largest segments, by the live documents the writer's metas count; ties are
\* broken arbitrarily (sort_unstable).
NumDocs(p, s) ==
  Cardinality(IF s \in withDeletes[p] THEN Alive(entry[s]) ELSE entry[s].docs)

TargetSegments == IF numSegments > Parallelism THEN numSegments ELSE Parallelism

MergeCandidates(p) ==
  IF Cardinality(segs[p]) < TargetSegments + MinNumSegments
  THEN {{}}
  ELSE {C \in SUBSET segs[p] :
          /\ Cardinality(segs[p] \ C) = TargetSegments
          /\ \A c \in C, k \in segs[p] \ C : NumDocs(p, c) <= NumDocs(p, k)}

\* MergeLock::acquire_for_merge succeeds.
AcquireForMerge(p) ==
  /\ pc[p] = "saved"
  /\ Cardinality(Created(p)) = 1
  /\ holder = NoProc
  /\ LastMergeVisible(p)
  /\ holder' = p
  /\ lastMerge' = xid[p]
  /\ \E C \in MergeCandidates(p) :
       /\ cand' = [cand EXCEPT ![p] = C]
       /\ pc' = [pc EXCEPT ![p] = IF C = {} THEN "done" ELSE "merging"]
  /\ UNCHANGED <<xactVars, listVars, numSegments, base, segs, withDeletes, heapVars>>

\* MergeLock::acquire_for_merge fails: the buffer is locked, or the previous
\* holder's transaction is not visible.
NoMerge(p) ==
  /\ pc[p] = "saved"
  /\ Cardinality(Created(p)) = 1
  /\ holder # NoProc \/ ~LastMergeVisible(p)
  /\ pc' = [pc EXCEPT ![p] = "done"]
  /\ UNCHANGED <<xactVars, listVars, lockVars, base, segs, withDeletes, cand, heapVars>>

\* What Tantivy's merge reads of a segment: the .del file only if the meta
\* it was opened with names one (the file itself is looked up now).
MergeReads(p, s) == IF s \in withDeletes[p] THEN Alive(entry[s]) ELSE entry[s].docs

\* The merge ends: save_metas with the merged segment instead of cand[p].
\* A merge of nothing but deleted documents leaves no segment behind, and an
\* IndexMeta without segments is not saved at all.
EndMerge(p) ==
  LET merged   == UNION {MergeReads(p, s) : s \in cand[p]}
      created  == IF merged = {} THEN {} ELSE {nextSeg}
      newMeta  == (segs[p] \ cand[p]) \cup created
      e == [s \in SegId |-> IF s \in created
              THEN [xmin |-> xid[p], xmax |-> InvalidXid, docs |-> merged, deleted |-> {}]
              ELSE entry[s]]
  IN /\ pc[p] = "merging"
     /\ nextSeg <= MaxSeg
     /\ IF newMeta = {} THEN UNCHANGED <<list, entry>>
                        ELSE SaveNewMetas(p, xid[p], created, cand[p], e)
     /\ nextSeg' = IF merged = {} THEN nextSeg ELSE nextSeg + 1
     /\ segs' = [segs EXCEPT ![p] = newMeta]
     /\ cand' = [cand EXCEPT ![p] = {}]
     /\ pc' = [pc EXCEPT ![p] = "done"]
     /\ UNCHANGED <<xactVars, lockVars, base, withDeletes, heapVars>>

\* Mutants of DropMergeLock: release without a stamp; stamp with the next id.
DropWithoutStamp(p, me) ==
  /\ holder' = IF holder = p THEN NoProc ELSE holder
  /\ UNCHANGED lastMerge

DropWithNextXid(p, me) ==
  IF holder = p THEN holder' = NoProc /\ lastMerge' = nextXid
                ELSE UNCHANGED <<holder, lastMerge>>

\* Drop for MergeLock
DropMergeLock(p, me) ==
  IF holder = p THEN holder' = NoProc /\ lastMerge' = me
                ELSE UNCHANGED <<holder, lastMerge>>

CloseIndex(p) ==
  /\ base' = [base EXCEPT ![p] = {}]
  /\ segs' = [segs EXCEPT ![p] = {}]
  /\ withDeletes' = [withDeletes EXCEPT ![p] = {}]
  /\ cand' = [cand EXCEPT ![p] = {}]
  /\ pc' = [pc EXCEPT ![p] = "idle"]

\* The statement ends: the writer or reader is dropped, with it the
\* MVCCDirectory and its MergeLock.
EndStatement(p) ==
  /\ pc[p] = IF p \in Readers THEN "open" ELSE "done"
  /\ DropMergeLock(p, xid[p])
  /\ CloseIndex(p)
  /\ snap' = [snap EXCEPT ![p] = IF p \in RepeatableRead THEN @ ELSE NoSnapshot]
  /\ UNCHANGED <<nextXid, latestCompleted, xid, listVars, numSegments, heapVars>>

\* ProcArrayEndTransaction
Complete(x) == latestCompleted' = IF x > latestCompleted THEN x ELSE latestCompleted

\* COMMIT or ROLLBACK between statements; entries do not tell them apart.
EndTransaction(p) ==
  /\ pc[p] = "idle"
  /\ xid[p] # InvalidXid \/ HasSnapshot(p)
  /\ Complete(xid[p])
  /\ xid' = [xid EXCEPT ![p] = InvalidXid]
  /\ snap' = [snap EXCEPT ![p] = NoSnapshot]
  /\ UNCHANGED <<nextXid, listVars, lockVars, procVars, heapVars>>

\* An ERROR in the middle of an INSERT (not inside save_metas): unwinding
\* drops the writer, the transaction rolls back.
AbortInsert(p) ==
  /\ pc[p] \in {"started", "open", "saved", "merging", "done"}
  /\ DropMergeLock(p, xid[p])
  /\ CloseIndex(p)
  /\ Complete(xid[p])
  /\ xid' = [xid EXCEPT ![p] = InvalidXid]
  /\ snap' = [snap EXCEPT ![p] = NoSnapshot]
  /\ UNCHANGED <<nextXid, listVars, numSegments, heapVars>>

-----------------------------------------------------------------------------
(* The heap and VACUUM                                                      *)

\* A heap tuple whose inserter has ended becomes dead to everyone: the
\* inserter rolled back, or the tuple's deletion is behind the horizon.
HeapTupleDies(d) ==
  /\ d \in Doc \ (dead \cup Immortal)
  /\ inserter[d] # InvalidXid
  /\ inserter[d] \notin RunningXids
  /\ dead' = dead \cup {d}
  /\ UNCHANGED <<xactVars, listVars, lockVars, procVars,
                 inserter, nextDoc, deadItems, passes, vacuumed>>

\* lazy_scan_heap collected dead tuples; ambulkdelete is about to be called.
VacuumScan(v) ==
  /\ pc[v] \in {"idle", "deleted"}
  /\ passes[v] < MaxPasses
  /\ dead \ vacuumed # {}
  /\ deadItems' = [deadItems EXCEPT ![v] = dead \ vacuumed]
  /\ passes' = [passes EXCEPT ![v] = @ + 1]
  /\ snap' = [snap EXCEPT ![v] = IF HasSnapshot(v) THEN @ ELSE GetSnapshotData]
  /\ pc' = [pc EXCEPT ![v] = "scanned"]
  /\ UNCHANGED <<nextXid, latestCompleted, xid, listVars, lockVars,
                 base, segs, withDeletes, cand, inserter, nextDoc, dead, vacuumed>>

\* MergeLock::acquire_for_delete, then the writer and the reader are opened
\* with MvccSatisfies::Any.
AcquireForDelete(v) ==
  /\ pc[v] = "scanned"
  /\ holder = NoProc
  /\ holder' = v
  /\ base' = [base EXCEPT ![v] = LoadAny(v)]
  /\ segs' = [segs EXCEPT ![v] = LoadAny(v)]
  /\ withDeletes' = [withDeletes EXCEPT ![v] = HasDeletes(LoadAny(v))]
  /\ pc' = [pc EXCEPT ![v] = "bulkdelete"]
  /\ UNCHANGED <<xactVars, listVars, lastMerge, numSegments, cand, heapVars>>

\* GetCurrentTransactionId in a VACUUM that has none yet.
AssignVacuumXid(v) ==
  IF xid[v] = InvalidXid
  THEN /\ nextXid <= MaxXid
       /\ xid' = [xid EXCEPT ![v] = nextXid]
       /\ nextXid' = nextXid + 1
  ELSE UNCHANGED <<xid, nextXid>>

\* delete_term for every dead ctid, and commit.  Tantivy's commit leaves
\* segments without live documents out of the new meta: their entries get
\* xmax but not the delete file written for them, which stays in
\* directory_entries.  With a meta without segments save_metas returns early.
BulkDelete(v) ==
  LET purged  == [s \in SegId |->
                    [entry[s] EXCEPT !.deleted = @ \cup (entry[s].docs \cap deadItems[v])]]
      emptied == {s \in segs[v] : Alive(purged[s]) = {}}
      newMeta == segs[v] \ emptied
      e == [s \in SegId |-> IF s \in newMeta THEN purged[s] ELSE entry[s]]
  IN /\ pc[v] = "bulkdelete"
     /\ IF newMeta = {}
        THEN UNCHANGED <<list, entry, xid, nextXid>>
        ELSE /\ IF emptied = {} THEN UNCHANGED <<xid, nextXid>> ELSE AssignVacuumXid(v)
             /\ SaveNewMetas(v, xid'[v], {}, emptied, e)
     /\ segs' = [segs EXCEPT ![v] = newMeta]
     /\ pc' = [pc EXCEPT ![v] = "committed"]
     /\ UNCHANGED <<latestCompleted, snap, nextSeg, lockVars,
                    base, withDeletes, cand, heapVars>>

\* drop(merge_lock); ambulkdelete returns (the wait for the CLEANUP_LOCK is
\* modelled in CleanupLock) and the heap reuses the line pointers.
ReleaseForDelete(v) ==
  /\ pc[v] = "committed"
  /\ AssignVacuumXid(v)
  /\ DropMergeLock(v, xid'[v])
  /\ vacuumed' = vacuumed \cup deadItems[v]
  /\ deadItems' = [deadItems EXCEPT ![v] = {}]
  /\ base' = [base EXCEPT ![v] = {}]
  /\ segs' = [segs EXCEPT ![v] = {}]
  /\ withDeletes' = [withDeletes EXCEPT ![v] = {}]
  /\ pc' = [pc EXCEPT ![v] = "deleted"]
  /\ UNCHANGED <<latestCompleted, snap, listVars, numSegments, cand,
                 inserter, nextDoc, dead, passes>>

EndVacuum(v) ==
  /\ pc[v] = "deleted"
  /\ Complete(xid[v])
  /\ xid' = [xid EXCEPT ![v] = InvalidXid]
  /\ snap' = [snap EXCEPT ![v] = NoSnapshot]
  /\ pc' = [pc EXCEPT ![v] = "idle"]
  /\ passes' = [passes EXCEPT ![v] = 0]
  /\ UNCHANGED <<nextXid, listVars, lockVars, base, segs, withDeletes, cand,
                 inserter, nextDoc, dead, deadItems, vacuumed>>

-----------------------------------------------------------------------------
InserterStep(p) ==
  \/ BeginInsert(p) \/ Open(p) \/ \E n \in 1..2 : CommitInsert(p, n)
  \/ SetNumSegments(p) \/ AcquireForMerge(p) \/ NoMerge(p) \/ EndMerge(p)
  \/ EndStatement(p) \/ EndTransaction(p) \/ AbortInsert(p)

ReaderStep(p) == BeginScan(p) \/ Open(p) \/ EndStatement(p) \/ EndTransaction(p)

VacuumStep(v) ==
  \/ VacuumScan(v) \/ AcquireForDelete(v) \/ BulkDelete(v)
  \/ ReleaseForDelete(v) \/ EndVacuum(v)

Next ==
  \/ \E p \in Inserters : InserterStep(p)
  \/ \E p \in Readers : ReaderStep(p)
  \/ \E v \in Vacuums : VacuumStep(v)
  \/ \E d \in Doc : HeapTupleDies(d)

Spec == Init /\ [][Next]_vars

-----------------------------------------------------------------------------
(* Properties                                                               *)

PC == {"idle", "started", "open", "saved", "merging", "done",
       "scanned", "bulkdelete", "committed", "deleted"}

\* Types of the variables, with every transaction id below the next one that
\* GetCurrentTransactionId will hand out.
TypeOK ==
  /\ nextXid \in BuildXid + 1 .. MaxXid + 1
  /\ latestCompleted \in Nat /\ latestCompleted < nextXid
  /\ xid \in [Proc -> Xid] /\ \A p \in Proc : xid[p] < nextXid
  /\ snap \in [Proc -> Snapshot]
  /\ list \subseteq SegId
  /\ entry \in [SegId -> Entry]
  /\ nextSeg \in 1..MaxSeg + 1
  /\ holder \in Proc \cup {NoProc}
  /\ lastMerge \in Xid
  /\ numSegments \in Nat
  /\ pc \in [Proc -> PC]
  /\ base \in [Proc -> SUBSET SegId]
  /\ segs \in [Proc -> SUBSET SegId]
  /\ withDeletes \in [Proc -> SUBSET SegId]
  /\ cand \in [Proc -> SUBSET SegId]
  /\ inserter \in [Doc -> Xid]
  /\ nextDoc \in 1..MaxDoc + 1
  /\ dead \subseteq Doc
  /\ deadItems \in [Vacuums -> SUBSET Doc]
  /\ passes \in [Vacuums -> Nat]
  /\ vacuumed \subseteq Doc

\* The views of the index that exist or could be taken now: the snapshots in
\* use by statements, and the snapshot a new transaction would get.
Views ==
  {<<snap[p], xid[p]>> : p \in {q \in Inserters \cup Readers : HasSnapshot(q)}}
    \cup {<<GetSnapshotData, InvalidXid>>}

\* The segments in which a view finds document d.
FoundIn(v, d) == {s \in list : Visible(entry[s], v[1], v[2]) /\ d \in Alive(entry[s])}

SeesInsertOf(v, d) ==
  /\ inserter[d] # InvalidXid
  /\ IsCurrent(inserter[d], v[2]) \/ ~XidInMVCCSnapshot(inserter[d], v[1])

\* Whatever merges, vacuums and garbage collections did, every view finds
\* every document whose insertion it sees, unless its heap tuple is dead.
NothingLost ==
  \A v \in Views, d \in Doc \ dead : SeesInsertOf(v, d) => FoundIn(v, d) # {}

\* No view finds a document twice: a merge replaces its sources for exactly
\* the snapshots that see the merged segment.
NoDuplicates ==
  \A v \in Views, d \in Doc \ dead : Cardinality(FoundIn(v, d)) <= 1

\* Once ambulkdelete has returned, a ctid it was asked to delete is found, if
\* at all, in a segment that VACUUM retired as a whole and by views that do
\* not see the VACUUM; merges that began before it do not bring the ctid back.
VacuumedStayGone ==
  \A v \in Views, d \in vacuumed : \A s \in FoundIn(v, d) :
    entry[s].xmax # InvalidXid /\ Alive(entry[s]) \subseteq vacuumed

\* The segments a statement opened stay in the list, where directory_lookup
\* finds their files, until it closes the index: garbage collection by a
\* concurrent merge does not take them away.
OpenSegmentsKept ==
  \A p \in Proc :
    pc[p] \in {"open", "saved", "merging", "bulkdelete"} => segs[p] \subseteq list

\* "Merges should only happen if there is no other merge in progress AND the
\* effects of the previous merge are visible": a merge never works on a
\* segment that another merge has already replaced.
MergesSeePreviousMerge ==
  \A p \in Inserters : pc[p] = "merging" =>
     \A s \in cand[p] : s \in list /\ entry[s].xmax = InvalidXid

-----------------------------------------------------------------------------
(* The inductive invariant behind OpenSegmentsKept (SegmentMetasProofs).    *)

Backends == Inserters \cup Readers

OpenPC == {"open", "saved", "merging"}
BusyPC == {"started", "open", "saved", "merging", "done"}

\* Program counters by kind of process; merging and bulk deletion happen
\* under the merge lock.
LockInv ==
  /\ \A p \in Backends : pc[p] \in BusyPC \cup {"idle"}
  /\ \A v \in Vacuums : pc[v] \in {"idle", "scanned", "bulkdelete", "committed", "deleted"}
  /\ \A p \in Backends : pc[p] = "merging" => holder = p
  /\ \A v \in Vacuums : pc[v] \in {"bulkdelete", "committed"} => holder = v

\* A busy statement has a snapshot, and every snapshot in use considers every
\* running transaction running.
SnapshotInv ==
  /\ \A p \in Backends : pc[p] \in BusyPC => HasSnapshot(p)
  /\ \A p \in Backends : HasSnapshot(p) => snap[p].xmax <= nextXid
  /\ \A p, q \in Backends : HasSnapshot(p) /\ xid[q] # InvalidXid =>
                               XidInMVCCSnapshot(xid[q], snap[p])

\* A VACUUM that makes one ambulkdelete call has no transaction id before it
\* saves the deletions.
VacuumXidInv ==
  \A v \in Vacuums :
    /\ pc[v] \in {"idle", "scanned", "bulkdelete"} => xid[v] = InvalidXid
    /\ pc[v] # "idle" => passes[v] >= 1

\* The segments of an open index are in the list, and whoever replaced one
\* of them is a transaction the statement's snapshot considers running.
OpenSegmentsInv ==
  /\ \A p \in Backends : pc[p] \in OpenPC =>
       \A s \in segs[p] :
         /\ s \in list
         /\ \/ entry[s].xmax = InvalidXid
            \/ XidInMVCCSnapshot(entry[s].xmax, snap[p])
  /\ \A v \in Vacuums : pc[v] = "bulkdelete" => segs[v] \subseteq list

KeepInv == LockInv /\ SnapshotInv /\ VacuumXidInv /\ OpenSegmentsInv

-----------------------------------------------------------------------------
(* The inductive invariants behind NothingLost and, without VACUUM,         *)
(* MergesSeePreviousMerge and NoDuplicates (SegmentMetasProofs).            *)

\* p's transaction sees what x did.
VisibleXid(x, p) == IsCurrent(x, xid[p]) \/ ~XidInMVCCSnapshot(x, snap[p])

\* A view, now or later, as the set V of the ids it sees: the view of a snapshot
\* in use, or one that sees at least what has ended.  No step adds a view.
ViewSet(V) ==
  \/ \A y \in Xid \ {InvalidXid} : y <= latestCompleted /\ y \notin RunningXids => y \in V
  \/ \E p \in Backends : /\ HasSnapshot(p)
                         /\ \A y \in Xid \ {InvalidXid} : y < nextXid => (y \in V <=> VisibleXid(y, p))

Seen(V, e) == e.xmin \in V /\ ~(e.xmax # InvalidXid /\ e.xmax \in V)

\* Ids start after the build's; snapshots are taken of what has completed.
HistoryInv ==
  /\ latestCompleted >= BuildXid
  /\ \A p \in Backends : xid[p] # InvalidXid => xid[p] > BuildXid
  /\ \A p, q \in Backends : xid[p] # InvalidXid /\ xid[p] = xid[q] => p = q
  /\ \A p \in Backends : HasSnapshot(p) =>
       /\ snap[p].xmax > BuildXid /\ snap[p].xmax <= latestCompleted + 1
       /\ \A y \in snap[p].xip : y > BuildXid

\* Fresh segment ids are fresh; VACUUM deletes dead tuples only.
FreshInv ==
  /\ \A s \in list : s < nextSeg
  /\ \A p \in Proc : \A s \in segs[p] \cup cand[p] : s < nextSeg
  /\ \A v \in Vacuums : deadItems[v] \subseteq dead

\* NothingLost, of every view.
FoundInv ==
  \A V \in SUBSET Xid : ViewSet(V) =>
    \A d \in Doc \ dead : inserter[d] # InvalidXid /\ inserter[d] \in V =>
      \E s \in list : d \in Alive(entry[s]) /\ Seen(V, entry[s])

LossInv == HistoryInv /\ FreshInv /\ FoundInv

\* Without VACUUM the merge lock is held by a merging statement, stamped with
\* its id.
MergeLockInv ==
  /\ \A p \in Proc : holder = p => /\ p \in Inserters /\ pc[p] \in {"merging", "done"}
                                   /\ lastMerge = xid[p]
  /\ \A p \in Inserters : pc[p] \in BusyPC => xid[p] # InvalidXid

EntriesInv ==
  /\ \A s \in SegId : entry[s].deleted = {}
  /\ \A s \in list : entry[s].xmin # InvalidXid /\ \A d \in entry[s].docs : d < nextDoc

\* A writer's segments are its own or from transactions it sees; it has not
\* replaced them itself, and nobody has replaced those it merges.
OwnSegmentsInv ==
  \A p \in Inserters : pc[p] \in OpenPC =>
    /\ \A s \in segs[p] : entry[s].xmax # xid[p] /\ VisibleXid(entry[s].xmin, p)
    /\ pc[p] = "merging" => /\ cand[p] \subseteq segs[p]
                            /\ \A s \in cand[p] : entry[s].xmax = InvalidXid

\* Whoever sees the last merge sees all merges before it.
ChainInv ==
  \A V \in SUBSET Xid : ViewSet(V) /\ (lastMerge = InvalidXid \/ lastMerge \in V) =>
    \A s \in list : entry[s].xmax # InvalidXid => entry[s].xmax \in V

\* NoDuplicates, of every view.
UniqueInv ==
  \A V \in SUBSET Xid : ViewSet(V) =>
    \A s, t \in list : Seen(V, entry[s]) /\ Seen(V, entry[t]) /\ s # t =>
      entry[s].docs \cap entry[t].docs = {}

MergeInv == MergeLockInv /\ EntriesInv /\ OwnSegmentsInv /\ ChainInv /\ UniqueInv

-----------------------------------------------------------------------------
(* The inductive invariant behind VacuumedStayGone (SegmentMetasProofs), for*)
(* one VACUUM at a time that calls ambulkdelete once.                       *)

\* What is deleted from the index once v's deletions are saved.
Purged(v) == vacuumed \cup deadItems[v]

\* Segment s was replaced, and no view, now or later, finds it.
Obsolete(s) == entry[s].xmax # InvalidXid /\ PrecedesHorizon(entry[s].xmax)

\* A VACUUM's id: in no snapshot's xip, so a snapshot sees it if its xmax is
\* above it.
NeverListed(x) ==
  /\ x # InvalidXid /\ x < nextXid /\ x \notin RunningXids
  /\ \A p \in Backends : x \notin snap[p].xip

\* A segment some view may find has nothing of G, or nothing else and was
\* retired by a VACUUM.
GoneFrom(G) ==
  \A s \in list :
    \/ Alive(entry[s]) \cap G = {} \/ Obsolete(s)
    \/ Alive(entry[s]) \subseteq G /\ NeverListed(entry[s].xmax)

Retired(G) == {s \in list : Alive(entry[s]) \cap G # {} /\ ~Obsolete(s)}

\* The heap: some rows are never deleted, so the index never gets empty.
DeadInv ==
  /\ \E d \in Doc : d \in Immortal /\ inserter[d] # InvalidXid
  /\ vacuumed \subseteq dead /\ dead \cap Immortal = {}
  /\ \A v \in Vacuums : deadItems[v] \cap vacuumed = {}
  /\ \A d \in Doc : d >= nextDoc => inserter[d] = InvalidXid /\ d \notin dead

\* Who has an id, a snapshot or the merge lock, and what it is stamped with.
StampInv ==
  /\ \A p \in Inserters : pc[p] \in BusyPC => xid[p] # InvalidXid
  /\ \A p \in Backends : holder = p => /\ p \in Inserters /\ pc[p] \in {"merging", "done"}
                                       /\ lastMerge = xid[p]
  /\ lastMerge < nextXid /\ \A p \in Backends : \A y \in snap[p].xip : y < nextXid
  /\ \A v \in Vacuums :
       /\ xid[v] # InvalidXid => NeverListed(xid[v])
       /\ pc[v] = "idle" => ~HasSnapshot(v)
       /\ pc[v] = "scanned" => snap[v].xmax > BuildXid /\ \A y \in snap[v].xip : y > BuildXid

\* What v has loaded and will purge, and what it has purged.
PurgeInv ==
  \A v \in Vacuums :
    /\ pc[v] = "scanned" =>
         \A s \in list : \/ Alive(entry[s]) \cap vacuumed = {} \/ Alive(entry[s]) \subseteq vacuumed
                         \/ ~XidInMVCCSnapshot(entry[s].xmax, snap[v])
    /\ pc[v] = "bulkdelete" =>
         /\ \E s \in segs[v] : Alive(entry[s]) \cap Immortal # {}
         /\ \A s \in segs[v] : \/ Alive(entry[s]) \cap vacuumed = {}
                               \/ Alive(entry[s]) \subseteq vacuumed
         /\ \A s \in list \ segs[v] : Obsolete(s) \/ entry[s].docs \cap Purged(v) = {}
    /\ pc[v] = "committed" =>
         /\ GoneFrom(Purged(v))
         /\ xid[v] # InvalidXid => \A s \in Retired(Purged(v)) : entry[s].xmax <= xid[v]

\* Whoever sees the last merge or VACUUM sees that retired segments are.
RetiredInv ==
  \A s \in Retired(vacuumed) :
    /\ \A p \in Backends : HasSnapshot(p) /\ LastMergeVisible(p) => entry[s].xmax < snap[p].xmax
    /\ \/ entry[s].xmax <= latestCompleted
       \/ entry[s].xmax <= lastMerge /\ lastMerge \notin RunningXids

ReadsNone(p, S, G) == \A s \in S : MergeReads(p, s) \cap G = {}

\* A writer that may merge does not read what VACUUM has deleted.
ReadInv ==
  \A p \in Inserters :
    /\ pc[p] \in {"open", "saved"} =>
         /\ LastMergeVisible(p) => ReadsNone(p, segs[p], vacuumed)
         /\ \A v \in Vacuums :
              pc[v] = "committed" /\ xid[v] # InvalidXid /\ ~XidInMVCCSnapshot(xid[v], snap[p])
                => ReadsNone(p, segs[p], Purged(v))
    /\ pc[p] = "merging" => cand[p] \subseteq segs[p] /\ ReadsNone(p, cand[p], vacuumed)

GoneInv == DeadInv /\ StampInv /\ GoneFrom(vacuumed) /\ PurgeInv /\ RetiredInv /\ ReadInv
=============================================================================
