---------------------------- MODULE BlockStorage ----------------------------
(***************************************************************************)
(* The blocks of a bm25 index and who uses them (storage/utils.rs,         *)
(* storage/buffer.rs, postgres/vacuum.rs; create, write and mark_deleted   *)
(* of storage/linked_bytes.rs).                                            *)
(*                                                                         *)
(* A statement opens the files its snapshot sees, creates files, whose     *)
(* blocks come from the free space map or from extending the relation, and *)
(* marks the blocks of files it replaces deleted, with the next            *)
(* transaction id.  VACUUM's amvacuumcleanup looks at every block and      *)
(* returns the recyclable ones to the free space map.                      *)
(***************************************************************************)
EXTENDS Naturals, FiniteSets

CONSTANTS
  Writers,       \* backends running statements that write, one after the other
  Readers,       \* backends running one statement that only reads
  StartBlocks,   \* number of blocks in use at Init
  MaxBlocks,     \* bound on the size of the relation
  MaxXid,        \* bound on transaction ids
  MaxCreates,    \* bound on the lists created or grown
  MaxVacuums     \* bound on amvacuumcleanup calls

Statements == Writers \cup Readers
Block  == 1..MaxBlocks
Xid    == 1..MaxXid
NoXid  == 0               \* InvalidTransactionId
Nobody == "nobody"
Vacuum == "vacuum"

ASSUME StorageAssumption ==
  /\ IsFiniteSet(Statements) /\ Writers \cap Readers = {}
  /\ {Nobody, Vacuum} \cap Statements = {}
  /\ MaxBlocks \in Nat /\ StartBlocks \in 1..MaxBlocks
  /\ MaxXid \in Nat \ {0} /\ MaxVacuums \in Nat /\ MaxCreates \in Nat

VARIABLES
  nblocks,    \* the size of the relation
  page,       \* page[b]: "new" (all zeros) or "init"
  xmax,       \* xmax[b]: BM25PageSpecialData.xmax
  fsm,        \* the blocks in the free space map
  lock,       \* lock[b]: who has b exclusively locked
  extension,  \* who holds the relation's extension lock
  pc, hand,   \* where a statement is, and the block it looks at
  held,       \* held[s]: the buffers new_buffer returned to s, not yet initialised
  want,       \* want[s]: how many buffers s needs before it initialises them
  xid, snap,  \* the transaction and the snapshot of a statement, or VACUUM
  nextXid, completed,      \* next id to be assigned, latest completed id
  uses,       \* uses[b]: the files b was put into since it was last freed
  madeBy, goneBy,          \* the transactions that created and replaced b's file
  inits,      \* inits[b]: how often b was initialised
  creates,    \* how many lists were created or grown
  open,       \* open[s]: the blocks of the files s has open, with their inits
  scan, limit, vacuums,    \* amvacuumcleanup: next block, nblocks, calls so far
  early       \* the blocks recorded as free between extension and lock

pageVars  == <<nblocks, page, xmax, inits>>
fileVars  == <<uses, madeBy, goneBy>>
xactVars  == <<xid, nextXid, completed>>
allocVars == <<hand, held, want, extension>>
vacVars   == <<scan, limit, vacuums, early>>
vars == <<pageVars, fileVars, xactVars, allocVars, vacVars, fsm, lock, pc, snap, open, creates>>

NoSnapshot == [xmax |-> 0, running |-> {}]

Init ==
  /\ nblocks = StartBlocks /\ fsm = {}
  /\ page = [b \in Block |-> IF b <= nblocks THEN "init" ELSE "new"]
  /\ xmax = [b \in Block |-> NoXid]
  /\ lock = [b \in Block |-> Nobody] /\ extension = Nobody
  /\ pc = [s \in Statements |-> "idle"]
  /\ hand = [s \in Statements |-> 0]
  /\ held = [s \in Statements |-> {}]
  /\ want = [s \in Statements |-> 0]
  /\ xid = [s \in Statements |-> NoXid]
  /\ snap = [s \in Statements \cup {Vacuum} |-> NoSnapshot]
  /\ nextXid = 1 /\ completed = 0
  /\ uses = [b \in Block |-> IF b <= nblocks THEN 1 ELSE 0]
  /\ madeBy = [b \in Block |-> NoXid] /\ goneBy = [b \in Block |-> NoXid]
  /\ inits = [b \in Block |-> IF b <= nblocks THEN 1 ELSE 0]
  /\ open = [s \in Statements |-> {}] /\ creates = 0
  /\ scan = 0 /\ limit = 0 /\ vacuums = 0 /\ early = {}

-----------------------------------------------------------------------------
(* Snapshots and the removal horizon                                        *)

Active == {s \in Statements : pc[s] \notin {"idle", "done"}}

GetSnapshotData == [xmax |-> completed + 1, running |-> {xid[s] : s \in Active} \ {NoXid}]

XidInMVCCSnapshot(x, sn) == x >= sn.xmax \/ x \in sn.running

\* The ids a snapshot, or a running transaction, keeps from being removable.
\* VACUUM's own snapshot holds nothing back.
GlobalVisCheckRemovableXid(x) ==
  /\ x <= completed
  /\ \A s \in Active : /\ x < snap[s].xmax
                       /\ \A r \in (snap[s].running \cup {xid[s]}) \ {NoXid} : x < r

\* Mutant of Recyclable: the pages that are not deleted are not left out.
RecyclableLive(b, p) ==
  \/ page[b] = "new"
  \/ ~XidInMVCCSnapshot(xmax[b], snap[p]) /\ GlobalVisCheckRemovableXid(xmax[b])

\* Mutant of Recyclable: what the own snapshot sees as ended is removable.
RecyclableForMe(b, p) ==
  \/ page[b] = "new"
  \/ xmax[b] # NoXid /\ ~XidInMVCCSnapshot(xmax[b], snap[p])

\* BM25Page::recyclable
Recyclable(b, p) ==
  \/ page[b] = "new"
  \/ /\ xmax[b] # NoXid
     /\ ~XidInMVCCSnapshot(xmax[b], snap[p])
     /\ GlobalVisCheckRemovableXid(xmax[b])

-----------------------------------------------------------------------------
(* Statements                                                               *)

Begin(s) ==
  /\ pc[s] = "idle" /\ nextXid < MaxXid
  /\ pc' = [pc EXCEPT ![s] = "run"]
  /\ snap' = [snap EXCEPT ![s] = GetSnapshotData]
  /\ IF s \in Writers
     THEN xid' = [xid EXCEPT ![s] = nextXid] /\ nextXid' = nextXid + 1
     ELSE UNCHANGED <<xid, nextXid>>
  /\ UNCHANGED <<pageVars, fileVars, completed, allocVars, vacVars, fsm, lock, open, creates>>

\* The files of the entries a snapshot sees; they include files that were
\* replaced, and whose blocks are marked deleted, by a transaction the snapshot
\* considers running.
Sees(s, b) ==
  /\ uses[b] # 0
  /\ madeBy[b] = xid[s] \/ ~XidInMVCCSnapshot(madeBy[b], snap[s])
  /\ goneBy[b] = NoXid \/ (goneBy[b] # xid[s] /\ XidInMVCCSnapshot(goneBy[b], snap[s]))

OpenFiles(s) ==
  /\ pc[s] = "run" /\ s \in Readers /\ open[s] = {}
  /\ open' = [open EXCEPT ![s] = {<<b, inits[b]>> : b \in {c \in Block : Sees(s, c)}}]
  /\ UNCHANGED <<pageVars, fileVars, xactVars, allocVars, vacVars, fsm, lock, pc, snap, creates>>

\* PageMut::mark_deleted on a block of a file that is replaced.
MarkDeleted(s, b) ==
  /\ pc[s] = "run" /\ s \in Writers /\ lock[b] = Nobody
  /\ Sees(s, b) /\ goneBy[b] = NoXid
  /\ xmax' = [xmax EXCEPT ![b] = nextXid]
  /\ goneBy' = [goneBy EXCEPT ![b] = xid[s]]
  /\ UNCHANGED <<nblocks, page, inits, uses, madeBy, xactVars, allocVars, vacVars, fsm, lock, pc, snap, open, creates>>

EndTransaction(s) ==
  /\ pc' = [pc EXCEPT ![s] = IF s \in Writers THEN "idle" ELSE "done"]
  /\ open' = [open EXCEPT ![s] = {}]
  /\ snap' = [snap EXCEPT ![s] = NoSnapshot]
  /\ xid' = [xid EXCEPT ![s] = NoXid]
  /\ completed' = IF xid[s] > completed THEN xid[s] ELSE completed
  /\ UNCHANGED nextXid

End(s) ==
  /\ pc[s] = "run"
  /\ EndTransaction(s)
  /\ UNCHANGED <<pageVars, fileVars, allocVars, vacVars, fsm, lock, creates>>

-----------------------------------------------------------------------------
(* new_buffer                                                               *)

\* A new list needs a header and a start page (create); a list that grows
\* needs one page (write, add_items).
NeedBuffers(s, n) ==
  /\ pc[s] = "run" /\ s \in Writers /\ creates < MaxCreates
  /\ creates' = creates + 1
  /\ pc' = [pc EXCEPT ![s] = "alloc"]
  /\ want' = [want EXCEPT ![s] = n]
  /\ UNCHANGED <<pageVars, fileVars, xactVars, hand, held, extension, vacVars, fsm, lock, snap, open>>

\* GetFreeIndexPage takes the block out of the free space map.
GetFreeIndexPage(s) ==
  /\ pc[s] = "alloc" /\ Cardinality(held[s]) < want[s]
  /\ \/ \E b \in fsm :
          /\ fsm' = fsm \ {b}
          /\ hand' = [hand EXCEPT ![s] = b]
          /\ pc' = [pc EXCEPT ![s] = "try"]
     \/ /\ fsm = {} /\ UNCHANGED <<fsm, hand>>
        /\ pc' = [pc EXCEPT ![s] = "extend"]
  /\ UNCHANGED <<pageVars, fileVars, xactVars, held, want, extension, vacVars, lock, snap, open, creates>>

Take(s, b) ==
  /\ lock' = [lock EXCEPT ![b] = s]
  /\ held' = [held EXCEPT ![s] = @ \cup {b}]
  /\ hand' = [hand EXCEPT ![s] = 0]
  /\ pc' = [pc EXCEPT ![s] = "alloc"]

\* ConditionalLockBuffer, and the look at the page under the lock.
TryRecyclable(s) ==
  LET b == hand[s] IN
  /\ pc[s] = "try"
  /\ IF lock[b] = Nobody /\ Recyclable(b, s)
     THEN Take(s, b)
     ELSE /\ pc' = [pc EXCEPT ![s] = "alloc"]
          /\ hand' = [hand EXCEPT ![s] = 0]
          /\ UNCHANGED <<lock, held>>
  /\ UNCHANGED <<pageVars, fileVars, xactVars, want, extension, vacVars, fsm, snap, open, creates>>

\* LockRelationForExtension, ReadBufferExtended(P_NEW): the relation is one
\* block longer, and the block is not locked yet.
Extend(s) ==
  /\ pc[s] = "extend" /\ extension = Nobody /\ nblocks < MaxBlocks
  /\ extension' = s
  /\ nblocks' = nblocks + 1
  /\ hand' = [hand EXCEPT ![s] = nblocks + 1]
  /\ pc' = [pc EXCEPT ![s] = "extended"]
  /\ UNCHANGED <<page, xmax, inits, fileVars, xactVars, held, want, vacVars, fsm, lock, snap, open, creates>>

\* LockBuffer, UnlockRelationForExtension.
LockExtended(s) ==
  /\ pc[s] = "extended" /\ lock[hand[s]] = Nobody
  /\ Take(s, hand[s])
  /\ extension' = Nobody
  /\ UNCHANGED <<pageVars, fileVars, xactVars, want, vacVars, fsm, snap, open, creates>>

\* init_page on the buffers, which are then in a file, and dropped.
InitPages(s) ==
  LET B == held[s] IN
  /\ pc[s] = "alloc" /\ Cardinality(B) = want[s]
  /\ page' = [b \in Block |-> IF b \in B THEN "init" ELSE page[b]]
  /\ xmax' = [b \in Block |-> IF b \in B THEN NoXid ELSE xmax[b]]
  /\ inits' = [b \in Block |-> IF b \in B THEN inits[b] + 1 ELSE inits[b]]
  /\ uses' = [b \in Block |-> IF b \notin B THEN uses[b]
                              ELSE IF goneBy[b] = NoXid THEN uses[b] + 1 ELSE 1]
  /\ madeBy' = [b \in Block |-> IF b \in B THEN xid[s] ELSE madeBy[b]]
  /\ goneBy' = [b \in Block |-> IF b \in B THEN NoXid ELSE goneBy[b]]
  /\ lock' = [b \in Block |-> IF b \in B THEN Nobody ELSE lock[b]]
  /\ held' = [held EXCEPT ![s] = {}]
  /\ want' = [want EXCEPT ![s] = 0]
  /\ pc' = [pc EXCEPT ![s] = "run"]
  /\ UNCHANGED <<nblocks, xactVars, hand, extension, vacVars, fsm, snap, open, creates>>

\* Mutant of Fail: create initialises the header before it asks for the start
\* page.
FailInitialised(s) ==
  /\ pc[s] = "extend"
  /\ page' = [b \in Block |-> IF b \in held[s] THEN "init" ELSE page[b]]
  /\ xmax' = [b \in Block |-> IF b \in held[s] THEN NoXid ELSE xmax[b]]
  /\ lock' = [b \in Block |-> IF lock[b] = s THEN Nobody ELSE lock[b]]
  /\ held' = [held EXCEPT ![s] = {}]
  /\ hand' = [hand EXCEPT ![s] = 0]
  /\ want' = [want EXCEPT ![s] = 0]
  /\ EndTransaction(s)
  /\ UNCHANGED <<nblocks, inits, fileVars, extension, vacVars, fsm, creates>>

\* An ERROR in new_buffer (the relation cannot be extended): the locks go, the
\* buffers stay as they are.
Fail(s) ==
  /\ pc[s] = "extend"
  /\ lock' = [b \in Block |-> IF lock[b] = s THEN Nobody ELSE lock[b]]
  /\ held' = [held EXCEPT ![s] = {}]
  /\ hand' = [hand EXCEPT ![s] = 0]
  /\ want' = [want EXCEPT ![s] = 0]
  /\ EndTransaction(s)
  /\ UNCHANGED <<pageVars, fileVars, extension, vacVars, fsm, creates>>

-----------------------------------------------------------------------------
(* amvacuumcleanup                                                          *)

BeginCleanup ==
  /\ scan = 0 /\ vacuums < MaxVacuums
  /\ scan' = 1 /\ limit' = nblocks /\ vacuums' = vacuums + 1
  /\ snap' = [snap EXCEPT ![Vacuum] = GetSnapshotData]
  /\ UNCHANGED <<pageVars, fileVars, xactVars, allocVars, early, fsm, lock, pc, open, creates>>

\* A share lock on the block, the look at it, and record_free_index_page.
CleanupBlock ==
  /\ scan \in 1..limit /\ lock[scan] = Nobody
  /\ LET free == Recyclable(scan, Vacuum) IN
     /\ fsm' = IF free THEN fsm \cup {scan} ELSE fsm
     /\ early' = IF free /\ \E s \in Statements : pc[s] = "extended" /\ hand[s] = scan
                 THEN early \cup {scan} ELSE early
  /\ IF scan < limit
     THEN scan' = scan + 1 /\ UNCHANGED <<limit, snap>>
     ELSE scan' = 0 /\ limit' = 0 /\ snap' = [snap EXCEPT ![Vacuum] = NoSnapshot]
  /\ UNCHANGED <<pageVars, fileVars, xactVars, allocVars, vacuums, lock, pc, open, creates>>

-----------------------------------------------------------------------------
NewBuffer(s) ==
  GetFreeIndexPage(s) \/ TryRecyclable(s) \/ Extend(s) \/ LockExtended(s) \/ InitPages(s)

Statement(s) ==
  \/ Begin(s) \/ OpenFiles(s) \/ End(s) \/ Fail(s) \/ NewBuffer(s)
  \/ \E b \in Block : MarkDeleted(s, b)
  \/ \E n \in 1..2 : NeedBuffers(s, n)

Next == (\E s \in Statements : Statement(s)) \/ BeginCleanup \/ CleanupBlock

Spec == Init /\ [][Next]_vars

-----------------------------------------------------------------------------
(* Properties                                                               *)

\* Types of the variables.  No block past the end is in the free space map or
\* in use, and a lock is held by the statement that has the buffer.
TypeOK ==
  /\ nblocks \in 0..MaxBlocks /\ fsm \subseteq 1..nblocks
  /\ page \in [Block -> {"new", "init"}] /\ xmax \in [Block -> 0..MaxXid]
  /\ uses \in [Block -> Nat] /\ inits \in [Block -> Nat]
  /\ madeBy \in [Block -> 0..MaxXid] /\ goneBy \in [Block -> 0..MaxXid]
  /\ lock \in [Block -> Statements \cup {Nobody}] /\ extension \in Statements \cup {Nobody}
  /\ pc \in [Statements -> {"idle", "run", "alloc", "try", "extend", "extended", "done"}]
  /\ hand \in [Statements -> 0..nblocks] /\ held \in [Statements -> SUBSET (1..nblocks)]
  /\ \A b \in Block, s \in Statements : lock[b] = s <=> b \in held[s]
  /\ nextXid \in Xid /\ completed \in 0..MaxXid /\ xid \in [Statements -> 0..MaxXid]
  /\ snap \in [Statements \cup {Vacuum} -> [xmax : 0..MaxXid, running : SUBSET Xid]]
  /\ open \in [Statements -> SUBSET (Block \X Nat)]
  /\ scan \in 0..MaxBlocks /\ limit \in 0..nblocks /\ early \subseteq Block

\* A block is in at most one file, although the free space map is only a hint
\* that VACUUM, statements that recycle, and statements that fail all write to.
\* (For a block VACUUM recorded between its extension and its lock, the code
\* does not guarantee this: see early.)
OneOwner == \A b \in Block \ early : uses[b] <= 1

\* No block of a file a statement has open is used again before the statement
\* ends, although mark_deleted does not wait for readers and a statement may
\* open a file whose blocks are marked deleted already.
OpenPagesKept == \A s \in Statements : \A o \in open[s] : o[1] \in early \/ inits[o[1]] = o[2]

\* No block leaks: one that is in no file, or whose file was replaced, is new or
\* marked deleted with an id that has been or is about to be assigned, so that a
\* later VACUUM returns it to the free space map.  A statement that fails after
\* new_buffer gave it a header, possibly the only mention of the block left,
\* must not have initialised it (create).
NoBlockLeaks ==
  \A b \in 1..nblocks :
    uses[b] = 0 \/ goneBy[b] # NoXid => page[b] = "new" \/ xmax[b] \in 1..nextXid

-----------------------------------------------------------------------------
(* The inductive invariant behind the three properties.                     *)

\* Ids are assigned and snapshots taken in order; writers have ids.
XactInv ==
  /\ completed < nextXid
  /\ \A s \in Statements : xid[s] < nextXid /\ snap[s].xmax <= nextXid
  /\ \A s \in Writers : pc[s] # "idle" => xid[s] # NoXid
  /\ \A s \in Readers : xid[s] = NoXid

\* What a page says of the file it is in: none while it is new; it is marked
\* deleted if its file was replaced, by an older transaction.
PageInv ==
  /\ \A b \in Block : b > nblocks => page[b] = "new"
  /\ \A b \in Block : page[b] = "new" <=> uses[b] = 0
  /\ \A b \in Block : xmax[b] # NoXid => goneBy[b] # NoXid /\ xmax[b] > goneBy[b]
  /\ \A b \in Block : goneBy[b] # NoXid => xmax[b] \in 1..nextXid

\* The block a statement looks at.  One by which it extended the relation is
\* nobody else's, unless VACUUM recorded it before it was locked.
HandInv ==
  /\ \A s \in Statements : pc[s] \in {"try", "extended"} => hand[s] # 0
  /\ \A s \in Statements : pc[s] = "extended" /\ hand[s] \notin early =>
       /\ page[hand[s]] = "new" /\ lock[hand[s]] = Nobody /\ hand[s] \notin fsm
       /\ \A t \in Statements : t # s => hand[t] # hand[s]

\* A buffer new_buffer returned is in no file, or in one nobody can open.
HeldInv ==
  \A s \in Statements : \A b \in held[s] \ early :
    uses[b] = 0 \/ (xmax[b] # NoXid /\ GlobalVisCheckRemovableXid(xmax[b]))

\* A block a statement has open is not being initialised, and if it is marked
\* deleted the statement's snapshot keeps it from being recycled.
KeptOpen(s, b) ==
  /\ page[b] = "init" /\ lock[b] = Nobody
  /\ \/ xmax[b] = NoXid \/ xmax[b] >= snap[s].xmax
     \/ \E r \in snap[s].running : xmax[b] >= r

OpenInv ==
  \A s \in Statements :
    /\ open[s] # {} => s \in Readers /\ pc[s] = "run"
    /\ \A o \in open[s] : o[1] \in early \/ (inits[o[1]] = o[2] /\ KeptOpen(s, o[1]))

StorageInv == TypeOK /\ XactInv /\ PageInv /\ HandInv /\ HeldInv /\ OpenInv /\ OneOwner
=============================================================================
