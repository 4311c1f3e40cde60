------------------------ MODULE BlockStorageProofs ------------------------
(***************************************************************************)
(* OneOwner, OpenPagesKept and NoBlockLeaks for any number of              *)
(* statements, blocks, transactions and VACUUMs.                           *)
(*                                                                         *)
(* One lemma for each part of StorageInv shows that a step preserves it.   *)
(* The parts rest on RemovableStable: once an id is removable it stays so, *)
(* so what Recyclable found under the buffer lock still holds when the     *)
(* page is initialised, some steps later.                                  *)
(***************************************************************************)
EXTENDS BlockStorage, TLAPS

USE DEF NoXid

LEMMA ConstantTypes ==
  /\ MaxBlocks \in Nat /\ StartBlocks \in Nat /\ StartBlocks \in 1..MaxBlocks
  /\ MaxXid \in Nat /\ MaxXid # 0
  /\ Nobody \notin Statements /\ Vacuum \notin Statements
BY StorageAssumption

LEMMA InitStorage == Init => StorageInv
<1> SUFFICES ASSUME Init PROVE StorageInv
  OBVIOUS
<1> USE ConstantTypes
<1>1. TypeOK
  BY DEF Init, TypeOK, Block, Xid, NoSnapshot
<1>2. XactInv
  BY DEF Init, XactInv, NoSnapshot, Statements
<1>3. PageInv
  BY DEF Init, PageInv, Block
<1>4. HandInv
  BY DEF Init, HandInv
<1>5. HeldInv /\ OpenInv /\ OneOwner
  BY DEF Init, HeldInv, OpenInv, OneOwner
<1> QED BY <1>1, <1>2, <1>3, <1>4, <1>5 DEF StorageInv

-----------------------------------------------------------------------------
(* Transactions, snapshots and the removal horizon                          *)

\* A snapshot taken now has the type of a snapshot, and its ids are the ids
\* of running transactions.
LEMMA SnapshotType ==
  ASSUME TypeOK, XactInv
  PROVE  /\ GetSnapshotData \in [xmax : 0..MaxXid, running : SUBSET Xid]
         /\ GetSnapshotData.xmax = completed + 1 /\ completed + 1 <= nextXid
         /\ \A r \in GetSnapshotData.running : \E s \in Active : r = xid[s] /\ r # NoXid
<1>1. completed + 1 <= nextXid /\ completed + 1 \in 0..MaxXid
  BY ConstantTypes DEF TypeOK, XactInv, Xid
<1>2. {xid[s] : s \in Active} \ {NoXid} \in SUBSET Xid
  BY ConstantTypes DEF TypeOK, Xid, Active
<1> QED BY <1>1, <1>2 DEF GetSnapshotData

\* The steps that begin or end no transaction.
SameTransactions == UNCHANGED <<xid, nextXid, completed>> /\ Active' = Active
                    /\ \A s \in Statements : snap'[s] = snap[s]

\* A step begins a statement, ends one, or does neither.
LEMMA XactStep ==
  ASSUME TypeOK, [Next]_vars
  PROVE  \/ \E s \in Statements : Begin(s)
         \/ \E s \in Statements : EndTransaction(s)
         \/ SameTransactions /\ \A s \in Writers : pc'[s] = "idle" <=> pc[s] = "idle"
<1> USE DEF SameTransactions, Active
<1>1. ASSUME NEW s \in Statements, OpenFiles(s) \/ \E b \in Block : MarkDeleted(s, b)
      PROVE  SameTransactions /\ pc' = pc
  BY <1>1 DEF OpenFiles, MarkDeleted, xactVars
<1>2. ASSUME NEW s \in Statements, (\E n \in 1..2 : NeedBuffers(s, n)) \/ NewBuffer(s)
      PROVE  SameTransactions /\ \A t \in Writers : pc'[t] = "idle" <=> pc[t] = "idle"
  <2>1. UNCHANGED <<xid, nextXid, completed, snap>>
    BY <1>2 DEF NeedBuffers, NewBuffer, GetFreeIndexPage, TryRecyclable, Extend, LockExtended,
       InitPages, xactVars
  <2>2. \E v \in {"run", "alloc", "try", "extend", "extended"} :
          pc[s] \in {"run", "alloc", "try", "extend", "extended"} /\ pc' = [pc EXCEPT ![s] = v]
    BY <1>2 DEF NeedBuffers, NewBuffer, GetFreeIndexPage, TryRecyclable, Extend, LockExtended,
       InitPages, Take
  <2>3. \A t \in Statements : (pc'[t] \in {"idle", "done"} <=> pc[t] \in {"idle", "done"})
                              /\ (pc'[t] = "idle" <=> pc[t] = "idle")
    BY <2>2 DEF TypeOK
  <2> QED BY <2>1, <2>3 DEF Statements
<1>3. ASSUME BeginCleanup \/ CleanupBlock \/ UNCHANGED vars PROVE SameTransactions /\ pc' = pc
  BY <1>3, ConstantTypes DEF BeginCleanup, CleanupBlock, vars, xactVars, TypeOK
<1> QED BY <1>1, <1>2, <1>3 DEF Next, Statement, End, Fail

\* What was removable is removable for ever: snapshots taken later see it as
\* ended, ids assigned later are younger.
LEMMA RemovableStable ==
  ASSUME TypeOK, XactInv, [Next]_vars,
         NEW x \in 0..MaxXid, GlobalVisCheckRemovableXid(x)
  PROVE  GlobalVisCheckRemovableXid(x)'
<1> USE ConstantTypes
<1>0. /\ completed \in Nat /\ nextXid \in Nat /\ completed < nextXid
      /\ x \in Nat /\ x <= completed
  BY DEF TypeOK, XactInv, Xid, GlobalVisCheckRemovableXid
<1>1. ASSUME NEW s \in Statements, Begin(s) PROVE GlobalVisCheckRemovableXid(x)'
  <2>1. /\ completed' = completed /\ snap' = [snap EXCEPT ![s] = GetSnapshotData]
        /\ pc' = [pc EXCEPT ![s] = "run"]
        /\ \A t \in Statements : t # s => xid'[t] = xid[t]
        /\ xid'[s] = xid[s] \/ xid'[s] = nextXid
    BY <1>1 DEF Begin, TypeOK
  <2>2. pc[s] = "idle" /\ (s \in Writers => xid'[s] = nextXid) /\ (s \notin Writers => xid'[s] = xid[s])
    BY <1>1 DEF Begin, TypeOK
  <2> SUFFICES ASSUME NEW t \in Active'
               PROVE  /\ x < snap'[t].xmax
                      /\ \A r \in (snap'[t].running \cup {xid'[t]}) \ {NoXid} : x < r
    BY <1>0, <2>1 DEF GlobalVisCheckRemovableXid
  <2>3. t \in Statements
    BY DEF Active
  <2>4. CASE t # s
    <3>1. t \in Active /\ snap'[t] = snap[t] /\ xid'[t] = xid[t]
      BY <2>1, <2>3, <2>4 DEF Active, TypeOK
    <3> QED BY <3>1 DEF GlobalVisCheckRemovableXid
  <2>5. CASE t = s
    <3>1. snap'[t] = GetSnapshotData
      BY <2>1, <2>5 DEF TypeOK
    <3>2. x < snap'[t].xmax
      BY <1>0, <3>1, SnapshotType
    <3>3. \A r \in snap'[t].running : x < r
      BY <3>1, SnapshotType DEF GlobalVisCheckRemovableXid
    <3>4. xid'[t] # NoXid => x < xid'[t]
      BY <1>0, <2>2, <2>5 DEF XactInv, Statements
    <3> QED BY <3>2, <3>3, <3>4
  <2> QED BY <2>4, <2>5
<1>2. ASSUME NEW s \in Statements, EndTransaction(s) PROVE GlobalVisCheckRemovableXid(x)'
  <2>1. completed' \in Nat /\ completed <= completed'
    BY <1>0, <1>2 DEF EndTransaction, TypeOK
  <2>2. \A t \in Active' : t \in Active /\ snap'[t] = snap[t] /\ xid'[t] = xid[t]
    BY <1>2 DEF EndTransaction, Active, TypeOK
  <2> QED BY <1>0, <2>1, <2>2 DEF GlobalVisCheckRemovableXid
<1>3. CASE SameTransactions
  <2>1. completed' = completed /\ \A t \in Active' : t \in Active /\ snap'[t] = snap[t] /\ xid'[t] = xid[t]
    BY <1>3 DEF SameTransactions, Active
  <2> QED BY <2>1 DEF GlobalVisCheckRemovableXid
<1> QED BY <1>1, <1>2, <1>3, XactStep

LEMMA NextXact == TypeOK /\ XactInv /\ [Next]_vars => XactInv'
<1> SUFFICES ASSUME TypeOK, XactInv, [Next]_vars PROVE XactInv'
  OBVIOUS
<1>0. /\ completed \in Nat /\ nextXid \in Nat \ {0} /\ completed < nextXid
      /\ \A s \in Statements : xid[s] \in Nat /\ xid[s] < nextXid /\ snap[s].xmax \in Nat /\ snap[s].xmax <= nextXid
      /\ \A s \in Writers \cup Readers : s \in Statements
  BY ConstantTypes DEF TypeOK, XactInv, Xid, Statements
<1>1. ASSUME NEW s \in Statements, Begin(s) PROVE XactInv'
  <2>1. /\ completed' = completed /\ snap' = [snap EXCEPT ![s] = GetSnapshotData]
        /\ pc' = [pc EXCEPT ![s] = "run"]
        /\ \A t \in Statements : t # s => xid'[t] = xid[t]
        /\ \/ s \in Writers /\ xid'[s] = nextXid /\ nextXid' = nextXid + 1
           \/ s \notin Writers /\ xid' = xid /\ nextXid' = nextXid
    BY <1>1 DEF Begin, TypeOK
  <2>2. nextXid <= nextXid' /\ nextXid' \in Nat
    BY <1>0, <2>1
  <2>3. \A t \in Statements : snap'[t].xmax <= nextXid'
    BY <1>0, <2>1, <2>2, SnapshotType DEF TypeOK
  <2>4. \A t \in Statements : xid'[t] < nextXid'
    BY <1>0, <2>1
  <2>5. /\ \A t \in Writers : pc'[t] # "idle" => xid'[t] # NoXid
        /\ \A t \in Readers : xid'[t] = NoXid
    BY <1>0, <2>1, StorageAssumption DEF XactInv, TypeOK, Statements
  <2> QED BY <1>0, <2>1, <2>2, <2>3, <2>4, <2>5 DEF XactInv
<1>2. ASSUME NEW s \in Statements, EndTransaction(s) PROVE XactInv'
  BY <1>0, <1>2 DEF EndTransaction, XactInv, TypeOK, NoSnapshot
<1>3. CASE SameTransactions /\ \A s \in Writers : pc'[s] = "idle" <=> pc[s] = "idle"
  BY <1>3 DEF SameTransactions, XactInv
<1> QED BY <1>1, <1>2, <1>3, XactStep

-----------------------------------------------------------------------------
(* Types                                                                    *)

\* Taking a buffer locks it and hands it to the statement: locks and buffers
\* stay in step.
LEMMA TakeType ==
  ASSUME TypeOK, NEW s \in Statements, NEW b \in 1..nblocks, lock[b] = Nobody, Take(s, b)
  PROVE  /\ lock' \in [Block -> Statements \cup {Nobody}]
         /\ held' \in [Statements -> SUBSET (1..nblocks)]
         /\ hand' \in [Statements -> 0..nblocks]
         /\ pc' \in [Statements -> {"idle", "run", "alloc", "try", "extend", "extended", "done"}]
         /\ \A c \in Block, t \in Statements : lock'[c] = t <=> c \in held'[t]
<1>1. nblocks \in Nat /\ b \in Block
  BY ConstantTypes DEF TypeOK, Block
<1>2. /\ lock' = [lock EXCEPT ![b] = s]
      /\ held' = [held EXCEPT ![s] = held[s] \cup {b}]
      /\ hand' = [hand EXCEPT ![s] = 0]
      /\ pc' = [pc EXCEPT ![s] = "alloc"]
  BY DEF Take
<1>3. /\ lock' \in [Block -> Statements \cup {Nobody}]
      /\ held' \in [Statements -> SUBSET (1..nblocks)]
      /\ hand' \in [Statements -> 0..nblocks]
      /\ pc' \in [Statements -> {"idle", "run", "alloc", "try", "extend", "extended", "done"}]
  BY <1>1, <1>2 DEF TypeOK
<1>4. \A c \in Block, t \in Statements : lock'[c] = t <=> c \in held'[t]
  <2> SUFFICES ASSUME NEW c \in Block, NEW t \in Statements PROVE lock'[c] = t <=> c \in held'[t]
    OBVIOUS
  <2>1. lock[c] = t <=> c \in held[t]
    BY DEF TypeOK
  <2>2. /\ held'[t] = IF t = s THEN held[s] \cup {b} ELSE held[t]
        /\ lock'[c] = IF c = b THEN s ELSE lock[c]
    BY <1>2 DEF TypeOK
  <2> QED BY <2>1, <2>2, ConstantTypes
<1> QED BY <1>3, <1>4

LEMMA NextTypes == TypeOK /\ XactInv /\ HandInv /\ [Next]_vars => TypeOK'
<1> SUFFICES ASSUME TypeOK, XactInv, HandInv, [Next]_vars PROVE TypeOK'
  OBVIOUS
<1> USE ConstantTypes
<1>0. nblocks \in Nat /\ nblocks <= MaxBlocks /\ nextXid \in Nat /\ nextXid \in 0..MaxXid
  BY DEF TypeOK, Xid
<1>1. ASSUME NEW s \in Statements, Begin(s) PROVE TypeOK'
  <2>1. UNCHANGED <<nblocks, page, xmax, inits, uses, madeBy, goneBy, completed, hand, held, extension,
                    scan, limit, early, fsm, lock, open>>
    BY <1>1 DEF Begin, pageVars, fileVars, allocVars, vacVars
  <2>2. pc' \in [Statements -> {"idle", "run", "alloc", "try", "extend", "extended", "done"}]
    BY <1>1 DEF Begin, TypeOK
  <2>3. snap' \in [Statements \cup {Vacuum} -> [xmax : 0..MaxXid, running : SUBSET Xid]]
    BY <1>1, SnapshotType DEF Begin, TypeOK
  <2>4. nextXid' \in Xid /\ xid' \in [Statements -> 0..MaxXid]
    <3>1. nextXid < MaxXid /\ nextXid + 1 \in Xid
      BY <1>0, <1>1 DEF Begin, TypeOK, Xid
    <3>2. \/ xid' = [xid EXCEPT ![s] = nextXid] /\ nextXid' = nextXid + 1
          \/ UNCHANGED <<xid, nextXid>>
      BY <1>1 DEF Begin
    <3> QED BY <1>0, <3>1, <3>2 DEF TypeOK
  <2> QED BY <2>1, <2>2, <2>3, <2>4 DEF TypeOK
<1>2. ASSUME NEW s \in Statements, OpenFiles(s) PROVE TypeOK'
  BY <1>2 DEF OpenFiles, TypeOK, pageVars, fileVars, allocVars, vacVars, xactVars
<1>3. ASSUME NEW s \in Statements, NEW b \in Block, MarkDeleted(s, b) PROVE TypeOK'
  BY <1>0, <1>3 DEF MarkDeleted, TypeOK, allocVars, vacVars, xactVars
<1>4. ASSUME NEW s \in Statements, EndTransaction(s)
      PROVE  /\ pc' \in [Statements -> {"idle", "run", "alloc", "try", "extend", "extended", "done"}]
             /\ open' \in [Statements -> SUBSET (Block \X Nat)]
             /\ snap' \in [Statements \cup {Vacuum} -> [xmax : 0..MaxXid, running : SUBSET Xid]]
             /\ xid' \in [Statements -> 0..MaxXid] /\ completed' \in 0..MaxXid /\ nextXid' \in Xid
  BY <1>0, <1>4 DEF EndTransaction, TypeOK, NoSnapshot
<1>5. ASSUME NEW s \in Statements, End(s) PROVE TypeOK'
  BY <1>4, <1>5 DEF End, TypeOK, pageVars, fileVars, allocVars, vacVars
<1>6. ASSUME NEW s \in Statements, NEW n \in 1..2, NeedBuffers(s, n) PROVE TypeOK'
  BY <1>6 DEF NeedBuffers, TypeOK, pageVars, fileVars, vacVars, xactVars
<1>7. ASSUME NEW s \in Statements, GetFreeIndexPage(s) PROVE TypeOK'
  <2>1. UNCHANGED <<nblocks, page, xmax, inits, uses, madeBy, goneBy, xid, nextXid, completed, held, extension,
                    scan, limit, early, lock, snap, open>>
    BY <1>7 DEF GetFreeIndexPage, pageVars, fileVars, xactVars, vacVars
  <2>2. fsm' \subseteq 1..nblocks /\ hand' \in [Statements -> 0..nblocks]
    <3>1. \/ \E b \in fsm : fsm' = fsm \ {b} /\ hand' = [hand EXCEPT ![s] = b]
          \/ UNCHANGED <<fsm, hand>>
      BY <1>7 DEF GetFreeIndexPage
    <3>2. fsm \subseteq 1..nblocks /\ 1..nblocks \subseteq 0..nblocks /\ hand \in [Statements -> 0..nblocks]
      BY <1>0 DEF TypeOK
    <3> QED BY <3>1, <3>2
  <2>3. pc' \in [Statements -> {"idle", "run", "alloc", "try", "extend", "extended", "done"}]
    BY <1>7 DEF GetFreeIndexPage, TypeOK
  <2> QED BY <2>1, <2>2, <2>3 DEF TypeOK
<1>8. ASSUME NEW s \in Statements, TryRecyclable(s) PROVE TypeOK'
  <2>1. UNCHANGED <<nblocks, page, xmax, inits, uses, madeBy, goneBy, xid, nextXid, completed, extension,
                    scan, limit, early, fsm, snap, open>>
    BY <1>8 DEF TryRecyclable, pageVars, fileVars, xactVars, vacVars
  <2>2. hand[s] \in 1..nblocks
    BY <1>0, <1>8 DEF TryRecyclable, TypeOK, HandInv
  <2>3. CASE lock[hand[s]] = Nobody /\ Recyclable(hand[s], s)
    <3>1. Take(s, hand[s])
      BY <1>8, <2>3 DEF TryRecyclable
    <3> QED BY <2>1, <2>2, <2>3, <3>1, TakeType DEF TypeOK
  <2>4. CASE ~(lock[hand[s]] = Nobody /\ Recyclable(hand[s], s))
    <3>1. /\ UNCHANGED <<lock, held>> /\ pc' = [pc EXCEPT ![s] = "alloc"]
          /\ hand' = [hand EXCEPT ![s] = 0]
      BY <1>8, <2>4 DEF TryRecyclable
    <3> QED BY <1>0, <2>1, <3>1 DEF TypeOK
  <2> QED BY <2>3, <2>4
<1>9. ASSUME NEW s \in Statements, Extend(s) PROVE TypeOK'
  <2>1. UNCHANGED <<page, xmax, inits, uses, madeBy, goneBy, xid, nextXid, completed, held,
                    scan, limit, early, fsm, lock, snap, open>>
    BY <1>9 DEF Extend, fileVars, xactVars, vacVars
  <2>2. nblocks' = nblocks + 1 /\ nblocks' \in 0..MaxBlocks /\ 1..nblocks \subseteq 1..nblocks' /\ 0..nblocks \subseteq 0..nblocks'
    BY <1>0, <1>9 DEF Extend
  <2>3. extension' \in Statements /\ hand' \in [Statements -> 0..nblocks']
    BY <1>0, <1>9, <2>2 DEF Extend, TypeOK
  <2>4. pc' \in [Statements -> {"idle", "run", "alloc", "try", "extend", "extended", "done"}]
    BY <1>9 DEF Extend, TypeOK
  <2>5. held' \in [Statements -> SUBSET (1..nblocks')]
    BY <2>1, <2>2 DEF TypeOK
  <2> QED BY <2>1, <2>2, <2>3, <2>4, <2>5 DEF TypeOK
<1>10. ASSUME NEW s \in Statements, LockExtended(s) PROVE TypeOK'
  <2>1. UNCHANGED <<nblocks, page, xmax, inits, uses, madeBy, goneBy, xid, nextXid, completed,
                    scan, limit, early, fsm, snap, open>>
    BY <1>10 DEF LockExtended, pageVars, fileVars, xactVars, vacVars
  <2>2. hand[s] \in 1..nblocks /\ lock[hand[s]] = Nobody /\ Take(s, hand[s]) /\ extension' = Nobody
    BY <1>0, <1>10 DEF LockExtended, TypeOK, HandInv
  <2> QED BY <2>1, <2>2, TakeType DEF TypeOK
<1>11. ASSUME NEW s \in Statements, InitPages(s) PROVE TypeOK'
  <2>1. UNCHANGED <<nblocks, xid, nextXid, completed, hand, extension, scan, limit, early, fsm, snap, open>>
    BY <1>11 DEF InitPages, xactVars, vacVars
  <2>2. /\ page' \in [Block -> {"new", "init"}] /\ xmax' \in [Block -> 0..MaxXid]
        /\ inits' \in [Block -> Nat] /\ madeBy' \in [Block -> 0..MaxXid] /\ goneBy' \in [Block -> 0..MaxXid]
        /\ pc' \in [Statements -> {"idle", "run", "alloc", "try", "extend", "extended", "done"}]
    BY <1>11 DEF InitPages, TypeOK
  <2>3. uses' \in [Block -> Nat]
    BY <1>11 DEF InitPages, TypeOK
  <2>4. /\ lock' = [b \in Block |-> IF b \in held[s] THEN Nobody ELSE lock[b]]
        /\ held' = [held EXCEPT ![s] = {}]
    BY <1>11 DEF InitPages
  <2>5. /\ lock' \in [Block -> Statements \cup {Nobody}] /\ held' \in [Statements -> SUBSET (1..nblocks)]
        /\ \A b \in Block, t \in Statements : lock'[b] = t <=> b \in held'[t]
    BY <2>4 DEF TypeOK
  <2> QED BY <2>1, <2>2, <2>3, <2>5 DEF TypeOK
<1>12. ASSUME NEW s \in Statements, Fail(s) PROVE TypeOK'
  <2>1. UNCHANGED <<nblocks, page, xmax, inits, uses, madeBy, goneBy, extension, scan, limit, early, fsm>>
    BY <1>12 DEF Fail, pageVars, fileVars, vacVars
  <2>2. /\ lock' = [b \in Block |-> IF lock[b] = s THEN Nobody ELSE lock[b]]
        /\ held' = [held EXCEPT ![s] = {}] /\ hand' = [hand EXCEPT ![s] = 0]
        /\ EndTransaction(s)
    BY <1>12 DEF Fail
  <2>3. /\ lock' \in [Block -> Statements \cup {Nobody}] /\ held' \in [Statements -> SUBSET (1..nblocks)]
        /\ \A b \in Block, t \in Statements : lock'[b] = t <=> b \in held'[t]
        /\ hand' \in [Statements -> 0..nblocks]
    BY <1>0, <2>2 DEF TypeOK
  <2> QED BY <1>4, <2>1, <2>2, <2>3 DEF TypeOK
<1>13. CASE BeginCleanup
  <2>1. UNCHANGED <<nblocks, page, xmax, inits, uses, madeBy, goneBy, xid, nextXid, completed, hand, held,
                    extension, early, fsm, lock, pc, open>>
    BY <1>13 DEF BeginCleanup, pageVars, fileVars, xactVars, allocVars
  <2>2. snap' \in [Statements \cup {Vacuum} -> [xmax : 0..MaxXid, running : SUBSET Xid]]
    BY <1>13, SnapshotType DEF BeginCleanup, TypeOK
  <2>3. scan' \in 0..MaxBlocks /\ limit' \in 0..nblocks
    BY <1>0, <1>13 DEF BeginCleanup
  <2> QED BY <2>1, <2>2, <2>3 DEF TypeOK
<1>14. CASE CleanupBlock
  <2>1. UNCHANGED <<nblocks, page, xmax, inits, uses, madeBy, goneBy, xid, nextXid, completed, hand, held,
                    extension, lock, pc, open>>
    BY <1>14 DEF CleanupBlock, pageVars, fileVars, xactVars, allocVars
  <2>2. scan \in 1..limit /\ limit \in 0..nblocks /\ scan \in Block
    BY <1>0, <1>14 DEF CleanupBlock, TypeOK, Block
  <2>3. fsm' \subseteq 1..nblocks /\ early' \subseteq Block
    BY <1>0, <1>14, <2>2 DEF CleanupBlock, TypeOK
  <2>4. /\ scan' \in 0..MaxBlocks /\ limit' \in 0..nblocks
        /\ snap' \in [Statements \cup {Vacuum} -> [xmax : 0..MaxXid, running : SUBSET Xid]]
    BY <1>0, <1>14, <2>2 DEF CleanupBlock, TypeOK, NoSnapshot
  <2> QED BY <2>1, <2>3, <2>4 DEF TypeOK
<1>15. CASE UNCHANGED vars
  BY <1>15 DEF vars, TypeOK, pageVars, fileVars, allocVars, vacVars, xactVars
<1> QED BY <1>1, <1>2, <1>3, <1>5, <1>6, <1>7, <1>8, <1>9, <1>10, <1>11, <1>12, <1>13, <1>14, <1>15
        DEF Next, Statement, NewBuffer

-----------------------------------------------------------------------------
(* Pages                                                                    *)

\* The steps that change a page, or a file.
LEMMA PageStep ==
  ASSUME [Next]_vars
  PROVE  \/ \E s \in Statements, b \in Block : MarkDeleted(s, b)
         \/ \E s \in Statements : Extend(s) \/ InitPages(s)
         \/ UNCHANGED <<nblocks, page, xmax, inits, uses, madeBy, goneBy>>
BY DEF Next, Statement, NewBuffer, vars, Begin, OpenFiles, End, Fail, GetFreeIndexPage, TryRecyclable,
   LockExtended, NeedBuffers, BeginCleanup, CleanupBlock, pageVars, fileVars

\* The steps that change who has a buffer.
LEMMA HeldStep ==
  ASSUME [Next]_vars
  PROVE  \/ \E s \in Statements : TryRecyclable(s) /\ Recyclable(hand[s], s) /\ lock[hand[s]] = Nobody
                                  /\ Take(s, hand[s])
         \/ \E s \in Statements : LockExtended(s) \/ InitPages(s) \/ Fail(s)
         \/ UNCHANGED <<lock, held>>
BY DEF Next, Statement, NewBuffer, vars, Begin, OpenFiles, End, MarkDeleted, GetFreeIndexPage, TryRecyclable,
   Extend, NeedBuffers, BeginCleanup, CleanupBlock, allocVars

LEMMA EarlyGrows == ASSUME [Next]_vars PROVE early \subseteq early'
BY DEF Next, Statement, NewBuffer, vars, Begin, OpenFiles, End, Fail, MarkDeleted, GetFreeIndexPage,
   TryRecyclable, Extend, LockExtended, InitPages, NeedBuffers, BeginCleanup, CleanupBlock, vacVars

LEMMA NextXidGrows == ASSUME TypeOK, [Next]_vars PROVE nextXid' \in Nat /\ nextXid' >= nextXid
<1>1. nextXid \in Nat
  BY ConstantTypes DEF TypeOK, Xid
<1>2. nextXid' = nextXid \/ nextXid' = nextXid + 1
  BY DEF Next, Statement, NewBuffer, vars, Begin, OpenFiles, End, EndTransaction, Fail, MarkDeleted, GetFreeIndexPage,
     TryRecyclable, Extend, LockExtended, InitPages, NeedBuffers, BeginCleanup, CleanupBlock, xactVars
<1> QED BY <1>1, <1>2

LEMMA NextPage == TypeOK /\ XactInv /\ PageInv /\ [Next]_vars => PageInv'
<1> SUFFICES ASSUME TypeOK, XactInv, PageInv, [Next]_vars PROVE PageInv'
  OBVIOUS
<1>0. /\ nextXid \in Nat \ {0} /\ nextXid' \in Nat /\ nextXid' >= nextXid
      /\ \A i \in 1..nextXid : i \in 1..nextXid'
  BY ConstantTypes, NextXidGrows DEF TypeOK, Xid
<1>1. ASSUME NEW s \in Statements, NEW b \in Block, MarkDeleted(s, b) PROVE PageInv'
  <2>1. /\ xmax' = [xmax EXCEPT ![b] = nextXid] /\ goneBy' = [goneBy EXCEPT ![b] = xid[s]]
        /\ UNCHANGED <<nblocks, page, uses>>
    BY <1>1 DEF MarkDeleted
  <2>2. xid[s] # NoXid /\ nextXid > xid[s]
    BY <1>1, ConstantTypes DEF MarkDeleted, XactInv, TypeOK, Xid
  <2>3. \A c \in Block : xmax'[c] # NoXid => goneBy'[c] # NoXid /\ xmax'[c] > goneBy'[c]
    BY <2>1, <2>2 DEF PageInv, TypeOK
  <2>4. \A c \in Block : goneBy'[c] # NoXid => xmax'[c] \in 1..nextXid'
    BY <1>0, <2>1 DEF PageInv, TypeOK
  <2> QED BY <2>1, <2>3, <2>4 DEF PageInv
<1>2. ASSUME NEW s \in Statements, Extend(s) PROVE PageInv'
  <2>1. nblocks' = nblocks + 1 /\ UNCHANGED <<page, xmax, uses, goneBy>>
    BY <1>2 DEF Extend, fileVars
  <2>2. \A b \in Block : b > nblocks' => b > nblocks
    BY <2>1, ConstantTypes DEF TypeOK, Block
  <2> QED BY <1>0, <2>1, <2>2 DEF PageInv
<1>3. ASSUME NEW s \in Statements, InitPages(s) PROVE PageInv'
  <2>1. /\ nblocks' = nblocks
        /\ \A b \in Block : b \notin held[s] => page'[b] = page[b] /\ uses'[b] = uses[b]
                                             /\ xmax'[b] = xmax[b] /\ goneBy'[b] = goneBy[b]
        /\ \A b \in Block : b \in held[s] => /\ page'[b] = "init" /\ xmax'[b] = NoXid /\ goneBy'[b] = NoXid
                                            /\ uses'[b] \in {uses[b] + 1, 1}
    BY <1>3 DEF InitPages
  <2>2. \A b \in Block : b > nblocks => b \notin held[s]
    BY ConstantTypes DEF TypeOK, Block
  <2>3. \A b \in Block : b \in held[s] => uses'[b] # 0
    BY <2>1 DEF TypeOK
  <2> QED BY <1>0, <2>1, <2>2, <2>3 DEF PageInv
<1>4. CASE UNCHANGED <<nblocks, page, xmax, inits, uses, madeBy, goneBy>>
  BY <1>0, <1>4 DEF PageInv
<1> QED BY <1>1, <1>2, <1>3, <1>4, PageStep

LEMMA HandBlock ==
  ASSUME TypeOK, HandInv, NEW s \in Statements, pc[s] \in {"try", "extended"}
  PROVE  hand[s] \in Block /\ hand[s] \in 1..nblocks
<1>1. hand[s] # 0 /\ hand[s] \in 0..nblocks /\ nblocks \in 0..MaxBlocks
  BY DEF TypeOK, HandInv
<1> QED BY <1>1, ConstantTypes DEF Block

\* A buffer a statement comes to hold is in no file, or in one no snapshot
\* sees; this lasts until the statement initialises it.
LEMMA NextHeld ==
  TypeOK /\ XactInv /\ PageInv /\ HandInv /\ HeldInv /\ [Next]_vars => HeldInv'
<1> SUFFICES ASSUME TypeOK, XactInv, PageInv, HandInv, HeldInv, [Next]_vars,
                    NEW t \in Statements, NEW b \in held'[t] \ early'
             PROVE  (uses[b] = 0 \/ (xmax[b] # NoXid /\ GlobalVisCheckRemovableXid(xmax[b])))'
  BY DEF HeldInv
<1> DEFINE Free == uses[b] = 0 \/ (xmax[b] # NoXid /\ GlobalVisCheckRemovableXid(xmax[b]))
<1>0. b \notin early
  BY EarlyGrows
<1>1. \A s \in Statements : held[s] \subseteq Block
  BY ConstantTypes DEF TypeOK, Block
\* the buffers taken in this step
<1>2. ASSUME NEW s \in Statements, Take(s, hand[s]), UNCHANGED <<uses, xmax>>, hand[s] \in Block,
             hand[s] \notin early => page[hand[s]] = "new" \/ Recyclable(hand[s], s)
      PROVE  b \in Block /\ Free /\ UNCHANGED <<uses, xmax>>
  <2>1. b \in held[t] \/ (t = s /\ b = hand[s])
    BY <1>2 DEF Take, TypeOK
  <2>2. CASE b \in held[t]
    BY <1>0, <1>1, <1>2, <2>2 DEF HeldInv
  <2>3. CASE b = hand[s]
    BY <1>0, <1>2, <2>3 DEF PageInv, Recyclable
  <2> QED BY <2>1, <2>2, <2>3
<1>3. b \in Block /\ Free /\ xmax'[b] = xmax[b] /\ (uses[b] = 0 => uses'[b] = 0)
  <2>1. ASSUME NEW s \in Statements, TryRecyclable(s), Recyclable(hand[s], s), Take(s, hand[s])
        PROVE  b \in Block /\ Free /\ UNCHANGED <<uses, xmax>>
    <3>1. UNCHANGED <<uses, xmax>> /\ hand[s] \in Block
      BY <2>1, HandBlock DEF TryRecyclable, pageVars, fileVars
    <3> QED BY <1>2, <2>1, <3>1
  <2>2. ASSUME NEW s \in Statements, LockExtended(s)
        PROVE  b \in Block /\ Free /\ UNCHANGED <<uses, xmax>>
    <3>1. UNCHANGED <<uses, xmax>> /\ hand[s] \in Block /\ Take(s, hand[s]) /\ pc[s] = "extended"
      BY <2>2, HandBlock DEF LockExtended, pageVars, fileVars
    <3>2. hand[s] \notin early => page[hand[s]] = "new"
      BY <3>1 DEF HandInv
    <3> QED BY <1>2, <3>1, <3>2
  <2>3. ASSUME NEW s \in Statements, InitPages(s)
        PROVE  b \in held[t] /\ xmax'[b] = xmax[b] /\ uses'[b] = uses[b]
    <3>1. t # s /\ b \in held[t]
      BY <2>3 DEF InitPages, TypeOK
    <3>2. b \in Block /\ b \notin held[s]
      BY <1>1, <3>1 DEF TypeOK
    <3> QED BY <2>3, <3>1, <3>2 DEF InitPages
  <2>4. ASSUME NEW s \in Statements, Fail(s)
        PROVE  b \in held[t] /\ UNCHANGED <<uses, xmax>>
    BY <2>4 DEF Fail, TypeOK, pageVars, fileVars
  <2>5. CASE UNCHANGED <<lock, held>>
    <3>1. b \in held[t] /\ b \in Block /\ Free
      BY <1>0, <1>1, <2>5 DEF HeldInv
    <3>2. ASSUME NEW s \in Statements, NEW c \in Block, MarkDeleted(s, c)
          PROVE  xmax'[b] = xmax[b] /\ uses' = uses
      <4>1. c # b
        BY <3>1, <3>2, ConstantTypes DEF MarkDeleted, TypeOK
      <4> QED BY <3>1, <3>2, <4>1 DEF MarkDeleted, TypeOK
    <3>3. ASSUME NEW s \in Statements, InitPages(s)
          PROVE  xmax'[b] = xmax[b] /\ uses'[b] = uses[b]
      BY <2>3, <3>3
    <3>4. ASSUME NEW s \in Statements, Extend(s) PROVE UNCHANGED <<uses, xmax>>
      BY <3>4 DEF Extend, fileVars
    <3> QED BY <3>1, <3>2, <3>3, <3>4, PageStep
  <2>6. b \in held[t] => b \in Block /\ Free
    BY <1>0, <1>1 DEF HeldInv
  <2> QED BY <2>1, <2>2, <2>3, <2>4, <2>5, <2>6, HeldStep
<1>4. CASE uses[b] = 0
  BY <1>3, <1>4
<1>5. CASE xmax[b] # NoXid /\ GlobalVisCheckRemovableXid(xmax[b])
  <2>1. PICK x \in 0..MaxXid : x = xmax[b]
    BY <1>3 DEF TypeOK
  <2>2. GlobalVisCheckRemovableXid(x)'
    BY <1>5, <2>1, RemovableStable
  <2>3. GlobalVisCheckRemovableXid(xmax[b])'
    BY <1>3, <2>1, <2>2 DEF GlobalVisCheckRemovableXid
  <2> QED BY <1>3, <1>5, <2>3
<1> QED BY <1>3, <1>4, <1>5

-----------------------------------------------------------------------------
(* The block in hand                                                        *)

LEMMA NextHand ==
  TypeOK /\ PageInv /\ HandInv /\ [Next]_vars => HandInv'
<1> SUFFICES ASSUME TypeOK, PageInv, HandInv, [Next]_vars PROVE HandInv'
  OBVIOUS
<1> USE ConstantTypes
<1> DEFINE Own(s) == /\ page[hand[s]] = "new" /\ lock[hand[s]] = Nobody /\ hand[s] \notin fsm
                     /\ \A t \in Statements : t # s => hand[t] # hand[s]
<1>0. \A s \in Statements : pc[s] = "extended" /\ hand[s] \notin early => Own(s)
  BY DEF HandInv
<1>1. ASSUME UNCHANGED <<hand, page, lock, fsm, early>>,
             \A t \in Statements : pc'[t] \in {"try", "extended"} \/ pc[t] \in {"try", "extended"} => pc'[t] = pc[t]
      PROVE  HandInv'
  BY <1>1 DEF HandInv
<1>2. ASSUME NEW s \in Statements,
             \/ Begin(s) \/ OpenFiles(s) \/ End(s)
             \/ (\E b \in Block : MarkDeleted(s, b)) \/ (\E n \in 1..2 : NeedBuffers(s, n))
      PROVE  HandInv'
  <2>1. UNCHANGED <<hand, page, lock, fsm, early>>
    BY <1>2 DEF Begin, OpenFiles, End, MarkDeleted, NeedBuffers, allocVars, vacVars, pageVars
  <2>2. pc' = pc \/ \E v \in {"run", "idle", "done", "alloc"} :
          pc[s] \in {"idle", "run"} /\ pc' = [pc EXCEPT ![s] = v]
    BY <1>2 DEF Begin, OpenFiles, End, EndTransaction, MarkDeleted, NeedBuffers
  <2>3. \A t \in Statements : pc'[t] \in {"try", "extended"} \/ pc[t] \in {"try", "extended"} => pc'[t] = pc[t]
    BY <2>2 DEF TypeOK
  <2> QED BY <1>1, <2>1, <2>3
<1>3. CASE BeginCleanup \/ UNCHANGED vars
  BY <1>1, <1>3 DEF BeginCleanup, vars, allocVars, vacVars, pageVars
<1>4. ASSUME NEW s \in Statements, InitPages(s) PROVE HandInv'
  <2>1. /\ UNCHANGED <<hand, fsm, early>> /\ pc[s] = "alloc"
        /\ pc' = [pc EXCEPT ![s] = "run"]
        /\ \A b \in Block : b \notin held[s] => page'[b] = page[b] /\ lock'[b] = lock[b]
    BY <1>4 DEF InitPages, vacVars
  <2>2. \A t \in Statements : pc'[t] \in {"try", "extended"} => t # s /\ pc'[t] = pc[t]
    BY <2>1 DEF TypeOK
  <2>3. \A t \in Statements : pc[t] \in {"try", "extended"} => t # s /\ pc'[t] = pc[t] /\ hand[t] \in Block
    BY <2>1, HandBlock DEF TypeOK
  <2>4. \A t \in Statements : pc[t] = "extended" /\ hand[t] \notin early => hand[t] \notin held[s]
    BY <1>0, <2>3 DEF TypeOK
  <2> QED BY <2>1, <2>2, <2>3, <2>4 DEF HandInv
<1>5. CASE CleanupBlock
  <2>1. UNCHANGED <<hand, page, lock, pc>>
    BY <1>5 DEF CleanupBlock, allocVars, pageVars
  <2>2. \A t \in Statements : pc[t] = "extended" /\ hand[t] \notin early' => hand[t] \notin early /\ (hand[t] \notin fsm => hand[t] \notin fsm')
    BY <1>5 DEF CleanupBlock
  <2> QED BY <2>1, <2>2 DEF HandInv
<1>6. ASSUME NEW s \in Statements, GetFreeIndexPage(s) PROVE HandInv'
  <2>1. UNCHANGED <<page, lock, early>> /\ pc[s] = "alloc"
    BY <1>6 DEF GetFreeIndexPage, vacVars, pageVars
  <2>2. CASE \E b \in fsm : fsm' = fsm \ {b} /\ hand' = [hand EXCEPT ![s] = b] /\ pc' = [pc EXCEPT ![s] = "try"]
    <3>1. PICK b \in fsm : fsm' = fsm \ {b} /\ hand' = [hand EXCEPT ![s] = b] /\ pc' = [pc EXCEPT ![s] = "try"]
      BY <2>2
    <3>2. b # 0
      BY DEF TypeOK
    <3>3. /\ hand'[s] = b /\ pc'[s] = "try"
          /\ \A t \in Statements : t # s => hand'[t] = hand[t] /\ pc'[t] = pc[t]
      BY <3>1 DEF TypeOK
    <3>4. \A t \in Statements : pc'[t] \in {"try", "extended"} => hand'[t] # 0
      BY <3>2, <3>3 DEF HandInv
    <3>5. ASSUME NEW t \in Statements, pc'[t] = "extended", hand'[t] \notin early' PROVE Own(t)'
      BY <1>0, <2>1, <3>1, <3>3, <3>5
    <3> QED BY <3>4, <3>5 DEF HandInv
  <2>3. CASE UNCHANGED <<fsm, hand>> /\ pc' = [pc EXCEPT ![s] = "extend"]
    BY <1>1, <2>1, <2>3 DEF TypeOK
  <2> QED BY <1>6, <2>2, <2>3 DEF GetFreeIndexPage
<1>7. ASSUME NEW s \in Statements, hand' = [hand EXCEPT ![s] = 0], pc' = [pc EXCEPT ![s] = "alloc"],
             UNCHANGED <<page, fsm, early>>,
             \A b \in Block : b # hand[s] => lock'[b] = lock[b]
      PROVE  HandInv'
  <2>1. /\ hand'[s] = 0 /\ pc'[s] = "alloc"
        /\ \A t \in Statements : t # s => hand'[t] = hand[t] /\ pc'[t] = pc[t]
    BY <1>7 DEF TypeOK
  <2>2. \A t \in Statements : pc'[t] \in {"try", "extended"} => hand'[t] # 0
    BY <2>1 DEF HandInv
  <2>3. ASSUME NEW t \in Statements, pc'[t] = "extended", hand'[t] \notin early' PROVE Own(t)'
    <3>1. t # s /\ pc[t] = "extended" /\ hand'[t] = hand[t] /\ hand[t] \in Block /\ hand[t] # 0
      BY <2>1, <2>3, HandBlock DEF HandInv
    <3>2. Own(t)
      BY <1>0, <1>7, <2>3, <3>1
    <3> QED BY <1>7, <2>1, <3>1, <3>2
  <2> QED BY <2>2, <2>3 DEF HandInv
<1>8. ASSUME NEW s \in Statements, TryRecyclable(s) PROVE HandInv'
  <2>1. /\ hand' = [hand EXCEPT ![s] = 0] /\ pc' = [pc EXCEPT ![s] = "alloc"] /\ pc[s] = "try"
        /\ UNCHANGED <<page, fsm, early>>
        /\ lock' = [lock EXCEPT ![hand[s]] = s] \/ lock' = lock
    BY <1>8 DEF TryRecyclable, Take, vacVars, pageVars
  <2>2. \A b \in Block : b # hand[s] => lock'[b] = lock[b]
    BY <2>1 DEF TypeOK
  <2> QED BY <1>7, <2>1, <2>2
<1>9. ASSUME NEW s \in Statements, LockExtended(s) PROVE HandInv'
  <2>1. /\ hand' = [hand EXCEPT ![s] = 0] /\ pc' = [pc EXCEPT ![s] = "alloc"]
        /\ UNCHANGED <<page, fsm, early>>
        /\ lock' = [lock EXCEPT ![hand[s]] = s]
    BY <1>9 DEF LockExtended, Take, vacVars, pageVars
  <2> QED BY <1>7, <2>1 DEF TypeOK
<1>10. ASSUME NEW s \in Statements, Extend(s) PROVE HandInv'
  <2>1. /\ pc[s] = "extend" /\ nblocks' = nblocks + 1 /\ nblocks < MaxBlocks
        /\ hand' = [hand EXCEPT ![s] = nblocks + 1] /\ pc' = [pc EXCEPT ![s] = "extended"]
        /\ UNCHANGED <<page, fsm, lock, early>>
    BY <1>10 DEF Extend, vacVars
  <2>2. /\ hand'[s] = nblocks + 1 /\ pc'[s] = "extended"
        /\ \A t \in Statements : t # s => hand'[t] = hand[t] /\ pc'[t] = pc[t] /\ hand[t] # nblocks + 1
    BY <2>1 DEF TypeOK
  <2>3. nblocks + 1 \in Block /\ nblocks + 1 > nblocks /\ nblocks + 1 # 0
    BY <2>1 DEF TypeOK, Block
  <2>4. page[nblocks + 1] = "new"
    BY <2>3 DEF PageInv
  <2>5. nblocks + 1 \notin fsm /\ \A t \in Statements : nblocks + 1 \notin held[t]
    BY DEF TypeOK
  <2>6. lock[nblocks + 1] = Nobody
    BY <2>3, <2>5 DEF TypeOK
  <2>7. \A t \in Statements : pc'[t] \in {"try", "extended"} => hand'[t] # 0
    BY <2>2, <2>3 DEF HandInv
  <2>8. ASSUME NEW t \in Statements, pc'[t] = "extended", hand'[t] \notin early' PROVE Own(t)'
    <3>1. CASE t = s
      BY <2>1, <2>2, <2>4, <2>5, <2>6, <3>1
    <3>2. CASE t # s
      BY <1>0, <2>1, <2>2, <2>8, <3>2
    <3> QED BY <3>1, <3>2
  <2> QED BY <2>7, <2>8 DEF HandInv
<1>11. ASSUME NEW s \in Statements, Fail(s) PROVE HandInv'
  <2>1. /\ pc[s] = "extend" /\ hand' = [hand EXCEPT ![s] = 0] /\ UNCHANGED <<page, fsm, early>>
        /\ \E v \in {"idle", "done"} : pc' = [pc EXCEPT ![s] = v]
        /\ \A b \in Block : lock[b] = Nobody => lock'[b] = Nobody
    BY <1>11 DEF Fail, EndTransaction, vacVars, pageVars
  <2>2. /\ hand'[s] = 0 /\ pc'[s] \in {"idle", "done"}
        /\ \A t \in Statements : t # s => hand'[t] = hand[t] /\ pc'[t] = pc[t]
    BY <2>1 DEF TypeOK
  <2>3. \A t \in Statements : pc'[t] \in {"try", "extended"} => hand'[t] # 0
    BY <2>2 DEF HandInv
  <2>4. ASSUME NEW t \in Statements, pc'[t] = "extended", hand'[t] \notin early' PROVE Own(t)'
    <3>1. t # s /\ pc[t] = "extended" /\ hand'[t] = hand[t] /\ hand[t] \in Block /\ hand[t] # 0
      BY <2>2, <2>4, HandBlock DEF HandInv
    <3>2. Own(t)
      BY <1>0, <2>1, <2>4, <3>1
    <3> QED BY <2>1, <2>2, <3>1, <3>2
  <2> QED BY <2>3, <2>4 DEF HandInv
<1> HIDE DEF Own
<1> QED BY <1>2, <1>3, <1>4, <1>5, <1>6, <1>8, <1>9, <1>10, <1>11 DEF Next, Statement, NewBuffer

-----------------------------------------------------------------------------
(* Open files                                                               *)

\* A block a reader opens is kept: had somebody taken it to initialise it, or
\* were it free to be taken, the reader's snapshot would not see its file.
LEMMA OpenedKept ==
  ASSUME TypeOK, PageInv, HeldInv, NEW s \in Statements, pc[s] = "run",
         NEW b \in Block \ early, Sees(s, b)
  PROVE  KeptOpen(s, b)
<1>1. page[b] = "init" /\ uses[b] # 0
  BY DEF Sees, PageInv, TypeOK
<1>2. \/ xmax[b] = NoXid \/ xmax[b] >= snap[s].xmax
      \/ \E r \in snap[s].running : xmax[b] >= r
  <2> SUFFICES ASSUME xmax[b] # NoXid
               PROVE  xmax[b] >= snap[s].xmax \/ \E r \in snap[s].running : xmax[b] >= r
    OBVIOUS
  <2>1. goneBy[b] # NoXid /\ xmax[b] > goneBy[b] /\ xmax[b] \in Nat /\ goneBy[b] \in Nat /\ snap[s].xmax \in Nat
    BY DEF PageInv, TypeOK
  <2>2. goneBy[b] >= snap[s].xmax \/ goneBy[b] \in snap[s].running
    BY <2>1 DEF Sees, XidInMVCCSnapshot
  <2> QED BY <2>1, <2>2
<1>3. lock[b] = Nobody
  <2> SUFFICES ASSUME lock[b] # Nobody PROVE FALSE
    OBVIOUS
  <2>1. PICK t \in Statements : b \in held[t]
    BY DEF TypeOK
  <2>2. xmax[b] # NoXid /\ GlobalVisCheckRemovableXid(xmax[b])
    BY <1>1, <2>1 DEF HeldInv
  <2>3. s \in Active
    BY DEF Active
  <2>4. xmax[b] < snap[s].xmax /\ \A r \in snap[s].running : r # NoXid /\ xmax[b] < r
    BY <2>2, <2>3 DEF GlobalVisCheckRemovableXid, TypeOK, Xid
  <2>5. xmax[b] \in Nat /\ snap[s].xmax \in Nat /\ \A r \in snap[s].running : r \in Nat
    BY DEF TypeOK, Xid
  <2> QED BY <1>2, <2>2, <2>4, <2>5
<1> QED BY <1>1, <1>2, <1>3 DEF KeptOpen

\* What a running statement keeps, nobody may recycle.
LEMMA KeptNotRecyclable ==
  ASSUME TypeOK, NEW s \in Statements, pc[s] = "run", NEW b \in Block, KeptOpen(s, b),
         NEW p \in Statements
  PROVE  ~Recyclable(b, p)
<1> SUFFICES ASSUME Recyclable(b, p) PROVE FALSE
  OBVIOUS
<1>1. xmax[b] # NoXid /\ GlobalVisCheckRemovableXid(xmax[b])
  BY DEF Recyclable, KeptOpen
<1>2. s \in Active
  BY DEF Active
<1>3. xmax[b] < snap[s].xmax /\ \A r \in snap[s].running : r # NoXid /\ xmax[b] < r
  BY <1>1, <1>2 DEF GlobalVisCheckRemovableXid, TypeOK, Xid
<1>4. xmax[b] \in Nat /\ snap[s].xmax \in Nat /\ \A r \in snap[s].running : r \in Nat
  BY DEF TypeOK, Xid
<1> QED BY <1>1, <1>3, <1>4 DEF KeptOpen

LEMMA NextOpen ==
  TypeOK /\ XactInv /\ PageInv /\ HandInv /\ HeldInv /\ OpenInv /\ [Next]_vars => OpenInv'
<1> SUFFICES ASSUME TypeOK, XactInv, PageInv, HandInv, HeldInv, OpenInv, [Next]_vars,
                    NEW s \in Statements
             PROVE  /\ open'[s] # {} => s \in Readers /\ pc'[s] = "run"
                    /\ \A o \in open'[s] :
                         o[1] \in early' \/ (inits'[o[1]] = o[2] /\ KeptOpen(s, o[1])')
  BY DEF OpenInv
<1> USE ConstantTypes
<1>0. /\ open[s] \subseteq Block \X Nat
      /\ open[s] # {} => s \in Readers /\ s \notin Writers /\ pc[s] = "run"
      /\ early \subseteq early'
  BY StorageAssumption, EarlyGrows DEF OpenInv, TypeOK
\* a reader opens files
<1>1. CASE OpenFiles(s)
  <2>1. /\ pc[s] = "run" /\ s \in Readers
        /\ open'[s] = {<<b, inits[b]>> : b \in {c \in Block : Sees(s, c)}}
        /\ UNCHANGED <<inits, page, xmax, lock, snap, pc, early>>
    BY <1>1 DEF OpenFiles, TypeOK, pageVars, vacVars
  <2> SUFFICES ASSUME NEW o \in open'[s], o[1] \notin early
               PROVE  inits'[o[1]] = o[2] /\ KeptOpen(s, o[1])'
    BY <2>1
  <2>2. PICK b \in Block : Sees(s, b) /\ o = <<b, inits[b]>>
    BY <2>1
  <2>3. KeptOpen(s, b)
    BY <2>1, <2>2, OpenedKept
  <2> QED BY <2>1, <2>2, <2>3 DEF KeptOpen
\* a statement ends or begins
<1>2. CASE EndTransaction(s) \/ Begin(s)
  <2>1. open'[s] = {}
    BY <1>0, <1>2 DEF EndTransaction, Begin, TypeOK
  <2> QED BY <2>1
\* every other step leaves what s has open alone
<1>3. ASSUME ~OpenFiles(s), ~EndTransaction(s), ~Begin(s)
      PROVE  /\ open'[s] = open[s] /\ snap'[s] = snap[s]
             /\ open[s] # {} => pc'[s] = pc[s]
  <2>1. ASSUME NEW t \in Statements, Begin(t) \/ OpenFiles(t) \/ EndTransaction(t)
        PROVE  open'[s] = open[s] /\ snap'[s] = snap[s] /\ pc'[s] = pc[s]
    <3>1. t # s
      BY <1>3, <2>1
    <3> QED BY <2>1, <3>1 DEF Begin, OpenFiles, EndTransaction, TypeOK
  <2>2. ASSUME NEW t \in Statements, (\E n \in 1..2 : NeedBuffers(t, n)) \/ NewBuffer(t)
        PROVE  open'[s] = open[s] /\ snap'[s] = snap[s] /\ (open[s] # {} => pc'[s] = pc[s])
    <3>1. UNCHANGED <<open, snap>>
      BY <2>2 DEF NeedBuffers, NewBuffer, GetFreeIndexPage, TryRecyclable, Extend, LockExtended, InitPages
    <3>2. \E v \in {"run", "alloc", "try", "extend", "extended"} : pc' = [pc EXCEPT ![t] = v]
      BY <2>2 DEF NeedBuffers, NewBuffer, GetFreeIndexPage, TryRecyclable, Extend, LockExtended,
         InitPages, Take
    <3>3. open[s] # {} => t # s
      BY <1>0, <2>2 DEF NeedBuffers, NewBuffer, GetFreeIndexPage, TryRecyclable, Extend, LockExtended, InitPages
    <3> QED BY <3>1, <3>2, <3>3 DEF TypeOK
  <2>3. ASSUME NEW t \in Statements, NEW b \in Block, MarkDeleted(t, b)
        PROVE  UNCHANGED <<open, snap, pc>>
    BY <2>3 DEF MarkDeleted
  <2>4. CASE BeginCleanup \/ CleanupBlock \/ UNCHANGED vars
    BY <2>4 DEF BeginCleanup, CleanupBlock, vars, TypeOK
  <2> QED BY <2>1, <2>2, <2>3, <2>4 DEF Next, Statement, End, Fail
\* and nobody takes or initialises a page s has open
<1>4. ASSUME ~OpenFiles(s), ~EndTransaction(s), ~Begin(s),
             NEW b \in Block, b \notin early, s \in Readers, pc[s] = "run", open[s] # {}, KeptOpen(s, b)
      PROVE  inits'[b] = inits[b] /\ KeptOpen(s, b)'
  <2>0. /\ snap'[s] = snap[s] /\ page[b] = "init" /\ lock[b] = Nobody
        /\ \A t \in Statements : b \notin held[t]
    BY <1>3, <1>4 DEF KeptOpen, TypeOK
  <2>1. lock'[b] = Nobody
    <3>1. ASSUME NEW t \in Statements, Recyclable(hand[t], t), Take(t, hand[t]) PROVE lock'[b] = lock[b]
      <4>1. hand[t] # b
        BY <1>4, <3>1, KeptNotRecyclable
      <4> QED BY <3>1, <4>1 DEF Take, TypeOK
    <3>2. ASSUME NEW t \in Statements, LockExtended(t) PROVE lock'[b] = lock[b]
      <4>1. hand[t] # b
        BY <1>4, <2>0, <3>2 DEF LockExtended, HandInv
      <4> QED BY <3>2, <4>1 DEF LockExtended, Take, TypeOK
    <3>3. ASSUME NEW t \in Statements, InitPages(t) \/ Fail(t) PROVE lock'[b] = lock[b]
      BY <2>0, <3>3 DEF InitPages, Fail
    <3> QED BY <2>0, <3>1, <3>2, <3>3, HeldStep
  <2>2. ASSUME NEW t \in Statements, NEW c \in Block, MarkDeleted(t, c)
        PROVE  inits'[b] = inits[b] /\ page'[b] = page[b] /\ (xmax'[b] = xmax[b] \/ xmax'[b] >= snap[s].xmax)
    <3>1. xmax'[b] = xmax[b] \/ xmax'[b] = nextXid
      BY <2>2 DEF MarkDeleted, TypeOK
    <3>2. nextXid >= snap[s].xmax
      BY DEF XactInv, TypeOK, Xid
    <3> QED BY <2>2, <3>1, <3>2 DEF MarkDeleted
  <2>3. ASSUME NEW t \in Statements, Extend(t) \/ InitPages(t)
        PROVE  inits'[b] = inits[b] /\ page'[b] = page[b] /\ xmax'[b] = xmax[b]
    BY <2>0, <2>3 DEF Extend, InitPages
  <2>4. inits'[b] = inits[b] /\ page'[b] = page[b] /\ (xmax'[b] = xmax[b] \/ xmax'[b] >= snap[s].xmax)
    BY <2>2, <2>3, PageStep
  <2> QED BY <1>4, <2>0, <2>1, <2>4 DEF KeptOpen
<1>5. CASE ~OpenFiles(s) /\ ~EndTransaction(s) /\ ~Begin(s)
  <2>1. open'[s] # {} => s \in Readers /\ pc'[s] = "run"
    BY <1>0, <1>3, <1>5
  <2>2. ASSUME NEW o \in open'[s], o[1] \notin early'
        PROVE  inits'[o[1]] = o[2] /\ KeptOpen(s, o[1])'
    <3>1. o \in open[s] /\ o[1] \in Block /\ o[1] \notin early
      BY <1>0, <1>3, <1>5, <2>2
    <3>2. inits[o[1]] = o[2] /\ KeptOpen(s, o[1])
      BY <3>1 DEF OpenInv
    <3>3. PICK b \in Block : b = o[1]
      BY <3>1
    <3>4. inits'[b] = inits[b] /\ KeptOpen(s, b)'
      BY <1>0, <1>4, <1>5, <3>1, <3>2, <3>3
    <3> QED BY <3>2, <3>3, <3>4
  <2> QED BY <2>1, <2>2
<1> QED BY <1>1, <1>2, <1>5

-----------------------------------------------------------------------------
LEMMA NextOwner ==
  TypeOK /\ PageInv /\ HeldInv /\ OneOwner /\ [Next]_vars => OneOwner'
<1> SUFFICES ASSUME TypeOK, PageInv, HeldInv, OneOwner, [Next]_vars, NEW b \in Block \ early'
             PROVE  uses'[b] <= 1
  BY DEF OneOwner
<1>1. b \in Block /\ b \notin early /\ uses[b] <= 1 /\ uses[b] \in Nat
  BY EarlyGrows DEF OneOwner, TypeOK
<1>2. ASSUME NEW s \in Statements, InitPages(s) PROVE uses'[b] <= 1
  <2>1. uses'[b] = IF b \notin held[s] THEN uses[b] ELSE IF goneBy[b] = NoXid THEN uses[b] + 1 ELSE 1
    BY <1>1, <1>2 DEF InitPages
  <2>2. b \in held[s] /\ goneBy[b] = NoXid => uses[b] = 0
    BY <1>1 DEF HeldInv, PageInv
  <2> QED BY <1>1, <2>1, <2>2
<1>3. ASSUME NEW s \in Statements, Extend(s) \/ \E c \in Block : MarkDeleted(s, c) PROVE uses' = uses
  BY <1>3 DEF Extend, MarkDeleted, fileVars
<1> QED BY <1>1, <1>2, <1>3, PageStep

LEMMA StorageSafe == Spec => []StorageInv
<1>1. StorageInv /\ [Next]_vars => StorageInv'
  BY NextTypes, NextXact, NextPage, NextHand, NextHeld, NextOpen, NextOwner DEF StorageInv
<1> QED BY <1>1, InitStorage, PTL DEF Spec

\* However many statements allocate, recycle and fail, and however often VACUUM
\* records free blocks, new_buffer never puts a block into a second file while it
\* is in one, but for the blocks VACUUM finds between their extension and lock.
THEOREM BlocksHaveOneOwner == Spec => []OneOwner
<1>1. StorageInv => OneOwner
  BY DEF StorageInv
<1> QED BY <1>1, StorageSafe, PTL

\* No block of a file a statement has open is initialised again while the
\* statement runs: mark_deleted's id and BM25Page::recyclable keep it.
THEOREM OpenBlocksAreKept == Spec => []OpenPagesKept
<1>1. StorageInv => OpenPagesKept
  BY DEF StorageInv, OpenInv, OpenPagesKept
<1> QED BY <1>1, StorageSafe, PTL

\* However statements fail, also between the two buffers of create, every block
\* in no file, or in one that was replaced, can be found and returned by a later
\* VACUUM (new_buffer, init_page, mark_deleted, BM25Page::recyclable).
THEOREM BlocksAreReclaimable == Spec => []NoBlockLeaks
<1>1. StorageInv => NoBlockLeaks
  BY ConstantTypes DEF StorageInv, PageInv, TypeOK, NoBlockLeaks, Block
<1> QED BY <1>1, StorageSafe, PTL
=============================================================================
