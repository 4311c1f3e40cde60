---------------------------- MODULE LinkedItems ----------------------------
(***************************************************************************)
(* LinkedItemList<SegmentMetaEntry> at page level (storage/linked_items.rs)*)
(* and the way save_new_metas and load_metas use it (directory/utils.rs).  *)
(*                                                                         *)
(*   - an adder is an INSERT saving its new segments: add_items(.., None), *)
(*     hand over hand along the pages, appending at the first page with    *)
(*     room;                                                               *)
(*   - a maintainer is a merge or VACUUM, under the merge lock: it replaces *)
(*     entries whose delete file changed (an entry that no longer fits on  *)
(*     its page moves on, with its old page held locked), adds its merged  *)
(*     segment and garbage-collects the list;                              *)
(*   - a reader is load_metas, or lookup_ex, which is the same walk stopped *)
(*     early: one page at a time, with nothing locked in between.          *)
(*                                                                         *)
(* Entries have size 1, and 2 once they name a delete file.  Setting xmax  *)
(* keeps an entry's size and place, so it is left to SegmentMetas.         *)
(***************************************************************************)
EXTENDS Naturals, Sequences, FiniteSets, SequencesExt

CONSTANTS
  Adders, Maintainers, Readers,
  StartPages,      \* sequence: the entries on each page of the list at Init
  Created,         \* Created[p]: the entries process p adds, in order
  Modified,        \* the sequences of entries a maintainer may give delete files
  Garbage,         \* the entries recyclable() holds of
  Together,        \* the sets of processes that may be at work at the same time
  Capacity,        \* room on a page
  MaxBlocks        \* bound on the pages allocated

Writers == Adders \cup Maintainers
Proc    == Writers \cup Readers
Block   == 1..MaxBlocks
NoBlock == 0             \* pg_sys::InvalidBlockNumber
NoProc  == "nobody"
Start   == 1             \* get_start_blockno()

StartEntries == UNION {StartPages[b] : b \in 1..Len(StartPages)}
Entries == StartEntries \cup UNION {ToSet(Created[p]) : p \in Writers}

ASSUME ListAssumption ==
  /\ Adders \cap Maintainers = {} /\ Writers \cap Readers = {} /\ NoProc \notin Proc
  /\ MaxBlocks \in Nat /\ StartPages \in Seq(SUBSET StartEntries)
  /\ \A p \in Writers : Created[p] \in Seq(Entries)
  /\ Len(StartPages) \in 1..MaxBlocks
  /\ \A b \in 1..Len(StartPages) : Cardinality(StartPages[b]) <= Capacity
  /\ Capacity >= 2
  /\ Together \subseteq SUBSET Proc

\* A SegmentId is a new UUID: no two entries of the list are of one segment.
ASSUME FreshAssumption ==
  /\ \A b, c \in 1..Len(StartPages) : b # c => StartPages[b] \cap StartPages[c] = {}
  /\ \A p \in Writers : IsInjective(Created[p]) /\ ToSet(Created[p]) \cap StartEntries = {}
  /\ \A p, q \in Writers : p # q => ToSet(Created[p]) \cap ToSet(Created[q]) = {}

VARIABLES
  next,    \* next[b]: BM25PageSpecialData.next_blockno
  items,   \* items[b]: the entries on page b
  grown,   \* the entries that name a delete file
  freed,   \* the pages mark_deleted() was called on
  used,    \* number of pages allocated
  last,    \* LinkedListData.last_blockno
  lock,    \* lock[b]: who has the buffer exclusively locked
  pc, at,  \* where each process is: control, and the page it is on
  want,    \* want[p]: the page p has pinned and waits to lock
  hold,    \* hold[p]: the page add_items holds open
  todo,    \* todo[p]: the entries p still has to append
  mods,    \* mods[p]: the entries p still has to modify
  filled,  \* filled[m]: last_filled_blockno
  ahead,   \* ahead[m]: the next page, as read from the current one
  seen, twice, due   \* per reader: entries read, read twice, to be read

pageVars == <<next, items, grown, freed, used, last>>
gcVars   == <<filled, ahead>>
walkVars == <<seen, twice, due>>
vars == <<pageVars, lock, pc, at, want, hold, todo, mods, gcVars, walkVars>>

Size(i) == IF i \in grown THEN 2 ELSE 1
Used(b) == Cardinality(items[b]) + Cardinality(items[b] \cap grown)
Fits(b, i) == Used(b) + Size(i) <= Capacity

\* The pages on the chain from the start page: what every set of pages has that
\* has the start page and, with a page, the one it points to.
IsChain(S) == Start \in S /\ \A b \in S : next[b] \in S \cup {NoBlock}
Linked ==
  LET chains == {S \in SUBSET Block : IsChain(S)}
  IN  {b \in Block : \A S \in chains : b \in S}

\* An entry on its way to another page.
Moving == {Head(todo[m]) : m \in {n \in Maintainers : hold[n] # NoBlock /\ todo[n] # <<>>}}

Listed == (UNION {items[b] : b \in Linked}) \cup Moving

Init ==
  /\ next = [b \in Block |-> IF b < Len(StartPages) THEN b + 1 ELSE NoBlock]
  /\ items = [b \in Block |-> IF b <= Len(StartPages) THEN StartPages[b] ELSE {}]
  /\ grown = {} /\ freed = {}
  /\ used = Len(StartPages) /\ last = Len(StartPages)
  /\ lock = [b \in Block |-> NoProc]
  /\ \E working \in Together :
       pc = [p \in Proc |-> IF p \notin working THEN "done"
                           ELSE IF p \in Maintainers THEN "modify" ELSE "idle"]
  /\ at = [p \in Proc |-> NoBlock]
  /\ want = [p \in Writers |-> NoBlock]
  /\ hold = [p \in Writers |-> NoBlock]
  /\ todo = [p \in Writers |-> Created[p]]
  /\ mods \in [Maintainers -> Modified]
  /\ filled = [m \in Maintainers |-> Start]
  /\ ahead = [m \in Maintainers |-> NoBlock]
  /\ seen = [r \in Readers |-> {}]
  /\ twice = [r \in Readers |-> {}]
  /\ due = [r \in Readers |-> {}]

-----------------------------------------------------------------------------
(* add_items                                                                *)

\* buffer.unwrap_or_else(|| get_buffer_mut(get_start_blockno())): pin it.
BeginAdd(p) ==
  /\ pc[p] = "idle" /\ todo[p] # <<>>
  /\ want' = [want EXCEPT ![p] = Start]
  /\ pc' = [pc EXCEPT ![p] = "wait"]
  /\ UNCHANGED <<pageVars, lock, at, hold, todo, mods, gcVars, walkVars>>

\* The locks after p, holding at[p], has got page b: the old buffer is
\* dropped when `buffer` is assigned, unless it is the one held open.
MoveLock(p, b) ==
  [c \in Block |-> IF c = b THEN p
                   ELSE IF c = at[p] /\ c # hold[p] THEN NoProc ELSE lock[c]]

\* get_buffer_mut returns: the pinned page is locked.
LockPage(p) ==
  /\ pc[p] = "wait" /\ lock[want[p]] = NoProc
  /\ lock' = MoveLock(p, want[p])
  /\ at' = [at EXCEPT ![p] = want[p]]
  /\ want' = [want EXCEPT ![p] = NoBlock]
  /\ pc' = [pc EXCEPT ![p] = "add"]
  /\ UNCHANGED <<pageVars, hold, todo, mods, gcVars, walkVars>>

AppendItem(p) ==
  /\ pc[p] = "add" /\ todo[p] # <<>> /\ Fits(at[p], Head(todo[p]))
  /\ items' = [items EXCEPT ![at[p]] = @ \cup {Head(todo[p])}]
  /\ todo' = [todo EXCEPT ![p] = Tail(@)]
  /\ UNCHANGED <<next, grown, freed, used, last, lock, pc, at, want, hold, mods, gcVars, walkVars>>

GoNext(p) ==
  /\ pc[p] = "add" /\ todo[p] # <<>> /\ ~Fits(at[p], Head(todo[p]))
  /\ next[at[p]] # NoBlock
  /\ want' = [want EXCEPT ![p] = next[at[p]]]
  /\ pc' = [pc EXCEPT ![p] = "wait"]
  /\ UNCHANGED <<pageVars, lock, at, hold, todo, mods, gcVars, walkVars>>

\* Mutants of NewPage: it cuts off the pages behind; it does not initialise
\* the next_blockno of a page that had another use.
NewPageAlways(p) ==
  /\ pc[p] = "add" /\ todo[p] # <<>> /\ ~Fits(at[p], Head(todo[p]))
  /\ used < MaxBlocks
  /\ used' = used + 1
  /\ next' = [next EXCEPT ![at[p]] = used + 1]
  /\ last' = used + 1
  /\ lock' = MoveLock(p, used + 1)
  /\ at' = [at EXCEPT ![p] = used + 1]
  /\ UNCHANGED <<items, grown, freed, pc, want, hold, todo, mods, gcVars, walkVars>>

NewPageStaleNext(p) ==
  /\ pc[p] = "add" /\ todo[p] # <<>> /\ ~Fits(at[p], Head(todo[p]))
  /\ next[at[p]] = NoBlock
  /\ used < MaxBlocks
  /\ used' = used + 1
  /\ next' = [next EXCEPT ![at[p]] = used + 1, ![used + 1] = Start]
  /\ last' = used + 1
  /\ lock' = MoveLock(p, used + 1)
  /\ at' = [at EXCEPT ![p] = used + 1]
  /\ UNCHANGED <<items, grown, freed, pc, want, hold, todo, mods, gcVars, walkVars>>

\* A new page is linked to the current one and recorded in the header, whose
\* lock nobody holds while waiting for another.
NewPage(p) ==
  /\ pc[p] = "add" /\ todo[p] # <<>> /\ ~Fits(at[p], Head(todo[p]))
  /\ next[at[p]] = NoBlock
  /\ used < MaxBlocks
  /\ used' = used + 1
  /\ next' = [next EXCEPT ![at[p]] = used + 1]
  /\ last' = used + 1
  /\ lock' = MoveLock(p, used + 1)
  /\ at' = [at EXCEPT ![p] = used + 1]
  /\ UNCHANGED <<items, grown, freed, pc, want, hold, todo, mods, gcVars, walkVars>>

\* All buffers are dropped.  A maintainer that moved an entry goes on to the
\* next entry to modify; after its created entries it collects garbage.
EndAdd(p) ==
  /\ pc[p] = "add" /\ todo[p] = <<>>
  /\ lock' = [b \in Block |-> IF lock[b] = p THEN NoProc ELSE lock[b]]
  /\ hold' = [hold EXCEPT ![p] = NoBlock]
  /\ IF p \in Maintainers /\ hold[p] # NoBlock
     THEN /\ pc' = [pc EXCEPT ![p] = "modify"]
          /\ at' = [at EXCEPT ![p] = NoBlock]
          /\ todo' = [todo EXCEPT ![p] = Created[p]]
     ELSE /\ pc' = [pc EXCEPT ![p] = IF p \in Maintainers THEN "gc" ELSE "done"]
          /\ at' = [at EXCEPT ![p] = IF p \in Maintainers THEN Start ELSE NoBlock]
          /\ UNCHANGED todo
  /\ UNCHANGED <<pageVars, want, mods, gcVars, walkVars>>

-----------------------------------------------------------------------------
(* save_new_metas: the modified entries                                     *)

\* The page is locked and the entry replaced on it.  (The lookup that named
\* the page ran before; nobody else moves the entries of a maintainer.)
ReplaceInPlace(m) ==
  /\ pc[m] = "modify" /\ mods[m] # <<>>
  /\ LET i == Head(mods[m]) IN
     \E b \in Linked :
       /\ i \in items[b] /\ lock[b] = NoProc
       /\ i \in grown \/ Used(b) < Capacity
       /\ grown' = grown \cup {i}
       /\ mods' = [mods EXCEPT ![m] = Tail(@)]
  /\ UNCHANGED <<next, items, freed, used, last, lock, pc, at, want, hold, todo, gcVars, walkVars>>

\* It does not fit: it is deleted from the page, which stays locked while
\* add_items appends it somewhere further on.
DeleteAndMove(m) ==
  /\ pc[m] = "modify" /\ mods[m] # <<>>
  /\ LET i == Head(mods[m]) IN
     \E b \in Linked :
       /\ i \in items[b] /\ lock[b] = NoProc
       /\ i \notin grown /\ Used(b) = Capacity
       /\ items' = [items EXCEPT ![b] = @ \ {i}]
       /\ grown' = grown \cup {i}
       /\ lock' = [lock EXCEPT ![b] = m]
       /\ at' = [at EXCEPT ![m] = b]
       /\ hold' = [hold EXCEPT ![m] = b]
       /\ todo' = [todo EXCEPT ![m] = <<i>>]
       /\ mods' = [mods EXCEPT ![m] = Tail(@)]
  /\ pc' = [pc EXCEPT ![m] = "add"]
  /\ UNCHANGED <<next, freed, used, last, want, gcVars, walkVars>>

EndModify(m) ==
  /\ pc[m] = "modify" /\ mods[m] = <<>>
  /\ want' = [want EXCEPT ![m] = Start]
  /\ pc' = [pc EXCEPT ![m] = "wait"]
  /\ UNCHANGED <<pageVars, lock, at, hold, todo, mods, gcVars, walkVars>>

-----------------------------------------------------------------------------
(* garbage_collect: at[m] is current_blockno, ahead[m] blockno              *)

\* LockBufferForCleanup: nobody else has the page locked or pinned.
ForCleanup(b) == lock[b] = NoProc /\ \A p \in Writers : want[p] # b

\* Mutants of CollectPage: an emptied page forgets its next_blockno; the
\* buffer is not dropped.
CollectPageResetsNext(m) ==
  LET b == at[m]
      kept == items[b] \ Garbage
  IN /\ pc[m] = "gc"
     /\ ForCleanup(b)
     /\ items' = [items EXCEPT ![b] = kept]
     /\ ahead' = [ahead EXCEPT ![m] = next[b]]
     /\ freed' = IF b # Start /\ kept = {} THEN freed \cup {b} ELSE freed
     /\ pc' = [pc EXCEPT ![m] =
                 IF b # Start /\ kept # {} THEN "relink"
                 ELSE IF b # Start /\ next[b] = NoBlock THEN "unlink"
                 ELSE IF next[b] = NoBlock THEN "done" ELSE "gc"]
     /\ at' = [at EXCEPT ![m] = IF b # Start /\ kept # {} THEN b ELSE next[b]]
     /\ next' = IF b # Start /\ kept = {} THEN [next EXCEPT ![b] = NoBlock] ELSE next
     /\ UNCHANGED <<grown, used, last, lock, want, hold, todo, mods, filled, walkVars>>

CollectPageKeepsLock(m) ==
  LET b == at[m]
      kept == items[b] \ Garbage
  IN /\ pc[m] = "gc"
     /\ ForCleanup(b)
     /\ items' = [items EXCEPT ![b] = kept]
     /\ ahead' = [ahead EXCEPT ![m] = next[b]]
     /\ freed' = IF b # Start /\ kept = {} THEN freed \cup {b} ELSE freed
     /\ pc' = [pc EXCEPT ![m] =
                 IF b # Start /\ kept # {} THEN "relink"
                 ELSE IF b # Start /\ next[b] = NoBlock THEN "unlink"
                 ELSE IF next[b] = NoBlock THEN "done" ELSE "gc"]
     /\ at' = [at EXCEPT ![m] = IF b # Start /\ kept # {} THEN b ELSE next[b]]
     /\ lock' = [lock EXCEPT ![b] = m]
     /\ UNCHANGED <<next, grown, used, last, want, hold, todo, mods, filled, walkVars>>

\* One turn of the loop, up to drop(buffer): recyclable entries are deleted,
\* an emptied page is marked deleted.  Both ways of relinking the last filled
\* page come after the buffer is dropped.
CollectPage(m) ==
  LET b == at[m]
      kept == items[b] \ Garbage
  IN /\ pc[m] = "gc"
     /\ ForCleanup(b)
     /\ items' = [items EXCEPT ![b] = kept]
     /\ ahead' = [ahead EXCEPT ![m] = next[b]]
     /\ freed' = IF b # Start /\ kept = {} THEN freed \cup {b} ELSE freed
     /\ pc' = [pc EXCEPT ![m] =
                 IF b # Start /\ kept # {} THEN "relink"
                 ELSE IF b # Start /\ next[b] = NoBlock THEN "unlink"
                 ELSE IF next[b] = NoBlock THEN "done" ELSE "gc"]
     /\ at' = [at EXCEPT ![m] = IF b # Start /\ kept # {} THEN b ELSE next[b]]
     /\ UNCHANGED <<next, grown, used, last, lock, want, hold, todo, mods, filled, walkVars>>

\* Mutant of Relink: the last filled page points past the current one.
RelinkPast(m) ==
  /\ pc[m] = "relink" /\ lock[filled[m]] = NoProc
  /\ next' = [next EXCEPT ![filled[m]] = ahead[m]]
  /\ filled' = [filled EXCEPT ![m] = at[m]]
  /\ at' = [at EXCEPT ![m] = ahead[m]]
  /\ pc' = [pc EXCEPT ![m] = IF ahead[m] = NoBlock THEN "done" ELSE "gc"]
  /\ UNCHANGED <<items, grown, freed, used, last, lock, want, hold, todo, mods, ahead, walkVars>>

\* A page with entries: the last filled page before it must point to it.
Relink(m) ==
  /\ pc[m] = "relink" /\ lock[filled[m]] = NoProc
  /\ next' = [next EXCEPT ![filled[m]] = at[m]]
  /\ filled' = [filled EXCEPT ![m] = at[m]]
  /\ at' = [at EXCEPT ![m] = ahead[m]]
  /\ pc' = [pc EXCEPT ![m] = IF ahead[m] = NoBlock THEN "done" ELSE "gc"]
  /\ UNCHANGED <<items, grown, freed, used, last, lock, want, hold, todo, mods, ahead, walkVars>>

\* Mutant of Unlink: the end of the list is left as it is.
UnlinkNothing(m) ==
  /\ pc[m] = "unlink" /\ lock[filled[m]] = NoProc
  /\ pc' = [pc EXCEPT ![m] = "done"]
  /\ UNCHANGED <<pageVars, lock, at, want, hold, todo, mods, gcVars, walkVars>>

\* The end of the list was emptied: the last filled page becomes its end.
Unlink(m) ==
  /\ pc[m] = "unlink" /\ lock[filled[m]] = NoProc
  /\ next' = [next EXCEPT ![filled[m]] = NoBlock]
  /\ pc' = [pc EXCEPT ![m] = "done"]
  /\ UNCHANGED <<items, grown, freed, used, last, lock, at, want, hold, todo, mods, gcVars, walkVars>>

-----------------------------------------------------------------------------
(* load_metas and lookup_ex                                                 *)

BeginWalk(r) ==
  /\ pc[r] \in {"idle", "read"}
  /\ pc' = [pc EXCEPT ![r] = "walk"]
  /\ at' = [at EXCEPT ![r] = Start]
  /\ seen' = [seen EXCEPT ![r] = {}]
  /\ twice' = [twice EXCEPT ![r] = {}]
  /\ due' = [due EXCEPT ![r] = Listed \ Garbage]
  /\ UNCHANGED <<pageVars, lock, want, hold, todo, mods, gcVars>>

\* A page is read under a share lock; only its next_blockno is carried on.
ReadPage(r) ==
  LET b == at[r] IN
  /\ pc[r] = "walk" /\ lock[b] = NoProc
  /\ seen' = [seen EXCEPT ![r] = @ \cup items[b]]
  /\ twice' = [twice EXCEPT ![r] = @ \cup (seen[r] \cap items[b])]
  /\ at' = [at EXCEPT ![r] = next[b]]
  /\ pc' = [pc EXCEPT ![r] = IF next[b] = NoBlock THEN "read" ELSE "walk"]
  /\ UNCHANGED <<pageVars, lock, want, hold, todo, mods, gcVars, due>>

-----------------------------------------------------------------------------
AddStep(p) == BeginAdd(p) \/ LockPage(p) \/ AppendItem(p) \/ GoNext(p) \/ NewPage(p) \/ EndAdd(p)

MaintainStep(m) ==
  \/ ReplaceInPlace(m) \/ DeleteAndMove(m) \/ EndModify(m)
  \/ CollectPage(m) \/ Relink(m) \/ Unlink(m)

ReadStep(r) == BeginWalk(r) \/ ReadPage(r)

Next ==
  \/ \E p \in Writers : AddStep(p)
  \/ \E m \in Maintainers : MaintainStep(m)
  \/ \E r \in Readers : ReadStep(r)

Spec == Init /\ [][Next]_vars

\* Buffer locks are granted to those who wait for them, and readers hold one
\* only while they look at a page.
FairSpec ==
  /\ Spec
  /\ \A p \in Writers : WF_vars(AddStep(p))
  /\ \A m \in Maintainers : WF_vars(MaintainStep(m))

-----------------------------------------------------------------------------
(* Properties                                                               *)

PC == {"idle", "modify", "wait", "add", "gc", "relink", "unlink", "done", "walk", "read"}

\* Types of the variables.
TypeOK ==
  /\ next \in [Block -> Block \cup {NoBlock}]
  /\ items \in [Block -> SUBSET Entries]
  /\ grown \subseteq Entries /\ freed \subseteq Block
  /\ used \in Block /\ last \in Block
  /\ lock \in [Block -> Writers \cup {NoProc}]
  /\ pc \in [Proc -> PC] /\ at \in [Proc -> Block \cup {NoBlock}]
  /\ want \in [Writers -> Block \cup {NoBlock}]
  /\ hold \in [Writers -> Block \cup {NoBlock}]
  /\ todo \in [Writers -> Seq(Entries)]
  /\ filled \in [Maintainers -> Block] /\ ahead \in [Maintainers -> Block \cup {NoBlock}]

\* The entries that were ever appended: those of Init and those no longer to do.
Appended == StartEntries \cup UNION {ToSet(Created[p]) \ ToSet(todo[p]) :
              p \in {q \in Writers : pc[q] \notin {"idle", "modify"} /\ hold[q] = NoBlock}}

\* An entry that add_items has appended can be found from the start page, or
\* is being moved under the lock of its old page, until it is recyclable.
NothingLost == Appended \ Garbage \subseteq Listed

\* A walk (load_metas, lookup_ex) meets every entry that was in the list when
\* it began and is not recyclable, whatever is moved, unlinked or added
\* between two of its pages: lookup_ex fails for none of them ("we should
\* have -- how else could we have asked for something from the list?").
WalkComplete == \A r \in Readers : pc[r] = "read" => due[r] \subseteq seen[r]

\* No walk meets an entry twice (load_metas would list the segment twice),
\* except one that moved to a later page when its delete file made it grow.
NoDoubleRead == \A r \in Readers : twice[r] \subseteq grown

\* A page that garbage_collect marked deleted, and that new_buffer will hand
\* out again, is off the chain when garbage_collect returns.
FreedUnlinked ==
  (\A m \in Maintainers : pc[m] = "done") => freed \cap Linked = {}

\* The list implements a set of entries that loses nothing but garbage.
EntryListSpec == INSTANCE EntryList WITH entries <- Listed, Initial <- StartEntries

ListRefinement == EntryListSpec!Spec

\* Every add_items and every garbage_collect returns: the page locks are
\* taken in list order, and garbage_collect waits with none held.
WritersFinish == \A p \in Writers : pc[p] \in {"wait", "add", "gc", "modify"} ~> pc[p] = "done"

-----------------------------------------------------------------------------
(* The inductive invariant behind FreedUnlinked (LinkedItemsProofs).        *)

\* A maintainer works on its own: INSERTs add to the list at the same time as
\* other INSERTs only.  The code does not see to that: where the two overlap,
\* entries are lost.
Separate == \A W \in Together : \A m \in W \cap Maintainers : W \cap Writers = {m}

Collecting(m) == pc[m] \in {"gc", "relink", "unlink"}

\* Who is at work.
PhaseInv ==
  /\ \A r \in Readers : pc[r] = "walk" => at[r] \in Block
  /\ \A p \in Adders : pc[p] \in {"idle", "wait", "add", "done"} /\ hold[p] = NoBlock
  /\ \A m \in Maintainers :
       /\ pc[m] \notin {"idle", "walk", "read"}
       /\ pc[m] # "done" => \A p \in Writers \ {m} : pc[p] = "done"
       /\ pc[m] \in {"modify", "wait", "add"} => filled[m] = Start

\* Where the writers are, and what they have to do.
WriterInv ==
  \A p \in Writers :
    /\ pc[p] = "wait" => want[p] \in Linked
    /\ pc[p] = "add" => at[p] \in Linked
    /\ pc[p] \in {"idle", "modify"} => hold[p] = NoBlock /\ todo[p] = Created[p]
    /\ hold[p] # NoBlock => pc[p] \in {"wait", "add"} /\ Len(todo[p]) <= 1

\* The list is a chain, and the pages not allocated yet are blank.
ChainInv ==
  /\ \A b \in Block : next[b] <= used
  /\ \A b \in freed : b <= used
  /\ \A b \in Block : b > used => next[b] = NoBlock /\ items[b] = {}
  /\ \A b \in Linked : next[b] # Start
  /\ \A b, c \in Linked : next[b] = next[c] /\ next[b] # NoBlock => b = c

\* The pages garbage_collect has emptied and not unlinked yet: they lie between
\* the last filled page and the page it has come to, and P is what lies before.
Emptied == freed \cap Linked

GapInv(m) ==
  \/ pc[m] = "gc" /\ at[m] = Start /\ filled[m] = Start /\ Emptied = {}
  \/ /\ pc[m] = "unlink" <=> at[m] = NoBlock
     /\ at[m] = NoBlock \/ at[m] \in Linked \ freed
     /\ pc[m] = "relink" => ahead[m] = next[at[m]]
     /\ \A b \in Emptied : items[b] = {}
     /\ \A b \in Emptied \cup {filled[m]} : next[b] \in Emptied \cup {at[m]}
     /\ \E b \in Emptied \cup {filled[m]} : next[b] = at[m]
     /\ \A b \in Linked : next[b] \in Emptied => b \in Emptied \cup {filled[m]}
     /\ \E P \in SUBSET (Linked \ freed) :
          /\ Start \in P /\ filled[m] \in P /\ at[m] \notin P
          /\ \A b \in Linked : next[b] \in P => b \in P

CollectInv ==
  /\ \A m \in Maintainers : Collecting(m) => GapInv(m)
  /\ Emptied # {} => \E m \in Maintainers : Collecting(m)

ListInv ==
  TypeOK /\ PhaseInv /\ WriterInv /\ ChainInv /\ CollectInv /\ NothingLost

-----------------------------------------------------------------------------
(* What WalkComplete and NoDoubleRead need beside ListInv.                  *)

\* The pages a walk that has come to page b still meets, if nothing changes.
IsTail(b, S) == b \in S /\ \A c \in S : next[c] \in S \cup {NoBlock}
From(b) == {c \in Block : \A S \in SUBSET Block : IsTail(b, S) => c \in S}

WalkType ==
  /\ seen \in [Readers -> SUBSET Entries] /\ twice \in [Readers -> SUBSET Entries]
  /\ due \in [Readers -> SUBSET (Entries \ Garbage)]

\* The page a moved entry came from stays locked, and the entry goes behind it.
MoveInv ==
  \A m \in Maintainers : hold[m] # NoBlock =>
    /\ hold[m] \in Linked /\ lock[hold[m]] = m
    /\ pc[m] = "wait" => want[m] \in From(hold[m])
    /\ pc[m] = "add" => at[m] \in From(hold[m])

\* What a walk has still to find is on a page it has still to come to, or is
\* being moved from one.
WalkInv ==
  \A r \in Readers :
    /\ pc[r] = "walk" => \A e \in due[r] \ seen[r] :
         \/ \E b \in From(at[r]) : e \in items[b]
         \/ \E m \in Maintainers : hold[m] \in From(at[r]) /\ todo[m] # <<>> /\ e = Head(todo[m])
    /\ pc[r] = "read" => due[r] \subseteq seen[r]

\* Pages are linked in the order they were allocated.
OrderInv ==
  /\ \A b \in Block : next[b] # NoBlock => b < next[b]
  /\ \A m \in Maintainers : Collecting(m) =>
       \/ pc[m] = "gc" /\ at[m] = Start
       \/ at[m] = NoBlock
       \/ filled[m] < at[m]

\* The entries p will append and has not been asked to move.
Pending(p) == ToSet(IF hold[p] = NoBlock THEN todo[p] ELSE Created[p])

PendingInv ==
  \A p \in Writers :
    /\ hold[p] = NoBlock => IsInjective(todo[p]) /\ ToSet(todo[p]) \subseteq ToSet(Created[p])
    /\ hold[p] # NoBlock /\ todo[p] # <<>> => Head(todo[p]) \in grown
    /\ Pending(p) \cap grown = {} /\ \A b \in Block : Pending(p) \cap items[b] = {}
    /\ \A r \in Readers : Pending(p) \cap seen[r] = {}

\* An entry that was not moved is on one page, and no page that a walk has
\* still to come to has one that it has seen.
OnceInv ==
  /\ \A b, c \in Block : b # c => items[b] \cap items[c] \subseteq grown
  /\ \A r \in Readers : pc[r] = "walk" =>
       \A b \in Block : at[r] <= b => seen[r] \cap items[b] \subseteq grown

ReaderInv ==
  /\ WalkType /\ MoveInv /\ WalkInv
  /\ OrderInv /\ PendingInv /\ OnceInv /\ NoDoubleRead
-----------------------------------------------------------------------------
(* INSERTs that add entries while a merge or VACUUM is at work              *)
(* (LinkedItemsProofs).                                                     *)

\* One maintainer at a time, which the merge lock gives; any number of adders.
OneMaintainer == \A W \in Together : \A m, n \in W \cap Maintainers : m = n

\* An entry that can be found from the start page, or is being moved, is lost
\* only where garbage_collect points the last filled page past the pages it
\* emptied: no other step of INSERTs, merges and VACUUM takes one away.
OnlyRelinkingLoses ==
  [][\/ Listed \ Garbage \subseteq Listed'
     \/ \E m \in Maintainers : Relink(m) \/ Unlink(m)]_vars

\* Nobody is off the pages, and the maintainer is on the list as long as it
\* adds: only its own garbage_collect takes pages off it.
PlaceInv ==
  /\ \A p \in Writers : /\ pc[p] = "wait" => want[p] \in Block
                        /\ pc[p] = "add" => at[p] \in Block
  /\ \A r \in Readers : pc[r] = "walk" => at[r] \in Block
  /\ \A m \in Maintainers :
       /\ pc[m] \in {"gc", "relink"} => at[m] \in Block
       /\ pc[m] = "wait" => want[m] \in Linked
       /\ pc[m] = "add" => at[m] \in Linked
       /\ hold[m] # NoBlock => pc[m] \in {"wait", "add"}
       /\ \A n \in Maintainers : m # n => pc[m] = "done" \/ pc[n] = "done"
=============================================================================
