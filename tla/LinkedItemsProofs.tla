-------------------------- MODULE LinkedItemsProofs --------------------------
(***************************************************************************)
(* For any number of processes, pages and entries: as long as a maintainer *)
(* works on its own, garbage_collect leaves no page that it marked deleted *)
(* on the chain, and a walk along the list misses no entry and reads none  *)
(* twice that was not moved; and where INSERTs add entries while a merge   *)
(* or VACUUM is at work, no step but the relinking of garbage_collect takes*)
(* an entry off the list.                                                  *)
(***************************************************************************)
EXTENDS LinkedItems, WellFoundedInduction, TLAPS

(* The pages that can be reached from the start page by n.                  *)

Chain(n, S) == Start \in S /\ \A b \in S : n[b] \in S \cup {NoBlock}
Reach(n) == {b \in Block : \A S \in SUBSET Block : Chain(n, S) => b \in S}

LEMMA LinkedIs == Linked = Reach(next) /\ Linked' = Reach(next')
BY DEF Linked, IsChain, Reach, Chain

LEMMA ProcIs ==
  /\ Writers \subseteq Proc /\ Maintainers \subseteq Writers /\ Adders \subseteq Writers
  /\ Maintainers \subseteq Proc /\ Readers \subseteq Proc
  /\ Adders \cap Maintainers = {} /\ Writers \cap Readers = {}
  /\ \A p \in Writers : p \in Adders \/ p \in Maintainers
BY ListAssumption DEF Writers, Proc

LEMMA BlockIs == Start \in Block /\ NoBlock \notin Block /\ \A b \in Block : b \in Nat
BY ListAssumption DEF Block, Start, NoBlock

LEMMA ReachIs ==
  ASSUME NEW n \in [Block -> Block \cup {NoBlock}]
  PROVE  /\ Start \in Reach(n) /\ Reach(n) \subseteq Block
         /\ \A b \in Reach(n) : n[b] \in Reach(n) \cup {NoBlock}
         /\ \A S \in SUBSET Block : Chain(n, S) => Reach(n) \subseteq S
<1>1. Start \in Reach(n) /\ Reach(n) \subseteq Block
  BY BlockIs DEF Reach, Chain
<1>2. ASSUME NEW b \in Reach(n), n[b] # NoBlock PROVE n[b] \in Reach(n)
  <2>1. b \in Block /\ n[b] \in Block
    BY <1>1, <1>2
  <2>2. ASSUME NEW S \in SUBSET Block, Chain(n, S) PROVE n[b] \in S
    <3>1. b \in S
      BY <2>2 DEF Reach
    <3> QED BY <1>2, <2>2, <3>1 DEF Chain
  <2> QED BY <2>1, <2>2 DEF Reach
<1>3. \A S \in SUBSET Block : Chain(n, S) => Reach(n) \subseteq S
  BY DEF Reach
<1> QED BY <1>1, <1>2, <1>3

\* A page is put behind the last one.
LEMMA ReachAppend ==
  ASSUME NEW n \in [Block -> Block \cup {NoBlock}], NEW a \in Reach(n), n[a] = NoBlock,
         NEW c \in Block, c \notin Reach(n), n[c] = NoBlock
  PROVE  Reach([n EXCEPT ![a] = c]) = Reach(n) \cup {c}
<1> PICK n2 : n2 = [n EXCEPT ![a] = c]
  OBVIOUS
<1> SUFFICES Reach(n2) = Reach(n) \cup {c}
  OBVIOUS
<1>1. /\ Start \in Reach(n) /\ Reach(n) \subseteq Block
      /\ \A b \in Reach(n) : n[b] \in Reach(n) \cup {NoBlock}
      /\ \A S \in SUBSET Block : Chain(n, S) => Reach(n) \subseteq S
  BY ReachIs
<1>2. n2 \in [Block -> Block \cup {NoBlock}] /\ a \in Block
  BY <1>1
<1>3. n2[a] = c /\ \A b \in Block \ {a} : n2[b] = n[b]
  BY <1>2
<1>4. /\ Start \in Reach(n2) /\ Reach(n2) \subseteq Block
      /\ \A b \in Reach(n2) : n2[b] \in Reach(n2) \cup {NoBlock}
      /\ \A S \in SUBSET Block : Chain(n2, S) => Reach(n2) \subseteq S
  BY <1>2, ReachIs
<1>5. Chain(n2, Reach(n) \cup {c})
  BY <1>1, <1>3 DEF Chain
<1>6. Chain(n, Reach(n2))
  BY <1>3, <1>4 DEF Chain
<1>7. Reach(n) \subseteq Reach(n2)
  BY <1>1, <1>4, <1>6
<1>8. c \in Reach(n2)
  BY <1>3, <1>4, <1>7, BlockIs
<1>9. Reach(n) \cup {c} \in SUBSET Block
  BY <1>1
<1>10. Reach(n2) \subseteq Reach(n) \cup {c}
  BY <1>4, <1>5, <1>9
<1> QED BY <1>7, <1>8, <1>10

\* The pages in G, which follow page f, are taken out.
LEMMA ReachCut ==
  ASSUME NEW n \in [Block -> Block \cup {NoBlock}], NEW G \in SUBSET Reach(n), Start \notin G,
         NEW f \in Reach(n) \ G, NEW t \in (Reach(n) \ G) \cup {NoBlock},
         \A b \in G \cup {f} : n[b] \in G \cup {t},
         \A b \in Reach(n) : n[b] \in G => b \in G \cup {f}
  PROVE  Reach([n EXCEPT ![f] = t]) = Reach(n) \ G
<1> PICK n2 : n2 = [n EXCEPT ![f] = t]
  OBVIOUS
<1> SUFFICES Reach(n2) = Reach(n) \ G
  OBVIOUS
<1>1. /\ Start \in Reach(n) /\ Reach(n) \subseteq Block
      /\ \A b \in Reach(n) : n[b] \in Reach(n) \cup {NoBlock}
      /\ \A S \in SUBSET Block : Chain(n, S) => Reach(n) \subseteq S
  BY ReachIs
<1>2. n2 \in [Block -> Block \cup {NoBlock}] /\ f \in Block
  BY <1>1
<1>3. n2[f] = t /\ \A b \in Block \ {f} : n2[b] = n[b]
  BY <1>2
<1>4. /\ Start \in Reach(n2) /\ Reach(n2) \subseteq Block
      /\ \A b \in Reach(n2) : n2[b] \in Reach(n2) \cup {NoBlock}
      /\ \A S \in SUBSET Block : Chain(n2, S) => Reach(n2) \subseteq S
  BY <1>2, ReachIs
<1>5. Chain(n2, Reach(n) \ G)
  BY <1>1, <1>3, BlockIs DEF Chain
<1>6. Reach(n2) \subseteq Reach(n) \ G
  BY <1>1, <1>4, <1>5
<1>7. f \in Reach(n2)
  <2> SUFFICES ASSUME f \notin Reach(n2) PROVE FALSE
    OBVIOUS
  <2>1. Chain(n, Reach(n2))
    <3>1. \A b \in Reach(n2) : b \in Block \ {f}
      BY <1>4
    <3>2. \A b \in Reach(n2) : n[b] \in Reach(n2) \cup {NoBlock}
      BY <1>3, <1>4, <3>1
    <3> QED BY <1>4, <3>2 DEF Chain
  <2>2. Reach(n2) \in SUBSET Block
    BY <1>4
  <2>3. Reach(n) \subseteq Reach(n2)
    BY <1>1, <2>1, <2>2
  <2> QED BY <2>3
<1>8. t \in Reach(n2) \cup {NoBlock}
  BY <1>3, <1>4, <1>7
<1>9. Chain(n, Reach(n2) \cup G)
  <2>1. ASSUME NEW b \in Reach(n2), b # f PROVE n[b] \in Reach(n2) \cup {NoBlock}
    BY <1>3, <1>4, <2>1
  <2>2. \A b \in G \cup {f} : n[b] \in Reach(n2) \cup G \cup {NoBlock}
    BY <1>8
  <2> QED BY <1>4, <2>1, <2>2 DEF Chain
<1>10. Reach(n) \subseteq Reach(n2) \cup G
  BY <1>1, <1>4, <1>9
<1> QED BY <1>6, <1>10

\* The least element of a set of numbers.
LEMMA LeastIs ==
  ASSUME NEW D \in SUBSET Nat, D # {}
  PROVE  \E k \in D : \A j \in D : k <= j
<1>1. PICK R : R = {p \in Nat \X Nat : p[1] < p[2]} /\ IsWellFoundedOn(R, Nat)
  BY NatLessThanWellFounded DEF OpToRel
<1>2. PICK k \in D : \A j \in D : ~(<<j, k>> \in R)
  BY <1>1, WFMin
<1>3. ASSUME NEW j \in D PROVE k <= j
  <2>1. j \in Nat /\ k \in Nat /\ <<j, k>> \notin R
    BY <1>2
  <2>2. ~(j < k)
    BY <1>1, <2>1
  <2> QED BY <2>1, <2>2
<1> QED BY <1>2, <1>3

\* The chain of the first pages.
LEMMA StartChain ==
  ASSUME NEW l \in Block, NEW n,
         n = [b \in Block |-> IF b < l THEN b + 1 ELSE NoBlock]
  PROVE  Reach(n) = 1..l
<1>1. n \in [Block -> Block \cup {NoBlock}] /\ l \in Nat /\ l <= MaxBlocks /\ MaxBlocks \in Nat
  BY ListAssumption DEF Block
<1>2. /\ Start \in Reach(n) /\ Reach(n) \subseteq Block
      /\ \A b \in Reach(n) : n[b] \in Reach(n) \cup {NoBlock}
      /\ \A S \in SUBSET Block : Chain(n, S) => Reach(n) \subseteq S
  BY <1>1, ReachIs
<1>3. 1..l \in SUBSET Block
  BY <1>1 DEF Block
<1>4. Chain(n, 1..l)
  <2>1. Start \in 1..l
    BY DEF Start, Block
  <2>2. \A b \in 1..l : n[b] \in 1..l \cup {NoBlock}
    BY <1>1, <1>3
  <2> QED BY <2>1, <2>2 DEF Chain
<1>5. ASSUME NEW D, D = (1..l) \ Reach(n), D # {} PROVE FALSE
  <2>1. D \in SUBSET Nat
    BY <1>5
  <2>2. PICK k \in D : \A j \in D : k <= j
    BY <1>5, <2>1, LeastIs
  <2>3. k \in 1..l /\ k \notin Reach(n) /\ k # 1
    BY <1>2, <1>5, <2>2 DEF Start
  <2>4. k - 1 \in 1..l /\ k - 1 < l /\ (k - 1) + 1 = k /\ ~(k <= k - 1)
    BY <1>1, <2>3
  <2>5. k - 1 \in Reach(n)
    BY <1>5, <2>2, <2>4
  <2>6. n[k - 1] = k
    BY <1>3, <2>4
  <2>7. k # NoBlock
    BY <2>3 DEF NoBlock
  <2> QED BY <1>2, <2>3, <2>5, <2>6, <2>7
<1>6. 1..l \subseteq Reach(n)
  BY <1>5
<1>7. Reach(n) \subseteq 1..l
  BY <1>2, <1>3, <1>4
<1> QED BY <1>6, <1>7

-----------------------------------------------------------------------------
(* What the entries of the list are made of.                                *)

\* The entry that maintainer m is moving; the entries p has appended.
Moved(m) == IF hold[m] # NoBlock /\ todo[m] # <<>> THEN {Head(todo[m])} ELSE {}
Added(p) == IF pc[p] \notin {"idle", "modify"} /\ hold[p] = NoBlock
            THEN ToSet(Created[p]) \ ToSet(todo[p]) ELSE {}

LEMMA ListedIs ==
  /\ \A x : x \in Listed <=> (\E b \in Linked : x \in items[b]) \/ \E m \in Maintainers : x \in Moved(m)
  /\ \A x : x \in Listed' <=>
       (\E b \in Linked' : x \in items'[b]) \/ \E m \in Maintainers : x \in Moved(m)'
BY DEF Listed, Moving, Moved

LEMMA AppendedIs ==
  /\ \A x : x \in Appended <=> x \in StartEntries \/ \E p \in Writers : x \in Added(p)
  /\ \A x : x \in Appended' <=> x \in StartEntries \/ \E p \in Writers : x \in Added(p)'
BY DEF Appended, Added

\* The pages of the list, in this state and the next.
LEMMA LinkedNow ==
  ASSUME TypeOK
  PROVE  /\ Start \in Linked /\ Linked \subseteq Block
         /\ \A b \in Linked : next[b] \in Linked \cup {NoBlock}
BY LinkedIs, ReachIs DEF TypeOK

LEMMA SameLinked ==
  ASSUME next' = next
  PROVE  Linked' = Linked
BY LinkedIs

\* Nothing on the list lies beyond the pages allocated.
LEMMA LinkedUsed ==
  ASSUME TypeOK, ChainInv
  PROVE  \A b \in Linked : b <= used
<1>1. PICK S : S = {b \in Block : b <= used}
  OBVIOUS
<1>2. used \in Nat /\ used >= 1 /\ next \in [Block -> Block \cup {NoBlock}]
  BY DEF TypeOK, Block
<1>3. Chain(next, S)
  <2>1. Start \in S
    BY <1>1, <1>2, BlockIs DEF Start
  <2>2. \A b \in S : next[b] \in S \cup {NoBlock}
    BY <1>1, <1>2 DEF ChainInv
  <2> QED BY <2>1, <2>2 DEF Chain
<1>4. S \in SUBSET Block
  BY <1>1
<1>5. Reach(next) \subseteq S
  BY <1>2, <1>3, <1>4, ReachIs
<1> QED BY <1>1, <1>5, LinkedIs

\* When a maintainer is at work, all other writers are done.
LEMMA OthersDone ==
  ASSUME PhaseInv, NEW m \in Maintainers, pc[m] # "done"
  PROVE  \A q \in Writers \ {m} : pc[q] = "done"
BY DEF PhaseInv

\* A step of writer p keeps the others where they are.
LEMMA PhaseKeeps ==
  ASSUME PhaseInv, NEW p \in Writers, pc[p] # "done",
         \A q \in Writers \ {p} : pc'[q] = pc[q] /\ hold'[q] = hold[q],
         \A m \in Maintainers \ {p} : filled'[m] = filled[m],
         \A q \in Readers : pc'[q] = pc[q] /\ at'[q] = at[q],
         p \in Adders => pc'[p] \in {"idle", "wait", "add", "done"} /\ hold'[p] = NoBlock,
         p \in Maintainers => /\ pc'[p] \notin {"idle", "walk", "read"}
                              /\ pc'[p] \in {"modify", "wait", "add"} => filled'[p] = Start
  PROVE  PhaseInv'
<1>1. ASSUME NEW q \in Adders PROVE pc'[q] \in {"idle", "wait", "add", "done"} /\ hold'[q] = NoBlock
  BY DEF PhaseInv, Writers
<1>2. ASSUME NEW m \in Maintainers
      PROVE  /\ pc'[m] \notin {"idle", "walk", "read"}
             /\ pc'[m] # "done" => \A q \in Writers \ {m} : pc'[q] = "done"
             /\ pc'[m] \in {"modify", "wait", "add"} => filled'[m] = Start
  <2>1. m \in Writers
    BY DEF Writers
  <2>2. CASE m = p
    BY <2>1, <2>2 DEF PhaseInv
  <2>3. CASE m # p
    <3>1. pc'[m] = pc[m] /\ filled'[m] = filled[m]
      BY <2>1, <2>3
    <3>2. pc[m] = "done"
      BY <2>3 DEF PhaseInv
    <3> QED BY <3>1, <3>2 DEF PhaseInv
  <2> QED BY <2>2, <2>3
<1> QED BY <1>1, <1>2 DEF PhaseInv

\* A step of writer p that takes no page off the list.
LEMMA WriterKeeps ==
  ASSUME WriterInv, NEW p \in Writers, Linked \subseteq Linked',
         \A q \in Writers \ {p} : /\ pc'[q] = pc[q] /\ at'[q] = at[q] /\ want'[q] = want[q]
                                  /\ hold'[q] = hold[q] /\ todo'[q] = todo[q],
         pc'[p] = "wait" => want'[p] \in Linked',
         pc'[p] = "add" => at'[p] \in Linked',
         pc'[p] \in {"idle", "modify"} => hold'[p] = NoBlock /\ todo'[p] = Created[p],
         hold'[p] # NoBlock => pc'[p] \in {"wait", "add"} /\ Len(todo'[p]) <= 1
  PROVE  WriterInv'
<1> SUFFICES ASSUME NEW q \in Writers
             PROVE  /\ pc'[q] = "wait" => want'[q] \in Linked'
                    /\ pc'[q] = "add" => at'[q] \in Linked'
                    /\ pc'[q] \in {"idle", "modify"} => hold'[q] = NoBlock /\ todo'[q] = Created[q]
                    /\ hold'[q] # NoBlock => pc'[q] \in {"wait", "add"} /\ Len(todo'[q]) <= 1
  BY DEF WriterInv
<1>1. CASE q = p
  BY <1>1
<1>2. CASE q # p
  BY <1>2 DEF WriterInv
<1> QED BY <1>1, <1>2

\* A step of process p that leaves the pages alone.
LEMMA Quiet ==
  ASSUME ListInv, TypeOK', UNCHANGED <<next, items, freed, used, gcVars>>, NEW p \in Proc,
         \A q \in Proc \ {p} : pc'[q] = pc[q] /\ at'[q] = at[q],
         \A q \in Writers \ {p} : want'[q] = want[q] /\ hold'[q] = hold[q] /\ todo'[q] = todo[q],
         p \in Readers /\ pc'[p] = "walk" => at'[p] \in Block,
         p \in Writers =>
           /\ pc[p] # "done" /\ ~Collecting(p)
           /\ p \in Adders => pc'[p] \in {"idle", "wait", "add", "done"} /\ hold'[p] = NoBlock
           /\ p \in Maintainers =>
                pc'[p] \in {"modify", "wait", "add"} \/ (pc'[p] = "gc" /\ at'[p] = Start)
           /\ pc'[p] = "wait" => want'[p] \in Linked
           /\ pc'[p] = "add" => at'[p] \in Linked
           /\ pc'[p] \in {"idle", "modify"} => hold'[p] = NoBlock /\ todo'[p] = Created[p]
           /\ hold'[p] # NoBlock => pc'[p] \in {"wait", "add"} /\ Len(todo'[p]) <= 1
           /\ Added(p)' \subseteq Added(p) /\ Moved(p)' = Moved(p)
  PROVE  ListInv' /\ Listed' = Listed
<1>1. Linked' = Linked /\ filled' = filled /\ ahead' = ahead /\ Emptied' = Emptied
  BY SameLinked DEF gcVars, Emptied
<1>2. Writers \subseteq Proc /\ Maintainers \subseteq Writers /\ Adders \subseteq Writers
      /\ Adders \cap Maintainers = {} /\ Writers \cap Readers = {}
  BY ListAssumption DEF Writers, Proc
<1>3. PhaseInv' /\ WriterInv'
  <2>1. CASE p \in Writers
    <3>0. \A q \in Readers : pc'[q] = pc[q] /\ at'[q] = at[q]
      BY <2>1, ProcIs
    <3>1. p \in Maintainers /\ pc'[p] \in {"modify", "wait", "add"} => filled[p] = Start
      BY <2>1 DEF ListInv, PhaseInv, TypeOK, PC, Collecting
    <3>2. PhaseInv'
      BY <1>1, <1>2, <2>1, <3>0, <3>1, PhaseKeeps DEF ListInv
    <3>3. WriterInv'
      BY <1>1, <1>2, <2>1, WriterKeeps DEF ListInv
    <3> QED BY <3>2, <3>3
  <2>2. CASE p \notin Writers
    <3>1. \A q \in Writers : /\ pc'[q] = pc[q] /\ at'[q] = at[q] /\ want'[q] = want[q]
                             /\ hold'[q] = hold[q] /\ todo'[q] = todo[q]
      BY <1>2, <2>2
    <3>2. PhaseInv'
      <4>1. \A q \in Readers : pc'[q] = "walk" => at'[q] \in Block
        BY ProcIs DEF ListInv, PhaseInv
      <4> QED BY <1>1, <1>2, <3>1, <4>1 DEF ListInv, PhaseInv
    <3>3. WriterInv'
      BY <1>1, <3>1 DEF ListInv, WriterInv
    <3> QED BY <3>2, <3>3
  <2> QED BY <2>1, <2>2
<1>4. ChainInv'
  BY <1>1 DEF ListInv, ChainInv
<1>5. ASSUME NEW m \in Maintainers, Collecting(m)' PROVE GapInv(m)'
  <2>1. CASE m = p
    <3>1. pc'[m] = "gc" /\ at'[m] = Start /\ pc[m] # "done" /\ ~Collecting(m)
      BY <1>2, <1>5, <2>1 DEF Collecting
    <3>2. filled[m] = Start
      BY <1>2, <3>1 DEF ListInv, PhaseInv, TypeOK, PC, Collecting
    <3>3. \A q \in Maintainers : ~Collecting(q)
      BY <1>2, <3>1 DEF ListInv, PhaseInv, Collecting
    <3>4. Emptied = {}
      BY <3>3 DEF ListInv, CollectInv
    <3> QED BY <1>1, <3>1, <3>2, <3>4 DEF GapInv
  <2>2. CASE m # p
    <3>1. pc'[m] = pc[m] /\ at'[m] = at[m]
      BY <1>2, <2>2
    <3>2. GapInv(m)
      BY <1>5, <3>1 DEF ListInv, CollectInv, Collecting
    <3> QED BY <1>1, <3>1, <3>2 DEF GapInv
  <2> QED BY <2>1, <2>2
<1>6. ASSUME Emptied' # {} PROVE \E m \in Maintainers : Collecting(m)'
  <2>1. PICK m \in Maintainers : Collecting(m)
    BY <1>1, <1>6 DEF ListInv, CollectInv
  <2>2. m # p
    BY <1>2, <2>1
  <2> QED BY <1>2, <2>1, <2>2 DEF Collecting
<1>7. CollectInv'
  BY <1>5, <1>6 DEF CollectInv
<1>8. \A m \in Maintainers : Moved(m)' = Moved(m)
  <2>1. \A m \in Maintainers \ {p} : Moved(m)' = Moved(m)
    BY <1>2 DEF Moved
  <2> QED BY <1>2, <2>1
<1>9. Listed' = Listed
  <2>1. \A x : x \in Listed' <=> x \in Listed
    BY <1>1, <1>8, ListedIs
  <2> QED BY <2>1
<1>10. \A q \in Writers : Added(q)' \subseteq Added(q)
  <2>1. \A q \in Writers \ {p} : Added(q)' = Added(q)
    BY <1>2 DEF Added
  <2> QED BY <1>2, <2>1
<1>11. NothingLost'
  BY <1>9, <1>10, AppendedIs DEF ListInv, NothingLost
<1> QED BY <1>3, <1>4, <1>7, <1>9, <1>11 DEF ListInv

-----------------------------------------------------------------------------
(* The steps                                                                *)

\* garbage_collect is on a page.
LEMMA CollectsPage ==
  ASSUME ListInv, NEW m \in Maintainers, pc[m] \in {"gc", "relink"}
  PROVE  at[m] \in Linked /\ at[m] \in Block
<1>1. GapInv(m) /\ TypeOK
  BY DEF ListInv, CollectInv, Collecting
<1> QED BY <1>1, LinkedNow DEF GapInv

\* Everyone is on a page of the list, or at least on a page.
LEMMA PlaceIs ==
  ASSUME ListInv
  PROVE  TypeOK /\ PlaceInv
<1>1. TypeOK /\ PhaseInv /\ WriterInv /\ Linked \subseteq Block
  BY LinkedNow DEF ListInv
<1>2. \A m \in Maintainers : pc[m] \in {"gc", "relink"} => at[m] \in Block
  BY CollectsPage
<1>3. \A p \in Writers : /\ pc[p] = "wait" => want[p] \in Linked
                         /\ pc[p] = "add" => at[p] \in Linked
                         /\ hold[p] # NoBlock => pc[p] \in {"wait", "add"}
  BY <1>1 DEF WriterInv
<1>4. \A m, n \in Maintainers : m # n => pc[m] = "done" \/ pc[n] = "done"
  BY <1>1, ProcIs DEF PhaseInv
<1>5. \A r \in Readers : pc[r] = "walk" => at[r] \in Block
  BY <1>1 DEF PhaseInv
<1> QED BY <1>1, <1>2, <1>3, <1>4, <1>5, ProcIs DEF PlaceInv

LEMMA TypeKeeps ==
  ASSUME TypeOK, PlaceInv, Next
  PROVE  TypeOK'
<1> USE DEF TypeOK, pageVars, gcVars, walkVars
<1>1. TypeOK /\ Start \in Block /\ Start \in Linked /\ Linked \subseteq Block
      /\ \A b \in Linked : next[b] \in Linked \cup {NoBlock}
  BY BlockIs, LinkedNow
<1>2. ASSUME NEW p \in Writers, AddStep(p) PROVE TypeOK'
  <2>1. p \in Proc
    BY ProcIs
  <2>2. CASE BeginAdd(p)
    BY <1>1, <2>1, <2>2 DEF BeginAdd, PC
  <2>3. CASE LockPage(p)
    BY <1>1, <2>1, <2>3 DEF LockPage, PC, MoveLock
  <2>4. CASE AppendItem(p)
    <3>1. at[p] \in Block /\ todo[p] \in Seq(Entries) /\ todo[p] # <<>>
      BY <1>1, <2>4 DEF AppendItem, PlaceInv
    <3>2. Head(todo[p]) \in Entries /\ Tail(todo[p]) \in Seq(Entries)
      BY <3>1
    <3> QED BY <1>1, <2>1, <2>4, <3>1, <3>2 DEF AppendItem
  <2>5. CASE GoNext(p)
    <3>1. at[p] \in Block
      BY <1>1, <2>5 DEF GoNext, PlaceInv
    <3> QED BY <1>1, <2>1, <2>5, <3>1 DEF GoNext, PC
  <2>6. CASE NewPage(p)
    <3>1. used + 1 \in Block
      BY <1>1, <2>6, ListAssumption DEF NewPage, Block
    <3> QED BY <1>1, <2>1, <2>6, <3>1 DEF NewPage, MoveLock
  <2>7. CASE EndAdd(p)
    <3>1. Created[p] \in Seq(Entries)
      BY ListAssumption
    <3> QED BY <1>1, <2>1, <2>7, <3>1 DEF EndAdd, PC
  <2> QED BY <1>2, <2>2, <2>3, <2>4, <2>5, <2>6, <2>7 DEF AddStep
<1>3. ASSUME NEW m \in Maintainers, MaintainStep(m) PROVE TypeOK'
  <2>1. m \in Proc /\ m \in Writers
    BY ProcIs
  <2>2. CASE ReplaceInPlace(m)
    <3>1. PICK b \in Linked : Head(mods[m]) \in items[b] /\ grown' = grown \cup {Head(mods[m])}
      BY <2>2 DEF ReplaceInPlace
    <3>2. Head(mods[m]) \in Entries
      BY <1>1, <3>1
    <3> QED BY <1>1, <2>2, <3>1, <3>2 DEF ReplaceInPlace
  <2>3. CASE DeleteAndMove(m)
    <3>1. PICK i : i = Head(mods[m])
      OBVIOUS
    <3>2. PICK b \in Linked :
            /\ i \in items[b] /\ items' = [items EXCEPT ![b] = @ \ {i}]
            /\ grown' = grown \cup {i}
            /\ lock' = [lock EXCEPT ![b] = m]
            /\ at' = [at EXCEPT ![m] = b]
            /\ hold' = [hold EXCEPT ![m] = b]
            /\ todo' = [todo EXCEPT ![m] = <<i>>]
      BY <2>3, <3>1 DEF DeleteAndMove
    <3>3. b \in Block /\ i \in Entries
      BY <1>1, <3>2
    <3>4. <<i>> \in Seq(Entries)
      BY <3>3
    <3>5. /\ items' \in [Block -> SUBSET Entries] /\ grown' \subseteq Entries
          /\ lock' \in [Block -> Writers \cup {NoProc}] /\ at' \in [Proc -> Block \cup {NoBlock}]
          /\ hold' \in [Writers -> Block \cup {NoBlock}] /\ todo' \in [Writers -> Seq(Entries)]
      BY <1>1, <2>1, <3>2, <3>3, <3>4
    <3>6. pc' \in [Proc -> PC]
      BY <1>1, <2>1, <2>3 DEF DeleteAndMove, PC
    <3> QED BY <1>1, <2>3, <3>5, <3>6 DEF DeleteAndMove
  <2>4. CASE EndModify(m)
    BY <1>1, <2>1, <2>4 DEF EndModify, PC
  <2>5. CASE CollectPage(m)
    <3>1. at[m] \in Block
      BY <2>5 DEF CollectPage, PlaceInv
    <3>2. next[at[m]] \in Block \cup {NoBlock}
      BY <1>1, <3>1
    <3>3. /\ items' \in [Block -> SUBSET Entries] /\ freed' \subseteq Block
          /\ ahead' \in [Maintainers -> Block \cup {NoBlock}]
          /\ at' \in [Proc -> Block \cup {NoBlock}]
      BY <1>1, <2>1, <2>5, <3>1, <3>2 DEF CollectPage
    <3>4. pc' \in [Proc -> PC]
      BY <1>1, <2>1, <2>5 DEF CollectPage, PC
    <3> QED BY <1>1, <2>5, <3>3, <3>4 DEF CollectPage
  <2>6. CASE Relink(m)
    <3>1. at[m] \in Block
      BY <2>6 DEF Relink, PlaceInv
    <3> QED BY <1>1, <2>1, <2>6, <3>1 DEF Relink, PC
  <2>7. CASE Unlink(m)
    BY <1>1, <2>1, <2>7 DEF Unlink, PC
  <2> QED BY <1>3, <2>2, <2>3, <2>4, <2>5, <2>6, <2>7 DEF MaintainStep
<1>4. ASSUME NEW r \in Readers, ReadStep(r) PROVE TypeOK'
  <2>1. r \in Proc
    BY ProcIs
  <2>2. CASE BeginWalk(r)
    BY <1>1, <2>1, <2>2 DEF BeginWalk, PC
  <2>3. CASE ReadPage(r)
    <3>1. at[r] \in Block
      BY <2>3 DEF ReadPage, PlaceInv
    <3> QED BY <1>1, <2>1, <2>3, <3>1 DEF ReadPage, PC
  <2> QED BY <1>4, <2>2, <2>3 DEF ReadStep
<1> QED BY <1>2, <1>3, <1>4 DEF Next

LEMMA ControlKeeps ==
  ASSUME ListInv, TypeOK', NEW p \in Writers,
         \/ BeginAdd(p) \/ LockPage(p) \/ GoNext(p) \/ EndAdd(p)
         \/ p \in Maintainers /\ (ReplaceInPlace(p) \/ EndModify(p))
  PROVE  ListInv' /\ Listed' = Listed
<1> USE DEF pageVars, gcVars
<1>1. TypeOK /\ PhaseInv /\ WriterInv /\ p \in Proc
  BY ProcIs DEF ListInv
<1>2. Start \in Linked /\ NoBlock \notin Linked
      /\ \A b \in Linked : next[b] \in Linked \cup {NoBlock}
  BY <1>1, LinkedNow, BlockIs
<1>3. /\ p \in Adders => p \notin Maintainers /\ hold[p] = NoBlock
      /\ hold[p] # NoBlock => Len(todo[p]) <= 1
  BY <1>1, ProcIs DEF PhaseInv, WriterInv
<1>4. p \in Adders \/ p \in Maintainers
  BY ProcIs
<1>5. CASE BeginAdd(p)
  <2>1. /\ pc[p] = "idle" /\ pc'[p] = "wait" /\ want'[p] = Start
        /\ UNCHANGED <<next, items, freed, used, filled, ahead, at, hold, todo>>
        /\ \A q \in Proc \ {p} : pc'[q] = pc[q]
        /\ \A q \in Writers \ {p} : want'[q] = want[q]
    BY <1>1, <1>5 DEF BeginAdd, TypeOK
  <2>2. p \in Adders /\ hold[p] = NoBlock /\ todo[p] = Created[p]
    BY <1>1, <1>4, <2>1 DEF PhaseInv, WriterInv
  <2>3. Added(p)' = {} /\ Moved(p)' = Moved(p)
    BY <2>1, <2>2 DEF Added, Moved
  <2> QED BY <1>1, <1>2, <1>3, <2>1, <2>2, <2>3, ProcIs, Quiet DEF Collecting
<1>6. CASE LockPage(p)
  <2>1. /\ pc[p] = "wait" /\ pc'[p] = "add" /\ at'[p] = want[p] /\ want'[p] = NoBlock
        /\ UNCHANGED <<next, items, freed, used, filled, ahead, hold, todo>>
        /\ \A q \in Proc \ {p} : pc'[q] = pc[q] /\ at'[q] = at[q]
        /\ \A q \in Writers \ {p} : want'[q] = want[q]
    BY <1>1, <1>6 DEF LockPage, TypeOK
  <2>2. want[p] \in Linked
    BY <1>1, <2>1 DEF WriterInv
  <2>3. Added(p)' = Added(p) /\ Moved(p)' = Moved(p)
    BY <2>1 DEF Added, Moved
  <2> QED BY <1>1, <1>2, <1>3, <2>1, <2>2, <2>3, ProcIs, Quiet DEF Collecting
<1>7. CASE GoNext(p)
  <2>1. /\ pc[p] = "add" /\ pc'[p] = "wait" /\ want'[p] = next[at[p]] /\ next[at[p]] # NoBlock
        /\ UNCHANGED <<next, items, freed, used, filled, ahead, at, hold, todo>>
        /\ \A q \in Proc \ {p} : pc'[q] = pc[q]
        /\ \A q \in Writers \ {p} : want'[q] = want[q]
    BY <1>1, <1>7 DEF GoNext, TypeOK
  <2>2. want'[p] \in Linked
    BY <1>1, <1>2, <2>1 DEF WriterInv
  <2>3. Added(p)' = Added(p) /\ Moved(p)' = Moved(p)
    BY <2>1 DEF Added, Moved
  <2> QED BY <1>1, <1>2, <1>3, <2>1, <2>2, <2>3, ProcIs, Quiet DEF Collecting
<1>8. CASE EndAdd(p)
  <2>1. /\ pc[p] = "add" /\ todo[p] = <<>> /\ hold'[p] = NoBlock
        /\ UNCHANGED <<next, items, freed, used, filled, ahead, want>>
        /\ \A q \in Proc \ {p} : pc'[q] = pc[q] /\ at'[q] = at[q]
        /\ \A q \in Writers \ {p} : hold'[q] = hold[q] /\ todo'[q] = todo[q]
    BY <1>1, <1>8 DEF EndAdd, TypeOK
  <2>2. Moved(p)' = {} /\ Moved(p) = {}
    BY <2>1 DEF Moved
  <2>3. CASE p \in Maintainers /\ hold[p] # NoBlock
    <3>1. pc'[p] = "modify" /\ todo'[p] = Created[p]
      BY <1>1, <1>8, <2>3 DEF EndAdd, TypeOK
    <3>2. Added(p)' = {}
      BY <3>1 DEF Added
    <3> QED BY <1>1, <1>2, <1>3, <2>1, <2>2, <2>3, <3>1, <3>2, ProcIs, Quiet DEF Collecting
  <2>4. CASE p \in Maintainers /\ hold[p] = NoBlock
    <3>1. pc'[p] = "gc" /\ at'[p] = Start /\ todo'[p] = todo[p]
      BY <1>1, <1>8, <2>4 DEF EndAdd, TypeOK
    <3>2. Added(p)' = Added(p)
      BY <2>1, <2>4, <3>1 DEF Added
    <3> QED BY <1>1, <1>2, <1>3, <2>1, <2>2, <2>4, <3>1, <3>2, ProcIs, Quiet DEF Collecting
  <2>5. CASE p \notin Maintainers
    <3>1. pc'[p] = "done" /\ todo'[p] = todo[p] /\ hold[p] = NoBlock
      BY <1>1, <1>3, <1>4, <1>8, <2>5 DEF EndAdd, TypeOK
    <3>2. Added(p)' = Added(p)
      BY <2>1, <3>1 DEF Added
    <3> QED BY <1>1, <1>2, <1>3, <2>1, <2>2, <2>5, <3>1, <3>2, ProcIs, Quiet DEF Collecting
  <2> QED BY <2>3, <2>4, <2>5
<1>9. CASE p \in Maintainers /\ ReplaceInPlace(p)
  <2>1. /\ pc[p] = "modify"
        /\ UNCHANGED <<next, items, freed, used, filled, ahead, pc, at, want, hold, todo>>
    BY <1>9 DEF ReplaceInPlace
  <2>2. hold[p] = NoBlock /\ todo[p] = Created[p] /\ p \notin Adders
    BY <1>1, <1>3, <1>9, <2>1 DEF WriterInv
  <2>3. Added(p)' = Added(p) /\ Moved(p)' = Moved(p)
    BY <2>1 DEF Added, Moved
  <2> QED BY <1>1, <1>2, <2>1, <2>2, <2>3, ProcIs, Quiet DEF Collecting
<1>10. CASE p \in Maintainers /\ EndModify(p)
  <2>1. /\ pc[p] = "modify" /\ pc'[p] = "wait" /\ want'[p] = Start
        /\ UNCHANGED <<next, items, freed, used, filled, ahead, at, hold, todo>>
        /\ \A q \in Proc \ {p} : pc'[q] = pc[q]
        /\ \A q \in Writers \ {p} : want'[q] = want[q]
    BY <1>1, <1>10 DEF EndModify, TypeOK
  <2>2. hold[p] = NoBlock /\ todo[p] = Created[p] /\ p \notin Adders
    BY <1>1, <1>3, <1>10, <2>1 DEF WriterInv
  <2>3. Added(p)' = {} /\ Moved(p)' = Moved(p)
    BY <2>1, <2>2 DEF Added, Moved
  <2> QED BY <1>1, <1>2, <2>1, <2>2, <2>3, ProcIs, Quiet DEF Collecting
<1> QED BY <1>5, <1>6, <1>7, <1>8, <1>9, <1>10

LEMMA ReadKeeps ==
  ASSUME ListInv, TypeOK', NEW r \in Readers, ReadStep(r)
  PROVE  ListInv' /\ Listed' = Listed
<1>1. TypeOK /\ r \in Proc /\ r \notin Writers
  BY ProcIs DEF ListInv
<1>2. /\ UNCHANGED <<next, items, freed, used, gcVars, want, hold, todo>>
      /\ \A q \in Proc \ {r} : pc'[q] = pc[q] /\ at'[q] = at[q]
  BY <1>1 DEF ReadStep, BeginWalk, ReadPage, pageVars, gcVars, TypeOK
<1>3. pc'[r] = "walk" => at'[r] \in Block
  <2>1. CASE BeginWalk(r)
    BY <1>1, <2>1, BlockIs DEF BeginWalk, TypeOK
  <2>2. CASE ReadPage(r)
    <3>1. at[r] \in Block
      BY <2>2 DEF ReadPage, ListInv, PhaseInv
    <3> QED BY <1>1, <2>2, <3>1 DEF ReadPage, TypeOK
  <2> QED BY <2>1, <2>2 DEF ReadStep
<1> QED BY <1>1, <1>2, <1>3, Quiet

\* While an entry is added or moved, nobody collects garbage.
LEMMA NoCollecting ==
  ASSUME ListInv, NEW p \in Writers, pc[p] \in {"modify", "wait", "add"}
  PROVE  (\A m \in Maintainers : ~Collecting(m)) /\ Emptied = {}
<1>1. \A m \in Maintainers : ~Collecting(m)
  BY DEF ListInv, PhaseInv, Collecting
<1> QED BY <1>1 DEF ListInv, CollectInv

LEMMA TailSet ==
  ASSUME NEW S, NEW s \in Seq(S), s # <<>>
  PROVE  Head(s) \in S /\ ToSet(s) \subseteq {Head(s)} \cup ToSet(Tail(s))
<1>1. PICK t : t = Tail(s)
  OBVIOUS
<1>2. /\ Head(s) \in S /\ Head(s) = s[1] /\ Len(s) \in Nat
      /\ DOMAIN s = 1..Len(s) /\ DOMAIN t = 1..(Len(s) - 1)
  BY <1>1
<1>3. \A k \in DOMAIN t : t[k] = s[k + 1]
  BY <1>1, <1>2
<1>4. ASSUME NEW k \in DOMAIN s PROVE s[k] \in {Head(s)} \cup ToSet(t)
  <2>1. CASE k = 1
    BY <1>2, <2>1
  <2>2. CASE k # 1
    <3>1. k - 1 \in DOMAIN t /\ (k - 1) + 1 = k
      BY <1>2, <2>2
    <3>2. t[k - 1] = s[k]
      BY <1>3, <3>1
    <3> QED BY <3>1, <3>2 DEF ToSet
  <2> QED BY <2>1, <2>2
<1> QED BY <1>1, <1>2, <1>4 DEF ToSet

LEMMA AppendKeeps ==
  ASSUME ListInv, TypeOK', NEW p \in Writers, AppendItem(p)
  PROVE  ListInv'
<1>1. TypeOK /\ PhaseInv /\ WriterInv /\ ChainInv /\ NothingLost
  BY DEF ListInv
<1>2. PICK i : i = Head(todo[p])
  OBVIOUS
<1>3. /\ pc[p] = "add" /\ todo[p] # <<>> /\ todo'[p] = Tail(todo[p])
      /\ UNCHANGED <<next, freed, used, filled, ahead, pc, at, want, hold>>
      /\ \A q \in Writers \ {p} : todo'[q] = todo[q]
  BY <1>1 DEF AppendItem, gcVars, TypeOK
<1>4. at[p] \in Linked /\ at[p] \in Block
  BY <1>1, <1>3, LinkedNow DEF WriterInv
<1>5. items'[at[p]] = items[at[p]] \cup {i} /\ \A b \in Block \ {at[p]} : items'[b] = items[b]
  BY <1>1, <1>2, <1>4 DEF AppendItem, TypeOK
<1>6. i \in Entries /\ ToSet(todo[p]) \subseteq {i} \cup ToSet(todo'[p])
  <2>1. todo[p] \in Seq(Entries)
    BY <1>1 DEF TypeOK
  <2>2. Head(todo[p]) \in Entries /\ ToSet(todo[p]) \subseteq {Head(todo[p])} \cup ToSet(Tail(todo[p]))
    BY <1>3, <2>1, TailSet
  <2> QED BY <1>2, <1>3, <2>2
<1>7. Linked' = Linked /\ Emptied' = Emptied
  BY <1>3, SameLinked DEF Emptied
<1>8. PhaseInv'
  BY <1>1, <1>3 DEF PhaseInv
<1>9. hold[p] # NoBlock => todo'[p] = <<>>
  <2>1. PICK s \in Seq(Entries) : s = todo[p]
    BY <1>1 DEF TypeOK
  <2>2. ASSUME hold[p] # NoBlock PROVE Tail(s) = <<>>
    <3>1. Len(s) <= 1 /\ s # <<>>
      BY <1>1, <1>3, <2>1, <2>2 DEF WriterInv
    <3> QED BY <3>1
  <2> QED BY <1>3, <2>1, <2>2
<1>10. WriterInv'
  <2>1. Len(<<>>) <= 1
    OBVIOUS
  <2>2. hold'[p] # NoBlock => pc'[p] \in {"wait", "add"} /\ Len(todo'[p]) <= 1
    BY <1>1, <1>3, <1>9, <2>1 DEF WriterInv
  <2> QED BY <1>1, <1>3, <1>7, <2>2, WriterKeeps DEF WriterInv
<1>11. ChainInv'
  <2>1. used \in Nat /\ \A b \in Linked : b <= used
    BY <1>1, LinkedUsed DEF TypeOK, Block
  <2>2. \A b \in Block : b > used => b # at[p]
    BY <1>4, <2>1, BlockIs
  <2> QED BY <1>1, <1>3, <1>5, <1>7, <2>2 DEF ChainInv
<1>12. CollectInv'
  BY <1>3, <1>7, NoCollecting DEF CollectInv, Collecting
<1>13. Moved(p) \subseteq {i} /\ Moved(p)' = {} /\ \A m \in Maintainers \ {p} : Moved(m)' = Moved(m)
  BY <1>2, <1>3, <1>9, ProcIs DEF Moved
<1>14. /\ \A b \in Linked : b \in Block
       /\ \E b \in Linked' : i \in items'[b]
  BY <1>1, <1>4, <1>5, <1>7, LinkedNow
<1>15. \A x : x \in Listed' <=> x \in Listed \/ x = i
  <2>1. \A x : (\E b \in Linked' : x \in items'[b]) <=> (\E b \in Linked : x \in items[b]) \/ x = i
    BY <1>4, <1>5, <1>7, <1>14
  <2>2. \A x : (\E m \in Maintainers : x \in Moved(m)) <=>
               (\E m \in Maintainers : x \in Moved(m)') \/ (p \in Maintainers /\ x \in Moved(p))
    BY <1>13
  <2> QED BY <1>13, <2>1, <2>2, ListedIs
<1>17. \A q \in Writers : Added(q)' \subseteq Added(q) \cup {i}
  <2>1. \A q \in Writers \ {p} : Added(q)' = Added(q)
    BY <1>3 DEF Added
  <2>2. Added(p)' \subseteq Added(p) \cup {i}
    BY <1>3, <1>6 DEF Added
  <2> QED BY <2>1, <2>2
<1>18. NothingLost'
  <2>1. Appended' \subseteq Appended \cup {i}
    BY <1>17, AppendedIs
  <2> QED BY <1>1, <1>15, <2>1 DEF NothingLost
<1> QED BY <1>8, <1>10, <1>11, <1>12, <1>18 DEF ListInv

LEMMA NewPageKeeps ==
  ASSUME ListInv, TypeOK', NEW p \in Writers, NewPage(p)
  PROVE  ListInv' /\ Listed' = Listed
<1>1. TypeOK /\ PhaseInv /\ WriterInv /\ ChainInv /\ NothingLost
  BY DEF ListInv
<1>2. PICK c : c = used + 1
  OBVIOUS
<1>3. /\ pc[p] = "add" /\ next[at[p]] = NoBlock /\ used' = c /\ at'[p] = c
      /\ next' = [next EXCEPT ![at[p]] = c]
      /\ UNCHANGED <<items, freed, filled, ahead, pc, want, hold, todo>>
      /\ \A q \in Proc \ {p} : at'[q] = at[q]
  BY <1>1, <1>2, ProcIs DEF NewPage, gcVars, TypeOK
<1>4. at[p] \in Linked /\ Linked \subseteq Block /\ Start \in Linked
      /\ \A b \in Linked : next[b] \in Linked \cup {NoBlock}
  BY <1>1, <1>3, LinkedNow DEF WriterInv
<1>5. /\ used \in Nat /\ used >= 1 /\ c \in Block /\ c > used /\ c # Start /\ c # NoBlock
      /\ \A b \in Linked : b <= used
  BY <1>1, <1>2, LinkedUsed, ListAssumption DEF TypeOK, Block, Start, NoBlock, NewPage
<1>6. c \notin Linked /\ next[c] = NoBlock /\ items[c] = {} /\ c \notin freed
  <2>1. ~(c <= used)
    BY <1>5, BlockIs
  <2> QED BY <1>1, <1>5, <2>1 DEF ChainInv
<1>7. next \in [Block -> Block \cup {NoBlock}]
  BY <1>1 DEF TypeOK
<1>8. Linked' = Linked \cup {c}
  <2>1. at[p] \in Reach(next) /\ c \notin Reach(next)
    BY <1>4, <1>6, LinkedIs
  <2>2. next[at[p]] = NoBlock /\ next[c] = NoBlock /\ c \in Block
    BY <1>3, <1>5, <1>6
  <2>3. Reach([next EXCEPT ![at[p]] = c]) = Reach(next) \cup {c}
    BY <1>7, <2>1, <2>2, ReachAppend
  <2> QED BY <1>3, <2>3, LinkedIs
<1>9. next'[at[p]] = c /\ \A b \in Block \ {at[p]} : next'[b] = next[b]
  BY <1>3, <1>4, <1>7
<1>10. PhaseInv'
  BY <1>1, <1>3, ProcIs DEF PhaseInv
<1>11. WriterInv'
  <2>1. \A q \in Writers \ {p} : at'[q] = at[q]
    BY <1>3, ProcIs
  <2> QED BY <1>1, <1>3, <1>8, <2>1, WriterKeeps DEF WriterInv
<1>12. ChainInv'
  <2>1. ASSUME NEW b \in Block PROVE next'[b] <= c
    <3>1. next[b] <= used /\ next[b] \in Nat
      BY <1>1, <1>7, BlockIs DEF ChainInv, NoBlock
    <3> QED BY <1>5, <1>9, <3>1, BlockIs
  <2>2. ASSUME NEW b \in Block, b > c PROVE next'[b] = NoBlock /\ items'[b] = {}
    <3>1. b > used /\ b # at[p]
      BY <1>4, <1>5, <2>2, BlockIs
    <3> QED BY <1>1, <1>3, <1>9, <3>1 DEF ChainInv
  <2>3. \A b \in freed : b <= c
    BY <1>1, <1>5, BlockIs DEF ChainInv, TypeOK
  <2>4. \A b \in Linked : next[b] # c
    BY <1>4, <1>5, <1>6
  <2>5. \A b \in Linked' : next'[b] # Start
    BY <1>1, <1>4, <1>5, <1>6, <1>8, <1>9, BlockIs DEF ChainInv
  <2>6. ASSUME NEW b \in Linked', NEW d \in Linked', next'[b] = next'[d], next'[b] # NoBlock
        PROVE  b = d
    <3>1. next'[c] = NoBlock
      BY <1>4, <1>5, <1>6, <1>9
    <3>2. b \in Linked /\ d \in Linked
      BY <1>8, <2>6, <3>1
    <3>3. CASE b = at[p] \/ d = at[p]
      BY <1>4, <1>9, <2>4, <2>6, <3>2, <3>3
    <3>4. CASE b # at[p] /\ d # at[p]
      <4>1. next[b] = next[d] /\ next[b] # NoBlock
        BY <1>4, <1>9, <2>6, <3>2, <3>4
      <4> QED BY <1>1, <3>2, <4>1 DEF ChainInv
    <3> QED BY <3>3, <3>4
  <2> QED BY <1>3, <2>1, <2>2, <2>3, <2>5, <2>6 DEF ChainInv
<1>13. Emptied' = {}
  BY <1>3, <1>6, <1>8, NoCollecting DEF Emptied
<1>14. CollectInv'
  BY <1>3, <1>13, NoCollecting DEF CollectInv, Collecting
<1>15. Listed' = Listed
  <2>1. \A m \in Maintainers : Moved(m)' = Moved(m)
    BY <1>3 DEF Moved
  <2>2. \A x : (\E b \in Linked' : x \in items'[b]) <=> \E b \in Linked : x \in items[b]
    BY <1>3, <1>6, <1>8
  <2>3. \A x : x \in Listed' <=> x \in Listed
    BY <2>1, <2>2, ListedIs
  <2> QED BY <2>3
<1>16. NothingLost'
  <2>1. \A q \in Writers : Added(q)' = Added(q)
    BY <1>3 DEF Added
  <2> QED BY <1>1, <1>15, <2>1, AppendedIs DEF NothingLost
<1> QED BY <1>10, <1>11, <1>12, <1>14, <1>15, <1>16 DEF ListInv

LEMMA MoveKeeps ==
  ASSUME ListInv, TypeOK', NEW m \in Maintainers, DeleteAndMove(m)
  PROVE  ListInv' /\ Listed' = Listed
<1>1. TypeOK /\ PhaseInv /\ WriterInv /\ ChainInv /\ NothingLost /\ m \in Writers /\ m \in Proc
  BY ProcIs DEF ListInv
<1>2. PICK i : i = Head(mods[m])
  OBVIOUS
<1>3. PICK b \in Linked :
        /\ i \in items[b] /\ items' = [items EXCEPT ![b] = @ \ {i}]
        /\ at' = [at EXCEPT ![m] = b]
        /\ hold' = [hold EXCEPT ![m] = b]
        /\ todo' = [todo EXCEPT ![m] = <<i>>]
  BY <1>2 DEF DeleteAndMove
<1>4. b \in Block /\ b # NoBlock /\ Linked \subseteq Block
  BY <1>1, <1>3, LinkedNow, BlockIs
<1>5. items'[b] = items[b] \ {i} /\ \A c \in Block \ {b} : items'[c] = items[c]
  BY <1>1, <1>3, <1>4 DEF TypeOK
<1>6. /\ pc[m] = "modify" /\ pc'[m] = "add" /\ at'[m] = b /\ hold'[m] = b /\ todo'[m] = <<i>>
      /\ UNCHANGED <<next, freed, used, filled, ahead, want>>
      /\ \A q \in Proc \ {m} : pc'[q] = pc[q] /\ at'[q] = at[q]
      /\ \A q \in Writers \ {m} : hold'[q] = hold[q] /\ todo'[q] = todo[q]
  BY <1>1, <1>3 DEF DeleteAndMove, gcVars, TypeOK
<1>7. Linked' = Linked /\ Emptied' = Emptied
  BY <1>6, SameLinked DEF Emptied
<1>8. /\ \A q \in Readers : pc'[q] = pc[q] /\ at'[q] = at[q]
      /\ \A q \in Writers \ {m} : pc'[q] = pc[q] /\ at'[q] = at[q]
      /\ m \notin Adders /\ filled[m] = Start
  BY <1>1, <1>6, ProcIs DEF PhaseInv
<1>9. PhaseInv'
  BY <1>1, <1>6, <1>8, PhaseKeeps
<1>10. WriterInv'
  <2>1. Len(<<i>>) <= 1
    OBVIOUS
  <2>2. Len(todo'[m]) <= 1
    BY <1>6, <2>1
  <2> QED BY <1>1, <1>3, <1>6, <1>7, <1>8, <2>2, WriterKeeps
<1>11. ChainInv'
  BY <1>1, <1>5, <1>6, <1>7 DEF ChainInv
<1>12. CollectInv'
  <2>1. (\A q \in Maintainers : ~Collecting(q)) /\ Emptied = {}
    BY <1>1, <1>6, NoCollecting
  <2>2. \A q \in Maintainers : ~Collecting(q)'
    BY <1>6, <1>8, <2>1, ProcIs DEF Collecting
  <2> QED BY <1>7, <2>1, <2>2 DEF CollectInv
<1>13. hold[m] = NoBlock
  BY <1>1, <1>6 DEF WriterInv
<1>14. Moved(m) = {} /\ Moved(m)' = {i} /\ \A q \in Maintainers \ {m} : Moved(q)' = Moved(q)
  <2>1. <<i>> # <<>> /\ Head(<<i>>) = i
    OBVIOUS
  <2>2. Moved(m)' = {i}
    BY <1>4, <1>6, <2>1 DEF Moved
  <2> QED BY <1>6, <1>13, <2>2, ProcIs DEF Moved
<1>15. Listed' = Listed
  <2>1. \A x : (\E c \in Linked : x \in items[c]) \/ x = i <=>
               (\E c \in Linked' : x \in items'[c]) \/ x = i
    BY <1>3, <1>4, <1>5, <1>7
  <2>2. \E c \in Linked : i \in items[c]
    BY <1>3
  <2>3. \A x : (\E q \in Maintainers : x \in Moved(q)') <=>
               (\E q \in Maintainers : x \in Moved(q)) \/ x = i
    BY <1>14
  <2>4. \A x : x \in Listed' <=> x \in Listed
    BY <2>1, <2>2, <2>3, ListedIs
  <2> QED BY <2>4
<1>16. NothingLost'
  <2>1. \A q \in Writers \ {m} : Added(q)' = Added(q)
    BY <1>6, <1>8 DEF Added
  <2>2. Added(m)' = {}
    BY <1>4, <1>6 DEF Added
  <2> QED BY <1>1, <1>15, <2>1, <2>2, AppendedIs DEF NothingLost
<1> QED BY <1>9, <1>10, <1>11, <1>12, <1>15, <1>16 DEF ListInv

\* What the steps of garbage_collect have in common.
LEMMA CollectorKeeps ==
  ASSUME ListInv, TypeOK', NEW m \in Maintainers, Collecting(m),
         UNCHANGED <<want, hold, todo>>,
         \A q \in Proc \ {m} : pc'[q] = pc[q] /\ at'[q] = at[q],
         \A q \in Maintainers \ {m} : filled'[q] = filled[q],
         pc'[m] \in {"gc", "relink", "unlink", "done"}
  PROVE  /\ PhaseInv' /\ WriterInv' /\ hold[m] = NoBlock
         /\ \A q \in Maintainers \ {m} : ~Collecting(q)'
         /\ \A q \in Maintainers : Moved(q)' = Moved(q)
         /\ Appended' = Appended
<1>1. PhaseInv /\ WriterInv /\ m \in Writers /\ pc[m] # "done"
  BY ProcIs DEF ListInv, Collecting
<1>2. \A q \in Writers \ {m} : pc[q] = "done" /\ pc'[q] = pc[q]
  BY <1>1, OthersDone, ProcIs
<1>3. PhaseInv'
  <2>1. \A q \in Readers : pc'[q] = pc[q] /\ at'[q] = at[q]
    BY <1>1, ProcIs
  <2>2. m \notin Adders
    BY ProcIs
  <2> QED BY <1>1, <1>2, <2>1, <2>2, PhaseKeeps
<1>4. hold[m] = NoBlock /\ \A q \in Writers : hold[q] = NoBlock
  BY <1>1, <1>2 DEF WriterInv, Collecting
<1>5. WriterInv'
  BY <1>2, <1>4 DEF WriterInv
<1>6. \A q \in Maintainers \ {m} : ~Collecting(q)'
  BY <1>2, ProcIs DEF Collecting
<1>7. \A q \in Maintainers : Moved(q)' = Moved(q)
  BY DEF Moved
<1>8. Appended' = Appended
  <2>1. \A q \in Writers : Added(q)' = Added(q)
    BY <1>2 DEF Added, Collecting
  <2>2. \A x : x \in Appended' <=> x \in Appended
    BY <2>1, AppendedIs
  <2> QED BY <2>2
<1> QED BY <1>3, <1>4, <1>5, <1>6, <1>7, <1>8

LEMMA CollectKeeps ==
  ASSUME ListInv, TypeOK', NEW m \in Maintainers, CollectPage(m)
  PROVE  ListInv'
<1>1. TypeOK /\ ChainInv /\ NothingLost /\ GapInv(m) /\ pc[m] = "gc" /\ m \in Proc
  BY ProcIs DEF ListInv, CollectInv, CollectPage, Collecting
<1>2. PICK b : b = at[m]
  OBVIOUS
<1>3. PICK kept : kept = items[b] \ Garbage
  OBVIOUS
<1>4. b \in Linked /\ b \in Block /\ Linked \subseteq Block /\ b # NoBlock
      /\ \A c \in Linked : next[c] \in Linked \cup {NoBlock}
  BY <1>1, <1>2, CollectsPage, LinkedNow, BlockIs
<1>5. /\ UNCHANGED <<next, used, filled, want, hold, todo>>
      /\ items'[b] = kept /\ \A c \in Block \ {b} : items'[c] = items[c]
      /\ ahead'[m] = next[b]
      /\ freed' = IF b # Start /\ kept = {} THEN freed \cup {b} ELSE freed
      /\ pc'[m] = IF b # Start /\ kept # {} THEN "relink"
                  ELSE IF b # Start /\ next[b] = NoBlock THEN "unlink"
                  ELSE IF next[b] = NoBlock THEN "done" ELSE "gc"
      /\ at'[m] = IF b # Start /\ kept # {} THEN b ELSE next[b]
      /\ \A q \in Proc \ {m} : pc'[q] = pc[q] /\ at'[q] = at[q]
  BY <1>1, <1>2, <1>3, <1>4 DEF CollectPage, TypeOK
<1>6. Linked' = Linked
  BY <1>5, SameLinked
<1>7. /\ PhaseInv' /\ WriterInv'
      /\ \A q \in Maintainers \ {m} : ~Collecting(q)'
      /\ \A q \in Maintainers : Moved(q)' = Moved(q)
      /\ Appended' = Appended
  <2>1. Collecting(m) /\ pc'[m] \in {"gc", "relink", "unlink", "done"}
    BY <1>1, <1>5 DEF Collecting
  <2> QED BY <1>5, <2>1, CollectorKeeps
<1>8. ChainInv'
  <2>1. \A c \in Linked : c <= used
    BY <1>1, LinkedUsed
  <2>2. \A c \in Block : c > used => items'[c] = {}
    BY <1>1, <1>3, <1>5 DEF ChainInv
  <2> QED BY <1>1, <1>4, <1>5, <1>6, <2>1, <2>2 DEF ChainInv
<1>9. Emptied' = IF b # Start /\ kept = {} THEN Emptied \cup {b} ELSE Emptied
  BY <1>4, <1>5, <1>6 DEF Emptied
<1>10. ASSUME b = Start PROVE CollectInv'
  <2>1. Emptied = {} /\ filled[m] = Start
    BY <1>1, <1>2, <1>10 DEF GapInv
  <2>2. Emptied' = {} /\ at'[m] = next[b] /\ pc'[m] = IF next[b] = NoBlock THEN "done" ELSE "gc"
    BY <1>5, <1>9, <1>10, <2>1
  <2>3. ASSUME Collecting(m)' PROVE GapInv(m)'
    <3>1. pc'[m] = "gc" /\ next[b] # NoBlock /\ next[b] \in Linked
      BY <1>4, <2>2, <2>3 DEF Collecting
    <3>2. next[b] # Start
      BY <1>1, <1>4 DEF ChainInv
    <3>3. next[b] \notin freed'
      BY <1>6, <2>2, <3>1 DEF Emptied
    <3>4. PICK P : P = {Start}
      OBVIOUS
    <3>5. /\ P \in SUBSET (Linked \ freed') /\ Start \in P /\ filled'[m] \in P /\ at'[m] \notin P
          /\ \A c \in Linked : next[c] \in P => c \in P
      <4>1. Start \in Linked /\ Start \notin freed'
        BY <1>4, <1>6, <1>10, <2>2 DEF Emptied
      <4> QED BY <1>1, <1>5, <2>1, <2>2, <3>2, <3>4, <4>1 DEF ChainInv
    <3>6. /\ \A c \in Emptied' \cup {filled'[m]} : next'[c] \in Emptied' \cup {at'[m]}
          /\ \E c \in Emptied' \cup {filled'[m]} : next'[c] = at'[m]
      BY <1>5, <1>10, <2>1, <2>2
    <3> QED BY <1>5, <1>6, <2>2, <3>1, <3>3, <3>5, <3>6 DEF GapInv
  <2>4. CollectInv'
    BY <1>7, <2>2, <2>3 DEF CollectInv
  <2> QED BY <1>7, <2>4
<1>11. ASSUME b # Start PROVE CollectInv'
  <2>1. /\ b \notin freed
        /\ \A c \in Emptied : items[c] = {}
        /\ \A c \in Emptied \cup {filled[m]} : next[c] \in Emptied \cup {b}
        /\ \E c \in Emptied \cup {filled[m]} : next[c] = b
        /\ \A c \in Linked : next[c] \in Emptied => c \in Emptied \cup {filled[m]}
        /\ \E P \in SUBSET (Linked \ freed) :
             /\ Start \in P /\ filled[m] \in P /\ b \notin P
             /\ \A c \in Linked : next[c] \in P => c \in P
    BY <1>1, <1>2, <1>4, <1>11 DEF GapInv
  <2>2. PICK P \in SUBSET (Linked \ freed) :
          /\ Start \in P /\ filled[m] \in P /\ b \notin P
          /\ \A c \in Linked : next[c] \in P => c \in P
    BY <2>1
  <2>3. P \subseteq Linked \ freed
    BY <2>2
  <2>4. CASE kept # {}
    <3>1. /\ pc'[m] = "relink" /\ at'[m] = b /\ freed' = freed /\ Emptied' = Emptied
          /\ ahead'[m] = next'[b]
      BY <1>5, <1>9, <1>11, <2>4
    <3>2. \A c \in Emptied : items'[c] = {}
      BY <1>4, <1>5, <2>1 DEF Emptied
    <3>3. GapInv(m)'
      BY <1>4, <1>5, <1>6, <2>1, <3>1, <3>2 DEF GapInv
    <3> QED BY <1>7, <3>1, <3>3 DEF CollectInv, Collecting
  <2>5. CASE kept = {}
    <3>1. /\ freed' = freed \cup {b} /\ Emptied' = Emptied \cup {b} /\ at'[m] = next[b]
          /\ pc'[m] = IF next[b] = NoBlock THEN "unlink" ELSE "gc"
      BY <1>5, <1>9, <1>11, <2>5
    <3>2. b \notin Emptied \cup {filled[m]}
      BY <2>1, <2>2 DEF Emptied
    <3>3. \A c \in Linked : next[c] = b => c \in Emptied \cup {filled[m]}
      <4>1. PICK d \in Emptied \cup {filled[m]} : next[d] = b
        BY <2>1
      <4>2. d \in Linked
        BY <2>3, <2>2 DEF Emptied
      <4> QED BY <1>1, <1>4, <4>1, <4>2 DEF ChainInv
    <3>4. next[b] \notin freed' \/ next[b] = NoBlock
      <4>1. next[b] # b
        BY <1>4, <3>2, <3>3
      <4>2. next[b] \notin Emptied
        BY <1>4, <2>1, <3>2
      <4> QED BY <1>4, <3>1, <4>1, <4>2 DEF Emptied
    <3>5. next[b] \notin P
      BY <1>4, <2>2
    <3>6. P \in SUBSET (Linked \ freed')
      BY <2>2, <2>3, <3>1
    <3>7. \A c \in Emptied' : items'[c] = {}
      <4>1. Emptied \subseteq Block
        BY <1>4 DEF Emptied
      <4> QED BY <1>5, <2>1, <2>5, <3>1, <4>1
    <3>8. \A c \in Emptied' \cup {filled[m]} : next[c] \in Emptied' \cup {next[b]}
      BY <2>1, <3>1
    <3>9. \E c \in Emptied' \cup {filled[m]} : next[c] = next[b]
      BY <3>1
    <3>10. \A c \in Linked : next[c] \in Emptied' => c \in Emptied' \cup {filled[m]}
      BY <2>1, <3>1, <3>3
    <3>11. next[b] = NoBlock \/ next[b] \in Linked \ freed'
      BY <1>4, <3>4
    <3>12. \E Q \in SUBSET (Linked \ freed') :
             /\ Start \in Q /\ filled[m] \in Q /\ next[b] \notin Q
             /\ \A c \in Linked : next[c] \in Q => c \in Q
      BY <2>2, <3>5, <3>6
    <3>13. GapInv(m)'
      BY <1>5, <1>6, <3>1, <3>7, <3>8, <3>9, <3>10, <3>11, <3>12 DEF GapInv
    <3> QED BY <1>7, <3>1, <3>13 DEF CollectInv, Collecting
  <2> QED BY <2>4, <2>5
<1>12. Listed' \subseteq Listed /\ Listed \ Listed' \subseteq Garbage
  <2>1. \A c \in Linked : items'[c] \subseteq items[c] /\ items[c] \ items'[c] \subseteq Garbage
    BY <1>3, <1>4, <1>5
  <2>2. \A x : x \in Listed' => x \in Listed
    BY <1>6, <1>7, <2>1, ListedIs
  <2>3. \A x : x \in Listed /\ x \notin Listed' => x \in Garbage
    BY <1>6, <1>7, <2>1, ListedIs
  <2> QED BY <2>2, <2>3
<1>13. NothingLost'
  BY <1>1, <1>7, <1>12 DEF NothingLost
<1> QED BY <1>7, <1>8, <1>10, <1>11, <1>13 DEF ListInv

\* The pages garbage_collect has emptied are taken off the list by Relink, and
\* by Unlink at its end; nothing else is.
LEMMA CutKeeps ==
  ASSUME ListInv, TypeOK', NEW m \in Maintainers, Relink(m) \/ Unlink(m)
  PROVE  ListInv' /\ Listed' = Listed
<1>1. TypeOK /\ ChainInv /\ NothingLost /\ GapInv(m) /\ pc[m] \in {"relink", "unlink"} /\ m \in Proc
  BY ProcIs DEF ListInv, CollectInv, Relink, Unlink, Collecting
<1>2. PICK f, t : f = filled[m] /\ t = at[m]
  OBVIOUS
<1>3. /\ pc[m] = "unlink" <=> t = NoBlock
      /\ t = NoBlock \/ t \in Linked \ freed
      /\ pc[m] = "relink" => ahead[m] = next[t]
      /\ \A b \in Emptied : items[b] = {}
      /\ \A b \in Emptied \cup {f} : next[b] \in Emptied \cup {t}
      /\ \E b \in Emptied \cup {f} : next[b] = t
      /\ \A b \in Linked : next[b] \in Emptied => b \in Emptied \cup {f}
      /\ \E P \in SUBSET (Linked \ freed) :
           /\ Start \in P /\ f \in P /\ t \notin P
           /\ \A b \in Linked : next[b] \in P => b \in P
  BY <1>1, <1>2 DEF GapInv
<1>4. PICK P \in SUBSET (Linked \ freed) :
        /\ Start \in P /\ f \in P /\ t \notin P
        /\ \A b \in Linked : next[b] \in P => b \in P
  BY <1>3
<1>5. P \subseteq Linked \ freed
  BY <1>4
<1>6. /\ Linked \subseteq Block /\ next \in [Block -> Block \cup {NoBlock}]
      /\ \A b \in Linked : next[b] \in Linked \cup {NoBlock}
  BY <1>1, LinkedNow DEF TypeOK
<1>7. f \in Linked \ Emptied /\ Start \notin Emptied /\ f # t
      /\ t \in (Linked \ Emptied) \cup {NoBlock}
  BY <1>3, <1>4, <1>5 DEF Emptied
<1>8. /\ next' = [next EXCEPT ![f] = t]
      /\ UNCHANGED <<items, freed, used, want, hold, todo>>
      /\ \A q \in Proc \ {m} : pc'[q] = pc[q] /\ at'[q] = at[q]
      /\ \A q \in Maintainers \ {m} : filled'[q] = filled[q]
      /\ pc'[m] \in {"gc", "relink", "unlink", "done"}
  <2>1. CASE Relink(m)
    BY <1>1, <1>2, <2>1 DEF Relink, TypeOK
  <2>2. CASE Unlink(m)
    <3>1. t = NoBlock
      BY <1>3, <2>2 DEF Unlink
    <3> QED BY <1>1, <1>2, <2>2, <3>1 DEF Unlink, TypeOK, gcVars
  <2> QED BY <2>1, <2>2
<1>9. Linked' = Linked \ Emptied
  <2>1. PICK G : G = Emptied
    OBVIOUS
  <2>2. /\ G \in SUBSET Reach(next) /\ Start \notin G /\ f \in Reach(next) \ G
        /\ t \in (Reach(next) \ G) \cup {NoBlock}
        /\ \A b \in G \cup {f} : next[b] \in G \cup {t}
        /\ \A b \in Reach(next) : next[b] \in G => b \in G \cup {f}
    BY <1>3, <1>7, <2>1, LinkedIs DEF Emptied
  <2>3. Reach([next EXCEPT ![f] = t]) = Reach(next) \ G
    BY <1>6, <2>2, ReachCut
  <2> QED BY <1>8, <2>1, <2>3, LinkedIs
<1>10. next'[f] = t /\ \A b \in Block \ {f} : next'[b] = next[b]
  BY <1>6, <1>7, <1>8
<1>11. /\ PhaseInv' /\ WriterInv'
       /\ \A q \in Maintainers \ {m} : ~Collecting(q)'
       /\ \A q \in Maintainers : Moved(q)' = Moved(q)
       /\ Appended' = Appended
  <2>1. Collecting(m)
    BY <1>1 DEF Collecting
  <2> QED BY <1>8, <2>1, CollectorKeeps
<1>12. Emptied' = {}
  BY <1>8, <1>9 DEF Emptied
<1>13. ASSUME NEW b \in Linked', b # f PROVE next[b] # t \/ t = NoBlock
  <2>1. PICK d \in Emptied \cup {f} : next[d] = t
    BY <1>3
  <2>2. d \in Linked /\ b \in Linked /\ b \notin Emptied \cup {f}
    BY <1>7, <1>9, <1>13 DEF Emptied
  <2> QED BY <1>1, <2>1, <2>2 DEF ChainInv
<1>14. ChainInv'
  <2>1. used \in Nat /\ \A b \in Linked : b <= used
    BY <1>1, LinkedUsed DEF TypeOK, Block
  <2>2. t <= used
    BY <1>3, <2>1 DEF NoBlock
  <2>3. \A b \in Block : next'[b] <= used
    BY <1>1, <1>10, <2>2 DEF ChainInv
  <2>4. \A b \in Block : b > used => b # f
    BY <1>7, <2>1, BlockIs, <1>6
  <2>5. \A b \in Block : b > used => next'[b] = NoBlock /\ items'[b] = {}
    BY <1>1, <1>8, <1>10, <2>4 DEF ChainInv
  <2>6. \A b \in Linked' : next'[b] # Start
    BY <1>1, <1>4, <1>6, <1>9, <1>10 DEF ChainInv
  <2>7. ASSUME NEW b \in Linked', NEW c \in Linked', next'[b] = next'[c], next'[b] # NoBlock
        PROVE  b = c
    <3>1. b \in Linked /\ c \in Linked /\ b \in Block /\ c \in Block
      BY <1>6, <1>9
    <3>2. CASE b = f /\ c # f
      BY <1>10, <1>13, <2>7, <3>1, <3>2
    <3>3. CASE b # f /\ c = f
      BY <1>10, <1>13, <2>7, <3>1, <3>3
    <3>4. CASE b # f /\ c # f
      <4>1. next[b] = next[c] /\ next[b] # NoBlock
        BY <1>10, <2>7, <3>1, <3>4
      <4> QED BY <1>1, <3>1, <4>1 DEF ChainInv
    <3> QED BY <3>2, <3>3, <3>4
  <2> QED BY <1>1, <1>8, <2>3, <2>5, <2>6, <2>7 DEF ChainInv
<1>15. ASSUME Collecting(m)' PROVE GapInv(m)'
  <2>1. Relink(m) /\ pc[m] = "relink"
    <3>1. Unlink(m) => pc'[m] = "done"
      BY <1>1 DEF Unlink, TypeOK
    <3> QED BY <1>15, <3>1 DEF Collecting, Relink
  <2>2. filled'[m] = t /\ at'[m] = ahead[m] /\ pc'[m] = IF ahead[m] = NoBlock THEN "done" ELSE "gc"
    BY <1>1, <1>2, <2>1 DEF Relink, TypeOK
  <2>3. t # NoBlock /\ t \in Linked /\ t \in Block /\ t \notin freed /\ ahead[m] = next[t]
    BY <1>3, <1>6, <2>1
  <2>4. pc'[m] = "gc" /\ at'[m] = next[t] /\ next[t] # NoBlock
    BY <1>15, <2>2, <2>3 DEF Collecting
  <2>5. next'[t] = next[t]
    BY <1>7, <1>10, <2>3
  <2>6. t \in Linked'
    BY <1>9, <2>3 DEF Emptied
  <2>7. next[t] \notin Emptied /\ next[t] # t
    <3>1. t \notin Emptied \cup {f}
      BY <1>7, <2>3 DEF Emptied
    <3> QED BY <1>3, <1>13, <2>3, <2>6, <3>1
  <2>8. next[t] \in Linked' \ freed
    BY <1>6, <1>9, <2>3, <2>4, <2>7 DEF Emptied
  <2>9. PICK Q : Q = P \cup {t}
    OBVIOUS
  <2>10. Q \in SUBSET (Linked' \ freed')
    BY <1>5, <1>8, <1>9, <2>3, <2>6, <2>9 DEF Emptied
  <2>11. Start \in Q /\ filled'[m] \in Q /\ at'[m] \notin Q
    BY <1>4, <2>2, <2>3, <2>4, <2>7, <2>9
  <2>12. ASSUME NEW b \in Linked', next'[b] \in Q PROVE b \in Q
    <3>1. CASE b = f
      BY <1>4, <2>9, <3>1
    <3>2. CASE b # f
      <4>1. b \in Linked /\ next'[b] = next[b] /\ next[b] # t
        BY <1>6, <1>9, <1>10, <1>13, <2>3, <3>2
      <4> QED BY <1>4, <2>9, <2>12, <4>1
    <3> QED BY <3>1, <3>2
  <2>13. \A b \in Emptied' \cup {filled'[m]} : next'[b] = at'[m]
    BY <1>12, <2>2, <2>4, <2>5
  <2>14. at'[m] # NoBlock /\ at'[m] \in Linked' \ freed'
    BY <1>8, <2>4, <2>8
  <2>15. \E R \in SUBSET (Linked' \ freed') :
           /\ Start \in R /\ filled'[m] \in R /\ at'[m] \notin R
           /\ \A b \in Linked' : next'[b] \in R => b \in R
    BY <2>10, <2>11, <2>12
  <2> QED BY <1>12, <2>4, <2>13, <2>14, <2>15 DEF GapInv
<1>16. CollectInv'
  BY <1>11, <1>12, <1>15 DEF CollectInv
<1>17. Listed' = Listed
  <2>1. \A x : (\E b \in Linked' : x \in items'[b]) <=> \E b \in Linked : x \in items[b]
    BY <1>3, <1>8, <1>9
  <2>2. \A x : x \in Listed' <=> x \in Listed
    BY <1>11, <2>1, ListedIs
  <2> QED BY <2>2
<1>18. NothingLost'
  BY <1>1, <1>11, <1>17 DEF NothingLost
<1> QED BY <1>11, <1>14, <1>16, <1>17, <1>18 DEF ListInv

-----------------------------------------------------------------------------
(* The theorems                                                             *)

LEMMA NextKeeps ==
  ASSUME ListInv, [Next]_vars
  PROVE  ListInv'
<1>1. CASE UNCHANGED vars
  <2>1. UNCHANGED <<next, items, grown, freed, used, last, lock, pc, at, want, hold, todo, filled, ahead>>
    BY <1>1 DEF vars, pageVars, gcVars
  <2>2. Linked' = Linked /\ Listed' = Listed /\ Appended' = Appended /\ Emptied' = Emptied
    BY <2>1, SameLinked DEF Listed, Moving, Appended, Emptied
  <2>3. TypeOK' /\ PhaseInv' /\ WriterInv' /\ ChainInv' /\ NothingLost'
    BY <2>1, <2>2 DEF ListInv, TypeOK, PhaseInv, WriterInv, ChainInv, NothingLost
  <2>4. CollectInv'
    BY <2>1, <2>2 DEF ListInv, CollectInv, Collecting, GapInv
  <2> QED BY <2>2, <2>3, <2>4 DEF ListInv
<1>2. CASE Next
  <2>1. TypeOK'
    BY <1>2, TypeKeeps, PlaceIs
  <2>2. ASSUME NEW p \in Writers, AddStep(p) PROVE ListInv'
    BY <2>1, <2>2, ControlKeeps, AppendKeeps, NewPageKeeps DEF AddStep
  <2>3. ASSUME NEW m \in Maintainers, MaintainStep(m) PROVE ListInv'
    <3>1. m \in Writers
      BY ProcIs
    <3> QED BY <2>1, <2>3, <3>1, ControlKeeps, MoveKeeps, CollectKeeps, CutKeeps
            DEF MaintainStep
  <2>4. ASSUME NEW r \in Readers, ReadStep(r) PROVE ListInv'
    BY <2>1, <2>4, ReadKeeps
  <2> QED BY <1>2, <2>2, <2>3, <2>4 DEF Next
<1> QED BY <1>1, <1>2

LEMMA InitType ==
  ASSUME Init
  PROVE  TypeOK
<1>1. PICK l : l = Len(StartPages)
  OBVIOUS
<1>2. l \in Block /\ l \in Nat /\ Start \in Block /\ \A b \in Block : b \in Nat
  BY <1>1, ListAssumption, BlockIs DEF Block
<1>3. next = [b \in Block |-> IF b < l THEN b + 1 ELSE NoBlock] /\ used = l
  BY <1>1 DEF Init
<1>4. PICK W \in Together : pc = [p \in Proc |-> IF p \notin W THEN "done"
                                  ELSE IF p \in Maintainers THEN "modify" ELSE "idle"]
  BY DEF Init
<1>5. \A b \in 1..l : StartPages[b] \in SUBSET StartEntries
  BY <1>1, ListAssumption
<1>6. /\ \A b \in Block : b <= l => b \in 1..l /\ items[b] = StartPages[b]
      /\ \A b \in Block : ~(b <= l) => items[b] = {}
  BY <1>1, <1>2 DEF Init, Block
<1>7. next \in [Block -> Block \cup {NoBlock}]
  <2>1. \A b \in Block : b < l => b + 1 \in Block
    BY <1>2, ListAssumption DEF Block
  <2> QED BY <1>3, <2>1
<1>8. items \in [Block -> SUBSET Entries]
  <2>1. StartEntries \subseteq Entries
    BY DEF Entries
  <2>2. \A b \in Block : items[b] \in SUBSET Entries
    BY <1>5, <1>6, <2>1
  <2> QED BY <2>2 DEF Init
<1>9. pc \in [Proc -> PC]
  BY <1>4 DEF PC
<1>10. todo \in [Writers -> Seq(Entries)]
  BY ListAssumption DEF Init
<1>11. lock \in [Block -> Writers \cup {NoProc}] /\ at \in [Proc -> Block \cup {NoBlock}]
      /\ want \in [Writers -> Block \cup {NoBlock}] /\ hold \in [Writers -> Block \cup {NoBlock}]
      /\ filled \in [Maintainers -> Block] /\ ahead \in [Maintainers -> Block \cup {NoBlock}]
  BY <1>2 DEF Init
<1>12. grown \subseteq Entries /\ freed \subseteq Block /\ used \in Block /\ last \in Block
  BY <1>1, <1>2 DEF Init
<1> QED BY <1>7, <1>8, <1>9, <1>10, <1>11, <1>12 DEF TypeOK

LEMMA InitHolds ==
  ASSUME Separate, Init
  PROVE  ListInv /\ Listed = StartEntries
<1>1. PICK l : l = Len(StartPages)
  OBVIOUS
<1>2. l \in Block /\ l \in Nat /\ Start \in Block /\ \A b \in Block : b \in Nat
  BY <1>1, ListAssumption, BlockIs DEF Block
<1>3. next = [b \in Block |-> IF b < l THEN b + 1 ELSE NoBlock] /\ used = l
  BY <1>1 DEF Init
<1>4. Linked = 1..l
  BY <1>2, <1>3, StartChain, LinkedIs
<1>5. PICK W \in Together : pc = [p \in Proc |-> IF p \notin W THEN "done"
                                  ELSE IF p \in Maintainers THEN "modify" ELSE "idle"]
  BY DEF Init
<1>6. \A b \in 1..l : StartPages[b] \in SUBSET StartEntries
  BY <1>1, ListAssumption
<1>7. /\ \A b \in Block : b <= l => b \in 1..l /\ items[b] = StartPages[b]
      /\ \A b \in Block : ~(b <= l) => items[b] = {}
  BY <1>1, <1>2 DEF Init, Block
<1>8. TypeOK
  BY InitType
<1>9. PhaseInv
  <2>1. \A r \in Readers : pc[r] # "walk"
    BY <1>5, ProcIs
  <2>2. \A p \in Adders : pc[p] \in {"idle", "done"} /\ hold[p] = NoBlock
    BY <1>5, ProcIs DEF Init
  <2>3. ASSUME NEW m \in Maintainers
        PROVE  /\ pc[m] \notin {"idle", "walk", "read"} /\ filled[m] = Start
               /\ pc[m] # "done" => \A p \in Writers \ {m} : pc[p] = "done"
    <3>1. pc[m] = IF m \notin W THEN "done" ELSE "modify"
      BY <1>5, ProcIs
    <3>2. m \in W => \A p \in Writers \ {m} : p \notin W
      BY <1>5 DEF Separate
    <3>3. m \in W => \A p \in Writers \ {m} : pc[p] = "done"
      BY <1>5, <3>2, ProcIs
    <3> QED BY <3>1, <3>3 DEF Init
  <2> QED BY <2>1, <2>2, <2>3 DEF PhaseInv
<1>10. WriterInv
  BY <1>5, ProcIs DEF Init, WriterInv
<1>11. ChainInv
  <2>1. \A b \in Block : next[b] <= used
    BY <1>2, <1>3 DEF NoBlock
  <2>2. \A b \in Block : b > used => next[b] = NoBlock /\ items[b] = {}
    BY <1>2, <1>3, <1>7
  <2>3. \A b \in Linked : b \in Block /\ b \in 1..l
    BY <1>4, <1>8, LinkedNow
  <2>4. \A b \in Linked : next[b] # Start
    BY <1>2, <1>3, <2>3 DEF Start, NoBlock
  <2>5. \A b, c \in Linked : next[b] = next[c] /\ next[b] # NoBlock => b = c
    BY <1>2, <1>3, <2>3
  <2> QED BY <2>1, <2>2, <2>4, <2>5 DEF ChainInv, Init
<1>12. CollectInv
  <2>1. \A m \in Maintainers : ~Collecting(m)
    BY <1>5, ProcIs DEF Collecting
  <2> QED BY <2>1 DEF CollectInv, Emptied, Init
<1>13. Listed = StartEntries
  <2>1. \A m \in Maintainers : Moved(m) = {}
    BY ProcIs DEF Moved, Init
  <2>2. \A b \in 1..l : items[b] = StartPages[b]
    BY <1>1, <1>4, <1>7, <1>8, LinkedNow
  <2>3. \A x : x \in StartEntries <=> \E b \in 1..l : x \in StartPages[b]
    BY <1>1 DEF StartEntries
  <2>4. \A x : x \in Listed <=> x \in StartEntries
    BY <1>4, <2>1, <2>2, <2>3, ListedIs
  <2> QED BY <2>4
<1>14. NothingLost
  <2>1. \A p \in Writers : Added(p) = {}
    BY DEF Added, Init
  <2> QED BY <1>13, <2>1, AppendedIs DEF NothingLost
<1> QED BY <1>8, <1>9, <1>10, <1>11, <1>12, <1>13, <1>14 DEF ListInv

LEMMA ListInvariant ==
  ASSUME Separate
  PROVE  Spec => []ListInv
<1>1. Init => ListInv
  BY InitHolds
<1>2. ListInv /\ [Next]_vars => ListInv'
  BY NextKeeps
<1> QED BY <1>1, <1>2, PTL DEF Spec

\* When garbage_collect has returned, no page it marked deleted, and that may
\* be handed out again, can be reached from the start page.
THEOREM FreedPagesAreUnlinked ==
  ASSUME Separate
  PROVE  Spec => []FreedUnlinked
<1>1. ListInv => FreedUnlinked
  BY DEF ListInv, CollectInv, Collecting, Emptied, FreedUnlinked
<1> QED BY <1>1, ListInvariant, PTL

-----------------------------------------------------------------------------
(* The pages a walk still meets                                             *)

Tails(n, b, S) == b \in S /\ \A c \in S : n[c] \in S \cup {NoBlock}
Behind(n, b) == {c \in Block : \A S \in SUBSET Block : Tails(n, b, S) => c \in S}

LEMMA FromIs ==
  /\ \A b : From(b) = Behind(next, b)
  /\ \A r \in Readers : From(at[r])' = Behind(next', at'[r])
  /\ \A m \in Maintainers : From(hold[m])' = Behind(next', hold'[m])
BY DEF From, IsTail, Behind, Tails

LEMMA BehindIs ==
  ASSUME NEW n \in [Block -> Block \cup {NoBlock}], NEW b \in Block
  PROVE  /\ b \in Behind(n, b) /\ Behind(n, b) \subseteq Block
         /\ \A c \in Behind(n, b) : n[c] \in Behind(n, b) \cup {NoBlock}
         /\ \A S \in SUBSET Block : Tails(n, b, S) => Behind(n, b) \subseteq S
<1>1. b \in Behind(n, b) /\ Behind(n, b) \subseteq Block
  BY DEF Behind, Tails
<1>2. ASSUME NEW c \in Behind(n, b), n[c] # NoBlock PROVE n[c] \in Behind(n, b)
  <2>1. c \in Block /\ n[c] \in Block
    BY <1>1, <1>2
  <2>2. ASSUME NEW S \in SUBSET Block, Tails(n, b, S) PROVE n[c] \in S
    <3>1. c \in S
      BY <2>2 DEF Behind
    <3> QED BY <1>2, <2>2, <3>1 DEF Tails
  <2> QED BY <2>1, <2>2 DEF Behind
<1>3. \A S \in SUBSET Block : Tails(n, b, S) => Behind(n, b) \subseteq S
  BY DEF Behind
<1> QED BY <1>1, <1>2, <1>3

\* The list is what lies behind the start page.
LEMMA BehindStart == \A n : Behind(n, Start) = Reach(n)
BY DEF Behind, Tails, Reach, Chain

\* What lies behind a page behind b lies behind b.
LEMMA BehindTrans ==
  ASSUME NEW n \in [Block -> Block \cup {NoBlock}], NEW b \in Block, NEW c \in Behind(n, b)
  PROVE  Behind(n, c) \subseteq Behind(n, b)
<1>1. /\ Behind(n, b) \in SUBSET Block /\ c \in Block
      /\ \A d \in Behind(n, b) : n[d] \in Behind(n, b) \cup {NoBlock}
  BY BehindIs
<1>2. Tails(n, c, Behind(n, b))
  BY <1>1 DEF Tails
<1> QED BY <1>1, <1>2, BehindIs

\* A walk that leaves page b meets all that lay behind b but b itself.
LEMMA BehindNext ==
  ASSUME NEW n \in [Block -> Block \cup {NoBlock}], NEW b \in Block,
         NEW c \in Behind(n, b), c # b
  PROVE  n[b] # NoBlock /\ c \in Behind(n, n[b])
<1>1. \A S \in SUBSET Block : Tails(n, b, S) => c \in S
  BY DEF Behind
<1>2. n[b] # NoBlock
  <2> SUFFICES ASSUME n[b] = NoBlock PROVE FALSE
    OBVIOUS
  <2>1. Tails(n, b, {b})
    BY DEF Tails
  <2> QED BY <1>1, <2>1
<1>3. n[b] \in Block /\ c \in Block
  BY <1>2 DEF Behind
<1>4. ASSUME NEW S \in SUBSET Block, Tails(n, n[b], S) PROVE c \in S
  <2>1. Tails(n, b, S \cup {b})
    BY <1>4 DEF Tails
  <2>2. S \cup {b} \in SUBSET Block
    OBVIOUS
  <2>3. c \in S \cup {b}
    BY <1>1, <2>1, <2>2
  <2> QED BY <2>3
<1> QED BY <1>2, <1>3, <1>4 DEF Behind

\* A page put behind the last one cuts nothing off.
LEMMA BehindAppend ==
  ASSUME NEW n \in [Block -> Block \cup {NoBlock}], NEW n2, NEW a \in Block, n[a] = NoBlock,
         \A c \in Block \ {a} : n2[c] = n[c], NEW b \in Block
  PROVE  Behind(n, b) \subseteq Behind(n2, b)
<1>1. ASSUME NEW S \in SUBSET Block, Tails(n2, b, S) PROVE Tails(n, b, S)
  BY <1>1 DEF Tails
<1> QED BY <1>1 DEF Behind

\* Where page f is led past the pages in G, a walk misses no other page.
LEMMA BehindCut ==
  ASSUME NEW n \in [Block -> Block \cup {NoBlock}], NEW n2, NEW G \in SUBSET Block,
         NEW f \in Block, NEW t \in Block \cup {NoBlock},
         n2[f] = t, \A c \in Block \ {f} : n2[c] = n[c],
         \A c \in G \cup {f} : n[c] \in G \cup {t}, NEW b \in Block
  PROVE  Behind(n, b) \ G \subseteq Behind(n2, b)
<1> SUFFICES ASSUME NEW c \in Behind(n, b) \ G, NEW S \in SUBSET Block, Tails(n2, b, S)
             PROVE  c \in S
  BY DEF Behind
<1>0. \A T \in SUBSET Block : Tails(n, b, T) => c \in T
  BY DEF Behind
<1>1. CASE f \notin S
  <2>1. Tails(n, b, S)
    BY <1>1 DEF Tails
  <2> QED BY <1>0, <2>1
<1>2. CASE f \in S
  <2>1. t \in S \cup {NoBlock} /\ b \in S
    BY <1>2 DEF Tails
  <2>2. ASSUME NEW d \in S \cup G PROVE n[d] \in (S \cup G) \cup {NoBlock}
    <3>1. CASE d \in G \cup {f}
      BY <2>1, <3>1
    <3>2. CASE d \notin G \cup {f}
      <4>1. d \in S /\ n2[d] = n[d]
        BY <3>2
      <4> QED BY <4>1 DEF Tails
    <3> QED BY <3>1, <3>2
  <2>3. Tails(n, b, S \cup G)
    BY <2>1, <2>2 DEF Tails
  <2>4. S \cup G \in SUBSET Block
    OBVIOUS
  <2> QED BY <1>0, <2>3, <2>4
<1> QED BY <1>1, <1>2

-----------------------------------------------------------------------------
(* What a walk at page b will find                                          *)

\* Entry e is on a page behind b, or on its way from one.
Meets(b, e) ==
  \/ \E c \in Behind(next, b) : e \in items[c]
  \/ \E m \in Maintainers : hold[m] \in Behind(next, b) /\ e \in Moved(m)

LEMMA WalkIs ==
  /\ WalkInv <=> \A r \in Readers :
       /\ pc[r] = "walk" => \A e \in due[r] \ seen[r] : Meets(at[r], e)
       /\ pc[r] = "read" => due[r] \subseteq seen[r]
  /\ WalkInv' <=> \A r \in Readers :
       /\ pc'[r] = "walk" => \A e \in due'[r] \ seen'[r] : Meets(at[r], e)'
       /\ pc'[r] = "read" => due'[r] \subseteq seen'[r]
<1>1. \A b, m : (hold[m] \in Behind(next, b) => hold[m] # NoBlock)
                /\ (hold'[m] \in Behind(next', b) => hold'[m] # NoBlock)
  BY BlockIs DEF Behind
<1>2. ASSUME NEW r \in Readers, NEW e
      PROVE  Meets(at[r], e) <=>
               \/ \E b \in From(at[r]) : e \in items[b]
               \/ \E m \in Maintainers :
                    hold[m] \in From(at[r]) /\ todo[m] # <<>> /\ e = Head(todo[m])
  <2>1. From(at[r]) = Behind(next, at[r])
    BY FromIs
  <2> QED BY <1>1, <2>1 DEF Meets, Moved
<1>3. ASSUME NEW r \in Readers, NEW e
      PROVE  Meets(at[r], e)' <=>
               \/ \E b \in From(at[r])' : e \in items'[b]
               \/ \E m \in Maintainers :
                    hold'[m] \in From(at[r])' /\ todo'[m] # <<>> /\ e = Head(todo'[m])
  <2>1. From(at[r])' = Behind(next', at'[r])
    BY FromIs
  <2> QED BY <1>1, <2>1 DEF Meets, Moved
<1>4. WalkInv <=> \A r \in Readers :
       /\ pc[r] = "walk" => \A e \in due[r] \ seen[r] : Meets(at[r], e)
       /\ pc[r] = "read" => due[r] \subseteq seen[r]
  BY <1>2 DEF WalkInv
<1>5. WalkInv' <=> \A r \in Readers :
       /\ pc'[r] = "walk" => \A e \in due'[r] \ seen'[r] : Meets(at[r], e)'
       /\ pc'[r] = "read" => due'[r] \subseteq seen'[r]
  BY <1>3 DEF WalkInv
<1> QED BY <1>4, <1>5

\* A step that leaves the pages, and what is being moved, alone.
LEMMA MeetsQuiet ==
  ASSUME UNCHANGED <<next, items>>,
         \A m \in Maintainers : /\ Moved(m) # {} => hold'[m] = hold[m]
                                /\ Moved(m)' = Moved(m),
         NEW b, NEW e, Meets(b, e)
  PROVE  Meets(b, e)'
<1>1. CASE \E c \in Behind(next, b) : e \in items[c]
  BY <1>1 DEF Meets
<1>2. CASE \E m \in Maintainers : hold[m] \in Behind(next, b) /\ e \in Moved(m)
  <2>1. PICK m \in Maintainers : hold[m] \in Behind(next, b) /\ e \in Moved(m)
    BY <1>2
  <2>2. hold'[m] \in Behind(next', b) /\ e \in Moved(m)'
    BY <2>1
  <2> QED BY <2>2 DEF Meets
<1> QED BY <1>1, <1>2 DEF Meets

LEMMA MeetsControl ==
  ASSUME ListInv, NEW p \in Writers,
         \/ BeginAdd(p) \/ LockPage(p) \/ GoNext(p) \/ EndAdd(p)
         \/ p \in Maintainers /\ (ReplaceInPlace(p) \/ EndModify(p)),
         NEW b, NEW e, Meets(b, e)
  PROVE  Meets(b, e)'
<1>1. TypeOK
  BY DEF ListInv
<1>2. UNCHANGED <<next, items>>
  BY DEF BeginAdd, LockPage, GoNext, EndAdd, ReplaceInPlace, EndModify, pageVars
<1>3. CASE EndAdd(p)
  <2>1. /\ todo[p] = <<>> /\ hold'[p] = NoBlock
        /\ \A q \in Writers \ {p} : hold'[q] = hold[q] /\ todo'[q] = todo[q]
    BY <1>1, <1>3 DEF EndAdd, TypeOK
  <2>2. ASSUME NEW m \in Maintainers
        PROVE  (Moved(m) # {} => hold'[m] = hold[m]) /\ Moved(m)' = Moved(m)
    <3>1. CASE m = p
      BY <2>1, <3>1 DEF Moved
    <3>2. CASE m # p
      BY <2>1, <3>2, ProcIs DEF Moved
    <3> QED BY <3>1, <3>2
  <2> QED BY <1>2, <2>2, MeetsQuiet
<1>4. CASE ~EndAdd(p)
  <2>1. UNCHANGED <<hold, todo>>
    BY <1>4 DEF BeginAdd, LockPage, GoNext, ReplaceInPlace, EndModify
  <2>2. \A m \in Maintainers : hold'[m] = hold[m] /\ Moved(m)' = Moved(m)
    BY <2>1 DEF Moved
  <2> QED BY <1>2, <2>2, MeetsQuiet
<1> QED BY <1>3, <1>4

\* An entry that was on its way lands on a page behind the one it came from.
LEMMA MeetsAppend ==
  ASSUME ListInv, MoveInv, NEW p \in Writers, AppendItem(p),
         NEW b \in Block, NEW e, Meets(b, e)
  PROVE  Meets(b, e)'
<1>1. TypeOK /\ next' = next /\ hold' = hold /\ pc[p] = "add" /\ todo[p] # <<>>
  BY DEF ListInv, AppendItem
<1>2. next \in [Block -> Block \cup {NoBlock}] /\ at[p] \in Block
  BY <1>1, LinkedNow DEF ListInv, WriterInv, TypeOK
<1>3. /\ items'[at[p]] = items[at[p]] \cup {Head(todo[p])}
      /\ \A c \in Block \ {at[p]} : items'[c] = items[c]
      /\ \A q \in Writers \ {p} : todo'[q] = todo[q]
  BY <1>1, <1>2 DEF AppendItem, TypeOK
<1>4. CASE \E c \in Behind(next, b) : e \in items[c]
  <2>1. PICK c \in Behind(next, b) : e \in items[c]
    BY <1>4
  <2>2. c \in Block
    BY <2>1 DEF Behind
  <2>3. e \in items'[c]
    BY <1>3, <2>1, <2>2
  <2> QED BY <1>1, <2>1, <2>3 DEF Meets
<1>5. CASE \E m \in Maintainers : hold[m] \in Behind(next, b) /\ e \in Moved(m)
  <2>1. PICK m \in Maintainers : hold[m] \in Behind(next, b) /\ e \in Moved(m)
    BY <1>5
  <2>2. CASE m = p
    <3>1. hold[m] # NoBlock /\ e = Head(todo[p])
      BY <2>1, <2>2 DEF Moved
    <3>2. at[p] \in Behind(next, hold[m])
      BY <1>1, <2>2, <3>1, FromIs DEF MoveInv
    <3>3. at[p] \in Behind(next, b)
      BY <1>2, <2>1, <3>2, BehindTrans
    <3>4. e \in items'[at[p]]
      BY <1>3, <3>1
    <3> QED BY <1>1, <3>3, <3>4 DEF Meets
  <2>3. CASE m # p
    <3>1. Moved(m)' = Moved(m)
      BY <1>1, <1>3, <2>3, ProcIs DEF Moved
    <3>2. hold'[m] \in Behind(next', b) /\ e \in Moved(m)'
      BY <1>1, <2>1, <3>1
    <3> QED BY <3>2 DEF Meets
  <2> QED BY <2>2, <2>3
<1> QED BY <1>4, <1>5 DEF Meets

LEMMA MeetsNewPage ==
  ASSUME ListInv, NEW p \in Writers, NewPage(p), NEW b \in Block, NEW e, Meets(b, e)
  PROVE  Meets(b, e)'
<1>1. TypeOK /\ UNCHANGED <<items, hold, todo>> /\ pc[p] = "add" /\ next[at[p]] = NoBlock
  BY DEF ListInv, NewPage
<1>2. next \in [Block -> Block \cup {NoBlock}] /\ at[p] \in Block
  BY <1>1, LinkedNow DEF ListInv, WriterInv, TypeOK
<1>3. \A c \in Block \ {at[p]} : next'[c] = next[c]
  BY <1>2 DEF NewPage
<1>4. Behind(next, b) \subseteq Behind(next', b)
  BY <1>1, <1>2, <1>3, BehindAppend
<1>5. \A m \in Maintainers : Moved(m)' = Moved(m)
  BY <1>1 DEF Moved
<1> QED BY <1>1, <1>4, <1>5 DEF Meets

\* The entry that is taken off its page is on its way from there.
LEMMA MeetsMove ==
  ASSUME ListInv, NEW m \in Maintainers, DeleteAndMove(m), NEW b \in Block, NEW e, Meets(b, e)
  PROVE  Meets(b, e)'
<1>1. TypeOK /\ next' = next /\ pc[m] = "modify" /\ m \in Writers
  BY ProcIs DEF ListInv, DeleteAndMove
<1>2. PICK i : i = Head(mods[m])
  OBVIOUS
<1>9. PICK d \in Linked : /\ items' = [items EXCEPT ![d] = @ \ {i}]
                          /\ hold' = [hold EXCEPT ![m] = d] /\ todo' = [todo EXCEPT ![m] = <<i>>]
  BY <1>2 DEF DeleteAndMove
<1>3. d \in Block /\ d # NoBlock
  BY <1>1, <1>9, LinkedNow, BlockIs
<1>4. /\ items'[d] = items[d] \ {i} /\ \A c \in Block \ {d} : items'[c] = items[c]
      /\ hold'[m] = d /\ todo'[m] = <<i>>
      /\ \A q \in Writers \ {m} : hold'[q] = hold[q] /\ todo'[q] = todo[q]
  BY <1>1, <1>3, <1>9 DEF TypeOK
<1>5. hold[m] = NoBlock
  BY <1>1 DEF ListInv, WriterInv
<1>6. Moved(m) = {} /\ Moved(m)' = {i} /\ \A q \in Maintainers \ {m} : Moved(q)' = Moved(q)
  BY <1>3, <1>4, <1>5, ProcIs DEF Moved
<1>7. CASE \E c \in Behind(next, b) : e \in items[c]
  <2>1. PICK c \in Behind(next, b) : e \in items[c]
    BY <1>7
  <2>2. c \in Block
    BY <2>1 DEF Behind
  <2>3. CASE c = d /\ e = i
    <3>1. hold'[m] \in Behind(next', b) /\ e \in Moved(m)'
      BY <1>1, <1>4, <1>6, <2>1, <2>3
    <3> QED BY <3>1 DEF Meets
  <2>4. CASE ~(c = d /\ e = i)
    <3>1. e \in items'[c]
      BY <1>4, <2>1, <2>2, <2>4
    <3> QED BY <1>1, <2>1, <3>1 DEF Meets
  <2> QED BY <2>3, <2>4
<1>8. CASE \E q \in Maintainers : hold[q] \in Behind(next, b) /\ e \in Moved(q)
  <2>1. PICK q \in Maintainers : hold[q] \in Behind(next, b) /\ e \in Moved(q)
    BY <1>8
  <2>2. q # m
    BY <1>6, <2>1
  <2>3. hold'[q] \in Behind(next', b) /\ e \in Moved(q)'
    BY <1>1, <1>4, <1>6, <2>1, <2>2, ProcIs
  <2> QED BY <2>3 DEF Meets
<1> QED BY <1>7, <1>8 DEF Meets

LEMMA MeetsCollect ==
  ASSUME ListInv, NEW m \in Maintainers, CollectPage(m),
         NEW b \in Block, NEW e, e \notin Garbage, Meets(b, e)
  PROVE  Meets(b, e)'
<1>1. TypeOK /\ UNCHANGED <<next, hold, todo>> /\ at[m] \in Block
  BY CollectsPage DEF ListInv, CollectPage
<1>2. items'[at[m]] = items[at[m]] \ Garbage /\ \A c \in Block \ {at[m]} : items'[c] = items[c]
  BY <1>1 DEF CollectPage, TypeOK
<1>3. \A c \in Block : e \in items[c] => e \in items'[c]
  BY <1>2
<1>4. \A c \in Behind(next, b) : c \in Block
  BY DEF Behind
<1>5. \A q \in Maintainers : Moved(q)' = Moved(q)
  BY <1>1 DEF Moved
<1> QED BY <1>1, <1>3, <1>4, <1>5 DEF Meets

\* The pages that garbage_collect leads a walk past hold no entries; those it
\* unlinks lead back to the list.
LEMMA MeetsCut ==
  ASSUME ListInv, NEW m \in Maintainers, Relink(m) \/ Unlink(m),
         NEW b \in Block, NEW e, Meets(b, e)
  PROVE  Meets(b, e)'
<1>1. /\ TypeOK /\ GapInv(m) /\ pc[m] \in {"relink", "unlink"} /\ m \in Writers
      /\ UNCHANGED <<items, hold, todo>>
  BY ProcIs DEF ListInv, CollectInv, Collecting, Relink, Unlink
<1>2. PICK f, t : f = filled[m] /\ t = at[m]
  OBVIOUS
<1>3. /\ pc[m] = "unlink" <=> t = NoBlock
      /\ \A c \in Emptied : items[c] = {}
      /\ \A c \in Emptied \cup {f} : next[c] \in Emptied \cup {t}
  BY <1>1, <1>2 DEF GapInv
<1>4. /\ next' = [next EXCEPT ![f] = t] /\ f \in Block /\ t \in Block \cup {NoBlock}
      /\ next \in [Block -> Block \cup {NoBlock}] /\ Emptied \in SUBSET Block
  BY <1>1, <1>2, <1>3, ProcIs DEF Relink, Unlink, TypeOK, Emptied
<1>5. next'[f] = t /\ \A c \in Block \ {f} : next'[c] = next[c]
  BY <1>4
<1>6. Behind(next, b) \ Emptied \subseteq Behind(next', b)
  BY <1>3, <1>4, <1>5, BehindCut
<1>7. \A q \in Maintainers : Moved(q) = {}
  BY <1>1, ProcIs DEF ListInv, PhaseInv, WriterInv, Moved
<1>8. PICK c \in Behind(next, b) : e \in items[c]
  BY <1>7 DEF Meets
<1>9. c \in Behind(next', b) /\ e \in items'[c]
  BY <1>1, <1>3, <1>6, <1>8
<1> QED BY <1>9 DEF Meets

-----------------------------------------------------------------------------
(* The page an entry is moved from                                          *)

\* A writer at work is the only one that may be moving an entry.
LEMMA OnlyMover ==
  ASSUME ListInv, NEW p \in Writers, pc[p] # "done"
  PROVE  \A m \in Maintainers \ {p} : hold[m] = NoBlock
BY ProcIs DEF ListInv, PhaseInv, WriterInv

\* What MoveInv says of m.
Holds(m) ==
  hold[m] # NoBlock =>
    /\ hold[m] \in Reach(next) /\ lock[hold[m]] = m
    /\ pc[m] = "wait" => want[m] \in Behind(next, hold[m])
    /\ pc[m] = "add" => at[m] \in Behind(next, hold[m])

LEMMA HoldsIs ==
  /\ MoveInv <=> \A m \in Maintainers : Holds(m)
  /\ MoveInv' <=> \A m \in Maintainers : Holds(m)'
BY FromIs, LinkedIs DEF MoveInv, Holds

LEMMA HoldAdd ==
  ASSUME ListInv, MoveInv, NEW p \in Writers, AddStep(p)
  PROVE  MoveInv'
<1>1. TypeOK /\ p \in Proc /\ WriterInv /\ next \in [Block -> Block \cup {NoBlock}]
  BY ProcIs DEF ListInv, TypeOK
<1>2. pc[p] # "done"
  BY DEF AddStep, BeginAdd, LockPage, AppendItem, GoNext, NewPage, EndAdd
<1>3. ASSUME NEW m \in Maintainers, m # p PROVE Holds(m)'
  <2>1. hold[m] = NoBlock /\ m \in Writers
    BY <1>2, <1>3, OnlyMover, ProcIs
  <2>2. hold'[m] = hold[m]
    BY <1>1, <1>3, <2>1 DEF AddStep, BeginAdd, LockPage, AppendItem, GoNext, NewPage, EndAdd, TypeOK
  <2> QED BY <2>1, <2>2 DEF Holds
<1>4. ASSUME p \in Maintainers PROVE Holds(p)'
  <2>1. Holds(p)
    BY <1>4, HoldsIs
  <2>2. PICK h : h = hold[p]
    OBVIOUS
  <2>3. SUFFICES ASSUME hold'[p] # NoBlock PROVE Holds(p)'
    BY DEF Holds
  <2>4. hold'[p] = h /\ h \in Block
    BY <1>1, <2>2, <2>3 DEF AddStep, BeginAdd, LockPage, AppendItem, GoNext, NewPage, EndAdd, TypeOK
  <2>5. /\ h \in Reach(next) /\ lock[h] = p /\ pc[p] \in {"wait", "add"}
        /\ pc[p] = "wait" => want[p] \in Behind(next, h)
        /\ pc[p] = "add" => at[p] \in Behind(next, h)
    BY <1>1, <2>1, <2>2, <2>4, BlockIs DEF Holds, WriterInv
  <2>6. CASE LockPage(p)
    <3>1. /\ pc[p] = "wait" /\ pc'[p] = "add" /\ at'[p] = want[p] /\ next' = next
          /\ lock' = MoveLock(p, want[p])
      BY <1>1, <2>6 DEF LockPage, TypeOK, pageVars
    <3>2. lock'[h] = p
      BY <2>2, <2>4, <2>5, <3>1 DEF MoveLock
    <3> QED BY <2>4, <2>5, <3>1, <3>2 DEF Holds
  <2>7. CASE AppendItem(p)
    <3>1. UNCHANGED <<next, lock, pc, at, want>>
      BY <2>7 DEF AppendItem
    <3> QED BY <2>4, <2>5, <3>1 DEF Holds
  <2>8. CASE GoNext(p)
    <3>1. /\ pc[p] = "add" /\ pc'[p] = "wait" /\ want'[p] = next[at[p]] /\ next[at[p]] # NoBlock
          /\ UNCHANGED <<next, lock>>
      BY <1>1, <2>8 DEF GoNext, TypeOK, pageVars
    <3>2. want'[p] \in Behind(next, h)
      BY <1>1, <2>4, <2>5, <3>1, BehindIs
    <3> QED BY <2>4, <2>5, <3>1, <3>2 DEF Holds
  <2>9. CASE NewPage(p)
    <3>1. PICK c : c = used + 1
      OBVIOUS
    <3>2. /\ pc[p] = "add" /\ pc' = pc /\ at'[p] = c /\ next[at[p]] = NoBlock
          /\ next' = [next EXCEPT ![at[p]] = c] /\ lock' = MoveLock(p, c)
          /\ c \in Block
      BY <1>1, <2>9, <3>1, ListAssumption DEF NewPage, TypeOK, Block
    <3>3. at[p] \in Block /\ at[p] \in Behind(next, h)
      BY <2>5, <3>2 DEF Behind
    <3>4. /\ next' \in [Block -> Block \cup {NoBlock}] /\ next'[at[p]] = c
          /\ \A d \in Block \ {at[p]} : next'[d] = next[d]
      BY <1>1, <3>2, <3>3
    <3>5. at[p] \in Behind(next', h)
      BY <1>1, <2>4, <3>2, <3>3, <3>4, BehindAppend
    <3>6. c \in Behind(next', h)
      <4>1. next'[at[p]] \in Behind(next', h) \cup {NoBlock}
        BY <2>4, <3>4, <3>5, BehindIs
      <4> QED BY <3>2, <3>4, <4>1, BlockIs
    <3>7. lock'[h] = p
      BY <2>2, <2>4, <2>5, <3>2 DEF MoveLock
    <3>8. h \in Reach(next')
      <4>1. Start \in Block
        BY BlockIs
      <4>2. Behind(next, Start) \subseteq Behind(next', Start)
        BY <1>1, <3>2, <3>3, <3>4, <4>1, BehindAppend
      <4> QED BY <2>5, <4>2, BehindStart
    <3> QED BY <2>4, <3>2, <3>6, <3>7, <3>8 DEF Holds
  <2>10. CASE BeginAdd(p)
    BY <2>5, <2>10 DEF BeginAdd
  <2>11. CASE EndAdd(p)
    BY <1>1, <2>3, <2>11 DEF EndAdd, TypeOK
  <2> QED BY <2>6, <2>7, <2>8, <2>9, <2>10, <2>11 DEF AddStep
<1> QED BY <1>3, <1>4, HoldsIs

LEMMA HoldMaintain ==
  ASSUME ListInv, MoveInv, NEW m \in Maintainers, MaintainStep(m)
  PROVE  MoveInv'
<1>1. TypeOK /\ m \in Proc /\ m \in Writers /\ next \in [Block -> Block \cup {NoBlock}]
  BY ProcIs DEF ListInv, TypeOK
<1>2. pc[m] \in {"modify", "gc", "relink", "unlink"}
  BY DEF MaintainStep, ReplaceInPlace, DeleteAndMove, EndModify, CollectPage, Relink, Unlink
<1>3. \A q \in Maintainers : hold[q] = NoBlock
  BY <1>1, <1>2, OnlyMover DEF ListInv, WriterInv
<1>4. CASE DeleteAndMove(m)
  <2>1. PICK d \in Linked : /\ lock' = [lock EXCEPT ![d] = m] /\ at' = [at EXCEPT ![m] = d]
                            /\ hold' = [hold EXCEPT ![m] = d]
    BY <1>4 DEF DeleteAndMove
  <2>2. d \in Block /\ pc'[m] = "add" /\ next' = next
    BY <1>1, <1>4, <2>1, LinkedNow DEF DeleteAndMove, TypeOK
  <2>3. /\ hold'[m] = d /\ lock'[d] = m /\ at'[m] = d
        /\ \A q \in Maintainers \ {m} : hold'[q] = hold[q]
    BY <1>1, <2>1, <2>2, ProcIs DEF TypeOK
  <2>4. Holds(m)'
    BY <1>1, <2>1, <2>2, <2>3, BehindIs, LinkedIs DEF Holds
  <2>5. \A q \in Maintainers \ {m} : Holds(q)'
    BY <1>3, <2>3 DEF Holds
  <2> QED BY <2>4, <2>5, HoldsIs
<1>5. CASE ~DeleteAndMove(m)
  <2>1. hold' = hold
    BY <1>5 DEF MaintainStep, ReplaceInPlace, EndModify, CollectPage, Relink, Unlink
  <2>2. \A q \in Maintainers : Holds(q)'
    BY <1>3, <2>1 DEF Holds
  <2> QED BY <2>2, HoldsIs
<1> QED BY <1>4, <1>5

LEMMA HoldRead ==
  ASSUME ListInv, MoveInv, NEW r \in Readers, ReadStep(r)
  PROVE  MoveInv'
<1>1. TypeOK /\ UNCHANGED <<next, lock, want, hold>>
  BY DEF ListInv, ReadStep, BeginWalk, ReadPage, pageVars
<1>2. \A m \in Maintainers : pc'[m] = pc[m] /\ at'[m] = at[m]
  BY <1>1, ProcIs DEF ReadStep, BeginWalk, ReadPage, TypeOK
<1>3. \A m \in Maintainers : Holds(m)'
  BY <1>1, <1>2, HoldsIs DEF Holds
<1> QED BY <1>3, HoldsIs

-----------------------------------------------------------------------------
(* Every walk is complete                                                   *)

LEMMA WalkWrites ==
  ASSUME ListInv, ReaderInv, NEW p \in Writers, AddStep(p) \/ (p \in Maintainers /\ MaintainStep(p))
  PROVE  WalkType' /\ WalkInv'
<1>1. TypeOK /\ WalkType /\ MoveInv /\ p \in Proc /\ UNCHANGED <<seen, twice, due>>
  BY ProcIs DEF ListInv, ReaderInv, AddStep, BeginAdd, LockPage, AppendItem, GoNext, NewPage, EndAdd,
     MaintainStep, ReplaceInPlace, DeleteAndMove, EndModify, CollectPage, Relink, Unlink, walkVars
<1>2. ASSUME NEW b \in Block, NEW e, e \notin Garbage, Meets(b, e) PROVE Meets(b, e)'
  <2>1. CASE AddStep(p)
    BY <1>1, <1>2, <2>1, MeetsControl, MeetsAppend, MeetsNewPage DEF AddStep
  <2>2. CASE p \in Maintainers /\ MaintainStep(p)
    BY <1>1, <1>2, <2>2, MeetsControl, MeetsMove, MeetsCollect, MeetsCut DEF MaintainStep
  <2> QED BY <2>1, <2>2
<1>3. \A r \in Readers : pc'[r] = pc[r] /\ at'[r] = at[r]
  <2>1. \A r \in Readers : r # p /\ r \in Proc
    BY ProcIs
  <2> QED BY <1>1, <2>1
      DEF TypeOK, AddStep, BeginAdd, LockPage, AppendItem, GoNext, NewPage, EndAdd,
          MaintainStep, ReplaceInPlace, DeleteAndMove, EndModify, CollectPage, Relink, Unlink
<1>4. ASSUME NEW r \in Readers, pc'[r] = "walk", NEW e \in due'[r] \ seen'[r]
      PROVE  Meets(at[r], e)'
  <2>1. PICK b : b = at[r]
    OBVIOUS
  <2>2. b \in Block /\ Meets(b, e)
    BY <1>1, <1>3, <1>4, <2>1, WalkIs DEF ListInv, PhaseInv, ReaderInv
  <2>3. e \notin Garbage
    BY <1>1, <1>4 DEF WalkType
  <2>4. Meets(b, e)' /\ b = at'[r]
    BY <1>2, <1>3, <2>1, <2>2, <2>3
  <2> QED BY <2>4 DEF Meets
<1>5. \A r \in Readers : pc'[r] = "read" => due'[r] \subseteq seen'[r]
  BY <1>1, <1>3, WalkIs DEF ReaderInv
<1>6. WalkInv'
  BY <1>4, <1>5, WalkIs
<1>7. WalkType'
  BY <1>1 DEF WalkType
<1> QED BY <1>6, <1>7

\* A walk that begins has the whole list before it.
LEMMA WalkBegins ==
  ASSUME ListInv, ReaderInv, NEW r \in Readers, BeginWalk(r)
  PROVE  WalkType' /\ WalkInv'
<1>1. TypeOK /\ WalkType /\ MoveInv /\ r \in Proc /\ UNCHANGED <<next, items, hold, todo>>
  BY ProcIs DEF ListInv, ReaderInv, BeginWalk, pageVars
<1>2. /\ pc'[r] = "walk" /\ at'[r] = Start /\ seen'[r] = {} /\ due'[r] = Listed \ Garbage
      /\ \A q \in Readers \ {r} : /\ pc'[q] = pc[q] /\ at'[q] = at[q]
                                  /\ seen'[q] = seen[q] /\ due'[q] = due[q]
  BY <1>1, ProcIs DEF BeginWalk, TypeOK, WalkType
<1>3. \A m \in Maintainers : Moved(m)' = Moved(m)
  BY <1>1 DEF Moved
<1>4. \A b, e : Meets(b, e) => Meets(b, e)'
  BY <1>1, <1>3, MeetsQuiet
<1>5. Linked = Behind(next, Start)
  BY LinkedIs, BehindStart
<1>6. ASSUME NEW e \in Listed PROVE Meets(Start, e)
  <2>1. CASE \E b \in Linked : e \in items[b]
    BY <1>5, <2>1 DEF Meets
  <2>2. CASE \E m \in Maintainers : e \in Moved(m)
    <3>1. PICK m \in Maintainers : e \in Moved(m)
      BY <2>2
    <3>2. hold[m] \in Linked
      BY <1>1, <3>1 DEF Moved, MoveInv
    <3> QED BY <1>5, <3>1, <3>2 DEF Meets
  <2> QED BY <2>1, <2>2, ListedIs
<1>7. ASSUME NEW q \in Readers, pc'[q] = "walk", NEW e \in due'[q] \ seen'[q]
      PROVE  Meets(at[q], e)'
  <2>1. PICK b : b = at'[q]
    OBVIOUS
  <2>2. Meets(b, e)
    <3>1. CASE q = r
      BY <1>2, <1>6, <1>7, <2>1, <3>1
    <3>2. CASE q # r
      BY <1>2, <1>7, <2>1, <3>2, WalkIs DEF ReaderInv
    <3> QED BY <3>1, <3>2
  <2>3. Meets(b, e)'
    BY <1>4, <2>2
  <2> QED BY <2>1, <2>3 DEF Meets
<1>8. \A q \in Readers : pc'[q] = "read" => due'[q] \subseteq seen'[q]
  BY <1>2, WalkIs DEF ReaderInv
<1>9. WalkInv'
  BY <1>7, <1>8, WalkIs
<1>10. Listed \subseteq Entries
  <2>1. \A b \in Linked : items[b] \subseteq Entries
    BY <1>1, LinkedNow DEF TypeOK
  <2>2. \A m \in Maintainers : Moved(m) \subseteq Entries
    BY <1>1, TailSet, ProcIs DEF TypeOK, Moved
  <2> QED BY <2>1, <2>2, ListedIs
<1>11. WalkType'
  BY <1>1, <1>10 DEF WalkType, BeginWalk
<1> QED BY <1>9, <1>11

\* A page that is read is not locked: nothing is being moved from it.
LEMMA WalkReads ==
  ASSUME ListInv, ReaderInv, NEW r \in Readers, ReadPage(r)
  PROVE  WalkType' /\ WalkInv'
<1>1. TypeOK /\ WalkType /\ MoveInv /\ r \in Proc /\ UNCHANGED <<next, items, hold, todo, due>>
  BY ProcIs DEF ListInv, ReaderInv, ReadPage, pageVars
<1>2. PICK a : a = at[r]
  OBVIOUS
<1>3. /\ pc[r] = "walk" /\ lock[a] = NoProc /\ at'[r] = next[a] /\ seen'[r] = seen[r] \cup items[a]
      /\ pc'[r] = IF next[a] = NoBlock THEN "read" ELSE "walk"
      /\ \A q \in Readers \ {r} : pc'[q] = pc[q] /\ at'[q] = at[q] /\ seen'[q] = seen[q]
  BY <1>1, <1>2, ProcIs DEF ReadPage, TypeOK, WalkType
<1>4. a \in Block /\ next \in [Block -> Block \cup {NoBlock}]
  BY <1>1, <1>2, <1>3 DEF ListInv, PhaseInv, TypeOK
<1>5. \A m \in Maintainers : Moved(m)' = Moved(m)
  BY <1>1 DEF Moved
<1>6. \A b, e : Meets(b, e) => Meets(b, e)'
  BY <1>1, <1>5, MeetsQuiet
<1>7. ASSUME NEW e, Meets(a, e), e \notin items[a] PROVE next[a] # NoBlock /\ Meets(next[a], e)
  <2>1. CASE \E c \in Behind(next, a) : e \in items[c]
    <3>1. PICK c \in Behind(next, a) : e \in items[c]
      BY <2>1
    <3>2. c # a
      BY <1>7, <3>1
    <3>3. next[a] # NoBlock /\ c \in Behind(next, next[a])
      BY <1>4, <3>1, <3>2, BehindNext
    <3> QED BY <3>1, <3>3 DEF Meets
  <2>2. CASE \E m \in Maintainers : hold[m] \in Behind(next, a) /\ e \in Moved(m)
    <3>1. PICK m \in Maintainers : hold[m] \in Behind(next, a) /\ e \in Moved(m)
      BY <2>2
    <3>2. hold[m] # NoBlock
      BY <3>1 DEF Moved
    <3>3. lock[hold[m]] = m /\ m # NoProc
      BY <1>1, <3>1, <3>2, ListAssumption, ProcIs DEF MoveInv
    <3>4. hold[m] # a
      BY <1>3, <3>3
    <3>5. next[a] # NoBlock /\ hold[m] \in Behind(next, next[a])
      BY <1>4, <3>1, <3>4, BehindNext
    <3> QED BY <3>1, <3>5 DEF Meets
  <2> QED BY <1>7, <2>1, <2>2 DEF Meets
<1>8. \A e \in due[r] \ seen[r] : Meets(a, e)
  BY <1>2, <1>3, WalkIs DEF ReaderInv
<1>9. ASSUME NEW q \in Readers, pc'[q] = "walk", NEW e \in due'[q] \ seen'[q]
      PROVE  Meets(at[q], e)'
  <2>1. PICK b : b = at'[q]
    OBVIOUS
  <2>2. Meets(b, e)
    <3>1. CASE q = r
      BY <1>1, <1>3, <1>7, <1>8, <1>9, <2>1, <3>1
    <3>2. CASE q # r
      BY <1>1, <1>3, <1>9, <2>1, <3>2, WalkIs DEF ReaderInv
    <3> QED BY <3>1, <3>2
  <2>3. Meets(b, e)'
    BY <1>6, <2>2
  <2> QED BY <2>1, <2>3 DEF Meets
<1>10. ASSUME NEW q \in Readers, pc'[q] = "read" PROVE due'[q] \subseteq seen'[q]
  <2>1. CASE q = r
    BY <1>1, <1>3, <1>7, <1>8, <1>10, <2>1
  <2>2. CASE q # r
    BY <1>1, <1>3, <1>10, <2>2, WalkIs DEF ReaderInv
  <2> QED BY <2>1, <2>2
<1>11. WalkInv'
  BY <1>9, <1>10, WalkIs
<1>12. WalkType'
  <2>1. items[a] \subseteq Entries
    BY <1>1, <1>4 DEF TypeOK
  <2> QED BY <1>1, <1>2, <2>1 DEF WalkType, ReadPage
<1> QED BY <1>11, <1>12

-----------------------------------------------------------------------------
(* Pages are linked in the order they were allocated                        *)

LEMMA OrderWrites ==
  ASSUME ListInv, OrderInv, NEW p \in Writers, AddStep(p)
  PROVE  OrderInv'
<1>1. TypeOK /\ p \in Proc /\ PhaseInv /\ ChainInv
  BY ProcIs DEF ListInv
<1>2. pc[p] # "done" /\ ~Collecting(p)
  BY DEF AddStep, BeginAdd, LockPage, AppendItem, GoNext, NewPage, EndAdd, Collecting
<1>3. ASSUME NEW b \in Block, next'[b] # NoBlock PROVE b < next'[b]
  <2>1. CASE NewPage(p)
    <3>1. at[p] \in Linked /\ at[p] \in Block
      BY <1>1, <2>1, LinkedNow DEF NewPage, ListInv, WriterInv
    <3>2. at[p] <= used /\ at[p] \in Nat /\ used \in Nat
      BY <1>1, <3>1, LinkedUsed, BlockIs DEF TypeOK
    <3>3. next'[at[p]] = used + 1 /\ \A c \in Block \ {at[p]} : next'[c] = next[c]
      BY <1>1, <2>1, <3>1 DEF NewPage, TypeOK
    <3>4. at[p] < used + 1
      BY <3>2
    <3> QED BY <1>3, <3>3, <3>4 DEF OrderInv
  <2>2. CASE ~NewPage(p)
    <3>1. next' = next
      BY <2>2 DEF AddStep, BeginAdd, LockPage, AppendItem, GoNext, EndAdd, pageVars
    <3> QED BY <1>3, <3>1 DEF OrderInv
  <2> QED BY <2>1, <2>2
<1>4. ASSUME NEW m \in Maintainers, Collecting(m)' PROVE pc'[m] = "gc" /\ at'[m] = Start
  <2>1. \A q \in Maintainers : ~Collecting(q)
    BY <1>1, <1>2, ProcIs DEF PhaseInv, Collecting
  <2>2. m \in Proc /\ (m # p => pc'[m] = pc[m])
    BY <1>1, ProcIs DEF AddStep, BeginAdd, LockPage, AppendItem, GoNext, NewPage, EndAdd, TypeOK
  <2>3. m = p
    BY <1>4, <2>1, <2>2 DEF Collecting
  <2>4. EndAdd(p)
    BY <1>1, <1>4, <2>1, <2>3
       DEF AddStep, BeginAdd, LockPage, AppendItem, GoNext, NewPage, Collecting, TypeOK
  <2> QED BY <1>1, <1>4, <2>3, <2>4 DEF EndAdd, TypeOK, Collecting
<1> QED BY <1>3, <1>4 DEF OrderInv

LEMMA OrderMaintains ==
  ASSUME ListInv, OrderInv, NEW m \in Maintainers, MaintainStep(m)
  PROVE  OrderInv'
<1>1. TypeOK /\ m \in Proc /\ m \in Writers /\ PhaseInv /\ CollectInv
  BY ProcIs DEF ListInv
<1>2. pc[m] # "done"
  BY DEF MaintainStep, ReplaceInPlace, DeleteAndMove, EndModify, CollectPage, Relink, Unlink
<1>3. ASSUME NEW q \in Maintainers, q # m PROVE ~Collecting(q)'
  <2>1. pc[q] = "done" /\ q \in Proc
    BY <1>1, <1>2, <1>3, ProcIs DEF PhaseInv
  <2>2. pc'[q] = pc[q]
    BY <1>1, <1>3, <2>1
       DEF MaintainStep, ReplaceInPlace, DeleteAndMove, EndModify, CollectPage, Relink, Unlink, TypeOK
  <2> QED BY <2>1, <2>2 DEF Collecting
<1>4. CASE ReplaceInPlace(m) \/ DeleteAndMove(m) \/ EndModify(m)
  <2>1. next' = next /\ pc'[m] \in {"modify", "add", "wait"}
    BY <1>1, <1>4 DEF ReplaceInPlace, DeleteAndMove, EndModify, TypeOK, pageVars
  <2> QED BY <1>3, <2>1 DEF OrderInv, Collecting
<1>5. CASE CollectPage(m)
  <2>1. PICK b : b = at[m]
    OBVIOUS
  <2>2. pc[m] = "gc" /\ next' = next /\ filled' = filled
    BY <1>5 DEF CollectPage
  <2>3. b \in Block /\ b \in Nat /\ next[b] \in Block \cup {NoBlock} /\ filled[m] \in Nat
        /\ b # NoBlock /\ b \in Linked
    BY <1>1, <2>1, <2>2, CollectsPage, BlockIs DEF TypeOK
  <2>4. GapInv(m)
    BY <1>1, <2>2 DEF CollectInv, Collecting
  <2>5. b = Start => filled[m] = Start
    BY <2>1, <2>4 DEF GapInv
  <2>6. b = Start \/ filled[m] < b
    BY <2>1, <2>2, <2>3 DEF OrderInv, Collecting
  <2>7. next[b] # NoBlock => filled[m] < next[b] /\ next[b] \in Nat
    <3>1. filled[m] <= b
      BY <2>3, <2>5, <2>6
    <3>2. next[b] # NoBlock => b < next[b] /\ next[b] \in Nat
      BY <2>3, BlockIs DEF OrderInv
    <3> QED BY <2>3, <3>1, <3>2
  <2>8. at'[m] = next[b] \/ (b # Start /\ at'[m] = b)
    BY <1>1, <1>5, <2>1 DEF CollectPage, TypeOK
  <2>9. at'[m] = NoBlock \/ filled'[m] < at'[m]
    BY <2>2, <2>6, <2>7, <2>8
  <2> QED BY <1>3, <2>2, <2>9 DEF OrderInv
<1>6. CASE Relink(m)
  <2>1. PICK f, t : f = filled[m] /\ t = at[m]
    OBVIOUS
  <2>2. pc[m] = "relink" /\ next' = [next EXCEPT ![f] = t] /\ filled'[m] = t /\ at'[m] = ahead[m]
    BY <1>1, <1>6, <2>1 DEF Relink, TypeOK
  <2>3. t \in Block /\ t \in Nat /\ t # NoBlock /\ f \in Block
    BY <1>1, <2>1, <2>2, CollectsPage, BlockIs DEF TypeOK
  <2>4. f < t
    BY <2>1, <2>2, <2>3 DEF OrderInv, Collecting
  <2>5. ahead[m] = next[t]
    BY <1>1, <2>1, <2>2 DEF CollectInv, Collecting, GapInv
  <2>6. next'[f] = t /\ \A b \in Block \ {f} : next'[b] = next[b]
    BY <1>1, <2>2, <2>3 DEF TypeOK
  <2>7. \A b \in Block : next'[b] # NoBlock => b < next'[b]
    BY <2>4, <2>6 DEF OrderInv
  <2>8. at'[m] = NoBlock \/ filled'[m] < at'[m]
    BY <2>2, <2>3, <2>5 DEF OrderInv
  <2> QED BY <1>3, <2>7, <2>8 DEF OrderInv
<1>7. CASE Unlink(m)
  <2>1. next' = [next EXCEPT ![filled[m]] = NoBlock] /\ pc'[m] = "done" /\ filled[m] \in Block
    BY <1>1, <1>7 DEF Unlink, TypeOK
  <2>2. next'[filled[m]] = NoBlock /\ \A b \in Block \ {filled[m]} : next'[b] = next[b]
    BY <1>1, <2>1 DEF TypeOK
  <2>3. \A b \in Block : next'[b] # NoBlock => b < next'[b]
    BY <2>2 DEF OrderInv
  <2> QED BY <1>3, <2>1, <2>3 DEF OrderInv, Collecting
<1> QED BY <1>4, <1>5, <1>6, <1>7 DEF MaintainStep

LEMMA OrderReads ==
  ASSUME ListInv, OrderInv, NEW r \in Readers, ReadStep(r)
  PROVE  OrderInv'
<1>1. TypeOK /\ UNCHANGED <<next, filled>>
  BY DEF ListInv, ReadStep, BeginWalk, ReadPage, pageVars, gcVars
<1>2. \A m \in Maintainers : pc'[m] = pc[m] /\ at'[m] = at[m]
  BY <1>1, ProcIs DEF ReadStep, BeginWalk, ReadPage, TypeOK
<1> QED BY <1>1, <1>2 DEF OrderInv, Collecting

-----------------------------------------------------------------------------
(* An entry that was not moved is read once                                 *)

LEMMA TailFresh ==
  ASSUME NEW S, NEW s \in Seq(S), s # <<>>, IsInjective(s)
  PROVE  /\ IsInjective(Tail(s)) /\ ToSet(Tail(s)) \subseteq ToSet(s)
         /\ Head(s) \in ToSet(s) /\ Head(s) \notin ToSet(Tail(s))
<1>1. PICK t : t = Tail(s)
  OBVIOUS
<1>2. /\ Head(s) = s[1] /\ Len(s) \in Nat /\ 1 \in DOMAIN s
      /\ DOMAIN s = 1..Len(s) /\ DOMAIN t = 1..(Len(s) - 1)
  BY <1>1
<1>3. \A k \in DOMAIN t : k + 1 \in DOMAIN s /\ k \in Nat /\ k + 1 # 1 /\ t[k] = s[k + 1]
  BY <1>1, <1>2
<1>4. IsInjective(t)
  BY <1>3 DEF IsInjective
<1>5. ToSet(t) \subseteq ToSet(s)
  BY <1>3 DEF ToSet
<1>6. Head(s) \in ToSet(s)
  BY <1>2 DEF ToSet
<1>7. ASSUME NEW k \in DOMAIN t PROVE t[k] # Head(s)
  BY <1>2, <1>3 DEF IsInjective
<1>8. Head(s) \notin ToSet(t)
  BY <1>7 DEF ToSet
<1> QED BY <1>1, <1>4, <1>5, <1>6, <1>8

\* What p has still to create is its own.
LEMMA PendingOwn ==
  ASSUME PendingInv, NEW p \in Writers
  PROVE  /\ Pending(p) \subseteq ToSet(Created[p])
         /\ \A q \in Writers \ {p} : Pending(p) \cap Pending(q) = {}
<1>1. \A q \in Writers : Pending(q) \subseteq ToSet(Created[q])
  BY DEF PendingInv, Pending
<1>2. \A q \in Writers \ {p} : ToSet(Created[p]) \cap ToSet(Created[q]) = {}
  BY FreshAssumption
<1> QED BY <1>1, <1>2

\* A step that appends nothing.
LEMMA FreshQuiet ==
  ASSUME PendingInv, OnceInv, NoDoubleRead, grown \subseteq grown',
         \A b \in Block : items'[b] \subseteq items[b],
         UNCHANGED <<seen, twice>>, \A r \in Readers : pc'[r] = pc[r] /\ at'[r] = at[r],
         \A p \in Writers : Pending(p) \cap grown' = {} /\ Pending(p)' = Pending(p),
         \A p \in Writers : hold'[p] = NoBlock => IsInjective(todo'[p]),
         \A p \in Writers : hold'[p] # NoBlock /\ todo'[p] # <<>> => Head(todo'[p]) \in grown'
  PROVE  PendingInv' /\ OnceInv' /\ NoDoubleRead'
<1>1. PendingInv'
  <2> SUFFICES ASSUME NEW p \in Writers
               PROVE  /\ hold'[p] = NoBlock => /\ IsInjective(todo'[p])
                                               /\ ToSet(todo'[p]) \subseteq ToSet(Created[p])
                      /\ hold'[p] # NoBlock /\ todo'[p] # <<>> => Head(todo'[p]) \in grown'
                      /\ Pending(p)' \cap grown' = {}
                      /\ \A b \in Block : Pending(p)' \cap items'[b] = {}
                      /\ \A r \in Readers : Pending(p)' \cap seen'[r] = {}
    BY DEF PendingInv
  <2>1. hold'[p] = NoBlock => ToSet(todo'[p]) = Pending(p)'
    BY DEF Pending
  <2>2. hold'[p] = NoBlock => ToSet(todo'[p]) \subseteq ToSet(Created[p])
    BY <2>1, PendingOwn
  <2>3. Pending(p)' \cap grown' = {} /\ \A b \in Block : Pending(p)' \cap items'[b] = {}
    BY DEF PendingInv
  <2>4. \A r \in Readers : Pending(p)' \cap seen'[r] = {}
    BY DEF PendingInv
  <2> QED BY <2>2, <2>3, <2>4
<1>2. OnceInv'
  BY DEF OnceInv
<1>3. NoDoubleRead'
  BY DEF NoDoubleRead
<1> QED BY <1>1, <1>2, <1>3

\* An entry is appended: it is new, or it was moved.
LEMMA FreshAppend ==
  ASSUME ListInv, PendingInv, OnceInv, NoDoubleRead, NEW p \in Writers, AppendItem(p)
  PROVE  PendingInv' /\ OnceInv' /\ NoDoubleRead'
<1>1. TypeOK /\ todo[p] # <<>> /\ pc[p] = "add" /\ UNCHANGED <<grown, hold, pc, at, seen, twice>>
  BY DEF ListInv, AppendItem, walkVars
<1>2. PICK i, s : i = Head(todo[p]) /\ s = todo[p]
  OBVIOUS
<1>3. at[p] \in Block /\ s \in Seq(Entries)
  BY <1>1, <1>2, LinkedNow DEF ListInv, WriterInv, TypeOK
<1>4. /\ items'[at[p]] = items[at[p]] \cup {i} /\ \A b \in Block \ {at[p]} : items'[b] = items[b]
      /\ todo'[p] = Tail(s) /\ \A q \in Writers \ {p} : todo'[q] = todo[q]
  BY <1>1, <1>2, <1>3 DEF AppendItem, TypeOK
<1>5. \A q \in Writers \ {p} : Pending(q)' = Pending(q)
  BY <1>1, <1>4 DEF Pending
<1>6. CASE hold[p] = NoBlock
  <2>1. IsInjective(s) /\ Pending(p) = ToSet(s) /\ Pending(p)' = ToSet(Tail(s))
    BY <1>1, <1>2, <1>4, <1>6 DEF PendingInv, Pending
  <2>2. /\ IsInjective(Tail(s)) /\ ToSet(Tail(s)) \subseteq ToSet(s)
        /\ i \in ToSet(s) /\ i \notin ToSet(Tail(s))
    BY <1>1, <1>2, <1>3, <2>1, TailFresh
  <2>3. /\ Pending(p)' \subseteq Pending(p) /\ i \in Pending(p) /\ i \notin Pending(p)'
        /\ \A q \in Writers \ {p} : i \notin Pending(q)
    BY <2>1, <2>2, PendingOwn
  <2>4. (\A b \in Block : i \notin items[b]) /\ \A r \in Readers : i \notin seen[r]
    BY <2>3 DEF PendingInv
  <2>5. ASSUME NEW q \in Writers
        PROVE  /\ hold'[q] = NoBlock => /\ IsInjective(todo'[q])
                                        /\ ToSet(todo'[q]) \subseteq ToSet(Created[q])
               /\ hold'[q] # NoBlock /\ todo'[q] # <<>> => Head(todo'[q]) \in grown'
               /\ Pending(q)' \cap grown' = {}
               /\ \A b \in Block : Pending(q)' \cap items'[b] = {}
               /\ \A r \in Readers : Pending(q)' \cap seen'[r] = {}
    <3>1. Pending(q)' \subseteq Pending(q) /\ i \notin Pending(q)'
      BY <1>5, <2>3
    <3>2. \A b \in Block : items'[b] \subseteq items[b] \cup {i}
      BY <1>4
    <3>3. /\ Pending(q)' \cap grown' = {}
          /\ \A b \in Block : Pending(q)' \cap items'[b] = {}
          /\ \A r \in Readers : Pending(q)' \cap seen'[r] = {}
      BY <1>1, <3>1, <3>2 DEF PendingInv
    <3>4. CASE q = p
      <4>1. ToSet(Tail(s)) \subseteq ToSet(Created[p])
        BY <2>1, <2>2, PendingOwn
      <4> QED BY <1>1, <1>4, <1>6, <2>2, <3>3, <3>4, <4>1
    <3>5. CASE q # p
      BY <1>1, <1>4, <3>3, <3>5 DEF PendingInv
    <3> QED BY <3>4, <3>5
  <2>6. PendingInv'
    BY <2>5 DEF PendingInv
  <2>7. OnceInv'
    BY <1>1, <1>3, <1>4, <2>4 DEF OnceInv
  <2> QED BY <1>1, <2>6, <2>7 DEF NoDoubleRead
<1>7. CASE hold[p] # NoBlock
  <2>1. i \in grown /\ Pending(p)' = Pending(p)
    BY <1>1, <1>2, <1>7 DEF PendingInv, Pending
  <2>2. todo'[p] = <<>>
    <3>1. Len(s) <= 1 /\ s # <<>>
      BY <1>1, <1>2, <1>7 DEF ListInv, WriterInv
    <3>2. Tail(s) = <<>>
      BY <1>3, <3>1
    <3> QED BY <1>4, <3>2
  <2>3. ASSUME NEW q \in Writers
        PROVE  /\ hold'[q] = NoBlock => /\ IsInjective(todo'[q])
                                        /\ ToSet(todo'[q]) \subseteq ToSet(Created[q])
               /\ hold'[q] # NoBlock /\ todo'[q] # <<>> => Head(todo'[q]) \in grown'
               /\ Pending(q)' \cap grown' = {}
               /\ \A b \in Block : Pending(q)' \cap items'[b] = {}
               /\ \A r \in Readers : Pending(q)' \cap seen'[r] = {}
    <3>1. Pending(q)' = Pending(q) /\ i \notin Pending(q)
      BY <1>5, <2>1 DEF PendingInv
    <3>2. \A b \in Block : items'[b] \subseteq items[b] \cup {i}
      BY <1>4
    <3>3. /\ Pending(q)' \cap grown' = {}
          /\ \A b \in Block : Pending(q)' \cap items'[b] = {}
          /\ \A r \in Readers : Pending(q)' \cap seen'[r] = {}
      BY <1>1, <3>1, <3>2 DEF PendingInv
    <3>4. CASE q = p
      BY <1>1, <1>7, <2>2, <3>3, <3>4
    <3>5. CASE q # p
      BY <1>1, <1>4, <3>3, <3>5 DEF PendingInv
    <3> QED BY <3>4, <3>5
  <2>4. PendingInv'
    BY <2>3 DEF PendingInv
  <2>5. OnceInv'
    BY <1>1, <1>3, <1>4, <2>1 DEF OnceInv
  <2> QED BY <1>1, <2>4, <2>5 DEF NoDoubleRead
<1> QED BY <1>6, <1>7

LEMMA FreshAdds ==
  ASSUME ListInv, PendingInv, OnceInv, NoDoubleRead, NEW p \in Writers, AddStep(p)
  PROVE  PendingInv' /\ OnceInv' /\ NoDoubleRead'
<1>1. TypeOK /\ p \in Proc
  BY ProcIs DEF ListInv
<1>2. CASE AppendItem(p)
  BY <1>2, FreshAppend
<1>3. CASE ~AppendItem(p)
  <2>1. UNCHANGED <<items, grown, seen, twice>>
    BY <1>3 DEF AddStep, BeginAdd, LockPage, GoNext, NewPage, EndAdd, walkVars, pageVars
  <2>2. \A r \in Readers : pc'[r] = pc[r] /\ at'[r] = at[r]
    <3>1. \A r \in Readers : r # p /\ r \in Proc
      BY ProcIs
    <3> QED BY <1>1, <1>3, <3>1 DEF TypeOK, AddStep, BeginAdd, LockPage, GoNext, NewPage, EndAdd
  <2>3. \A q \in Writers : Pending(q) \cap grown' = {}
    BY <2>1 DEF PendingInv
  <2>4. CASE EndAdd(p) /\ p \in Maintainers /\ hold[p] # NoBlock
    <3>1. /\ hold'[p] = NoBlock /\ todo'[p] = Created[p]
          /\ \A q \in Writers \ {p} : hold'[q] = hold[q] /\ todo'[q] = todo[q]
      BY <1>1, <2>4 DEF EndAdd, TypeOK
    <3>2. \A q \in Writers : Pending(q)' = Pending(q)
      BY <2>4, <3>1 DEF Pending
    <3>3. \A q \in Writers : hold'[q] = NoBlock => IsInjective(todo'[q])
      BY <3>1, FreshAssumption DEF PendingInv
    <3>4. \A q \in Writers : hold'[q] # NoBlock /\ todo'[q] # <<>> => Head(todo'[q]) \in grown'
      BY <2>1, <3>1 DEF PendingInv
    <3> QED BY <2>1, <2>2, <2>3, <3>2, <3>3, <3>4, FreshQuiet
  <2>5. CASE ~(EndAdd(p) /\ p \in Maintainers /\ hold[p] # NoBlock)
    <3>1. todo' = todo /\ hold' = hold
      <4>1. CASE EndAdd(p)
        <5>1. hold[p] = NoBlock
          BY <2>5, <4>1, ProcIs DEF ListInv, PhaseInv
        <5> QED BY <1>1, <2>5, <4>1, <5>1 DEF EndAdd, TypeOK
      <4>2. CASE ~EndAdd(p)
        BY <1>3, <4>2 DEF AddStep, BeginAdd, LockPage, GoNext, NewPage
      <4> QED BY <4>1, <4>2
    <3>2. \A q \in Writers : Pending(q)' = Pending(q)
      BY <3>1 DEF Pending
    <3>3. \A q \in Writers : /\ hold'[q] = NoBlock => IsInjective(todo'[q])
                             /\ hold'[q] # NoBlock /\ todo'[q] # <<>> => Head(todo'[q]) \in grown'
      BY <2>1, <3>1 DEF PendingInv
    <3> QED BY <2>1, <2>2, <2>3, <3>2, <3>3, FreshQuiet
  <2> QED BY <2>4, <2>5
<1> QED BY <1>2, <1>3

LEMMA FreshMaintains ==
  ASSUME ListInv, PendingInv, OnceInv, NoDoubleRead, NEW m \in Maintainers, MaintainStep(m)
  PROVE  PendingInv' /\ OnceInv' /\ NoDoubleRead'
<1>1. TypeOK /\ m \in Proc /\ m \in Writers
  BY ProcIs DEF ListInv
<1>2. UNCHANGED <<seen, twice>> /\ \A r \in Readers : pc'[r] = pc[r] /\ at'[r] = at[r]
  <2>1. \A r \in Readers : r # m /\ r \in Proc
    BY <1>1, ProcIs
  <2> QED BY <1>1, <2>1 DEF TypeOK, walkVars,
          MaintainStep, ReplaceInPlace, DeleteAndMove, EndModify, CollectPage, Relink, Unlink
<1>3. PICK i : i = Head(mods[m])
  OBVIOUS
<1>4. \A c \in Linked : c \in Block
  BY <1>1, LinkedNow
<1>5. CASE DeleteAndMove(m)
  <2>1. PICK d \in Linked :
          /\ i \in items[d] /\ items' = [items EXCEPT ![d] = @ \ {i}] /\ grown' = grown \cup {i}
          /\ hold' = [hold EXCEPT ![m] = d] /\ todo' = [todo EXCEPT ![m] = <<i>>]
    BY <1>3, <1>5 DEF DeleteAndMove
  <2>2. d \in Block /\ d # NoBlock
    BY <1>4, <2>1, BlockIs
  <2>3. /\ \A b \in Block : items'[b] \subseteq items[b]
        /\ hold'[m] = d /\ todo'[m] = <<i>>
        /\ \A q \in Writers \ {m} : hold'[q] = hold[q] /\ todo'[q] = todo[q]
    BY <1>1, <2>1, <2>2 DEF TypeOK
  <2>4. hold[m] = NoBlock /\ todo[m] = Created[m]
    BY <1>1, <1>5 DEF DeleteAndMove, ListInv, WriterInv
  <2>5. \A q \in Writers : Pending(q)' = Pending(q)
    BY <2>2, <2>3, <2>4 DEF Pending
  <2>6. \A q \in Writers : Pending(q) \cap grown' = {}
    BY <2>1, <2>2 DEF PendingInv
  <2>7. \A q \in Writers : hold'[q] = NoBlock => IsInjective(todo'[q])
    BY <2>2, <2>3 DEF PendingInv
  <2>8. \A q \in Writers : hold'[q] # NoBlock /\ todo'[q] # <<>> => Head(todo'[q]) \in grown'
    <3>1. Head(<<i>>) = i
      OBVIOUS
    <3> QED BY <2>1, <2>3, <3>1 DEF PendingInv
  <2> QED BY <1>2, <2>1, <2>3, <2>5, <2>6, <2>7, <2>8, FreshQuiet
<1>6. CASE ~DeleteAndMove(m)
  <2>1. UNCHANGED <<hold, todo>>
    BY <1>6 DEF MaintainStep, ReplaceInPlace, EndModify, CollectPage, Relink, Unlink
  <2>2. grown \subseteq grown' /\ \A q \in Writers : Pending(q) \cap grown' = {}
    <3>1. CASE ReplaceInPlace(m)
      <4>1. PICK d \in Linked : i \in items[d] /\ grown' = grown \cup {i}
        BY <1>3, <3>1 DEF ReplaceInPlace
      <4> QED BY <1>4, <4>1 DEF PendingInv
    <3>2. CASE ~ReplaceInPlace(m)
      <4>1. grown' = grown
        BY <1>6, <3>2 DEF MaintainStep, EndModify, CollectPage, Relink, Unlink, pageVars
      <4> QED BY <4>1 DEF PendingInv
    <3> QED BY <3>1, <3>2
  <2>3. \A b \in Block : items'[b] \subseteq items[b]
    <3>1. CASE CollectPage(m)
      BY <1>1, <3>1 DEF CollectPage, TypeOK
    <3>2. CASE ~CollectPage(m)
      <4>1. items' = items
        BY <1>6, <3>2 DEF MaintainStep, ReplaceInPlace, EndModify, Relink, Unlink, pageVars
      <4> QED BY <4>1
    <3> QED BY <3>1, <3>2
  <2>4. \A q \in Writers : Pending(q)' = Pending(q)
    BY <2>1 DEF Pending
  <2>5. \A q \in Writers : /\ hold'[q] = NoBlock => IsInjective(todo'[q])
                           /\ hold'[q] # NoBlock /\ todo'[q] # <<>> => Head(todo'[q]) \in grown'
    BY <2>1, <2>2 DEF PendingInv
  <2> QED BY <1>2, <2>2, <2>3, <2>4, <2>5, FreshQuiet
<1> QED BY <1>5, <1>6

\* A walk goes on to a later page: what it has read lies behind it.
LEMMA FreshReads ==
  ASSUME ListInv, WalkType, OrderInv, PendingInv, OnceInv, NoDoubleRead, NEW r \in Readers, ReadStep(r)
  PROVE  PendingInv' /\ OnceInv' /\ NoDoubleRead'
<1>1. TypeOK /\ r \in Proc /\ UNCHANGED <<items, grown, hold, todo>>
  BY ProcIs DEF ListInv, ReadStep, BeginWalk, ReadPage, pageVars
<1>2. \A q \in Writers : Pending(q)' = Pending(q)
  BY <1>1 DEF Pending
<1>3. \A q \in Readers \ {r} : /\ pc'[q] = pc[q] /\ at'[q] = at[q]
                               /\ seen'[q] = seen[q] /\ twice'[q] = twice[q]
  BY <1>1, ProcIs DEF ReadStep, BeginWalk, ReadPage, TypeOK, WalkType
<1>4. ASSUME \A q \in Writers : Pending(q) \cap seen'[r] = {} PROVE PendingInv'
  <2>1. \A q \in Writers : \A k \in Readers : Pending(q)' \cap seen'[k] = {}
    BY <1>2, <1>3, <1>4 DEF PendingInv
  <2> QED BY <1>1, <1>2, <2>1 DEF PendingInv
<1>5. CASE BeginWalk(r)
  <2>1. seen'[r] = {} /\ twice'[r] = {}
    BY <1>5 DEF BeginWalk, WalkType
  <2>2. PendingInv'
    BY <1>4, <2>1
  <2>3. OnceInv'
    BY <1>1, <1>3, <2>1 DEF OnceInv
  <2>4. NoDoubleRead'
    BY <1>1, <1>3, <2>1 DEF NoDoubleRead
  <2> QED BY <2>2, <2>3, <2>4
<1>6. CASE ReadPage(r)
  <2>1. PICK a : a = at[r]
    OBVIOUS
  <2>2. /\ pc[r] = "walk" /\ at'[r] = next[a]
        /\ pc'[r] = IF next[a] = NoBlock THEN "read" ELSE "walk"
        /\ seen'[r] = seen[r] \cup items[a] /\ twice'[r] = twice[r] \cup (seen[r] \cap items[a])
    BY <1>1, <1>6, <2>1 DEF ReadPage, TypeOK, WalkType
  <2>3. a \in Block /\ a \in Nat
    BY <2>1, <2>2, BlockIs DEF ListInv, PhaseInv
  <2>4. PendingInv'
    BY <1>4, <2>2, <2>3 DEF PendingInv
  <2>5. seen[r] \cap items[a] \subseteq grown
    BY <2>1, <2>2, <2>3 DEF OnceInv
  <2>6. NoDoubleRead'
    BY <1>1, <1>3, <2>2, <2>5 DEF NoDoubleRead
  <2>7. ASSUME NEW b \in Block, pc'[r] = "walk", at'[r] <= b
        PROVE  seen'[r] \cap items'[b] \subseteq grown'
    <3>1. next[a] # NoBlock /\ a < next[a] /\ next[a] \in Nat /\ b \in Nat
      BY <1>1, <2>2, <2>3, <2>7, BlockIs DEF OrderInv, TypeOK
    <3>2. a <= b /\ a # b
      BY <2>2, <2>3, <2>7, <3>1
    <3>3. seen[r] \cap items[b] \subseteq grown /\ items[a] \cap items[b] \subseteq grown
      BY <2>1, <2>2, <2>3, <3>2 DEF OnceInv
    <3> QED BY <1>1, <2>2, <3>3
  <2>8. OnceInv'
    BY <1>1, <1>3, <2>7 DEF OnceInv
  <2> QED BY <2>4, <2>6, <2>8
<1> QED BY <1>5, <1>6 DEF ReadStep

-----------------------------------------------------------------------------
(* The invariant of the walks                                               *)

LEMMA ReaderKeeps ==
  ASSUME ListInv, ReaderInv, [Next]_vars
  PROVE  ReaderInv'
<1>1. WalkType /\ MoveInv /\ WalkInv /\ OrderInv /\ PendingInv /\ OnceInv /\ NoDoubleRead
  BY DEF ReaderInv
<1>2. CASE UNCHANGED vars
  <2>1. UNCHANGED <<next, items, grown, lock, pc, at, want, hold, todo, filled, seen, twice, due>>
    BY <1>2 DEF vars, pageVars, gcVars, walkVars
  <2>2. \A m \in Maintainers : Moved(m)' = Moved(m)
    BY <2>1 DEF Moved
  <2>3. \A b, e : Meets(b, e) => Meets(b, e)'
    BY <2>1, <2>2, MeetsQuiet
  <2>4. WalkInv'
    <3>1. ASSUME NEW r \in Readers, NEW e, Meets(at[r], e) PROVE Meets(at[r], e)'
      <4>1. PICK b : b = at[r]
        OBVIOUS
      <4>2. Meets(b, e)' /\ at'[r] = b
        BY <2>1, <2>3, <3>1, <4>1
      <4> QED BY <4>2 DEF Meets
    <3> QED BY <1>1, <2>1, <3>1, WalkIs
  <2>5. WalkType' /\ OrderInv' /\ OnceInv' /\ NoDoubleRead'
    BY <1>1, <2>1 DEF WalkType, OrderInv, OnceInv, NoDoubleRead, Collecting
  <2>6. MoveInv'
    BY <1>1, <2>1, HoldsIs DEF Holds
  <2>7. PendingInv'
    BY <1>1, <2>1 DEF PendingInv, Pending
  <2> QED BY <2>4, <2>5, <2>6, <2>7 DEF ReaderInv
<1>3. ASSUME NEW p \in Writers, AddStep(p) PROVE ReaderInv'
  BY <1>1, <1>3, HoldAdd, WalkWrites, OrderWrites, FreshAdds DEF ReaderInv
<1>4. ASSUME NEW m \in Maintainers, MaintainStep(m) PROVE ReaderInv'
  <2>1. m \in Writers
    BY ProcIs
  <2> QED BY <1>1, <1>4, <2>1, HoldMaintain, WalkWrites, OrderMaintains, FreshMaintains DEF ReaderInv
<1>5. ASSUME NEW r \in Readers, ReadStep(r) PROVE ReaderInv'
  <2>1. WalkType' /\ WalkInv'
    BY <1>5, WalkBegins, WalkReads DEF ReadStep
  <2> QED BY <1>1, <1>5, <2>1, HoldRead, OrderReads, FreshReads DEF ReaderInv
<1> QED BY <1>2, <1>3, <1>4, <1>5 DEF Next

LEMMA ReaderInit ==
  ASSUME Init
  PROVE  ReaderInv
<1>1. PICK W \in Together : pc = [p \in Proc |-> IF p \notin W THEN "done"
                                  ELSE IF p \in Maintainers THEN "modify" ELSE "idle"]
  BY DEF Init
<1>2. \A r \in Readers : pc[r] \in {"done", "idle"} /\ seen[r] = {} /\ twice[r] = {} /\ due[r] = {}
  BY <1>1, ProcIs DEF Init
<1>3. WalkType /\ WalkInv /\ NoDoubleRead
  BY <1>2 DEF Init, WalkType, WalkInv, NoDoubleRead
<1>4. \A p \in Writers : hold[p] = NoBlock /\ todo[p] = Created[p]
  BY DEF Init
<1>5. MoveInv
  BY <1>4, ProcIs DEF MoveInv
<1>6. OrderInv
  <2>1. \A m \in Maintainers : ~Collecting(m)
    BY <1>1, ProcIs DEF Collecting
  <2>2. \A b \in Block : next[b] # NoBlock => b < next[b]
    BY BlockIs DEF Init
  <2> QED BY <2>1, <2>2 DEF OrderInv
<1>7. /\ \A b \in Block : b \in 1..Len(StartPages) => items[b] = StartPages[b]
      /\ \A b \in Block : b \notin 1..Len(StartPages) => items[b] = {}
      /\ grown = {}
  BY ListAssumption DEF Init, Block
<1>8. \A b \in Block : items[b] \subseteq StartEntries
  <2>1. \A b \in 1..Len(StartPages) : StartPages[b] \subseteq StartEntries
    BY DEF StartEntries
  <2> QED BY <1>7, <2>1
<1>9. PendingInv
  BY <1>2, <1>4, <1>7, <1>8, FreshAssumption DEF PendingInv, Pending
<1>10. OnceInv
  <2>1. ASSUME NEW b \in Block, NEW c \in Block, b # c PROVE items[b] \cap items[c] \subseteq grown
    BY <1>7, <2>1, FreshAssumption
  <2> QED BY <1>2, <2>1 DEF OnceInv
<1> QED BY <1>3, <1>5, <1>6, <1>9, <1>10 DEF ReaderInv

LEMMA ReaderInvariant ==
  ASSUME Separate
  PROVE  Spec => []ReaderInv
<1>1. Init => ReaderInv
  BY ReaderInit
<1>2. ListInv /\ ReaderInv /\ [Next]_vars => ReaderInv'
  BY ReaderKeeps
<1> QED BY <1>1, <1>2, ListInvariant, PTL DEF Spec

\* As long as maintainers work on their own, load_metas and lookup_ex, which
\* lock one page at a time, meet every entry that was in the list when they
\* began and is not recyclable: one that is moved lands on a page they have not
\* come to, and an unlinked page they stand on leads back to the list.
THEOREM WalksAreComplete ==
  ASSUME Separate
  PROVE  Spec => []WalkComplete
<1>1. ReaderInv => WalkComplete
  BY DEF ReaderInv, WalkInv, WalkComplete
<1> QED BY <1>1, ReaderInvariant, PTL

\* They meet no entry twice, except one that its delete file made move to a
\* later page.
THEOREM EntriesAreReadOnce ==
  ASSUME Separate
  PROVE  Spec => []NoDoubleRead
<1>1. ReaderInv => NoDoubleRead
  BY DEF ReaderInv
<1> QED BY <1>1, ReaderInvariant, PTL
-----------------------------------------------------------------------------
(* INSERTs that add entries while a merge or VACUUM is at work              *)

RelinkStep == \E m \in Maintainers : Relink(m) \/ Unlink(m)

\* A page that was the last gets a next page, or none does: no page is cut off.
LEMMA LinkedGrows ==
  ASSUME TypeOK, NEW b \in Block, next[b] = NoBlock, \A c \in Block \ {b} : next'[c] = next[c]
  PROVE  Linked \subseteq Linked'
<1>1. Behind(next, Start) \subseteq Behind(next', Start)
  BY BehindAppend, BlockIs DEF TypeOK
<1> QED BY <1>1, BehindStart, LinkedIs

\* Entries stay listed when pages keep them, and those on their way stay so.
LEMMA ListedKeeps ==
  ASSUME Linked \subseteq Linked',
         \A x : \A b \in Linked : x \in items[b] /\ x \notin Garbage =>
           \/ x \in items'[b]
           \/ \E m \in Maintainers : x \in Moved(m)',
         \A x : \A m \in Maintainers : x \in Moved(m) =>
           \/ \E b \in Linked' : x \in items'[b]
           \/ x \in Moved(m)'
  PROVE  Listed \ Garbage \subseteq Listed'
<1> SUFFICES ASSUME NEW x, x \in Listed, x \notin Garbage PROVE x \in Listed'
  OBVIOUS
<1> QED BY ListedIs

\* A step of writer p, which takes no page off the list unless p is the
\* maintainer at work, and leaves p on the list or where it takes no lock.
LEMMA PlaceKeeps ==
  ASSUME PlaceInv, NEW p \in Writers, pc[p] # "done",
         \A q \in Writers \ {p} : pc'[q] = pc[q] /\ at'[q] = at[q] /\ want'[q] = want[q]
                                  /\ hold'[q] = hold[q],
         \A r \in Readers : pc'[r] = pc[r] /\ at'[r] = at[r],
         Linked \subseteq Linked' \/ p \in Maintainers,
         pc'[p] = "wait" => want'[p] \in Block,
         pc'[p] = "add" => at'[p] \in Block,
         p \in Maintainers =>
           /\ pc'[p] \in {"gc", "relink"} => at'[p] \in Block
           /\ pc'[p] = "wait" => want'[p] \in Linked'
           /\ pc'[p] = "add" => at'[p] \in Linked'
           /\ hold'[p] # NoBlock => pc'[p] \in {"wait", "add"}
  PROVE  PlaceInv'
<1>1. \A q \in Writers : /\ pc'[q] = "wait" => want'[q] \in Block
                         /\ pc'[q] = "add" => at'[q] \in Block
  BY DEF PlaceInv
<1>2. \A r \in Readers : pc'[r] = "walk" => at'[r] \in Block
  BY DEF PlaceInv
<1>3. \A m \in Maintainers : m \in Writers
  BY ProcIs
<1>4. p \in Maintainers => \A n \in Maintainers \ {p} : pc[n] = "done"
  BY DEF PlaceInv
<1>5. ASSUME NEW m \in Maintainers
      PROVE  /\ pc'[m] \in {"gc", "relink"} => at'[m] \in Block
             /\ pc'[m] = "wait" => want'[m] \in Linked'
             /\ pc'[m] = "add" => at'[m] \in Linked'
             /\ hold'[m] # NoBlock => pc'[m] \in {"wait", "add"}
  <2>1. CASE m = p
    BY <2>1
  <2>2. CASE m # p
    <3>1. pc'[m] = pc[m] /\ at'[m] = at[m] /\ want'[m] = want[m] /\ hold'[m] = hold[m]
      BY <1>3, <2>2
    <3>2. CASE p \in Maintainers
      BY <1>4, <2>2, <3>1, <3>2 DEF PlaceInv
    <3>3. CASE Linked \subseteq Linked'
      BY <3>1, <3>3 DEF PlaceInv
    <3> QED BY <3>2, <3>3
  <2> QED BY <2>1, <2>2
<1>6. ASSUME NEW m \in Maintainers, NEW n \in Maintainers, m # n
      PROVE  pc'[m] = "done" \/ pc'[n] = "done"
  <2>1. pc[m] = "done" \/ pc[n] = "done"
    BY <1>6 DEF PlaceInv
  <2>2. \A q \in Maintainers : pc[q] = "done" => q # p /\ pc'[q] = "done"
    BY <1>3
  <2> QED BY <2>1, <2>2
<1> QED BY <1>1, <1>2, <1>5, <1>6 DEF PlaceInv
LEMMA AddPlace ==
  ASSUME TypeOK, PlaceInv, NEW p \in Writers, AddStep(p)
  PROVE  PlaceInv' /\ Listed \ Garbage \subseteq Listed'
<1>1. /\ p \in Proc /\ Linked \subseteq Block /\ Start \in Linked /\ NoBlock \notin Linked
      /\ \A b \in Linked : next[b] \in Linked \cup {NoBlock}
      /\ \A q \in Writers : q \in Proc /\ q \notin Readers
      /\ Start \in Block /\ NoBlock \notin Block /\ \A b \in Linked : b \in Block
      /\ Readers \subseteq Proc /\ Maintainers \subseteq Writers
  BY LinkedNow, ProcIs, BlockIs
<1>2. /\ pc[p] = "wait" => want[p] \in Block
      /\ pc[p] = "add" => at[p] \in Block
      /\ p \in Maintainers => /\ pc[p] = "wait" => want[p] \in Linked
                              /\ pc[p] = "add" => at[p] \in Linked
                              /\ hold[p] # NoBlock => pc[p] \in {"wait", "add"}
  BY DEF PlaceInv
<1>3. CASE BeginAdd(p) \/ LockPage(p) \/ GoNext(p) \/ EndAdd(p)
  <2>1. next' = next /\ items' = items
    BY <1>3 DEF BeginAdd, LockPage, GoNext, EndAdd, pageVars
  <2>2. Linked' = Linked
    BY <2>1, SameLinked
  <2>3. /\ pc[p] # "done"
        /\ \A q \in Writers \ {p} : pc'[q] = pc[q] /\ at'[q] = at[q] /\ want'[q] = want[q]
                                    /\ hold'[q] = hold[q] /\ todo'[q] = todo[q]
        /\ \A r \in Readers : pc'[r] = pc[r] /\ at'[r] = at[r]
    BY <1>1, <1>3 DEF BeginAdd, LockPage, GoNext, EndAdd, TypeOK
  <2>4. /\ pc'[p] = "wait" => want'[p] \in Block
        /\ pc'[p] = "add" => at'[p] \in Block
        /\ p \in Maintainers =>
             /\ pc'[p] \in {"gc", "relink"} => at'[p] \in Block
             /\ pc'[p] = "wait" => want'[p] \in Linked'
             /\ pc'[p] = "add" => at'[p] \in Linked'
             /\ hold'[p] # NoBlock => pc'[p] \in {"wait", "add"}
    <3>1. CASE BeginAdd(p)
      BY <1>1, <1>2, <2>2, <3>1 DEF BeginAdd, TypeOK
    <3>2. CASE LockPage(p)
      BY <1>1, <1>2, <2>2, <3>2 DEF LockPage, TypeOK
    <3>3. CASE GoNext(p)
      BY <1>1, <1>2, <2>2, <3>3 DEF GoNext, TypeOK
    <3>4. CASE EndAdd(p)
      BY <1>1, <1>2, <2>2, <3>4 DEF EndAdd, TypeOK
    <3> QED BY <1>3, <3>1, <3>2, <3>3, <3>4
  <2>5. PlaceInv'
    BY <2>2, <2>3, <2>4, PlaceKeeps
  <2>6. Moved(p) \subseteq Moved(p)'
    <3>1. CASE EndAdd(p)
      BY <3>1 DEF EndAdd, Moved
    <3>2. CASE ~EndAdd(p)
      BY <1>3, <3>2 DEF BeginAdd, LockPage, GoNext, Moved
    <3> QED BY <3>1, <3>2
  <2>7. \A m \in Maintainers : Moved(m) \subseteq Moved(m)'
    BY <1>1, <2>3, <2>6 DEF Moved
  <2>8. Listed \ Garbage \subseteq Listed'
    BY <2>1, <2>2, <2>7, ListedKeeps
  <2> QED BY <2>5, <2>8
<1>4. CASE AppendItem(p)
  <2>1. PICK i : i = Head(todo[p])
    OBVIOUS
  <2>2. UNCHANGED <<next, pc, at, want, hold>> /\ pc[p] = "add"
    BY <1>4 DEF AppendItem
  <2>3. Linked' = Linked
    BY <2>2, SameLinked
  <2>4. PlaceInv'
    BY <2>2, <2>3 DEF PlaceInv
  <2>5. /\ at[p] \in Block /\ items'[at[p]] = items[at[p]] \cup {i}
        /\ \A b \in Block \ {at[p]} : items'[b] = items[b]
    BY <1>2, <1>4, <2>1, <2>2 DEF AppendItem, TypeOK
  <2>6. \A q \in Writers \ {p} : todo'[q] = todo[q]
    BY <1>4 DEF AppendItem, TypeOK
  <2>7. p \in Maintainers => Moved(p) \subseteq {i} /\ at[p] \in Linked
    BY <1>2, <2>1, <2>2 DEF Moved
  <2>8. \A m \in Maintainers \ {p} : Moved(m)' = Moved(m)
    BY <1>1, <2>2, <2>6 DEF Moved
  <2>9. \A b \in Linked : items[b] \subseteq items'[b]
    BY <1>1, <2>5
  <2>10. Listed \ Garbage \subseteq Listed'
    BY <2>3, <2>5, <2>7, <2>8, <2>9, ListedKeeps
  <2> QED BY <2>4, <2>10
<1>5. CASE NewPage(p)
  <2>1. PICK b : b = at[p]
    OBVIOUS
  <2>2. PICK c : c = used + 1
    OBVIOUS
  <2>3. /\ pc[p] = "add" /\ b \in Block /\ next[b] = NoBlock
        /\ UNCHANGED <<items, pc, want, hold, todo>>
    BY <1>2, <1>5, <2>1 DEF NewPage
  <2>4. c \in Block
    BY <1>5, <2>2, ListAssumption DEF NewPage, TypeOK, Block
  <2>5. /\ next'[b] = c /\ \A d \in Block \ {b} : next'[d] = next[d]
        /\ next' \in [Block -> Block \cup {NoBlock}]
    BY <1>5, <2>1, <2>2, <2>3, <2>4 DEF NewPage, TypeOK
  <2>6. /\ at'[p] = c /\ \A q \in Proc \ {p} : at'[q] = at[q]
    BY <1>1, <1>5, <2>2 DEF NewPage, TypeOK
  <2>7. Linked \subseteq Linked'
    BY <2>3, <2>5, LinkedGrows
  <2>8. p \in Maintainers => c \in Linked'
    <3>1. \A d \in Linked' : next'[d] \in Linked' \cup {NoBlock}
      BY <2>5, LinkedIs, ReachIs
    <3> QED BY <1>1, <1>2, <2>1, <2>3, <2>4, <2>5, <2>7, <3>1
  <2>9. p \in Maintainers =>
          /\ pc'[p] = "add"
          /\ at'[p] \in Linked'
          /\ hold'[p] # NoBlock => pc'[p] \in {"wait", "add"}
    BY <2>3, <2>6, <2>8
  <2>10. PlaceInv'
    BY <1>1, <2>3, <2>4, <2>6, <2>7, <2>9, PlaceKeeps
  <2>11. \A m \in Maintainers : Moved(m)' = Moved(m)
    BY <2>3 DEF Moved
  <2>12. Listed \ Garbage \subseteq Listed'
    BY <2>3, <2>7, <2>11, ListedKeeps
  <2> QED BY <2>10, <2>12
<1> QED BY <1>3, <1>4, <1>5 DEF AddStep

LEMMA MaintainPlace ==
  ASSUME TypeOK, PlaceInv, NEW m \in Maintainers, MaintainStep(m)
  PROVE  PlaceInv' /\ (Listed \ Garbage \subseteq Listed' \/ RelinkStep)
<1>1. /\ m \in Proc /\ m \in Writers /\ Linked \subseteq Block /\ Start \in Linked
      /\ \A b \in Linked : b \in Block /\ NoBlock \notin Block /\ Start \in Block
      /\ \A q \in Writers : q \in Proc /\ q \notin Readers
      /\ Readers \subseteq Proc /\ Maintainers \subseteq Writers
  BY LinkedNow, ProcIs, BlockIs
<1>2. /\ pc[m] \in {"gc", "relink"} => at[m] \in Block
      /\ hold[m] # NoBlock => pc[m] \in {"wait", "add"}
  BY DEF PlaceInv
<1>3. /\ pc[m] # "done"
      /\ \A q \in Writers \ {m} : pc'[q] = pc[q] /\ at'[q] = at[q] /\ want'[q] = want[q]
                                  /\ hold'[q] = hold[q] /\ todo'[q] = todo[q]
      /\ \A r \in Readers : pc'[r] = pc[r] /\ at'[r] = at[r]
  BY <1>1 DEF MaintainStep, ReplaceInPlace, DeleteAndMove, EndModify, CollectPage, Relink, Unlink,
              TypeOK, pageVars
<1>4. CASE ReplaceInPlace(m) \/ EndModify(m)
  <2>1. next' = next /\ items' = items /\ hold' = hold /\ todo' = todo
    BY <1>4 DEF ReplaceInPlace, EndModify, pageVars
  <2>2. Linked' = Linked
    BY <2>1, SameLinked
  <2>3. pc[m] = "modify" /\ pc'[m] \in {"modify", "wait"} /\ (pc'[m] = "wait" => want'[m] = Start)
    BY <1>1, <1>4 DEF ReplaceInPlace, EndModify, TypeOK
  <2>4. PlaceInv'
    BY <1>1, <1>2, <1>3, <2>1, <2>2, <2>3, PlaceKeeps
  <2>5. \A n \in Maintainers : Moved(n)' = Moved(n)
    BY <2>1 DEF Moved
  <2> QED BY <2>1, <2>2, <2>4, <2>5, ListedKeeps
<1>5. CASE DeleteAndMove(m)
  <2>1. PICK i : i = Head(mods[m])
    OBVIOUS
  <2>2. PICK b \in Linked : /\ items' = [items EXCEPT ![b] = @ \ {i}]
                            /\ at' = [at EXCEPT ![m] = b]
                            /\ hold' = [hold EXCEPT ![m] = b]
                            /\ todo' = [todo EXCEPT ![m] = <<i>>]
    BY <1>5, <2>1 DEF DeleteAndMove
  <2>3. /\ next' = next /\ pc[m] = "modify" /\ pc'[m] = "add"
    BY <1>1, <1>5 DEF DeleteAndMove, TypeOK
  <2>4. Linked' = Linked
    BY <2>3, SameLinked
  <2>5. at'[m] = b /\ hold'[m] = b /\ todo'[m] = <<i>> /\ b \in Block /\ b # NoBlock
    BY <1>1, <2>2 DEF TypeOK
  <2>6. PlaceInv'
    BY <1>1, <1>3, <2>2, <2>3, <2>4, <2>5, PlaceKeeps
  <2>7. Moved(m) = {} /\ Moved(m)' = {i}
    BY <1>2, <2>3, <2>5 DEF Moved
  <2>8. \A n \in Maintainers \ {m} : Moved(n)' = Moved(n)
    BY <1>1, <1>3 DEF Moved
  <2>9. \A c \in Linked : items[c] \ {i} \subseteq items'[c]
    BY <1>1, <2>2 DEF TypeOK
  <2>10. Listed \ Garbage \subseteq Listed'
    BY <2>4, <2>7, <2>8, <2>9, ListedKeeps
  <2> QED BY <2>6, <2>10
<1>6. CASE CollectPage(m)
  <2>1. next' = next /\ hold' = hold /\ todo' = todo /\ want' = want /\ pc[m] = "gc"
    BY <1>6 DEF CollectPage
  <2>2. Linked' = Linked
    BY <2>1, SameLinked
  <2>3. /\ pc'[m] \in {"relink", "unlink", "done", "gc"}
        /\ pc'[m] \in {"gc", "relink"} => at'[m] \in Block
    BY <1>1, <1>2, <1>6, <2>1 DEF CollectPage, TypeOK
  <2>4. PlaceInv'
    BY <1>1, <1>2, <1>3, <2>1, <2>3, PlaceKeeps
  <2>5. \A b \in Linked : items[b] \ Garbage \subseteq items'[b]
    BY <1>1, <1>2, <1>6, <2>1 DEF CollectPage, TypeOK
  <2>6. \A n \in Maintainers : Moved(n)' = Moved(n)
    BY <2>1 DEF Moved
  <2>7. Listed \ Garbage \subseteq Listed'
    BY <2>2, <2>5, <2>6, ListedKeeps
  <2> QED BY <2>4, <2>7
<1>7. CASE Relink(m) \/ Unlink(m)
  <2>1. /\ pc[m] \in {"relink", "unlink"} /\ pc'[m] \in {"done", "gc"} /\ hold' = hold
    BY <1>1, <1>7 DEF Relink, Unlink, TypeOK
  <2>2. pc'[m] = "gc" => at'[m] \in Block
    BY <1>1, <1>7, <2>1 DEF Relink, Unlink, TypeOK
  <2>3. PlaceInv'
    BY <1>1, <1>2, <1>3, <2>1, <2>2, PlaceKeeps
  <2> QED BY <1>7, <2>3 DEF RelinkStep
<1> QED BY <1>4, <1>5, <1>6, <1>7 DEF MaintainStep
LEMMA ReadPlace ==
  ASSUME TypeOK, PlaceInv, NEW r \in Readers, ReadStep(r)
  PROVE  PlaceInv' /\ Listed' = Listed
<1>1. UNCHANGED <<next, items, hold, todo, want>>
  BY DEF ReadStep, BeginWalk, ReadPage, pageVars
<1>2. Linked' = Linked /\ Listed' = Listed
  BY <1>1, SameLinked DEF Listed, Moving
<1>3. /\ \A p \in Writers : pc'[p] = pc[p] /\ at'[p] = at[p]
      /\ \A q \in Readers \ {r} : pc'[q] = pc[q] /\ at'[q] = at[q]
  BY ProcIs DEF ReadStep, BeginWalk, ReadPage, TypeOK
<1>4. pc'[r] = "walk" => at'[r] \in Block
  <2>1. r \in Proc /\ Start \in Block
    BY ProcIs, BlockIs
  <2>2. CASE BeginWalk(r)
    BY <2>1, <2>2 DEF BeginWalk, TypeOK
  <2>3. CASE ReadPage(r)
    BY <2>1, <2>3 DEF ReadPage, TypeOK, PlaceInv
  <2> QED BY <2>2, <2>3 DEF ReadStep
<1> QED BY <1>1, <1>2, <1>3, <1>4, ProcIs DEF PlaceInv

LEMMA PlaceInit ==
  ASSUME OneMaintainer, Init
  PROVE  PlaceInv
<1>1. PICK W \in Together : pc = [p \in Proc |-> IF p \notin W THEN "done"
                                  ELSE IF p \in Maintainers THEN "modify" ELSE "idle"]
  BY DEF Init
<1>2. \A p \in Proc : pc[p] \in {"done", "modify", "idle"}
  BY <1>1
<1>3. \A m \in Maintainers : hold[m] = NoBlock
  BY ProcIs DEF Init
<1>4. \A m, n \in Maintainers : m # n => pc[m] = "done" \/ pc[n] = "done"
  BY <1>1, ProcIs DEF OneMaintainer
<1> QED BY <1>2, <1>3, <1>4, ProcIs DEF PlaceInv

LEMMA PlaceInvariant ==
  ASSUME OneMaintainer
  PROVE  Spec => [](TypeOK /\ PlaceInv)
<1>1. Init => TypeOK /\ PlaceInv
  BY InitType, PlaceInit
<1>2. TypeOK /\ PlaceInv /\ [Next]_vars => (TypeOK /\ PlaceInv)'
  <2> SUFFICES ASSUME TypeOK, PlaceInv, [Next]_vars PROVE TypeOK' /\ PlaceInv'
    OBVIOUS
  <2>1. CASE UNCHANGED vars
    <3>1. UNCHANGED <<next, items, grown, freed, used, last, lock, pc, at, want, hold, todo, filled, ahead>>
      BY <2>1 DEF vars, pageVars, gcVars
    <3>2. Linked' = Linked
      BY <3>1, SameLinked
    <3> QED BY <3>1, <3>2 DEF TypeOK, PlaceInv
  <2>2. CASE Next
    BY <2>2, TypeKeeps, AddPlace, MaintainPlace, ReadPlace DEF Next
  <2> QED BY <2>1, <2>2
<1> QED BY <1>1, <1>2, PTL DEF Spec

\* With any number of INSERTs beside the one merge or VACUUM that holds the
\* merge lock: whatever they do to the pages at the same time, an entry that is
\* on the list, or on its way to another page, leaves it only where
\* garbage_collect relinks the last filled page, or because it is recyclable.
THEOREM OnlyRelinkingTakesEntries ==
  ASSUME OneMaintainer
  PROVE  Spec => OnlyRelinkingLoses
<1>1. TypeOK /\ PlaceInv /\ [Next]_vars =>
        [Listed \ Garbage \subseteq Listed' \/ \E m \in Maintainers : Relink(m) \/ Unlink(m)]_vars
  BY AddPlace, MaintainPlace, ReadPlace DEF Next, RelinkStep
<1> QED BY <1>1, PlaceInvariant, PTL DEF Spec, OnlyRelinkingLoses
=============================================================================
