-------------------------- MODULE InsertStateProofs --------------------------
(***************************************************************************)
(* Every row of a committed transaction is indexed, whatever the number of *)
(* tables, rows and statements and however deep the statements nest.       *)
(***************************************************************************)
EXTENDS InsertState, WellFoundedInduction, TLAPS

(* Writers.                                                                 *)

\* A writer holds its row once it was inserted, queued or drained.
LEMMA InsertHolds ==
  ASSUME NEW w \in Writer, NEW row \in Row
  PROVE  /\ WriterInsert(w, row) \in Writer
         /\ WriterInsert(w, row) # None
         /\ WriterInsert(w, row).table = w.table
         /\ \A r \in Row : HeldBy(WriterInsert(w, row), r)
                             <=> HeldBy(w, r) \/ (r = row /\ w.table = row.table)
<1> DEFINE queue == Append(w.queue, row)
<1>1. queue \in Seq(Row) /\ w.tantivy \subseteq Row /\ w.table \in Table
  BY DEF Writer
<1>2. ToSet(queue) = ToSet(w.queue) \cup {row}
  <2>1. w.queue \in Seq(Row)
    BY DEF Writer
  <2>2. DOMAIN queue = 1..(Len(w.queue) + 1) /\ DOMAIN w.queue = 1..Len(w.queue)
    BY <2>1
  <2>3. \A i \in 1..Len(w.queue) : queue[i] = w.queue[i]
    BY <2>1
  <2>4. queue[Len(w.queue) + 1] = row
    BY <2>1
  <2>5. \A i \in 1..(Len(w.queue) + 1) : i \in 1..Len(w.queue) \/ i = Len(w.queue) + 1
    BY <2>1
  <2>6. Len(w.queue) + 1 \in 1..(Len(w.queue) + 1)
        /\ 1..Len(w.queue) \subseteq 1..(Len(w.queue) + 1)
    BY <2>1
  <2> HIDE DEF queue
  <2> QED BY <2>2, <2>3, <2>4, <2>5, <2>6 DEF ToSet
<1>3. ToSet(queue) \subseteq Row
  BY <1>1 DEF ToSet
<1>4. ToSet(<<>>) = {} /\ <<>> \in Seq(Row)
  BY DEF ToSet
<1>5. WriterInsert(w, row) =
        IF Len(queue) >= QueueSize
        THEN [table |-> w.table, queue |-> <<>>, tantivy |-> w.tantivy \cup ToSet(queue)]
        ELSE [table |-> w.table, queue |-> queue, tantivy |-> w.tantivy]
  <2>1. w = [table |-> w.table, queue |-> w.queue, tantivy |-> w.tantivy]
    BY DEF Writer
  <2>2. PICK q : q = [w EXCEPT !.queue = Append(@, row)]
    OBVIOUS
  <2>3. q = [table |-> w.table, queue |-> queue, tantivy |-> w.tantivy]
    BY <2>1, <2>2
  <2>4. Drain(q) = [table |-> w.table, queue |-> <<>>, tantivy |-> w.tantivy \cup ToSet(queue)]
    <3>1. PICK c : c = q.tantivy \cup ToSet(q.queue)
      OBVIOUS
    <3>2. Drain(q) = [q EXCEPT !.tantivy = c, !.queue = <<>>]
      BY <3>1 DEF Drain
    <3>3. c = w.tantivy \cup ToSet(queue)
      BY <3>1, <2>3
    <3>4. Drain(q) = [table |-> w.table, queue |-> <<>>, tantivy |-> c]
      <4> HIDE DEF queue
      <4> QED BY <3>2, <2>3
    <3> QED BY <3>3, <3>4
  <2>5. WriterInsert(w, row) = IF Len(q.queue) >= QueueSize THEN Drain(q) ELSE q
    BY <2>2 DEF WriterInsert
  <2>6. q.queue = queue
    BY <2>3
  <2> QED BY <2>3, <2>4, <2>5, <2>6
<1> HIDE DEF queue
<1>6. WriterInsert(w, row) \in Writer
  BY <1>1, <1>3, <1>4, <1>5 DEF Writer
<1>7. WriterInsert(w, row) # None /\ w # None
  BY <1>6, InsertAssumption
<1>8. WriterInsert(w, row).table = w.table
  BY <1>5
<1>9. ToSet(WriterInsert(w, row).queue) \cup WriterInsert(w, row).tantivy
        = ToSet(w.queue) \cup w.tantivy \cup {row}
  BY <1>2, <1>4, <1>5
<1> QED BY <1>6, <1>7, <1>8, <1>9 DEF HeldBy

\* A new writer holds nothing.
LEMMA NewHoldsNothing ==
  ASSUME NEW t \in Table
  PROVE  /\ NewWriter(t) \in Writer
         /\ NewWriter(t).table = t
         /\ \A r \in Row : ~HeldBy(NewWriter(t), r)
<1>1. ToSet(<<>>) = {} /\ <<>> \in Seq(Row)
  BY DEF ToSet
<1> QED BY <1>1 DEF NewWriter, Writer, HeldBy

\* The commit of a writer takes nothing out of an index and puts what the
\* writer holds into the index of its table.
LEMMA CommitKeeps ==
  ASSUME indexed \in [Table -> SUBSET Row], NEW w \in Writer \cup {None}
  PROVE  /\ CommitWriter(w) \in [Table -> SUBSET Row]
         /\ \A t \in Table : indexed[t] \subseteq CommitWriter(w)[t]
         /\ \A r \in Row : HeldBy(w, r) => r \in CommitWriter(w)[r.table]
<1>1. CASE w = None
  BY <1>1 DEF CommitWriter, HeldBy, Row
<1>2. CASE w # None
  <2>1. w \in Writer
    BY <1>2
  <2>2. Drain(w).tantivy = w.tantivy \cup ToSet(w.queue)
    BY <2>1 DEF Drain, Writer
  <2>3. Drain(w).tantivy \subseteq Row
    BY <2>1, <2>2 DEF Writer, ToSet
  <2>4. CommitWriter(w) = [t \in Table |-> IF w.table = t THEN indexed[t] \cup Drain(w).tantivy
                                                           ELSE indexed[t]]
    BY <1>2 DEF CommitWriter
  <2>5. \A r \in Row : r.table \in Table
    BY DEF Row
  <2> QED BY <2>2, <2>3, <2>4, <2>5 DEF HeldBy
<1> QED BY <1>1, <1>2

(* The stack of statements.                                                 *)

\* The innermost block that catches errors exists.
LEMMA InnermostBlock ==
  ASSUME NEW n \in Nat, NEW B \in SUBSET (1..n), B # {}
  PROVE  \E i \in B : \A j \in B : j <= i
<1> DEFINE D == {n - j : j \in B}
<1>1. D \subseteq Nat /\ D # {}
  <2>1. \A j \in B : j \in 1..n
    OBVIOUS
  <2>2. \A j \in B : n - j \in Nat
    BY <2>1
  <2>3. PICK j : j \in B
    OBVIOUS
  <2>4. n - j \in D
    BY <2>3
  <2> QED BY <2>2, <2>4
<1>2. PICK R : R = {p \in Nat \X Nat : p[1] < p[2]} /\ IsWellFoundedOn(R, Nat)
  BY NatLessThanWellFounded DEF OpToRel
<1>3. PICK d \in D : \A e \in D : <<e, d>> \notin R
  <2> HIDE DEF D
  <2> QED BY <1>1, <1>2, WFMin
<1>4. ASSUME NEW e \in D PROVE d <= e
  <2> HIDE DEF D
  <2>1. d \in Nat /\ e \in Nat
    BY <1>1
  <2>2. <<e, d>> \notin {p \in Nat \X Nat : p[1] < p[2]}
    BY <1>2, <1>3
  <2>3. ~(e < d)
    BY <2>1, <2>2
  <2> QED BY <2>1, <2>3
<1>5. PICK i \in B : d = n - i
  OBVIOUS
<1>6. ASSUME NEW j \in B PROVE j <= i
  <2>1. n - i <= n - j
    <3>1. n - j \in D
      OBVIOUS
    <3> QED BY <3>1, <1>4, <1>5
  <2>2. i \in 1..n /\ j \in 1..n
    OBVIOUS
  <2> QED BY <2>1, <2>2
<1> QED BY <1>6

\* A sequence with another element in one place.
LEMMA ReplaceIs ==
  ASSUME NEW S, NEW q \in Seq(S), NEW k \in DOMAIN q, NEW s \in S
  PROVE  /\ [q EXCEPT ![k] = s] \in Seq(S)
         /\ Len([q EXCEPT ![k] = s]) = Len(q)
         /\ DOMAIN [q EXCEPT ![k] = s] = DOMAIN q
         /\ \A i \in DOMAIN q : [q EXCEPT ![k] = s][i] = IF i = k THEN s ELSE q[i]
OBVIOUS

\* The innermost statement, and the stack with another in its place.
LEMMA TopIsLast ==
  ASSUME NEW S, stack \in Seq(S), stack # <<>>
  PROVE  /\ Len(stack) \in DOMAIN stack
         /\ Top = stack[Len(stack)]
         /\ Top \in S
BY DEF Top, Last

LEMMA SetTopIs ==
  ASSUME NEW S, stack \in Seq(S), stack # <<>>, NEW s \in S
  PROVE  /\ SetTop(s) \in Seq(S)
         /\ Len(SetTop(s)) = Len(stack)
         /\ DOMAIN SetTop(s) = DOMAIN stack
         /\ SetTop(s)[Len(stack)] = s
         /\ \A i \in DOMAIN stack : i # Len(stack) => SetTop(s)[i] = stack[i]
BY DEF SetTop

\* A statement that begins.
LEMMA PushIs ==
  ASSUME NEW S, stack \in Seq(S), NEW s \in S, stack' = Append(stack, s)
  PROVE  /\ stack' \in Seq(S)
         /\ stack' # <<>>
         /\ DOMAIN stack \subseteq DOMAIN stack'
         /\ DOMAIN stack' = DOMAIN stack \cup {Len(stack')}
         /\ Len(stack') \notin DOMAIN stack
         /\ Len(stack') \in Int /\ \A i \in DOMAIN stack : i \in Int /\ i < Len(stack')
         /\ stack'[Len(stack')] = s
         /\ \A i \in DOMAIN stack : stack'[i] = stack[i]
<1>1. Len(stack') = Len(stack) + 1 /\ stack' \in Seq(S) /\ Len(stack) \in Nat
  OBVIOUS
<1>2. DOMAIN stack = 1..Len(stack) /\ DOMAIN stack' = 1..Len(stack')
  BY <1>1
<1>3. stack'[Len(stack')] = s /\ \A i \in DOMAIN stack : stack'[i] = stack[i]
  BY <1>1, <1>2
<1>4. stack' # <<>>
  BY <1>1
<1> QED BY <1>1, <1>2, <1>3, <1>4

\* A statement that is over: the others are as they were, with more rows.
LEMMA ReturnIs ==
  ASSUME stack \in Seq(StatementOf(build)), stack # <<>>, Return
  PROVE  /\ stack' \in Seq(StatementOf(build))
         /\ DOMAIN stack' = 1..(Len(stack) - 1)
         /\ \A i \in DOMAIN stack' : /\ stack'[i].table = stack[i].table
                                     /\ stack'[i].amCache = stack[i].amCache
                                     /\ stack[i].rows \subseteq stack'[i].rows
<1> DEFINE n == Len(stack)
           rest == Front(stack)
<1> PICK S : S = StatementOf(build)
  OBVIOUS
<1>1. n \in Nat \ {0} /\ DOMAIN stack = 1..n /\ \A i \in 1..n : stack[i] \in S
  OBVIOUS
<1>2. rest \in Seq(S) /\ Len(rest) = n - 1 /\ \A i \in 1..(n - 1) : rest[i] = stack[i]
  BY <1>1 DEF Front
<1>3. Top \in S
  BY TopIsLast
<1>4. CASE rest = <<>>
  <2>1. stack' = <<>>
    BY <1>4 DEF Return
  <2>2. 1..(n - 1) = {}
    <3>1. Len(rest) = 0
      BY <1>4
    <3>2. n - 1 = 0
      BY <1>2, <3>1
    <3>3. 1..0 = {}
      OBVIOUS
    <3> QED BY <3>2, <3>3
  <2>3. stack' \in Seq(StatementOf(build)) /\ DOMAIN stack' = {}
    BY <2>1
  <2> QED BY <2>2, <2>3
<1>5. CASE rest # <<>>
  <2> DEFINE m == Len(rest)
  <2>1. m \in 1..(n - 1) /\ m = n - 1
    BY <1>1, <1>2, <1>5
  <2>2. PICK R : R = rest[m].rows \cup Top.rows
    OBVIOUS
  <2>3. stack' = [rest EXCEPT ![m] = [rest[m] EXCEPT !.rows = R]]
    BY <1>5, <2>2 DEF Return
  <2> PICK s : s = [rest[m] EXCEPT !.rows = R]
    OBVIOUS
  <2>4. rest[m] \in S
    BY <1>2, <2>1
  <2>5. R \subseteq Row /\ rest[m].rows \subseteq R
    BY <2>2, <2>4, <1>3 DEF StatementOf
  <2>6. s \in S /\ s.table = rest[m].table /\ s.amCache = rest[m].amCache /\ s.rows = R
    <3> HIDE DEF m, rest
    <3> QED BY <2>4, <2>5 DEF StatementOf
  <2>7. stack' = [rest EXCEPT ![m] = s]
    BY <2>3
  <2> HIDE DEF rest, n
  <2>8. stack' \in Seq(S) /\ DOMAIN stack' = 1..(n - 1)
    <3>1. DOMAIN rest = 1..(n - 1) /\ rest \in Seq(S)
      BY <1>2
    <3> PICK q \in Seq(S) : q = rest
      BY <3>1
    <3> PICK k \in DOMAIN q : k = m
      BY <2>1, <3>1
    <3> HIDE DEF m
    <3> QED BY <3>1, <2>6, <2>7, ReplaceIs
  <2>9. \A i \in 1..(n - 1) : stack'[i] = IF i = m THEN s ELSE stack[i]
    BY <1>1, <1>2, <2>1, <2>7
  <2>10. rest[m] = stack[m]
    BY <1>2, <2>1
  <2> HIDE DEF m
  <2> QED BY <2>5, <2>6, <2>8, <2>9, <2>10 DEF n
<1> QED BY <1>4, <1>5
\* An error leaves the outer statements, and of the rows only those that no
\* statement it ended has inserted.
LEMMA UnwindIs ==
  ASSUME stack \in Seq(StatementOf(build)), stack # <<>>, NEW extra, Unwind(extra)
  PROVE  /\ stack' \in Seq(StatementOf(build))
         /\ \E to \in DOMAIN stack :
              /\ DOMAIN stack' = 1..(to - 1) /\ DOMAIN stack' \subseteq DOMAIN stack
              /\ \A i \in DOMAIN stack' : stack'[i] = stack[i]
              /\ \A i \in DOMAIN stack : i \notin DOMAIN stack' => heap' \cap stack[i].rows = {}
         /\ heap' \subseteq heap
         /\ \/ /\ xact' = "aborted" /\ pending' = None /\ caught' = caught
               /\ stack' = <<>>
            \/ caught' = TRUE /\ xact' = xact /\ pending' = pending
<1> DEFINE n == Len(stack)
           blocks == {i \in DOMAIN stack : stack[i].guarded}
           to == IF blocks = {} THEN 1 ELSE CHOOSE i \in blocks : \A j \in blocks : j <= i
           gone == extra \cup UNION {stack[i].rows : i \in to..Len(stack)}
<1> PICK S : S = StatementOf(build)
  OBVIOUS
<1>1. n \in Nat \ {0} /\ DOMAIN stack = 1..n
  OBVIOUS
<1>2. to \in 1..n
  <2>1. CASE blocks = {}
    BY <1>1, <2>1
  <2>2. CASE blocks # {}
    <3>1. blocks \in SUBSET (1..n)
      BY <1>1
    <3>2. \E i \in blocks : \A j \in blocks : j <= i
      <4> HIDE DEF blocks
      <4> QED BY <1>1, <2>2, <3>1, InnermostBlock
    <3>3. to \in blocks
      <4> HIDE DEF blocks
      <4> QED BY <2>2, <3>2
    <3> QED BY <3>1, <3>3
  <2> QED BY <2>1, <2>2
<1>3. /\ stack' = SubSeq(stack, 1, to - 1)
      /\ heap' = heap \ gone
      /\ \/ blocks = {} /\ xact' = "aborted" /\ pending' = None /\ caught' = caught
         \/ caught' = TRUE /\ xact' = xact /\ pending' = pending
  BY DEF Unwind
<1>4. blocks = {} => to = 1
  OBVIOUS
<1>5. \A i \in to..n : stack[i].rows \subseteq gone
  OBVIOUS
<1> HIDE DEF to, blocks, gone
<1>6. stack' \in Seq(S) /\ Len(stack') = to - 1 /\ \A i \in 1..(to - 1) : stack'[i] = stack[i]
  BY <1>1, <1>2, <1>3
<1>7. DOMAIN stack' = 1..(to - 1) /\ 1..(to - 1) \subseteq 1..n
      /\ \A i \in 1..n : i \notin 1..(to - 1) => i \in to..n
  BY <1>1, <1>2, <1>6
<1>8. to = 1 => stack' = <<>>
  BY <1>6
<1> QED BY <1>1, <1>2, <1>3, <1>4, <1>5, <1>6, <1>7, <1>8

LEMMA InsertedIs ==
  ASSUME stack \in Seq(StatementOf(build)), stack # <<>>, NEW row \in Row,
         NEW a \in IF build = "pg17" THEN Writer \cup {None} ELSE {None, "set"}
  PROVE  LET s == [Top EXCEPT !.amCache = a, !.rows = @ \cup {row}]
         IN  /\ s \in StatementOf(build)
             /\ s.table = Top.table /\ s.amCache = a /\ s.phase = Top.phase
             /\ s.rows = Top.rows \cup {row}
<1> PICK C : C = IF build = "pg17" THEN Writer \cup {None} ELSE {None, "set"}
  OBVIOUS
<1> DEFINE S == [table : Table \cup {NoTable}, utility : BOOLEAN, guarded : BOOLEAN,
                 amCache : C, rows : SUBSET Row, phase : {"run", "finish"}]
<1>1. StatementOf(build) = S
  BY DEF StatementOf
<1>2. PICK T \in S : T = Top
  BY <1>1, TopIsLast
<1>3. PICK R : R = T.rows \cup {row}
  OBVIOUS
<1>4. R \subseteq Row
  BY <1>3
<1>5. PICK U : U = [T EXCEPT !.amCache = a]
  OBVIOUS
<1>6. /\ U \in S
      /\ U.table = T.table /\ U.amCache = a /\ U.phase = T.phase /\ U.rows = T.rows
  BY <1>5
<1>7. PICK V : V = [U EXCEPT !.rows = R]
  OBVIOUS
<1>8. /\ V \in S
      /\ V.table = U.table /\ V.amCache = U.amCache /\ V.phase = U.phase /\ V.rows = R
  BY <1>4, <1>6, <1>7
<1>9. [Top EXCEPT !.amCache = a, !.rows = @ \cup {row}] = V
  <2>1. [Top EXCEPT !.amCache = a, !.rows = @ \cup {row}] = [U EXCEPT !.rows = T.rows \cup {row}]
    BY <1>2, <1>5
  <2> QED BY <2>1, <1>3, <1>7
<1> QED BY <1>1, <1>2, <1>3, <1>6, <1>8, <1>9

LEMMA HeapOnlyIs ==
  ASSUME stack \in Seq(StatementOf(build)), stack # <<>>, NEW row \in Row
  PROVE  LET s == [Top EXCEPT !.rows = @ \cup {row}]
         IN  /\ s \in StatementOf(build)
             /\ s.table = Top.table /\ s.amCache = Top.amCache /\ s.phase = Top.phase
             /\ s.rows = Top.rows \cup {row}
<1> PICK C : C = IF build = "pg17" THEN Writer \cup {None} ELSE {None, "set"}
  OBVIOUS
<1> DEFINE S == [table : Table \cup {NoTable}, utility : BOOLEAN, guarded : BOOLEAN,
                 amCache : C, rows : SUBSET Row, phase : {"run", "finish"}]
<1>1. StatementOf(build) = S
  BY DEF StatementOf
<1>2. PICK T \in S : T = Top
  BY <1>1, TopIsLast
<1>3. PICK R : R = T.rows \cup {row}
  OBVIOUS
<1>4. PICK V : V = [T EXCEPT !.rows = R]
  OBVIOUS
<1>5. /\ V \in S
      /\ V.table = T.table /\ V.amCache = T.amCache /\ V.phase = T.phase /\ V.rows = R
  <2>1. R \subseteq Row
    BY <1>3
  <2> QED BY <2>1, <1>4
<1>6. [Top EXCEPT !.rows = @ \cup {row}] = V
  BY <1>2, <1>3, <1>4
<1> QED BY <1>1, <1>2, <1>3, <1>5, <1>6

LEMMA FinishIs ==
  ASSUME stack \in Seq(StatementOf(build)), stack # <<>>
  PROVE  LET s == [Top EXCEPT !.phase = "finish"]
         IN  s \in StatementOf(build) /\ s.table = Top.table /\ s.amCache = Top.amCache
<1> PICK C : C = IF build = "pg17" THEN Writer \cup {None} ELSE {None, "set"}
  OBVIOUS
<1> DEFINE S == [table : Table \cup {NoTable}, utility : BOOLEAN, guarded : BOOLEAN,
                 amCache : C, rows : SUBSET Row, phase : {"run", "finish"}]
<1>1. StatementOf(build) = S
  BY DEF StatementOf
<1>2. PICK T \in S : T = Top
  BY <1>1, TopIsLast
<1> QED BY <1>1, <1>2

-----------------------------------------------------------------------------
(* Every action keeps InsertInv.                                            *)

LEMMA BeginKeeps ==
  ASSUME InsertInv, NEW table \in Table \cup {NoTable},
         NEW utility \in BOOLEAN, NEW guarded \in BOOLEAN,
         BeginStatement(table, utility, guarded)
  PROVE  InsertInv'
<1>1. PICK s : s = Statement(table, utility, guarded)
  OBVIOUS
<1>2. s \in StatementOf(build) /\ s.amCache = None /\ s.phase = "run"
  <2> PICK C : C = IF build = "pg17" THEN Writer \cup {None} ELSE {None, "set"}
    OBVIOUS
  <2> QED BY <1>1 DEF Statement, StatementOf
<1>3. stack \in Seq(StatementOf(build)) /\ stack' = Append(stack, s) /\ build' = build
  BY <1>1 DEF BeginStatement, InsertInv, TypeInv
<1>4. /\ stack' \in Seq(StatementOf(build))
      /\ stack' # <<>>
      /\ DOMAIN stack \subseteq DOMAIN stack'
      /\ DOMAIN stack' = DOMAIN stack \cup {Len(stack')}
      /\ Len(stack') \notin DOMAIN stack
      /\ \A i \in DOMAIN stack : i < Len(stack')
      /\ stack'[Len(stack')] = s
      /\ \A i \in DOMAIN stack : stack'[i] = stack[i]
  BY <1>2, <1>3, PushIs
<1>5. TypeInv'
  BY <1>3, <1>4 DEF BeginStatement, InsertInv, TypeInv
<1>6. ASSUME build = "pg16", ~caught PROVE PendingInv'
  <2>1. PendingInv
    BY <1>6 DEF InsertInv
  <2>2. Top' = s
    BY <1>4 DEF Top, Last
  <2>3. pending # None =>
          \E i \in DOMAIN stack' :
            /\ stack'[i].amCache # None /\ stack'[i].table = pending.table
            /\ \A j \in DOMAIN stack' : j > i => stack'[j].amCache = None
    BY <2>1, <1>2, <1>4 DEF PendingInv
  <2> QED BY <2>1, <2>2, <2>3, <1>2, <1>4 DEF PendingInv, BeginStatement
<1>7. ASSUME build = "pg17" PROVE CacheInv'
  BY <1>2, <1>4, <1>7 DEF InsertInv, CacheInv, BeginStatement
<1> QED BY <1>3, <1>5, <1>6, <1>7 DEF InsertInv, BeginStatement

\* A row for a table without an index.
LEMMA HeapOnlyKeeps ==
  ASSUME InsertInv, stack # <<>>, rows' \in 0..MaxRows, NEW row \in Row,
         row.table = Top.table, Top.phase = "run", InsertHeapOnly(row)
  PROVE  InsertInv'
<1>1. PICK s : s = [Top EXCEPT !.rows = @ \cup {row}]
  OBVIOUS
<1>2. stack \in Seq(StatementOf(build)) /\ stack' = SetTop(s) /\ build' = build
  BY <1>1 DEF InsertHeapOnly, InsertInv, TypeInv
<1>3. /\ Len(stack) \in DOMAIN stack /\ Top = stack[Len(stack)]
      /\ s \in StatementOf(build) /\ s.table = Top.table /\ s.amCache = Top.amCache
      /\ s.phase = Top.phase /\ s.rows = Top.rows \cup {row}
  BY <1>1, <1>2, HeapOnlyIs, TopIsLast
<1>4. /\ stack' \in Seq(StatementOf(build))
      /\ Len(stack') = Len(stack) /\ DOMAIN stack' = DOMAIN stack
      /\ stack'[Len(stack)] = s
      /\ \A i \in DOMAIN stack : i # Len(stack) => stack'[i] = stack[i]
  BY <1>2, <1>3, SetTopIs
<1>5. TypeInv'
  BY <1>2, <1>4 DEF InsertHeapOnly, InsertInv, TypeInv
<1>6. \A i \in DOMAIN stack : /\ stack'[i].table = stack[i].table
                              /\ stack'[i].amCache = stack[i].amCache
                              /\ stack[i].rows \subseteq stack'[i].rows
  BY <1>3, <1>4
<1>7. Top' = s
  BY <1>4 DEF Top, Last
<1>8. ASSUME build = "pg16", ~caught PROVE PendingInv'
  <2>1. PendingInv
    BY <1>8 DEF InsertInv
  <2>2. stack' # <<>>
    BY <1>3, <1>4
  <2>3. pending # None =>
          \E i \in DOMAIN stack' :
            /\ stack'[i].amCache # None /\ stack'[i].table = pending.table
            /\ \A j \in DOMAIN stack' : j > i => stack'[j].amCache = None
    BY <2>1, <1>4, <1>6 DEF PendingInv
  <2>4. Top'.phase = "run"
    BY <1>3, <1>7
  <2>5. \A r \in heap' : r.table \in indexes => r \in heap
    BY DEF InsertHeapOnly
  <2> QED BY <2>1, <2>2, <2>3, <2>4, <2>5 DEF PendingInv, InsertHeapOnly
<1>9. ASSUME build = "pg17" PROVE CacheInv'
  BY <1>4, <1>6, <1>9 DEF InsertInv, CacheInv, InsertHeapOnly
<1> QED BY <1>2, <1>5, <1>8, <1>9 DEF InsertInv, InsertHeapOnly

\* aminsert before PostgreSQL 17: the row is pending, for this statement.
LEMMA AminsertFakeKeeps ==
  ASSUME InsertInv, stack # <<>>, rows' \in 0..MaxRows, NEW row \in Row,
         row.table = Top.table, Top.phase = "run", AminsertFake(row)
  PROVE  InsertInv'
<1>1. PICK s : s = [Top EXCEPT !.amCache = "set", !.rows = @ \cup {row}]
  OBVIOUS
<1>2. /\ stack \in Seq(StatementOf(build)) /\ stack' = SetTop(s)
      /\ build' = build /\ build = "pg16"
  BY <1>1 DEF AminsertFake, InsertInv, TypeInv
<1>3. /\ Len(stack) \in DOMAIN stack /\ Top = stack[Len(stack)]
      /\ s \in StatementOf(build) /\ s.table = Top.table /\ s.amCache = "set"
      /\ s.phase = Top.phase
  BY <1>1, <1>2, InsertedIs, TopIsLast
<1>4. /\ stack' \in Seq(StatementOf(build))
      /\ Len(stack') = Len(stack) /\ DOMAIN stack' = DOMAIN stack
      /\ stack'[Len(stack)] = s
      /\ \A i \in DOMAIN stack : i # Len(stack) => stack'[i] = stack[i]
  BY <1>2, <1>3, SetTopIs
<1>5. row.table \in Table
  BY DEF Row
<1>6. PICK w \in Writer : /\ pending' = WriterInsert(w, row)
                          /\ \/ Top.amCache = None /\ pending = None /\ w = NewWriter(row.table)
                             \/ Top.amCache # None /\ pending # None /\ w = pending
  BY <1>5, NewHoldsNothing DEF AminsertFake, InsertInv, TypeInv
<1>7. /\ pending' \in Writer /\ pending' # None /\ pending'.table = w.table
      /\ \A r \in Row : HeldBy(pending', r) <=> HeldBy(w, r) \/ (r = row /\ w.table = row.table)
  BY <1>6, InsertHolds
<1>8. TypeInv'
  BY <1>2, <1>4, <1>7 DEF AminsertFake, InsertInv, TypeInv
<1>9. ASSUME ~caught PROVE PendingInv'
  <2>1. PendingInv
    BY <1>2, <1>9 DEF InsertInv
  <2>2. w.table = row.table
    <3>1. CASE pending = None
      BY <1>5, <1>6, <3>1, NewHoldsNothing
    <3>2. CASE pending # None
      <4>1. PICK i \in DOMAIN stack :
              /\ stack[i].amCache # None /\ stack[i].table = pending.table
              /\ \A j \in DOMAIN stack : j > i => stack[j].amCache = None
        BY <2>1, <3>2 DEF PendingInv
      <4>2. i \in Nat /\ i <= Len(stack) /\ Len(stack) \in Nat
        BY <1>2
      <4>3. i = Len(stack)
        BY <1>3, <1>6, <3>2, <4>1, <4>2
      <4> QED BY <1>3, <1>6, <3>2, <4>1, <4>3
    <3> QED BY <3>1, <3>2
  <2>3. \A r \in Row : HeldBy(pending, r) => HeldBy(w, r)
    BY <1>6 DEF HeldBy
  <2>4. \A r \in heap' : r.table \in indexes => r \in indexed[r.table] \/ HeldBy(pending', r)
    <3>1. xact # "aborted" /\ heap \subseteq Row
      BY DEF InsertInv, TypeInv
    <3> QED BY <2>1, <2>2, <2>3, <3>1, <1>7 DEF PendingInv, AminsertFake
  <2>5. \A j \in DOMAIN stack' : ~(j > Len(stack))
    BY <1>2, <1>4
  <2>6. "set" # None
    BY InsertAssumption
  <2>7. /\ stack'[Len(stack)].amCache # None /\ stack'[Len(stack)].table = pending'.table
        /\ \A j \in DOMAIN stack' : j > Len(stack) => stack'[j].amCache = None
    BY <1>3, <1>4, <1>7, <2>2, <2>5, <2>6
  <2>8. Top'.phase = "run" /\ stack' # <<>>
    BY <1>3, <1>4 DEF Top, Last
  <2> QED BY <1>3, <1>4, <2>4, <2>7, <2>8 DEF PendingInv, AminsertFake, HeldBy
<1> QED BY <1>2, <1>8, <1>9 DEF InsertInv, AminsertFake

\* aminsert with PostgreSQL 17: the row is with the statement's writer.
LEMMA AminsertKeeps ==
  ASSUME InsertInv, stack # <<>>, rows' \in 0..MaxRows, NEW row \in Row,
         row.table = Top.table, Top.phase = "run", Aminsert(row)
  PROVE  InsertInv'
<1> DEFINE old == Top.amCache
<1>1. stack \in Seq(StatementOf(build)) /\ build' = build /\ build = "pg17" /\ CacheInv
  BY DEF Aminsert, InsertInv, TypeInv
<1>2. /\ Len(stack) \in DOMAIN stack /\ Top = stack[Len(stack)] /\ Top \in StatementOf(build)
      /\ old \in Writer \cup {None}
  <2>1. Top \in StatementOf(build)
    BY <1>1, TopIsLast
  <2> QED BY <1>1, <2>1, TopIsLast DEF StatementOf
<1>3. row.table \in Table
  BY DEF Row
<1>4. PICK w \in Writer : w = IF old = None THEN NewWriter(row.table) ELSE old
  BY <1>2, <1>3, NewHoldsNothing
<1>5. PICK a : a = WriterInsert(w, row)
  OBVIOUS
<1>6. /\ a \in Writer /\ a # None /\ a.table = w.table
      /\ \A r \in Row : HeldBy(a, r) <=> HeldBy(w, r) \/ (r = row /\ w.table = row.table)
  BY <1>5, InsertHolds
<1>7. PICK s : s = [Top EXCEPT !.amCache = a, !.rows = @ \cup {row}]
  OBVIOUS
<1>8. stack' = SetTop(s)
  BY <1>4, <1>5, <1>7 DEF Aminsert
<1>9. /\ s \in StatementOf(build) /\ s.table = Top.table /\ s.amCache = a
      /\ s.rows = Top.rows \cup {row}
  BY <1>1, <1>6, <1>7, InsertedIs
<1>10. /\ stack' \in Seq(StatementOf(build)) /\ DOMAIN stack' = DOMAIN stack
       /\ stack'[Len(stack)] = s
       /\ \A i \in DOMAIN stack : i # Len(stack) => stack'[i] = stack[i]
  BY <1>1, <1>8, <1>9, SetTopIs
<1>11. TypeInv'
  BY <1>1, <1>10 DEF Aminsert, InsertInv, TypeInv
<1>12. /\ w.table = row.table
       /\ \A r \in Row : HeldBy(w, r) <=> HeldBy(old, r)
       /\ \A r \in Row : HeldBy(old, r) => r \in Top.rows
  <2>1. CASE old = None
    BY <1>3, <1>4, <2>1, NewHoldsNothing DEF HeldBy
  <2>2. CASE old # None
    BY <1>1, <1>2, <1>4, <2>2 DEF CacheInv
  <2> QED BY <2>1, <2>2
<1> HIDE DEF old
<1>13. \A r \in Row, i \in DOMAIN stack :
         HeldBy(stack[i].amCache, r) => HeldBy(stack'[i].amCache, r)
  BY <1>2, <1>6, <1>9, <1>10, <1>12 DEF old
<1>14. HeldBy(stack'[Len(stack)].amCache, row)
  BY <1>6, <1>9, <1>10, <1>12
<1>15. \A r \in heap' : r.table \in indexes =>
         r \in indexed[r.table] \/ \E i \in DOMAIN stack' : HeldBy(stack'[i].amCache, r)
  <2>1. heap \subseteq Row
    BY DEF InsertInv, TypeInv
  <2> QED BY <1>1, <1>2, <1>10, <1>13, <1>14, <2>1 DEF CacheInv, Aminsert
<1>16. ASSUME NEW i \in DOMAIN stack', stack'[i].amCache # None
       PROVE  /\ stack'[i].amCache.table = stack'[i].table
              /\ \A r \in Row : HeldBy(stack'[i].amCache, r) => r \in stack'[i].rows
  <2>1. CASE i = Len(stack)
    BY <2>1, <1>6, <1>9, <1>10, <1>12
  <2>2. CASE i # Len(stack)
    BY <2>2, <1>1, <1>10, <1>16 DEF CacheInv
  <2> QED BY <2>1, <2>2
<1>17. CacheInv'
  BY <1>1, <1>15, <1>16 DEF CacheInv, Aminsert, HeldBy
<1> QED BY <1>1, <1>11, <1>17 DEF InsertInv

\* An error: what the statements it ends had pending goes with their rows.
LEMMA UnwindKeeps ==
  ASSUME InsertInv, stack # <<>>, rows' \in 0..MaxRows, NEW extra, Unwind(extra)
  PROVE  InsertInv'
<1>1. /\ stack \in Seq(StatementOf(build)) /\ xact = "running"
      /\ build' = build /\ indexes' = indexes /\ indexed' = indexed
  BY DEF Unwind, InsertInv, TypeInv
<1>2. /\ stack' \in Seq(StatementOf(build))
      /\ heap' \subseteq heap
      /\ \/ /\ xact' = "aborted" /\ pending' = None /\ caught' = caught
            /\ stack' = <<>>
         \/ caught' = TRUE /\ xact' = xact /\ pending' = pending
  BY <1>1, UnwindIs
<1>3. PICK to \in DOMAIN stack :
        /\ DOMAIN stack' = 1..(to - 1) /\ DOMAIN stack' \subseteq DOMAIN stack
        /\ \A i \in DOMAIN stack' : stack'[i] = stack[i]
        /\ \A i \in DOMAIN stack : i \notin DOMAIN stack' => heap' \cap stack[i].rows = {}
  BY <1>1, UnwindIs
<1>4. TypeInv'
  <2>1. TypeInv
    BY DEF InsertInv
  <2> QED BY <1>1, <1>2, <2>1 DEF TypeInv
<1>5. ASSUME ~caught' PROVE PendingInv'
  BY <1>2, <1>5 DEF PendingInv
<1>6. ASSUME build = "pg17" PROVE CacheInv'
  <2>1. CacheInv /\ heap \subseteq Row
    BY <1>6 DEF InsertInv, TypeInv
  <2>2. pending' = None
    BY <1>2, <2>1 DEF CacheInv
  <2>3. ASSUME NEW r \in heap', r.table \in indexes, r \notin indexed[r.table]
        PROVE  \E i \in DOMAIN stack' : HeldBy(stack'[i].amCache, r)
    <3>1. PICK i \in DOMAIN stack : HeldBy(stack[i].amCache, r)
      BY <1>2, <2>1, <2>3 DEF CacheInv
    <3>2. r \in stack[i].rows
      BY <1>2, <2>1, <3>1 DEF CacheInv, HeldBy
    <3>3. i \in DOMAIN stack'
      BY <1>3, <3>2
    <3> QED BY <1>3, <3>1, <3>3
  <2>4. ASSUME NEW i \in DOMAIN stack', stack'[i].amCache # None
        PROVE  /\ stack'[i].amCache.table = stack'[i].table
               /\ \A r \in Row : HeldBy(stack'[i].amCache, r) => r \in stack'[i].rows
    BY <1>3, <2>1, <2>4 DEF CacheInv
  <2> QED BY <1>1, <2>2, <2>3, <2>4 DEF CacheInv, HeldBy
<1> QED BY <1>1, <1>4, <1>5, <1>6 DEF InsertInv

LEMMA InsertRowKeeps ==
  ASSUME InsertInv, InsertRow
  PROVE  InsertInv'
<1>1. PICK row : row = [table |-> Top.table, id |-> rows + 1]
  OBVIOUS
<1>2. stack \in Seq(StatementOf(build)) /\ stack # <<>>
  BY DEF InsertRow, InsertInv, TypeInv
<1>3. rows' \in 0..MaxRows /\ rows + 1 \in 1..MaxRows
  BY InsertAssumption DEF InsertRow, InsertInv, TypeInv
<1>4. Top.table \in Table /\ Top.phase = "run"
  <2>1. Top \in StatementOf(build)
    BY <1>2, TopIsLast
  <2>2. Top.table \in Table \cup {NoTable}
    BY <2>1 DEF StatementOf
  <2> QED BY <2>2 DEF InsertRow
<1>5. row \in Row /\ row.table = Top.table
  BY <1>1, <1>3, <1>4 DEF Row
<1>6. InsertHeapOnly(row) \/ AminsertFake(row) \/ AminsertPanics(row) \/ Aminsert(row)
  BY <1>1 DEF InsertRow
<1>7. AminsertPanics(row) => Unwind({row})
  BY DEF AminsertPanics
<1> QED BY <1>2, <1>3, <1>4, <1>5, <1>6, <1>7, HeapOnlyKeeps, AminsertFakeKeeps,
           AminsertKeeps, UnwindKeeps

\* executor_finish_hook: nothing is pending any more.
LEMMA ExecutorFinishKeeps ==
  ASSUME InsertInv, ExecutorFinish
  PROVE  InsertInv'
<1>1. PICK s : s = [Top EXCEPT !.phase = "finish"]
  OBVIOUS
<1>2. /\ stack \in Seq(StatementOf(build)) /\ stack # <<>> /\ stack' = SetTop(s)
      /\ build' = build /\ build = "pg16" /\ indexed' = CommitWriter(pending)
      /\ pending' = None /\ heap \subseteq Row /\ heap' = heap /\ indexes' = indexes
      /\ pending \in Writer \cup {None} /\ indexed \in [Table -> SUBSET Row]
  BY <1>1 DEF ExecutorFinish, InsertInv, TypeInv
<1>3. s \in StatementOf(build)
  BY <1>1, <1>2, FinishIs
<1>4. stack' \in Seq(StatementOf(build)) /\ Len(stack') = Len(stack)
  BY <1>2, <1>3, SetTopIs
<1>5. /\ indexed' \in [Table -> SUBSET Row]
      /\ \A t \in Table : indexed[t] \subseteq indexed'[t]
      /\ \A r \in Row : HeldBy(pending, r) => r \in indexed'[r.table]
  BY <1>2, CommitKeeps
<1>6. TypeInv'
  BY <1>2, <1>4, <1>5 DEF ExecutorFinish, InsertInv, TypeInv
<1>7. ASSUME ~caught PROVE PendingInv'
  <2>1. PendingInv
    BY <1>2, <1>7 DEF InsertInv
  <2>2. \A r \in Row : r.table \in Table
    BY DEF Row
  <2> QED BY <1>2, <1>5, <2>1, <2>2 DEF PendingInv, ExecutorFinish
<1> QED BY <1>2, <1>6, <1>7 DEF InsertInv, ExecutorFinish

LEMMA ExecutorEndKeeps ==
  ASSUME InsertInv, ExecutorEnd
  PROVE  InsertInv'
<1>1. stack \in Seq(StatementOf(build)) /\ stack # <<>> /\ build' = build /\ build = "pg16"
  BY DEF ExecutorEnd, InsertInv, TypeInv
<1>2. stack' \in Seq(StatementOf(build))
  BY <1>1, ReturnIs DEF ExecutorEnd
<1>3. TypeInv'
  BY <1>1, <1>2 DEF ExecutorEnd, InsertInv, TypeInv
<1>4. ASSUME ~caught PROVE PendingInv'
  <2>1. PendingInv
    BY <1>1, <1>4 DEF InsertInv
  <2> QED BY <2>1 DEF PendingInv, ExecutorEnd
<1> QED BY <1>1, <1>3, <1>4 DEF InsertInv, ExecutorEnd

LEMMA ProcessUtilityKeeps ==
  ASSUME InsertInv, ProcessUtility
  PROVE  InsertInv'
<1>1. /\ stack \in Seq(StatementOf(build)) /\ stack # <<>>
      /\ build' = build /\ build = "pg16" /\ indexed' = CommitWriter(pending)
      /\ pending' = None /\ heap \subseteq Row /\ heap' = heap /\ indexes' = indexes
      /\ pending \in Writer \cup {None} /\ indexed \in [Table -> SUBSET Row]
  BY DEF ProcessUtility, InsertInv, TypeInv
<1>2. stack' \in Seq(StatementOf(build))
  BY <1>1, ReturnIs DEF ProcessUtility
<1>3. /\ indexed' \in [Table -> SUBSET Row]
      /\ \A t \in Table : indexed[t] \subseteq indexed'[t]
      /\ \A r \in Row : HeldBy(pending, r) => r \in indexed'[r.table]
  BY <1>1, CommitKeeps
<1>4. TypeInv'
  BY <1>1, <1>2, <1>3 DEF ProcessUtility, InsertInv, TypeInv
<1>5. ASSUME ~caught PROVE PendingInv'
  <2>1. PendingInv
    BY <1>1, <1>5 DEF InsertInv
  <2>2. \A r \in Row : r.table \in Table
    BY DEF Row
  <2> QED BY <1>1, <1>3, <2>1, <2>2 DEF PendingInv, ProcessUtility
<1> QED BY <1>1, <1>4, <1>5 DEF InsertInv, ProcessUtility

\* aminsertcleanup: what the statement's writer held is in the index.
LEMMA AminsertcleanupKeeps ==
  ASSUME InsertInv, Aminsertcleanup
  PROVE  InsertInv'
<1> PICK w : w = Top.amCache
  OBVIOUS
<1>1. /\ stack \in Seq(StatementOf(build)) /\ stack # <<>>
      /\ build' = build /\ build = "pg17" /\ indexed' = CommitWriter(w)
      /\ pending' = pending /\ heap \subseteq Row /\ heap' = heap /\ indexes' = indexes
      /\ indexed \in [Table -> SUBSET Row] /\ CacheInv
  BY DEF Aminsertcleanup, InsertInv, TypeInv
<1>2. /\ stack' \in Seq(StatementOf(build))
      /\ DOMAIN stack' = 1..(Len(stack) - 1)
      /\ \A i \in DOMAIN stack' : /\ stack'[i].table = stack[i].table
                                  /\ stack'[i].amCache = stack[i].amCache
                                  /\ stack[i].rows \subseteq stack'[i].rows
  BY <1>1, ReturnIs DEF Aminsertcleanup
<1>3. w = stack[Len(stack)].amCache /\ w \in Writer \cup {None}
  <2>1. Top \in StatementOf(build) /\ Top = stack[Len(stack)]
    BY <1>1, TopIsLast
  <2> QED BY <1>1, <2>1 DEF StatementOf
<1>4. /\ indexed' \in [Table -> SUBSET Row]
      /\ \A t \in Table : indexed[t] \subseteq indexed'[t]
      /\ \A r \in Row : HeldBy(w, r) => r \in indexed'[r.table]
  BY <1>1, <1>3, CommitKeeps
<1>5. \A i \in DOMAIN stack : i = Len(stack) \/ i \in DOMAIN stack'
  BY <1>1, <1>2
<1>6. DOMAIN stack' \subseteq DOMAIN stack
  BY <1>1, <1>2
<1>7. TypeInv'
  BY <1>1, <1>2, <1>4 DEF Aminsertcleanup, InsertInv, TypeInv
<1>8. ASSUME NEW r \in heap', r.table \in indexes, r \notin indexed'[r.table]
      PROVE  \E i \in DOMAIN stack' : HeldBy(stack'[i].amCache, r)
  <2>1. r \in Row /\ r.table \in Table /\ r \in heap
    BY <1>1 DEF Row
  <2>2. PICK i \in DOMAIN stack : HeldBy(stack[i].amCache, r)
    BY <1>1, <1>4, <1>8, <2>1 DEF CacheInv
  <2>3. i \in DOMAIN stack'
    BY <1>3, <1>4, <1>5, <1>8, <2>1, <2>2
  <2> QED BY <1>2, <2>2, <2>3
<1>9. ASSUME NEW i \in DOMAIN stack', stack'[i].amCache # None
      PROVE  /\ stack'[i].amCache.table = stack'[i].table
             /\ \A r \in Row : HeldBy(stack'[i].amCache, r) => r \in stack'[i].rows
  BY <1>1, <1>2, <1>6, <1>9 DEF CacheInv
<1>10. CacheInv'
  BY <1>1, <1>8, <1>9 DEF CacheInv, HeldBy
<1> QED BY <1>1, <1>7, <1>10 DEF InsertInv

\* CREATE INDEX: the new index has every row of its table, and what was
\* pending besides is in the index of its own.
LEMMA AmbuildKeeps ==
  ASSUME InsertInv, NEW table \in Table, Ambuild(table)
  PROVE  InsertInv'
<1> PICK w : w = IF build = "pg16" THEN pending ELSE None
  OBVIOUS
<1>1. /\ stack \in Seq(StatementOf(build)) /\ stack' = stack
      /\ build' = build /\ build \in {"pg16", "pg17"} /\ caught' = caught
      /\ heap \subseteq Row /\ heap' = heap /\ indexes' = indexes \cup {table}
      /\ pending' = IF build = "pg16" THEN None ELSE pending
      /\ pending \in Writer \cup {None} /\ indexed \in [Table -> SUBSET Row]
  BY DEF Ambuild, InsertInv, TypeInv
<1>2. w \in Writer \cup {None}
  BY <1>1
<1>3. PICK c : c = CommitWriter(w)
  OBVIOUS
<1>4. /\ c \in [Table -> SUBSET Row]
      /\ \A t \in Table : indexed[t] \subseteq c[t]
      /\ \A r \in Row : HeldBy(w, r) => r \in c[r.table]
  BY <1>1, <1>2, <1>3, CommitKeeps
<1>5. indexed' = [c EXCEPT ![table] = {r \in heap : r.table = table}]
  BY <1>3 DEF Ambuild
<1>6. indexed' \in [Table -> SUBSET Row]
  BY <1>1, <1>4, <1>5
<1>7. ASSUME NEW r \in heap, r.table \in indexes', r \notin indexed'[r.table]
      PROVE  r.table \in indexes /\ r \notin indexed[r.table] /\ ~HeldBy(w, r)
  <2>1. r \in Row /\ r.table \in Table
    BY <1>1 DEF Row
  <2>2. r.table # table
    BY <1>4, <1>5, <1>7
  <2> QED BY <1>1, <1>4, <1>5, <1>7, <2>1, <2>2
<1>8. TypeInv'
  BY <1>1, <1>6 DEF Ambuild, InsertInv, TypeInv
<1>9. ASSUME build = "pg16", ~caught PROVE PendingInv'
  <2>1. PendingInv /\ w = pending
    BY <1>9 DEF InsertInv
  <2> QED BY <1>1, <1>7, <1>9, <2>1 DEF PendingInv, Ambuild
<1>10. ASSUME build = "pg17" PROVE CacheInv'
  <2>1. CacheInv
    BY <1>10 DEF InsertInv
  <2>2. \A r \in heap' : r.table \in indexes' =>
          r \in indexed'[r.table] \/ \E i \in DOMAIN stack : HeldBy(stack[i].amCache, r)
    BY <1>1, <1>7, <2>1 DEF CacheInv
  <2> QED BY <1>1, <1>10, <2>1, <2>2 DEF CacheInv, HeldBy
<1> QED BY <1>1, <1>8, <1>9, <1>10 DEF InsertInv

\* The end of the transaction: no statement is left to commit a writer.
LEMMA CommitTransactionKeeps ==
  ASSUME InsertInv, CommitTransaction
  PROVE  InsertInv'
<1>1. TypeInv'
  BY DEF CommitTransaction, InsertInv, TypeInv
<1>2. ASSUME build = "pg16", ~caught PROVE PendingInv'
  BY <1>2 DEF CommitTransaction, InsertInv, PendingInv
<1>3. ASSUME build = "pg17" PROVE CacheInv'
  BY <1>3 DEF CommitTransaction, InsertInv, CacheInv, HeldBy
<1> QED BY <1>1, <1>2, <1>3 DEF InsertInv, CommitTransaction

-----------------------------------------------------------------------------
\* InsertInv holds throughout: what is not in the index yet is with a writer
\* that some hook is still going to commit.
LEMMA InsertInvariant == Spec => []InsertInv
<1>1. Init => InsertInv
  <2> SUFFICES ASSUME Init PROVE InsertInv
    OBVIOUS
  <2>1. stack = <<>> /\ stack \in Seq(StatementOf(build)) /\ DOMAIN stack = {}
    BY DEF Init
  <2>2. TypeInv
    <3>1. rows \in 0..MaxRows
      BY InsertAssumption DEF Init
    <3>2. indexed \in [Table -> SUBSET Row] /\ heap \subseteq Row /\ indexes \subseteq Table
      BY DEF Init
    <3> QED BY <2>1, <3>1, <3>2 DEF Init, TypeInv
  <2>3. PendingInv
    BY DEF Init, PendingInv
  <2>4. CacheInv
    BY <2>1 DEF Init, CacheInv
  <2> QED BY <2>2, <2>3, <2>4 DEF InsertInv
<1>2. InsertInv /\ [Next]_vars => InsertInv'
  <2> SUFFICES ASSUME InsertInv, [Next]_vars PROVE InsertInv'
    OBVIOUS
  <2>1. CASE InsertRow
    BY <2>1, InsertRowKeeps
  <2>2. CASE Fail
    <3>1. stack # <<>> /\ rows' \in 0..MaxRows /\ Unwind({})
      BY <2>2 DEF Fail, InsertInv, TypeInv
    <3> QED BY <3>1, UnwindKeeps
  <2>3. CASE ExecutorFinish \/ ExecutorEnd \/ ProcessUtility \/ Aminsertcleanup
    BY <2>3, ExecutorFinishKeeps, ExecutorEndKeeps, ProcessUtilityKeeps, AminsertcleanupKeeps
  <2>4. CASE CommitTransaction
    BY <2>4, CommitTransactionKeeps
  <2>5. CASE UNCHANGED vars
    <3>1. UNCHANGED <<build, xact, stack, pending, indexes, heap, indexed, rows, caught>>
      BY <2>5 DEF vars
    <3>2. TypeInv' = TypeInv
      BY <3>1 DEF TypeInv
    <3>3. PendingInv' = PendingInv
      BY <3>1 DEF PendingInv, HeldBy, Top
    <3>4. CacheInv' = CacheInv
      BY <3>1 DEF CacheInv, HeldBy
    <3> QED BY <3>1, <3>2, <3>3, <3>4 DEF InsertInv
  <2> QED BY <2>1, <2>2, <2>3, <2>4, <2>5, BeginKeeps, AmbuildKeeps DEF Next
<1> QED BY <1>1, <1>2, PTL DEF Spec

\* Every row of a committed transaction is in the index of its table, with
\* both ways to commit the writer of aminsert (as long as no error was caught
\* before PostgreSQL 17), however many statements nest and wherever an index
\* is built in between.
THEOREM CommittedRowsAreIndexed == Spec => []RowsIndexed
<1>1. InsertInv => RowsIndexed
  <2> SUFFICES ASSUME InsertInv, xact = "committed", Trusted,
                      NEW r \in heap, r.table \in indexes
               PROVE  r \in indexed[r.table]
    BY DEF RowsIndexed
  <2>1. stack = <<>> /\ build \in {"pg16", "pg17"} /\ DOMAIN stack = {}
    BY DEF InsertInv, TypeInv
  <2>2. CASE build = "pg16"
    <3>1. PendingInv
      BY <2>2 DEF InsertInv, Trusted
    <3> QED BY <2>1, <3>1 DEF PendingInv, HeldBy
  <2>3. CASE build = "pg17"
    BY <2>1, <2>3 DEF InsertInv, CacheInv
  <2> QED BY <2>1, <2>2, <2>3
<1> QED BY <1>1, InsertInvariant, PTL

\* PENDING_TANTIVY_COMMIT is empty when the transaction is over, committed or
\* aborted: the next one never finds a writer of this one.
THEOREM NoWriterIsLeft == Spec => []PendingEnds
<1>1. InsertInv => PendingEnds
  <2> SUFFICES ASSUME InsertInv, xact # "running", Trusted
               PROVE  pending = None
    BY DEF PendingEnds
  <2>1. stack = <<>> /\ build \in {"pg16", "pg17"}
    BY DEF InsertInv, TypeInv
  <2> QED BY <2>1 DEF InsertInv, Trusted, PendingInv, CacheInv
<1> QED BY <1>1, InsertInvariant, PTL
=============================================================================
