----------------------------- MODULE InsertState -----------------------------
(***************************************************************************)
(* How the rows of a transaction reach the index: aminsert and the writer  *)
(* it keeps between rows, and who commits that writer.  With PostgreSQL 17 *)
(* it hangs off the statement's IndexInfo and aminsertcleanup commits it;  *)
(* before, it is the one global PENDING_TANTIVY_COMMIT, committed by hooks *)
(* at the end of every query and utility statement.                        *)
(*                                                                         *)
(* The executor is external: statements nest (functions, triggers), any of *)
(* them may fail, and a nested one may run in a block that catches errors. *)
(***************************************************************************)
EXTENDS Naturals, Sequences, SequencesExt, FiniteSets

CONSTANTS
  Table,          \* the tables; each may have one bm25 index
  NoTable,        \* the table of a statement that inserts nothing
  None,           \* a null pointer, Option::None
  QueueSize,      \* MAX_INSERT_QUEUE_SIZE
  MaxDepth,       \* bound on nested statements
  MaxRows,        \* bound on the rows inserted
  MaxStatements   \* bound on the statements executed

Row    == [table : Table, id : 1..MaxRows]
Writer == [table : Table, queue : Seq(Row), tantivy : SUBSET Row]

ASSUME InsertAssumption ==
  /\ NoTable \notin Table /\ None \notin Table
  /\ None \notin Writer \cup {"set"}
  /\ QueueSize \in Nat \ {0} /\ {MaxDepth, MaxRows, MaxStatements} \subseteq Nat

VARIABLES
  build,     \* the PostgreSQL version pg_search was built for
  xact,      \* "running", "committed" or "aborted"
  stack,     \* the statements being executed, the innermost last
  pending,   \* PENDING_TANTIVY_COMMIT
  indexes,   \* the tables that have an index
  heap,      \* the rows no aborted statement inserted
  indexed,   \* what is committed to each index
  rows,      \* rows inserted so far
  started,   \* statements started so far
  caught     \* an error was caught and the transaction went on

vars == <<build, xact, stack, pending, indexes, heap, indexed, rows, started, caught>>

\* A statement: its table, IndexInfo.ii_AmCache (the writer itself with
\* PostgreSQL 17), what it and the statements it ran have inserted.
Statement(table, utility, guarded) ==
  [table |-> table, utility |-> utility, guarded |-> guarded,
   amCache |-> None, rows |-> {}, phase |-> "run"]

\* InsertState::new: a SearchIndexWriter with an empty queue.
NewWriter(table) == [table |-> table, queue |-> <<>>, tantivy |-> {}]

\* SearchIndexWriter::insert and drain_insert_queue
Drain(w) == [w EXCEPT !.tantivy = @ \cup ToSet(w.queue), !.queue = <<>>]

WriterInsert(w, row) ==
  LET queued == [w EXCEPT !.queue = Append(@, row)]
  IN  IF Len(queued.queue) >= QueueSize THEN Drain(queued) ELSE queued

\* Mutant of CommitWriter: the queue is not drained first.
CommitUndrained(w) ==
  [t \in Table |-> IF w # None /\ w.table = t THEN indexed[t] \cup w.tantivy ELSE indexed[t]]

\* paradedb_aminsertcleanup: the writer, if there is one, is committed.
CommitWriter(w) ==
  [t \in Table |-> IF w # None /\ w.table = t
                   THEN indexed[t] \cup Drain(w).tantivy ELSE indexed[t]]

Top == Last(stack)
SetTop(s) == [stack EXCEPT ![Len(stack)] = s]

Init ==
  /\ build \in {"pg16", "pg17"}
  /\ xact = "running"
  /\ stack = <<>>
  /\ pending = None
  /\ indexes \in SUBSET Table
  /\ heap = {}
  /\ indexed = [t \in Table |-> {}]
  /\ rows = 0 /\ started = 0
  /\ caught = FALSE

\* A statement begins, for the client or on behalf of the one that runs.
BeginStatement(table, utility, guarded) ==
  /\ xact = "running"
  /\ started < MaxStatements /\ Len(stack) < MaxDepth
  /\ guarded => stack # <<>>
  /\ utility => table # NoTable
  /\ stack # <<>> /\ Top.phase = "finish" => Top.table # NoTable   \* AFTER triggers
  /\ stack' = Append(stack, Statement(table, utility, guarded))
  /\ started' = started + 1
  /\ UNCHANGED <<build, xact, pending, indexes, heap, indexed, rows, caught>>

\* Mutant of Unwind: no callback resets the pending state.
UnwindKeepsPending(extra) ==
  LET blocks == {i \in DOMAIN stack : stack[i].guarded}
      to     == IF blocks = {} THEN 1 ELSE CHOOSE i \in blocks : \A j \in blocks : j <= i
      gone   == extra \cup UNION {stack[i].rows : i \in to..Len(stack)}
  IN  /\ stack' = SubSeq(stack, 1, to - 1)
      /\ heap' = heap \ gone
      /\ IF blocks = {} THEN xact' = "aborted" /\ UNCHANGED caught
                        ELSE caught' = TRUE /\ UNCHANGED xact
      /\ UNCHANGED <<build, pending, indexes, indexed, started>>

\* An ERROR unwinds the innermost statement and those around it up to a block
\* that catches it.  Only the end of the whole transaction resets pending:
\* the callback is one for PgXactCallbackEvent::Abort.
Unwind(extra) ==
  LET blocks == {i \in DOMAIN stack : stack[i].guarded}
      to     == IF blocks = {} THEN 1 ELSE CHOOSE i \in blocks : \A j \in blocks : j <= i
      gone   == extra \cup UNION {stack[i].rows : i \in to..Len(stack)}
  IN  /\ stack' = SubSeq(stack, 1, to - 1)
      /\ heap' = heap \ gone
      /\ IF blocks = {}
         THEN xact' = "aborted" /\ pending' = None /\ UNCHANGED caught
         ELSE caught' = TRUE /\ UNCHANGED <<xact, pending>>
      /\ UNCHANGED <<build, indexes, indexed, started>>

\* The table grows by a row; without an index that is all.
InsertHeapOnly(row) ==
  /\ row.table \notin indexes
  /\ heap' = heap \cup {row}
  /\ stack' = SetTop([Top EXCEPT !.rows = @ \cup {row}])
  /\ UNCHANGED <<build, xact, pending, indexes, indexed, started, caught>>

\* aminsert before PostgreSQL 17: the first row of a statement sets the
\* pending state up, every row goes to the one that is pending.
AminsertFake(row) ==
  /\ build = "pg16" /\ row.table \in indexes
  /\ IF Top.amCache = None
     THEN /\ pending = None                    \* assert in set_pending_insert_state
          /\ pending' = WriterInsert(NewWriter(row.table), row)
     ELSE /\ pending # None                    \* expect in init_insert_state
          /\ pending' = WriterInsert(pending, row)
  /\ stack' = SetTop([Top EXCEPT !.amCache = "set", !.rows = @ \cup {row}])
  /\ heap' = heap \cup {row}
  /\ UNCHANGED <<build, xact, indexes, indexed, started, caught>>

\* The assert or the expect fails.
AminsertPanics(row) ==
  /\ build = "pg16" /\ row.table \in indexes
  /\ IF Top.amCache = None THEN pending # None ELSE pending = None
  /\ Unwind({row})

\* aminsert with PostgreSQL 17.
Aminsert(row) ==
  /\ build = "pg17" /\ row.table \in indexes
  /\ LET w == IF Top.amCache = None THEN NewWriter(row.table) ELSE Top.amCache
     IN  stack' = SetTop([Top EXCEPT !.amCache = WriterInsert(w, row), !.rows = @ \cup {row}])
  /\ heap' = heap \cup {row}
  /\ UNCHANGED <<build, xact, pending, indexes, indexed, started, caught>>

InsertRow ==
  /\ stack # <<>> /\ rows < MaxRows
  /\ Top.table # NoTable /\ Top.phase = "run"
  /\ rows' = rows + 1
  /\ LET row == [table |-> Top.table, id |-> rows + 1]
     IN  \/ InsertHeapOnly(row)
         \/ AminsertFake(row)
         \/ AminsertPanics(row)
         \/ Aminsert(row)

\* Anything else in the statement fails: a constraint, a trigger, a cancel.
Fail ==
  /\ stack # <<>>
  /\ Unwind({})
  /\ UNCHANGED rows

\* executor_finish_hook commits whatever is pending, and then lets the
\* AFTER triggers run.
ExecutorFinish ==
  /\ build = "pg16" /\ stack # <<>>
  /\ ~Top.utility /\ Top.phase = "run"
  /\ indexed' = CommitWriter(pending)
  /\ pending' = None
  /\ stack' = SetTop([Top EXCEPT !.phase = "finish"])
  /\ UNCHANGED <<build, xact, indexes, heap, rows, started, caught>>

\* The statement is over; its rows are its caller's.
Return ==
  LET rest == Front(stack)
  IN  stack' = IF rest = <<>> THEN <<>>
               ELSE [rest EXCEPT ![Len(rest)].rows = @ \cup Top.rows]

ExecutorEnd ==
  /\ build = "pg16" /\ stack # <<>> /\ Top.phase = "finish"
  /\ Return
  /\ UNCHANGED <<build, xact, pending, indexes, heap, indexed, rows, started, caught>>

\* process_utility_hook: COPY has run, with its triggers.
ProcessUtility ==
  /\ build = "pg16" /\ stack # <<>> /\ Top.utility
  /\ indexed' = CommitWriter(pending)
  /\ pending' = None
  /\ Return
  /\ UNCHANGED <<build, xact, indexes, heap, rows, started, caught>>

\* aminsertcleanup, from ExecCloseIndices at the end of the statement.
Aminsertcleanup ==
  /\ build = "pg17" /\ stack # <<>>
  /\ indexed' = CommitWriter(Top.amCache)
  /\ Return
  /\ UNCHANGED <<build, xact, pending, indexes, heap, rows, started, caught>>

\* CREATE INDEX on a table no running statement uses: ambuild scans the heap
\* and inserts every row it finds through a writer of its own, which it
\* commits.  The utility hook then commits what is pending besides.
Ambuild(table) ==
  /\ xact = "running" /\ table \notin indexes
  /\ \A i \in DOMAIN stack : stack[i].table # table
  /\ indexes' = indexes \cup {table}
  /\ indexed' = [CommitWriter(IF build = "pg16" THEN pending ELSE None)
                   EXCEPT ![table] = {r \in heap : r.table = table}]
  /\ pending' = IF build = "pg16" THEN None ELSE pending
  /\ UNCHANGED <<build, xact, stack, heap, rows, started, caught>>

CommitTransaction ==
  /\ xact = "running" /\ stack = <<>>
  /\ xact' = "committed"
  /\ UNCHANGED <<build, stack, pending, indexes, heap, indexed, rows, started, caught>>

Next ==
  \/ \E table \in Table \cup {NoTable}, utility, guarded \in BOOLEAN :
       BeginStatement(table, utility, guarded)
  \/ InsertRow
  \/ Fail
  \/ ExecutorFinish \/ ExecutorEnd \/ ProcessUtility \/ Aminsertcleanup
  \/ \E table \in Table : Ambuild(table)
  \/ CommitTransaction

Spec == Init /\ [][Next]_vars

-----------------------------------------------------------------------------
\* The fake of aminsertcleanup goes wrong only after an error was caught:
\* the state of the failed statement stays pending, and a statement around it
\* may go on with a writer of another index.
Trusted == build = "pg17" \/ ~caught

\* Every row of a committed transaction is in the index of its table, however
\* statements nest, whichever hook commits the writer, and wherever the index
\* was built in between.
RowsIndexed ==
  xact = "committed" /\ Trusted =>
    \A r \in heap : r.table \in indexes => r \in indexed[r.table]

\* No writer outlives its transaction, committed or aborted, where the next
\* transaction would find it pending.
PendingEnds == xact # "running" /\ Trusted => pending = None

-----------------------------------------------------------------------------
(* The inductive invariant behind both (InsertStateProofs).                 *)

StatementOf(version) ==
  [table : Table \cup {NoTable}, utility : BOOLEAN, guarded : BOOLEAN,
   amCache : IF version = "pg17" THEN Writer \cup {None} ELSE {None, "set"},
   rows : SUBSET Row, phase : {"run", "finish"}]

TypeInv ==
  /\ build \in {"pg16", "pg17"}
  /\ xact \in {"running", "committed", "aborted"}
  /\ stack \in Seq(StatementOf(build))
  /\ pending \in Writer \cup {None}
  /\ indexes \subseteq Table
  /\ heap \subseteq Row
  /\ indexed \in [Table -> SUBSET Row]
  /\ rows \in 0..MaxRows
  /\ caught \in BOOLEAN
  /\ xact # "running" => stack = <<>>

\* Row r is in the queue of writer w, or handed to Tantivy.
HeldBy(w, r) == w # None /\ w.table = r.table /\ (r \in ToSet(w.queue) \/ r \in w.tantivy)

\* Before PostgreSQL 17, as long as no error was caught: what is not in the
\* index is pending, for the innermost statement that has inserted anything;
\* nothing is pending between statements and while AFTER triggers are due.
PendingInv ==
  /\ xact # "aborted" =>
       \A r \in heap : r.table \in indexes => r \in indexed[r.table] \/ HeldBy(pending, r)
  /\ pending # None =>
       \E i \in DOMAIN stack :
         /\ stack[i].amCache # None /\ stack[i].table = pending.table
         /\ \A j \in DOMAIN stack : j > i => stack[j].amCache = None
  /\ stack = <<>> \/ Top.phase = "finish" => pending = None

\* With PostgreSQL 17: it is with the writer of a statement, which has only
\* that statement's rows.
CacheInv ==
  /\ pending = None
  /\ \A r \in heap : r.table \in indexes =>
       r \in indexed[r.table] \/ \E i \in DOMAIN stack : HeldBy(stack[i].amCache, r)
  /\ \A i \in DOMAIN stack : stack[i].amCache # None =>
       /\ stack[i].amCache.table = stack[i].table
       /\ \A r \in Row : HeldBy(stack[i].amCache, r) => r \in stack[i].rows

InsertInv ==
  /\ TypeInv
  /\ build = "pg16" /\ ~caught => PendingInv
  /\ build = "pg17" => CacheInv
=============================================================================
