# A TLA+ model of pg_search

`pg_search` is a PostgreSQL extension that adds the `bm25` index access method:
a Tantivy full-text index kept in PostgreSQL's own block storage, with
PostgreSQL's transactions deciding which Tantivy segments a statement sees.
This directory holds TLA+ modules for the parts of it where several backends
meet and for the way of a query from the planner to its last row, the TLC configurations that check them on small instances, and TLAPS
proofs for every value of the constants.

Paths below are relative to `pg_search/src/` unless they say otherwise.

## The system

### Components, their state and operations

| component | state | operations |
|---|---|---|
| segment metadata (`index/directory/utils.rs`, `mvcc.rs`, `postgres/storage/block.rs`) | the list of `SegmentMetaEntry` (segment id, `xmin`, `xmax`, files, delete file) | `save_new_metas`, `load_metas` (by snapshot, or "any"), `visible`, `recyclable`, freezing |
| merge lock and policy (`index/merge_policy.rs`) | the MERGE_LOCK page: its buffer lock, `last_merge`, `num_segments` | `acquire_for_merge`, `acquire_for_delete`, `Drop`, `set_num_segments`, `compute_merge_candidates` |
| VACUUM (`postgres/delete.rs`, `postgres/vacuum.rs`) | the CLEANUP_LOCK page, free space map | `ambulkdelete`, `amvacuumcleanup` |
| linked item list (`postgres/storage/linked_items.rs`) | pages of items chained by `next_blockno`, a header with first and last block | `add_items`, `garbage_collect`, `lookup` |
| block storage (`postgres/storage/utils.rs`, `buffer.rs`) | buffers, pins, locks, the free space map | `new_buffer`, `get_buffer*`, `recyclable`, `vacuum_get_freeze_limit` |
| segment files (`linked_bytes.rs`, `blocklist.rs`, `segment_component.rs`) | byte pages and the list of their block numbers | append, range read |
| channel directory (`index/directory/channel.rs`) | a bounded request channel, an action and a reply channel, open writers | Tantivy's `Directory` calls from its threads, `wait_for` in the backend |
| writer and insert state (`index/writer/index.rs`, `postgres/insert.rs`, `fake_aminsertcleanup.rs`) | a statement's Tantivy writer, the insert queue | `aminsert`, `aminsertcleanup` or the hooks that stand in for it |
| reader (`index/reader/index.rs`) | an open index, a pin on CLEANUP_LOCK | `open`, `search*` |
| custom scan (`postgres/customscan/pdbscan/`) | an execution method with its results, shared parallel state | begin, exec, rescan, DSM callbacks |
| access method scan (`postgres/scan.rs`, `postgres/parallel.rs`) | results, shared parallel state | `amrescan`, `amgettuple`, `amgetbitmap` |
| planner (`postgres/customscan/hook.rs`, `pdbscan/mod.rs`, `qual_inspect.rs`, `privdat.rs`) | the private data of a path, handed to the executor as a list of nodes | `callback`, `extract_quals`, serialisation both ways |
| queries and ranges (`query/mod.rs`, `query/range.rs`, `postgres/range.rs`, `api/`) | a `SearchQueryInput` tree, one query parser for all its nodes | constructors, `into_tantivy_query`, `check_range_bounds`, the `@@@` operator and its filter function |
| schema, types, telemetry, tokenizers | none that outlives a call, apart from configuration | — |

### How they interact, and what is hard

* Statements of different backends share nothing but pages: the entry list, the
  merge lock page, the cleanup lock page, the free space map. An `INSERT` opens
  the segments its snapshot sees, saves the segments it created, and may then
  become the one that merges. A merge gives its sources an `xmax`; snapshots
  decide who still sees them; garbage collection in a later `save_new_metas`
  takes them off the list. Nothing of this is undone when a transaction aborts.
* VACUUM works on every segment at once, under the merge lock, in a transaction
  that snapshots do not list as running.
* The list is read one page at a time with no lock between pages, while adds go
  hand over hand and garbage collection unlinks pages.
* Scans that need no heap tuple (`COUNT`) trust the visibility map, so VACUUM
  must keep them apart from the heap pages it is about to mark all-visible.
* Segments of a parallel scan are shared out under a spinlock; the executor may
  launch fewer workers than planned, leave the leader out, and rescan before the
  end, with new workers that claim while the leader has not assigned yet.
* Transaction ids are 32 bits wide and wrap.
* Statements nest (functions, triggers) and errors in them are caught, while the
  writer of a statement waits for its end; before PostgreSQL 17 there is one
  pending writer for all of them.
* A query's result passes through a planner decision, a serialised plan, one of
  four execution methods or three other paths, and caches (the ctid column, one
  block's visibility, a set of keys), each of which may be right alone and wrong
  after the one before it.
* A file's pages are found through a compressed list whose chunks are packed
  relative to each other.

The hazards that follow from this, each at its line, are in `PROJECT.json`
under `hazards`, with the properties that cover them.

## The modules

| module | models | composed of |
|---|---|---|
| `SegmentMetas` | entries, snapshots, merge lock, INSERT / scan / VACUUM statements | |
| `SegmentMetasProofs` | theorems about it: types and open segments; what views find and merges see, what VACUUM deleted, what is frozen | `FreezeLimit` |
| `EntryList` | what a `LinkedItemList` promises: a set with add and collect | |
| `LinkedItems`, `LinkedItemsProofs` | the list at page level, with buffer locks and pins | refines `EntryList` |
| `FreezeLimit` | `vacuum_get_freeze_limit` over ids that wrap after 2 * `Half` | extends `SegmentMetas` |
| `ParallelScan`, `ParallelScanProofs` | `ParallelScanState` in both scan methods | |
| `CleanupLock`, `CleanupLockProofs` | VACUUM against scans using the visibility map | |
| `ChannelHandler`, `ChannelHandlerProofs` | the channel between Tantivy's threads and the backend, `SearchIndexWriter` on top | |
| `BlockStorage`, `BlockStorageProofs` | `new_buffer`, page recycling, the free space map, `amvacuumcleanup` | |
| `InsertState`, `InsertStateProofs` | `aminsert`, the pending writer and the hooks or callback that commit it, `ambuild` | |
| `SegmentFiles` | one file: `ExactBuffer`, `LinkedBytesList`, block list, range reads, deletion | |
| `RangeQueries`, `RangeQueriesProofs` | indexed ranges, canonical bounds, the five range queries | |
| `SearchQuery` | the nodes of `SearchQueryInput` and what they match | `RangeQueries` |
| `Quals` | restriction clauses, `extract_quals`, quals as lists of nodes and as a query | `SearchQuery` |
| `SearchScan` | a SELECT: planner hook, private data, execution methods, access method scans, filters | `Quals` |
| `MC*` | constants for TLC | the module they are named after |

`SegmentMetas` treats the list as a set and freezing as arithmetic on unbounded
ids. `LinkedItems` (refinement of `EntryList`, property `ListRefinement`) and
`FreezeLimit` (property `FreezeExact`, an invariant over the states of
`SegmentMetas`) are the modules that justify, or limit,
these abstractions; `CleanupLock` takes up what `SegmentMetas` leaves out of
`ambulkdelete`.

### SegmentMetas

State: `entry`/`list` are the `SegmentMetaEntry` items (`docs` are the ctids in
the segment, `deleted` those its delete file names); `holder`, `lastMerge`,
`numSegments` are the merge lock page; `base`, `segs`, `withDeletes`, `cand`
are a process's view: the previous and the current `IndexMeta`, which of its
segments had a delete file when it was loaded, and what it is merging; `xid`,
`snap`, `nextXid`, `latestCompleted` are PostgreSQL's.

A statement is a sequence of actions: `BeginInsert` (snapshot and transaction
id), `Open` (`load_metas`), `CommitInsert` (Tantivy's commit and `save_metas`),
then `reconsider_merge_policy`: `SetNumSegments` after a bulk insert, else
`AcquireForMerge` or `NoMerge`; `EndMerge` is the merge's `save_metas`,
`EndStatement` drops the writer and with it the lock. `AbortInsert` is an ERROR
anywhere but inside `save_metas`. VACUUM is `VacuumScan`, `AcquireForDelete`,
`BulkDelete`, `ReleaseForDelete`, `EndVacuum`. `save_metas` is one step; its
page accesses are what `LinkedItems` is about.

External: snapshots, the removal horizon (at its sharpest, which garbage
collection may assume) and the heap, as PostgreSQL defines them.

### LinkedItems

Every buffer lock taken or released between two page accesses is a state.
`AddStep` is `add_items`; `MaintainStep` is the part of `save_new_metas` that
runs under the merge lock: replacing entries (in place, or deleted and added
again behind), adding, `garbage_collect`; `ReadStep` is `load_metas`, and
`lookup`, which is the same walk stopped early. Pages have room for two units
and an entry grows from one to two with its delete file. A freed page is not
used again (that takes an advance of the removal horizon; `BlockStorage` shows
that it does not happen under a statement that may still read the page). The
constant `Together` says which processes may be at work at the same time: adders
with a walk, or the maintainer with walks (`Separate` says so of any value of
`Together`). Adders together with `garbage_collect` are left to
`linked_items_lost`. `Linked`, the pages a walk can come to, is the least set
that has the start page and is closed under `next`.

### FreezeLimit, ParallelScan, CleanupLock

`FreezeLimit` keeps the width of ids as a constant and every comparison as the
code makes it (`as i32`, `TransactionIdPrecedes`). It has no state of its own:
the ids of a `SegmentMetas` state are shifted to every place in the first half
of the id space, and what the wrapping arithmetic freezes there is compared with
what `SegmentMetas` freezes. `ParallelScan` has a variable
`method` for the difference between the custom scan (segments are assigned once,
and every process claims when it needs one) and the access method (every
`amrescan` of the leader assigns the segments anew, and each `amrescan` claims one
right away), and `leads` for `parallel_leader_participation`. `FirstScan` is the
first launch; `Rescan` may come at any time after it, stops the workers, launches
others and resets nothing, as `amparallelrescan` and
`reinitialize_dsm_custom_scan` do. The leader's `amrescan` is then two steps among
the workers' (`AssignSegmentIds`, `LeaderClaims`: it takes the spinlock twice), and
so it is in a first scan whose keys are known at run time only. `left` is what
the scan before had left unclaimed. `CleanupLock` has one VACUUM and scans that each run once; a
scan in `Inserting` belongs to a statement that also needs the merge lock, which
is what makes the order of the two locks matter.

### ChannelHandler

`queue` is the request channel, `action` and `replied` the worker's two
channels. Requests are told apart as writes, terminate, `save_metas`, and those
that are answered. What Tantivy asks for is external and given by scripts: a
file is its writes and a terminate; a commit saves the metas of the finished
segments and then asks for the managed files; a merge reads, writes a file and
saves again. `Commit` drains the queue and then commits, in two `wait_for`s.
`MessageFails` is an ERROR raised by a request: `wait_for` unwinds, and the
handler is dropped with the receiver, before or after the `IndexWriter`
depending on who holds it. An action returns, with a value or an error; one that
panics is left out, see below. `Abort` is an ERROR between two calls, in which
`IndexWriter` is dropped, and joins its threads, while the handler still exists
and handles nothing (the order of the fields of `SearchIndexWriter`).

### BlockStorage

Every step of `new_buffer` that another process can get between is an action:
taking a block from the free space map, locking it and looking at it, extending
the relation, locking the new block. A statement that creates a list holds its
first buffer locked while it asks for the second. `open` holds the blocks of the
files a reader's snapshot sees, with the number of times each was initialised,
and `uses` counts the files a block was put into since it was last freed.
`early` names the blocks `amvacuumcleanup` recorded between extension and lock;
the properties except them, see below.

### InsertState

One transaction. `stack` holds the statements being executed, each with its
`ii_AmCache`; `pending` is `PENDING_TANTIVY_COMMIT`. `build` chooses between the
two versions of the code that are compiled for PostgreSQL 17 and for those
before it. `Unwind` is an ERROR: it goes up to the next statement run in a block
that catches it, and only the abort of the whole transaction resets `pending`.
`ExecutorFinish` and `ProcessUtility` are the two hooks, `Aminsertcleanup` the
callback of PostgreSQL 17, `Ambuild` a `CREATE INDEX` in the same transaction.

### SegmentFiles

A byte is its own position in the file. `Write`, `Flush` and `TerminateRef` are
the writer's calls; `Push`, `Chunks` and `Paginate` the block list's builder,
with the packing itself (differences modulo 2^`Width`, and the bits they take)
modelled by what the `bitpacking` crate does. Reads change nothing, so they are
operators (`ReadBytes` and below) that the invariant applies to every range.

### RangeQueries, SearchQuery, Quals, SearchScan

`RangeQueries` has a discrete type (integers, dates) and a continuous one; every
query is an operator on an indexed range, checked against the sets of points the
ranges stand for. `SearchQuery` has one constructor per node and
`IntoTantivyQuery`, which gives for a document whether it matches, whether the
construction succeeds, and whether the parser is in conjunction mode afterwards:
all nodes share one parser. What a term, a phrase or a fuzzy word matches inside
Tantivy is external. `Quals` has the clauses PostgreSQL hands over, what
`extract_quals` makes of them, the list of nodes they travel in, and the query
made of it.

`SearchScan` runs one `case`: a table (rows in segments and heap blocks, visible,
dead or vacuumed) and a query (clauses, target list, ORDER BY, LIMIT, parallel
or not). `Callback` is `PdbScan::callback`, with the private data serialised;
PostgreSQL's choice of path is open wherever the hook leaves it one
(`UseOtherPath`), so costs play no part. `CreateCustomScanState` picks the
method; `NextRow`, `Query` and `EndOfResults` are what `ExecMethod::next` does
for the normal, top N, string and numeric methods, in the leader alone or with a
worker that claims segments too. `Amrescan`, `Amgettuple` and `Amgetbitmap` are
the access method's scans, whose remaining clauses are filters that go through
the set of keys of `search_with_query_input` (`HashSet`); a sequential scan has
nothing but filters. Ties of a sort come in any order. Scores are given, and
errors of a filter's query are raised when the scan starts. Strings have an order
by bytes, which is Tantivy's, and a place in the column's collation
(`case.collate`), which is PostgreSQL's; the planner's code looks at neither.

## The runs

Bounds are in the `.cfg` files.

| run | shows |
|---|---|
| `segment_metas_merge` | `NothingLost`, `NoDuplicates`, `OpenSegmentsKept`, `MergesSeePreviousMerge` for two inserters, one of them repeatable-read, and a reader. Four statement transactions, starting from two segments and a target of one, so that merges of merges, garbage collection and freezing all happen |
| `segment_metas_vacuum` | `TypeOK`, `NothingLost`, `VacuumedStayGone`, `FreezeExact` with a VACUUM of one `ambulkdelete` call that empties one segment and leaves a live document in the other; ids that wrap after 32 (`Half = 16`), so that the limit runs into `FirstNormalTransactionId`, the cap and everything between |
| `linked_items` | two adders and a walk, or a maintainer on four pages, two of which become empty, and two walks: `NothingLost`, `WalkComplete`, `NoDoubleRead`, `FreedUnlinked`, `ListRefinement`, `WritersFinish` |
| `parallel_scan` | both scan methods: three workers and the leader, three segments, three scans of which any may be cut short by the next: no segment is returned twice (`NeverTwice`, but for left-over ones), none is missed (`ScanComplete`, but for the cases it names), whichever workers come up, and every scan ends (`ScansEnd`). Three, so that a scan that was started again is itself cut short |
| `cleanup_lock_scan` | no dead tuple is counted; VACUUM and scans never wait for each other for ever |
| `channel_handler` | two indexing threads, up to two pages each, a channel of three messages, so that senders do block: `SavedAreComplete`, `CommitIsSaved`, `WaitReturns`, `ThreadsStop` |
| `block_storage` | two writers, a reader, three transactions, two `amvacuumcleanup` calls, a relation that grows from one block to two: enough for a block to be freed, recorded, taken, recorded again and reused under a reader. `OneOwner`, `OpenPagesKept`, `NoBlockLeaks` |
| `insert_state` | two tables, three statements nested up to three deep, four rows, a queue of two, so that a writer is drained in the middle of a statement and at its end; both builds: `RowsIndexed`, `PendingEnds` |
| `segment_files` | files of up to six pages of two bytes in blocks found from both ends of the relation, packers of two, four and eight blocks, pages of the block list that hold one or two chunks: `ReadExact`, `DeletedWhole` |
| `search` | three families of cases. Clauses: every clause of depth two over eight leaf queries, and single ones over the other nodes, on a table with a row for each set of words, in every path. Shapes: three rows in two segments and two blocks, one of them dead or vacuumed, under every combination of target list, ORDER BY, LIMIT and parallelism. Ranges: every query over bounds of two values on a table with a row for each range and point. `ReturnsOnlyMatches`, `ReturnsAllMatches`, `RangesExact`, `TopNFirst`, `DeclaredOrder`, `NeverPanics`, `ScanEnds` |

Runs expected to find a violation state what a comment or an interface of the
repository says and the code does not keep; `findings` in `PROJECT.json` quotes
the line.

| run | what happens |
|---|---|
| `linked_items_lost` | `garbage_collect` relinks around a page `add_items` has appended to |
| `search_rescan` | a rescan of the custom scan goes on where the last scan stopped |

### Where the properties stop

Some properties carry a condition, or a run a bound, because TLC finds the
unconditional form violated. What lies behind each:

* `VacuumedStayGone` is checked with an index that keeps a live document and one
  `ambulkdelete` call per VACUUM. `save_metas` returns early on a meta without
  segments (`mvcc.rs:221`), so a VACUUM that empties the whole index saves
  nothing; and the second call of a VACUUM stamps `last_merge` with an id that a
  writer opened after the first call may already consider ended.
* `VacuumedStayGone` and `CountedAreVisible` (`Emptied = {}`) leave out segments
  that VACUUM empties: their entry gets an `xmax` but not the new delete file
  (`utils.rs:222`), and snapshots that do not see the VACUUM find the old one.
* `NoDoubleRead` leaves out entries that grow and move to a later page.
* `last_blockno` in the header of the item list names a freed page after the end
  of the list is cut off; nothing reads it for this list.
* `MergesSeePreviousMerge` is checked without VACUUM: a VACUUM overwrites
  `last_merge` with an id no snapshot considers running (`merge_policy.rs:77`),
  and a statement that does not see the merge before it may then merge the same
  segments again.
* `FreezeExact` holds below `Half`, half of the id space: from there on `next_xid as i32` is
  negative and the limit is `FirstNormalTransactionId`, which is not capped at
  `oldest_xmin` (`storage/utils.rs:218`).
* `NeverTwice` excepts segments left over by an unfinished scan of the access
  method (`s <= left`): after a rescan new workers start with what
  `remaining_segments` was, and one of them may claim a segment that the leader,
  in its own `amrescan`, assigns again (`postgres/parallel.rs:72`, `scan.rs:112`).
* `ScanComplete` leaves out rescans of a parallel custom scan
  (`reinitialize_dsm_custom_scan` resets nothing) and a leader that claimed a
  segment in `amrescan` and takes no part in the scan.
* The abort of a statement is not claimed to return: if what the indexing
  threads still send does not fit into the channel, or needs an answer, the
  backend waits for a thread that waits for it. `ThreadsStop` is about the
  threads once the handler is gone.
* `WaitReturns` is about actions that return. One that panics ends the worker
  thread, and `wait_for` polls on: the handler keeps a sender of the reply channel
  itself (`channel.rs:222`), so the branch for a disconnected one (278-281) is
  never reached.
* `OneOwner` and `OpenPagesKept` except blocks in `early`:
  `amvacuumcleanup` takes no extension lock and may record a block that
  `new_buffer` has not locked yet; a second `new_buffer` then gets it as well, and
  whoever extended the relation waits for its lock with the extension lock held.
* `NoBlockLeaks` is about blocks in no file or in one that was replaced. The file
  of a transaction that aborted stays as it is, whether or not an entry names it.
* `NothingLost` and `ListRefinement` are checked, and `FreedUnlinked`,
  `WalkComplete` and `NoDoubleRead` checked and proved, with maintainers that work
  on their own (`Separate`), which the code does not ensure: an INSERT's
  `add_items` takes no merge lock. With adders beside `garbage_collect` entries are
  lost (`linked_items_lost`), and a walk may miss them; what is proved for that
  case is where they are lost (`OnlyRelinkingTakesEntries`).
* `RowsIndexed` and `PendingEnds` hold before PostgreSQL 17 only as long as no
  error was caught (`Trusted`): the state of a statement that failed inside a
  subtransaction stays pending, and the next row of another index goes to its
  writer, or the `assert` in `set_pending_insert_state` fails.
* `ReadExact` leaves out a read that starts at the end of a file whose last page
  is full: there is no page for it, and `get_bytes_range` panics.
* `ReturnsOnlyMatches` and `ReturnsAllMatches` leave out queries with two `Parse`
  nodes of different conjunction modes (the mode set for one stays set for those
  after it, `query/mod.rs:781`) and, for filters, tables with two versions of a
  key, one of which may be taken for the other.
* `ReturnsAllMatches` leaves out `NOT` in a custom scan (a Tantivy Boolean of
  nothing but `must_not` matches nothing; as a filter it is right) and NULLs in
  the field of a string scan, whose rows the collector drops.
* `TopNFirst` says nothing when rows are dead: `found` is never counted up, so
  the retry of `top_n.rs:168` never runs and the LIMIT may stay unfilled. Nor
  does it speak of the second ORDER BY key: the code pushes the first one down
  with the LIMIT, so ties at the limit are cut anywhere, while
  `docs/documentation/full-text/sorting.mdx:126` says that an ORDER BY over
  several fields is not pushed down.
* `DeclaredOrder` is about an ascending string key: with DESC, or a key that is
  another field, the path declares the order all the same. And it is about
  columns whose collation compares bytes (`CollatesBytes`): terms come in byte
  order out of a `BTreeMap`, and `pullup_orderby_pathkey` (`pdbscan/mod.rs:873`)
  does not ask for the path key's collation. `TopNFirst` by a text field has the
  same hypothesis.
* `NeverPanics` excepts `more_like_this`, which turns scores on after the planner
  decided on a field sort, and a `term_set` with a JSON path. In the same way
  `regex` does not split a path off its field, `regex_phrase` and terms on
  fields that are not JSON ignore it.
* `RangesExact` has bounds that are ranges: JSON input may give `(x,x)`, and an
  excluded bound at the largest integer overflows when it is made canonical. An
  integer literal against a continuous column is made canonical as well.

### Fairness

`LinkedItems.FairSpec`: every writer keeps running, and buffer locks are granted
in the end (PostgreSQL's lightweight locks queue their waiters), so each
writer's steps are weakly fair. Readers owe nothing. `ParallelScan.FairSpec`:
a launched worker and a participating leader run until they are done; the leader's late `amrescan` is
as fair; nothing forces a rescan. `CleanupLock.FairSpec`: VACUUM and each scan keep running while
they can; a scan that is open ends. `SearchScan.Spec`: the executor asks
for tuples until the end (weak fairness of `Fetch`); planning, rescans and the
end of the scan are its own affair. `ChannelHandler.FairSpec`: each of Tantivy's threads,
the worker and the backend's loop keep running (operating system threads, and a
loop that polls); whether the statement makes its next call is PostgreSQL's
affair, so `Open`, `DrainInsertQueue`, `Commit`, `Abort` and `MessageFails` are
not fair. `BlockStorage` has no liveness property. `SegmentMetas` has no liveness property: nobody waits
there for anything but the merge lock. `InsertState` and `SegmentFiles` have one
process each and nothing that waits.

### Mutants

Each property of a passing run is violated by at least one of the operators
marked "Mutant of" in the modules; `mutants` in `PROJECT.json` says which.

## The theorems

All but `RangeRelationsAreExact` are about `Spec`, the specification without
fairness; all hold for every value of the constants that the named `ASSUME`s admit: any number of processes,
segments, pages, rows and transactions. The bounds of the models (`MaxXid`,
`MaxSeg`, `MaxBlocks`, ...) are constants too, so a theorem holds for each of
them.

| theorem | states | inductive invariant |
|---|---|---|
| `SegmentMetasProofs!TypeCorrect` | `TypeOK` | itself |
| `SegmentMetasProofs!OpenSegmentsAreKept` | `OpenSegmentsKept`, if `MaxPasses <= 1` | `KeepInv` |
| `SegmentMetasProofs!RowsAreNeverLost` | `NothingLost` | `LossInv` |
| `SegmentMetasProofs!MergesSeeMerges` | `MergesSeePreviousMerge`, if `Vacuums = {}` | `KeepInv`, `LossInv`, `MergeInv` |
| `SegmentMetasProofs!RowsAreFoundOnce` | `NoDuplicates`, if `Vacuums = {}` | the same |
| `SegmentMetasProofs!VacuumedRowsStayGone` | `VacuumedStayGone`, if there is one VACUUM at a time, `MaxPasses <= 1` and a row of the build is `Immortal` | `KeepInv`, `LossInv`, `GoneInv` |
| `SegmentMetasProofs!FreezingIsExact` | `FreezeExact` | `TypeOK`, `HistoryInv` |
| `LinkedItemsProofs!FreedPagesAreUnlinked` | `FreedUnlinked`, if `Separate` | `ListInv` |
| `LinkedItemsProofs!WalksAreComplete` | `WalkComplete`, if `Separate` | `ListInv`, `ReaderInv` |
| `LinkedItemsProofs!EntriesAreReadOnce` | `NoDoubleRead`, if `Separate` | `ListInv`, `ReaderInv` |
| `LinkedItemsProofs!OnlyRelinkingTakesEntries` | `OnlyRelinkingLoses`, if `OneMaintainer` | `TypeOK`, `PlaceInv` |
| `RangeQueriesProofs!RangeRelationsAreExact` | `RangeLeaf(q, doc) <=> RangeMeans(q, doc)` | none: a fact about operators |
| `ParallelScanProofs!SegmentsClaimedOnce` | `NeverTwice` | `ClaimInv` |
| `ParallelScanProofs!NoSegmentMissed` | `ScanComplete` | `CoverInv` |
| `CleanupLockProofs!CountsAreRight` | `CountedAreVisible`, if `Emptied = {}` | `CleanupInv` |
| `ChannelHandlerProofs!SavedSegmentsAreComplete` | `SavedAreComplete` | `ChannelInv` |
| `ChannelHandlerProofs!CommitSavesEverything` | `CommitIsSaved` | `ChannelInv` |
| `BlockStorageProofs!BlocksHaveOneOwner` | `OneOwner` | `StorageInv` |
| `BlockStorageProofs!OpenBlocksAreKept` | `OpenPagesKept` | `StorageInv` |
| `BlockStorageProofs!BlocksAreReclaimable` | `NoBlockLeaks` | `StorageInv` |
| `InsertStateProofs!CommittedRowsAreIndexed` | `RowsIndexed` | `InsertInv` |
| `InsertStateProofs!NoWriterIsLeft` | `PendingEnds` | `InsertInv` |

The invariants are defined at the end of the module they are about, and each was
an invariant of a TLC run on the bounds of that module's `.cfg` before it was
proved. The hypotheses are those of "Where the properties stop": without them
the property is false. `OneMaintainer` is what the merge lock gives.

* `KeepInv`. That open segments stay in the list is not inductive: what keeps a
  replaced segment is that its `xmax` is considered running by the snapshot of
  whoever has it open (`OpenSegmentsInv`), since `recyclable` then fails. This
  needs that a process which sets an `xmax` is running for every snapshot in use
  (`SnapshotInv`), that only the lock holder merges (`LockInv`), and that a
  VACUUM has no transaction id before it saves (`VacuumXidInv`), which is where
  `MaxPasses <= 1` comes in; with two passes a VACUUM's id may already be
  visible.
* `LossInv`. `NothingLost` speaks of the snapshots in use and of one taken now.
  A merge may still be running when a snapshot is taken, so the inductive form
  (`FoundInv`) speaks of every view that exists now or can come to exist: a set
  of ids (`ViewSet`) that is what some snapshot in use sees, or that sees at
  least what has ended; of ids not yet assigned it says nothing. No step adds a
  view set, so every action has to show only that what a view found before, it finds after.
  A merge moves a row to the new segment, seen by the views that see the merge,
  and hides the old one from the same views; garbage collection removes an entry
  only when every view sees its `xmax`; freezing changes an id that every view
  sees. It needs no assumption on VACUUM, since VACUUM deletes dead rows only
  (`FreshInv`).
* `MergeInv`. Duplicates come from two merges of the same segment.
  `acquire_for_merge` rules them out by looking at one id, the last merge's, and
  this is enough because the merges form a chain: a view that sees the last one
  sees the `xmax` of every replaced entry (`ChainInv`). Each merging process
  keeps that what it merges is in the list without an `xmax`
  (`OwnSegmentsInv`), thanks to the lock it holds (`MergeLockInv`); then the
  segments a view sees have no row in common (`UniqueInv`).
* `GoneInv`. What keeps a deleted ctid from coming back is a chain of ids.
  A segment that still has some of what was deleted is behind the horizon of
  every view (`Obsolete`), or has nothing else and was retired by a VACUUM
  (`GoneFrom`). A VACUUM's id is in nobody's `xip` (`NeverListed`), so whoever
  sees the last stamp of the merge lock sees the retirements before it
  (`RetiredInv`); therefore a writer that is allowed to merge has none of the
  deleted ctids in what it would read (`ReadInv`), although it may have opened
  the index before the VACUUM. `PurgeInv` follows the VACUUM itself: what it has
  not loaded is obsolete or has nothing of its list, since only new rows come in
  while it holds the lock; between its save and its release the claim is about
  `Purged`, then about `vacuumed`. One VACUUM at a time is what PostgreSQL's
  lock on the table gives; the immortal row (`DeadInv`) makes `save_metas` save.
* `FreezingIsExact` needs no invariant of its own: below `Half` every comparison
  of remainders is the one of the numbers, for every offset; the oldest
  non-removable id is the least that is not behind the horizon, and what is old
  enough and below it is what `NeedsFreeze` freezes.
* `ListInv`. `PhaseInv` says that a maintainer at work is the only writer,
  which is all that `Separate` is used for. `ChainInv` says that no two pages of
  the list have the same successor. While `garbage_collect` is at work there is
  a gap: the pages it has emptied and not unlinked lie between the last page it
  left filled and the page it has come to (`GapInv`), so that relinking the two
  takes out these pages and nothing else. To show that the page it has come to
  is not before the gap, `GapInv` has a set `P` of pages before it that is
  closed under predecessors. `Linked` being a least closed set, what appending
  and cutting do to it (`ReachAppend`, `ReachCut`) needs no induction; that the
  first pages are all linked takes a least page that is not.
* `PlaceInv`, with adders beside the maintainer. `Separate` fails, and with it
  `WriterInv`: an adder may be on a page that was taken off the list. What is
  left is that the maintainer, while it moves or adds entries, is on the list,
  since nobody else takes pages off it, and that appending a page cuts none off
  (`LinkedGrows`). So each step keeps what is listed (`ListedKeeps`), but for the
  two that `OnlyRelinkingLoses` names.
* `ReaderInv`. A walk is on one page and knows nothing of the rest, so `WalkInv`
  says where what it still owes can be: on a page that `From` its page reaches,
  or in the hand of a maintainer that moves it away from such a page. The
  maintainer has that page locked meanwhile, so no walk passes it, and puts the
  entry behind it (`MoveInv`). Appending makes `From` larger; cutting takes out
  emptied pages only, and a walk on one of them still gets to the rest, since it
  keeps its link. For `NoDoubleRead`, pages are linked in the order in which
  they were allocated (`OrderInv`), so a walk never comes back; an entry that
  has not grown is on one page, and the pages ahead of a walk have none that it
  has seen (`OnceInv`); and what a writer has still to append is nowhere yet
  (`PendingInv`), for which `FreshAssumption` is needed: segment ids are new
  UUIDs.
* `RangeRelationsAreExact` takes the three relations to comparisons of ends.
  Each bound has a lowest or a highest point on its side (`Lowest`, `Highest`),
  which `check_range_bounds` does not move (`CanonicalLowerIs`,
  `CanonicalUpperIs`); how two ends lie to each other depends on the kinds and
  values of the bounds alone (`LowersCompare`, `UppersCompare`, `EndsCompare`),
  and that is what the queries compare (`ContainsCompares` and its
  companions); `Intervals` is the same for sets of points. `is_empty` misses no
  query that asks for nothing (`EmptyIs`), provided that its bounds are not
  upside down (`WellFormed`).
* `ClaimInv`. Of the segments that were not left over (`Fresh`), those above
  `remaining` were claimed, those at or below it are in nobody's hand and
  unscanned, no two processes hold the same one, and one that is held has not been
  scanned; until the leader assigns anew, nobody has claimed any of them.
  `CoverInv` is the converse, in a scan whose segments were assigned for it
  (`Covers`): one above `remaining` was scanned or is in a hand, and whoever is
  done has an empty hand and found nothing remaining.
* `CleanupInv`. A scan that still has a dead ctid to look at opened the index
  before the deletion was committed and holds its pin; so as long as VACUUM has
  not returned from the cleanup lock no dead block is all-visible, and once it
  has, no scan has, or can get, a dead ctid; nor does the one-block cache say
  "visible" of such a block.
* `ChannelInv`. Only the order of requests within the channel makes a saved
  segment complete. `FileInv` counts the pages of a file: sent is written plus
  queued until the terminate is handled, and no write is behind the terminate.
  `SaveInv` puts each SaveMetas behind the terminate of its files and before a
  request that the worker waits for, so that it is handled by the time the
  worker has its answer. `OwnInv` and `ControlInv` say who sends what, and what
  the worker may do in each state of the backend. All but `ControlInv` are only
  claimed until the handler is dropped.
* `StorageInv`. A block handed out by `new_buffer` is in no file or in one that
  every snapshot sees replaced (`HeldInv`), and one that is open is marked with
  an id that the opener's snapshot does not see, if at all (`KeptOpen` in
  `OpenInv`), so the two never meet. That an id once removable stays so
  (`RemovableStable` in the proofs) is what carries the free space map's stale
  entries: a block is looked at again under its lock. `HandInv` has the blocks
  by which a statement extends the relation. `PageInv` gives `NoBlockLeaks`: a
  page is new exactly as long as it is in no file, and an id that replaced a file
  is one that was assigned.
* `InsertInv`. A row of the heap that is not in its index is held by a writer:
  by the pending one before PostgreSQL 17, and that belongs to the innermost
  statement that inserted anything (`PendingInv`); by the one of a statement on
  the stack with PostgreSQL 17, with rows of that statement only, which an ERROR
  takes away together with the statement's rows (`CacheInv`).

Assumptions on constants: `ConstantsAssumption` (sets of processes are disjoint,
bounds are numbers) and `StartAssumption` (the first segments share no row) of
`SegmentMetas`; `HalfAssumption` (the ids of a behaviour and the minimum freeze
age fit into half of the id space) of `FreezeLimit`, which `FreezingIsExact` alone
uses; `ListAssumption` (writers and readers are different processes, a
page has room for two units, the first pages fit) and `FreshAssumption` (no two
entries are the same, of the first pages or of those that writers create) of
`LinkedItems`; `RangeAssumption` (there are two values at least); `ParallelAssumption`,
`CleanupAssumption`, `ChannelAssumption`, `StorageAssumption` and
`InsertAssumption`. TLC evaluates all of them.

Only model-checked, and why:

* `WritersFinish`, `WaitReturns`, `ThreadsStop`, `ScanEnds` and the other
  liveness properties: the prover does not do fairness.
* `NothingLost` of `LinkedItems` and `ListRefinement`: they hold only where no
  INSERT adds beside a maintainer, and TLC shows that on an instance and the loss
  without it. A theorem with that hypothesis would be about schedules the code
  does not ensure.
* `ReadExact`, `DeletedWhole`: what a fold over the bytes written, or a RECURSIVE
  walk over pages and chunks, yields for every input takes an induction over
  data.
* The properties of `SearchScan`: they are about RECURSIVE operators over trees
  of clauses and queries. What does not recurse in `RangesExact`, the range
  queries themselves, is `RangeRelationsAreExact`.

## Plan

Done, in this order: `SegmentMetas` and its first proofs, `EntryList` and
`LinkedItems`, `FreezeLimit`, `ParallelScan`, `CleanupLock`, `ChannelHandler`,
`BlockStorage`, `SegmentFiles`, `InsertState`, `RangeQueries`, `SearchQuery`,
`Quals`, `SearchScan`; then the theorems above.

Next, in the models: `save_new_metas` in steps, with an ERROR between them,
inside `SegmentMetas`; ids that wrap in `acquire_for_merge`.

## Not modelled

Schema and options, type conversions, the generation of SQL, bootstrap,
telemetry and tokenizers: they keep no shared state, and what can go wrong in
them is the content of values rather than the order of steps. The planner's
costs and selectivities, which only decide between paths that must all be right.
Crash recovery: the index is not WAL-logged in this edition
(`docs/deploy/enterprise.mdx`), so there is no recovery to model. Scoring,
snippets and what Tantivy does inside a segment are external.
