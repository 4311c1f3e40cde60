----------------------------- MODULE SearchScan -----------------------------
(***************************************************************************)
(* A SELECT through the custom scan, from the planner hook to the last     *)
(* tuple: paradedb_rel_pathlist_callback and PdbScan::callback decide on a *)
(* path and its private data, create_custom_scan_state picks an execution  *)
(* method, and exec_custom_scan drives it, in one process or in several    *)
(* that claim segments from the shared ParallelScanState.                  *)
(*                                                                         *)
(* PostgreSQL is external: it hands the planner a query, chooses among the *)
(* paths, and asks for tuples until the end; it may rescan the node at any *)
(* time.  Costs only matter for its choice, which is left open.  If it     *)
(* takes another path than the custom scan's, that is an index scan, a     *)
(* bitmap scan or a sequential scan, in one process here, and clauses that *)
(* are no index keys are filters that call search_with_query_input.        *)
(***************************************************************************)
EXTENDS Quals, FiniteSetsExt, SequencesExt

CONSTANTS
  Case,      \* the tables and queries to run, described below
  Proc,      \* the leader and the workers of a parallel query
  Leader     \* the process that runs a serial plan

ASSUME ScanAssumption == Leader \in Proc

(***************************************************************************)
(* A case: segs, the rows of each segment; of each row its document, its   *)
(* heap block and the values of its columns (0 is NULL); the rows the      *)
(* snapshot sees (visible) and those whose document VACUUM deleted         *)
(* (vacuumed).  Strings are numbered in the order of their bytes, which is *)
(* tantivy's; collate gives the place of each in the order of the column's *)
(* collation, which is PostgreSQL's.  The query: base and join, its restriction clauses; select, *)
(* its columns; order, the column of the first ORDER BY key; dir; keys, the*)
(* number of keys; limit (0 for none); single, whether it has one relation;*)
(* parallel, whether PostgreSQL considers parallel plans; cardinal,        *)
(* whether the index looks as if it had a million different strings; scans *)
(* bounds how often the node is scanned; others, the kinds of path that    *)
(* PostgreSQL may take instead.                                            *)
(***************************************************************************)
VARIABLES
  case,      \* the case being run, constant
  phase,     \* how far the statement is
  plan,      \* the path: private data, path keys, parallel_aware, Force
  node,      \* the custom scan state: query, method, ...
  remaining, \* ParallelScanState.remaining_segments
  results,   \* search_results of each process
  didQuery,  \* did_query of each process
  blockvis,  \* the last block looked up in the visibility map, and its answer
  eof,       \* the processes that have returned the end of their scan
  output,    \* the rows each process has returned since the last (re)scan
  scan       \* how often the node was scanned

vars == <<case, phase, plan, node, remaining, results, didQuery, blockvis, eof, output, scan>>

scanVars == <<remaining, results, didQuery, blockvis, eof, output, scan>>

Row      == UNION {ToSet(case.segs[s]) : s \in DOMAIN case.segs}
Segments == DOMAIN case.segs

\* visibilitymap_get_status: no tuple of the block is dead.
AllVisible(block) ==
  \A r \in Row : case.block[r] = block => r \in case.visible \cup case.vacuumed

-----------------------------------------------------------------------------
(* The planner: paradedb_rel_pathlist_callback, PdbScan::callback          *)

\* CustomPathBuilder::restrict_info
Clauses == IF case.base # <<>> THEN case.base ELSE case.join

\* The target list has the columns of ORDER BY too, as junk.
Target ==
  case.select \cup (CASE case.order = "none" -> {} [] case.order = "other" -> {"heap"}
                      [] OTHER -> {case.order})

\* pullup_orderby_pathkey: only the first key is looked at, and of it not the
\* collation
PathKey == IF case.order \in {"score", "str", "num"} THEN case.order ELSE "none"

Limit == IF case.single THEN case.limit ELSE 0

\* maybe_needs_const_projections
ConstProjections == Target \cap {"score", "snippet"} # {}

\* pullup_fast_fields finds no column it cannot use, and one string at most
HasFastFields ==
  /\ Target \cap {"heap", "snippet"} = {}
  /\ ~ {"str", "str2"} \subseteq Target

\* is_string_agg_capable_ex
StringField(limit, fastFields) == limit = 0 /\ fastFields /\ Target \cap {"str", "str2"} # {}

\* CustomPathBuilder::set_parallel
SetParallel(limit, sorted) ==
  LET n == Len(case.segs)
  IN  /\ case.parallel
      /\ IF limit > 0 THEN (sorted \/ limit > n * n * n) /\ n \div 2 > 0
                      ELSE n > 0

\* privdat.rs: the private data as a list of nodes, a NULL constant for None
SortCode == [asc |-> 1, desc |-> 5, none |-> 3]
Null     == [tag |-> "const"]

Serialize(pd) ==
  << Node(ToList(pd.quals)),
     IF pd.limit = 0 THEN Null ELSE Str(pd.limit),
     IF pd.sortField = "none" THEN Null ELSE Str(pd.sortField),
     IF pd.sortDir = "unset" THEN Null ELSE IntNode(SortCode[pd.sortDir]) >>

Deserialize(list) ==
  [ quals     |-> FromList(list[1].val),
    limit     |-> IF list[2].tag = "string" THEN list[2].val ELSE 0,
    sortField |-> IF list[3].tag = "string" THEN list[3].val ELSE "none",
    sortDir   |-> IF list[4].tag = "integer"
                  THEN CHOOSE d \in DOMAIN SortCode : SortCode[d] = list[4].val
                  ELSE "unset" ]

NoPlan == [private |-> <<>>, declared |-> FALSE, parallel |-> FALSE, force |-> FALSE]
NoNode == [query |-> Empty, method |-> "unknown", parallel |-> FALSE]

\* Mutant of SortInfo: sort information for every top N.
SortInfoAlways(isTopN, declared) == isTopN \/ declared

\* Whether set_sort_info is called: tantivy cannot sort by a field and score.
SortInfo(isTopN, declared) ==
  \/ isTopN /\ ~(ConstProjections /\ PathKey # "score")
  \/ declared

\* extract_quals of the restrictions; without any there is no path
Qualification ==
  IF Clauses = <<>> THEN NoQual
  ELSE ExtractQuals(ClauseList([i \in DOMAIN Clauses |-> RestrictInfo(Clauses[i])]))

IsTopN == Limit > 0 /\ PathKey # "none"

\* The path will run a StringAgg; with several path keys and few strings it
\* is serial and declares itself sorted by the first of them.
IsStringAgg     == PathKey # "none" /\ ~IsTopN /\ StringField(Limit, HasFastFields)
DeclaresPathKey == IsStringAgg /\ case.keys > 1 /\ ~case.cardinal

\* callback() returns a path and the hook adds it.
Callback ==
  LET sortInfo == SortInfo(IsTopN, DeclaresPathKey)
      sortDir  == IF sortInfo THEN case.dir
                  ELSE IF ~IsTopN /\ Limit > 0 /\ case.order = "none" THEN "none" ELSE "unset"
  IN
  /\ phase = "planning"
  /\ Qualification.kind # "none"
  /\ plan' = [ private  |-> Serialize(
                 [ quals     |-> Qualification, limit |-> Limit, sortDir |-> sortDir,
                   sortField |-> IF sortInfo /\ PathKey # "score" THEN PathKey ELSE "none" ]),
               declared |-> DeclaresPathKey,
               parallel |-> /\ ~DeclaresPathKey
                            /\ SetParallel(Limit, IsStringAgg \/ sortDir \in {"asc", "desc"}),
               force    |-> ConstProjections \/ IsTopN ]
  /\ phase' = "path"
  /\ UNCHANGED <<case, node, scanVars>>

\* callback() returns None, or custom scans are switched off, or PostgreSQL
\* prefers another path, which is possible if the hook has left it any.
UseOtherPath ==
  /\ \/ phase = "planning"
     \/ phase = "path" /\ ~plan.parallel /\ ~plan.force
  /\ phase' = "other"
  /\ UNCHANGED <<case, plan, node, scanVars>>

-----------------------------------------------------------------------------
(* create_custom_scan_state                                                *)

ExecMethod(pd) ==
  CASE pd.limit > 0 /\ pd.sortDir # "unset" -> "topn"
    [] StringField(pd.limit, HasFastFields) -> "string"
    [] HasFastFields /\ Target # {} /\ Target \cap {"str", "str2"} = {} -> "numeric"
    [] OTHER -> "normal"

\* The plan is executed: under a Gather, or (the copy of a parallel path that
\* the hook adds as well) in this process alone.
CreateCustomScanState ==
  LET pd    == Deserialize(plan.private)
      query == QualToQuery(pd.quals)
  IN
  /\ phase = "path"
  /\ \E parallel \in {plan.parallel, FALSE} :
       node' = [ query      |-> query,
                 limit      |-> pd.limit,
                 sortField  |-> pd.sortField,
                 sortDir    |-> pd.sortDir,
                 needScores |-> "score" \in Target \/ ContainsMoreLikeThis(query),
                 method     |-> ExecMethod(pd),
                 parallel   |-> parallel ]
  /\ phase' = "created"
  /\ UNCHANGED <<case, plan, scanVars>>

-----------------------------------------------------------------------------
(* SearchIndexReader                                                       *)

\* A document is addressed by its segment and its place in it.
AddressesOf(s) == [i \in DOMAIN case.segs[s] |-> <<s, i>>]

RowAt(a) == case.segs[a[1]][a[2]]

\* SearchIndexReader::query, for every row of the segments the reader has:
\* each search builds it anew, from what stays the same all the time.
QueryOf(query) == [r \in Row |-> IntoTantivyQuery(query, case.doc[r], FALSE)]

Alive(r) == r \notin case.vacuumed

\* What a scorer finds in a segment, in the order of the documents
Scorer(found, s) == SelectSeq(AddressesOf(s), LAMBDA a : found[RowAt(a)].match /\ Alive(RowAt(a)))

Matching(s) == Scorer(node.found, s)

\* enum SearchResults: iterators, and the segment whose ctid column is cached;
\* the top N variants keep one column per segment instead.
Iterators(iters) == [iters |-> iters, column |-> 0, perSegment |-> FALSE]
DocList(list)    == [iters |-> <<list>>, column |-> 0, perSegment |-> TRUE]
NoResults        == [iters |-> <<>>, column |-> 0, perSegment |-> FALSE]

\* Mutant of Before: the direction is ignored.
BeforeAscending(field, dir, a, b) == case[field][RowAt(a)] < case[field][RowAt(b)]

\* tantivy's order: of a number, a score, or the bytes of a string
Before(field, dir, a, b) ==
  IF dir = "desc" THEN case[field][RowAt(a)] > case[field][RowAt(b)]
                  ELSE case[field][RowAt(a)] < case[field][RowAt(b)]

\* TopDocs::with_limit(n), of tantivy: the first n of the documents in the
\* order of a field or of the score, ties in any order.
TopDocs(docs, field, dir, n) ==
  LET size == IF Cardinality(docs) < n THEN Cardinality(docs) ELSE n
  IN  {list \in [1..size -> docs] :
         /\ IsInjective(list)
         /\ \A i, j \in 1..size : i < j => ~Before(field, dir, list[j], list[i])
         /\ \A a \in docs \ ToSet(list), i \in 1..size : ~Before(field, dir, a, list[i])}

MatchingIn(segs) == UNION {ToSet(Matching(s)) : s \in segs}

\* TermOrdCollector: it has no term for a NULL, and forgets its document.
StringDocs(segs) == {a \in MatchingIn(segs) : case.str[RowAt(a)] # 0}

\* Mutant of StringAgg: the segments one after the other.
StringAggUnmerged(segs) ==
  {DocList(FlattenSeq([s \in DOMAIN case.segs |-> IF s \in segs THEN Matching(s) ELSE <<>>]))}

\* string_agg, string_agg_by_segment: in the order of the strings' bytes
StringAgg(segs) ==
  {DocList(list) : list \in
     TopDocs(StringDocs(segs), "str", "asc", Cardinality(StringDocs(segs)))}

\* search, search_segment: an iterator for every segment
Search(segs) ==
  Iterators([k \in 1..Cardinality(segs) |-> Matching(SetToSortSeq(segs, <)[k])])

\* The first documents by a field or by the score, in all segments or in one
TopBy(segs, field) ==
  {DocList(list) : list \in TopDocs(MatchingIn(segs), field, node.sortDir, node.limit)}

TopByField(segs) == TopBy(segs, node.sortField)

TopByScore(segs) == IF node.sortDir = "none" THEN {Search(segs)} ELSE TopBy(segs, "score")

\* search_top_n, search_top_n_in_segment
SearchTopN(segs) ==
  IF node.sortField # "none" THEN TopByField(segs) ELSE TopByScore(segs)

\* The search of each method's query(), in all segments or in the claimed one
SearchResults(segs) ==
  CASE node.method = "string" -> StringAgg(segs)
    [] node.method = "topn"   -> SearchTopN(segs)
    [] OTHER                  -> {Search(segs)}

\* search_top_n_in_segment cannot do both.
Asserts == node.parallel /\ node.method = "topn" /\ node.sortField # "none" /\ node.needScores

-----------------------------------------------------------------------------
(* exec_custom_scan                                                        *)

\* The iterators that still have something.
Left(res) == {k \in DOMAIN res.iters : res.iters[k] # <<>>}

\* Mutant of PopIterators: fftype is not cleared.
PopKeepingColumn(res) == [res EXCEPT !.iters = SubSeq(@, 1, Max(Left(res)))]

\* AllSegments: the last iterator is popped when it is empty, and the
\* column of its segment forgotten.
PopIterators(res) ==
  [res EXCEPT !.iters  = SubSeq(@, 1, Max(Left(res))),
              !.column = IF Max(Left(res)) < Len(res.iters) THEN 0 ELSE @]

\* SearchResults::next of results that are not at their end; row 0 stands for
\* "ctid should be present".
NextDoc(res) ==
  LET top == PopIterators(res)
      n   == Len(top.iters)
      a   == Head(top.iters[n])
      col == IF top.perSegment \/ top.column = 0 THEN a[1] ELSE top.column
  IN  [ row  |-> IF a[2] \in DOMAIN case.segs[col] THEN case.segs[col][a[2]] ELSE 0,
        rest |-> [top EXCEPT !.iters[n] = Tail(@), !.column = col] ]

\* The methods of nodes that are not the custom scan's
OtherMethods == {"index", "bitmap", "seq"}

UsesVisibilityMap ==
  node.method \in {"string", "numeric"} \/ (node.method = "normal" /\ Target = {})

\* blockvis after a look at a block
BlockVisibility(known, block) ==
  IF known.block = block THEN known ELSE [block |-> block, vis |-> AllVisible(block)]

Running == IF node.parallel THEN Proc ELSE {Leader}

\* internal_next: a virtual tuple if the row's block is all-visible;
\* RequiresVisibilityCheck if not, or if the method does not look
InternalNext(known, row) ==
  LET vis == IF UsesVisibilityMap THEN BlockVisibility(known, case.block[row]) ELSE known
  IN  [virtual |-> UsesVisibilityMap /\ vis.vis, blockvis |-> vis]

\* VisibilityChecker::exec_if_visible
ExecIfVisible(row) == row \in case.visible

\* internal_next has a row; check_visibility unless it is a virtual tuple.
NextRow(p) ==
  LET next  == NextDoc(results[p])
      state == InternalNext(blockvis[p], next.row)
      found == state.virtual \/ ExecIfVisible(next.row)
  IN
  /\ phase = "running" /\ ~eof[p] /\ Left(results[p]) # {}
  /\ IF next.row = 0
     THEN phase' = "panic" /\ UNCHANGED <<results, blockvis, output>>
     ELSE /\ results' = [results EXCEPT ![p] = next.rest]
          /\ blockvis' = [blockvis EXCEPT ![p] = state.blockvis]
          /\ output' = IF found THEN [output EXCEPT ![p] = Append(@, next.row)] ELSE output
          /\ UNCHANGED phase
  /\ UNCHANGED <<case, plan, node, remaining, didQuery, eof, scan>>

\* checkout_segment, or the one query of a serial scan
CanQuery(p) == IF node.parallel THEN remaining > 0 ELSE ~didQuery[p]

\* query(), when the results are at their end
Query(p) ==
  /\ phase = "running" /\ ~eof[p] /\ Left(results[p]) = {} /\ CanQuery(p)
  /\ remaining' = IF node.parallel THEN remaining - 1 ELSE remaining
  /\ IF Asserts \/ \E r \in Row : ~node.found[r].ok
     THEN phase' = "panic" /\ UNCHANGED results
     ELSE /\ \E res \in SearchResults(IF node.parallel THEN {remaining} ELSE Segments) :
               results' = [results EXCEPT ![p] = res]
          /\ UNCHANGED phase
  /\ didQuery' = [didQuery EXCEPT ![p] = @ \/ node.method = "topn" \/ ~node.parallel]
  /\ UNCHANGED <<case, plan, node, blockvis, eof, output, scan>>

\* Mutant of EndOfResults: the top N method waits for rows to fill its LIMIT.
EndOfResultsWaiting(p) ==
  /\ phase = "running" /\ ~eof[p] /\ Left(results[p]) = {} /\ ~CanQuery(p)
  /\ node.method # "topn"
  /\ eof' = [eof EXCEPT ![p] = TRUE]
  /\ UNCHANGED <<case, phase, plan, node, remaining, results, didQuery, blockvis, output, scan>>

\* query() says there is no more.  (The top N method would ask for more rows
\* if found > limit, but found is never anything but 0.)
EndOfResults(p) ==
  /\ phase = "running" /\ ~eof[p] /\ Left(results[p]) = {} /\ ~CanQuery(p)
  /\ eof' = [eof EXCEPT ![p] = TRUE]
  /\ UNCHANGED <<case, phase, plan, node, remaining, results, didQuery, blockvis, output, scan>>

ExecCustomScan(p) ==
  p \in Running /\ node.method \notin OtherMethods /\ (NextRow(p) \/ Query(p) \/ EndOfResults(p))

\* begin_custom_scan, with rescan_custom_scan at its end, in every process;
\* initialize_dsm_custom_scan
BeginCustomScan ==
  /\ phase = "created"
  /\ phase' = "running" /\ scan' = 1
  /\ eof' = [p \in Proc |-> p \notin Running]
  /\ remaining' = Len(case.segs)
  /\ node' = node @@ [found |-> QueryOf(node.query)]
  /\ UNCHANGED <<case, plan, results, didQuery, blockvis, output>>

\* rescan_custom_scan: a new reader of the same segments; init() resets
\* neither the results nor did_query, and reinitialize_dsm_custom_scan does
\* nothing.  The workers of a parallel scan start anew.
RescanCustomScan ==
  LET Anew(f, x) == [p \in Proc |-> IF p = Leader THEN f[p] ELSE x]
  IN
  /\ phase = "running" /\ node.method \notin OtherMethods /\ scan < case.scans
  /\ scan' = scan + 1
  /\ eof' = [p \in Proc |-> p \notin Running]
  /\ output' = [p \in Proc |-> <<>>]
  /\ results' = Anew(results, NoResults)
  /\ didQuery' = Anew(didQuery, FALSE)
  /\ blockvis' = Anew(blockvis, [block |-> 0, vis |-> FALSE])
  /\ UNCHANGED <<case, phase, plan, node, remaining>>

\* end_custom_scan, when nobody wants more tuples
EndCustomScan ==
  /\ phase = "running" /\ \A p \in Proc : eof[p]
  /\ phase' = "ended"
  /\ results' = [p \in Proc |-> NoResults]
  /\ UNCHANGED <<case, plan, node, remaining, didQuery, blockvis, eof, output, scan>>

-----------------------------------------------------------------------------
(* The other paths: amrescan, amgettuple, amgetbitmap, and the function of *)
(* the operator                                                            *)

\* search_with_query_input: the key_field values of what the index finds, with
\* no regard to what the snapshot sees, are put in a hash set once
HashSet(query) ==
  {case.key[r] : r \in {x \in Row : Alive(x) /\ IntoTantivyQuery(query, case.doc[x], FALSE).match}}

\* PostgreSQL evaluates the clauses that are not index keys; take what it does
\* not ask pg_search about as true.
RECURSIVE Filter(_, _)
Filter(n, key) ==
  CASE n.node = "op"   -> n.mine => key \in HashSet(n.query)
    [] n.node = "bool" ->
         (CASE n.op = "and" -> \A i \in DOMAIN n.args : Filter(n.args[i], key)
            [] n.op = "or"  -> \E i \in DOMAIN n.args : Filter(n.args[i], key)
            [] n.op = "not" -> ~Filter(n.args[1], key))
    [] OTHER -> TRUE

\* The Boolean "must" of all the ScanKeys
RECURSIVE ScanKeysQuery(_)
ScanKeysQuery(keys) ==
  IF Len(keys) = 1 THEN keys[1].query
  ELSE Boolean(<<ScanKeysQuery(Front(keys)), Last(keys).query>>, <<>>, <<>>)

\* amrescan, with the clauses that can be keys; or the start of a sequential
\* scan, which meets every row.  It begins afresh each time.
Amrescan(kind) ==
  LET IsKey(c)  == c.node = "op" /\ kind # "seq"
      keys      == SelectSeq(case.base, IsKey)
      filters   == SelectSeq(case.base, LAMBDA c : ~IsKey(c))
      query     == IF kind = "seq" THEN All ELSE ScanKeysQuery(keys)
      found     == QueryOf(query)
      Passes(r) == \A i \in DOMAIN filters : Filter(filters[i], case.key[r])
      Fails(q)  == \E r \in Row : ~IntoTantivyQuery(q, case.doc[r], FALSE).ok
  IN
  /\ \/ phase = "other" /\ kind \in case.others
     \/ phase = "running" /\ node.method = kind /\ scan < case.scans
  /\ kind # "seq" => keys # <<>>
  /\ node' = [ query |-> query, method |-> kind, parallel |-> FALSE,
               passed |-> {r \in Row : Passes(r)} ]
  /\ IF \E q \in {query} \cup UNION {Queries(filters[i]) : i \in DOMAIN filters} : Fails(q)
     THEN phase' = "panic" /\ UNCHANGED results
     ELSE /\ phase' = "running"
          /\ results' = [results EXCEPT ![Leader] = Iterators([s \in Segments |-> Scorer(found, s)])]
  /\ scan' = scan + 1
  /\ output' = [p \in Proc |-> <<>>]
  /\ eof' = [p \in Proc |-> p # Leader]
  /\ UNCHANGED <<case, plan, remaining, didQuery, blockvis>>

\* PostgreSQL fetches the row, if the snapshot sees it, and filters it.
Fetched(r) == r \in case.visible /\ r \in node.passed

\* amgettuple, and the sequential scan's heap_getnext
Amgettuple ==
  LET next == NextDoc(results[Leader])
  IN
  /\ phase = "running" /\ node.method \in {"index", "seq"} /\ ~eof[Leader]
  /\ IF Left(results[Leader]) = {}
     THEN eof' = [eof EXCEPT ![Leader] = TRUE] /\ UNCHANGED <<results, output>>
     ELSE /\ results' = [results EXCEPT ![Leader] = next.rest]
          /\ output' = IF Fetched(next.row)
                       THEN [output EXCEPT ![Leader] = Append(@, next.row)] ELSE output
          /\ UNCHANGED eof
  /\ UNCHANGED <<case, phase, plan, node, remaining, didQuery, blockvis, scan>>

\* amgetbitmap adds everything to the bitmap; the heap's scan follows it in
\* the order of the rows.
Amgetbitmap ==
  LET rows == {RowAt(a) : a \in UNION {ToSet(results[Leader].iters[k]) : k \in DOMAIN results[Leader].iters}}
  IN
  /\ phase = "running" /\ node.method = "bitmap" /\ ~eof[Leader]
  /\ results' = [results EXCEPT ![Leader] = NoResults]
  /\ output' = [output EXCEPT ![Leader] = SetToSortSeq({r \in rows : Fetched(r)}, <)]
  /\ eof' = [eof EXCEPT ![Leader] = TRUE]
  /\ UNCHANGED <<case, phase, plan, node, remaining, didQuery, blockvis, scan>>

Fetch == Amgettuple \/ Amgetbitmap \/ \E p \in Proc : ExecCustomScan(p)

Init ==
  /\ case \in Case
  /\ phase = "planning"
  /\ plan = NoPlan /\ node = NoNode
  /\ remaining = 0
  /\ results = [p \in Proc |-> NoResults]
  /\ didQuery = [p \in Proc |-> FALSE]
  /\ blockvis = [p \in Proc |-> [block |-> 0, vis |-> FALSE]]
  /\ eof = [p \in Proc |-> TRUE]
  /\ output = [p \in Proc |-> <<>>]
  /\ scan = 0

Next ==
  \/ Callback \/ UseOtherPath \/ CreateCustomScanState
  \/ BeginCustomScan \/ RescanCustomScan \/ EndCustomScan
  \/ \E kind \in OtherMethods : Amrescan(kind)
  \/ Fetch

\* The executor asks for tuples until it has seen the end.
Spec == Init /\ [][Next]_vars /\ WF_vars(Fetch)

-----------------------------------------------------------------------------
(* Properties.                                                             *)

\* The end of a scan: no process has more.
AtEnd == phase = "running" /\ \A p \in Proc : eof[p]

\* The rows returned, and where a row is in the output.
Returned      == UNION {ToSet(output[p]) : p \in Proc}
Occurrences(r) == UNION {{<<p, i>> : i \in {j \in DOMAIN output[p] : output[p][j] = r}} : p \in Proc}

Wanted(r, clauses) ==
  \A i \in DOMAIN clauses : TRUE \in Truths(clauses[i], case.doc[r])

\* The leaves of the query.  Mixed: a conjunction_mode that reaches another
\* Parse node; Ranges: a query of ranges.
AllLeaves == UNION {Leaves(q) : q \in UNION {Queries(Clauses[i]) : i \in DOMAIN Clauses}}
Mixed     == \E q, r \in AllLeaves : q.op = "parse" /\ r.op = "parse" /\ q.conj # r.conj
Ranges    == \E q \in AllLeaves : q.op = "range"
Negated   == \E i \in DOMAIN Clauses : Negates(Clauses[i])


\* Two versions of a row are in the index, and search_with_query_input, which
\* has only their key, takes one for the other.
Outdated == \E r, o \in Row : r # o /\ case.key[r] = case.key[o] /\ Alive(o)

\* The scan is one that begins afresh: a custom scan's first, or any other.
Fresh == scan = 1 \/ node.method \in OtherMethods

\* The place of a row in the order of a path key, as PostgreSQL compares it;
\* and whether its collation is one, like "C", that compares bytes.
KeyOf(field, r) ==
  IF field = "str" /\ case.str[r] # 0 THEN case.collate[case.str[r]] ELSE case[field][r]

CollatesBytes == \A i, j \in DOMAIN case.collate : i < j => case.collate[i] < case.collate[j]

\* Every row a scan returns is one the snapshot sees and its own relation's
\* clauses ask for, and it is returned once, whichever path is taken and
\* however segments, blocks and processes come: the ctid column cached for
\* one segment is not read for the next, nor one block's visibility for
\* another.
ReturnsOnlyMatches ==
  ( /\ phase = "running" /\ Fresh /\ Returned # {} /\ ~Ranges /\ ~Mixed
    /\ node.method \in OtherMethods => ~Outdated ) =>
    \A r \in Returned :
      Cardinality(Occurrences(r)) = 1 /\ r \in case.visible /\ Wanted(r, case.base)

\* A scan that has ended has returned every visible row the clauses ask for,
\* whichever path and method runs it and however the quals got there.  Not so
\* the sorted top N, of which TopNFirst speaks; nor where NULLs of a string
\* field are in the table, a clause is negated (a filter does that right, and
\* the custom scan not), or parse modes are mixed.
ReturnsAllMatches ==
  ( /\ AtEnd /\ Fresh /\ ~Mixed /\ ~Ranges
    /\ IF node.method \in OtherMethods THEN ~Outdated ELSE ~Negated
    /\ node.method = "topn" => node.sortDir = "none"
    /\ node.method = "string" => \A r \in Row : case.str[r] # 0 )
  => \A r \in case.visible :
       Wanted(r, case.base) /\ Wanted(r, case.join) => r \in Returned

\* A query of ranges finds the rows whose range stands in the relation to the
\* one asked for, taken as sets of points.
RangesExact ==
  AtEnd /\ scan = 1 /\ Ranges =>
    Returned = {r \in case.visible : Wanted(r, case.base)}

\* A sorted top N returns enough of the best rows: one that it leaves out has
\* as many rows before it, or level with it in PostgreSQL's order of the key, as
\* the LIMIT asks for.  (If no row that the index still has is dead, the field
\* has no NULLs, and a string's collation compares bytes.)
TopNFirst ==
  LET by      == IF node.sortField = "none" THEN "score" ELSE node.sortField
      Ahead(r) == {s \in Returned :
                     IF node.sortDir = "asc" THEN KeyOf(by, s) <= KeyOf(by, r)
                                             ELSE KeyOf(by, s) >= KeyOf(by, r)}
  IN
  ( /\ AtEnd /\ scan = 1 /\ node.method = "topn" /\ node.sortDir # "none"
    /\ Row = case.visible \cup case.vacuumed
    /\ \A r \in Row : case[by][r] # 0
    /\ by = "str" => CollatesBytes )
  => \A r \in case.visible :
       Wanted(r, case.base) /\ r \notin Returned => Cardinality(Ahead(r)) >= node.limit

\* A path that declares itself sorted by a string field, ascending, returns
\* its rows in PostgreSQL's order of that path key, so that PostgreSQL may do
\* without a sort; but only where the column's collation compares bytes, which
\* pullup_orderby_pathkey does not ask.
DeclaredOrder ==
  ( /\ phase = "running" /\ scan = 1 /\ plan.declared /\ case.order = "str" /\ case.dir = "asc"
    /\ CollatesBytes )
    => LET out == output[Leader]
       IN  \A i, j \in DOMAIN out : i < j => KeyOf("str", out[i]) <= KeyOf("str", out[j])

\* The assertion of search_top_n_in_segment, and the expect()s of the ctid
\* lookup and of the query's construction, hold for every plan the planner
\* makes of a query whose fields exist.  (more_like_this asks for scores
\* behind the planner's back, and a term_set does not find a JSON path.)
NeverPanics ==
  phase = "panic" =>
    \E q \in AllLeaves :
      \/ q.op = "more_like_this"
      \/ q.op = "term_set" /\ \E i \in DOMAIN q.terms : q.terms[i].path # ""

\* What a rescan must be: the same scan again.
RescanReturnsAll ==
  AtEnd /\ node.method = "normal" /\ ~Mixed /\ ~Negated
    => \A r \in case.visible : Wanted(r, case.base) => r \in Returned

\* Every scan that is not restarted comes to its end.
ScanEnds == []<>(phase = "running" => \A p \in Proc : eof[p])
=============================================================================
