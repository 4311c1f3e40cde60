---------------------------- MODULE MCSearchScan ----------------------------
(***************************************************************************)
(* The cases of the SearchScan runs: three families, each of which varies  *)
(* one side and keeps the other simple.                                    *)
(***************************************************************************)
EXTENDS SearchScan

Doc(terms, range, value) == [terms |-> terms, range |-> range, value |-> value]
Words(ws) == Doc({<<"text", "", w>> : w \in ws} \cup {<<"json", "path", w>> : w \in ws},
                 NullRange, {})

Plain ==
  [ base |-> <<>>, join |-> <<>>, select |-> {"heap"}, order |-> "none", dir |-> "asc",
    keys |-> 1, limit |-> 0, single |-> TRUE, parallel |-> FALSE, cardinal |-> FALSE,
    scans |-> 1, others |-> {} ]

\* The collation "C", and one that has the two strings the other way round.
ByBytes  == <<1, 2>>
Reversed == <<2, 1>>

\* Many rows in one segment, all alive.
Flat(docs) ==
  LET n == Len(docs)
  IN  [ segs |-> <<[i \in 1..n |-> i]>>, doc |-> docs, block |-> [i \in 1..n |-> 1],
        key |-> [i \in 1..n |-> i], visible |-> 1..n, vacuumed |-> {},
        str |-> [i \in 1..n |-> 1], collate |-> ByBytes,
        num |-> [i \in 1..n |-> 1], score |-> [i \in 1..n |-> 1] ]

-----------------------------------------------------------------------------
(* Clauses: every clause of depth two over these leaves, on a table with   *)
(* one row for each set of words.                                          *)

a == Term("text", "", "a")
b == Term("text", "", "b")

LeafQuery ==
  { a, Term("json", "path", "b"), Parse({"a", "b"}, TRUE), Parse({"a", "b"}, FALSE),
    Boolean(<<a>>, <<>>, <<b>>), Wrapped("boost", DisjunctionMax(<<a, b>>)),
    TermSet(<<a, b>>), MoreLikeThis({"a"}) }

OddQuery ==
  { Empty, All, Boolean(<<>>, <<a, b>>, <<>>), Boolean(<<a>>, <<b>>, <<>>), Boolean(<<>>, <<>>, <<>>),
    TermSet(<<Term("json", "path", "a")>>), Wrapped("with_index", Boolean(<<>>, <<a>>, <<b>>)),
    RegexPhrase("text", "", "a"), Regex("text", "", "b"), TermAnywhere("a"), FuzzyTerm("json", "path", "a"),
    FuzzyPhrase("text", "", <<"a", "b">>, TRUE), FuzzyPhrase("text", "", <<"a", "b">>, FALSE),
    FuzzyPhrase("text", "", <<>>, TRUE), Phrase("json", "path", <<"a", "b">>),
    PhrasePrefix("text", "", <<"a", "b">>), Exists("text"),
    Boolean(<<Wrapped("const_score", a)>>, <<Parse({"a", "b"}, FALSE)>>, <<>>) }

LeafClause == {MyMatch(q) : q \in LeafQuery}

Combined(args) == {BoolExpr(op, <<args[1], args[2]>>) : op \in {"and", "or"}}

Clause ==
  LeafClause \cup {MyMatch(q) : q \in OddQuery} \cup {TextMatch({"a"}), UnknownClause}
  \cup {BoolExpr("not", <<c>>) : c \in LeafClause}
  \cup UNION {Combined(c) : c \in LeafClause \X LeafClause}

Nested ==
  {BoolExpr(op, <<MyMatch(a), c>>) : op \in {"and", "or"},
     c \in Combined(<<MyMatch(a), MyMatch(b)>>) \cup {BoolExpr("not", <<MyMatch(b)>>), UnknownClause}}

JoinClause ==
  {OtherMatch, BoolExpr("not", <<OtherMatch>>)}
  \cup UNION {Combined(<<c, OtherMatch>>) : c \in LeafClause}

ClauseCase ==
  LET table == [Flat(<<Words({}), Words({"a"}), Words({"b"}), Words({"a", "b"})>>) @@ Plain
                  EXCEPT !.others = {"index", "bitmap", "seq"}]
  IN  {[table EXCEPT !.base = cs] :
         cs \in {<<c>> : c \in Clause \cup Nested} \cup (LeafClause \X LeafClause)}
      \cup {[table EXCEPT !.join = <<c>>, !.single = FALSE, !.limit = 1] : c \in JoinClause}
      \cup {[table EXCEPT !.base = <<MyMatch(a)>>, !.join = <<c>>, !.single = FALSE] : c \in JoinClause}
      \cup {[table EXCEPT !.base = <<c>>, !.key = <<1, 2, 3, 3>>, !.visible = 1..3] : c \in Nested}
      \cup {table}

-----------------------------------------------------------------------------
(* Shapes: three rows in two segments and two blocks, of which one may be  *)
(* dead or vacuumed, under every target list, ORDER BY and LIMIT.          *)

Strings == {<<2, 1, 1>>, <<1, 2, 1>>, <<0, 2, 1>>}

ShapeTable ==
  { [ segs |-> <<<<1, 2>>, <<3>>>>, doc |-> <<Words({"a"}), Words({"a"}), Words({"a"})>>,
      block |-> <<1, 2, 1>>, key |-> <<1, 2, 3>>, visible |-> 1..3 \ (lost[1] \cup lost[2]), vacuumed |-> lost[2],
      str |-> str, collate |-> collate, num |-> <<1, 2, 1>>, score |-> <<2, 1, 2>> ] :
    str \in Strings, collate \in {ByBytes, Reversed},
    lost \in {<<{}, {}>>, <<{2}, {}>>, <<{3}, {}>>, <<{}, {1}>>} }

Selects == {{}, {"heap"}, {"num"}, {"str"}, {"str", "str2"}, {"num", "score"}, {"snippet"}}

ShapeQuery ==
  { q \in [ base : {<<MyMatch(a)>>, <<MyMatch(MoreLikeThis({"a"}))>>}, join : {<<>>}, select : Selects,
            order : {"none", "other", "score", "str", "num"}, dir : {"asc", "desc"},
            keys : {1, 2}, limit : 0..2, single : {TRUE}, parallel : BOOLEAN,
            cardinal : BOOLEAN, scans : {1, 2}, others : {{}, {"index"}} ] :
      /\ q.order = "none" => q.dir = "asc" /\ q.keys = 1
      /\ q.order = "other" => q.dir = "asc" /\ q.keys = 1
      /\ q.cardinal => q.order = "str" /\ q.keys = 2 /\ q.limit = 0
      /\ q.keys = 2 => q.limit = 0
      /\ q.base # <<MyMatch(a)>> => q.select = {"heap"} /\ q.dir = "asc" /\ q.keys = 1
      /\ q.others # {} => q.select = {"num"} /\ q.order = "none" /\ q.limit = 0 /\ ~q.parallel
      /\ q.scans = 2 => q.select = {"num"} /\ q.order = "none" /\ q.limit = 0 }

\* The strings vary where they are selected or sorted by, their collation where
\* they are sorted by and no row is dead.
ShapeCase ==
  {c \in {t @@ q : t \in ShapeTable, q \in ShapeQuery} :
     /\ "str" \in c.select \cup {c.order} \/ c.str = <<1, 2, 1>>
     /\ (c.order = "str" /\ c.visible = 1..3) \/ c.collate = ByBytes}

-----------------------------------------------------------------------------
(* Ranges: every query of a range, on a table with one row for each range  *)
(* and for each value that a column of the type can have.                  *)

RangeDocs(type) ==
  FoldSet(LAMBDA d, docs : Append(docs, d), <<>>,
          {Doc({}, d, {}) : d \in StoredRange(type)}
          \cup {Doc({}, NullRange, {p}) : p \in Point(type)})

RangeTable(type) == Flat(RangeDocs(type)) @@ Plain

RangeCase ==
  { [RangeTable(type) EXCEPT !.base = <<MyMatch(RangeRelation(rel, type, q[1], q[2]))>>] :
    type \in RangeType, rel \in {"contains", "intersects", "within", "value"}, q \in QueryBounds }
  \cup
  { [RangeTable(type) EXCEPT
       !.base = <<MyMatch(RangeRelation("term", type, Included(v), Unbounded))>>] :
    type \in RangeType, v \in Value }

MCCase == ClauseCase \cup ShapeCase \cup RangeCase

\* The cases of the run that scans the node twice.
MCRescanCase ==
  {[Flat(<<Words({"a"}), Words({"a"})>>) @@ Plain EXCEPT !.base = <<MyMatch(a)>>, !.scans = 2]}
=============================================================================
