------------------------------- MODULE Quals -------------------------------
(***************************************************************************)
(* What the planner makes of a query's restriction clauses                 *)
(* (pdbscan/qual_inspect.rs): extract_quals turns a clause tree into a     *)
(* Qual, or gives up; the Qual travels to the executor as a list of nodes  *)
(* in the plan's private data, and is made a SearchQueryInput there.       *)
(*                                                                         *)
(* A clause is a node of PostgreSQL's parse tree.  Of an operator only     *)
(* this counts: it is @@@ with a constant on this relation ("mine"), on    *)
(* another one ("other"), or anything else ("unknown").                    *)
(***************************************************************************)
EXTENDS SearchQuery

\* T_List, T_RestrictInfo, T_BoolExpr, T_OpExpr, and all other nodes
ClauseList(items)  == [node |-> "list", items |-> items]
RestrictInfo(c)    == [node |-> "restrict", clause |-> c]
BoolExpr(op, args) == [node |-> "bool", op |-> op, args |-> args]
OtherMatch         == [node |-> "op", mine |-> FALSE]
UnknownClause      == [node |-> "unknown"]

\* The support function of @@@ replaces the operator by the one for a
\* SearchQueryInput, and wraps the query for the function behind it.
MyMatch(query) == [node |-> "op", mine |-> TRUE, query |-> Wrapped("with_index", query)]

\* @@@ with a text is a query string.
TextMatch(words) == MyMatch(Parse(words, FALSE))

\* enum Qual, and None
NoQual        == [kind |-> "none"]
Ignore        == [kind |-> "ignore"]
OpQual(query) == [kind |-> "op", query |-> query]
AndQual(qs)   == [kind |-> "and", quals |-> qs]
OrQual(qs)    == [kind |-> "or", quals |-> qs]
NotQual(q)    == [kind |-> "not", quals |-> <<q>>]

\* opexpr()
OpExpr(n) == IF n.mine THEN OpQual(n.query) ELSE Ignore

RECURSIVE ExtractQuals(_)
ExtractQuals(n) ==
  LET List(items) == [i \in DOMAIN items |-> ExtractQuals(items[i])]
      Failed(qs)  == \E i \in DOMAIN qs : qs[i].kind = "none"
  IN
  CASE n.node = "list" ->
         LET qs == List(n.items)
         IN  IF Failed(qs) THEN NoQual ELSE IF Len(qs) = 1 THEN qs[1] ELSE AndQual(qs)
    [] n.node = "restrict" -> ExtractQuals(n.clause)
    [] n.node = "op"       -> OpExpr(n)
    [] n.node = "bool"     ->
         LET qs == List(n.args)
         IN  (CASE Failed(qs)    -> NoQual
                [] n.op = "and"  -> AndQual(qs)
                [] n.op = "or"   -> OrQual(qs)
                [] n.op = "not"  -> NotQual(qs[Len(qs)]))
    [] OTHER -> NoQual

-----------------------------------------------------------------------------
(* The private data.                                                       *)

Str(s)  == [tag |-> "string", val |-> s]
IntNode(i)  == [tag |-> "integer", val |-> i]
Node(v) == [tag |-> "node", val |-> v]

\* impl From<Qual> for PgList
RECURSIVE ToList(_)
ToList(q) ==
  LET Children_ == [i \in DOMAIN q.quals |-> Node(ToList(q.quals[i]))]
  IN
  CASE q.kind = "ignore" -> <<Str("IGNORE")>>
    [] q.kind = "op"     -> <<Str("OPERATOR_EXPRESSION"), Node("var"), IntNode("opno"), Node(q.query)>>
    [] q.kind = "and"    -> <<Str("AND"), IntNode(Len(q.quals))>> \o Children_
    [] q.kind = "or"     -> <<Str("OR"), IntNode(Len(q.quals))>> \o Children_
    [] q.kind = "not"    -> <<Str("NOT")>> \o Children_

\* Mutant of QualItems: the loop starts one too late.
QualItemsLate(list) == SubSeq(list, 4, Len(list))

\* The loop over 2..value.len(); the length in front is not looked at.
QualItems(list) == SubSeq(list, 3, Len(list))

\* impl From<PgList> for Qual
RECURSIVE FromList(_)
FromList(list) ==
  LET From(items) == [i \in DOMAIN items |-> FromList(items[i].val)]
  IN
  CASE list[1].val = "IGNORE"              -> Ignore
    [] list[1].val = "OPERATOR_EXPRESSION" -> OpQual(list[4].val)
    [] list[1].val = "AND"                 -> AndQual(From(QualItems(list)))
    [] list[1].val = "OR"                  -> OrQual(From(QualItems(list)))
    [] list[1].val = "NOT"                 -> NotQual(FromList(list[2].val))

\* impl From<&Qual> for SearchQueryInput
RECURSIVE QualToQuery(_)
QualToQuery(q) ==
  LET Subqueries == [i \in DOMAIN q.quals |-> QualToQuery(q.quals[i])]
  IN
  CASE q.kind = "ignore" -> All
    [] q.kind = "op"     -> q.query
    [] q.kind = "and"    ->
         IF Len(q.quals) = 1 THEN Subqueries[1] ELSE Boolean(Subqueries, <<>>, <<>>)
    [] q.kind = "or"     ->
         IF Len(q.quals) = 1 THEN Subqueries[1] ELSE Boolean(<<>>, Subqueries, <<>>)
    [] q.kind = "not"    -> Boolean(<<>>, <<>>, Subqueries)

-----------------------------------------------------------------------------
(* What a clause asks for, for reference: the truth values it may have for *)
(* a document, whatever the other relation's row is.                       *)

RECURSIVE Truths(_, _)
Truths(n, doc) ==
  LET All_(items)  == {b \in BOOLEAN :
                         IF b THEN \A i \in DOMAIN items : TRUE \in Truths(items[i], doc)
                              ELSE \E i \in DOMAIN items : FALSE \in Truths(items[i], doc)}
      Some_(items) == {b \in BOOLEAN :
                         IF b THEN \E i \in DOMAIN items : TRUE \in Truths(items[i], doc)
                              ELSE \A i \in DOMAIN items : FALSE \in Truths(items[i], doc)}
  IN
  CASE n.node = "list"     -> All_(n.items)
    [] n.node = "restrict" -> Truths(n.clause, doc)
    [] n.node = "op"       -> IF n.mine THEN {Means(n.query, doc)} ELSE BOOLEAN
    [] n.node = "bool"     ->
         (CASE n.op = "and" -> All_(n.args)
            [] n.op = "or"  -> Some_(n.args)
            [] n.op = "not" -> {~b : b \in Truths(n.args[1], doc)})
    [] OTHER -> BOOLEAN

\* The queries of a clause, and whether it negates any.
RECURSIVE Queries(_)
Queries(n) ==
  CASE n.node = "list"     -> UNION {Queries(n.items[i]) : i \in DOMAIN n.items}
    [] n.node = "restrict" -> Queries(n.clause)
    [] n.node = "op"       -> IF n.mine THEN {n.query} ELSE {}
    [] n.node = "bool"     -> UNION {Queries(n.args[i]) : i \in DOMAIN n.args}
    [] OTHER -> {}

RECURSIVE Negates(_)
Negates(n) ==
  CASE n.node = "list"     -> \E i \in DOMAIN n.items : Negates(n.items[i])
    [] n.node = "restrict" -> Negates(n.clause)
    [] n.node = "bool"     -> n.op = "not" \/ \E i \in DOMAIN n.args : Negates(n.args[i])
    [] OTHER -> FALSE
=============================================================================
