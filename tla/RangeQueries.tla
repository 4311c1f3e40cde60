---------------------------- MODULE RangeQueries ----------------------------
(***************************************************************************)
(* Range columns: how a PostgreSQL range is indexed (from_range in         *)
(* postgres/range.rs, TantivyRange), how the bounds of a query are made    *)
(* canonical (check_range_bounds), and the Boolean queries that            *)
(* into_tantivy_query builds for Range, RangeContains, RangeIntersects,    *)
(* RangeWithin and RangeTerm (query/mod.rs).                               *)
(*                                                                         *)
(* The values that bounds may have are even numbers, so that there is a    *)
(* point between two neighbours: a "continuous" type (numeric, timestamp)  *)
(* has those points too, a "discrete" one (integer, date) has only the     *)
(* even ones.  One operator stands for each query: a document matches it   *)
(* or does not, Occur::Must is a conjunct, Occur::Should a disjunct.       *)
(***************************************************************************)
EXTENDS Integers

CONSTANT MaxValue   \* bounds lie in 0..2 * MaxValue

ASSUME RangeAssumption == MaxValue \in Nat \ {0}

RangeType == {"discrete", "continuous"}
Value     == {2 * n : n \in 0..MaxValue}

\* std::ops::Bound
Included(v) == [kind |-> "included", at |-> v]
Excluded(v) == [kind |-> "excluded", at |-> v]
Unbounded   == [kind |-> "unbounded", at |-> 0]

Bound == {Included(v) : v \in Value} \cup {Excluded(v) : v \in Value} \cup {Unbounded}

\* The values a column of the type can have; the ones outside of
\* 0..2 * MaxValue stand for everything beyond the bounds.
Point(type) ==
  {p \in -2 .. 2 * MaxValue + 4 : type = "continuous" \/ p % 2 = 0}

AboveLower(p, lower) ==
  CASE lower.kind = "included" -> p >= lower.at
    [] lower.kind = "excluded" -> p > lower.at
    [] OTHER -> TRUE

BelowUpper(p, upper) ==
  CASE upper.kind = "included" -> p <= upper.at
    [] upper.kind = "excluded" -> p < upper.at
    [] OTHER -> TRUE

\* What a range is: a set of points.
PointsOf(type, lower, upper) ==
  {p \in Point(type) : AboveLower(p, lower) /\ BelowUpper(p, upper)}

-----------------------------------------------------------------------------
(* What is indexed.                                                        *)

\* A column that is NULL has no term at all.
NullRange == [exists |-> FALSE, empty |-> FALSE,
              lower |-> Unbounded, upper |-> Unbounded]

\* TantivyRangeBuilder::new().empty(true).build()
EmptyRange == [exists |-> TRUE, empty |-> TRUE,
               lower |-> Unbounded, upper |-> Unbounded]

\* A range with points.  The record keeps the two pgrx bounds; the seven
\* terms of TantivyRange are read from it below.
FromRange(lower, upper) ==
  [exists |-> TRUE, empty |-> FALSE, lower |-> lower, upper |-> upper]

\* PostgreSQL stores the ranges of a discrete type as [l, u).
StoredRange(type) ==
  {NullRange, EmptyRange} \cup
  {FromRange(b[1], b[2]) : b \in
     {c \in Bound \X Bound :
        /\ PointsOf(type, c[1], c[2]) # {}
        /\ type = "discrete" => c[1].kind # "excluded" /\ c[2].kind # "included"}}

\* The points of a stored range, for reference.
StoredPoints(type, d) ==
  IF ~d.exists \/ d.empty THEN {} ELSE PointsOf(type, d.lower, d.upper)

\* The terms.  An empty range has lower_inclusive (the builder's default)
\* and neither a bound nor an unbounded end.
HasRange(d)                == d.exists /\ ~d.empty
LowerBoundInclusive(d, b)  == d.exists /\ b = (d.empty \/ d.lower.kind = "included")
UpperBoundInclusive(d, b)  == d.exists /\ b = (~d.empty /\ d.upper.kind = "included")
LowerBoundUnbounded(d)     == HasRange(d) /\ d.lower.kind = "unbounded"
UpperBoundUnbounded(d)     == HasRange(d) /\ d.upper.kind = "unbounded"

Compare(value, op, stored) ==
  CASE op = "<"  -> value < stored
    [] op = "<=" -> value <= stored
    [] op = ">"  -> value > stored
    [] op = ">=" -> value >= stored

\* RangeField::compare_lower_bound: the query's value against the stored
\* bound; a document without the bound does not match.
CompareLowerBound(d, value, op) ==
  HasRange(d) /\ d.lower.kind # "unbounded" /\ Compare(value, op, d.lower.at)

CompareUpperBound(d, value, op) ==
  HasRange(d) /\ d.upper.kind # "unbounded" /\ Compare(value, op, d.upper.at)

-----------------------------------------------------------------------------
(* The bounds of a query.                                                  *)

\* Mutant of CanonicalLower: the excluded bound loses its + 1.
LowerWithoutSuccessor(type, lower) ==
  IF type = "discrete" /\ lower.kind = "excluded" THEN Included(lower.at) ELSE lower

\* check_range_bounds: an integer or a date becomes [l, u); the successor of
\* a value is two further on.
CanonicalLower(type, lower) ==
  IF type = "discrete" /\ lower.kind = "excluded" THEN Included(lower.at + 2) ELSE lower

CanonicalUpper(type, upper) ==
  IF type = "discrete" /\ upper.kind = "included" THEN Excluded(upper.at + 2) ELSE upper

\* is_empty, in RangeIntersects and RangeWithin
IsEmpty(lower, upper) ==
  lower.kind = "included" /\ upper.kind = "excluded" /\ lower.at = upper.at

\* The bounds the range functions of the SQL interface can pass, and the
\* ones written in JSON that are not upside down.  PostgreSQL itself turns
\* (x, x), (x, x] and ranges with l > u into the empty range or an error,
\* and the empty range becomes [0, 0).
WellFormed(lower, upper) ==
  \/ lower.kind = "unbounded" \/ upper.kind = "unbounded"
  \/ lower.at < upper.at
  \/ lower.at = upper.at /\ lower.kind = "included"

QueryBounds == {b \in Bound \X Bound : WellFormed(b[1], b[2])}

-----------------------------------------------------------------------------
(* The queries.                                                            *)

\* Self::Range, of a column with a plain value
RangeQuery(type, lower, upper, p) ==
  AboveLower(p, CanonicalLower(type, lower)) /\ BelowUpper(p, CanonicalUpper(type, upper))

RangeContains(type, lower, upper, d) ==
  LET lo == CanonicalLower(type, lower)
      hi == CanonicalUpper(type, upper)
  IN
  /\ \/ d.empty
     \/ CASE lo.kind = "included" -> CompareLowerBound(d, lo.at, "<=")
          [] lo.kind = "excluded" ->
               \/ CompareLowerBound(d, lo.at, "<")  /\ LowerBoundInclusive(d, TRUE)
               \/ CompareLowerBound(d, lo.at, "<=") /\ LowerBoundInclusive(d, FALSE)
          [] OTHER -> d.exists
  /\ \/ d.empty
     \/ CASE hi.kind = "included" -> CompareUpperBound(d, hi.at, ">=")
          [] hi.kind = "excluded" ->
               \/ CompareUpperBound(d, hi.at, ">")  /\ UpperBoundInclusive(d, TRUE)
               \/ CompareUpperBound(d, hi.at, ">=") /\ UpperBoundInclusive(d, FALSE)
          [] OTHER -> d.exists

RangeIntersects(type, lower, upper, d) ==
  LET lo == CanonicalLower(type, lower)
      hi == CanonicalUpper(type, upper)
  IN
  /\ ~IsEmpty(lo, hi)
  /\ \/ UpperBoundUnbounded(d)
     \/ CASE lo.kind = "excluded" -> CompareUpperBound(d, lo.at, "<")
          [] lo.kind = "included" ->
               \/ CompareUpperBound(d, lo.at, "<=") /\ UpperBoundInclusive(d, TRUE)
               \/ CompareUpperBound(d, lo.at, "<")  /\ UpperBoundInclusive(d, FALSE)
          [] OTHER -> d.exists
  /\ \/ LowerBoundUnbounded(d)
     \/ CASE hi.kind = "excluded" -> CompareLowerBound(d, hi.at, ">")
          [] hi.kind = "included" ->
               \/ CompareLowerBound(d, hi.at, ">=") /\ LowerBoundInclusive(d, TRUE)
               \/ CompareLowerBound(d, hi.at, ">")  /\ LowerBoundInclusive(d, FALSE)
          [] OTHER -> d.exists
  /\ HasRange(d)

\* An unbounded end of the query leaves an empty Boolean query, which
\* matches nothing: only a stored range unbounded at that end matches.
RangeWithin(type, lower, upper, d) ==
  LET lo == CanonicalLower(type, lower)
      hi == CanonicalUpper(type, upper)
  IN
  IF IsEmpty(lo, hi) THEN d.exists
  ELSE
  /\ \/ LowerBoundUnbounded(d)
     \/ CASE lo.kind = "excluded" -> CompareLowerBound(d, lo.at, ">=")
          [] lo.kind = "included" ->
               \/ CompareLowerBound(d, lo.at, ">")  /\ LowerBoundInclusive(d, FALSE)
               \/ CompareLowerBound(d, lo.at, ">=") /\ LowerBoundInclusive(d, TRUE)
          [] OTHER -> FALSE
  /\ \/ UpperBoundUnbounded(d)
     \/ CASE hi.kind = "excluded" -> CompareUpperBound(d, hi.at, "<=")
          [] hi.kind = "included" ->
               \/ CompareUpperBound(d, hi.at, "<")  /\ UpperBoundInclusive(d, FALSE)
               \/ CompareUpperBound(d, hi.at, "<=") /\ UpperBoundInclusive(d, TRUE)
          [] OTHER -> FALSE

RangeTerm(value, d) ==
  /\ \/ LowerBoundUnbounded(d)
     \/ LowerBoundInclusive(d, TRUE)  /\ CompareLowerBound(d, value, ">=")
     \/ LowerBoundInclusive(d, FALSE) /\ CompareLowerBound(d, value, ">")
  /\ \/ UpperBoundUnbounded(d)
     \/ UpperBoundInclusive(d, TRUE)  /\ CompareUpperBound(d, value, "<=")
     \/ UpperBoundInclusive(d, FALSE) /\ CompareUpperBound(d, value, "<")

\* Queries of one relation between ranges, or of a value in a range
RangeLeaf(q, doc) ==
  CASE q.rel = "contains"   -> RangeContains(q.type, q.lower, q.upper, doc.range)
    [] q.rel = "intersects" -> RangeIntersects(q.type, q.lower, q.upper, doc.range)
    [] q.rel = "within"     -> RangeWithin(q.type, q.lower, q.upper, doc.range)
    [] q.rel = "term"       -> RangeTerm(q.lower.at, doc.range)
    [] q.rel = "value"      -> \E p \in doc.value : RangeQuery(q.type, q.lower, q.upper, p)

\* What they ask for, for reference.
RangeMeans(q, doc) ==
  LET asked  == PointsOf(q.type, q.lower, q.upper)
      stored == StoredPoints(q.type, doc.range)
  IN  CASE q.rel = "contains"   -> doc.range.exists /\ stored \subseteq asked
        [] q.rel = "intersects" -> stored \cap asked # {}
        [] q.rel = "within"     -> doc.range.exists /\ asked \subseteq stored
        [] q.rel = "term"       -> q.lower.at \in stored
        [] q.rel = "value"      -> doc.value \cap asked # {}
=============================================================================
