------------------------- MODULE RangeQueriesProofs -------------------------
(***************************************************************************)
(* The Boolean queries built for RangeContains, RangeIntersects,           *)
(* RangeWithin, RangeTerm and Range find exactly the ranges and the values *)
(* that stand in the relation asked for, for bounds of any size.           *)
(*                                                                         *)
(* A range is an interval of points: the lemmas find the lowest and the    *)
(* highest point of each bound and compare those.                          *)
(***************************************************************************)
EXTENDS RangeQueries, TLAPS

Even(v) == \E n \in Int : v = 2 * n

LEMMA EvenIs == \A v \in Int : v % 2 = 0 <=> Even(v)
<1> SUFFICES ASSUME NEW v \in Int PROVE v % 2 = 0 <=> Even(v)
  OBVIOUS
<1>1. ASSUME v % 2 = 0 PROVE Even(v)
  BY <1>1 DEF Even
<1>2. ASSUME NEW n \in Int, v = 2 * n PROVE v % 2 = 0
  BY <1>2
<1> QED BY <1>1, <1>2 DEF Even

LEMMA PointIs ==
  ASSUME NEW type \in RangeType
  PROVE  \A p : p \in Point(type) <=>
           /\ p \in Int /\ -2 <= p /\ p <= 2 * MaxValue + 4
           /\ type = "discrete" => Even(p)
<1>1. MaxValue \in Nat
  BY RangeAssumption
<1>2. \A p : p \in -2 .. 2 * MaxValue + 4 <=> p \in Int /\ -2 <= p /\ p <= 2 * MaxValue + 4
  BY <1>1
<1>3. type = "continuous" <=> type # "discrete"
  BY DEF RangeType
<1>4. ASSUME NEW p, p \in Int PROVE (type = "continuous" \/ p % 2 = 0) <=> (type = "discrete" => Even(p))
  BY <1>3, <1>4, EvenIs
<1> QED BY <1>2, <1>4 DEF Point

-----------------------------------------------------------------------------
(* Bounds                                                                   *)

\* A canonical bound: on a discrete type, [l, u).
IsBound(x) ==
  /\ x.kind \in {"included", "excluded", "unbounded"}
  /\ x.at \in Int /\ 0 <= x.at /\ x.at <= 2 * MaxValue + 2 /\ Even(x.at)

IsLower(type, x) == IsBound(x) /\ (type = "discrete" => x.kind # "excluded")
IsUpper(type, x) == IsBound(x) /\ (type = "discrete" => x.kind # "included")

\* The lowest point above a lower bound, the highest below an upper one.
Lowest(x) ==
  IF x.kind = "unbounded" THEN -2 ELSE IF x.kind = "included" THEN x.at ELSE x.at + 1

Highest(type, x) ==
  IF x.kind = "unbounded" THEN 2 * MaxValue + 4
  ELSE IF x.kind = "included" THEN x.at
  ELSE IF type = "discrete" THEN x.at - 2 ELSE x.at - 1

LEMMA LowestIs ==
  ASSUME NEW type \in RangeType, NEW x, IsLower(type, x)
  PROVE  /\ Lowest(x) \in Int /\ Lowest(x) \in Point(type)
         /\ \A p \in Point(type) : AboveLower(p, x) <=> Lowest(x) <= p
<1>1. PICK k, n : k = x.kind /\ n \in Int /\ x.at = 2 * n
  BY DEF IsLower, IsBound, Even
<1>2. /\ k \in {"included", "excluded", "unbounded"} /\ 0 <= 2 * n /\ 2 * n <= 2 * MaxValue + 2
      /\ type = "discrete" => k # "excluded"
      /\ MaxValue \in Nat
  BY <1>1, RangeAssumption DEF IsLower, IsBound
<1>3. Lowest(x) = IF k = "unbounded" THEN -2 ELSE IF k = "included" THEN 2 * n ELSE 2 * n + 1
  BY <1>1 DEF Lowest
<1>4. Lowest(x) \in Int /\ -2 <= Lowest(x) /\ Lowest(x) <= 2 * MaxValue + 4
  BY <1>1, <1>2, <1>3
<1>5. type = "discrete" => Even(Lowest(x))
  <2>1. -2 = 2 * (-1) /\ -1 \in Int
    OBVIOUS
  <2> QED BY <1>1, <1>2, <1>3, <2>1 DEF Even
<1>6. ASSUME NEW p \in Point(type) PROVE AboveLower(p, x) <=> Lowest(x) <= p
  <2>1. p \in Int /\ -2 <= p
    BY PointIs
  <2>2. AboveLower(p, x) <=> CASE k = "included" -> p >= 2 * n
                               [] k = "excluded" -> p > 2 * n
                               [] OTHER -> TRUE
    BY <1>1 DEF AboveLower
  <2> QED BY <1>1, <1>2, <1>3, <2>1, <2>2
<1> QED BY <1>4, <1>5, <1>6, PointIs

LEMMA HighestIs ==
  ASSUME NEW type \in RangeType, NEW x, IsUpper(type, x)
  PROVE  /\ Highest(type, x) \in Int /\ Highest(type, x) \in Point(type)
         /\ \A p \in Point(type) : BelowUpper(p, x) <=> p <= Highest(type, x)
<1>1. PICK k, n : k = x.kind /\ n \in Int /\ x.at = 2 * n
  BY DEF IsUpper, IsBound, Even
<1>2. /\ k \in {"included", "excluded", "unbounded"} /\ 0 <= 2 * n /\ 2 * n <= 2 * MaxValue + 2
      /\ type = "discrete" => k # "included"
      /\ MaxValue \in Nat
  BY <1>1, RangeAssumption DEF IsUpper, IsBound
<1>3. Highest(type, x) = IF k = "unbounded" THEN 2 * MaxValue + 4 ELSE IF k = "included" THEN 2 * n
                         ELSE IF type = "discrete" THEN 2 * n - 2 ELSE 2 * n - 1
  BY <1>1 DEF Highest
<1>4. Highest(type, x) \in Int /\ -2 <= Highest(type, x) /\ Highest(type, x) <= 2 * MaxValue + 4
  BY <1>1, <1>2, <1>3
<1>5. type = "discrete" => Even(Highest(type, x))
  <2>1. 2 * MaxValue + 4 = 2 * (MaxValue + 2) /\ MaxValue + 2 \in Int
    BY <1>2
  <2>2. 2 * n - 2 = 2 * (n - 1) /\ n - 1 \in Int
    BY <1>1
  <2> QED BY <1>1, <1>2, <1>3, <2>1, <2>2 DEF Even
<1>6. ASSUME NEW p \in Point(type) PROVE BelowUpper(p, x) <=> p <= Highest(type, x)
  <2>1. p \in Int /\ p <= 2 * MaxValue + 4 /\ (type = "discrete" => \E j \in Int : p = 2 * j)
    BY PointIs DEF Even
  <2>2. BelowUpper(p, x) <=> CASE k = "included" -> p <= 2 * n
                               [] k = "excluded" -> p < 2 * n
                               [] OTHER -> TRUE
    BY <1>1 DEF BelowUpper
  <2>3. CASE type # "discrete"
    BY <1>1, <1>2, <1>3, <2>1, <2>2, <2>3
  <2>4. CASE type = "discrete"
    <3>1. PICK j \in Int : p = 2 * j
      BY <2>1, <2>4
    <3>2. 2 * j < 2 * n <=> 2 * j <= 2 * n - 2
      BY <1>1, <3>1
    <3> QED BY <1>1, <1>2, <1>3, <2>1, <2>2, <2>4, <3>1, <3>2
  <2> QED BY <2>3, <2>4
<1> QED BY <1>4, <1>5, <1>6, PointIs

\* The bounds a query or a stored range has.
LEMMA BoundIs ==
  ASSUME NEW x \in Bound
  PROVE  IsBound(x) /\ x.at <= 2 * MaxValue /\ (x = Unbounded \/ x = [kind |-> x.kind, at |-> x.at])
<1>1. MaxValue \in Nat
  BY RangeAssumption
<1>2. ASSUME NEW v \in Value PROVE v \in Int /\ 0 <= v /\ v <= 2 * MaxValue /\ Even(v)
  <2>1. PICK n \in 0..MaxValue : v = 2 * n
    BY DEF Value
  <2>2. n \in Int /\ 0 <= n /\ n <= MaxValue
    BY <1>1, <2>1
  <2> QED BY <1>1, <2>1, <2>2 DEF Even
<1>3. Even(0)
  <2>1. 0 = 2 * 0 /\ 0 \in Int
    OBVIOUS
  <2> QED BY <2>1 DEF Even
<1>4. CASE x = Unbounded
  BY <1>1, <1>3, <1>4 DEF Unbounded, IsBound
<1>5. CASE \E v \in Value : x = Included(v)
  <2>1. PICK v \in Value : x = Included(v)
    BY <1>5
  <2>2. x.kind = "included" /\ x.at = v /\ x = [kind |-> "included", at |-> v]
    BY <2>1 DEF Included
  <2> QED BY <1>1, <1>2, <2>1, <2>2 DEF IsBound
<1>6. CASE \E v \in Value : x = Excluded(v)
  <2>1. PICK v \in Value : x = Excluded(v)
    BY <1>6
  <2>2. x.kind = "excluded" /\ x.at = v /\ x = [kind |-> "excluded", at |-> v]
    BY <2>1 DEF Excluded
  <2> QED BY <1>1, <1>2, <2>1, <2>2 DEF IsBound
<1> QED BY <1>4, <1>5, <1>6 DEF Bound

\* check_range_bounds changes no point that a query asks for.
LEMMA CanonicalLowerIs ==
  ASSUME NEW type \in RangeType, NEW b \in Bound
  PROVE  /\ IsLower(type, CanonicalLower(type, b))
         /\ \A p \in Point(type) : AboveLower(p, CanonicalLower(type, b)) <=> AboveLower(p, b)
<1>1. MaxValue \in Nat /\ IsBound(b) /\ b.at <= 2 * MaxValue
  BY BoundIs, RangeAssumption
<1>2. CASE type = "discrete" /\ b.kind = "excluded"
  <2>1. PICK n \in Int : b.at = 2 * n
    BY <1>1 DEF IsBound, Even
  <2>2. CanonicalLower(type, b) = [kind |-> "included", at |-> 2 * n + 2]
    BY <1>2, <2>1 DEF CanonicalLower, Included
  <2>3. 2 * n + 2 = 2 * (n + 1) /\ n + 1 \in Int /\ 0 <= 2 * n + 2 /\ 2 * n + 2 <= 2 * MaxValue + 2
    BY <1>1, <2>1 DEF IsBound
  <2>4. IsLower(type, CanonicalLower(type, b))
    <3>1. Even(2 * n + 2) /\ 2 * n + 2 \in Int
      BY <2>1, <2>3 DEF Even
    <3> QED BY <2>2, <2>3, <3>1 DEF IsLower, IsBound
  <2>5. ASSUME NEW p \in Point(type)
        PROVE  AboveLower(p, CanonicalLower(type, b)) <=> AboveLower(p, b)
    <3>1. PICK j \in Int : p = 2 * j
      BY <1>2, PointIs DEF Even
    <3>2. AboveLower(p, b) <=> 2 * j > 2 * n
      BY <1>2, <2>1, <3>1 DEF AboveLower
    <3>3. AboveLower(p, CanonicalLower(type, b)) <=> 2 * j >= 2 * n + 2
      BY <2>2, <3>1 DEF AboveLower
    <3>4. 2 * j > 2 * n <=> 2 * j >= 2 * n + 2
      BY <2>1, <3>1
    <3> QED BY <3>2, <3>3, <3>4
  <2> QED BY <2>4, <2>5
<1>3. CASE ~(type = "discrete" /\ b.kind = "excluded")
  BY <1>1, <1>3 DEF CanonicalLower, IsLower
<1> QED BY <1>2, <1>3

LEMMA CanonicalUpperIs ==
  ASSUME NEW type \in RangeType, NEW b \in Bound
  PROVE  /\ IsUpper(type, CanonicalUpper(type, b))
         /\ \A p \in Point(type) : BelowUpper(p, CanonicalUpper(type, b)) <=> BelowUpper(p, b)
<1>1. MaxValue \in Nat /\ IsBound(b) /\ b.at <= 2 * MaxValue
  BY BoundIs, RangeAssumption
<1>2. CASE type = "discrete" /\ b.kind = "included"
  <2>1. PICK n \in Int : b.at = 2 * n
    BY <1>1 DEF IsBound, Even
  <2>2. CanonicalUpper(type, b) = [kind |-> "excluded", at |-> 2 * n + 2]
    BY <1>2, <2>1 DEF CanonicalUpper, Excluded
  <2>3. 2 * n + 2 = 2 * (n + 1) /\ n + 1 \in Int /\ 0 <= 2 * n + 2 /\ 2 * n + 2 <= 2 * MaxValue + 2
    BY <1>1, <2>1 DEF IsBound
  <2>4. IsUpper(type, CanonicalUpper(type, b))
    <3>1. Even(2 * n + 2) /\ 2 * n + 2 \in Int
      BY <2>1, <2>3 DEF Even
    <3> QED BY <2>2, <2>3, <3>1 DEF IsUpper, IsBound
  <2>5. ASSUME NEW p \in Point(type)
        PROVE  BelowUpper(p, CanonicalUpper(type, b)) <=> BelowUpper(p, b)
    <3>1. PICK j \in Int : p = 2 * j
      BY <1>2, PointIs DEF Even
    <3>2. BelowUpper(p, b) <=> 2 * j <= 2 * n
      BY <1>2, <2>1, <3>1 DEF BelowUpper
    <3>3. BelowUpper(p, CanonicalUpper(type, b)) <=> 2 * j < 2 * n + 2
      BY <2>2, <3>1 DEF BelowUpper
    <3>4. 2 * j <= 2 * n <=> 2 * j < 2 * n + 2
      BY <2>1, <3>1
    <3> QED BY <3>2, <3>3, <3>4
  <2> QED BY <2>4, <2>5
<1>3. CASE ~(type = "discrete" /\ b.kind = "included")
  BY <1>1, <1>3 DEF CanonicalUpper, IsUpper
<1> QED BY <1>2, <1>3

\* What a query asks for is an interval of points.
LEMMA AskedIs ==
  ASSUME NEW type \in RangeType, NEW lower \in Bound, NEW upper \in Bound
  PROVE  \A p : p \in PointsOf(type, lower, upper) <=>
           /\ p \in Point(type)
           /\ Lowest(CanonicalLower(type, lower)) <= p
           /\ p <= Highest(type, CanonicalUpper(type, upper))
<1>1. PICK lo, hi : lo = CanonicalLower(type, lower) /\ hi = CanonicalUpper(type, upper)
  OBVIOUS
<1>2. /\ IsLower(type, lo) /\ IsUpper(type, hi)
      /\ \A p \in Point(type) : AboveLower(p, lo) <=> AboveLower(p, lower)
      /\ \A p \in Point(type) : BelowUpper(p, hi) <=> BelowUpper(p, upper)
  BY <1>1, CanonicalLowerIs, CanonicalUpperIs
<1>3. \A p \in Point(type) : AboveLower(p, lower) <=> Lowest(lo) <= p
  BY <1>2, LowestIs
<1>4. \A p \in Point(type) : BelowUpper(p, upper) <=> p <= Highest(type, hi)
  BY <1>2, HighestIs
<1> QED BY <1>1, <1>3, <1>4 DEF PointsOf

\* is_empty finds the queries that ask for no point at all.
LEMMA EmptyIs ==
  ASSUME NEW type \in RangeType, NEW lower \in Bound, NEW upper \in Bound, WellFormed(lower, upper)
  PROVE  IsEmpty(CanonicalLower(type, lower), CanonicalUpper(type, upper)) <=>
           Highest(type, CanonicalUpper(type, upper)) < Lowest(CanonicalLower(type, lower))
<1>1. PICK lo, hi : lo = CanonicalLower(type, lower) /\ hi = CanonicalUpper(type, upper)
  OBVIOUS
<1>2. PICK k, l : k = lower.kind /\ l = upper.kind
  OBVIOUS
<1>3. PICK m, n : m \in Int /\ n \in Int /\ lower.at = 2 * m /\ upper.at = 2 * n
  BY BoundIs DEF IsBound, Even
<1>4. /\ MaxValue \in Nat /\ k \in {"included", "excluded", "unbounded"}
      /\ l \in {"included", "excluded", "unbounded"}
      /\ 0 <= 2 * m /\ 2 * m <= 2 * MaxValue /\ 0 <= 2 * n /\ 2 * n <= 2 * MaxValue
  BY <1>2, <1>3, BoundIs, RangeAssumption DEF IsBound
<1>5. \/ k = "unbounded" \/ l = "unbounded" \/ 2 * m < 2 * n
      \/ (2 * m = 2 * n /\ k = "included")
  BY <1>2, <1>3 DEF WellFormed
<1>6. /\ lo.kind = IF type = "discrete" /\ k = "excluded" THEN "included" ELSE k
      /\ lo.at = IF type = "discrete" /\ k = "excluded" THEN 2 * m + 2 ELSE 2 * m
  BY <1>1, <1>2, <1>3 DEF CanonicalLower, Included
<1>7. /\ hi.kind = IF type = "discrete" /\ l = "included" THEN "excluded" ELSE l
      /\ hi.at = IF type = "discrete" /\ l = "included" THEN 2 * n + 2 ELSE 2 * n
  BY <1>1, <1>2, <1>3 DEF CanonicalUpper, Excluded
<1>8. CASE type = "discrete"
  <2>1. Lowest(lo) = IF k = "unbounded" THEN -2 ELSE IF k = "excluded" THEN 2 * m + 2 ELSE 2 * m
    BY <1>4, <1>6, <1>8 DEF Lowest
  <2>2. Highest(type, hi) = IF l = "unbounded" THEN 2 * MaxValue + 4
                            ELSE IF l = "included" THEN 2 * n ELSE 2 * n - 2
    BY <1>3, <1>4, <1>7, <1>8 DEF Highest
  <2>3. IsEmpty(lo, hi) <=>
          k # "unbounded" /\ l # "unbounded"
          /\ (IF k = "excluded" THEN 2 * m + 2 ELSE 2 * m) = (IF l = "included" THEN 2 * n + 2 ELSE 2 * n)
    BY <1>4, <1>6, <1>7, <1>8 DEF IsEmpty
  <2> QED BY <1>1, <1>3, <1>4, <1>5, <2>1, <2>2, <2>3
<1>9. CASE type # "discrete"
  <2>1. Lowest(lo) = IF k = "unbounded" THEN -2 ELSE IF k = "excluded" THEN 2 * m + 1 ELSE 2 * m
    BY <1>4, <1>6, <1>9 DEF Lowest
  <2>2. Highest(type, hi) = IF l = "unbounded" THEN 2 * MaxValue + 4
                            ELSE IF l = "included" THEN 2 * n ELSE 2 * n - 1
    BY <1>4, <1>7, <1>9 DEF Highest
  <2>3. IsEmpty(lo, hi) <=> k = "included" /\ l = "excluded" /\ 2 * m = 2 * n
    BY <1>6, <1>7, <1>9 DEF IsEmpty
  <2> QED BY <1>1, <1>3, <1>4, <1>5, <2>1, <2>2, <2>3
<1> QED BY <1>8, <1>9

\* A stored range is NULL, empty, or an interval that has points.
LEMMA StoredIs ==
  ASSUME NEW type \in RangeType, NEW d \in StoredRange(type)
  PROVE  \/ d = NullRange
         \/ d = EmptyRange
         \/ /\ d.exists /\ ~d.empty /\ IsLower(type, d.lower) /\ IsUpper(type, d.upper)
            /\ Lowest(d.lower) <= Highest(type, d.upper)
            /\ \A p : p \in StoredPoints(type, d) <=>
                 p \in Point(type) /\ Lowest(d.lower) <= p /\ p <= Highest(type, d.upper)
<1> SUFFICES ASSUME d # NullRange, d # EmptyRange
             PROVE  /\ d.exists /\ ~d.empty /\ IsLower(type, d.lower) /\ IsUpper(type, d.upper)
                    /\ Lowest(d.lower) <= Highest(type, d.upper)
                    /\ \A p : p \in StoredPoints(type, d) <=>
                         p \in Point(type) /\ Lowest(d.lower) <= p /\ p <= Highest(type, d.upper)
  OBVIOUS
<1>1. PICK b \in Bound \X Bound :
        /\ d = FromRange(b[1], b[2]) /\ PointsOf(type, b[1], b[2]) # {}
        /\ type = "discrete" => b[1].kind # "excluded" /\ b[2].kind # "included"
  BY DEF StoredRange
<1>2. PICK x, y : x = b[1] /\ y = b[2] /\ x \in Bound /\ y \in Bound
  BY <1>1
<1>3. d.exists = TRUE /\ d.empty = FALSE /\ d.lower = x /\ d.upper = y
  BY <1>1, <1>2 DEF FromRange
<1>4. IsLower(type, x) /\ IsUpper(type, y)
  BY <1>1, <1>2, BoundIs DEF IsLower, IsUpper
<1>5. Lowest(x) \in Int /\ \A p \in Point(type) : AboveLower(p, x) <=> Lowest(x) <= p
  BY <1>4, LowestIs
<1>6. Highest(type, y) \in Int /\ \A p \in Point(type) : BelowUpper(p, y) <=> p <= Highest(type, y)
  BY <1>4, HighestIs
<1>7. \A p : p \in PointsOf(type, x, y) <=>
             p \in Point(type) /\ Lowest(x) <= p /\ p <= Highest(type, y)
  BY <1>5, <1>6 DEF PointsOf
<1>8. PICK p : p \in PointsOf(type, x, y)
  BY <1>1, <1>2
<1>9. p \in Int /\ Lowest(x) <= p /\ p <= Highest(type, y)
  BY <1>7, <1>8, PointIs
<1>10. StoredPoints(type, d) = PointsOf(type, x, y)
  BY <1>3 DEF StoredPoints
<1>11. Lowest(x) <= Highest(type, y)
  BY <1>5, <1>6, <1>9
<1> QED BY <1>3, <1>4, <1>7, <1>10, <1>11

-----------------------------------------------------------------------------
(* Comparing bounds: how the ends of two ranges lie to each other, in terms *)
(* of the kinds and the values that the queries look at.                    *)

\* The kind and the value of a bound, as rigid terms.
LEMMA BoundParts ==
  ASSUME NEW x, IsBound(x)
  PROVE  \E k \in {"included", "excluded", "unbounded"}, n \in Int :
           /\ x.kind = k /\ x.at = 2 * n
           /\ 0 <= 2 * n /\ 2 * n <= 2 * MaxValue + 2
  BY DEF IsBound, Even

LEMMA LowersCompare ==
  ASSUME NEW type \in RangeType, NEW x, NEW y, IsLower(type, x), IsLower(type, y)
  PROVE  Lowest(x) <= Lowest(y) <=>
           \/ x.kind = "unbounded"
           \/ /\ x.kind # "unbounded" /\ y.kind # "unbounded"
              /\ \/ x.at < y.at
                 \/ x.at = y.at /\ (x.kind = "included" \/ y.kind = "excluded")
<1>1. IsBound(x) /\ IsBound(y)
  BY DEF IsLower
<1>2. PICK k \in {"included", "excluded", "unbounded"}, m \in Int :
        x.kind = k /\ x.at = 2 * m /\ 0 <= 2 * m
  BY <1>1, BoundParts
<1>3. PICK l \in {"included", "excluded", "unbounded"}, n \in Int :
        y.kind = l /\ y.at = 2 * n /\ 0 <= 2 * n
  BY <1>1, BoundParts
<1>4. Lowest(x) = IF k = "unbounded" THEN -2 ELSE IF k = "included" THEN 2 * m ELSE 2 * m + 1
  BY <1>2 DEF Lowest
<1>5. Lowest(y) = IF l = "unbounded" THEN -2 ELSE IF l = "included" THEN 2 * n ELSE 2 * n + 1
  BY <1>3 DEF Lowest
<1> QED BY <1>2, <1>3, <1>4, <1>5

LEMMA UppersCompare ==
  ASSUME NEW type \in RangeType, NEW x, NEW y, IsUpper(type, x), IsUpper(type, y)
  PROVE  Highest(type, x) <= Highest(type, y) <=>
           \/ y.kind = "unbounded"
           \/ /\ x.kind # "unbounded" /\ y.kind # "unbounded"
              /\ \/ x.at < y.at
                 \/ x.at = y.at /\ (y.kind = "included" \/ x.kind = "excluded")
<1>1. IsBound(x) /\ IsBound(y) /\ MaxValue \in Nat
  BY RangeAssumption DEF IsUpper
<1>2. PICK k \in {"included", "excluded", "unbounded"}, m \in Int :
        x.kind = k /\ x.at = 2 * m /\ 2 * m <= 2 * MaxValue + 2
  BY <1>1, BoundParts
<1>3. PICK l \in {"included", "excluded", "unbounded"}, n \in Int :
        y.kind = l /\ y.at = 2 * n /\ 2 * n <= 2 * MaxValue + 2
  BY <1>1, BoundParts
<1>4. type = "discrete" => k # "included" /\ l # "included"
  BY <1>2, <1>3 DEF IsUpper
<1>5. Highest(type, x) = IF k = "unbounded" THEN 2 * MaxValue + 4 ELSE IF k = "included" THEN 2 * m
                         ELSE IF type = "discrete" THEN 2 * m - 2 ELSE 2 * m - 1
  BY <1>2 DEF Highest
<1>6. Highest(type, y) = IF l = "unbounded" THEN 2 * MaxValue + 4 ELSE IF l = "included" THEN 2 * n
                         ELSE IF type = "discrete" THEN 2 * n - 2 ELSE 2 * n - 1
  BY <1>3 DEF Highest
<1>7. CASE type = "discrete"
  BY <1>1, <1>2, <1>3, <1>4, <1>5, <1>6, <1>7
<1>8. CASE type # "discrete"
  BY <1>1, <1>2, <1>3, <1>5, <1>6, <1>8
<1> QED BY <1>7, <1>8

LEMMA EndsCompare ==
  ASSUME NEW type \in RangeType, NEW x, NEW y, IsLower(type, x), IsUpper(type, y)
  PROVE  Lowest(x) <= Highest(type, y) <=>
           \/ x.kind = "unbounded" \/ y.kind = "unbounded"
           \/ x.at < y.at
           \/ x.at = y.at /\ x.kind = "included" /\ y.kind = "included"
<1>1. IsBound(x) /\ IsBound(y) /\ MaxValue \in Nat
  BY RangeAssumption DEF IsUpper, IsLower
<1>2. PICK k \in {"included", "excluded", "unbounded"}, m \in Int :
        x.kind = k /\ x.at = 2 * m /\ 0 <= 2 * m /\ 2 * m <= 2 * MaxValue + 2
  BY <1>1, BoundParts
<1>3. PICK l \in {"included", "excluded", "unbounded"}, n \in Int :
        y.kind = l /\ y.at = 2 * n /\ 0 <= 2 * n /\ 2 * n <= 2 * MaxValue + 2
  BY <1>1, BoundParts
<1>4. type = "discrete" => k # "excluded" /\ l # "included"
  BY <1>2, <1>3 DEF IsUpper, IsLower
<1>5. Lowest(x) = IF k = "unbounded" THEN -2 ELSE IF k = "included" THEN 2 * m ELSE 2 * m + 1
  BY <1>2 DEF Lowest
<1>6. Highest(type, y) = IF l = "unbounded" THEN 2 * MaxValue + 4 ELSE IF l = "included" THEN 2 * n
                         ELSE IF type = "discrete" THEN 2 * n - 2 ELSE 2 * n - 1
  BY <1>3 DEF Highest
<1>7. CASE type = "discrete"
  BY <1>1, <1>2, <1>3, <1>4, <1>5, <1>6, <1>7
<1>8. CASE type # "discrete"
  BY <1>1, <1>2, <1>3, <1>5, <1>6, <1>8
<1> QED BY <1>7, <1>8

-----------------------------------------------------------------------------
(* The queries, on a stored range that has points.                          *)

IsInterval(type, d) ==
  /\ d.exists /\ ~d.empty /\ IsLower(type, d.lower) /\ IsUpper(type, d.upper)
  /\ Lowest(d.lower) <= Highest(type, d.upper)
  /\ \A p : p \in StoredPoints(type, d) <=>
       p \in Point(type) /\ Lowest(d.lower) <= p /\ p <= Highest(type, d.upper)

\* The seven terms of a range that has points.
LEMMA TermsOf ==
  ASSUME NEW d, d.exists, ~d.empty
  PROVE  /\ HasRange(d)
         /\ LowerBoundInclusive(d, TRUE)  <=> d.lower.kind = "included"
         /\ LowerBoundInclusive(d, FALSE) <=> d.lower.kind # "included"
         /\ UpperBoundInclusive(d, TRUE)  <=> d.upper.kind = "included"
         /\ UpperBoundInclusive(d, FALSE) <=> d.upper.kind # "included"
         /\ LowerBoundUnbounded(d) <=> d.lower.kind = "unbounded"
         /\ UpperBoundUnbounded(d) <=> d.upper.kind = "unbounded"
  BY DEF HasRange, LowerBoundInclusive, UpperBoundInclusive, LowerBoundUnbounded, UpperBoundUnbounded

LEMMA ComparesOf ==
  ASSUME NEW d, d.exists, ~d.empty, NEW v
  PROVE  /\ CompareLowerBound(d, v, "<")  <=> d.lower.kind # "unbounded" /\ v <  d.lower.at
         /\ CompareLowerBound(d, v, "<=") <=> d.lower.kind # "unbounded" /\ v <= d.lower.at
         /\ CompareLowerBound(d, v, ">")  <=> d.lower.kind # "unbounded" /\ v >  d.lower.at
         /\ CompareLowerBound(d, v, ">=") <=> d.lower.kind # "unbounded" /\ v >= d.lower.at
         /\ CompareUpperBound(d, v, "<")  <=> d.upper.kind # "unbounded" /\ v <  d.upper.at
         /\ CompareUpperBound(d, v, "<=") <=> d.upper.kind # "unbounded" /\ v <= d.upper.at
         /\ CompareUpperBound(d, v, ">")  <=> d.upper.kind # "unbounded" /\ v >  d.upper.at
         /\ CompareUpperBound(d, v, ">=") <=> d.upper.kind # "unbounded" /\ v >= d.upper.at
  BY TermsOf DEF CompareLowerBound, CompareUpperBound, Compare

\* RangeContains compares each end of the stored range with the same end of
\* the query.
LEMMA ContainsCompares ==
  ASSUME NEW type \in RangeType, NEW lower \in Bound, NEW upper \in Bound, NEW d, IsInterval(type, d)
  PROVE  RangeContains(type, lower, upper, d) <=>
           /\ Lowest(CanonicalLower(type, lower)) <= Lowest(d.lower)
           /\ Highest(type, d.upper) <= Highest(type, CanonicalUpper(type, upper))
<1>1. PICK lo, hi : lo = CanonicalLower(type, lower) /\ hi = CanonicalUpper(type, upper)
  OBVIOUS
<1>2. IsLower(type, lo) /\ IsUpper(type, hi)
  BY <1>1, CanonicalLowerIs, CanonicalUpperIs
<1>3. d.exists /\ ~d.empty /\ IsLower(type, d.lower) /\ IsUpper(type, d.upper)
  BY DEF IsInterval
<1>4. PICK k, l, m, n : k = lo.kind /\ l = d.lower.kind /\ m = lo.at /\ n = d.lower.at
  OBVIOUS
<1>5. PICK kk, ll, mm, nn : kk = hi.kind /\ ll = d.upper.kind /\ mm = hi.at /\ nn = d.upper.at
  OBVIOUS
<1>6. /\ k \in {"included", "excluded", "unbounded"} /\ l \in {"included", "excluded", "unbounded"}
      /\ kk \in {"included", "excluded", "unbounded"} /\ ll \in {"included", "excluded", "unbounded"}
      /\ m \in Int /\ n \in Int /\ mm \in Int /\ nn \in Int
  BY <1>2, <1>3, <1>4, <1>5 DEF IsLower, IsUpper, IsBound
<1>7. RangeContains(type, lower, upper, d) <=>
      /\ \/ k = "included" /\ l # "unbounded" /\ m <= n
         \/ k = "excluded" /\ l # "unbounded" /\ ((m < n /\ l = "included") \/ (m <= n /\ l # "included"))
         \/ k = "unbounded"
      /\ \/ kk = "included" /\ ll # "unbounded" /\ mm >= nn
         \/ kk = "excluded" /\ ll # "unbounded" /\ ((mm > nn /\ ll = "included") \/ (mm >= nn /\ ll # "included"))
         \/ kk = "unbounded"
  <2>1. /\ CompareLowerBound(d, m, "<")  <=> l # "unbounded" /\ m < n
        /\ CompareLowerBound(d, m, "<=") <=> l # "unbounded" /\ m <= n
        /\ LowerBoundInclusive(d, TRUE)  <=> l = "included"
        /\ LowerBoundInclusive(d, FALSE) <=> l # "included"
    BY <1>3, <1>4, ComparesOf, TermsOf
  <2>2. /\ CompareUpperBound(d, mm, ">")  <=> ll # "unbounded" /\ mm > nn
        /\ CompareUpperBound(d, mm, ">=") <=> ll # "unbounded" /\ mm >= nn
        /\ UpperBoundInclusive(d, TRUE)  <=> ll = "included"
        /\ UpperBoundInclusive(d, FALSE) <=> ll # "included"
    BY <1>3, <1>5, ComparesOf, TermsOf
  <2> QED BY <1>1, <1>3, <1>4, <1>5, <1>6, <2>1, <2>2 DEF RangeContains
<1>8. Lowest(lo) <= Lowest(d.lower) <=>
        \/ k = "unbounded"
        \/ k # "unbounded" /\ l # "unbounded" /\ (m < n \/ (m = n /\ (k = "included" \/ l = "excluded")))
  BY <1>2, <1>3, <1>4, LowersCompare
<1>9. Highest(type, d.upper) <= Highest(type, hi) <=>
        \/ kk = "unbounded"
        \/ kk # "unbounded" /\ ll # "unbounded" /\ (nn < mm \/ (nn = mm /\ (kk = "included" \/ ll = "excluded")))
  BY <1>2, <1>3, <1>5, UppersCompare
<1> QED BY <1>1, <1>6, <1>7, <1>8, <1>9

\* RangeIntersects compares each end of the stored range with the other end
\* of the query.
LEMMA IntersectsCompares ==
  ASSUME NEW type \in RangeType, NEW lower \in Bound, NEW upper \in Bound, NEW d, IsInterval(type, d)
  PROVE  RangeIntersects(type, lower, upper, d) <=>
           /\ ~IsEmpty(CanonicalLower(type, lower), CanonicalUpper(type, upper))
           /\ Lowest(CanonicalLower(type, lower)) <= Highest(type, d.upper)
           /\ Lowest(d.lower) <= Highest(type, CanonicalUpper(type, upper))
<1>1. PICK lo, hi : lo = CanonicalLower(type, lower) /\ hi = CanonicalUpper(type, upper)
  OBVIOUS
<1>2. IsLower(type, lo) /\ IsUpper(type, hi)
  BY <1>1, CanonicalLowerIs, CanonicalUpperIs
<1>3. d.exists /\ ~d.empty /\ IsLower(type, d.lower) /\ IsUpper(type, d.upper)
  BY DEF IsInterval
<1>4. PICK k, l, m, n : k = lo.kind /\ l = d.lower.kind /\ m = lo.at /\ n = d.lower.at
  OBVIOUS
<1>5. PICK kk, ll, mm, nn : kk = hi.kind /\ ll = d.upper.kind /\ mm = hi.at /\ nn = d.upper.at
  OBVIOUS
<1>6. /\ k \in {"included", "excluded", "unbounded"} /\ l \in {"included", "excluded", "unbounded"}
      /\ kk \in {"included", "excluded", "unbounded"} /\ ll \in {"included", "excluded", "unbounded"}
      /\ m \in Int /\ n \in Int /\ mm \in Int /\ nn \in Int
  BY <1>2, <1>3, <1>4, <1>5 DEF IsLower, IsUpper, IsBound
<1>7. RangeIntersects(type, lower, upper, d) <=>
      /\ ~IsEmpty(lo, hi)
      /\ \/ ll = "unbounded"
         \/ k = "excluded" /\ ll # "unbounded" /\ m < nn
         \/ k = "included" /\ ll # "unbounded" /\ ((m <= nn /\ ll = "included") \/ (m < nn /\ ll # "included"))
         \/ k = "unbounded"
      /\ \/ l = "unbounded"
         \/ kk = "excluded" /\ l # "unbounded" /\ mm > n
         \/ kk = "included" /\ l # "unbounded" /\ ((mm >= n /\ l = "included") \/ (mm > n /\ l # "included"))
         \/ kk = "unbounded"
  <2>1. /\ CompareUpperBound(d, m, "<")  <=> ll # "unbounded" /\ m < nn
        /\ CompareUpperBound(d, m, "<=") <=> ll # "unbounded" /\ m <= nn
        /\ UpperBoundInclusive(d, TRUE)  <=> ll = "included"
        /\ UpperBoundInclusive(d, FALSE) <=> ll # "included"
        /\ UpperBoundUnbounded(d) <=> ll = "unbounded"
        /\ HasRange(d)
    BY <1>3, <1>5, ComparesOf, TermsOf
  <2>2. /\ CompareLowerBound(d, mm, ">")  <=> l # "unbounded" /\ mm > n
        /\ CompareLowerBound(d, mm, ">=") <=> l # "unbounded" /\ mm >= n
        /\ LowerBoundInclusive(d, TRUE)  <=> l = "included"
        /\ LowerBoundInclusive(d, FALSE) <=> l # "included"
        /\ LowerBoundUnbounded(d) <=> l = "unbounded"
    BY <1>3, <1>4, ComparesOf, TermsOf
  <2> QED BY <1>1, <1>3, <1>4, <1>5, <1>6, <2>1, <2>2 DEF RangeIntersects
<1>8. Lowest(lo) <= Highest(type, d.upper) <=>
        \/ k = "unbounded" \/ ll = "unbounded" \/ m < nn
        \/ (m = nn /\ k = "included" /\ ll = "included")
  BY <1>2, <1>3, <1>4, <1>5, EndsCompare
<1>9. Lowest(d.lower) <= Highest(type, hi) <=>
        \/ l = "unbounded" \/ kk = "unbounded" \/ n < mm
        \/ (n = mm /\ l = "included" /\ kk = "included")
  BY <1>2, <1>3, <1>4, <1>5, EndsCompare
<1> QED BY <1>1, <1>6, <1>7, <1>8, <1>9

\* RangeWithin compares the ends the other way round, unless the query is
\* empty.
LEMMA WithinCompares ==
  ASSUME NEW type \in RangeType, NEW lower \in Bound, NEW upper \in Bound, NEW d, IsInterval(type, d)
  PROVE  RangeWithin(type, lower, upper, d) <=>
           \/ IsEmpty(CanonicalLower(type, lower), CanonicalUpper(type, upper))
           \/ /\ Lowest(d.lower) <= Lowest(CanonicalLower(type, lower))
              /\ Highest(type, CanonicalUpper(type, upper)) <= Highest(type, d.upper)
<1>1. PICK lo, hi : lo = CanonicalLower(type, lower) /\ hi = CanonicalUpper(type, upper)
  OBVIOUS
<1>2. IsLower(type, lo) /\ IsUpper(type, hi)
  BY <1>1, CanonicalLowerIs, CanonicalUpperIs
<1>3. d.exists /\ ~d.empty /\ IsLower(type, d.lower) /\ IsUpper(type, d.upper)
  BY DEF IsInterval
<1>4. PICK k, l, m, n : k = lo.kind /\ l = d.lower.kind /\ m = lo.at /\ n = d.lower.at
  OBVIOUS
<1>5. PICK kk, ll, mm, nn : kk = hi.kind /\ ll = d.upper.kind /\ mm = hi.at /\ nn = d.upper.at
  OBVIOUS
<1>6. /\ k \in {"included", "excluded", "unbounded"} /\ l \in {"included", "excluded", "unbounded"}
      /\ kk \in {"included", "excluded", "unbounded"} /\ ll \in {"included", "excluded", "unbounded"}
      /\ m \in Int /\ n \in Int /\ mm \in Int /\ nn \in Int
  BY <1>2, <1>3, <1>4, <1>5 DEF IsLower, IsUpper, IsBound
<1>7. RangeWithin(type, lower, upper, d) <=>
      \/ IsEmpty(lo, hi)
      \/ /\ \/ l = "unbounded"
            \/ k = "excluded" /\ l # "unbounded" /\ m >= n
            \/ k = "included" /\ l # "unbounded" /\ ((m > n /\ l # "included") \/ (m >= n /\ l = "included"))
         /\ \/ ll = "unbounded"
            \/ kk = "excluded" /\ ll # "unbounded" /\ mm <= nn
            \/ kk = "included" /\ ll # "unbounded" /\ ((mm < nn /\ ll # "included") \/ (mm <= nn /\ ll = "included"))
  <2>1. /\ CompareLowerBound(d, m, ">")  <=> l # "unbounded" /\ m > n
        /\ CompareLowerBound(d, m, ">=") <=> l # "unbounded" /\ m >= n
        /\ LowerBoundInclusive(d, TRUE)  <=> l = "included"
        /\ LowerBoundInclusive(d, FALSE) <=> l # "included"
        /\ LowerBoundUnbounded(d) <=> l = "unbounded"
    BY <1>3, <1>4, ComparesOf, TermsOf
  <2>2. /\ CompareUpperBound(d, mm, "<")  <=> ll # "unbounded" /\ mm < nn
        /\ CompareUpperBound(d, mm, "<=") <=> ll # "unbounded" /\ mm <= nn
        /\ UpperBoundInclusive(d, TRUE)  <=> ll = "included"
        /\ UpperBoundInclusive(d, FALSE) <=> ll # "included"
        /\ UpperBoundUnbounded(d) <=> ll = "unbounded"
    BY <1>3, <1>5, ComparesOf, TermsOf
  <2> QED BY <1>1, <1>3, <1>4, <1>5, <1>6, <2>1, <2>2 DEF RangeWithin
<1>8. Lowest(d.lower) <= Lowest(lo) <=>
        \/ l = "unbounded"
        \/ l # "unbounded" /\ k # "unbounded" /\ (n < m \/ (n = m /\ (l = "included" \/ k = "excluded")))
  BY <1>2, <1>3, <1>4, LowersCompare
<1>9. Highest(type, hi) <= Highest(type, d.upper) <=>
        \/ ll = "unbounded"
        \/ kk # "unbounded" /\ ll # "unbounded" /\ (mm < nn \/ (mm = nn /\ (ll = "included" \/ kk = "excluded")))
  BY <1>2, <1>3, <1>5, UppersCompare
<1> QED BY <1>1, <1>6, <1>7, <1>8, <1>9

\* RangeTerm compares the value with both ends.
LEMMA TermCompares ==
  ASSUME NEW type \in RangeType, NEW v \in Int, v \in Point(type), NEW d, IsInterval(type, d)
  PROVE  RangeTerm(v, d) <=> Lowest(d.lower) <= v /\ v <= Highest(type, d.upper)
<1>1. d.exists /\ ~d.empty /\ IsLower(type, d.lower) /\ IsUpper(type, d.upper)
  BY DEF IsInterval
<1>2. PICK l, n, ll, nn : l = d.lower.kind /\ n = d.lower.at /\ ll = d.upper.kind /\ nn = d.upper.at
  OBVIOUS
<1>3. /\ l \in {"included", "excluded", "unbounded"} /\ ll \in {"included", "excluded", "unbounded"}
      /\ n \in Int /\ nn \in Int
  BY <1>1, <1>2 DEF IsLower, IsUpper, IsBound
<1>4. RangeTerm(v, d) <=>
      /\ \/ l = "unbounded"
         \/ l = "included" /\ l # "unbounded" /\ v >= n
         \/ l # "included" /\ l # "unbounded" /\ v > n
      /\ \/ ll = "unbounded"
         \/ ll = "included" /\ ll # "unbounded" /\ v <= nn
         \/ ll # "included" /\ ll # "unbounded" /\ v < nn
  BY <1>1, <1>2, ComparesOf, TermsOf DEF RangeTerm
<1>5. AboveLower(v, d.lower) <=> Lowest(d.lower) <= v
  BY <1>1, LowestIs
<1>6. BelowUpper(v, d.upper) <=> v <= Highest(type, d.upper)
  BY <1>1, HighestIs
<1>7. AboveLower(v, d.lower) <=> \/ l = "unbounded" \/ (l = "included" /\ v >= n) \/ (l = "excluded" /\ v > n)
  BY <1>2, <1>3 DEF AboveLower
<1>8. BelowUpper(v, d.upper) <=> \/ ll = "unbounded" \/ (ll = "included" /\ v <= nn) \/ (ll = "excluded" /\ v < nn)
  BY <1>2, <1>3 DEF BelowUpper
<1> QED BY <1>3, <1>4, <1>5, <1>6, <1>7, <1>8

-----------------------------------------------------------------------------
(* Intervals, as sets of points: a..b is what is stored, c..e what is asked *)
(* for.                                                                     *)

IsSpan(S, P, a, b) == \A p : p \in S <=> p \in P /\ a <= p /\ p <= b

\* How the three relations between them show at their ends.
SpansCompare(S, A, a, b, c, e) ==
  /\ S \subseteq A <=> c <= a /\ b <= e
  /\ S \cap A # {} <=> ~(e < c) /\ c <= b /\ a <= e
  /\ A \subseteq S <=> e < c \/ (a <= c /\ e <= b)

LEMMA Intervals ==
  ASSUME NEW P, P \subseteq Int, NEW S, NEW A,
         NEW a \in P, NEW b \in P, NEW c \in P, NEW e \in P, a <= b,
         IsSpan(S, P, a, b), IsSpan(A, P, c, e)
  PROVE  SpansCompare(S, A, a, b, c, e)
<1>1. /\ a \in Int /\ b \in Int /\ c \in Int /\ e \in Int /\ \A p \in P : p \in Int
      /\ \A p : p \in S <=> p \in P /\ a <= p /\ p <= b
      /\ \A p : p \in A <=> p \in P /\ c <= p /\ p <= e
  BY DEF IsSpan
<1>2. S \subseteq A <=> c <= a /\ b <= e
  <2>1. a \in S /\ b \in S
    BY <1>1
  <2>2. ASSUME S \subseteq A PROVE c <= a /\ b <= e
    BY <1>1, <2>1, <2>2
  <2>3. ASSUME c <= a, b <= e, NEW p \in S PROVE p \in A
    <3>1. p \in P /\ p \in Int /\ a <= p /\ p <= b
      BY <1>1, <2>3
    <3>2. c <= p /\ p <= e
      BY <1>1, <2>3, <3>1
    <3> QED BY <1>1, <3>1, <3>2
  <2> QED BY <2>2, <2>3
<1>3. S \cap A # {} <=> ~(e < c) /\ c <= b /\ a <= e
  <2>1. ASSUME NEW p, p \in S, p \in A PROVE ~(e < c) /\ c <= b /\ a <= e
    <3>1. p \in Int /\ a <= p /\ p <= b /\ c <= p /\ p <= e
      BY <1>1, <2>1
    <3> QED BY <1>1, <3>1
  <2>2. ASSUME ~(e < c), c <= b, a <= e PROVE S \cap A # {}
    <3>1. CASE c <= a
      <4>1. a \in S /\ a \in A
        BY <1>1, <2>2, <3>1
      <4> QED BY <4>1
    <3>2. CASE ~(c <= a)
      <4>1. c \in S /\ c \in A
        BY <1>1, <2>2, <3>2
      <4> QED BY <4>1
    <3> QED BY <3>1, <3>2
  <2> QED BY <2>1, <2>2
<1>4. A \subseteq S <=> e < c \/ (a <= c /\ e <= b)
  <2>1. ASSUME A \subseteq S, ~(e < c) PROVE a <= c /\ e <= b
    <3>1. c \in A /\ e \in A
      BY <1>1, <2>1
    <3> QED BY <1>1, <2>1, <3>1
  <2>2. ASSUME e < c \/ (a <= c /\ e <= b), NEW p \in A PROVE p \in S
    <3>1. p \in P /\ p \in Int /\ c <= p /\ p <= e
      BY <1>1, <2>2
    <3>2. a <= p /\ p <= b
      BY <1>1, <2>2, <3>1
    <3> QED BY <1>1, <3>1, <3>2
  <2> QED BY <2>1, <2>2
<1> QED BY <1>2, <1>3, <1>4 DEF SpansCompare

-----------------------------------------------------------------------------
(* The relations                                                            *)

\* A query and a document whose column is of the query's type: the value of a
\* RangeTerm is one that bounds can have too.
IsRangeQuery(q) ==
  /\ q.type \in RangeType
  /\ q.rel \in {"contains", "intersects", "within", "term", "value"}
  /\ q.lower \in Bound /\ q.upper \in Bound /\ WellFormed(q.lower, q.upper)
  /\ q.rel = "term" => q.lower.kind = "included"

IsRangeDoc(type, doc) == doc.range \in StoredRange(type) /\ doc.value \subseteq Point(type)

LEMMA OfInterval ==
  ASSUME NEW type \in RangeType, NEW lower \in Bound, NEW upper \in Bound, WellFormed(lower, upper),
         NEW d, IsInterval(type, d)
  PROVE  LET asked == PointsOf(type, lower, upper)
             stored == StoredPoints(type, d)
         IN  /\ RangeContains(type, lower, upper, d)   <=> stored \subseteq asked
             /\ RangeIntersects(type, lower, upper, d) <=> stored \cap asked # {}
             /\ RangeWithin(type, lower, upper, d)     <=> asked \subseteq stored
<1>1. PICK a, b, c, e : /\ a = Lowest(d.lower) /\ b = Highest(type, d.upper)
                        /\ c = Lowest(CanonicalLower(type, lower))
                        /\ e = Highest(type, CanonicalUpper(type, upper))
  OBVIOUS
<1>2. /\ a \in Point(type) /\ b \in Point(type) /\ a <= b
      /\ \A p : p \in StoredPoints(type, d) <=> p \in Point(type) /\ a <= p /\ p <= b
  BY <1>1, LowestIs, HighestIs DEF IsInterval
<1>3. c \in Point(type) /\ e \in Point(type)
  BY <1>1, LowestIs, HighestIs, CanonicalLowerIs, CanonicalUpperIs
<1>4. \A p : p \in PointsOf(type, lower, upper) <=> p \in Point(type) /\ c <= p /\ p <= e
  BY <1>1, AskedIs
<1>5. Point(type) \subseteq Int
  BY PointIs
<1>6. IsEmpty(CanonicalLower(type, lower), CanonicalUpper(type, upper)) <=> e < c
  BY <1>1, EmptyIs
<1>7. RangeContains(type, lower, upper, d) <=> c <= a /\ b <= e
  BY <1>1, ContainsCompares
<1>8. RangeIntersects(type, lower, upper, d) <=> ~(e < c) /\ c <= b /\ a <= e
  BY <1>1, <1>6, IntersectsCompares
<1>9. RangeWithin(type, lower, upper, d) <=> e < c \/ (a <= c /\ e <= b)
  BY <1>1, <1>6, WithinCompares
<1>10. /\ StoredPoints(type, d) \subseteq PointsOf(type, lower, upper) <=> c <= a /\ b <= e
       /\ StoredPoints(type, d) \cap PointsOf(type, lower, upper) # {} <=> ~(e < c) /\ c <= b /\ a <= e
       /\ PointsOf(type, lower, upper) \subseteq StoredPoints(type, d) <=> e < c \/ (a <= c /\ e <= b)
  <2>1. PICK P, S, A : P = Point(type) /\ S = StoredPoints(type, d) /\ A = PointsOf(type, lower, upper)
    OBVIOUS
  <2>2. /\ P \subseteq Int /\ a \in P /\ b \in P /\ c \in P /\ e \in P /\ a <= b
        /\ IsSpan(S, P, a, b) /\ IsSpan(A, P, c, e)
    BY <1>2, <1>3, <1>4, <1>5, <2>1 DEF IsSpan
  <2>3. SpansCompare(S, A, a, b, c, e)
    BY <2>2, Intervals
  <2> QED BY <2>1, <2>3 DEF SpansCompare
<1> QED BY <1>7, <1>8, <1>9, <1>10

\* A column that is NULL, or an empty range.
LEMMA OfNoPoints ==
  ASSUME NEW type \in RangeType, NEW lower \in Bound, NEW upper \in Bound, WellFormed(lower, upper),
         NEW d, d = NullRange \/ d = EmptyRange, NEW v
  PROVE  /\ StoredPoints(type, d) = {}
         /\ RangeContains(type, lower, upper, d) <=> d.exists
         /\ ~RangeIntersects(type, lower, upper, d)
         /\ RangeWithin(type, lower, upper, d) <=> d.exists /\ PointsOf(type, lower, upper) = {}
         /\ ~RangeTerm(v, d)
<1>1. \/ d.exists = FALSE /\ d.empty = FALSE
      \/ d.exists = TRUE  /\ d.empty = TRUE
  BY DEF NullRange, EmptyRange
<1>2. /\ ~HasRange(d) /\ ~LowerBoundUnbounded(d) /\ ~UpperBoundUnbounded(d)
      /\ \A w, op : ~CompareLowerBound(d, w, op) /\ ~CompareUpperBound(d, w, op)
  BY <1>1 DEF HasRange, LowerBoundUnbounded, UpperBoundUnbounded, CompareLowerBound, CompareUpperBound
<1>3. PICK lo, hi : lo = CanonicalLower(type, lower) /\ hi = CanonicalUpper(type, upper)
  OBVIOUS
<1>4. StoredPoints(type, d) = {}
  BY <1>1 DEF StoredPoints
<1>5. RangeContains(type, lower, upper, d) <=> d.exists
  BY <1>1, <1>2, <1>3 DEF RangeContains
<1>6. ~RangeIntersects(type, lower, upper, d)
  BY <1>2 DEF RangeIntersects
<1>7. IsEmpty(lo, hi) <=> PointsOf(type, lower, upper) = {}
  <2>1. PICK c, e : c = Lowest(lo) /\ e = Highest(type, hi)
    OBVIOUS
  <2>2. c \in Point(type) /\ e \in Point(type) /\ c \in Int /\ e \in Int
    BY <1>3, <2>1, LowestIs, HighestIs, CanonicalLowerIs, CanonicalUpperIs
  <2>3. IsEmpty(lo, hi) <=> e < c
    BY <1>3, <2>1, EmptyIs
  <2>4. \A p : p \in PointsOf(type, lower, upper) <=> p \in Point(type) /\ c <= p /\ p <= e
    BY <1>3, <2>1, AskedIs
  <2>5. ~(e < c) => c \in PointsOf(type, lower, upper)
    BY <2>2, <2>4
  <2>6. ASSUME e < c, NEW p \in PointsOf(type, lower, upper) PROVE FALSE
    <3>1. p \in Point(type) /\ c <= p /\ p <= e
      BY <2>4, <2>6
    <3>2. p \in Int
      BY <3>1, PointIs
    <3> QED BY <2>2, <2>6, <3>1, <3>2
  <2> QED BY <2>3, <2>5, <2>6
<1>8. RangeWithin(type, lower, upper, d) <=> IsEmpty(lo, hi) /\ d.exists
  BY <1>1, <1>2, <1>3 DEF RangeWithin
<1>9. ~RangeTerm(v, d)
  BY <1>2 DEF RangeTerm
<1> QED BY <1>4, <1>5, <1>6, <1>7, <1>8, <1>9

(***************************************************************************)
(* Each query that into_tantivy_query (query/mod.rs) builds from the seven *)
(* terms of a range matches the documents whose range, as a set of points, *)
(* contains, meets or lies within the one asked for, or has the value      *)
(* asked for: for discrete and continuous types, bounds of every kind and  *)
(* size, NULL and empty ranges, and although check_range_bounds turns the  *)
(* bounds of a discrete query into [l, u) first.                           *)
(***************************************************************************)
THEOREM RangeRelationsAreExact ==
  ASSUME NEW q, IsRangeQuery(q), NEW doc, IsRangeDoc(q.type, doc)
  PROVE  RangeLeaf(q, doc) <=> RangeMeans(q, doc)
<1>1. PICK type, lower, upper, d :
        type = q.type /\ lower = q.lower /\ upper = q.upper /\ d = doc.range
  OBVIOUS
<1>2. /\ type \in RangeType /\ lower \in Bound /\ upper \in Bound /\ WellFormed(lower, upper)
      /\ d \in StoredRange(type) /\ doc.value \subseteq Point(type)
      /\ q.rel \in {"contains", "intersects", "within", "term", "value"}
      /\ q.rel = "term" => lower.kind = "included"
  BY <1>1 DEF IsRangeQuery, IsRangeDoc
<1>3. d = NullRange \/ d = EmptyRange \/ IsInterval(type, d)
  BY <1>2, StoredIs DEF IsInterval
<1>4. IsInterval(type, d) => d.exists
  BY DEF IsInterval
<1>5. CASE q.rel = "contains"
  <2>1. RangeContains(type, lower, upper, d) <=>
          d.exists /\ StoredPoints(type, d) \subseteq PointsOf(type, lower, upper)
    BY <1>2, <1>3, <1>4, OfInterval, OfNoPoints
  <2> QED BY <1>1, <1>5, <2>1 DEF RangeLeaf, RangeMeans
<1>6. CASE q.rel = "intersects"
  <2>1. RangeIntersects(type, lower, upper, d) <=>
          StoredPoints(type, d) \cap PointsOf(type, lower, upper) # {}
    BY <1>2, <1>3, OfInterval, OfNoPoints
  <2> QED BY <1>1, <1>6, <2>1 DEF RangeLeaf, RangeMeans
<1>7. CASE q.rel = "within"
  <2>1. RangeWithin(type, lower, upper, d) <=>
          d.exists /\ PointsOf(type, lower, upper) \subseteq StoredPoints(type, d)
    BY <1>2, <1>3, <1>4, OfInterval, OfNoPoints
  <2> QED BY <1>1, <1>7, <2>1 DEF RangeLeaf, RangeMeans
<1>8. CASE q.rel = "term"
  <2>1. PICK v : v = lower.at
    OBVIOUS
  <2>3. v \in Int /\ v \in Point(type)
    <3>1. Even(v) /\ v \in Int /\ 0 <= v /\ v <= 2 * MaxValue + 2
      BY <1>2, <2>1, BoundIs DEF IsBound
    <3>2. MaxValue \in Nat
      BY RangeAssumption
    <3>3. -2 <= v /\ v <= 2 * MaxValue + 4
      BY <3>1, <3>2
    <3> QED BY <1>2, <3>1, <3>3, PointIs
  <2>4. RangeTerm(v, d) <=> v \in StoredPoints(type, d)
    <3>1. CASE d = NullRange \/ d = EmptyRange
      <4>1. StoredPoints(type, d) = {} /\ ~RangeTerm(v, d)
        BY <1>2, <3>1, OfNoPoints
      <4> QED BY <4>1
    <3>2. CASE IsInterval(type, d)
      <4>1. RangeTerm(v, d) <=> Lowest(d.lower) <= v /\ v <= Highest(type, d.upper)
        BY <1>2, <2>3, <3>2, TermCompares
      <4> QED BY <2>3, <3>2, <4>1 DEF IsInterval
    <3> QED BY <1>3, <3>1, <3>2
  <2> QED BY <1>1, <1>8, <2>1, <2>4 DEF RangeLeaf, RangeMeans
<1>9. CASE q.rel = "value"
  <2>1. \A p \in doc.value :
          RangeQuery(type, lower, upper, p) <=> p \in PointsOf(type, lower, upper)
    <3> SUFFICES ASSUME NEW p \in doc.value
                 PROVE  RangeQuery(type, lower, upper, p) <=> p \in PointsOf(type, lower, upper)
      OBVIOUS
    <3>1. p \in Point(type)
      BY <1>2
    <3>2. /\ AboveLower(p, CanonicalLower(type, lower)) <=> AboveLower(p, lower)
          /\ BelowUpper(p, CanonicalUpper(type, upper)) <=> BelowUpper(p, upper)
      BY <1>2, <3>1, CanonicalLowerIs, CanonicalUpperIs
    <3> QED BY <3>1, <3>2 DEF RangeQuery, PointsOf
  <2>2. (\E p \in doc.value : RangeQuery(type, lower, upper, p)) <=>
          doc.value \cap PointsOf(type, lower, upper) # {}
    BY <2>1
  <2> QED BY <1>1, <1>9, <2>2 DEF RangeLeaf, RangeMeans
<1> QED BY <1>2, <1>5, <1>6, <1>7, <1>8, <1>9
=============================================================================
