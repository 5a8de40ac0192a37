------------------------ MODULE PredicateLoweringProofs ------------------------
(***************************************************************************)
(* Proofs about PredicateLowering: for every predicate of a form that is   *)
(* exact in its dialect (ExactField), every value and every table, WHERE    *)
(* selects the rows that the language means, and an INSERT stores the       *)
(* records it was given.                                                   *)
(***************************************************************************)
EXTENDS PredicateLowering, FiniteSetTheorems, WellFoundedInduction, NaturalsInduction, TLAPS

-----------------------------------------------------------------------------
(* The three truth values *)

Truths == {"T", "F", "U"}

\* t is what a database answers for the value v where the language says b: it
\* is true for the same values, and unknown for NULL only.
Agrees(t, b, v) ==
    /\ t \in Truths
    /\ t = "T" <=> b
    /\ t = "U" => v = Null

\* The same without an unknown: what a MongoDB filter answers.
Decides(t, b) ==
    /\ t \in {"T", "F"}
    /\ t = "T" <=> b

(* OR is true iff a disjunct is, AND iff every conjunct is, and neither is *)
(* unknown or an error unless a part is.                                   *)
LEMMA Connectives ==
    ASSUME NEW ts \in SUBSET Truths
    PROVE  /\ SqlOr(ts) \in Truths
           /\ SqlOr(ts) = "T" <=> "T" \in ts
           /\ SqlOr(ts) = "U" => "U" \in ts
           /\ SqlAnd(ts) \in Truths
           /\ SqlAnd(ts) = "T" <=> \A t \in ts : t = "T"
           /\ SqlAnd(ts) = "U" => "U" \in ts
  BY DEF SqlOr, SqlAnd, Truths

(* The types of the constants.                                             *)
LEMMA ConstantTypes == DayLength \in Nat /\ Today \in Nat /\ Now \in Nat
  BY LoweringAssumption

(* A literal other than NULL denotes a natural number.                     *)
LEMMA LiteralType ==
    ASSUME NEW l, NEW ts, IsValue(l, ts)
    PROVE  lower_literal(l) \in Nat
  BY ConstantTypes DEF IsValue, IsLiteral, lower_literal, DayStart

(* A comparison with a number is unknown for NULL only.                    *)
LEMMA CompareAgrees ==
    ASSUME NEW op \in ComparisonOperator, NEW v \in Cells, NEW w \in Nat
    PROVE  /\ Agrees(SqlCompare(op, v, w), v # Null /\ Holds(op, v, w), v)
           /\ Decides(MongoMatch(op, v, w),
                      IF op = "!=" THEN v # w ELSE v # Null /\ Holds(op, v, w))
  <1>1. w # Null
    BY DEF Null
  <1>3. Agrees(SqlCompare(op, v, w), v # Null /\ Holds(op, v, w), v)
    BY <1>1 DEF Agrees, Truths, SqlCompare, Truth
  <1>4. Decides(MongoMatch(op, v, w),
                IF op = "!=" THEN v # w ELSE v # Null /\ Holds(op, v, w))
    BY <1>1 DEF Decides, MongoMatch, Truth, Holds, ComparisonOperator
  <1> QED
    BY <1>3, <1>4

(* The three ways the lowerers write a range of values.                    *)
LEMMA RangeAgrees ==
    ASSUME NEW v \in Cells, NEW a \in Nat, NEW b \in Nat
    PROVE  /\ Agrees(Between(v, a, b), v # Null /\ a <= v /\ v <= b, v)
           /\ Agrees(SqlNot(Between(v, a, b)), v # Null /\ ~(a <= v /\ v <= b), v)
  <1> DEFINE s == SqlCompare(">=", v, a)
             t == SqlCompare("<=", v, b)
  <1>1. /\ Agrees(s, v # Null /\ Holds(">=", v, a), v)
        /\ Agrees(t, v # Null /\ Holds("<=", v, b), v)
    BY CompareAgrees DEF ComparisonOperator
  <1>2. /\ Holds(">=", v, a) <=> v >= a
        /\ Holds("<=", v, b) <=> v <= b
    BY DEF Holds
  <1>3. v # Null => v \in Nat
    BY DEF Cells
  <1>4. v = Null => s = "U" /\ t = "U"
    BY DEF SqlCompare
  <1> HIDE DEF s, t
  <1>5. v # Null => /\ a <= v <=> v >= a
                    /\ s \in {"T", "F"} /\ t \in {"T", "F"}
    BY <1>1, <1>3 DEF Agrees, Truths
  <1>6. Between(v, a, b) = SqlAnd({s, t})
    BY DEF Between, s, t
  <1> QED
    BY <1>1, <1>2, <1>4, <1>5, <1>6 DEF Agrees, Truths, SqlAnd, SqlNot


(* A date-only literal and the instants of its day.                        *)
LEMMA DayAgrees ==
    ASSUME NEW v \in Cells, NEW l, IsLiteral(l, TRUE), l.kind = "day"
    PROVE  /\ Agrees(InDay(l, v), LiteralEquals(l, TRUE, v), v)
           /\ Agrees(NotInDay(l, v), v # Null /\ ~LiteralEquals(l, TRUE, v), v)
           /\ Decides(SqlAnd({MongoMatch(">=", v, DayStart(l)), MongoMatch("<", v, DayEnd(l))}),
                      LiteralEquals(l, TRUE, v))
  <1> DEFINE a == DayStart(l)
             b == DayEnd(l)
             s == SqlCompare(">=", v, a)
             t == SqlCompare("<", v, b)
             s2 == SqlCompare("<", v, a)
             t2 == SqlCompare(">=", v, b)
             m == MongoMatch(">=", v, a)
             n == MongoMatch("<", v, b)
  <1>1. a \in Nat /\ b \in Nat
    BY ConstantTypes DEF IsLiteral, DayStart, DayEnd
  <1>2. LiteralEquals(l, TRUE, v) <=> v # Null /\ a <= v /\ v < b
    BY DEF LiteralEquals
  <1>3. v # Null => v \in Nat
    BY DEF Cells
  <1>4. v = Null => s = "U" /\ t = "U" /\ s2 = "U" /\ t2 = "U"
    BY DEF SqlCompare
  <1>5. /\ InDay(l, v) = SqlAnd({s, t})
        /\ NotInDay(l, v) = SqlOr({s2, t2})
    BY DEF InDay, NotInDay
  <1> HIDE DEF a, b
  <1>6. /\ Agrees(s, v # Null /\ Holds(">=", v, a), v)
        /\ Agrees(t, v # Null /\ Holds("<", v, b), v)
        /\ Agrees(s2, v # Null /\ Holds("<", v, a), v)
        /\ Agrees(t2, v # Null /\ Holds(">=", v, b), v)
        /\ Decides(m, v # Null /\ Holds(">=", v, a))
        /\ Decides(n, v # Null /\ Holds("<", v, b))
    BY CompareAgrees, <1>1 DEF ComparisonOperator
  <1>7. /\ Holds(">=", v, a) <=> v >= a
        /\ Holds("<", v, b) <=> v < b
        /\ Holds("<", v, a) <=> v < a
        /\ Holds(">=", v, b) <=> v >= b
    BY DEF Holds
  <1> HIDE DEF s, t, s2, t2, m, n
  <1>8. v # Null => /\ a <= v <=> v >= a
                    /\ v < a <=> ~(v >= a)
                    /\ v >= b <=> ~(v < b)
    BY <1>1, <1>3
  <1>9. Agrees(InDay(l, v), LiteralEquals(l, TRUE, v), v)
    BY <1>2, <1>4, <1>5, <1>6, <1>7, <1>8 DEF Agrees, Truths, SqlAnd
  <1>10. Agrees(NotInDay(l, v), v # Null /\ ~LiteralEquals(l, TRUE, v), v)
    BY <1>2, <1>4, <1>5, <1>6, <1>7, <1>8 DEF Agrees, Truths, SqlOr
  <1>11. Decides(SqlAnd({m, n}), LiteralEquals(l, TRUE, v))
    BY <1>2, <1>6, <1>7, <1>8 DEF Decides, SqlAnd
  <1> QED
    BY <1>9, <1>10, <1>11 DEF m, n, a, b

(* invert_operator is the negation on numbers.                             *)
LEMMA InvertHolds ==
    ASSUME NEW op \in ComparisonOperator, NEW v \in Nat, NEW w \in Nat
    PROVE  Holds(invert_operator(op), v, w) <=> ~Holds(op, v, w)
  <1>1. /\ Holds("=", v, w) <=> v = w
        /\ Holds("!=", v, w) <=> v # w
        /\ Holds(">", v, w) <=> v > w
        /\ Holds("<", v, w) <=> v < w
        /\ Holds(">=", v, w) <=> v >= w
        /\ Holds("<=", v, w) <=> v <= w
    BY DEF Holds
  <1>2. /\ v <= w <=> ~(v > w)
        /\ v >= w <=> ~(v < w)
    OBVIOUS
  <1> QED
    BY <1>1, <1>2 DEF ComparisonOperator, invert_operator

(* A comparison with a literal that is not NULL, and its inverse.          *)
LEMMA ConstraintAgrees ==
    ASSUME NEW ts \in BOOLEAN, NEW v \in Cells, NEW op, NEW l,
           IsComparison(op, l, ts), l.kind # "null", op # "!=",
           ts /\ IsDateOnly(l) => op \in Ordering
    PROVE  /\ Agrees(SqlCompare(op, v, lower_literal(l)), ConstraintHolds(op, l, ts, v), v)
           /\ Agrees(SqlCompare(invert_operator(op), v, lower_literal(l)),
                     v # Null /\ ~ConstraintHolds(op, l, ts, v), v)
  <1> DEFINE w == lower_literal(l)
             inv == invert_operator(op)
  <1>1. op \in ComparisonOperator /\ inv \in ComparisonOperator
    BY DEF IsComparison, invert_operator, ComparisonOperator
  <1>2. w \in Nat
    BY LiteralType DEF IsComparison, IsValue
  <1>3. ConstraintHolds(op, l, ts, v) <=> v # Null /\ Holds(op, v, w)
    <2>1. CASE op = "="
      <3>1. ~(ts /\ IsDateOnly(l))
        BY <2>1 DEF Ordering
      <3>2. LiteralEquals(l, ts, v) <=> v = w
        BY <3>1 DEF LiteralEquals, IsDateOnly
      <3> QED
        BY <2>1, <3>2, <1>2 DEF ConstraintHolds, Holds, Null
    <2>2. CASE op # "="
      BY <2>2 DEF ConstraintHolds
    <2> QED
      BY <2>1, <2>2
  <1>4. v # Null => (Holds(inv, v, w) <=> ~Holds(op, v, w))
    BY <1>1, <1>2, InvertHolds DEF Cells
  <1> HIDE DEF w, inv
  <1>5. /\ Agrees(SqlCompare(op, v, w), v # Null /\ Holds(op, v, w), v)
        /\ Agrees(SqlCompare(inv, v, w), v # Null /\ Holds(inv, v, w), v)
    BY <1>1, <1>2, CompareAgrees
  <1>6. /\ Agrees(SqlCompare(op, v, w), ConstraintHolds(op, l, ts, v), v)
        /\ Agrees(SqlCompare(inv, v, w), v # Null /\ ~ConstraintHolds(op, l, ts, v), v)
    BY <1>3, <1>4, <1>5 DEF Agrees
  <1> QED
    BY <1>6 DEF w, inv

(* A comparison as MongoDB makes it, NULL and != included.                 *)
LEMMA ConstraintDecides ==
    ASSUME NEW ts \in BOOLEAN, NEW v \in Cells, NEW op, NEW l,
           IsComparison(op, l, ts), ~IsDateOnly(l)
    PROVE  Decides(MongoCompare(op, v, l), ConstraintHolds(op, l, ts, v))
  <1> DEFINE w == lower_literal(l)
  <1>0. /\ op \in ComparisonOperator
        /\ MongoCompare(op, v, l) = MongoMatch(op, v, w)
    BY DEF MongoCompare, IsComparison
  <1>1. CASE l.kind = "null"
    <2>1. op \in {"=", "!="} /\ w = Null
      BY <1>1 DEF IsComparison, lower_literal
    <2>2. LiteralEquals(l, ts, v) <=> v = Null
      BY <1>1 DEF LiteralEquals
    <2> QED
      BY <1>0, <2>1, <2>2 DEF MongoMatch, Holds, Truth, Decides, ConstraintHolds
  <1>2. CASE l.kind # "null"
    <2>1. w \in Nat
      BY <1>2, LiteralType DEF IsComparison, IsValue
    <2>2. LiteralEquals(l, ts, v) <=> v = w
      BY <1>2 DEF LiteralEquals, IsDateOnly
    <2>3. ConstraintHolds(op, l, ts, v) <=>
            IF op = "!=" THEN v # w ELSE v # Null /\ Holds(op, v, w)
      <3>1. CASE op = "="
        BY <3>1, <2>1, <2>2 DEF ConstraintHolds, Holds, Null
      <3>2. CASE op = "!="
        BY <3>2, <2>2 DEF ConstraintHolds
      <3>3. CASE op \notin {"=", "!="}
        BY <3>3 DEF ConstraintHolds
      <3> QED
        BY <3>1, <3>2, <3>3
    <2>4. Decides(MongoMatch(op, v, w),
                  IF op = "!=" THEN v # w ELSE v # Null /\ Holds(op, v, w))
      BY <1>0, <2>1, CompareAgrees
    <2> QED
      BY <1>0, <2>3, <2>4 DEF Decides
  <1> QED
    BY <1>1, <1>2

(* IN is unknown for NULL only, and NOT IN holds for the other numbers.    *)
LEMMA InAgrees ==
    ASSUME NEW v \in Cells, NEW ws \in SUBSET Nat
    PROVE  /\ Agrees(In(v, ws), v \in ws, v)
           /\ SqlNot(In(v, ws)) \in Truths
           /\ v # Null => (SqlNot(In(v, ws)) = "T" <=> v \notin ws)
           /\ SqlNot(In(v, ws)) = "U" => v = Null
  <1> DEFINE ts == {SqlCompare("=", v, w) : w \in ws}
  <1>1. \A w \in ws : Agrees(SqlCompare("=", v, w), v # Null /\ Holds("=", v, w), v)
    BY CompareAgrees DEF ComparisonOperator
  <1>2. \A w \in ws : w # Null /\ (Holds("=", v, w) <=> v = w)
    BY DEF Holds, Null
  <1>3. ts \in SUBSET Truths
    BY <1>1 DEF Agrees
  <1>4. /\ "T" \in ts <=> v \in ws
        /\ "U" \in ts => v = Null
    BY <1>1, <1>2 DEF Agrees
  <1>5. In(v, ws) = SqlOr(ts)
    BY DEF In
  <1> HIDE DEF ts
  <1> QED
    BY <1>3, <1>4, <1>5, Connectives DEF Agrees, Truths, SqlNot

\* A comparison that the SQL dialects write as it is.
SqlExact(c, ts) ==
    /\ IsComparison(c.operator, c.value, ts)
    /\ c.value.kind # "null"
    /\ c.operator # "!="
    /\ ts /\ IsDateOnly(c.value) => c.operator \in Ordering

ConstraintTrue(c, ts, v) == ConstraintHolds(c.operator, c.value, ts, v)

(* A comparison of a value set, lowered and inverted.                      *)
LEMMA ComparedAgrees ==
    ASSUME NEW ts \in BOOLEAN, NEW v \in Cells, NEW c, SqlExact(c, ts)
    PROVE  /\ Agrees(Compared(c, v), ConstraintTrue(c, ts, v), v)
           /\ Agrees(Inverted(c, v), v # Null /\ ~ConstraintTrue(c, ts, v), v)
  BY ConstraintAgrees DEF SqlExact, Compared, Inverted, ConstraintTrue

(* A compound constraint: all of its comparisons, or the inverse of one.   *)
LEMMA CompoundAgrees ==
    ASSUME NEW ts \in BOOLEAN, NEW v \in Cells, NEW cs,
           \A c \in cs : SqlExact(c, ts)
    PROVE  /\ Agrees(SqlAnd({Compared(c, v) : c \in cs}),
                     \A c \in cs : ConstraintTrue(c, ts, v), v)
           /\ Agrees(SqlOr({Inverted(c, v) : c \in cs}),
                     v # Null /\ ~(\A c \in cs : ConstraintTrue(c, ts, v)), v)
  <1> DEFINE as == {Compared(c, v) : c \in cs}
             os == {Inverted(c, v) : c \in cs}
  <1>1. \A c \in cs : /\ Agrees(Compared(c, v), ConstraintTrue(c, ts, v), v)
                      /\ Agrees(Inverted(c, v), v # Null /\ ~ConstraintTrue(c, ts, v), v)
    BY ComparedAgrees
  <1>2. as \in SUBSET Truths /\ os \in SUBSET Truths
    BY <1>1 DEF Agrees
  <1>3. /\ (\A t \in as : t = "T") <=> (\A c \in cs : ConstraintTrue(c, ts, v))
        /\ "U" \in as => v = Null
    BY <1>1 DEF Agrees
  <1>4. /\ "T" \in os <=> v # Null /\ ~(\A c \in cs : ConstraintTrue(c, ts, v))
        /\ "U" \in os => v = Null
    BY <1>1 DEF Agrees
  <1> HIDE DEF as, os
  <1>5. Agrees(SqlAnd(as), \A c \in cs : ConstraintTrue(c, ts, v), v)
    BY <1>2, <1>3, Connectives DEF Agrees
  <1>6. Agrees(SqlOr(os), v # Null /\ ~(\A c \in cs : ConstraintTrue(c, ts, v)), v)
    BY <1>2, <1>4, Connectives DEF Agrees
  <1> QED
    BY <1>5, <1>6 DEF as, os

(* The comparisons of an element of an exact form.                         *)
LEMMA ExactParts ==
    ASSUME NEW d \in Dialects \ {"mongodb"}, NEW ts \in BOOLEAN, NEW e, IsElement(e, ts),
           ExactEqElement(d, e, ts) \/ ExactNeqElement(d, e, ts)
    PROVE  /\ e.kind = "cmp" => SqlExact(e, ts)
           /\ e.kind = "and" => \A c \in ToSet(e.constraints) : SqlExact(c, ts)
  <1>1. d # "mongodb"
    OBVIOUS
  <1>2. CASE e.kind = "cmp"
    <2>1. IsComparison(e.operator, e.value, ts)
      BY <1>2 DEF IsElement
    <2>2. ExactConstraint(d, e, ts)
      BY <1>1, <1>2 DEF ExactEqElement, ExactNeqElement
    <2> QED
      BY <1>1, <1>2, <2>1, <2>2 DEF ExactConstraint, SqlExact
  <1>3. CASE e.kind = "and"
    <2>1. \A i \in DOMAIN e.constraints :
             IsComparison(e.constraints[i].operator, e.constraints[i].value, ts)
      BY <1>3 DEF IsElement
    <2>2. \A i \in DOMAIN e.constraints : ExactConstraint(d, e.constraints[i], ts)
      BY <1>1, <1>3 DEF ExactEqElement, ExactNeqElement, ToSet
    <2>3. \A i \in DOMAIN e.constraints : SqlExact(e.constraints[i], ts)
      BY <1>1, <2>1, <2>2 DEF ExactConstraint, SqlExact
    <2> QED
      BY <1>3, <2>3 DEF ToSet
  <1> QED
    BY <1>2, <1>3

-----------------------------------------------------------------------------
(* The elements of a value set in the SQL dialects *)

\* A value that is compared as it is written, and an element that is not one.
Plain(e, ts) == e.kind \in {"lit", "today", "now"} \/ (e.kind = "day" /\ ~ts)
Other(e, ts) == e.kind \in {"range", "cmp", "and"} \/ (e.kind = "day" /\ ts)

(* What the language says of an element, by its kind.                      *)
LEMMA ElementMeans ==
    ASSUME NEW ts \in BOOLEAN, NEW v \in Cells, NEW e, IsElement(e, ts)
    PROVE  /\ e.kind = "range" => (ElementHolds(e, ts, v) <=>
                v # Null /\ lower_literal(e.start) <= v /\ v <= lower_literal(e.end))
           /\ e.kind = "cmp" => (ElementHolds(e, ts, v) <=> ConstraintTrue(e, ts, v))
           /\ e.kind = "and" => (ElementHolds(e, ts, v) <=>
                \A c \in ToSet(e.constraints) : ConstraintTrue(c, ts, v))
           /\ e.kind = "null" => (ElementHolds(e, ts, v) <=> v = Null)
           /\ e.kind = "day" /\ ts => (ElementHolds(e, ts, v) <=> LiteralEquals(e, TRUE, v))
           /\ Plain(e, ts) => (ElementHolds(e, ts, v) <=> v = lower_literal(e))
           /\ e.kind \in {"range", "cmp", "and", "null", "lit", "day", "today", "now"}
           /\ e.kind = "null" \/ Plain(e, ts) \/ Other(e, ts)
  <1>1. e.kind = "range" => (ElementHolds(e, ts, v) <=>
                v # Null /\ lower_literal(e.start) <= v /\ v <= lower_literal(e.end))
    BY DEF ElementHolds
  <1>2. e.kind = "cmp" => (ElementHolds(e, ts, v) <=> ConstraintTrue(e, ts, v))
    BY DEF ElementHolds, ConstraintTrue
  <1>3. e.kind = "and" => (ElementHolds(e, ts, v) <=>
                \A c \in ToSet(e.constraints) : ConstraintTrue(c, ts, v))
    BY DEF ElementHolds, ConstraintTrue
  <1>4. e.kind \in {"null", "lit", "day", "today", "now"} =>
           (ElementHolds(e, ts, v) <=> LiteralEquals(e, ts, v))
    BY DEF ElementHolds
  <1>5. e.kind \notin {"range", "cmp", "and"} => IsLiteral(e, ts)
    BY DEF IsElement
  <1> QED
    BY <1>1, <1>2, <1>3, <1>4, <1>5 DEF LiteralEquals, IsLiteral, Plain, Other

(* An element that is a plain value denotes a number.                      *)
LEMMA PlainElement ==
    ASSUME NEW ts \in BOOLEAN, NEW e, IsElement(e, ts)
    PROVE  /\ e.kind \in {"lit", "day", "today", "now"} => lower_literal(e) \in Nat
           /\ e.kind = "day" => IsLiteral(e, TRUE)
           /\ e.kind = "range" => lower_literal(e.start) \in Nat /\ lower_literal(e.end) \in Nat
  <1>1. e.kind \in {"lit", "day", "today", "now"} => IsLiteral(e, ts)
    BY DEF IsElement
  <1>2. e.kind = "range" => IsValue(e.start, ts) /\ IsValue(e.end, ts)
    BY DEF IsElement
  <1>3. e.kind \in {"lit", "day", "today", "now"} => IsValue(e, ts)
    BY <1>1 DEF IsValue
  <1> QED
    BY <1>1, <1>2, <1>3, LiteralType DEF IsLiteral

(* IS NULL and IS NOT NULL are never unknown.                              *)
LEMMA NullTests ==
    ASSUME NEW v
    PROVE  /\ IsNull(v) = IF v = Null THEN "T" ELSE "F"
           /\ IsNotNull(v) = IF v = Null THEN "F" ELSE "T"
  BY DEF IsNull, IsNotNull, Truth

(* PostgreSQL, `=`.                                                        *)
LEMMA PgElementEqAgrees ==
    ASSUME NEW ts \in BOOLEAN, NEW v \in Cells, NEW e,
           IsElement(e, ts), ExactEqElement("postgresql", e, ts)
    PROVE  Agrees(PgElementEq(e, ts, v), ElementHolds(e, ts, v), v)
  <1>1. CASE e.kind = "null"
    <2>1. PgElementEq(e, ts, v) = IsNull(v)
      BY <1>1 DEF PgElementEq
    <2> QED
      BY <1>1, <2>1, NullTests, ElementMeans DEF Agrees, Truths
  <1>2. CASE e.kind = "range"
    <2>1. PgElementEq(e, ts, v) = Between(v, lower_literal(e.start), lower_literal(e.end))
      BY <1>2 DEF PgElementEq
    <2>2. ElementHolds(e, ts, v) <=>
             v # Null /\ lower_literal(e.start) <= v /\ v <= lower_literal(e.end)
      BY <1>2, ElementMeans
    <2>3. lower_literal(e.start) \in Nat /\ lower_literal(e.end) \in Nat
      BY <1>2, PlainElement
    <2>4. Agrees(PgElementEq(e, ts, v),
                 v # Null /\ lower_literal(e.start) <= v /\ v <= lower_literal(e.end), v)
      BY <2>1, <2>3, RangeAgrees
    <2> QED
      BY <2>2, <2>4 DEF Agrees
  <1>3. CASE e.kind = "cmp"
    <2>1. SqlExact(e, ts)
      BY <1>3, ExactParts DEF Dialects
    <2>2. PgElementEq(e, ts, v) = Compared(e, v)
      BY <1>3, <2>1 DEF PgElementEq, SqlExact, Ordering
    <2>3. ElementHolds(e, ts, v) <=> ConstraintTrue(e, ts, v)
      BY <1>3, ElementMeans
    <2>4. Agrees(PgElementEq(e, ts, v), ConstraintTrue(e, ts, v), v)
      BY <2>1, <2>2, ComparedAgrees
    <2> QED
      BY <2>3, <2>4 DEF Agrees
  <1>4. CASE e.kind = "and"
    <2>1. \A c \in ToSet(e.constraints) : SqlExact(c, ts)
      BY <1>4, ExactParts DEF Dialects
    <2>2. PgElementEq(e, ts, v) = SqlAnd({Compared(c, v) : c \in ToSet(e.constraints)})
      BY <1>4 DEF PgElementEq
    <2>3. ElementHolds(e, ts, v) <=> \A c \in ToSet(e.constraints) : ConstraintTrue(c, ts, v)
      BY <1>4, ElementMeans
    <2>4. Agrees(PgElementEq(e, ts, v), \A c \in ToSet(e.constraints) : ConstraintTrue(c, ts, v), v)
      BY <2>1, <2>2, CompoundAgrees
    <2> QED
      BY <2>3, <2>4 DEF Agrees
  <1>5. CASE e.kind = "day" /\ ts
    <2>1. ts /\ IsLiteral(e, TRUE)
      BY <1>5, PlainElement
    <2>2. PgElementEq(e, ts, v) = InDay(e, v)
      BY <1>5, <2>1 DEF PgElementEq
    <2>3. ElementHolds(e, ts, v) <=> LiteralEquals(e, TRUE, v)
      BY <1>5, <2>1, ElementMeans
    <2>4. Agrees(PgElementEq(e, ts, v), LiteralEquals(e, TRUE, v), v)
      BY <1>5, <2>1, <2>2, DayAgrees
    <2> QED
      BY <2>3, <2>4 DEF Agrees
  <1>6. CASE Plain(e, ts)
    <2>1. PgElementEq(e, ts, v) = SqlCompare("=", v, lower_literal(e))
      BY <1>6 DEF PgElementEq, Plain
    <2>2. lower_literal(e) \in Nat
      BY <1>6, PlainElement DEF Plain
    <2>3. Agrees(PgElementEq(e, ts, v), v # Null /\ Holds("=", v, lower_literal(e)), v)
      BY <2>1, <2>2, CompareAgrees DEF ComparisonOperator
    <2>4. v # Null /\ Holds("=", v, lower_literal(e)) <=> v = lower_literal(e)
      BY <2>2 DEF Holds, Null
    <2> QED
      BY <1>6, <2>3, <2>4, ElementMeans DEF Agrees
  <1> QED
    BY <1>1, <1>2, <1>3, <1>4, <1>5, <1>6, ElementMeans DEF Plain

(* PostgreSQL, `!=`: each conjunct also holds for NULL.                    *)
LEMMA PgElementNeqAgrees ==
    ASSUME NEW ts \in BOOLEAN, NEW v \in Cells, NEW e,
           IsElement(e, ts), ExactNeqElement("postgresql", e, ts)
    PROVE  Agrees(PgElementNeq(e, v), ~ElementHolds(e, ts, v), v)
  <1>0. /\ e.kind # "and"
        /\ e.kind = "day" => ~ts
        /\ ElementHolds(e, ts, v) /\ v = Null => e.kind = "null"
    <2>1. e.kind # "and" /\ (e.kind = "day" => ~ts)
      BY DEF ExactNeqElement
    <2>2. e.kind = "cmp" => SqlExact(e, ts)
      BY ExactParts DEF Dialects
    <2>3. e.kind = "cmp" => ~(ElementHolds(e, ts, v) /\ v = Null)
      BY <2>2, ElementMeans, ComparedAgrees DEF Agrees, Compared, SqlCompare
    <2>4. Plain(e, ts) => ~(ElementHolds(e, ts, v) /\ v = Null)
      <3>1. Plain(e, ts) => (ElementHolds(e, ts, v) <=> v = lower_literal(e))
        BY ElementMeans
      <3>2. Plain(e, ts) => lower_literal(e) \in Nat
        BY PlainElement DEF Plain
      <3> QED
        BY <3>1, <3>2 DEF Null
    <2> QED
      BY <2>1, <2>3, <2>4, ElementMeans DEF Plain
  <1>1. CASE e.kind = "null"
    <2>1. PgElementNeq(e, v) = IsNotNull(v)
      BY <1>1 DEF PgElementNeq
    <2> QED
      BY <1>1, <2>1, NullTests, ElementMeans DEF Agrees, Truths
  <1>2. CASE e.kind = "range"
    <2> DEFINE a == lower_literal(e.start)
               b == lower_literal(e.end)
               s == SqlCompare("<", v, a)
               t == SqlCompare(">", v, b)
    <2>1. PgElementNeq(e, v) = SqlOr({s, t, IsNull(v)})
      BY <1>2 DEF PgElementNeq
    <2>2. a \in Nat /\ b \in Nat
      BY <1>2, PlainElement
    <2>3. ElementHolds(e, ts, v) <=> v # Null /\ a <= v /\ v <= b
      BY <1>2, ElementMeans
    <2> HIDE DEF a, b
    <2>4. /\ Agrees(s, v # Null /\ Holds("<", v, a), v)
          /\ Agrees(t, v # Null /\ Holds(">", v, b), v)
      BY <2>2, CompareAgrees DEF ComparisonOperator
    <2>5. (Holds("<", v, a) <=> v < a) /\ (Holds(">", v, b) <=> v > b)
      BY DEF Holds
    <2>6. v # Null => (v < a <=> ~(a <= v)) /\ (v > b <=> ~(v <= b))
      BY <2>2 DEF Cells
    <2> HIDE DEF s, t
    <2>7. /\ {s, t, IsNull(v)} \in SUBSET Truths
          /\ "U" \in {s, t, IsNull(v)} => v = Null
          /\ "T" \in {s, t, IsNull(v)} <=> ~(v # Null /\ a <= v /\ v <= b)
      BY <2>4, <2>5, <2>6, NullTests DEF Agrees, Truths
    <2> QED
      BY <2>1, <2>3, <2>7, Connectives DEF Agrees
  <1>3. CASE e.kind = "cmp"
    <2>1. SqlExact(e, ts)
      BY <1>3, ExactParts DEF Dialects
    <2>2. PgElementNeq(e, v) = SqlOr({Inverted(e, v), IsNull(v)})
      BY <1>3, <2>1 DEF PgElementNeq, SqlExact
    <2>3. Agrees(Inverted(e, v), v # Null /\ ~ElementHolds(e, ts, v), v)
      <3>1. ElementHolds(e, ts, v) <=> ConstraintTrue(e, ts, v)
        BY <1>3, ElementMeans
      <3>2. Agrees(Inverted(e, v), v # Null /\ ~ConstraintTrue(e, ts, v), v)
        BY <2>1, ComparedAgrees
      <3> QED
        BY <3>1, <3>2 DEF Agrees
    <2>4. /\ {Inverted(e, v), IsNull(v)} \in SUBSET Truths
          /\ "U" \in {Inverted(e, v), IsNull(v)} => v = Null
          /\ "T" \in {Inverted(e, v), IsNull(v)} <=> ~ElementHolds(e, ts, v)
      BY <1>0, <1>3, <2>3, NullTests DEF Agrees, Truths
    <2> QED
      BY <2>2, <2>4, Connectives DEF Agrees
  <1>4. CASE Plain(e, ts)
    <2> DEFINE t == SqlCompare("!=", v, lower_literal(e))
    <2>1. PgElementNeq(e, v) = SqlOr({t, IsNull(v)})
      BY <1>4 DEF PgElementNeq, Plain
    <2>2. lower_literal(e) \in Nat
      BY <1>4, PlainElement DEF Plain
    <2>3. Agrees(t, v # Null /\ Holds("!=", v, lower_literal(e)), v)
      BY <2>2, CompareAgrees DEF ComparisonOperator
    <2>4. Holds("!=", v, lower_literal(e)) <=> ~ElementHolds(e, ts, v)
      BY <1>4, ElementMeans DEF Holds
    <2> HIDE DEF t
    <2>5. /\ {t, IsNull(v)} \in SUBSET Truths
          /\ "U" \in {t, IsNull(v)} => v = Null
          /\ "T" \in {t, IsNull(v)} <=> ~ElementHolds(e, ts, v)
      BY <1>0, <1>4, <2>3, <2>4, NullTests DEF Agrees, Truths, Plain
    <2> QED
      BY <2>1, <2>5, Connectives DEF Agrees
  <1> QED
    BY <1>0, <1>1, <1>2, <1>3, <1>4, ElementMeans DEF Plain

(* MySQL, the elements that are not parameters of an IN.                   *)
LEMMA MySqlElementAgrees ==
    ASSUME NEW ts \in BOOLEAN, NEW v \in Cells, NEW e,
           IsElement(e, ts), Other(e, ts),
           ExactEqElement("mysql", e, ts) \/ ExactNeqElement("mysql", e, ts)
    PROVE  /\ Agrees(MySqlElementEq(e, v), ElementHolds(e, ts, v), v)
           /\ Agrees(MySqlElementNeq(e, v), v # Null /\ ~ElementHolds(e, ts, v), v)
  <1>0. "mysql" \in Dialects \ {"mongodb"}
    BY DEF Dialects
  <1>1. CASE e.kind = "range"
    <2> DEFINE a == lower_literal(e.start)
               b == lower_literal(e.end)
    <2>1. /\ MySqlElementEq(e, v) = Between(v, a, b)
          /\ MySqlElementNeq(e, v) = SqlNot(Between(v, a, b))
      BY <1>1 DEF MySqlElementEq, MySqlElementNeq
    <2>2. ElementHolds(e, ts, v) <=> v # Null /\ a <= v /\ v <= b
      BY <1>1, ElementMeans
    <2>3. a \in Nat /\ b \in Nat
      BY <1>1, PlainElement
    <2> HIDE DEF a, b
    <2>4. /\ Agrees(MySqlElementEq(e, v), v # Null /\ a <= v /\ v <= b, v)
          /\ Agrees(MySqlElementNeq(e, v), v # Null /\ ~(a <= v /\ v <= b), v)
      BY <2>1, <2>3, RangeAgrees
    <2> QED
      BY <2>2, <2>4 DEF Agrees
  <1>2. CASE e.kind = "cmp"
    <2>1. SqlExact(e, ts)
      BY <1>0, <1>2, ExactParts
    <2>2. MySqlElementEq(e, v) = Compared(e, v) /\ MySqlElementNeq(e, v) = Inverted(e, v)
      BY <1>2 DEF MySqlElementEq, MySqlElementNeq
    <2>3. ElementHolds(e, ts, v) <=> ConstraintTrue(e, ts, v)
      BY <1>2, ElementMeans
    <2>4. /\ Agrees(MySqlElementEq(e, v), ConstraintTrue(e, ts, v), v)
          /\ Agrees(MySqlElementNeq(e, v), v # Null /\ ~ConstraintTrue(e, ts, v), v)
      BY <2>1, <2>2, ComparedAgrees
    <2> QED
      BY <2>3, <2>4 DEF Agrees
  <1>3. CASE e.kind = "and"
    <2> DEFINE cs == ToSet(e.constraints)
    <2>1. \A c \in cs : SqlExact(c, ts)
      BY <1>0, <1>3, ExactParts
    <2>2. /\ MySqlElementEq(e, v) = SqlAnd({Compared(c, v) : c \in cs})
          /\ MySqlElementNeq(e, v) = SqlOr({Inverted(c, v) : c \in cs})
      BY <1>3 DEF MySqlElementEq, MySqlElementNeq
    <2>3. ElementHolds(e, ts, v) <=> \A c \in cs : ConstraintTrue(c, ts, v)
      BY <1>3, ElementMeans
    <2> HIDE DEF cs
    <2>4. /\ Agrees(MySqlElementEq(e, v), \A c \in cs : ConstraintTrue(c, ts, v), v)
          /\ Agrees(MySqlElementNeq(e, v), v # Null /\ ~(\A c \in cs : ConstraintTrue(c, ts, v)), v)
      BY <2>1, <2>2, CompoundAgrees
    <2> QED
      BY <2>3, <2>4 DEF Agrees
  <1>4. CASE e.kind = "day" /\ ts
    <2>1. ts /\ IsLiteral(e, TRUE)
      BY <1>4, PlainElement
    <2>2. MySqlElementEq(e, v) = InDay(e, v) /\ MySqlElementNeq(e, v) = NotInDay(e, v)
      BY <1>4 DEF MySqlElementEq, MySqlElementNeq
    <2>3. ElementHolds(e, ts, v) <=> LiteralEquals(e, TRUE, v)
      BY <1>4, <2>1, ElementMeans
    <2>4. /\ Agrees(MySqlElementEq(e, v), LiteralEquals(e, TRUE, v), v)
          /\ Agrees(MySqlElementNeq(e, v), v # Null /\ ~LiteralEquals(e, TRUE, v), v)
      BY <1>4, <2>1, <2>2, DayAgrees
    <2> QED
      BY <2>3, <2>4 DEF Agrees
  <1> QED
    BY <1>1, <1>2, <1>3, <1>4 DEF Other

-----------------------------------------------------------------------------
(* Value sets in the SQL dialects *)

AnyHolds(els, ts, v) == \E e \in els : ElementHolds(e, ts, v)

(* A value set of plain literals is one list of numbers.                   *)
LEMMA PlainSet ==
    ASSUME NEW ts \in BOOLEAN, NEW v \in Cells, NEW S,
           \A e \in S : IsElement(e, ts) /\ Plain(e, ts)
    PROVE  /\ {lower_literal(e) : e \in S} \in SUBSET Nat
           /\ v \in {lower_literal(e) : e \in S} <=> AnyHolds(S, ts, v)
           /\ AnyHolds(S, ts, v) => v # Null
  <1>1. \A e \in S : lower_literal(e) \in Nat
    BY PlainElement DEF Plain
  <1>2. \A e \in S : ElementHolds(e, ts, v) <=> v = lower_literal(e)
    BY ElementMeans
  <1> QED
    BY <1>1, <1>2 DEF AnyHolds, Null

(* NULL as an element of a value set.                                      *)
LEMMA NullElement ==
    ASSUME NEW ts \in BOOLEAN, NEW v \in Cells, NEW els, \A e \in els : IsElement(e, ts)
    PROVE  AnyHolds(els, ts, v) <=> (HasNull(els) /\ v = Null) \/ AnyHolds(NonNull(els), ts, v)
  <1>1. \A e \in els : e.kind = "null" => (ElementHolds(e, ts, v) <=> v = Null)
    BY ElementMeans
  <1> QED
    BY <1>1 DEF AnyHolds, HasNull, NonNull

(* PostgreSQL, `=` with a value set.                                       *)
LEMMA PgSetEqAgrees ==
    ASSUME NEW ts \in BOOLEAN, NEW v \in Cells, NEW els,
           \A e \in els : IsElement(e, ts) /\ ExactEqElement("postgresql", e, ts)
    PROVE  Agrees(PgSetEq(els, ts, v), AnyHolds(els, ts, v), v)
  <1>1. CASE PgSimple(els, ts)
    <2> DEFINE S == NonNull(els)
               ws == {lower_literal(e) : e \in S}
               os == {In(v, ws)} \cup OnlyIf(HasNull(els), IsNull(v))
    <2>1. PgSetEq(els, ts, v) = SqlOr(os)
      BY <1>1 DEF PgSetEq
    <2>2. \A e \in S : IsElement(e, ts) /\ Plain(e, ts)
      <3>1. \A e \in S : IsElement(e, ts) /\ e.kind \in {"lit", "day"} /\ ~(ts /\ IsDateOnly(e))
        BY <1>1 DEF PgSimple, NonNull
      <3> QED
        BY <3>1 DEF IsDateOnly, Plain
    <2>3. AnyHolds(els, ts, v) <=> (HasNull(els) /\ v = Null) \/ AnyHolds(S, ts, v)
      BY NullElement
    <2> HIDE DEF S
    <2>4. /\ ws \in SUBSET Nat
          /\ v \in ws <=> AnyHolds(S, ts, v)
      BY <2>2, PlainSet
    <2> HIDE DEF ws
    <2>5. Agrees(In(v, ws), v \in ws, v)
      BY <2>4, InAgrees
    <2>6. /\ os \in SUBSET Truths
          /\ "T" \in os <=> (HasNull(els) /\ v = Null) \/ v \in ws
          /\ "U" \in os => v = Null
      BY <2>5, NullTests DEF Agrees, Truths, OnlyIf
    <2> HIDE DEF os
    <2> QED
      BY <2>1, <2>3, <2>4, <2>6, Connectives DEF Agrees
  <1>2. CASE ~PgSimple(els, ts)
    <2> DEFINE os == {PgElementEq(e, ts, v) : e \in els}
    <2>1. PgSetEq(els, ts, v) = SqlOr(os)
      BY <1>2 DEF PgSetEq
    <2>2. \A e \in els : Agrees(PgElementEq(e, ts, v), ElementHolds(e, ts, v), v)
      BY PgElementEqAgrees
    <2>3. /\ os \in SUBSET Truths
          /\ "T" \in os <=> AnyHolds(els, ts, v)
          /\ "U" \in os => v = Null
      BY <2>2 DEF Agrees, AnyHolds
    <2> HIDE DEF os
    <2> QED
      BY <2>1, <2>3, Connectives DEF Agrees
  <1> QED
    BY <1>1, <1>2

(* PostgreSQL, `!=` with a value set.                                      *)
LEMMA PgSetNeqAgrees ==
    ASSUME NEW ts \in BOOLEAN, NEW v \in Cells, NEW els,
           \A e \in els : IsElement(e, ts) /\ ExactNeqElement("postgresql", e, ts)
    PROVE  Agrees(PgSetNeq(els, ts, v), ~AnyHolds(els, ts, v), v)
  <1>1. CASE PgSimple(els, ts)
    <2> DEFINE S == NonNull(els)
               ws == {lower_literal(e) : e \in S}
               notIn == SqlNot(In(v, ws))
    <2>1. PgSetNeq(els, ts, v) = IF HasNull(els) THEN SqlAnd({notIn, IsNotNull(v)})
                                                 ELSE SqlOr({notIn, IsNull(v)})
      BY <1>1 DEF PgSetNeq
    <2>2. \A e \in S : IsElement(e, ts) /\ Plain(e, ts)
      <3>1. \A e \in S : IsElement(e, ts) /\ e.kind \in {"lit", "day"} /\ ~(ts /\ IsDateOnly(e))
        BY <1>1 DEF PgSimple, NonNull
      <3> QED
        BY <3>1 DEF IsDateOnly, Plain
    <2>3. AnyHolds(els, ts, v) <=> (HasNull(els) /\ v = Null) \/ AnyHolds(S, ts, v)
      BY NullElement
    <2> HIDE DEF S
    <2>4. /\ ws \in SUBSET Nat
          /\ v \in ws <=> AnyHolds(S, ts, v)
          /\ AnyHolds(S, ts, v) => v # Null
      BY <2>2, PlainSet
    <2> HIDE DEF ws
    <2>5. /\ notIn \in Truths
          /\ v # Null => (notIn = "T" <=> v \notin ws)
          /\ notIn = "U" => v = Null
      BY <2>4, InAgrees
    <2> HIDE DEF notIn
    <2>6. CASE HasNull(els)
      <3>1. /\ {notIn, IsNotNull(v)} \in SUBSET Truths
            /\ (\A t \in {notIn, IsNotNull(v)} : t = "T") <=> v # Null /\ v \notin ws
            /\ "U" \in {notIn, IsNotNull(v)} => v = Null
        BY <2>5, NullTests DEF Truths
      <3> QED
        BY <2>1, <2>3, <2>4, <2>6, <3>1, Connectives DEF Agrees
    <2>7. CASE ~HasNull(els)
      <3>1. /\ {notIn, IsNull(v)} \in SUBSET Truths
            /\ "T" \in {notIn, IsNull(v)} <=> v = Null \/ v \notin ws
            /\ "U" \in {notIn, IsNull(v)} => v = Null
        BY <2>5, NullTests DEF Truths
      <3> QED
        BY <2>1, <2>3, <2>4, <2>7, <3>1, Connectives DEF Agrees
    <2> QED
      BY <2>6, <2>7
  <1>2. CASE ~PgSimple(els, ts)
    <2> DEFINE as == {PgElementNeq(e, v) : e \in els}
    <2>1. PgSetNeq(els, ts, v) = SqlAnd(as)
      BY <1>2 DEF PgSetNeq
    <2>2. \A e \in els : Agrees(PgElementNeq(e, v), ~ElementHolds(e, ts, v), v)
      BY PgElementNeqAgrees
    <2>3. /\ as \in SUBSET Truths
          /\ (\A t \in as : t = "T") <=> ~AnyHolds(els, ts, v)
          /\ "U" \in as => v = Null
      BY <2>2 DEF Agrees, AnyHolds
    <2> HIDE DEF as
    <2>4. /\ SqlAnd(as) \in Truths
          /\ SqlAnd(as) = "T" <=> \A t \in as : t = "T"
          /\ SqlAnd(as) = "U" => "U" \in as
      BY <2>3, Connectives
    <2> QED
      BY <2>1, <2>3, <2>4 DEF Agrees
  <1> QED
    BY <1>1, <1>2

(* The parameters of an IN in MySQL are plain values, and denote           *)
(* themselves; the other elements are ranges, comparisons and days.        *)
LEMMA MySqlParts ==
    ASSUME NEW ts \in BOOLEAN, NEW els,
           \A e \in els : IsElement(e, ts),
           \A e \in els : ExactEqElement("mysql", e, ts) \/ ExactNeqElement("mysql", e, ts)
    PROVE  /\ \A e \in SimpleScalars(els, ts) : Plain(e, ts)
           /\ {convert_literal_to_parameter(e) : e \in SimpleScalars(els, ts)}
                = {lower_literal(e) : e \in SimpleScalars(els, ts)}
           /\ \A e \in NonNull(els) \ SimpleScalars(els, ts) : Other(e, ts)
           /\ SimpleScalars(els, ts) \subseteq NonNull(els)
  <1>2. \A e \in els : e.kind \notin {"today", "now"}
    BY DEF ExactEqElement, ExactNeqElement, Keyword
  <1>3. \A e \in SimpleScalars(els, ts) : e \in els /\ Plain(e, ts)
    BY DEF SimpleScalars, IsDateOnly, Plain
  <1>4. \A e \in SimpleScalars(els, ts) : convert_literal_to_parameter(e) = lower_literal(e)
    BY <1>2, <1>3 DEF convert_literal_to_parameter
  <1>5. \A e \in els : e.kind = "null" \/ Plain(e, ts) \/ Other(e, ts)
    BY ElementMeans DEF Cells, Null
  <1>6. \A e \in NonNull(els) \ SimpleScalars(els, ts) : Other(e, ts)
    BY <1>5 DEF NonNull, SimpleScalars, IsDateOnly, Plain
  <1> QED
    BY <1>3, <1>4, <1>6 DEF NonNull, Plain

(* No element but NULL itself holds for NULL.                              *)
LEMMA NeverNull ==
    ASSUME NEW ts \in BOOLEAN, NEW e,
           IsElement(e, ts), Other(e, ts),
           ExactEqElement("mysql", e, ts) \/ ExactNeqElement("mysql", e, ts)
    PROVE  ~ElementHolds(e, ts, Null)
  <1>1. Null \in Cells
    BY DEF Cells
  <1>2. Agrees(MySqlElementEq(e, Null), ElementHolds(e, ts, Null), Null)
    BY <1>1, MySqlElementAgrees
  <1>3. MySqlElementEq(e, Null) # "T"
    <2>1. \A op, w : SqlCompare(op, Null, w) = "U"
      BY DEF SqlCompare
    <2>2. CASE e.kind # "and"
      BY <2>1, <2>2 DEF MySqlElementEq, Between, InDay, Compared, SqlAnd, Other
    <2>3. CASE e.kind = "and"
      <3>1. 1 \in DOMAIN e.constraints
        BY <2>3 DEF IsElement
      <3>2. Compared(e.constraints[1], Null) = "U"
        BY <2>1 DEF Compared
      <3>3. "U" \in {Compared(c, Null) : c \in ToSet(e.constraints)}
        BY <3>1, <3>2 DEF ToSet
      <3> QED
        BY <2>3, <3>3 DEF MySqlElementEq, SqlAnd
    <2> QED
      BY <2>2, <2>3
  <1> QED
    BY <1>2, <1>3 DEF Agrees

(* MySQL, `=` with a value set.                                            *)
LEMMA MySqlSetEqAgrees ==
    ASSUME NEW ts \in BOOLEAN, NEW v \in Cells, NEW els,
           \A e \in els : IsElement(e, ts),
           \A e \in els : ExactEqElement("mysql", e, ts)
    PROVE  Agrees(MySqlSetEq(els, ts, v), AnyHolds(els, ts, v), v)
  <1> DEFINE S == SimpleScalars(els, ts)
             R == NonNull(els) \ S
             ws == {lower_literal(e) : e \in S}
             ns == OnlyIf(HasNull(els), IsNull(v))
             ss == OnlyIf(S # {}, In(v, ws))
             rs == {MySqlElementEq(e, v) : e \in R}
  <1>1. /\ \A e \in S : Plain(e, ts)
        /\ {convert_literal_to_parameter(e) : e \in S} = ws
        /\ \A e \in R : Other(e, ts)
        /\ S \subseteq NonNull(els)
    BY MySqlParts
  <1>2. MySqlSetEq(els, ts, v) = SqlOr(ns \cup ss \cup rs)
    BY <1>1 DEF MySqlSetEq
  <1>4. \A e \in R : Agrees(MySqlElementEq(e, v), ElementHolds(e, ts, v), v)
    BY <1>1, MySqlElementAgrees DEF NonNull
  <1>5. /\ ws \in SUBSET Nat
        /\ v \in ws <=> AnyHolds(S, ts, v)
    BY <1>1, PlainSet DEF NonNull
  <1>6. AnyHolds(els, ts, v) <=> (HasNull(els) /\ v = Null) \/ AnyHolds(S, ts, v) \/ AnyHolds(R, ts, v)
    <2>1. AnyHolds(els, ts, v) <=> (HasNull(els) /\ v = Null) \/ AnyHolds(NonNull(els), ts, v)
      BY NullElement
    <2>2. AnyHolds(NonNull(els), ts, v) <=> AnyHolds(S, ts, v) \/ AnyHolds(R, ts, v)
      BY <1>1 DEF AnyHolds
    <2> QED
      BY <2>1, <2>2
  <1>7. S = {} => ~AnyHolds(S, ts, v)
    BY DEF AnyHolds
  <1> HIDE DEF S
  <1>8. Agrees(In(v, ws), v \in ws, v)
    <2> HIDE DEF ws
    <2> QED
      BY <1>5, InAgrees
  <1> HIDE DEF ws
  <1>9. /\ ns \in SUBSET Truths
        /\ "T" \in ns <=> HasNull(els) /\ v = Null
        /\ "U" \notin ns
    BY NullTests DEF OnlyIf, Truths
  <1>10. /\ ss \in SUBSET Truths
         /\ "T" \in ss <=> AnyHolds(S, ts, v)
         /\ "U" \in ss => v = Null
    BY <1>5, <1>7, <1>8 DEF OnlyIf, Agrees
  <1>11. /\ rs \in SUBSET Truths
         /\ "T" \in rs <=> AnyHolds(R, ts, v)
         /\ "U" \in rs => v = Null
    BY <1>4 DEF AnyHolds, Agrees
  <1> HIDE DEF R, ns, ss, rs
  <1>12. /\ ns \cup ss \cup rs \in SUBSET Truths
         /\ "T" \in ns \cup ss \cup rs <=> AnyHolds(els, ts, v)
         /\ "U" \in ns \cup ss \cup rs => v = Null
    BY <1>6, <1>9, <1>10, <1>11
  <1>13. Agrees(MySqlSetEq(els, ts, v), AnyHolds(els, ts, v), v)
    BY <1>2, <1>12, Connectives DEF Agrees
  <1> QED
    BY <1>13

(* MySQL, `!=` with a value set.                                           *)
LEMMA MySqlSetNeqAgrees ==
    ASSUME NEW ts \in BOOLEAN, NEW v \in Cells, NEW els,
           \A e \in els : IsElement(e, ts),
           \A e \in els : ExactNeqElement("mysql", e, ts)
    PROVE  Agrees(MySqlSetNeq(els, ts, v), ~AnyHolds(els, ts, v), v)
  <1> DEFINE S == SimpleScalars(els, ts)
             R == NonNull(els) \ S
             ws == {lower_literal(e) : e \in S}
             ss == OnlyIf(S # {}, SqlNot(In(v, ws)))
             rs == {MySqlElementNeq(e, v) : e \in R}
             preds == ss \cup rs
  <1>1. /\ \A e \in S : Plain(e, ts)
        /\ {convert_literal_to_parameter(e) : e \in S} = ws
        /\ \A e \in R : Other(e, ts)
        /\ S \subseteq NonNull(els)
    BY MySqlParts
  <1>2. MySqlSetNeq(els, ts, v) =
           IF HasNull(els) THEN SqlAnd(preds \cup {IsNotNull(v)}) ELSE SqlOr({SqlAnd(preds), IsNull(v)})
    BY <1>1 DEF MySqlSetNeq
  <1>3. \A e \in R : Agrees(MySqlElementNeq(e, v), v # Null /\ ~ElementHolds(e, ts, v), v)
    BY <1>1, MySqlElementAgrees DEF NonNull
  <1>4. /\ ws \in SUBSET Nat
        /\ v \in ws <=> AnyHolds(S, ts, v)
    BY <1>1, PlainSet DEF NonNull
  <1>5. AnyHolds(els, ts, v) <=> (HasNull(els) /\ v = Null) \/ AnyHolds(S, ts, v) \/ AnyHolds(R, ts, v)
    <2>1. AnyHolds(els, ts, v) <=> (HasNull(els) /\ v = Null) \/ AnyHolds(NonNull(els), ts, v)
      BY NullElement
    <2>2. AnyHolds(NonNull(els), ts, v) <=> AnyHolds(S, ts, v) \/ AnyHolds(R, ts, v)
      BY <1>1 DEF AnyHolds
    <2> QED
      BY <2>1, <2>2
  <1>6. v = Null => ~AnyHolds(S, ts, v) /\ ~AnyHolds(R, ts, v)
    <2>1. v = Null => ~AnyHolds(S, ts, v)
      BY <1>4 DEF Null
    <2>2. v = Null => \A e \in R : ~ElementHolds(e, ts, v)
      <3>1. SUFFICES ASSUME v = Null, NEW e \in R PROVE ~ElementHolds(e, ts, v)
        OBVIOUS
      <3>2. IsElement(e, ts) /\ (ExactEqElement("mysql", e, ts) \/ ExactNeqElement("mysql", e, ts))
        BY DEF NonNull
      <3> QED
        BY <1>1, <3>1, <3>2, NeverNull
    <2> QED
      BY <2>1, <2>2 DEF AnyHolds
  <1>7. S = {} => ~AnyHolds(S, ts, v)
    BY DEF AnyHolds
  <1> HIDE DEF S
  <1>8. /\ SqlNot(In(v, ws)) \in Truths
        /\ v # Null => (SqlNot(In(v, ws)) = "T" <=> v \notin ws)
        /\ SqlNot(In(v, ws)) = "U" => v = Null
    <2> HIDE DEF ws
    <2> QED
      BY <1>4, InAgrees
  <1> HIDE DEF ws
  <1>9. /\ ss \in SUBSET Truths
        /\ v # Null => ((\A t \in ss : t = "T") <=> ~AnyHolds(S, ts, v))
        /\ "U" \in ss => v = Null
    BY <1>4, <1>7, <1>8 DEF OnlyIf
  <1>10. /\ rs \in SUBSET Truths
         /\ v # Null => ((\A t \in rs : t = "T") <=> ~AnyHolds(R, ts, v))
         /\ "U" \in rs => v = Null
    BY <1>3 DEF AnyHolds, Agrees
  <1> HIDE DEF R, ss, rs
  <1>11. /\ preds \in SUBSET Truths
         /\ v # Null => ((\A t \in preds : t = "T") <=> ~AnyHolds(S, ts, v) /\ ~AnyHolds(R, ts, v))
         /\ "U" \in preds => v = Null
    BY <1>9, <1>10
  <1> HIDE DEF preds
  <1>12. CASE HasNull(els)
    <2> DEFINE as == preds \cup {IsNotNull(v)}
    <2>1. /\ as \in SUBSET Truths
          /\ (\A t \in as : t = "T") <=> ~AnyHolds(els, ts, v)
          /\ "U" \in as => v = Null
      BY <1>5, <1>11, <1>12, NullTests DEF Truths
    <2> HIDE DEF as
    <2>2. /\ SqlAnd(as) \in Truths
          /\ SqlAnd(as) = "T" <=> \A t \in as : t = "T"
          /\ SqlAnd(as) = "U" => "U" \in as
      BY <2>1, Connectives
    <2>3. MySqlSetNeq(els, ts, v) = SqlAnd(as)
      BY <1>2, <1>12 DEF as
    <2> QED
      BY <2>1, <2>2, <2>3 DEF Agrees
  <1>13. CASE ~HasNull(els)
    <2> DEFINE a == SqlAnd(preds)
               os == {a, IsNull(v)}
    <2>1. /\ a \in Truths
          /\ a = "T" <=> \A t \in preds : t = "T"
          /\ a = "U" => "U" \in preds
      BY <1>11, Connectives
    <2> HIDE DEF a
    <2>2. /\ os \in SUBSET Truths
          /\ "T" \in os <=> ~AnyHolds(els, ts, v)
          /\ "U" \in os => v = Null
      BY <1>5, <1>6, <1>11, <1>13, <2>1, NullTests DEF Truths
    <2> HIDE DEF os
    <2>3. MySqlSetNeq(els, ts, v) = SqlOr(os)
      BY <1>2, <1>13 DEF a, os
    <2> QED
      BY <2>2, <2>3, Connectives DEF Agrees
  <1> QED
    BY <1>12, <1>13

-----------------------------------------------------------------------------
(* MongoDB *)

(* Without an unknown the connectives are Boolean.                         *)
LEMMA TwoValued ==
    ASSUME NEW ts \in SUBSET {"T", "F"}
    PROVE  /\ SqlOr(ts) \in {"T", "F"}
           /\ SqlOr(ts) = "T" <=> "T" \in ts
           /\ SqlAnd(ts) \in {"T", "F"}
           /\ SqlAnd(ts) = "T" <=> \A t \in ts : t = "T"
  BY DEF SqlOr, SqlAnd

(* A range and its complement, for bounds the driver encodes.              *)
LEMMA MongoRangeDecides ==
    ASSUME NEW ts \in BOOLEAN, NEW v \in Cells, NEW a, NEW b,
           IsValue(a, ts), IsValue(b, ts), ~IsDateOnly(a), ~IsDateOnly(b)
    PROVE  LET inside == v # Null /\ lower_literal(a) <= v /\ v <= lower_literal(b)
           IN  /\ Decides(MongoRange(v, a, b), inside)
               /\ Decides(MongoOutside(v, a, b), v # Null /\ ~inside)
  <1> DEFINE x == lower_literal(a)
             y == lower_literal(b)
             s == MongoCompare(">=", v, a)
             t == MongoCompare("<=", v, b)
             s2 == MongoCompare("<", v, a)
             t2 == MongoCompare(">", v, b)
  <1>1. x \in Nat /\ y \in Nat
    BY LiteralType
  <1>2. /\ s = MongoMatch(">=", v, x) /\ t = MongoMatch("<=", v, y)
        /\ s2 = MongoMatch("<", v, x) /\ t2 = MongoMatch(">", v, y)
    BY DEF MongoCompare
  <1>3. /\ MongoRange(v, a, b) = SqlAnd({s, t})
        /\ MongoOutside(v, a, b) = SqlOr({s2, t2})
    BY DEF MongoRange, MongoOutside
  <1> HIDE DEF x, y, s, t, s2, t2
  <1>4. /\ Decides(s, v # Null /\ Holds(">=", v, x))
        /\ Decides(t, v # Null /\ Holds("<=", v, y))
        /\ Decides(s2, v # Null /\ Holds("<", v, x))
        /\ Decides(t2, v # Null /\ Holds(">", v, y))
    BY <1>1, <1>2, CompareAgrees DEF ComparisonOperator
  <1>5. /\ Holds(">=", v, x) <=> v >= x
        /\ Holds("<=", v, y) <=> v <= y
        /\ Holds("<", v, x) <=> v < x
        /\ Holds(">", v, y) <=> v > y
    BY DEF Holds
  <1>6. v # Null => /\ v >= x <=> x <= v
                    /\ v < x <=> ~(x <= v)
                    /\ v > y <=> ~(v <= y)
    BY <1>1 DEF Cells
  <1>7. Decides(SqlAnd({s, t}), v # Null /\ x <= v /\ v <= y)
    BY <1>4, <1>5, <1>6 DEF Decides, SqlAnd
  <1>8. Decides(SqlOr({s2, t2}), v # Null /\ ~(v # Null /\ x <= v /\ v <= y))
    BY <1>4, <1>5, <1>6 DEF Decides, SqlOr
  <1> QED
    BY <1>3, <1>7, <1>8 DEF x, y

(* A compound constraint whose operators differ loses no comparison.       *)
LEMMA MongoCompoundDecides ==
    ASSUME NEW ts \in BOOLEAN, NEW v \in Cells, NEW cs,
           \A i \in DOMAIN cs : IsComparison(cs[i].operator, cs[i].value, ts) /\ ~IsDateOnly(cs[i].value),
           \A i, j \in DOMAIN cs : cs[i].operator = cs[j].operator => i = j,
           DOMAIN cs \subseteq Int
    PROVE  Decides(MongoCompound(cs, v), \A c \in ToSet(cs) : ConstraintTrue(c, ts, v))
  <1> DEFINE as == {MongoCompare(cs[i].operator, v, cs[i].value) : i \in DOMAIN cs}
  <1>1. {j \in DOMAIN cs : \A k \in DOMAIN cs : k > j => cs[k].operator # cs[j].operator} = DOMAIN cs
    OBVIOUS
  <1>2. MongoCompound(cs, v) = SqlAnd(as)
    BY <1>1 DEF MongoCompound
  <1>3. \A i \in DOMAIN cs : Decides(MongoCompare(cs[i].operator, v, cs[i].value), ConstraintTrue(cs[i], ts, v))
    BY ConstraintDecides DEF ConstraintTrue
  <1>4. /\ as \in SUBSET {"T", "F"}
        /\ (\A t \in as : t = "T") <=> \A c \in ToSet(cs) : ConstraintTrue(c, ts, v)
    BY <1>3 DEF Decides, ToSet
  <1> HIDE DEF as
  <1>5. /\ SqlAnd(as) \in {"T", "F"}
        /\ SqlAnd(as) = "T" <=> \A t \in as : t = "T"
    BY <1>4, TwoValued
  <1> QED
    BY <1>2, <1>4, <1>5 DEF Decides

(* The elements of an equality set.                                        *)
LEMMA MongoElementEqDecides ==
    ASSUME NEW ts \in BOOLEAN, NEW v \in Cells, NEW e,
           IsElement(e, ts), ExactEqElement("mongodb", e, ts),
           e.kind \in {"range", "cmp", "and", "day"}
    PROVE  Decides(MongoElementEq(e, v), ElementHolds(e, ts, v))
  <1>1. CASE e.kind = "range"
    <2> DEFINE inside == v # Null /\ lower_literal(e.start) <= v /\ v <= lower_literal(e.end)
    <2>1. /\ IsValue(e.start, ts) /\ IsValue(e.end, ts)
          /\ ~IsDateOnly(e.start) /\ ~IsDateOnly(e.end)
      BY <1>1 DEF IsElement, ExactEqElement, ExactRange, Encodes
    <2>2. Decides(MongoRange(v, e.start, e.end), inside)
      BY <2>1, MongoRangeDecides
    <2>3. ElementHolds(e, ts, v) <=> inside
      BY <1>1, ElementMeans
    <2>4. MongoElementEq(e, v) = MongoRange(v, e.start, e.end)
      BY <1>1 DEF MongoElementEq
    <2> QED
      BY <2>2, <2>3, <2>4 DEF Decides
  <1>2. CASE e.kind = "cmp"
    <2>1. IsComparison(e.operator, e.value, ts) /\ ~IsDateOnly(e.value)
      BY <1>2 DEF IsElement, ExactEqElement, ExactConstraint, Encodes
    <2>2. ElementHolds(e, ts, v) <=> ConstraintTrue(e, ts, v)
      BY <1>2, ElementMeans
    <2>3. Decides(MongoCompare(e.operator, v, e.value), ConstraintTrue(e, ts, v))
      BY <2>1, ConstraintDecides DEF ConstraintTrue
    <2>4. MongoElementEq(e, v) = MongoCompare(e.operator, v, e.value)
      BY <1>2 DEF MongoElementEq
    <2> QED
      BY <2>2, <2>3, <2>4 DEF Decides
  <1>3. CASE e.kind = "and"
    <2> DEFINE cs == e.constraints
    <2>1. \A i \in DOMAIN cs : IsComparison(cs[i].operator, cs[i].value, ts)
      BY <1>3 DEF IsElement
    <2>2. /\ \A i \in DOMAIN cs : ~IsDateOnly(cs[i].value)
          /\ \A i, j \in DOMAIN cs : cs[i].operator = cs[j].operator => i = j
      BY <1>3 DEF ExactEqElement, ExactConstraint, Encodes
    <2>3. DOMAIN cs \subseteq Int
      BY <1>3 DEF IsElement
    <2>4. ElementHolds(e, ts, v) <=> \A c \in ToSet(cs) : ConstraintTrue(c, ts, v)
      BY <1>3, ElementMeans
    <2>5. Decides(MongoCompound(cs, v), \A c \in ToSet(cs) : ConstraintTrue(c, ts, v))
      BY <2>1, <2>2, <2>3, MongoCompoundDecides
    <2>6. MongoElementEq(e, v) = MongoCompound(cs, v)
      BY <1>3 DEF MongoElementEq
    <2> QED
      BY <2>4, <2>5, <2>6 DEF Decides
  <1>4. CASE e.kind = "day"
    <2>1. ts /\ IsLiteral(e, TRUE)
      BY <1>4, PlainElement DEF ExactEqElement, Encodes, IsDateOnly
    <2>2. ElementHolds(e, ts, v) <=> LiteralEquals(e, TRUE, v)
      BY <1>4, <2>1, ElementMeans
    <2>3. MongoElementEq(e, v) = SqlAnd({MongoMatch(">=", v, DayStart(e)), MongoMatch("<", v, DayEnd(e))})
      BY <1>4 DEF MongoElementEq
    <2>4. Decides(MongoElementEq(e, v), LiteralEquals(e, TRUE, v))
      BY <1>4, <2>1, <2>3, DayAgrees
    <2> QED
      BY <2>2, <2>4 DEF Decides
  <1> QED
    BY <1>1, <1>2, <1>3, <1>4

(* A plain value.                                                          *)
LEMMA MongoScalarDecides ==
    ASSUME NEW ts \in BOOLEAN, NEW v \in Cells, NEW e,
           IsElement(e, ts), e.kind \in {"lit", "today", "now"}
    PROVE  /\ Decides(MongoCompare("=", v, e), ElementHolds(e, ts, v))
           /\ Decides(MongoCompare("!=", v, e), ~ElementHolds(e, ts, v))
  <1>1. IsLiteral(e, ts)
    BY DEF IsElement
  <1>2. IsComparison("=", e, ts) /\ IsComparison("!=", e, ts) /\ ~IsDateOnly(e)
    BY <1>1 DEF IsComparison, ComparisonOperator, IsDateOnly
  <1>3. /\ Decides(MongoCompare("=", v, e), ConstraintHolds("=", e, ts, v))
        /\ Decides(MongoCompare("!=", v, e), ConstraintHolds("!=", e, ts, v))
    BY <1>2, ConstraintDecides
  <1>4. ElementHolds(e, ts, v) <=> LiteralEquals(e, ts, v)
    BY DEF ElementHolds
  <1>5. /\ ConstraintHolds("=", e, ts, v) <=> ElementHolds(e, ts, v)
        /\ ConstraintHolds("!=", e, ts, v) <=> ~ElementHolds(e, ts, v)
    BY <1>4 DEF ConstraintHolds
  <1> QED
    BY <1>3, <1>5 DEF Decides

(* `=` with a value set.                                                   *)
LEMMA MongoSetEqDecides ==
    ASSUME NEW ts \in BOOLEAN, NEW v \in Cells, NEW els,
           \A e \in els : IsElement(e, ts),
           \A e \in els : ExactEqElement("mongodb", e, ts)
    PROVE  Decides(MongoSetEq(els, ts, v), AnyHolds(els, ts, v))
  <1> DEFINE S == SimpleScalars(els, ts)
             R == NonNull(els) \ S
             ns == OnlyIf(HasNull(els), MongoMatch("=", v, Null))
             ss == {MongoCompare("=", v, e) : e \in S}
             rs == {MongoElementEq(e, v) : e \in R}
  <1>1. \A e \in els : /\ e.kind \in {"range", "cmp", "and", "null", "lit", "day", "today", "now"}
                       /\ e.kind = "day" => ts
    BY ElementMeans DEF ExactEqElement, Encodes, IsDateOnly
  <1>2. /\ \A e \in S : e \in els /\ e.kind \in {"lit", "today", "now"}
        /\ \A e \in R : e \in els /\ e.kind \in {"range", "cmp", "and", "day"}
    BY <1>1 DEF NonNull, SimpleScalars, IsDateOnly
  <1>3. MongoSetEq(els, ts, v) = SqlOr(ns \cup ss \cup rs)
    BY DEF MongoSetEq
  <1>4. \A e \in S : Decides(MongoCompare("=", v, e), ElementHolds(e, ts, v))
    BY <1>2, MongoScalarDecides
  <1>5. \A e \in R : Decides(MongoElementEq(e, v), ElementHolds(e, ts, v))
    BY <1>2, MongoElementEqDecides
  <1>6. AnyHolds(els, ts, v) <=> (HasNull(els) /\ v = Null) \/ AnyHolds(S, ts, v) \/ AnyHolds(R, ts, v)
    <2>1. AnyHolds(els, ts, v) <=> (HasNull(els) /\ v = Null) \/ AnyHolds(NonNull(els), ts, v)
      BY NullElement
    <2>2. S \subseteq NonNull(els)
      BY <1>2 DEF NonNull
    <2>3. AnyHolds(NonNull(els), ts, v) <=> AnyHolds(S, ts, v) \/ AnyHolds(R, ts, v)
      BY <2>2 DEF AnyHolds
    <2> QED
      BY <2>1, <2>3
  <1>7. ns \in SUBSET {"T", "F"} /\ ("T" \in ns <=> HasNull(els) /\ v = Null)
    BY DEF OnlyIf, MongoMatch, Holds, Truth
  <1>8. ss \in SUBSET {"T", "F"} /\ ("T" \in ss <=> AnyHolds(S, ts, v))
    BY <1>4 DEF Decides, AnyHolds
  <1>9. rs \in SUBSET {"T", "F"} /\ ("T" \in rs <=> AnyHolds(R, ts, v))
    BY <1>5 DEF Decides, AnyHolds
  <1> HIDE DEF S, R, ns, ss, rs
  <1>10. /\ ns \cup ss \cup rs \in SUBSET {"T", "F"}
         /\ "T" \in ns \cup ss \cup rs <=> AnyHolds(els, ts, v)
    BY <1>6, <1>7, <1>8, <1>9
  <1> QED
    BY <1>3, <1>10, TwoValued DEF Decides

(* `!=` with a value set of plain values.                                  *)
LEMMA MongoSetNeqDecides ==
    ASSUME NEW ts \in BOOLEAN, NEW v \in Cells, NEW els,
           \A e \in els : IsElement(e, ts),
           \A e \in els : ExactNeqElement("mongodb", e, ts)
    PROVE  Decides(MongoSetNeq(els, ts, v), ~AnyHolds(els, ts, v))
  <1> DEFINE S == SimpleScalars(els, ts)
             ns == OnlyIf(HasNull(els), MongoMatch("!=", v, Null))
             ss == {MongoCompare("!=", v, e) : e \in S}
             as == ns \cup ss
  <1>1. \A e \in els : e.kind \in {"null", "lit", "today", "now"}
    BY DEF ExactNeqElement
  <1>2. S = NonNull(els)
    BY <1>1 DEF NonNull, SimpleScalars, IsDateOnly
  <1>3. MongoSetNeq(els, ts, v) = SqlAnd(as)
    <2>1. {MongoElementNeq(e, v) : e \in NonNull(els) \ S} = {}
      BY <1>2
    <2> QED
      BY <2>1 DEF MongoSetNeq
  <1>4. \A e \in S : e \in els /\ e.kind \in {"lit", "today", "now"}
    BY <1>1, <1>2 DEF NonNull
  <1>5. \A e \in S : Decides(MongoCompare("!=", v, e), ~ElementHolds(e, ts, v))
    BY <1>4, MongoScalarDecides
  <1>6. AnyHolds(els, ts, v) <=> (HasNull(els) /\ v = Null) \/ AnyHolds(S, ts, v)
    BY <1>2, NullElement
  <1>7. ns \in SUBSET {"T", "F"} /\ ((\A t \in ns : t = "T") <=> ~(HasNull(els) /\ v = Null))
    BY DEF OnlyIf, MongoMatch, Holds, Truth
  <1>8. ss \in SUBSET {"T", "F"} /\ ((\A t \in ss : t = "T") <=> ~AnyHolds(S, ts, v))
    BY <1>5 DEF Decides, AnyHolds
  <1> HIDE DEF S, ns, ss
  <1>9. /\ as \in SUBSET {"T", "F"}
        /\ (\A t \in as : t = "T") <=> ~AnyHolds(els, ts, v)
    BY <1>6, <1>7, <1>8
  <1> HIDE DEF as
  <1>10. /\ SqlAnd(as) \in {"T", "F"}
         /\ SqlAnd(as) = "T" <=> \A t \in as : t = "T"
    BY <1>9, TwoValued
  <1> QED
    BY <1>3, <1>9, <1>10 DEF Decides

-----------------------------------------------------------------------------
(* Field expressions *)

StringHolds(op, pats, v) ==
    IF op = "NOT HAS" THEN v = Null \/ \A p \in pats : ~MatchesPattern(v, p)
    ELSE v # Null /\ \E p \in pats : MatchesPattern(v, p)

(* The string operators, in the SQL dialects and in MongoDB.               *)
LEMMA StringAgrees ==
    ASSUME NEW op \in StringOperator, NEW pats, NEW v \in Cells
    PROVE  /\ Agrees(PgString(op, pats, v), StringHolds(op, pats, v), v)
           /\ MySqlString(op, pats, v) = PgString(op, pats, v)
           /\ Decides(MongoString(op, pats, v), StringHolds(op, pats, v))
  <1> DEFINE os == {Like(v, p) : p \in pats}
             as == {SqlNot(Like(v, p)) : p \in pats}
             a == SqlAnd(as)
             mos == {MongoRegex(v, p) : p \in pats}
             mas == {SqlNot(MongoRegex(v, p)) : p \in pats}
             ma == SqlAnd(mas)
             mn == MongoMatch("=", v, Null)
  <1>1. MySqlString(op, pats, v) = PgString(op, pats, v)
    BY DEF MySqlString, PgString
  <1>2. /\ PgString(op, pats, v) = IF op = "NOT HAS" THEN SqlOr({a, IsNull(v)}) ELSE SqlOr(os)
        /\ MongoString(op, pats, v) = IF op = "NOT HAS" THEN SqlOr({ma, mn}) ELSE SqlOr(mos)
    BY DEF PgString, MongoString
  <1>3. \A p \in pats : Like(v, p) = IF v = Null THEN "U" ELSE IF MatchesPattern(v, p) THEN "T" ELSE "F"
    BY DEF Like, Truth
  <1>4. \A p \in pats : MongoRegex(v, p) = IF v # Null /\ MatchesPattern(v, p) THEN "T" ELSE "F"
    BY DEF MongoRegex, Truth
  <1>5. /\ os \in SUBSET Truths
        /\ "T" \in os <=> v # Null /\ \E p \in pats : MatchesPattern(v, p)
        /\ "U" \in os => v = Null
    BY <1>3 DEF Truths
  <1>6. /\ as \in SUBSET Truths
        /\ v # Null => ((\A t \in as : t = "T") <=> \A p \in pats : ~MatchesPattern(v, p))
        /\ "U" \in as => v = Null
    BY <1>3 DEF Truths, SqlNot
  <1>7. /\ mos \in SUBSET {"T", "F"}
        /\ "T" \in mos <=> v # Null /\ \E p \in pats : MatchesPattern(v, p)
    BY <1>4
  <1>8. /\ mas \in SUBSET {"T", "F"}
        /\ v # Null => ((\A t \in mas : t = "T") <=> \A p \in pats : ~MatchesPattern(v, p))
    BY <1>4 DEF SqlNot
  <1>9. mn \in {"T", "F"} /\ (mn = "T" <=> v = Null)
    BY DEF MongoMatch, Holds, Truth
  <1> HIDE DEF os, as, mos, mas, mn
  <1>10. /\ a \in Truths
         /\ a = "T" <=> \A t \in as : t = "T"
         /\ a = "U" => "U" \in as
    BY <1>6, Connectives
  <1>11. /\ ma \in {"T", "F"}
         /\ ma = "T" <=> \A t \in mas : t = "T"
    BY <1>8, TwoValued
  <1> HIDE DEF a, ma
  <1>12. CASE op = "NOT HAS"
    <2>1. /\ {a, IsNull(v)} \in SUBSET Truths
          /\ "T" \in {a, IsNull(v)} <=> StringHolds(op, pats, v)
          /\ "U" \in {a, IsNull(v)} => v = Null
      BY <1>6, <1>10, <1>12, NullTests DEF StringHolds, Truths
    <2>2. /\ {ma, mn} \in SUBSET {"T", "F"}
          /\ "T" \in {ma, mn} <=> StringHolds(op, pats, v)
      BY <1>8, <1>9, <1>11, <1>12 DEF StringHolds
    <2>3. Agrees(SqlOr({a, IsNull(v)}), StringHolds(op, pats, v), v)
      BY <2>1, Connectives DEF Agrees
    <2>4. Decides(SqlOr({ma, mn}), StringHolds(op, pats, v))
      BY <2>2, TwoValued DEF Decides
    <2> QED
      BY <1>1, <1>2, <1>12, <2>3, <2>4
  <1>13. CASE op # "NOT HAS"
    <2>1. Agrees(SqlOr(os), StringHolds(op, pats, v), v)
      BY <1>5, <1>13, Connectives DEF Agrees, StringHolds
    <2>2. Decides(SqlOr(mos), StringHolds(op, pats, v))
      BY <1>7, <1>13, TwoValued DEF Decides, StringHolds
    <2> QED
      BY <1>1, <1>2, <1>13, <2>1, <2>2
  <1> QED
    BY <1>12, <1>13

(* NULL and range operands, in the SQL dialects.                           *)
LEMMA NullOrRangeAgrees ==
    ASSUME NEW ts \in BOOLEAN, NEW v \in Cells, NEW op, NEW operand,
           \/ operand.kind = "range" /\ IsElement(operand, ts)
           \/ operand.kind = "null" /\ IsComparison(op, operand, ts)
    PROVE  Agrees(SqlNullOrRange(op, operand, v),
                  IF operand.kind = "range" THEN ElementHolds(operand, ts, v)
                  ELSE ConstraintHolds(op, operand, ts, v), v)
  <1>1. CASE operand.kind = "range" /\ IsElement(operand, ts)
    <2> DEFINE a == lower_literal(operand.start)
               b == lower_literal(operand.end)
    <2>1. SqlNullOrRange(op, operand, v) = Between(v, a, b)
      BY <1>1 DEF SqlNullOrRange
    <2>2. ElementHolds(operand, ts, v) <=> v # Null /\ a <= v /\ v <= b
      BY <1>1, ElementMeans
    <2>3. a \in Nat /\ b \in Nat
      BY <1>1, PlainElement
    <2> HIDE DEF a, b
    <2>4. Agrees(Between(v, a, b), v # Null /\ a <= v /\ v <= b, v)
      BY <2>3, RangeAgrees
    <2> QED
      BY <1>1, <2>1, <2>2, <2>4 DEF Agrees
  <1>2. CASE operand.kind = "null" /\ IsComparison(op, operand, ts)
    <2>1. op \in {"=", "!="}
      BY <1>2 DEF IsComparison
    <2>2. LiteralEquals(operand, ts, v) <=> v = Null
      BY <1>2 DEF LiteralEquals
    <2>3. CASE op = "="
      BY <1>2, <2>2, <2>3, NullTests DEF SqlNullOrRange, ConstraintHolds, Agrees, Truths
    <2>4. CASE op = "!="
      BY <1>2, <2>2, <2>4, NullTests DEF SqlNullOrRange, ConstraintHolds, Agrees, Truths
    <2> QED
      BY <2>1, <2>3, <2>4
  <1> QED
    BY <1>1, <1>2

(* `!=` with a literal, written with OR IS NULL.                           *)
LEMMA NotEqualAgrees ==
    ASSUME NEW ts \in BOOLEAN, NEW v \in Cells, NEW l, IsValue(l, ts), ~(ts /\ IsDateOnly(l))
    PROVE  Agrees(SqlOr({SqlCompare("!=", v, lower_literal(l)), IsNull(v)}),
                  ConstraintHolds("!=", l, ts, v), v)
  <1> DEFINE w == lower_literal(l)
             t == SqlCompare("!=", v, w)
  <1>1. w \in Nat
    BY LiteralType
  <1>2. LiteralEquals(l, ts, v) <=> v = w
    BY DEF LiteralEquals, IsDateOnly, IsValue
  <1>3. ConstraintHolds("!=", l, ts, v) <=> v # w
    BY <1>2 DEF ConstraintHolds
  <1> HIDE DEF w
  <1>4. Agrees(t, v # Null /\ Holds("!=", v, w), v)
    BY <1>1, CompareAgrees DEF ComparisonOperator
  <1>5. Holds("!=", v, w) <=> v # w
    BY DEF Holds
  <1>6. v = Null => v # w
    BY <1>1 DEF Null
  <1> HIDE DEF t
  <1>7. /\ {t, IsNull(v)} \in SUBSET Truths
        /\ "T" \in {t, IsNull(v)} <=> v # w
        /\ "U" \in {t, IsNull(v)} => v = Null
    BY <1>4, <1>5, <1>6, NullTests DEF Agrees, Truths
  <1>8. Agrees(SqlOr({t, IsNull(v)}), v # w, v)
    BY <1>7, Connectives DEF Agrees
  <1> QED
    BY <1>3, <1>8 DEF Agrees, t, w

(* A literal operand in PostgreSQL and in MySQL.                           *)
LEMMA DirectAgrees ==
    ASSUME NEW ts \in BOOLEAN, NEW v \in Cells, NEW op, NEW l,
           IsComparison(op, l, ts), l.kind # "null",
           op = "!=" => ~(ts /\ IsDateOnly(l))
    PROVE  /\ Agrees(MySqlDirect(op, l, ts, v), ConstraintHolds(op, l, ts, v), v)
           /\ ~(op = "!=" /\ Temporal(l)) => PgDirect(op, l, ts, v) = MySqlDirect(op, l, ts, v)
  <1>0. IsLiteral(l, ts) /\ IsValue(l, ts) /\ op \in ComparisonOperator
    BY DEF IsComparison, IsValue
  <1>1. CASE op = "=" /\ ts /\ IsDateOnly(l)
    <2>1. ts /\ IsLiteral(l, TRUE) /\ l.kind = "day"
      BY <1>0, <1>1 DEF IsLiteral, IsDateOnly
    <2>2. /\ MySqlDirect(op, l, ts, v) = InDay(l, v)
          /\ PgDirect(op, l, ts, v) = InDay(l, v)
      BY <1>1, <2>1 DEF MySqlDirect, PgDirect
    <2>3. ConstraintHolds(op, l, ts, v) <=> LiteralEquals(l, TRUE, v)
      BY <1>1, <2>1 DEF ConstraintHolds
    <2>4. Agrees(InDay(l, v), LiteralEquals(l, TRUE, v), v)
      BY <2>1, DayAgrees
    <2> QED
      BY <2>2, <2>3, <2>4 DEF Agrees
  <1>2. CASE op = "!="
    <2>1. MySqlDirect(op, l, ts, v) = SqlOr({SqlCompare("!=", v, lower_literal(l)), IsNull(v)})
      BY <1>2 DEF MySqlDirect
    <2>2. ~Temporal(l) => PgDirect(op, l, ts, v) = SqlOr({SqlCompare("!=", v, lower_literal(l)), IsNull(v)})
      BY <1>2 DEF PgDirect
    <2>3. Agrees(SqlOr({SqlCompare("!=", v, lower_literal(l)), IsNull(v)}),
                 ConstraintHolds("!=", l, ts, v), v)
      BY <1>0, <1>2, NotEqualAgrees
    <2> QED
      BY <1>2, <2>1, <2>2, <2>3
  <1>3. CASE op # "!=" /\ ~(op = "=" /\ ts /\ IsDateOnly(l))
    <2>1. /\ MySqlDirect(op, l, ts, v) = SqlCompare(op, v, lower_literal(l))
          /\ PgDirect(op, l, ts, v) = SqlCompare(op, v, lower_literal(l))
      BY <1>3 DEF MySqlDirect, PgDirect
    <2>2. ts /\ IsDateOnly(l) => op \in Ordering
      BY <1>0, <1>3 DEF Ordering, ComparisonOperator
    <2>3. Agrees(SqlCompare(op, v, lower_literal(l)), ConstraintHolds(op, l, ts, v), v)
      BY <1>3, <2>2, ConstraintAgrees
    <2> QED
      BY <2>1, <2>3
  <1> QED
    BY <1>1, <1>2, <1>3

(* A literal or range operand in MongoDB.                                  *)
LEMMA MongoDirectDecides ==
    ASSUME NEW ts \in BOOLEAN, NEW v \in Cells, NEW op, NEW operand,
           \/ /\ operand.kind = "range" /\ IsElement(operand, ts)
              /\ ~IsDateOnly(operand.start) /\ ~IsDateOnly(operand.end)
           \/ /\ operand.kind # "range" /\ IsComparison(op, operand, ts)
              /\ IsDateOnly(operand) => op = "=" /\ ts
    PROVE  Decides(MongoDirect(op, operand, ts, v),
                   IF operand.kind = "range" THEN (op # "!=") <=> ElementHolds(operand, ts, v)
                   ELSE ConstraintHolds(op, operand, ts, v))
  <1>1. CASE operand.kind = "range"
    <2> DEFINE a == operand.start
               b == operand.end
               inside == v # Null /\ lower_literal(a) <= v /\ v <= lower_literal(b)
               mn == MongoMatch("=", v, Null)
               mo == MongoOutside(v, a, b)
    <2>1. IsElement(operand, ts) /\ ~IsDateOnly(a) /\ ~IsDateOnly(b)
      BY <1>1
    <2>2. IsValue(a, ts) /\ IsValue(b, ts)
      BY <1>1, <2>1 DEF IsElement
    <2>3. /\ Decides(MongoRange(v, a, b), inside)
          /\ Decides(MongoOutside(v, a, b), v # Null /\ ~inside)
      BY <2>1, <2>2, MongoRangeDecides
    <2>4. ElementHolds(operand, ts, v) <=> inside
      BY <1>1, <2>1, ElementMeans
    <2>5. MongoDirect(op, operand, ts, v) = IF op = "!=" THEN SqlOr({mo, mn}) ELSE MongoRange(v, a, b)
      BY <1>1 DEF MongoDirect, IsDateOnly
    <2>6. mn \in {"T", "F"} /\ (mn = "T" <=> v = Null)
      BY DEF MongoMatch, Holds, Truth
    <2>7. inside => v # Null
      OBVIOUS
    <2> HIDE DEF inside, mn, mo
    <2>8. Decides(SqlOr({mo, mn}), ~inside)
      BY <2>3, <2>6, <2>7 DEF Decides, SqlOr, mo
    <2> QED
      BY <1>1, <2>3, <2>4, <2>5, <2>8 DEF Decides, a, b
  <1>2. CASE operand.kind = "day"
    <2>1. op = "=" /\ ts /\ IsLiteral(operand, TRUE)
      BY <1>2 DEF IsComparison, IsLiteral, IsDateOnly
    <2>2. MongoDirect(op, operand, ts, v) =
             SqlAnd({MongoMatch(">=", v, DayStart(operand)), MongoMatch("<", v, DayEnd(operand))})
      BY <1>2, <2>1 DEF MongoDirect, IsDateOnly
    <2>3. ConstraintHolds(op, operand, ts, v) <=> LiteralEquals(operand, TRUE, v)
      BY <2>1 DEF ConstraintHolds
    <2>4. Decides(MongoDirect(op, operand, ts, v), LiteralEquals(operand, TRUE, v))
      BY <1>2, <2>1, <2>2, DayAgrees
    <2> QED
      BY <1>2, <2>3, <2>4 DEF Decides
  <1>3. CASE operand.kind \notin {"range", "day"}
    <2>1. IsComparison(op, operand, ts) /\ ~IsDateOnly(operand)
      BY <1>3 DEF IsDateOnly
    <2>2. MongoDirect(op, operand, ts, v) = MongoCompare(op, v, operand)
      BY <1>3, <2>1 DEF MongoDirect
    <2>3. Decides(MongoCompare(op, v, operand), ConstraintHolds(op, operand, ts, v))
      BY <2>1, ConstraintDecides
    <2> QED
      BY <1>3, <2>2, <2>3
  <1> QED
    BY <1>1, <1>2, <1>3

-----------------------------------------------------------------------------
(* SQLite: for an exact form the order of the texts is the order of the     *)
(* instants, and the predicate is the one of MySQL.                         *)

LEMMA TextCompare ==
    ASSUME NEW ts \in BOOLEAN, NEW v \in Cells, NEW op \in ComparisonOperator, NEW l,
           IsLiteral(l, ts), TextExact("sqlite", op, l, ts)
    PROVE  SqliteCompare(op, v, l, ts) = SqlCompare(op, v, lower_literal(l))
  <1> DEFINE w == lower_literal(l)
  <1>1. CASE v = Null \/ w = Null
    BY <1>1 DEF SqliteCompare, SqlCompare
  <1>2. CASE v # Null /\ w # Null
    <2>1. l.kind # "null"
      BY <1>2 DEF lower_literal
    <2>2. v \in Nat /\ w \in Nat
      BY <1>2, <2>1, LiteralType DEF IsValue, Cells
    <2>3. CASE ts /\ l.kind \in {"day", "today"}
      <3>1. op \in {"<", ">="}
        BY <2>3 DEF TextExact, Temporal
      <3>2. TextBefore(v, l, ts) <=> v < w
        BY <2>3 DEF TextBefore
      <3>3. /\ Holds("<", v, w) <=> v < w
            /\ Holds(">=", v, w) <=> ~(v < w)
        BY <2>2 DEF Holds
      <3> HIDE DEF w
      <3>4. CASE op = "<"
        BY <1>2, <3>2, <3>3, <3>4 DEF SqliteCompare, SqlCompare, Truth, w
      <3>5. CASE op = ">="
        BY <1>2, <3>2, <3>3, <3>5 DEF SqliteCompare, SqlCompare, Truth, w
      <3> QED
        BY <3>1, <3>4, <3>5
    <2>4. CASE ~(ts /\ l.kind \in {"day", "today"})
      <3>1. l.kind \in {"lit", "day", "today", "now"}
        BY <2>1 DEF IsLiteral
      <3>2. l.kind = "now" => ts /\ Separator = " "
        BY DEF TextExact, Temporal
      <3>3. l.kind = "now" => w = Now
        BY DEF lower_literal
      <3>4. TextBefore(v, l, ts) <=> v < w
        BY <3>2 DEF TextBefore
      <3>5. TextSame(v, l, ts) <=> v = w
        BY <2>4, <3>1, <3>2, <3>3 DEF TextSame
      <3>6. /\ Holds("=", v, w) <=> v = w
            /\ Holds("!=", v, w) <=> ~(v = w)
            /\ Holds("<", v, w) <=> v < w
            /\ Holds(">=", v, w) <=> ~(v < w)
            /\ Holds("<=", v, w) <=> v < w \/ v = w
            /\ Holds(">", v, w) <=> ~(v < w) /\ ~(v = w)
        BY <2>2 DEF Holds
      <3> DEFINE before == TextBefore(v, l, ts)
                 same == TextSame(v, l, ts)
      <3>7. SqliteCompare(op, v, l, ts) =
              Truth(CASE op = "="  -> same [] op = "!=" -> ~same [] op = "<"  -> before
                      [] op = ">=" -> ~before [] op = "<=" -> before \/ same
                      [] op = ">"  -> ~before /\ ~same)
        BY <1>2 DEF SqliteCompare
      <3>8. SqlCompare(op, v, w) = Truth(Holds(op, v, w))
        BY <1>2 DEF SqlCompare
      <3> HIDE DEF w, before, same
      <3>9. SqliteCompare(op, v, l, ts) = SqlCompare(op, v, w)
        BY <3>4, <3>5, <3>6, <3>7, <3>8 DEF Truth, ComparisonOperator, before, same
      <3> QED
        BY <3>9 DEF w
    <2> QED
      BY <2>3, <2>4
  <1> QED
    BY <1>1, <1>2

(* The inverse of an exact comparison is one.                              *)
LEMMA InverseExact ==
    ASSUME NEW ts, NEW op \in ComparisonOperator, NEW l, TextExact("sqlite", op, l, ts)
    PROVE  /\ invert_operator(op) \in ComparisonOperator
           /\ TextExact("sqlite", invert_operator(op), l, ts)
  BY DEF TextExact, invert_operator, ComparisonOperator

(* The isoformat bounds are those of the day when instants have a T.       *)
LEMMA DayText ==
    ASSUME NEW l, NEW v, DayExact("sqlite")
    PROVE  SqliteInDay(l, v) = InDay(l, v) /\ SqliteNotInDay(l, v) = NotInDay(l, v)
  BY DEF DayExact, SqliteInDay, SqliteNotInDay, InDay, NotInDay, Midnight, DayStart, DayEnd

(* A range whose bounds compare exactly.                                   *)
LEMMA RangeText ==
    ASSUME NEW ts \in BOOLEAN, NEW v \in Cells, NEW r, r.kind = "range", IsElement(r, ts),
           ExactRange("sqlite", r, ts)
    PROVE  SqliteBetween(r, ts, v) = Between(v, lower_literal(r.start), lower_literal(r.end))
  <1>1. IsLiteral(r.start, ts) /\ IsLiteral(r.end, ts)
    BY DEF IsElement, IsValue
  <1>2. TextExact("sqlite", ">=", r.start, ts) /\ TextExact("sqlite", "<=", r.end, ts)
    BY DEF ExactRange
  <1>3. /\ SqliteCompare(">=", v, r.start, ts) = SqlCompare(">=", v, lower_literal(r.start))
        /\ SqliteCompare("<=", v, r.end, ts) = SqlCompare("<=", v, lower_literal(r.end))
    BY <1>1, <1>2, TextCompare DEF ComparisonOperator
  <1> QED
    BY <1>3 DEF SqliteBetween, Between

(* A comparison of a value set, and its inverse.                           *)
LEMMA ConstraintText ==
    ASSUME NEW ts \in BOOLEAN, NEW v \in Cells, NEW c, IsComparison(c.operator, c.value, ts),
           ExactConstraint("sqlite", c, ts)
    PROVE  /\ SqliteCompare(c.operator, v, c.value, ts) = Compared(c, v)
           /\ SqliteCompare(invert_operator(c.operator), v, c.value, ts) = Inverted(c, v)
  <1>1. /\ c.operator \in ComparisonOperator
        /\ IsLiteral(c.value, ts)
        /\ TextExact("sqlite", c.operator, c.value, ts)
    BY DEF IsComparison, ExactConstraint
  <1>2. /\ invert_operator(c.operator) \in ComparisonOperator
        /\ TextExact("sqlite", invert_operator(c.operator), c.value, ts)
    BY <1>1, InverseExact
  <1>3. SqliteCompare(c.operator, v, c.value, ts) = SqlCompare(c.operator, v, lower_literal(c.value))
    BY <1>1, TextCompare
  <1>4. SqliteCompare(invert_operator(c.operator), v, c.value, ts)
          = SqlCompare(invert_operator(c.operator), v, lower_literal(c.value))
    BY <1>1, <1>2, TextCompare
  <1> QED
    BY <1>3, <1>4 DEF Compared, Inverted

(* The elements of a value set that are not parameters of an IN.           *)
LEMMA ElementText ==
    ASSUME NEW ts \in BOOLEAN, NEW v \in Cells, NEW e, IsElement(e, ts), Other(e, ts)
    PROVE  /\ ExactEqElement("sqlite", e, ts) => SqliteElementEq(e, ts, v) = MySqlElementEq(e, v)
           /\ ExactNeqElement("sqlite", e, ts) => SqliteElementNeq(e, ts, v) = MySqlElementNeq(e, v)
  <1>1. CASE e.kind = "range"
    <2>1. ExactEqElement("sqlite", e, ts) \/ ExactNeqElement("sqlite", e, ts) => ExactRange("sqlite", e, ts)
      BY <1>1 DEF ExactEqElement, ExactNeqElement
    <2>2. ExactRange("sqlite", e, ts) =>
             SqliteBetween(e, ts, v) = Between(v, lower_literal(e.start), lower_literal(e.end))
      BY <1>1, RangeText
    <2> QED
      BY <1>1, <2>1, <2>2 DEF SqliteElementEq, SqliteElementNeq, MySqlElementEq, MySqlElementNeq
  <1>2. CASE e.kind = "cmp"
    <2>1. ExactEqElement("sqlite", e, ts) \/ ExactNeqElement("sqlite", e, ts) => ExactConstraint("sqlite", e, ts)
      BY <1>2 DEF ExactEqElement, ExactNeqElement
    <2>2. IsComparison(e.operator, e.value, ts)
      BY <1>2 DEF IsElement
    <2>3. ExactConstraint("sqlite", e, ts) =>
             /\ SqliteCompare(e.operator, v, e.value, ts) = Compared(e, v)
             /\ SqliteCompare(invert_operator(e.operator), v, e.value, ts) = Inverted(e, v)
      BY <2>2, ConstraintText
    <2> QED
      BY <1>2, <2>1, <2>3 DEF SqliteElementEq, SqliteElementNeq, MySqlElementEq, MySqlElementNeq
  <1>3. CASE e.kind = "and"
    <2> DEFINE cs == ToSet(e.constraints)
    <2>1. ~ExactEqElement("sqlite", e, ts)
      BY <1>3 DEF ExactEqElement
    <2>2. \A c \in cs : IsComparison(c.operator, c.value, ts)
      BY <1>3 DEF IsElement, ToSet
    <2>3. ExactNeqElement("sqlite", e, ts) => \A c \in cs : ExactConstraint("sqlite", c, ts)
      BY <1>3 DEF ExactNeqElement
    <2>4. /\ SqliteElementNeq(e, ts, v) =
               SqlOr({SqliteCompare(invert_operator(c.operator), v, c.value, ts) : c \in cs})
          /\ MySqlElementNeq(e, v) = SqlOr({Inverted(c, v) : c \in cs})
      BY <1>3 DEF SqliteElementNeq, MySqlElementNeq
    <2> HIDE DEF cs
    <2>5. ASSUME ExactNeqElement("sqlite", e, ts)
          PROVE  SqliteElementNeq(e, ts, v) = MySqlElementNeq(e, v)
      <3>1. \A c \in cs : SqliteCompare(invert_operator(c.operator), v, c.value, ts) = Inverted(c, v)
        BY <2>2, <2>3, <2>5, ConstraintText
      <3> QED
        BY <2>4, <3>1
    <2> QED
      BY <2>1, <2>5
  <1>4. CASE e.kind = "day" /\ ts
    <2>1. ExactEqElement("sqlite", e, ts) \/ ExactNeqElement("sqlite", e, ts) => DayExact("sqlite")
      BY <1>4 DEF ExactEqElement, ExactNeqElement
    <2>2. DayExact("sqlite") => SqliteInDay(e, v) = InDay(e, v) /\ SqliteNotInDay(e, v) = NotInDay(e, v)
      BY DayText
    <2> QED
      BY <1>4, <2>1, <2>2 DEF SqliteElementEq, SqliteElementNeq, MySqlElementEq, MySqlElementNeq
  <1> QED
    BY <1>1, <1>2, <1>3, <1>4 DEF Other

(* A form that is exact in SQLite is exact in MySQL.                       *)
LEMMA ExactInMySql ==
    ASSUME NEW ts \in BOOLEAN, NEW e
    PROVE  /\ ExactEqElement("sqlite", e, ts) => ExactEqElement("mysql", e, ts)
           /\ ExactNeqElement("sqlite", e, ts) => ExactNeqElement("mysql", e, ts)
  <1>1. \A l : Encodes("mysql", l)
    BY DEF Encodes
  <1>2. \A op, l : TextExact("mysql", op, l, ts)
    BY DEF TextExact
  <1>3. \A c : ExactConstraint("sqlite", c, ts) => ExactConstraint("mysql", c, ts)
    BY <1>1, <1>2 DEF ExactConstraint
  <1>4. \A r : ExactRange("mysql", r, ts)
    BY <1>1, <1>2 DEF ExactRange
  <1>5. DayExact("mysql")
    BY DEF DayExact
  <1> QED
    BY <1>1, <1>3, <1>4, <1>5 DEF ExactEqElement, ExactNeqElement

(* The value sets.                                                         *)
LEMMA SetText ==
    ASSUME NEW ts \in BOOLEAN, NEW v \in Cells, NEW els, \A e \in els : IsElement(e, ts)
    PROVE  /\ (\A e \in els : ExactEqElement("sqlite", e, ts)) =>
                  SqliteSetEq(els, ts, v) = MySqlSetEq(els, ts, v)
           /\ (\A e \in els : ExactNeqElement("sqlite", e, ts)) =>
                  SqliteSetNeq(els, ts, v) = MySqlSetNeq(els, ts, v)
  <1> DEFINE R == NonNull(els) \ SimpleScalars(els, ts)
  <1>1. \A e \in R : e \in els /\ Other(e, ts)
    BY ElementMeans DEF NonNull, SimpleScalars, IsDateOnly, Plain
  <1>2. ASSUME \A e \in els : ExactEqElement("sqlite", e, ts)
        PROVE  SqliteSetEq(els, ts, v) = MySqlSetEq(els, ts, v)
    <2>1. \A e \in R : SqliteElementEq(e, ts, v) = MySqlElementEq(e, v)
      BY <1>1, <1>2, ElementText
    <2>2. {SqliteElementEq(e, ts, v) : e \in R} = {MySqlElementEq(e, v) : e \in R}
      BY <2>1
    <2> QED
      BY <2>2 DEF SqliteSetEq, MySqlSetEq
  <1>3. ASSUME \A e \in els : ExactNeqElement("sqlite", e, ts)
        PROVE  SqliteSetNeq(els, ts, v) = MySqlSetNeq(els, ts, v)
    <2>1. \A e \in R : SqliteElementNeq(e, ts, v) = MySqlElementNeq(e, v)
      BY <1>1, <1>3, ElementText
    <2>2. {SqliteElementNeq(e, ts, v) : e \in R} = {MySqlElementNeq(e, v) : e \in R}
      BY <2>1
    <2> QED
      BY <2>2 DEF SqliteSetNeq, MySqlSetNeq
  <1> QED
    BY <1>2, <1>3

(* A literal operand.                                                      *)
LEMMA DirectText ==
    ASSUME NEW ts \in BOOLEAN, NEW v \in Cells, NEW op, NEW l, IsComparison(op, l, ts),
           ExactDirect("sqlite", op, l, ts)
    PROVE  SqliteDirect(op, l, ts, v) = MySqlDirect(op, l, ts, v)
  <1>0. op \in ComparisonOperator /\ IsLiteral(l, ts)
    BY DEF IsComparison
  <1>1. CASE op = "=" /\ ts /\ IsDateOnly(l)
    BY <1>1, DayText DEF ExactDirect, SqliteDirect, MySqlDirect
  <1>2. CASE ~(op = "=" /\ ts /\ IsDateOnly(l))
    <2>1. TextExact("sqlite", op, l, ts)
      BY <1>2 DEF ExactDirect
    <2>2. SqliteCompare(op, v, l, ts) = SqlCompare(op, v, lower_literal(l))
      BY <1>0, <2>1, TextCompare
    <2> QED
      BY <1>2, <2>2 DEF SqliteDirect, MySqlDirect
  <1> QED
    BY <1>1, <1>2

(* A field expression.                                                     *)
LEMMA SqliteAsMySql ==
    ASSUME NEW f, NEW v \in Cells, IsFieldExpression(f), ExactField("sqlite", f)
    PROVE  SqliteField(f, v) = MySqlField(f, v) /\ ExactField("mysql", f)
  <1> DEFINE ts == f.ts
             op == f.operator
             operand == f.operand
  <1>0. ts \in BOOLEAN
    BY DEF IsFieldExpression
  <1>1. CASE op \in StringOperator
    BY <1>1 DEF SqliteField, MySqlField, SqliteString, ExactField
  <1>2. CASE op \notin StringOperator /\ operand.kind = "set" /\ op = "="
    <2>1. \A e \in operand.elements : IsElement(e, ts) /\ ExactEqElement("sqlite", e, ts)
      BY <1>2 DEF IsFieldExpression, ExactField
    <2>2. SqliteSetEq(operand.elements, ts, v) = MySqlSetEq(operand.elements, ts, v)
      BY <1>0, <2>1, SetText
    <2>3. \A e \in operand.elements : ExactEqElement("mysql", e, ts)
      BY <1>0, <2>1, ExactInMySql
    <2> QED
      BY <1>2, <2>2, <2>3 DEF SqliteField, MySqlField, ExactField
  <1>3. CASE op \notin StringOperator /\ operand.kind = "set" /\ op = "!="
    <2>1. \A e \in operand.elements : IsElement(e, ts) /\ ExactNeqElement("sqlite", e, ts)
      BY <1>3 DEF IsFieldExpression, ExactField
    <2>2. SqliteSetNeq(operand.elements, ts, v) = MySqlSetNeq(operand.elements, ts, v)
      BY <1>0, <2>1, SetText
    <2>3. \A e \in operand.elements : ExactNeqElement("mysql", e, ts)
      BY <1>0, <2>1, ExactInMySql
    <2> QED
      BY <1>3, <2>2, <2>3 DEF SqliteField, MySqlField, ExactField
  <1>4. CASE op \notin StringOperator /\ operand.kind = "range"
    <2>1. IsElement(operand, ts) /\ ExactRange("sqlite", operand, ts) /\ op # "!="
      BY <1>4 DEF IsFieldExpression, ExactField
    <2>2. SqliteBetween(operand, ts, v) = Between(v, lower_literal(operand.start), lower_literal(operand.end))
      BY <1>0, <1>4, <2>1, RangeText
    <2>3. ExactRange("mysql", operand, ts)
      BY DEF ExactRange, Encodes, TextExact
    <2>4. SqliteField(f, v) = MySqlField(f, v)
      BY <1>4, <2>2 DEF SqliteField, MySqlField, SqlNullOrRange
    <2>5. ExactField("mysql", f)
      BY <1>4, <2>1, <2>3 DEF ExactField
    <2> QED
      BY <2>4, <2>5
  <1>5. CASE op \notin StringOperator /\ operand.kind \notin {"set", "range"}
    <2>1. IsComparison(op, operand, ts)
      BY <1>5 DEF IsFieldExpression
    <2>2. ExactDirect("sqlite", op, operand, ts)
      BY <1>5 DEF ExactField
    <2>3. SqliteDirect(op, operand, ts, v) = MySqlDirect(op, operand, ts, v)
      BY <1>0, <2>1, <2>2, DirectText
    <2>4. ExactDirect("mysql", op, operand, ts)
      BY <2>2 DEF ExactDirect, Encodes, TextExact, DayExact
    <2>5. SqliteField(f, v) = MySqlField(f, v)
      BY <1>5, <2>3 DEF SqliteField, MySqlField
    <2>6. ExactField("mysql", f)
      BY <1>5, <2>4 DEF ExactField
    <2> QED
      BY <2>5, <2>6
  <1>6. op \notin StringOperator /\ operand.kind = "set" => op \in {"=", "!="}
    BY DEF IsFieldExpression
  <1> QED
    BY <1>1, <1>2, <1>3, <1>4, <1>5, <1>6

-----------------------------------------------------------------------------
(* A field expression of an exact form selects, in every dialect, the      *)
(* values that the language means; the database answers unknown for NULL   *)
(* only, and MongoDB never.                                                *)
Field(d, f, v) ==
    CASE d = "postgresql" -> PgField(f, v)
      [] d = "mysql"      -> MySqlField(f, v)
      [] d = "sqlite"     -> SqliteField(f, v)
      [] d = "mongodb"    -> MongoField(f, v)

LEMMA ButSqliteAgrees ==
    ASSUME NEW d \in Dialects \ {"sqlite"}, NEW f, NEW v \in Cells, IsFieldExpression(f), ExactField(d, f)
    PROVE  /\ Agrees(Field(d, f, v), FieldHolds(f, v), v)
           /\ d = "mongodb" => Field(d, f, v) # "U"
  <1> DEFINE ts == f.ts
             op == f.operator
             operand == f.operand
             els == f.operand.elements
  <1>0. /\ ts \in BOOLEAN
        /\ StringOperator \cap ComparisonOperator = {}
    BY DEF IsFieldExpression, StringOperator, ComparisonOperator
  <1>1. CASE op \in StringOperator
    <2>1. FieldHolds(f, v) <=> StringHolds(op, f.patterns, v)
      BY <1>1 DEF FieldHolds, StringHolds
    <2>2. /\ PgField(f, v) = PgString(op, f.patterns, v)
          /\ MySqlField(f, v) = MySqlString(op, f.patterns, v)
          /\ MongoField(f, v) = MongoString(op, f.patterns, v)
      BY <1>1 DEF PgField, MySqlField, MongoField
    <2>3. /\ Agrees(PgString(op, f.patterns, v), StringHolds(op, f.patterns, v), v)
          /\ MySqlString(op, f.patterns, v) = PgString(op, f.patterns, v)
          /\ Decides(MongoString(op, f.patterns, v), StringHolds(op, f.patterns, v))
      BY <1>1, StringAgrees
    <2> QED
      BY <2>1, <2>2, <2>3 DEF Field, Dialects, Agrees, Decides, Truths
  <1>2. CASE op \notin StringOperator /\ operand.kind = "set" /\ op = "="
    <2>1. \A e \in els : IsElement(e, ts) /\ ExactEqElement(d, e, ts)
      BY <1>2 DEF IsFieldExpression, ExactField
    <2>2. FieldHolds(f, v) <=> AnyHolds(els, ts, v)
      BY <1>2 DEF FieldHolds, AnyHolds
    <2>3. /\ PgField(f, v) = PgSetEq(els, ts, v)
          /\ MySqlField(f, v) = MySqlSetEq(els, ts, v)
          /\ MongoField(f, v) = MongoSetEq(els, ts, v)
      BY <1>2 DEF PgField, MySqlField, MongoField
    <2> HIDE DEF ts, els
    <2>4. CASE d = "postgresql"
      <3>1. Agrees(PgSetEq(els, ts, v), AnyHolds(els, ts, v), v)
        BY <1>0, <2>1, <2>4, PgSetEqAgrees
      <3> QED
        BY <2>2, <2>3, <2>4, <3>1 DEF Field, Agrees
    <2>5. CASE d = "mysql"
      <3>1. Agrees(MySqlSetEq(els, ts, v), AnyHolds(els, ts, v), v)
        BY <1>0, <2>1, <2>5, MySqlSetEqAgrees
      <3> QED
        BY <2>2, <2>3, <2>5, <3>1 DEF Field, Agrees
    <2>6. CASE d = "mongodb"
      <3>1. Decides(MongoSetEq(els, ts, v), AnyHolds(els, ts, v))
        BY <1>0, <2>1, <2>6, MongoSetEqDecides
      <3> QED
        BY <2>2, <2>3, <2>6, <3>1 DEF Field, Agrees, Decides, Truths
    <2> QED
      BY <2>4, <2>5, <2>6 DEF Dialects
  <1>3. CASE op \notin StringOperator /\ operand.kind = "set" /\ op = "!="
    <2>1. \A e \in els : IsElement(e, ts) /\ ExactNeqElement(d, e, ts)
      BY <1>3 DEF IsFieldExpression, ExactField
    <2>2. FieldHolds(f, v) <=> ~AnyHolds(els, ts, v)
      BY <1>3 DEF FieldHolds, AnyHolds
    <2>3. /\ PgField(f, v) = PgSetNeq(els, ts, v)
          /\ MySqlField(f, v) = MySqlSetNeq(els, ts, v)
          /\ MongoField(f, v) = MongoSetNeq(els, ts, v)
      BY <1>3 DEF PgField, MySqlField, MongoField
    <2> HIDE DEF ts, els
    <2>4. CASE d = "postgresql"
      <3>1. Agrees(PgSetNeq(els, ts, v), ~AnyHolds(els, ts, v), v)
        BY <1>0, <2>1, <2>4, PgSetNeqAgrees
      <3> QED
        BY <2>2, <2>3, <2>4, <3>1 DEF Field, Agrees
    <2>5. CASE d = "mysql"
      <3>1. Agrees(MySqlSetNeq(els, ts, v), ~AnyHolds(els, ts, v), v)
        BY <1>0, <2>1, <2>5, MySqlSetNeqAgrees
      <3> QED
        BY <2>2, <2>3, <2>5, <3>1 DEF Field, Agrees
    <2>6. CASE d = "mongodb"
      <3>1. Decides(MongoSetNeq(els, ts, v), ~AnyHolds(els, ts, v))
        BY <1>0, <2>1, <2>6, MongoSetNeqDecides
      <3> QED
        BY <2>2, <2>3, <2>6, <3>1 DEF Field, Agrees, Decides, Truths
    <2> QED
      BY <2>4, <2>5, <2>6 DEF Dialects
  <1>4. CASE op \notin StringOperator /\ operand.kind = "range"
    <2>1. /\ IsElement(operand, ts)
          /\ Encodes(d, operand.start) /\ Encodes(d, operand.end)
          /\ op = "!=" => d = "mongodb"
      BY <1>4 DEF IsFieldExpression, ExactField, ExactRange
    <2>2. FieldHolds(f, v) <=> ((op # "!=") <=> ElementHolds(operand, ts, v))
      BY <1>4 DEF FieldHolds, StringOperator
    <2>3. /\ PgField(f, v) = SqlNullOrRange(op, operand, v)
          /\ MySqlField(f, v) = SqlNullOrRange(op, operand, v)
          /\ MongoField(f, v) = MongoDirect(op, operand, ts, v)
      BY <1>4 DEF PgField, MySqlField, MongoField
    <2> HIDE DEF ts, op, operand
    <2>4. CASE d # "mongodb"
      <3>1. Agrees(SqlNullOrRange(op, operand, v), ElementHolds(operand, ts, v), v)
        BY <1>0, <1>4, <2>1, NullOrRangeAgrees
      <3> QED
        BY <2>1, <2>2, <2>3, <2>4, <3>1 DEF Field, Agrees, Dialects
    <2>5. CASE d = "mongodb"
      <3>1. ~IsDateOnly(operand.start) /\ ~IsDateOnly(operand.end)
        BY <2>1, <2>5 DEF Encodes
      <3>2. Decides(MongoDirect(op, operand, ts, v), (op # "!=") <=> ElementHolds(operand, ts, v))
        BY <1>0, <1>4, <2>1, <3>1, MongoDirectDecides
      <3> QED
        BY <2>2, <2>3, <2>5, <3>2 DEF Field, Agrees, Decides, Truths
    <2> QED
      BY <2>4, <2>5
  <1>5. CASE op \notin StringOperator /\ operand.kind \notin {"set", "range"}
    <2>1. IsComparison(op, operand, ts)
      BY <1>5 DEF IsFieldExpression
    <2>2. /\ op \in Ordering \/ ~ts => Encodes(d, operand)
          /\ op = "!=" => ~(ts /\ IsDateOnly(operand)) /\ (d = "postgresql" => ~Temporal(operand))
      BY <1>5 DEF ExactField, ExactDirect
    <2>3. FieldHolds(f, v) <=> ConstraintHolds(op, operand, ts, v)
      BY <1>5 DEF FieldHolds, StringOperator
    <2>4. operand.kind = "null" =>
            /\ PgField(f, v) = SqlNullOrRange(op, operand, v)
            /\ MySqlField(f, v) = SqlNullOrRange(op, operand, v)
      BY <1>5 DEF PgField, MySqlField
    <2>5. operand.kind # "null" =>
            /\ PgField(f, v) = PgDirect(op, operand, ts, v)
            /\ MySqlField(f, v) = MySqlDirect(op, operand, ts, v)
      BY <1>5 DEF PgField, MySqlField
    <2>6. MongoField(f, v) = MongoDirect(op, operand, ts, v)
      BY <1>5 DEF MongoField
    <2> HIDE DEF ts, op, operand
    <2>7. CASE d # "mongodb" /\ operand.kind = "null"
      <3>1. Agrees(SqlNullOrRange(op, operand, v), ConstraintHolds(op, operand, ts, v), v)
        BY <1>0, <2>1, <2>7, NullOrRangeAgrees
      <3> QED
        BY <2>3, <2>4, <2>7, <3>1 DEF Field, Agrees, Dialects
    <2>8. CASE d # "mongodb" /\ operand.kind # "null"
      <3>1. /\ Agrees(MySqlDirect(op, operand, ts, v), ConstraintHolds(op, operand, ts, v), v)
            /\ ~(op = "!=" /\ Temporal(operand)) => PgDirect(op, operand, ts, v) = MySqlDirect(op, operand, ts, v)
        BY <1>0, <2>1, <2>2, <2>8, DirectAgrees
      <3> QED
        BY <2>2, <2>3, <2>5, <2>8, <3>1 DEF Field, Agrees, Dialects
    <2>9. CASE d = "mongodb"
      <3>1. IsDateOnly(operand) => op = "=" /\ ts
        BY <2>1, <2>2, <2>9 DEF IsComparison, ComparisonOperator, Ordering, Encodes
      <3>2. Decides(MongoDirect(op, operand, ts, v), ConstraintHolds(op, operand, ts, v))
        BY <1>0, <1>5, <2>1, <3>1, MongoDirectDecides
      <3> QED
        BY <2>3, <2>6, <2>9, <3>2 DEF Field, Agrees, Decides, Truths
    <2> QED
      BY <2>7, <2>8, <2>9
  <1>6. op \notin StringOperator /\ operand.kind = "set" => op \in {"=", "!="}
    BY DEF IsFieldExpression
  <1> QED
    BY <1>1, <1>2, <1>3, <1>4, <1>5, <1>6

LEMMA FieldAgrees ==
    ASSUME NEW d \in Dialects, NEW f, NEW v \in Cells, IsFieldExpression(f), ExactField(d, f)
    PROVE  /\ Agrees(Field(d, f, v), FieldHolds(f, v), v)
           /\ d = "mongodb" => Field(d, f, v) # "U"
  <1>1. CASE d = "sqlite"
    <2>1. SqliteField(f, v) = MySqlField(f, v) /\ ExactField("mysql", f)
      BY <1>1, SqliteAsMySql
    <2>2. "mysql" \in Dialects \ {"sqlite"}
      BY DEF Dialects
    <2>3. Agrees(Field("mysql", f, v), FieldHolds(f, v), v)
      BY <2>1, <2>2, ButSqliteAgrees
    <2>4. Field("sqlite", f, v) = SqliteField(f, v) /\ Field("mysql", f, v) = MySqlField(f, v)
      BY DEF Field
    <2> QED
      BY <1>1, <2>1, <2>3, <2>4
  <1>2. CASE d # "sqlite"
    BY <1>2, ButSqliteAgrees
  <1> QED
    BY <1>1, <1>2

-----------------------------------------------------------------------------
(* WHERE *)

(* What the language says of a field expression is true or false.          *)
LEMMA FieldHoldsBoolean ==
    ASSUME NEW f, NEW v
    PROVE  FieldHolds(f, v) \in BOOLEAN
  <1>1. \A l, ts : LiteralEquals(l, ts, v) \in BOOLEAN
    BY DEF LiteralEquals
  <1>2. \A op, l, ts : ConstraintHolds(op, l, ts, v) \in BOOLEAN
    BY <1>1 DEF ConstraintHolds
  <1> QED
    BY <1>2 DEF FieldHolds

(* AND, OR and NOT over two field expressions of exact forms.              *)
LEMMA TreeAgrees ==
    ASSUME NEW d \in Dialects, NEW t, NEW row \in Rows, IsTree(t),
           ExactField(d, t.left), ExactField(d, t.right)
    PROVE  LET s == lower_expression(d, t, row)
           IN  /\ s \in Truths
               /\ s = "T" => TreeHolds(t, row)
               /\ TreeHolds(t, row) /\ s # "T" =>
                     t.negated /\ d # "mongodb" /\ Null \in {row.x, row.y}
  <1> DEFINE a == Field(d, t.left, row.x)
             b == Field(d, t.right, row.y)
             c == Connect(t, a, b)
             fa == FieldHolds(t.left, row.x)
             fb == FieldHolds(t.right, row.y)
             inner == CASE t.connective = "AND" -> fa /\ fb
                        [] t.connective = "OR"  -> fa \/ fb
                        [] OTHER                -> fa
  <1>1. row.x \in Cells /\ row.y \in Cells
    BY DEF Rows
  <1>2. /\ Agrees(a, fa, row.x) /\ (d = "mongodb" => a # "U")
        /\ Agrees(b, fb, row.y) /\ (d = "mongodb" => b # "U")
    BY <1>1, FieldAgrees DEF IsTree
  <1>3. lower_expression(d, t, row) = Negate(t, c)
    BY DEF lower_expression, PgExpression, MySqlExpression, SqliteExpression, MongoExpression,
           Field, Dialects
  <1>4. TreeHolds(t, row) <=> (inner # t.negated)
    BY DEF TreeHolds
  <1>5. t.negated \in BOOLEAN /\ t.connective \in {"AND", "OR", "none"}
    BY DEF IsTree
  <1> HIDE DEF a, b, fa, fb
  <1>6. /\ c \in Truths
        /\ c = "T" <=> inner
        /\ c = "U" => Null \in {row.x, row.y} /\ d # "mongodb"
    <2>1. /\ a \in Truths /\ (a = "T" <=> fa) /\ (a = "U" => row.x = Null /\ d # "mongodb")
          /\ b \in Truths /\ (b = "T" <=> fb) /\ (b = "U" => row.y = Null /\ d # "mongodb")
      BY <1>2 DEF Agrees
    <2>2. CASE t.connective = "AND"
      BY <2>1, <2>2 DEF Connect, SqlAnd, Truths
    <2>3. CASE t.connective = "OR"
      BY <2>1, <2>3 DEF Connect, SqlOr, Truths
    <2>4. CASE t.connective = "none"
      BY <2>1, <2>4 DEF Connect
    <2> QED
      BY <1>5, <2>2, <2>3, <2>4
  <1>7. inner \in BOOLEAN
    <2>1. fa \in BOOLEAN /\ fb \in BOOLEAN
      BY FieldHoldsBoolean DEF fa, fb, IsTree
    <2>2. CASE t.connective = "AND"
      BY <2>2
    <2>3. CASE t.connective = "OR"
      BY <2>3
    <2>4. CASE t.connective = "none"
      BY <2>1, <2>4
    <2> QED
      BY <1>5, <2>2, <2>3, <2>4
  <1> HIDE DEF c, inner
  <1>8. CASE t.negated = TRUE
    <2>1. TreeHolds(t, row) <=> ~inner
      BY <1>4, <1>7, <1>8
    <2>2. Negate(t, c) = SqlNot(c)
      BY <1>8 DEF Negate
    <2> QED
      BY <1>3, <1>6, <1>8, <2>1, <2>2 DEF SqlNot, Truths
  <1>9. CASE t.negated = FALSE
    <2>1. TreeHolds(t, row) <=> inner
      BY <1>4, <1>7, <1>9
    <2>2. Negate(t, c) = c
      BY <1>9 DEF Negate
    <2> QED
      BY <1>3, <1>6, <1>9, <2>1, <2>2
  <1> QED
    BY <1>5, <1>8, <1>9

(* The rows a statement selects, for a WHERE of exact forms.               *)
LEMMA WhereAgrees ==
    ASSUME NEW d \in Dialects, NEW q, NEW row \in Rows, IsQuery(q), q.operation # "CREATE",
           ExactWhere(d, q)
    PROVE  LET meant == q.where = NoWhere \/ TreeHolds(q.where, row)
           IN  /\ Where(d, q, row) \in Truths
               /\ Where(d, q, row) = "T" => meant
               /\ meant /\ Where(d, q, row) # "T" =>
                     Negated(q) /\ d # "mongodb" /\ Null \in {row.x, row.y}
  <1>1. CASE q.where = NoWhere
    BY <1>1 DEF Where, Truths
  <1>2. CASE q.where # NoWhere
    <2>1. IsTree(q.where) /\ ExactField(d, q.where.left) /\ ExactField(d, q.where.right)
      BY <1>2 DEF IsQuery, ExactWhere
    <2>2. Where(d, q, row) = lower_expression(d, q.where, row)
      BY <1>2 DEF Where
    <2> HIDE DEF Negated
    <2>3. Negated(q) <=> q.where.negated
      BY <1>2 DEF Negated
    <2>4. LET s == lower_expression(d, q.where, row)
          IN  /\ s \in Truths
              /\ s = "T" => TreeHolds(q.where, row)
              /\ TreeHolds(q.where, row) /\ s # "T" =>
                    q.where.negated /\ d # "mongodb" /\ Null \in {row.x, row.y}
      BY <2>1, TreeAgrees
    <2> QED
      BY <1>2, <2>2, <2>3, <2>4
  <1> QED
    BY <1>1, <1>2

-----------------------------------------------------------------------------
(* Pages *)

(* Min of two numbers.                                                     *)
LEMMA MinOfTwo ==
    ASSUME NEW a \in Nat, NEW b \in Nat
    PROVE  Min({a, b}) = IF a <= b THEN a ELSE b
  <1> DEFINE m == IF a <= b THEN a ELSE b
  <1>1. m \in {a, b} /\ \A y \in {a, b} : m <= y
    OBVIOUS
  <1>2. \A x \in {a, b} : (\A y \in {a, b} : x <= y) => x = m
    OBVIOUS
  <1> HIDE DEF m
  <1>3. Min({a, b}) = m
    BY <1>1, <1>2 DEF Min
  <1> QED
    BY <1>3 DEF m

(* The first n rows are n rows of the set, or all of it.                   *)
LEMMA FirstsSize ==
    ASSUME NEW S, IsFiniteSet(S), NEW n \in Nat, NEW d, NEW clauses,
           NEW X \in Firsts(S, n, d, clauses)
    PROVE  X \subseteq S /\ Cardinality(X) = Min({n, Cardinality(S)})
  <1> DEFINE sure  == {r \in S : Cardinality({s \in S : ~RowBefore(d, clauses, r, s)}) <= n}
             maybe == {r \in S \ sure : Cardinality({s \in S : RowBefore(d, clauses, s, r)}) < n}
             m == Min({n, Cardinality(S)})
  <1>1. PICK Y \in kSubset(m - Cardinality(sure), maybe) : X = sure \cup Y
    BY DEF Firsts
  <1>2. sure \subseteq S /\ maybe \subseteq S \ sure
    OBVIOUS
  <1> HIDE DEF sure, maybe
  <1>3. Y \subseteq maybe /\ Cardinality(Y) = m - Cardinality(sure)
    BY <1>1 DEF kSubset
  <1>4. /\ IsFiniteSet(sure) /\ IsFiniteSet(Y)
        /\ Cardinality(sure) \in Nat /\ Cardinality(S) \in Nat
    BY <1>2, <1>3, FS_Subset, FS_CardinalityType
  <1>5. sure \cap Y = {}
    BY <1>2, <1>3
  <1>6. Cardinality(X) = Cardinality(sure) + Cardinality(Y) - Cardinality({})
    BY <1>1, <1>4, <1>5, FS_Union
  <1>7. Cardinality({}) = 0
    BY FS_EmptySet
  <1>8. m \in Nat
    BY <1>4, MinOfTwo
  <1> HIDE DEF m
  <1>9. Cardinality(X) = m
    BY <1>3, <1>4, <1>6, <1>7, <1>8
  <1> QED
    BY <1>1, <1>2, <1>3, <1>9 DEF m

Skip(q) == IF q.offset = Absent THEN 0 ELSE q.offset
Take(S, q) == IF LimitValue(q) = Absent THEN Cardinality(S) ELSE LimitValue(q)

(* The bounds of a page are numbers.                                       *)
LEMMA PageBounds ==
    ASSUME NEW q, IsQuery(q), q.operation = "GET", NEW S, IsFiniteSet(S)
    PROVE  Skip(q) \in Nat /\ Take(S, q) \in Nat /\ Skip(q) + Take(S, q) \in Nat
  <1>1. /\ q.limit \in Nat \cup {Absent} /\ q.offset \in Nat \cup {Absent}
        /\ \/ q.ranking = NoRanking
           \/ q.ranking \in [field : {"x", "y"}, direction : {"TOP", "BOTTOM"}, count : Nat \ {0}]
    BY DEF IsQuery
  <1>2. LimitValue(q) \in Nat \cup {Absent}
    BY <1>1 DEF LimitValue
  <1>3. Cardinality(S) \in Nat
    BY FS_CardinalityType
  <1> QED
    BY <1>1, <1>2, <1>3 DEF Skip, Take

(* A page is a difference of two beginnings.                               *)
LEMMA PageParts ==
    ASSUME NEW S, NEW q, NEW d, NEW clauses, NEW page
    PROVE  page \in Pages(S, q, d, clauses) <=>
             \E A \in Firsts(S, Skip(q), d, clauses), B \in Firsts(S, Skip(q) + Take(S, q), d, clauses) :
                A \subseteq B /\ page = B \ A
  <1> DEFINE F == Firsts(S, Skip(q), d, clauses)
             G == Firsts(S, Skip(q) + Take(S, q), d, clauses)
  <1>1. Pages(S, q, d, clauses) = {w[2] \ w[1] : w \in {u \in F \X G : u[1] \subseteq u[2]}}
    BY DEF Pages, Skip, Take
  <1> HIDE DEF F, G
  <1>2. ASSUME NEW w \in {u \in F \X G : u[1] \subseteq u[2]}
        PROVE  w[1] \in F /\ w[2] \in G /\ w[1] \subseteq w[2]
    OBVIOUS
  <1>3. ASSUME NEW A \in F, NEW B \in G, A \subseteq B
        PROVE  B \ A \in {w[2] \ w[1] : w \in {u \in F \X G : u[1] \subseteq u[2]}}
    <2>1. <<A, B>> \in {u \in F \X G : u[1] \subseteq u[2]}
      BY <1>3
    <2>2. <<A, B>>[2] \ <<A, B>>[1] = B \ A
      OBVIOUS
    <2> QED
      BY <2>1, <2>2
  <1> QED
    BY <1>1, <1>2, <1>3 DEF F, G

(* A page holds rows of the set, and an answer that is not cut all of it.  *)
LEMMA PageInside ==
    ASSUME NEW S, IsFiniteSet(S), NEW q, IsQuery(q), q.operation = "GET", NEW d, NEW clauses,
           NEW page \in Pages(S, q, d, clauses)
    PROVE  page \subseteq S /\ (Whole(q) => page = S)
  <1>1. PICK A \in Firsts(S, Skip(q), d, clauses), B \in Firsts(S, Skip(q) + Take(S, q), d, clauses) :
           A \subseteq B /\ page = B \ A
    BY PageParts
  <1>2. Skip(q) \in Nat /\ Skip(q) + Take(S, q) \in Nat /\ Cardinality(S) \in Nat
    BY PageBounds, FS_CardinalityType
  <1>3. /\ A \subseteq S /\ Cardinality(A) = Min({Skip(q), Cardinality(S)})
        /\ B \subseteq S /\ Cardinality(B) = Min({Skip(q) + Take(S, q), Cardinality(S)})
    BY <1>1, <1>2, FirstsSize
  <1>4. ASSUME Whole(q) PROVE page = S
    <2>1. Skip(q) = 0 /\ Take(S, q) = Cardinality(S)
      BY <1>4 DEF Whole, Skip, Take
    <2>2. Cardinality(A) = 0 /\ Cardinality(B) = Cardinality(S)
      BY <1>2, <1>3, <2>1, MinOfTwo
    <2>3. A = {} /\ B = S
      BY <1>3, <2>2, FS_Subset, FS_EmptySet
    <2> QED
      BY <1>1, <2>3
  <1> QED
    BY <1>1, <1>3, <1>4

-----------------------------------------------------------------------------
(* The specification *)

(* The query is a well-formed one, and the table has typed rows until the  *)
(* statement has changed it.                                               *)
THEOREM TypeCorrect == Spec => []TypeOK
  <1>1. Init => TypeOK
    BY CasesAssumption DEF Init, TypeOK, Pending
  <1>2. TypeOK /\ [Next]_vars => TypeOK'
    <2> SUFFICES ASSUME TypeOK, [Next]_vars PROVE TypeOK'
      OBVIOUS
    <2>1. CASE LowerRead
      <3>1. outcome'.status \in {"failed", "done"}
        BY <2>1 DEF LowerRead, Failed, Done
      <3>2. outcome = Pending /\ UNCHANGED <<dialect, query, table>>
        BY <2>1 DEF LowerRead, Pick
      <3> QED
        BY <3>1, <3>2 DEF TypeOK
    <2>2. CASE LowerUpdate \/ LowerDelete \/ LowerCreate
      <3>1. /\ outcome'.status \in {"failed", "done"}
            /\ UNCHANGED <<dialect, query>> /\ query.operation # "GET"
        BY <2>2 DEF LowerUpdate, LowerDelete, LowerCreate, Pick, Failed, Done
      <3>2. outcome' # Pending
        BY <3>1 DEF Pending
      <3> QED
        BY <3>1, <3>2 DEF TypeOK
    <2>3. CASE UNCHANGED vars
      BY <2>3 DEF TypeOK, vars
    <2> QED
      BY <2>1, <2>2, <2>3 DEF Next
  <1> QED
    BY <1>1, <1>2, PTL DEF Spec

(* What a statement of an exact form selects, in a state before it runs.   *)
LEMMA SelectedRows ==
    ASSUME TypeOK, outcome = Pending, query.operation # "CREATE", ExactWhere(dialect, query)
    PROVE  /\ ~Raises
           /\ Selected \subseteq Meant(query, table)
           /\ ~Negated(query) => Selected = Meant(query, table)
           /\ \A r \in Meant(query, table) \ Selected : Null \in {r.x, r.y} /\ dialect # "mongodb"
  <1>1. dialect \in Dialects /\ IsQuery(query) /\ table \subseteq Rows
    BY DEF TypeOK
  <1>2. \A r \in table :
          LET meant == query.where = NoWhere \/ TreeHolds(query.where, r)
          IN  /\ Where(dialect, query, r) \in Truths
              /\ Where(dialect, query, r) = "T" => meant
              /\ meant /\ Where(dialect, query, r) # "T" =>
                    Negated(query) /\ dialect # "mongodb" /\ Null \in {r.x, r.y}
    BY <1>1, WhereAgrees
  <1> QED
    BY <1>2 DEF Raises, Selected, Meant, Truths

(* Mutations touch exactly the rows their predicate means, for every       *)
(* dialect, table and predicate of a form that is exact in the dialect.     *)
THEOREM MutationsAreExact == Spec => MutationIsExact
  <1>1. TypeOK /\ [Next]_vars =>
          [query.operation \in {"UPDATE", "DELETE"} /\ outcome'.status = "done"
             /\ ExactWhere(dialect, query) /\ ~Negated(query) =>
             outcome'.rows = Meant(query, table) /\ table \ table' \subseteq Meant(query, table)]_vars
    <2> SUFFICES ASSUME TypeOK, Next, query.operation \in {"UPDATE", "DELETE"},
                        outcome'.status = "done", ExactWhere(dialect, query), ~Negated(query)
                 PROVE  outcome'.rows = Meant(query, table) /\ table \ table' \subseteq Meant(query, table)
      OBVIOUS
    <2>1. LowerUpdate \/ LowerDelete
      BY DEF Next, LowerRead, LowerCreate, Pick
    <2>2. outcome = Pending
      BY <2>1 DEF LowerUpdate, LowerDelete, Pick
    <2>3. ~Raises /\ Selected = Meant(query, table)
      BY <2>2, SelectedRows
    <2>4. outcome' = Done(Selected) /\ table \ Selected \subseteq table'
      BY <2>1 DEF LowerUpdate, LowerDelete, Failed
    <2> QED
      BY <2>3, <2>4 DEF Done
  <1> QED
    BY <1>1, TypeCorrect, PTL DEF Spec, MutationIsExact

(* NOT never adds a row to a predicate of an exact form: what SQL selects  *)
(* under it, the language means; what SQL misses has a NULL, and MongoDB    *)
(* misses nothing.                                                         *)
THEOREM NegationsNeverAdd == Spec => NegationNeverAdds
  <1>1. TypeOK /\ [Next]_vars =>
          [query.operation # "CREATE" /\ outcome'.status = "done"
             /\ ExactWhere(dialect, query) /\ Negated(query) =>
              /\ outcome'.rows \subseteq Meant(query, table)
              /\ Whole(query) =>
                   \A r \in Meant(query, table) \ outcome'.rows :
                      Null \in {r.x, r.y} /\ dialect # "mongodb"]_vars
    <2> SUFFICES ASSUME TypeOK, Next, query.operation # "CREATE",
                        outcome'.status = "done", ExactWhere(dialect, query), Negated(query)
                 PROVE  /\ outcome'.rows \subseteq Meant(query, table)
                        /\ Whole(query) =>
                             \A r \in Meant(query, table) \ outcome'.rows :
                                Null \in {r.x, r.y} /\ dialect # "mongodb"
      OBVIOUS
    <2>1. LowerRead \/ LowerUpdate \/ LowerDelete
      BY DEF Next, LowerCreate, Pick
    <2>2. outcome = Pending
      BY <2>1 DEF LowerRead, LowerUpdate, LowerDelete, Pick
    <2>3. /\ Selected \subseteq Meant(query, table)
          /\ \A r \in Meant(query, table) \ Selected : Null \in {r.x, r.y} /\ dialect # "mongodb"
      BY <2>2, SelectedRows
    <2>4. outcome'.rows \subseteq Selected /\ (Whole(query) => outcome'.rows = Selected)
      <3>1. CASE LowerUpdate \/ LowerDelete
        <4>1. outcome' = Done(Selected)
          BY <3>1 DEF LowerUpdate, LowerDelete, Failed
        <4> QED
          BY <4>1 DEF Done
      <3>2. CASE LowerRead
        <4>1. PICK page \in Pages(Selected, query, dialect, OrderOf(dialect, query)) : outcome' = Done(page)
          BY <3>2 DEF LowerRead, Failed
        <4>2. IsQuery(query) /\ query.operation = "GET" /\ IsFiniteSet(table)
          BY <3>2 DEF LowerRead, Pick, TypeOK
        <4>3. IsFiniteSet(Selected)
          BY <4>2, FS_Subset DEF Selected
        <4>4. page \subseteq Selected /\ (Whole(query) => page = Selected)
          BY <4>1, <4>2, <4>3, PageInside
        <4> QED
          BY <4>1, <4>4 DEF Done
      <3> QED
        BY <2>1, <3>1, <3>2
    <2> QED
      BY <2>3, <2>4
  <1> QED
    BY <1>1, TypeCorrect, PTL DEF Spec, NegationNeverAdds


-----------------------------------------------------------------------------
(* Reads *)

\* Two lists of clauses that compare the rows of S in the same way.
Alike(d, c1, c2, S) ==
    /\ DOMAIN c1 = DOMAIN c2
    /\ \A i \in DOMAIN c1 :
         /\ c1[i].field = c2[i].field
         /\ c1[i].direction = c2[i].direction
         /\ \/ NullsFirst(d, c1[i]) <=> NullsFirst(d, c2[i])
            \/ \A r \in S : r[c1[i].field] # Null

(* Clauses that are alike order the rows alike.                            *)
LEMMA AlikeOrders ==
    ASSUME NEW d, NEW c1, NEW c2, NEW S, Alike(d, c1, c2, S),
           NEW n \in Nat, DOMAIN c1 = 1 .. n, NEW r \in S, NEW s \in S
    PROVE  RowBefore(d, c1, r, s) <=> RowBefore(d, c2, r, s)
  <1>1. ASSUME NEW i \in DOMAIN c1
        PROVE  ColumnBefore(d, c1[i], r[c1[i].field], s[c1[i].field])
                 <=> ColumnBefore(d, c2[i], r[c2[i].field], s[c2[i].field])
    BY DEF Alike, ColumnBefore
  <1>2. ASSUME NEW i \in DOMAIN c1, NEW j \in 1 .. i - 1
        PROVE  c1[j].field = c2[j].field
    <2>1. j \in DOMAIN c1
      OBVIOUS
    <2> QED
      BY <2>1 DEF Alike
  <1>3. DOMAIN c1 = DOMAIN c2
    BY DEF Alike
  <1>4. ASSUME NEW i \in DOMAIN c1
        PROVE  (\A j \in 1 .. i - 1 : r[c1[j].field] = s[c1[j].field])
                 <=> (\A j \in 1 .. i - 1 : r[c2[j].field] = s[c2[j].field])
    BY <1>2
  <1> QED
    BY <1>1, <1>3, <1>4 DEF RowBefore

(* Beginnings and pages depend on the order of the rows only.              *)
LEMMA AlikePages ==
    ASSUME NEW d, NEW c1, NEW c2, NEW S, NEW q,
           \A r, s \in S : RowBefore(d, c1, r, s) <=> RowBefore(d, c2, r, s)
    PROVE  Pages(S, q, d, c1) = Pages(S, q, d, c2)
  <1>1. ASSUME NEW n PROVE Firsts(S, n, d, c1) = Firsts(S, n, d, c2)
    <2>1. \A r \in S : /\ {s \in S : ~RowBefore(d, c1, r, s)} = {s \in S : ~RowBefore(d, c2, r, s)}
                       /\ {s \in S : RowBefore(d, c1, s, r)} = {s \in S : RowBefore(d, c2, s, r)}
      OBVIOUS
    <2> DEFINE sure1  == {r \in S : Cardinality({s \in S : ~RowBefore(d, c1, r, s)}) <= n}
               sure2  == {r \in S : Cardinality({s \in S : ~RowBefore(d, c2, r, s)}) <= n}
               maybe1 == {r \in S \ sure1 : Cardinality({s \in S : RowBefore(d, c1, s, r)}) < n}
               maybe2 == {r \in S \ sure2 : Cardinality({s \in S : RowBefore(d, c2, s, r)}) < n}
    <2>2. sure1 = sure2
      BY <2>1
    <2>3. maybe1 = maybe2
      <3> HIDE DEF sure1, sure2
      <3> QED
        BY <2>1, <2>2
    <2>4. /\ Firsts(S, n, d, c1) =
               {sure1 \cup Y : Y \in kSubset(Min({n, Cardinality(S)}) - Cardinality(sure1), maybe1)}
          /\ Firsts(S, n, d, c2) =
               {sure2 \cup Y : Y \in kSubset(Min({n, Cardinality(S)}) - Cardinality(sure2), maybe2)}
      BY DEF Firsts
    <2> HIDE DEF sure1, sure2, maybe1, maybe2
    <2> QED
      BY <2>2, <2>3, <2>4
  <1> QED
    BY <1>1 DEF Pages

(* Without clauses every n rows may be the first ones.                     *)
LEMMA AnyFirsts ==
    ASSUME NEW S, IsFiniteSet(S), NEW n \in Nat, NEW d,
           NEW X, X \subseteq S, Cardinality(X) = Min({n, Cardinality(S)})
    PROVE  X \in Firsts(S, n, d, <<>>)
  <1> DEFINE sure  == {r \in S : Cardinality({s \in S : ~RowBefore(d, <<>>, r, s)}) <= n}
             maybe == {r \in S \ sure : Cardinality({s \in S : RowBefore(d, <<>>, s, r)}) < n}
             k == Cardinality(S)
  <1>1. \A r, s : ~RowBefore(d, <<>>, r, s)
    BY DEF RowBefore
  <1>2. \A r \in S : /\ {s \in S : ~RowBefore(d, <<>>, r, s)} = S
                     /\ {s \in S : RowBefore(d, <<>>, s, r)} = {}
    BY <1>1
  <1>3. k \in Nat /\ Cardinality({}) = 0 /\ IsFiniteSet(X)
    BY FS_CardinalityType, FS_EmptySet, FS_Subset
  <1>4. Firsts(S, n, d, <<>>) = {sure \cup Y : Y \in kSubset(Min({n, k}) - Cardinality(sure), maybe)}
    BY DEF Firsts
  <1>5. CASE k <= n
    <2>1. sure = S
      BY <1>2, <1>5
    <2>2. Min({n, k}) = k
      BY <1>3, <1>5, MinOfTwo
    <2>3. X = S
      BY <2>2, FS_Subset
    <2> HIDE DEF sure, maybe
    <2>4. {} \in kSubset(Min({n, k}) - Cardinality(sure), maybe)
      BY <1>3, <2>1, <2>2 DEF kSubset
    <2>5. X = sure \cup {}
      BY <2>1, <2>3
    <2> HIDE DEF k
    <2> QED
      BY <1>4, <2>4, <2>5
  <1>6. CASE ~(k <= n)
    <2>1. sure = {}
      BY <1>2, <1>6
    <2>2. Min({n, k}) = n
      BY <1>3, <1>6, MinOfTwo
    <2>3. n = 0 => X = {}
      BY <1>3, <2>2, FS_EmptySet
    <2>4. n > 0 => maybe = S
      BY <1>2, <1>3, <2>1
    <2> HIDE DEF sure, maybe
    <2>5. X \subseteq maybe
      BY <2>3, <2>4
    <2>6. X \in kSubset(Min({n, k}) - Cardinality(sure), maybe)
      BY <1>3, <2>1, <2>2, <2>5 DEF kSubset
    <2>7. X = sure \cup X
      BY <2>1
    <2> HIDE DEF k
    <2> QED
      BY <1>4, <2>6, <2>7
  <1> QED
    BY <1>5, <1>6

(* ... so that a page in any order is a page without an order.             *)
LEMMA AnyPage ==
    ASSUME NEW S, IsFiniteSet(S), NEW q, IsQuery(q), q.operation = "GET", NEW d, NEW clauses,
           NEW page \in Pages(S, q, d, clauses)
    PROVE  page \in Pages(S, q, d, <<>>)
  <1>1. PICK A \in Firsts(S, Skip(q), d, clauses), B \in Firsts(S, Skip(q) + Take(S, q), d, clauses) :
           A \subseteq B /\ page = B \ A
    BY PageParts
  <1>2. Skip(q) \in Nat /\ Skip(q) + Take(S, q) \in Nat
    BY PageBounds
  <1>3. /\ A \subseteq S /\ Cardinality(A) = Min({Skip(q), Cardinality(S)})
        /\ B \subseteq S /\ Cardinality(B) = Min({Skip(q) + Take(S, q), Cardinality(S)})
    BY <1>1, <1>2, FirstsSize
  <1>4. A \in Firsts(S, Skip(q), d, <<>>) /\ B \in Firsts(S, Skip(q) + Take(S, q), d, <<>>)
    BY <1>2, <1>3, AnyFirsts
  <1> QED
    BY <1>1, <1>4, PageParts

(* The order a dialect writes is the one of the language, where it has     *)
(* one.                                                                    *)
LEMMA OrderAgrees ==
    ASSUME NEW d \in Dialects, NEW q, IsQuery(q), q.operation = "GET",
           NEW S, S \subseteq Rows, ~RankingOverNulls(d, q, S)
    PROVE  \/ MeantOrder(q) = <<>>
           \/ \A r, s \in S : RowBefore(d, OrderOf(d, q), r, s) <=> RowBefore(d, MeantOrder(q), r, s)
  <1> DEFINE c1 == OrderOf(d, q)
             cl == OrderBy(q, NullsLeast, <<>>)
             c2 == MeantOrder(q)
  <1>0. c2 = [i \in DOMAIN cl |-> [cl[i] EXCEPT !.nulls = NullsLeast(cl[i].direction)]]
    BY DEF MeantOrder
  <1>1. CASE q.ranking # NoRanking
    <2> DEFINE c == Clause(q.ranking.field, RankDirection(q), "default")
               e == [c EXCEPT !.nulls = NullsLeast(c.direction)]
    <2>1. c1 = <<c>>
      BY <1>1 DEF OrderOf, PgOrderBy, MySqlOrderBy, SqliteOrderBy, MongoSort, OrderBy, Dialects
    <2>2. cl = <<c>>
      BY <1>1 DEF OrderBy
    <2>3. c2 = <<e>>
      <3> HIDE DEF c, cl
      <3>1. DOMAIN cl = 1 .. 1 /\ cl[1] = c
        BY <2>2
      <3> QED
        BY <1>0, <3>1
    <2>4. /\ c.field = q.ranking.field /\ c.direction = RankDirection(q) /\ c.nulls = "default"
          /\ e.field = q.ranking.field /\ e.direction = RankDirection(q)
          /\ e.nulls = NullsLeast(RankDirection(q))
      BY DEF Clause
    <2>5. RankDirection(q) \in {"ASC", "DESC"}
      BY DEF RankDirection
    <2> HIDE DEF c, e
    <2>6. d # "postgresql" => (NullsFirst(d, c) <=> NullsFirst(d, e))
      BY <2>4, <2>5 DEF NullsFirst, NullsLeast
    <2>7. d = "postgresql" => \A r \in S : r[c.field] # Null
      BY <1>1, <2>4 DEF RankingOverNulls
    <2>8. Alike(d, <<c>>, <<e>>, S)
      BY <2>4, <2>6, <2>7 DEF Alike
    <2>9. \A r, s \in S : RowBefore(d, <<c>>, r, s) <=> RowBefore(d, <<e>>, r, s)
      <3>1. DOMAIN <<c>> = 1 .. 1
        OBVIOUS
      <3> QED
        BY <2>8, <3>1, AlikeOrders
    <2> QED
      BY <2>1, <2>3, <2>9
  <1>2. CASE q.ranking = NoRanking /\ q.sort # <<>>
    <2> DEFINE nulls(direction) == IF d = "postgresql" THEN PgNulls(direction) ELSE "default"
    <2>1. q.sort \in Seq([field : {"x", "y"}, direction : {"ASC", "DESC"}])
      BY DEF IsQuery
    <2>2. c1 = [i \in DOMAIN q.sort |-> Clause(q.sort[i].field, q.sort[i].direction, nulls(q.sort[i].direction))]
      BY <1>2 DEF OrderOf, PgOrderBy, MySqlOrderBy, SqliteOrderBy, MongoSort, OrderBy, DefaultNulls, Dialects
    <2>3. cl = [i \in DOMAIN q.sort |->
                  Clause(q.sort[i].field, q.sort[i].direction, NullsLeast(q.sort[i].direction))]
      BY <1>2 DEF OrderBy
    <2>4. DOMAIN c1 = DOMAIN q.sort /\ DOMAIN c2 = DOMAIN q.sort
      <3>1. DOMAIN c1 = DOMAIN q.sort
        BY <2>2
      <3>2. DOMAIN cl = DOMAIN q.sort
        BY <2>3
      <3> HIDE DEF cl, c2
      <3> QED
        BY <1>0, <3>1, <3>2
    <2>5. ASSUME NEW i \in DOMAIN q.sort
          PROVE  /\ c1[i].field = q.sort[i].field /\ c1[i].direction = q.sort[i].direction
                 /\ c1[i].nulls = nulls(q.sort[i].direction)
                 /\ c2[i].field = q.sort[i].field /\ c2[i].direction = q.sort[i].direction
                 /\ c2[i].nulls = NullsLeast(q.sort[i].direction)
                 /\ q.sort[i].direction \in {"ASC", "DESC"}
      <3>1. c1[i] = Clause(q.sort[i].field, q.sort[i].direction, nulls(q.sort[i].direction))
        BY <2>2
      <3>2. /\ cl[i] = Clause(q.sort[i].field, q.sort[i].direction, NullsLeast(q.sort[i].direction))
            /\ i \in DOMAIN cl
        BY <2>3
      <3> HIDE DEF cl, c1, c2, nulls
      <3>3. c2[i] = [cl[i] EXCEPT !.nulls = NullsLeast(cl[i].direction)]
        BY <1>0, <3>2
      <3>4. q.sort[i].direction \in {"ASC", "DESC"}
        <4> DEFINE sorts == [field : {"x", "y"}, direction : {"ASC", "DESC"}]
        <4>1. q.sort \in Seq(sorts)
          BY <2>1
        <4> HIDE DEF sorts
        <4>2. q.sort[i] \in sorts
          BY <4>1
        <4> QED
          BY <4>2 DEF sorts
      <3> QED
        BY <3>1, <3>2, <3>3, <3>4 DEF Clause
    <2> HIDE DEF c1, c2, cl
    <2>6. ASSUME NEW i \in DOMAIN q.sort
          PROVE  NullsFirst(d, c1[i]) <=> NullsFirst(d, c2[i])
      BY <2>5 DEF NullsFirst, NullsLeast, PgNulls
    <2>7. Alike(d, c1, c2, S)
      BY <2>4, <2>5, <2>6 DEF Alike
    <2>8. DOMAIN c1 = 1 .. Len(q.sort) /\ Len(q.sort) \in Nat
      BY <2>1, <2>4
    <2>9. \A r, s \in S : RowBefore(d, c1, r, s) <=> RowBefore(d, c2, r, s)
      BY <2>7, <2>8, AlikeOrders
    <2> QED
      BY <2>9 DEF c1, c2
  <1>3. CASE q.ranking = NoRanking /\ q.sort = <<>> /\ q.keyed
    <2> DEFINE c == Clause("id", "ASC", "default")
               e == [c EXCEPT !.nulls = NullsLeast(c.direction)]
    <2>1. c1 = <<c>>
      BY <1>3 DEF OrderOf, PgOrderBy, MySqlOrderBy, SqliteOrderBy, MongoSort, OrderBy, Dialects
    <2>2. cl = <<c>>
      BY <1>3 DEF OrderBy
    <2>3. c2 = <<e>>
      <3> HIDE DEF c, cl
      <3>1. DOMAIN cl = 1 .. 1 /\ cl[1] = c
        BY <2>2
      <3> QED
        BY <1>0, <3>1
    <2>4. c.field = "id" /\ c.direction = "ASC" /\ e.field = "id" /\ e.direction = "ASC"
      BY DEF Clause
    <2>5. \A r \in S : r["id"] # Null
      BY DEF Rows, Null
    <2> HIDE DEF c, e
    <2>6. Alike(d, <<c>>, <<e>>, S)
      BY <2>4, <2>5 DEF Alike
    <2>7. \A r, s \in S : RowBefore(d, <<c>>, r, s) <=> RowBefore(d, <<e>>, r, s)
      <3>1. DOMAIN <<c>> = 1 .. 1
        OBVIOUS
      <3> QED
        BY <2>6, <3>1, AlikeOrders
    <2> QED
      BY <2>1, <2>3, <2>7
  <1>4. CASE q.ranking = NoRanking /\ q.sort = <<>> /\ ~q.keyed
    <2>1. cl = <<>>
      BY <1>4 DEF OrderBy
    <2> HIDE DEF cl
    <2> QED
      BY <1>0, <2>1
  <1> QED
    BY <1>1, <1>2, <1>3, <1>4

(* Every GET of an exact form answers with a page of the rows it means, in *)
(* the order of the language.                                              *)
THEOREM ReadsArePages == Spec => []ReadIsPage
  <1>1. Init => ReadIsPage
    BY DEF Init, ReadIsPage
  <1>2. TypeOK /\ ReadIsPage /\ [Next]_vars => ReadIsPage'
    <2> SUFFICES ASSUME TypeOK, ReadIsPage, [Next]_vars PROVE ReadIsPage'
      OBVIOUS
    <2>1. CASE LowerRead
      <3> SUFFICES ASSUME ExactWhere(dialect, query), ~Negated(query)
                   PROVE  IF Malformed(dialect, query) THEN outcome' = Failed
                          ELSE /\ outcome'.status = "done"
                               /\ ~RankingOverNulls(dialect, query, table) =>
                                     outcome'.rows \in Pages(Meant(query, table), query, dialect, MeantOrder(query))
        <4>1. dialect' = dialect /\ query' = query /\ table' = table
          BY <2>1 DEF LowerRead
        <4> QED
          BY <4>1 DEF ReadIsPage
      <3>1. outcome = Pending /\ query.operation = "GET"
        BY <2>1 DEF LowerRead, Pick
      <3>2. ~Raises /\ Selected = Meant(query, table)
        BY <3>1, SelectedRows
      <3>3. CASE Malformed(dialect, query)
        BY <2>1, <3>3 DEF LowerRead
      <3>4. CASE ~Malformed(dialect, query)
        <4> DEFINE M == Meant(query, table)
        <4>1. PICK page \in Pages(M, query, dialect, OrderOf(dialect, query)) : outcome' = Done(page)
          BY <2>1, <3>2, <3>4 DEF LowerRead
        <4>2. /\ dialect \in Dialects /\ IsQuery(query) /\ table \subseteq Rows /\ IsFiniteSet(table)
          BY <3>1 DEF TypeOK
        <4>3. M \subseteq table
          BY DEF Meant
        <4> HIDE DEF M
        <4>4. M \subseteq Rows /\ IsFiniteSet(M)
          BY <4>2, <4>3, FS_Subset
        <4>5. ASSUME ~RankingOverNulls(dialect, query, table)
              PROVE  page \in Pages(M, query, dialect, MeantOrder(query))
          <5>1. ~RankingOverNulls(dialect, query, M)
            BY <4>3, <4>5 DEF RankingOverNulls
          <5>2. CASE MeantOrder(query) = <<>>
            BY <3>1, <4>1, <4>2, <4>4, <5>2, AnyPage
          <5>3. CASE \A r, s \in M : RowBefore(dialect, OrderOf(dialect, query), r, s)
                                       <=> RowBefore(dialect, MeantOrder(query), r, s)
            BY <4>1, <5>3, AlikePages
          <5> QED
            BY <3>1, <4>2, <4>4, <5>1, <5>2, <5>3, OrderAgrees
        <4> QED
          BY <3>4, <4>1, <4>5 DEF Done, M
      <3> QED
        BY <3>3, <3>4
    <2>2. CASE LowerUpdate \/ LowerDelete \/ LowerCreate
      BY <2>2 DEF LowerUpdate, LowerDelete, LowerCreate, Pick, ReadIsPage
    <2>3. CASE UNCHANGED vars
      BY <2>3 DEF ReadIsPage, vars
    <2> QED
      BY <2>1, <2>2, <2>3 DEF Next
  <1> QED
    BY <1>1, <1>2, TypeCorrect, PTL DEF Spec

-----------------------------------------------------------------------------
(* Loops *)

(* A set of numbers has a least one.                                       *)
LEMMA LeastNumber ==
  ASSUME NEW T, T \subseteq Nat, T # {}
  PROVE  \E n \in T : \A k \in T : n <= k
<1>1. \E n \in T : \A k \in T : ~ (<<k, n>> \in OpToRel(<, Nat))
  BY NatLessThanWellFounded, WFMin
<1>2. PICK n \in T : \A k \in T : ~ (<<k, n>> \in OpToRel(<, Nat))
  BY <1>1
<1>3. ASSUME NEW k \in T PROVE n <= k
  <2>1. k < n => <<k, n>> \in OpToRel(<, Nat)
    BY Zenon DEF OpToRel
  <2>2. ~ (k < n)
    BY <1>2, <2>1
  <2>. QED  BY <2>2
<1>. QED  BY <1>3

(* Induction up to a bound: a set that has 0 and the successor of each of  *)
(* its elements below the bound has every number up to it.                 *)
LEMMA UpToBound ==
    ASSUME NEW N \in Nat, NEW G, 0 \in G, \A n \in 0 .. N - 1 : n \in G => n + 1 \in G
    PROVE  \A n \in 0 .. N : n \in G
  <1> SUFFICES ASSUME {n \in 0 .. N : n \notin G} # {} PROVE FALSE
    OBVIOUS
  <1>1. PICK n \in {k \in 0 .. N : k \notin G} : \A k \in {j \in 0 .. N : j \notin G} : n <= k
    <2>1. {k \in 0 .. N : k \notin G} \subseteq Nat
      OBVIOUS
    <2> QED
      BY <2>1, LeastNumber
  <1>2. n # 0 /\ n - 1 \in 0 .. N - 1
    BY <1>1
  <1>3. n - 1 \in G
    BY <1>1, <1>2
  <1> QED
    BY <1>1, <1>2, <1>3

\* g has the states of a loop that starts at a and takes step D[n] at position n.
Runs(g, N, V, a, D) ==
    /\ g \in [0 .. N -> V]
    /\ g[0] = a
    /\ \A n \in 1 .. N : g[n] = D[n][g[n - 1]]

(* A loop over the positions 1 to N has its states.                        *)
LEMMA LoopExists ==
    ASSUME NEW N, NEW V, NEW a, NEW D,
           N \in Nat, a \in V, D \in [1 .. N -> [V -> V]]
    PROVE  \E g : Runs(g, N, V, a, D)
  <1> DEFINE Prefix(m) == {h \in [0 .. m -> V] : h[0] = a /\ \A n \in 1 .. m : h[n] = D[n][h[n - 1]]}
             G == {m \in 0 .. N : Prefix(m) # {}}
  <1>1. 0 \in G
    <2>1. [k \in 0 .. 0 |-> a] \in Prefix(0)
      OBVIOUS
    <2> QED
      BY <2>1
  <1>2. ASSUME NEW m \in 0 .. N - 1, m \in G PROVE m + 1 \in G
    <2>1. PICK h \in Prefix(m) : TRUE
      BY <1>2
    <2> DEFINE g == [k \in 0 .. m + 1 |-> IF k = m + 1 THEN D[m + 1][h[m]] ELSE h[k]]
    <2>2. h[m] \in V /\ m + 1 \in 1 .. N
      OBVIOUS
    <2>3. D[m + 1][h[m]] \in V
      BY <2>2
    <2>4. g \in [0 .. m + 1 -> V] /\ g[0] = a
      BY <2>1, <2>3
    <2>5. ASSUME NEW n \in 1 .. m + 1 PROVE g[n] = D[n][g[n - 1]]
      <3>1. CASE n = m + 1
        BY <3>1
      <3>2. CASE n # m + 1
        <4>1. n \in 1 .. m /\ n \in 0 .. m + 1 /\ n - 1 \in 0 .. m + 1 /\ n - 1 # m + 1
          BY <3>2
        <4>2. g[n] = h[n] /\ g[n - 1] = h[n - 1]
          BY <3>2, <4>1
        <4>3. h[n] = D[n][h[n - 1]]
          BY <2>1, <4>1
        <4> QED
          BY <4>2, <4>3
      <3> QED
        BY <3>1, <3>2
    <2>6. g \in Prefix(m + 1)
      BY <2>4, <2>5
    <2> QED
      BY <2>2, <2>6
  <1>3. N \in G
    <2> HIDE DEF G
    <2>1. \A m \in 0 .. N - 1 : m \in G => m + 1 \in G
      BY <1>2
    <2>2. \A m \in 0 .. N : m \in G
      BY <1>1, <2>1, UpToBound, Zenon
    <2> QED
      BY <2>2
  <1> QED
    BY <1>3 DEF Runs

-----------------------------------------------------------------------------
(* The statements of a CREATE *)

Record == Seq(Assignment)
Group == {g \in Seq(Record) : g # <<>>}

(* The groups are the first n records in their order, cut where the columns *)
(* change: before[k] records come before group k + 1.                       *)
Cuts(groups, before, records, n) ==
    /\ groups \in Seq(Group)
    /\ before \in [0 .. Len(groups) -> Nat]
    /\ before[0] = 0 /\ before[Len(groups)] = n
    /\ \A k \in 1 .. Len(groups) :
         /\ before[k] = before[k - 1] + Len(groups[k])
         /\ \A r \in 1 .. Len(groups[k]) :
              /\ groups[k][r] = records[before[k - 1] + r]
              /\ Columns(groups[k][r]) = Columns(groups[k][1])

(* A group with one more record is a group.                                *)
LEMMA LongerGroup ==
    ASSUME NEW s \in Seq(Record), NEW rec \in Record
    PROVE  Append(s, rec) \in Group
  <1> DEFINE t == Append(s, rec)
  <1>1. t \in Seq(Record) /\ Len(t) = Len(s) + 1 /\ Len(s) \in Nat
    OBVIOUS
  <1> HIDE DEF t
  <1>2. t # <<>>
    BY <1>1
  <1> QED
    BY <1>1, <1>2 DEF Group, t

(* The next record ends the last group or begins a new one.               *)
LEMMA AddCuts ==
    ASSUME NEW records \in Seq(Record), NEW n \in 1 .. Len(records), NEW groups, NEW before,
           Cuts(groups, before, records, n - 1)
    PROVE  \E b : Cuts(AddToGroups(groups, records[n]), b, records, n)
  <1> DEFINE rec == records[n]
             L == Len(groups)
             joins == groups # <<>> /\ Columns(Head(Last(groups))) = Columns(rec)
  <1>1. groups \in Seq(Group) /\ L \in Nat /\ rec \in Record
    BY DEF Cuts
  <1>2. CASE joins
    <2> DEFINE new == Append(groups[L], rec)
               all == [groups EXCEPT ![L] = new]
               b == [before EXCEPT ![L] = n]
    <2>1. L \in 1 .. L /\ groups[L] \in Group
      BY <1>1, <1>2
    <2>2. AddToGroups(groups, records[n]) = all
      BY <1>2 DEF AddToGroups
    <2>3. new \in Group /\ Len(new) = Len(groups[L]) + 1 /\ groups[L] \in Seq(Record) /\ Len(groups[L]) \in Nat \ {0}
      BY <1>1, <2>1 DEF Group
    <2>4. all \in Seq(Group) /\ Len(all) = L /\ all[L] = new /\ \A k \in 1 .. L - 1 : all[k] = groups[k]
      BY <1>1, <2>1, <2>3
    <2>5. b \in [0 .. L -> Nat] /\ b[0] = 0 /\ b[L] = n /\ \A k \in 0 .. L - 1 : b[k] = before[k]
      <3>1. before \in [0 .. L -> Nat] /\ before[0] = 0
        BY DEF Cuts
      <3>2. n \in Nat
        BY DEF Record
      <3> HIDE DEF L
      <3> QED
        BY <1>1, <2>1, <3>1, <3>2
    <2>6. before[L - 1] \in Nat /\ n - 1 = before[L - 1] + Len(groups[L])
      <3>1. before \in [0 .. L -> Nat] /\ before[L] = n - 1 /\ L - 1 \in 0 .. L
        BY <1>1, <2>1 DEF Cuts
      <3>2. before[L] = before[L - 1] + Len(groups[L])
        BY <2>1 DEF Cuts
      <3> QED
        BY <3>1, <3>2
    <2>7. ASSUME NEW k \in 1 .. L - 1
          PROVE  /\ b[k] = b[k - 1] + Len(all[k])
                 /\ \A r \in 1 .. Len(all[k]) : /\ all[k][r] = records[b[k - 1] + r]
                                                /\ Columns(all[k][r]) = Columns(all[k][1])
      <3>1. all[k] = groups[k]
        BY <2>4
      <3>1a. k \in 0 .. L - 1 /\ k - 1 \in 0 .. L - 1 /\ k \in 1 .. L
        <4> HIDE DEF L
        <4> QED
          BY <1>1
      <3>2. b[k] = before[k] /\ b[k - 1] = before[k - 1]
        BY <2>5, <3>1a
      <3> HIDE DEF all, b, L
      <3> QED
        BY <3>1, <3>1a, <3>2 DEF Cuts, L
    <2>8. b[L] = b[L - 1] + Len(all[L])
      <3>1. b[L - 1] = before[L - 1]
        BY <2>1, <2>5
      <3> HIDE DEF b, all, new, L
      <3>2. b[L] = n /\ Len(all[L]) = Len(groups[L]) + 1
        BY <2>3, <2>4, <2>5, Zenon
      <3>3. \A x, y \in Nat : n - 1 = x + y => n = x + (y + 1)
        OBVIOUS
      <3> QED
        BY <2>3, <2>6, <3>1, <3>2, <3>3, Zenon
    <2>9. ASSUME NEW r \in 1 .. Len(all[L])
          PROVE  /\ all[L][r] = records[b[L - 1] + r]
                 /\ Columns(all[L][r]) = Columns(all[L][1])
      <3>1. new[1] = groups[L][1]
        BY <2>3
      <3>2. Last(groups) = groups[L] /\ Head(groups[L]) = groups[L][1]
        BY <1>2, <2>3 DEF Last
      <3>3. CASE r = Len(new)
        <4>1. new[r] = rec
          BY <2>3, <3>3
        <4>2. b[L - 1] + r = n
          <5>1. r = Len(groups[L]) + 1 /\ b[L - 1] = before[L - 1]
            BY <2>1, <2>3, <2>5, <3>3
          <5>2. \A x, y \in Nat : n - 1 = x + y => x + (y + 1) = n
            OBVIOUS
          <5> HIDE DEF b, L
          <5> QED
            BY <2>3, <2>6, <5>1, <5>2, Zenon
        <4> QED
          BY <1>2, <2>4, <3>1, <3>2, <4>1, <4>2
      <3>4. CASE r # Len(new)
        <4>1. r \in 1 .. Len(groups[L])
          <5> HIDE DEF all, new
          <5> QED
            BY <2>3, <2>4, <3>4
        <4>2. new[r] = groups[L][r]
          BY <2>3, <4>1
        <4>3. groups[L][r] = records[before[L - 1] + r] /\ Columns(groups[L][r]) = Columns(groups[L][1])
          BY <2>1, <4>1 DEF Cuts
        <4>4. b[L - 1] = before[L - 1]
          BY <2>1, <2>5
        <4> QED
          BY <2>4, <3>1, <4>2, <4>3, <4>4
      <3> QED
        BY <3>3, <3>4
    <2>10. \A k \in 1 .. L : k = L \/ k \in 1 .. L - 1
      BY <1>1
    <2> HIDE DEF all, b, L, new
    <2>11. Cuts(all, b, records, n)
      BY <2>4, <2>5, <2>7, <2>8, <2>9, <2>10 DEF Cuts
    <2> QED
      BY <2>2, <2>11
  <1>3. CASE ~joins
    <2> DEFINE all == Append(groups, <<rec>>)
               b == [k \in 0 .. L + 1 |-> IF k = L + 1 THEN n ELSE before[k]]
    <2>1. AddToGroups(groups, records[n]) = all
      BY <1>3 DEF AddToGroups
    <2>2. <<rec>> \in Group /\ Len(<<rec>>) = 1 /\ <<rec>>[1] = rec
      BY <1>1 DEF Group
    <2>3. all \in Seq(Group) /\ Len(all) = L + 1 /\ all[L + 1] = <<rec>> /\ \A k \in 1 .. L : all[k] = groups[k]
      BY <1>1, <2>2
    <2>4. b \in [0 .. L + 1 -> Nat] /\ b[0] = 0 /\ b[L + 1] = n /\ \A k \in 0 .. L : b[k] = before[k]
      BY <1>1 DEF Cuts
    <2>5. before[L] = n - 1
      BY DEF Cuts
    <2>6. ASSUME NEW k \in 1 .. L
          PROVE  /\ b[k] = b[k - 1] + Len(all[k])
                 /\ \A r \in 1 .. Len(all[k]) : /\ all[k][r] = records[b[k - 1] + r]
                                                /\ Columns(all[k][r]) = Columns(all[k][1])
      <3>1. all[k] = groups[k] /\ b[k] = before[k] /\ b[k - 1] = before[k - 1]
        BY <1>1, <2>3, <2>4
      <3> HIDE DEF all, b, L
      <3> QED
        BY <3>1 DEF Cuts, L
    <2>7. b[L + 1] = b[(L + 1) - 1] + Len(all[L + 1])
      BY <1>1, <2>2, <2>3, <2>4, <2>5
    <2>8. ASSUME NEW r \in 1 .. Len(all[L + 1])
          PROVE  /\ all[L + 1][r] = records[b[(L + 1) - 1] + r]
                 /\ Columns(all[L + 1][r]) = Columns(all[L + 1][1])
      <3>1. r = 1 /\ b[(L + 1) - 1] + r = n
        BY <1>1, <2>2, <2>3, <2>4, <2>5
      <3> QED
        BY <2>2, <2>3, <3>1
    <2>9. \A k \in 1 .. L + 1 : k = L + 1 \/ k \in 1 .. L
      BY <1>1
    <2> HIDE DEF all, b, L
    <2>10. Cuts(all, b, records, n)
      BY <2>3, <2>4, <2>6, <2>7, <2>8, <2>9 DEF Cuts
    <2> QED
      BY <2>1, <2>10
  <1> QED
    BY <1>2, <1>3

(* The groups of a CREATE are its records in their order.                  *)
LEMMA GroupsCut ==
    ASSUME NEW records \in Seq(Record)
    PROVE  \E before : Cuts(Groups(records), before, records, Len(records))
  <1> DEFINE N == Len(records)
             V == Seq(Group)
             Step(v, n) == AddToGroups(v, records[n])
             Loop(g) == g = [n \in 0 .. N |-> IF n = 0 THEN <<>> ELSE Step(g[n - 1], n)]
             D == [n \in 1 .. N |-> [v \in V |-> Step(v, n)]]
             empty == <<>>
             loop == CHOOSE g : Loop(g)
  <1>1. N \in Nat
    OBVIOUS
  <1>2. ASSUME NEW v \in V, NEW n \in 1 .. N PROVE Step(v, n) \in V
    <2>1. records[n] \in Record
      OBVIOUS
    <2>2. <<records[n]>> \in Group
      BY <2>1 DEF Group
    <2>3. CASE v # <<>>
      <3>1. Len(v) \in 1 .. Len(v) /\ v[Len(v)] \in Group
        BY <2>3
      <3>2. Append(v[Len(v)], records[n]) \in Group
        <4>1. v[Len(v)] \in Seq(Record)
          BY <3>1 DEF Group
        <4> QED
          BY <2>1, <4>1, LongerGroup
      <3> QED
        BY <2>2, <3>1, <3>2 DEF AddToGroups
    <2>4. CASE v = <<>>
      BY <2>2, <2>4 DEF AddToGroups
    <2> QED
      BY <2>3, <2>4
  <1>3. \E g : Loop(g)
    <2>1. D \in [1 .. N -> [V -> V]] /\ empty \in V
      BY <1>2
    <2>2. \A n \in 1 .. N, v \in V : D[n][v] = Step(v, n)
      OBVIOUS
    <2> HIDE DEF N, V, D, empty
    <2>3a. PICK g : Runs(g, N, V, empty, D)
      BY <1>1, <2>1, LoopExists, Zenon
    <2>3. g \in [0 .. N -> V] /\ g[0] = empty /\ \A n \in 1 .. N : g[n] = D[n][g[n - 1]]
      BY <2>3a DEF Runs
    <2>4. \A n \in 1 .. N : g[n] = Step(g[n - 1], n)
      BY <1>1, <2>2, <2>3
    <2>5. g = [n \in 0 .. N |-> g[n]]
      BY <2>3
    <2>6. \A n \in 0 .. N : n # 0 => n \in 1 .. N
      BY <1>1
    <2> HIDE DEF Step
    <2>7. Loop(g)
      BY <2>3, <2>4, <2>5, <2>6 DEF empty
    <2> QED
      BY <2>7
  <1>4. Loop(loop)
    BY <1>3
  <1>5. Groups(records) = loop[N]
    BY DEF Groups
  <1> HIDE DEF loop
  <1>4a. loop[0] = <<>> /\ \A n \in 1 .. N : loop[n] = Step(loop[n - 1], n)
    BY <1>1, <1>4
  <1> DEFINE G == {n \in 0 .. N : \E before : Cuts(loop[n], before, records, n)}
  <1>6. 0 \in G
    <2>1. loop[0] = <<>>
      BY <1>4a
    <2>2. Cuts(<<>>, [k \in 0 .. 0 |-> 0], records, 0)
      BY DEF Cuts
    <2> QED
      BY <1>1, <2>1, <2>2
  <1>7. ASSUME NEW n \in 0 .. N - 1, n \in G PROVE n + 1 \in G
    <2>1. loop[n + 1] = Step(loop[n], n + 1)
      BY <1>1, <1>4a
    <2>2. PICK before : Cuts(loop[n], before, records, (n + 1) - 1)
      <3>1. (n + 1) - 1 = n
        OBVIOUS
      <3> QED
        BY <1>7, <3>1
    <2>3. n + 1 \in 1 .. Len(records)
      BY <1>1
    <2> HIDE DEF N
    <2>4. \E b : Cuts(AddToGroups(loop[n], records[n + 1]), b, records, n + 1)
      BY <2>2, <2>3, AddCuts
    <2> QED
      BY <2>1, <2>3, <2>4 DEF N
  <1> HIDE DEF G
  <1>8. \A n \in 0 .. N - 1 : n \in G => n + 1 \in G
    BY <1>7
  <1>9. \A n \in 0 .. N : n \in G
    BY <1>1, <1>6, <1>8, UpToBound, Zenon
  <1>10. N \in G
    BY <1>1, <1>9
  <1> QED
    BY <1>5, <1>10 DEF G

(* A value of a VALUES tuple is the keyword or the number of a parameter.  *)
Cell == LiteralValue \cup [kind : {"slot"}, index : Nat]
Tuple == [row : Seq(Cell), params : Seq(Cells)]
Statement == [columns : Seq({"x", "y"}), rows : Seq(Seq(Cell)), params : Seq(Cells)]

\* What the cell of a tuple says with the parameters of its statement.
Says(cell, params, value) ==
    IF value.kind \in {"null", "today", "now"} THEN cell = value
    ELSE /\ cell.kind = "slot" /\ cell.index \in 1 .. Len(params)
         /\ params[cell.index] = lower_literal(value)

Longer(p, q) == Len(p) <= Len(q) /\ \A i \in 1 .. Len(p) : q[i] = p[i]

(* A cell says the same when parameters are added behind the others.       *)
LEMMA StillSays ==
    ASSUME NEW p \in Seq(Cells), NEW q \in Seq(Cells), Longer(p, q), NEW cell, NEW value, Says(cell, p, value)
    PROVE  Says(cell, q, value)
  BY DEF Longer, Says

(* Parameters are only ever added.                                         *)
LEMMA LongerTrans ==
    ASSUME NEW p \in Seq(Cells), NEW q \in Seq(Cells), NEW r \in Seq(Cells), Longer(p, q), Longer(q, r)
    PROVE  Longer(p, r)
  BY DEF Longer

(* What a literal denotes; the parameter bound for a value is that.        *)
LEMMA ValueKinds ==
    ASSUME NEW l \in LiteralValue
    PROVE  /\ l.kind \in {"null", "today", "now", "lit", "day"}
           /\ lower_literal(l) \in Cells
           /\ l.kind \in {"lit", "day"} => convert_literal_to_parameter(l) = lower_literal(l)
  <1>1. CASE l = NullLiteral
    BY <1>1 DEF NullLiteral, lower_literal, Cells
  <1>2. CASE l = TodayKeyword
    BY <1>2, ConstantTypes DEF TodayKeyword, lower_literal, Cells
  <1>3. CASE l = NowKeyword
    BY <1>3, ConstantTypes DEF NowKeyword, lower_literal, Cells
  <1>4. CASE l \in [kind : {"lit"}, value : Nat]
    BY <1>4 DEF lower_literal, convert_literal_to_parameter, Cells
  <1>5. CASE l \in [kind : {"day"}, day : Nat]
    BY <1>5, ConstantTypes DEF lower_literal, convert_literal_to_parameter, Cells, DayStart
  <1> QED
    BY <1>1, <1>2, <1>3, <1>4, <1>5 DEF LiteralValue

\* One cell more, which says the value.
Lowers(acc, new, value) ==
    /\ new \in Tuple
    /\ Len(new.row) = Len(acc.row) + 1
    /\ \A i \in 1 .. Len(acc.row) : new.row[i] = acc.row[i]
    /\ Longer(acc.params, new.params)
    /\ Says(new.row[Len(new.row)], new.params, value)

(* lower_group_literal adds one cell and says the value with it.           *)
LEMMA ValueLowered ==
    ASSUME NEW acc \in Tuple, NEW a \in Assignment
    PROVE  Lowers(acc, LowerValue(acc, a), a.value)
  <1> DEFINE new == LowerValue(acc, a)
             p == acc.params
             x == convert_literal_to_parameter(a.value)
             slot == [kind |-> "slot", index |-> Len(p) + 1]
  <1>1. a.value \in LiteralValue
    BY DEF Assignment
  <1>2. acc.row \in Seq(Cell) /\ p \in Seq(Cells)
    BY DEF Tuple
  <1>3. CASE a.value.kind \in {"null", "today", "now"}
    <2>1. new.row = Append(acc.row, a.value) /\ new.params = p /\ new \in Tuple
      <3>1. Append(acc.row, a.value) \in Seq(Cell)
        BY <1>1, <1>2 DEF Cell
      <3>2. new = [acc EXCEPT !.row = Append(acc.row, a.value)]
        BY <1>3 DEF LowerValue
      <3> HIDE DEF new
      <3> QED
        BY <3>1, <3>2 DEF Tuple
    <2> HIDE DEF new
    <2>2. Len(new.row) = Len(acc.row) + 1 /\ new.row[Len(new.row)] = a.value
      BY <1>1, <1>2, <2>1 DEF Cell
    <2>3. \A i \in 1 .. Len(acc.row) : new.row[i] = acc.row[i]
      BY <1>1, <1>2, <2>1 DEF Cell
    <2> QED
      BY <1>2, <1>3, <2>1, <2>2, <2>3 DEF Longer, Says, Lowers, new
  <1>4. CASE a.value.kind \notin {"null", "today", "now"}
    <2>1. new = [row |-> Append(acc.row, slot), params |-> Append(p, x)]
      BY <1>4 DEF LowerValue
    <2>2. x = lower_literal(a.value) /\ x \in Cells
      BY <1>1, <1>4, ValueKinds
    <2>3. slot \in Cell /\ slot.kind = "slot" /\ slot.index = Len(p) + 1
      BY <1>2 DEF Cell
    <2>4. new.row = Append(acc.row, slot) /\ new.params = Append(p, x)
      BY <2>1
    <2> HIDE DEF slot, x, new
    <2>5. Append(acc.row, slot) \in Seq(Cell) /\ Append(p, x) \in Seq(Cells)
      BY <1>2, <2>2, <2>3
    <2>6. new \in Tuple
      BY <2>1, <2>5 DEF Tuple
    <2>7. Longer(p, new.params)
      BY <1>2, <2>2, <2>4 DEF Longer
    <2>8. new.row[Len(new.row)] = slot /\ Len(new.row) = Len(acc.row) + 1
      BY <1>2, <2>3, <2>4
    <2>9. Says(slot, new.params, a.value)
      BY <1>2, <1>4, <2>2, <2>3, <2>4 DEF Says
    <2>10. \A i \in 1 .. Len(acc.row) : new.row[i] = acc.row[i]
      BY <1>2, <2>3, <2>4
    <2> QED
      BY <2>6, <2>7, <2>8, <2>9, <2>10 DEF new, Lowers
  <1> QED
    BY <1>3, <1>4

\* One tuple more, which says the record.
LowersRecord(stmt, new, rec) ==
    /\ new \in Statement /\ new.columns = stmt.columns
    /\ Len(new.rows) = Len(stmt.rows) + 1
    /\ \A r \in 1 .. Len(stmt.rows) : new.rows[r] = stmt.rows[r]
    /\ Longer(stmt.params, new.params)
    /\ Len(new.rows[Len(new.rows)]) = Len(rec)
    /\ \A i \in 1 .. Len(rec) : Says(new.rows[Len(new.rows)][i], new.params, rec[i].value)

(* The loop over the assignments of a record adds a tuple that says them.  *)
LEMMA RecordLowered ==
    ASSUME NEW stmt \in Statement, NEW rec \in Record
    PROVE  LowersRecord(stmt, LowerRecord(stmt, rec), rec)
  <1> DEFINE N == Len(rec)
             start == [row |-> <<>>, params |-> stmt.params]
             Step(v, n) == LowerValue(v, rec[n])
             Loop(g) == g = [n \in 0 .. N |-> IF n = 0 THEN start ELSE Step(g[n - 1], n)]
             D == [n \in 1 .. N |-> [v \in Tuple |-> Step(v, n)]]
             loop == CHOOSE g : Loop(g)
  <1>1. N \in Nat /\ start \in Tuple
    BY DEF Tuple, Statement
  <1>2. ASSUME NEW v \in Tuple, NEW n \in 1 .. N PROVE Step(v, n) \in Tuple
    <2>1. rec[n] \in Assignment
      BY DEF Record
    <2> QED
      BY <2>1, ValueLowered DEF Lowers
  <1>3. \E g : Loop(g)
    <2>1. D \in [1 .. N -> [Tuple -> Tuple]]
      BY <1>2
    <2>2. \A n \in 1 .. N, v \in Tuple : D[n][v] = Step(v, n)
      OBVIOUS
    <2> HIDE DEF N, D, start
    <2>3. PICK g : Runs(g, N, Tuple, start, D)
      BY <1>1, <2>1, LoopExists, Zenon
    <2>4. g \in [0 .. N -> Tuple] /\ g[0] = start /\ \A n \in 1 .. N : g[n] = D[n][g[n - 1]]
      BY <2>3 DEF Runs
    <2>5. \A n \in 1 .. N : g[n] = Step(g[n - 1], n)
      BY <1>1, <2>2, <2>4
    <2>6. g = [n \in 0 .. N |-> g[n]] /\ \A n \in 0 .. N : n # 0 => n \in 1 .. N
      BY <1>1, <2>4
    <2> HIDE DEF Step
    <2> QED
      BY <2>4, <2>5, <2>6
  <1>4. Loop(loop)
    BY <1>3
  <1>5. LowerRecord(stmt, rec) = [stmt EXCEPT !.rows = Append(@, loop[N].row), !.params = loop[N].params]
    BY DEF LowerRecord
  <1> HIDE DEF loop
  <1>6. loop[0] = start /\ \A n \in 1 .. N : loop[n] = Step(loop[n - 1], n)
    BY <1>1, <1>4
  <1> DEFINE Good(n) == /\ loop[n] \in Tuple
                        /\ Len(loop[n].row) = n
                        /\ Longer(stmt.params, loop[n].params)
                        /\ \A i \in 1 .. n : Says(loop[n].row[i], loop[n].params, rec[i].value)
             G == {n \in 0 .. N : Good(n)}
  <1>7. 0 \in G
    BY <1>1, <1>6 DEF Longer, Statement
  <1>8. ASSUME NEW n \in 0 .. N - 1, n \in G PROVE n + 1 \in G
    <2> DEFINE old == loop[n]
               new == loop[n + 1]
               value == rec[n + 1].value
    <2>1. n + 1 \in 1 .. N /\ (n + 1) - 1 = n
      BY <1>1
    <2>2. rec[n + 1] \in Assignment /\ old \in Tuple
      BY <1>8, <2>1 DEF Record
    <2>3. new = LowerValue(old, rec[n + 1])
      BY <1>6, <2>1
    <2>4. Lowers(old, new, value)
      BY <2>2, <2>3, ValueLowered
    <2>5. /\ Len(old.row) = n /\ Longer(stmt.params, old.params)
          /\ \A i \in 1 .. n : Says(old.row[i], old.params, rec[i].value)
      BY <1>8
    <2> HIDE DEF old, new, value
    <2>6. /\ stmt.params \in Seq(Cells) /\ old.params \in Seq(Cells) /\ new.params \in Seq(Cells)
          /\ Longer(old.params, new.params) /\ Len(new.row) = n + 1
          /\ Says(new.row[n + 1], new.params, value)
          /\ \A i \in 1 .. n : new.row[i] = old.row[i]
      BY <2>2, <2>4, <2>5 DEF Lowers, Tuple, Statement
    <2>7. Longer(stmt.params, new.params)
      BY <2>5, <2>6, LongerTrans
    <2>8. \A i \in 1 .. n : Says(new.row[i], new.params, rec[i].value)
      BY <2>5, <2>6, StillSays
    <2>9. \A i \in 1 .. n + 1 : i = n + 1 \/ i \in 1 .. n
      OBVIOUS
    <2> QED
      BY <1>1, <2>1, <2>4, <2>6, <2>7, <2>8, <2>9 DEF Lowers, new, value
  <1> HIDE DEF G
  <1>9. \A n \in 0 .. N - 1 : n \in G => n + 1 \in G
    BY <1>8
  <1>10. \A n \in 0 .. N : n \in G
    BY <1>1, <1>7, <1>9, UpToBound, Zenon
  <1>11. Good(N)
    BY <1>1, <1>10 DEF G
  <1> DEFINE new == LowerRecord(stmt, rec)
             row == loop[N].row
  <1>12. new.columns = stmt.columns /\ new.rows = Append(stmt.rows, row) /\ new.params = loop[N].params /\ new \in Statement
    <2>1. row \in Seq(Cell) /\ loop[N].params \in Seq(Cells)
      BY <1>11 DEF Tuple
    <2> HIDE DEF N, row
    <2>2. Append(stmt.rows, row) \in Seq(Seq(Cell))
      BY <2>1 DEF Statement
    <2> QED
      BY <1>5, <2>1, <2>2 DEF Statement, row
  <1>13. row \in Seq(Cell) /\ stmt.rows \in Seq(Seq(Cell))
    BY <1>11 DEF Tuple, Statement
  <1> HIDE DEF new, row
  <1>14. /\ Len(new.rows) = Len(stmt.rows) + 1 /\ new.rows[Len(new.rows)] = row
         /\ \A r \in 1 .. Len(stmt.rows) : new.rows[r] = stmt.rows[r]
    BY <1>12, <1>13
  <1> QED
    BY <1>11, <1>12, <1>14 DEF LowersRecord, new, row

\* Every tuple of the statement says its record.
SaysGroup(stmt, group, n) ==
    /\ stmt \in Statement /\ stmt.columns = Columns(Head(group))
    /\ Len(stmt.rows) = n
    /\ \A r \in 1 .. n :
         /\ Len(stmt.rows[r]) = Len(group[r])
         /\ \A i \in 1 .. Len(group[r]) : Says(stmt.rows[r][i], stmt.params, group[r][i].value)

(* A record more leaves the tuples before it saying what they said.        *)
LEMMA GroupStep ==
    ASSUME NEW group \in Seq(Record), NEW n \in Nat, n + 1 \in 1 .. Len(group), NEW stmt, SaysGroup(stmt, group, n)
    PROVE  SaysGroup(LowerRecord(stmt, group[n + 1]), group, n + 1)
  <1> DEFINE new == LowerRecord(stmt, group[n + 1])
  <1>1. group[n + 1] \in Record /\ stmt \in Statement
    BY DEF SaysGroup
  <1>2. LowersRecord(stmt, new, group[n + 1])
    BY <1>1, RecordLowered
  <1> HIDE DEF new
  <1>3. /\ Len(stmt.rows) = n /\ Len(new.rows) = n + 1 /\ Longer(stmt.params, new.params)
        /\ stmt.params \in Seq(Cells) /\ new.params \in Seq(Cells)
        /\ \A r \in 1 .. n : new.rows[r] = stmt.rows[r]
        /\ Len(new.rows[n + 1]) = Len(group[n + 1])
        /\ \A i \in 1 .. Len(group[n + 1]) : Says(new.rows[n + 1][i], new.params, group[n + 1][i].value)
    BY <1>1, <1>2 DEF SaysGroup, LowersRecord, Statement
  <1>4. ASSUME NEW r \in 1 .. n
        PROVE  /\ Len(new.rows[r]) = Len(group[r])
               /\ \A i \in 1 .. Len(group[r]) : Says(new.rows[r][i], new.params, group[r][i].value)
    <2>1. new.rows[r] = stmt.rows[r]
      BY <1>3
    <2>2. \A i \in 1 .. Len(group[r]) : Says(stmt.rows[r][i], stmt.params, group[r][i].value)
      BY DEF SaysGroup
    <2>3. Len(stmt.rows[r]) = Len(group[r])
      BY DEF SaysGroup
    <2> QED
      BY <1>3, <2>1, <2>2, <2>3, StillSays
  <1>5. \A r \in 1 .. n + 1 : r = n + 1 \/ r \in 1 .. n
    OBVIOUS
  <1> QED
    BY <1>2, <1>3, <1>4, <1>5 DEF SaysGroup, LowersRecord, new

(* The statement of a group says its records.                              *)
LEMMA GroupLowered ==
    ASSUME NEW group \in Group
    PROVE  SaysGroup(InsertStatement(group), group, Len(group))
  <1> DEFINE N == Len(group)
             start == [columns |-> Columns(Head(group)), rows |-> <<>>, params |-> <<>>]
             Step(v, n) == LowerRecord(v, group[n])
             Loop(g) == g = [n \in 0 .. N |-> IF n = 0 THEN start ELSE Step(g[n - 1], n)]
             D == [n \in 1 .. N |-> [v \in Statement |-> Step(v, n)]]
             loop == CHOOSE g : Loop(g)
  <1>0. group \in Seq(Record) /\ group # <<>>
    BY DEF Group
  <1>1. N \in Nat /\ start \in Statement
    <2>1. Head(group) \in Record
      BY <1>0
    <2>2. ASSUME NEW rec \in Record PROVE Columns(rec) \in Seq({"x", "y"})
      <3>1. DOMAIN rec = 1 .. Len(rec) /\ Len(rec) \in Nat
        BY DEF Record
      <3>2. \A i \in 1 .. Len(rec) : rec[i] \in Assignment
        BY DEF Record
      <3>3. \A i \in 1 .. Len(rec) : rec[i].field \in {"x", "y"}
        BY <3>2 DEF Assignment
      <3>4. [i \in 1 .. Len(rec) |-> rec[i].field] \in Seq({"x", "y"})
        BY <3>1, <3>3
      <3> QED
        BY <3>1, <3>4 DEF Columns
    <2> QED
      BY <1>0, <2>1, <2>2 DEF Statement
  <1>2. ASSUME NEW v \in Statement, NEW n \in 1 .. N PROVE Step(v, n) \in Statement
    <2>1. group[n] \in Record
      BY <1>0
    <2> QED
      BY <2>1, RecordLowered DEF LowersRecord
  <1>3. \E g : Loop(g)
    <2>1. D \in [1 .. N -> [Statement -> Statement]]
      BY <1>2
    <2>2. \A n \in 1 .. N, v \in Statement : D[n][v] = Step(v, n)
      OBVIOUS
    <2> HIDE DEF N, D, start
    <2>3. PICK g : Runs(g, N, Statement, start, D)
      BY <1>1, <2>1, LoopExists, Zenon
    <2>4. g \in [0 .. N -> Statement] /\ g[0] = start /\ \A n \in 1 .. N : g[n] = D[n][g[n - 1]]
      BY <2>3 DEF Runs
    <2>5. \A n \in 1 .. N : g[n] = Step(g[n - 1], n)
      BY <1>1, <2>2, <2>4
    <2>6. g = [n \in 0 .. N |-> g[n]] /\ \A n \in 0 .. N : n # 0 => n \in 1 .. N
      BY <1>1, <2>4
    <2> HIDE DEF Step
    <2> QED
      BY <2>4, <2>5, <2>6
  <1>4. Loop(loop)
    BY <1>3
  <1>5. InsertStatement(group) = loop[N]
    BY DEF InsertStatement
  <1> HIDE DEF loop
  <1>6. loop[0] = start /\ \A n \in 1 .. N : loop[n] = Step(loop[n - 1], n)
    BY <1>1, <1>4
  <1> DEFINE G == {n \in 0 .. N : SaysGroup(loop[n], group, n)}
  <1>7. 0 \in G
    BY <1>1, <1>6 DEF SaysGroup
  <1>8. ASSUME NEW n \in 0 .. N - 1, n \in G PROVE n + 1 \in G
    <2>1. n + 1 \in 1 .. N /\ (n + 1) - 1 = n /\ n \in Nat
      BY <1>1
    <2>2. loop[n + 1] = LowerRecord(loop[n], group[n + 1])
      BY <1>6, <2>1
    <2> QED
      BY <1>0, <1>1, <1>8, <2>1, <2>2, GroupStep
  <1> HIDE DEF G
  <1>9. \A n \in 0 .. N - 1 : n \in G => n + 1 \in G
    BY <1>8
  <1>10. \A n \in 0 .. N : n \in G
    BY <1>1, <1>7, <1>9, UpToBound, Zenon
  <1> QED
    BY <1>1, <1>5, <1>10 DEF G

Stores == [{"x", "y"} -> Cells]

(* A document has a cell for every column.                                 *)
LEMMA DocumentType ==
    ASSUME NEW rec \in Record
    PROVE  Document(rec) \in Stores
  <1> SUFFICES ASSUME NEW c \in {"x", "y"}, \E i \in DOMAIN rec : rec[i].field = c
               PROVE  lower_literal(rec[CHOOSE i \in DOMAIN rec : rec[i].field = c].value) \in Cells
    BY DEF Document, Stores, Cells
  <1> DEFINE k == CHOOSE i \in DOMAIN rec : rec[i].field = c
  <1>1. k \in DOMAIN rec
    OBVIOUS
  <1> HIDE DEF k
  <1>2. rec[k].value \in LiteralValue
    <2>1. rec[k] \in Assignment
      BY <1>1 DEF Record
    <2> QED
      BY <2>1 DEF Assignment
  <1> QED
    BY <1>2, ValueKinds DEF k

(* A tuple that says a record is stored as that record.                    *)
LEMMA StoredIsDocument ==
    ASSUME NEW rec \in Record, IsRecord(rec), NEW stmt, stmt.columns = Columns(rec), NEW row, Len(row) = Len(rec),
           \A i \in 1 .. Len(rec) : Says(row[i], stmt.params, rec[i].value)
    PROVE  Stored(stmt, row) = Document(rec)
  <1>1. DOMAIN stmt.columns = 1 .. Len(rec) /\ DOMAIN rec = 1 .. Len(rec)
    BY DEF Columns, Record
  <1>2. \A i \in 1 .. Len(rec) : stmt.columns[i] = rec[i].field
    BY <1>1 DEF Columns
  <1> DEFINE has(c) == \E i \in 1 .. Len(rec) : rec[i].field = c
             S(c) == IF \E i \in DOMAIN stmt.columns : stmt.columns[i] = c
                     THEN LET i == CHOOSE j \in DOMAIN stmt.columns : stmt.columns[j] = c
                          IN  IF row[i].kind = "slot" THEN stmt.params[row[i].index] ELSE lower_literal(row[i])
                     ELSE Null
             T(c) == IF \E i \in DOMAIN rec : rec[i].field = c
                     THEN lower_literal(rec[CHOOSE i \in DOMAIN rec : rec[i].field = c].value)
                     ELSE Null
  <1>3. ASSUME NEW c \in {"x", "y"} PROVE S(c) = T(c)
    <2>1. CASE ~has(c)
      BY <1>1, <1>2, <2>1
    <2>2. CASE has(c)
      <3>1. PICK k \in 1 .. Len(rec) : rec[k].field = c
        BY <2>2
      <3>2. \A j \in 1 .. Len(rec) : rec[j].field = c => j = k
        BY <1>1, <3>1 DEF IsRecord
      <3>3. (CHOOSE i \in DOMAIN rec : rec[i].field = c) = k
        BY <1>1, <3>1, <3>2
      <3>4. (CHOOSE j \in DOMAIN stmt.columns : stmt.columns[j] = c) = k
        BY <1>1, <1>2, <3>1, <3>2
      <3>5. T(c) = lower_literal(rec[k].value)
        BY <1>1, <3>1, <3>3
      <3>6. S(c) = IF row[k].kind = "slot" THEN stmt.params[row[k].index] ELSE lower_literal(row[k])
        BY <1>1, <1>2, <3>1, <3>4
      <3>7. rec[k].value \in LiteralValue
        <4>1. rec[k] \in Assignment
          BY <3>1 DEF Record
        <4> QED
          BY <4>1 DEF Assignment
      <3>8. rec[k].value.kind \in {"null", "today", "now", "lit", "day"}
        BY <3>7, ValueKinds
      <3> HIDE DEF S, T
      <3> QED
        BY <3>5, <3>6, <3>8 DEF Says
    <2> QED
      BY <2>1, <2>2
  <1>4. Stored(stmt, row) = [c \in {"x", "y"} |-> S(c)] /\ Document(rec) = [c \in {"x", "y"} |-> T(c)]
    BY DEF Stored, Document
  <1> HIDE DEF S, T
  <1> QED
    BY <1>3, <1>4

(* What a statement stores is its group, record by record.                 *)
LEMMA TuplesAreDocuments ==
    ASSUME NEW group \in Group,
           \A r \in 1 .. Len(group) : IsRecord(group[r]) /\ Columns(group[r]) = Columns(group[1])
    PROVE  LET stored == Tuples(InsertStatement(group))
           IN  /\ stored \in Seq(Stores) /\ Len(stored) = Len(group)
               /\ \A r \in 1 .. Len(group) : stored[r] = Document(group[r])
  <1> DEFINE stmt == InsertStatement(group)
             stored == Tuples(stmt)
  <1>1. SaysGroup(stmt, group, Len(group))
    BY GroupLowered
  <1>2. group \in Seq(Record) /\ Len(group) \in Nat \ {0} /\ Head(group) = group[1]
    BY DEF Group
  <1> HIDE DEF stmt
  <1>3. DOMAIN stmt.rows = 1 .. Len(group)
    BY <1>1 DEF SaysGroup, Statement
  <1>4. ASSUME NEW r \in 1 .. Len(group) PROVE Stored(stmt, stmt.rows[r]) = Document(group[r])
    <2>1. group[r] \in Record /\ IsRecord(group[r])
      BY <1>2
    <2>2. stmt.columns = Columns(group[r])
      BY <1>1, <1>2 DEF SaysGroup
    <2>3. /\ Len(stmt.rows[r]) = Len(group[r])
          /\ \A i \in 1 .. Len(group[r]) : Says(stmt.rows[r][i], stmt.params, group[r][i].value)
      BY <1>1 DEF SaysGroup
    <2> DEFINE rec == group[r]
               row == stmt.rows[r]
    <2>4. rec \in Record /\ IsRecord(rec) /\ stmt.columns = Columns(rec) /\ Len(row) = Len(rec)
          /\ \A i \in 1 .. Len(rec) : Says(row[i], stmt.params, rec[i].value)
      BY <2>1, <2>2, <2>3
    <2> HIDE DEF rec, row
    <2>5. Stored(stmt, row) = Document(rec)
      BY <2>4, StoredIsDocument
    <2> QED
      BY <2>5 DEF rec, row
  <1>5. stored = [r \in 1 .. Len(group) |-> Document(group[r])]
    BY <1>3, <1>4 DEF Tuples
  <1>6. \A r \in 1 .. Len(group) : Document(group[r]) \in Stores
    BY <1>2, DocumentType
  <1> HIDE DEF stored
  <1> QED
    BY <1>2, <1>5, <1>6 DEF stored, stmt

(* One sequence after another.                                             *)
LEMMA Joined ==
    ASSUME NEW S, NEW s \in Seq(S), NEW t \in Seq(S)
    PROVE  /\ s \o t \in Seq(S) /\ Len(s \o t) = Len(s) + Len(t)
           /\ \A i \in 1 .. Len(s) + Len(t) : (s \o t)[i] = IF i <= Len(s) THEN s[i] ELSE t[i - Len(s)]
  OBVIOUS

(* The statements store the records in the order given.                    *)
LEMMA SqlKeepsRecords ==
    ASSUME NEW records \in Seq(Record), \A i \in DOMAIN records : IsRecord(records[i])
    PROVE  SqlInserted(records) = [i \in DOMAIN records |-> Document(records[i])]
  <1> DEFINE groups == Groups(records)
             N == Len(groups)
             V == Seq(Stores)
             empty == <<>>
             Part(n) == Tuples(InsertStatement(groups[n]))
             Step(v, n) == v \o Part(n)
             Loop(g) == g = [n \in 0 .. N |-> IF n = 0 THEN empty ELSE Step(g[n - 1], n)]
             D == [n \in 1 .. N |-> [v \in V |-> Step(v, n)]]
             loop == CHOOSE g : Loop(g)
  <1>1. PICK before : Cuts(groups, before, records, Len(records))
    BY GroupsCut
  <1>2. SqlInserted(records) = loop[N]
    BY DEF SqlInserted
  <1> HIDE DEF groups
  <1>3. N \in Nat /\ groups \in Seq(Group) /\ DOMAIN records = 1 .. Len(records) /\ empty \in V
    BY <1>1 DEF Cuts
  <1>4. \A n \in 0 .. N : before[n] \in Nat
    BY <1>1 DEF Cuts
  <1>5. ASSUME NEW n \in 1 .. N
        PROVE  /\ groups[n] \in Group /\ Len(groups[n]) \in Nat
               /\ before[n - 1] \in Nat /\ before[n] = before[n - 1] + Len(groups[n])
               /\ \A r \in 1 .. Len(groups[n]) :
                    groups[n][r] = records[before[n - 1] + r] /\ Columns(groups[n][r]) = Columns(groups[n][1])
    <2>1. groups[n] \in Group /\ n - 1 \in 0 .. N
      BY <1>3
    <2>2. groups[n] \in Seq(Record)
      BY <2>1 DEF Group
    <2> HIDE DEF N
    <2> QED
      BY <1>1, <1>4, <2>1, <2>2 DEF Cuts, N
  (* The groups lie within the records. *)
  <1>6. \A n \in 0 .. N : before[n] <= Len(records)
    <2> DEFINE G == {m \in 0 .. N : before[N - m] <= Len(records)}
    <2>1. 0 \in G
      <3>1. N - 0 = N /\ before[N] = Len(records) /\ Len(records) \in Nat
        BY <1>1, <1>3 DEF Cuts
      <3> HIDE DEF N
      <3> QED
        BY <1>3, <3>1
    <2>2. ASSUME NEW m \in 0 .. N - 1, m \in G PROVE m + 1 \in G
      <3> HIDE DEF N
      <3>1. N - m \in 1 .. N /\ (N - m) - 1 = N - (m + 1) /\ m + 1 \in 0 .. N
        BY <1>3
      <3>2. before[N - m] = before[N - (m + 1)] + Len(groups[N - m]) /\ Len(groups[N - m]) \in Nat /\ before[N - (m + 1)] \in Nat
        BY <1>5, <3>1
      <3>3. before[N - m] <= Len(records)
        BY <2>2
      <3> QED
        BY <3>1, <3>2, <3>3
    <2> HIDE DEF G
    <2>3. \A m \in 0 .. N - 1 : m \in G => m + 1 \in G
      BY <2>2
    <2>4. \A m \in 0 .. N : m \in G
      BY <1>3, <2>1, <2>3, UpToBound, Zenon
    <2>5. ASSUME NEW n \in 0 .. N PROVE before[n] <= Len(records)
      <3> HIDE DEF N
      <3>1. N - n \in 0 .. N /\ N - (N - n) = n
        BY <1>3
      <3> QED
        BY <2>4, <3>1 DEF G
    <2> QED
      BY <2>5
  <1>7. ASSUME NEW n \in 1 .. N
        PROVE  /\ Part(n) \in V /\ Len(Part(n)) = Len(groups[n])
               /\ \A r \in 1 .. Len(groups[n]) : Part(n)[r] = Document(records[before[n - 1] + r])
    <2>1. \A r \in 1 .. Len(groups[n]) : before[n - 1] + r \in 1 .. Len(records)
      <3>1. n \in 0 .. N
        BY <1>3
      <3>2. before[n] <= Len(records)
        BY <1>6, <3>1
      <3> HIDE DEF N
      <3> QED
        BY <1>5, <3>2
    <2>2. \A r \in 1 .. Len(groups[n]) : IsRecord(groups[n][r]) /\ Columns(groups[n][r]) = Columns(groups[n][1])
      BY <1>3, <1>5, <2>1
    <2>3. groups[n] \in Group
      BY <1>5
    <2>4. /\ Part(n) \in V /\ Len(Part(n)) = Len(groups[n])
          /\ \A r \in 1 .. Len(groups[n]) : Part(n)[r] = Document(groups[n][r])
      BY <2>2, <2>3, TuplesAreDocuments
    <2> HIDE DEF Part
    <2> QED
      BY <1>5, <2>4
  <1> HIDE DEF Part
  <1>8. \E g : Loop(g)
    <2>1. D \in [1 .. N -> [V -> V]]
      BY <1>7
    <2>2. \A n \in 1 .. N, v \in V : D[n][v] = Step(v, n)
      OBVIOUS
    <2> HIDE DEF N, D, V, empty, Step
    <2>3. PICK g : Runs(g, N, V, empty, D)
      BY <1>3, <2>1, LoopExists, Zenon
    <2>4. g \in [0 .. N -> V] /\ g[0] = empty /\ \A n \in 1 .. N : g[n] = D[n][g[n - 1]]
      BY <2>3 DEF Runs
    <2>5. \A n \in 1 .. N : g[n] = Step(g[n - 1], n)
      BY <1>3, <2>2, <2>4
    <2>6. g = [n \in 0 .. N |-> g[n]] /\ \A n \in 0 .. N : n # 0 => n \in 1 .. N
      BY <1>3, <2>4
    <2> QED
      BY <2>4, <2>5, <2>6
  <1>9. Loop(loop)
    BY <1>8
  <1> HIDE DEF loop
  <1>10. loop[0] = empty /\ \A n \in 1 .. N : loop[n] = Step(loop[n - 1], n)
    <2> HIDE DEF Step, N, empty
    <2> QED
      BY <1>3, <1>9
  <1> DEFINE Good(n) == /\ loop[n] \in V /\ Len(loop[n]) = before[n]
                        /\ \A i \in 1 .. before[n] : loop[n][i] = Document(records[i])
             G == {n \in 0 .. N : Good(n)}
  <1>11. 0 \in G
    <2>1. before[0] = 0 /\ loop[0] = <<>>
      BY <1>1, <1>10 DEF Cuts
    <2>2. <<>> \in V /\ Len(<<>>) = 0
      OBVIOUS
    <2>3. Good(0)
      BY <2>1, <2>2
    <2> QED
      BY <1>3, <2>3
  <1>12. ASSUME NEW n \in 0 .. N - 1, n \in G PROVE n + 1 \in G
    <2> DEFINE old == loop[n]
               part == Part(n + 1)
               k == before[n]
               l == Len(groups[n + 1])
    <2>1. n + 1 \in 1 .. N /\ (n + 1) - 1 = n
      BY <1>3
    <2>2. loop[n + 1] = old \o part
      BY <1>10, <2>1
    <2>3. k \in Nat /\ l \in Nat /\ before[n + 1] = k + l
      BY <1>5, <2>1
    <2>4. part \in V /\ Len(part) = l /\ \A r \in 1 .. l : part[r] = Document(records[k + r])
      BY <1>7, <2>1
    <2>5. old \in V /\ Len(old) = k /\ \A i \in 1 .. k : old[i] = Document(records[i])
      BY <1>12
    <2> DEFINE new == old \o part
    <2> HIDE DEF old, part, k, l
    <2>6. /\ new \in V /\ Len(new) = k + l
          /\ \A i \in 1 .. k + l : new[i] = IF i <= k THEN old[i] ELSE part[i - k]
      BY <2>3, <2>4, <2>5, Joined
    <2> HIDE DEF new
    <2>7. ASSUME NEW i \in 1 .. k + l PROVE new[i] = Document(records[i])
      <3>1. CASE i <= k
        BY <2>3, <2>5, <2>6, <3>1
      <3>2. CASE ~(i <= k)
        <4>1. i - k \in 1 .. l /\ k + (i - k) = i
          BY <2>3, <3>2
        <4> QED
          BY <2>4, <2>6, <3>2, <4>1
      <3> QED
        BY <3>1, <3>2
    <2>8. Good(n + 1)
      BY <2>2, <2>3, <2>6, <2>7 DEF new
    <2> QED
      BY <2>1, <2>8
  <1> HIDE DEF G
  <1>13. \A n \in 0 .. N - 1 : n \in G => n + 1 \in G
    BY <1>12
  <1>14. \A n \in 0 .. N : n \in G
    BY <1>3, <1>11, <1>13, UpToBound, Zenon
  <1>15. Good(N) /\ before[N] = Len(records)
    <2>1. N \in G
      BY <1>3, <1>14
    <2> QED
      BY <1>1, <2>1 DEF G, Cuts
  <1> DEFINE all == loop[N]
  <1> HIDE DEF all
  <1>16. all \in V /\ Len(all) = Len(records) /\ \A i \in 1 .. Len(records) : all[i] = Document(records[i])
    BY <1>15 DEF all
  <1>17. all = [i \in 1 .. Len(records) |-> Document(records[i])]
    BY <1>16
  <1> QED
    BY <1>2, <1>3, <1>17 DEF all

(* What a CREATE stores is what it was given, in every dialect.            *)
LEMMA InsertedIsGiven ==
    ASSUME NEW d \in Dialects, NEW q, IsQuery(q), q.operation = "CREATE"
    PROVE  Inserted(d, q.records) = [i \in DOMAIN q.records |-> Document(q.records[i])]
  <1>1. q.records \in Seq(Record) /\ \A i \in DOMAIN q.records : IsRecord(q.records[i])
    BY DEF IsQuery, Record
  <1> QED
    BY <1>1, SqlKeepsRecords DEF Inserted, Dialects, PgInserted, MySqlInserted, SqliteInserted, MongoInserted

(* A CREATE stores the records it was given, in their order, for every     *)
(* number of records, columns in any order and every dialect: neither the  *)
(* grouping nor the numbering of the parameters mixes them up.             *)
THEOREM CreatesKeepRecords == Spec => CreateKeepsRecords
  <1>1. TypeOK /\ [Next]_vars =>
          [query.operation = "CREATE" /\ outcome'.status = "done" =>
             table' = table \cup
               {[id |-> Cardinality(table) + i, x |-> Document(query.records[i]).x,
                                                y |-> Document(query.records[i]).y] :
                  i \in DOMAIN query.records}]_vars
    <2> SUFFICES ASSUME TypeOK, Next, query.operation = "CREATE", outcome'.status = "done"
                 PROVE  table' = table \cup
                          {[id |-> Cardinality(table) + i, x |-> Document(query.records[i]).x,
                                                           y |-> Document(query.records[i]).y] :
                             i \in DOMAIN query.records}
      OBVIOUS
    <2>1. LowerCreate
      BY DEF Next, LowerRead, LowerUpdate, LowerDelete, Pick
    <2> DEFINE inserted == Inserted(dialect, query.records)
    <2>2. inserted = [i \in DOMAIN query.records |-> Document(query.records[i])]
      BY InsertedIsGiven DEF TypeOK
    <2>3. table' = table \cup {[id |-> Cardinality(table) + i, x |-> inserted[i].x, y |-> inserted[i].y] :
                                 i \in DOMAIN inserted}
      BY <2>1 DEF LowerCreate, Failed
    <2> HIDE DEF inserted
    <2>4. DOMAIN inserted = DOMAIN query.records
      BY <2>2
    <2>5. \A i \in DOMAIN query.records : inserted[i] = Document(query.records[i])
      BY <2>2
    <2> QED
      BY <2>3, <2>4, <2>5
  <1> QED
    BY <1>1, TypeCorrect, PTL DEF Spec, CreateKeepsRecords
=============================================================================
