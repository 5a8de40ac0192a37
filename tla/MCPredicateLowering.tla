------------------------- MODULE MCPredicateLowering -------------------------
(***************************************************************************)
(* The instance of PredicateLowering for TLC: every form of operand the    *)
(* parser and the validators let through, over the instants of two days    *)
(* and NULL.                                                               *)
(***************************************************************************)
EXTENDS PredicateLowering

\* The values of a column: two days of two instants, and NULL.
MaxValue == 3
SomeCells == (0 .. MaxValue) \cup {Null}

\* What the columns hold; a date column holds the first instants of the days.
Kinds == {"scalar", "date", "timestamp"}
CellsOf(kind) == IF kind = "date" THEN {0, 2, Null} ELSE SomeCells

Literals(kind) ==
    IF kind = "scalar" THEN {Literal(0), Literal(2)}
    ELSE {DateOnly(0), DateOnly(1), TodayKeyword, NowKeyword}

RangesOf(kind) ==
    {Range_(l[1], l[2]) : l \in {m \in Literals(kind) \X Literals(kind) : lower_literal(m[1]) <= lower_literal(m[2])}}

Constraints(kind) ==
    {ComparisonConstraint(op, l) : op \in ComparisonOperator, l \in Literals(kind)}
      \cup {ComparisonConstraint(op, NullLiteral) : op \in {"=", "!="}}

Compounds(kind) ==
    {CompoundAndConstraint(<<a, b>>) : a, b \in
       {c \in Constraints(kind) : c.operator \in {">=", "<", "!="} /\ ~Keyword(c.value)}}

Elements(kind) ==
    {NullLiteral} \cup Literals(kind) \cup RangesOf(kind) \cup Constraints(kind) \cup Compounds(kind)

\* A few elements of each kind, for the sets of two.
SomeElements(kind) ==
    IF kind = "scalar"
    THEN {NullLiteral, Literal(0), Literal(2), Range_(Literal(0), Literal(1)),
          ComparisonConstraint(">", Literal(1)), ComparisonConstraint("!=", Literal(0)),
          CompoundAndConstraint(<<ComparisonConstraint(">=", Literal(1)), ComparisonConstraint("<", Literal(3))>>)}
    ELSE {NullLiteral, DateOnly(0), DateOnly(1), TodayKeyword, Range_(DateOnly(0), NowKeyword),
          ComparisonConstraint(">=", DateOnly(1)), ComparisonConstraint("!=", DateOnly(0)),
          CompoundAndConstraint(<<ComparisonConstraint(">=", DateOnly(0)), ComparisonConstraint("<", DateOnly(1))>>)}

ValueSet(els) == [kind |-> "set", elements |-> els]
Compare(op, operand, ts) == [operator |-> op, operand |-> operand, ts |-> ts]

SetFields(kind) ==
    {Compare(op, ValueSet(els), kind = "timestamp") : op \in {"=", "!="},
       els \in {{e} : e \in Elements(kind)} \cup {{a, b} : a, b \in SomeElements(kind)}}

DirectFields(kind) ==
    {Compare(op, l, kind = "timestamp") : op \in ComparisonOperator, l \in Literals(kind) \cup RangesOf(kind)}
      \cup {Compare(op, NullLiteral, kind = "timestamp") : op \in {"=", "!="}}

StringFields(kind) ==
    {[operator |-> op, patterns |-> ps, ts |-> FALSE] : op \in StringOperator,
       ps \in IF kind = "scalar" THEN {{0}, {1}, {0, 1}} ELSE {}}

One(f, negated) == [negated |-> negated, connective |-> "none", left |-> f, right |-> f]

Column(kind) == {[id |-> v + 2, x |-> v, y |-> 0] : v \in CellsOf(kind)}
Grid == {[id |-> (v + 1) * (MaxValue + 2) + w + 2, x |-> v, y |-> w] : v \in SomeCells, w \in SomeCells}

Get(where) ==
    [operation |-> "GET", where |-> where, sort |-> <<>>, ranking |-> NoRanking,
     limit |-> Absent, offset |-> Absent, keyed |-> TRUE]
Delete(where) == [operation |-> "DELETE", where |-> where]
Update(where, l) ==
    [operation |-> "UPDATE", where |-> where, assignments |-> <<[field |-> "x", value |-> l]>>]

FieldCases ==
    UNION {UNION {{<<Get(One(f, n)), Column(kind)>>, <<Delete(One(f, n)), Column(kind)>>} :
                    f \in SetFields(kind) \cup DirectFields(kind) \cup StringFields(kind), n \in BOOLEAN} :
             kind \in Kinds}

SomeFields ==
    {Compare("=", Literal(0), FALSE), Compare("!=", Literal(2), FALSE), Compare("<", Literal(2), FALSE),
     Compare("=", NullLiteral, FALSE), Compare("!=", ValueSet({NullLiteral, Literal(0)}), FALSE),
     Compare("=", DateOnly(1), TRUE), Compare("<", DateOnly(1), TRUE), [operator |-> "NOT HAS", patterns |-> {0}, ts |-> FALSE]}

TreeCases ==
    {<<Delete([negated |-> n, connective |-> c, left |-> f, right |-> g]), Grid>> :
       n \in BOOLEAN, c \in {"AND", "OR"}, f \in SomeFields, g \in SomeFields}
      \cup {<<q, Column("scalar")>> : q \in {Update(w, l) : w \in {NoWhere} \cup {One(f, FALSE) : f \in SomeFields},
                                                  l \in {NullLiteral, Literal(1), DateOnly(0), NowKeyword}}
                                   \cup {Delete(NoWhere)}}

\* Paging: rows with equal and with NULL values.
Small == {[id |-> 1, x |-> 1, y |-> 0], [id |-> 2, x |-> Null, y |-> 1],
          [id |-> 3, x |-> 1, y |-> Null], [id |-> 4, x |-> 0, y |-> 1]}
By(c, dir) == [field |-> c, direction |-> dir]
Sorts == {<<>>} \cup {<<By("x", d)>> : d \in {"ASC", "DESC"}}
           \cup {<<By("x", d), By("y", e)>> : d \in {"ASC", "DESC"}, e \in {"ASC", "DESC"}}
Rankings == {NoRanking} \cup {[field |-> "x", direction |-> d, count |-> n] : d \in {"TOP", "BOTTOM"}, n \in 1 .. 2}

PageCases ==
    {<<[operation |-> "GET", where |-> w, sort |-> s, ranking |-> r, limit |-> l, offset |-> o, keyed |-> k], Small>> :
       w \in {NoWhere} \cup {One(Compare("!=", Literal(0), FALSE), n) : n \in BOOLEAN}, s \in Sorts, r \in {NoRanking},
       l \in {Absent, 1, 2}, o \in {Absent, 0, 1, 2}, k \in BOOLEAN}
      \cup {<<[operation |-> "GET", where |-> NoWhere, sort |-> <<>>, ranking |-> r, limit |-> Absent, offset |-> o, keyed |-> TRUE], T>> :
              r \in Rankings, o \in {Absent, 1}, T \in {Small, {r \in Small : r.x # Null}}}

Assign(c, l) == [field |-> c, value |-> l]
RecordsOf ==
    {<<Assign("x", l), Assign("y", Literal(2))>> : l \in {Literal(1), NullLiteral, NowKeyword}}
      \cup {<<Assign("y", Literal(3)), Assign("x", Literal(1))>>, <<Assign("y", Literal(1))>>,
            <<Assign("x", DateOnly(1))>>}

CreateCases ==
    {<<[operation |-> "CREATE", records |-> rs], {}>> : rs \in UNION {[1 .. n -> RecordsOf] : n \in 1 .. 3}}

MCCases == FieldCases \cup TreeCases \cup PageCases \cup CreateCases
=============================================================================
