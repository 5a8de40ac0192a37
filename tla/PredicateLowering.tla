---------------------------- MODULE PredicateLowering ----------------------------
(***************************************************************************)
(* The compilation of an AltrQL predicate into the four dialects           *)
(* (query_engine/lowering/{postgres,mysql,sqlite,mongodb}.py).  A lowered  *)
(* predicate is modelled by what the database answers for a row: the       *)
(* truth value "T", "F" or "U" (SQL's unknown), or "E" when no statement   *)
(* can be made or sent.  A row is in the answer iff the value is "T".      *)
(*                                                                         *)
(* A column holds Null or a natural number.  For a timestamp column the    *)
(* number is an instant and DayLength instants make a day; a date column   *)
(* holds the first instants of days; a text value is identified by the     *)
(* patterns it matches (bit p of v: v matches pattern p).  SQLite has no   *)
(* dates: it keeps and compares them as text, whose order is not the order *)
(* of the instants (section SQLite).                                       *)
(*                                                                         *)
(* A query is chosen in Init together with a table and a dialect; one step *)
(* lowers it and applies it to the table.                                  *)
(***************************************************************************)
EXTENDS Integers, FiniteSets, Sequences, FiniteSetsExt, SequencesExt

CONSTANTS
    DayLength,   \* instants per day
    Today,       \* the day the query runs
    Now,         \* the instant the query runs
    Separator,   \* what stands between day and time in a timestamp of SQLite
    Cases        \* pairs of a query and the table it is made against

ASSUME LoweringAssumption ==
    /\ DayLength \in Nat \ {0}
    /\ Today \in Nat
    /\ Now \in Nat
    /\ Today * DayLength <= Now /\ Now < (Today + 1) * DayLength
    /\ Separator \in {" ", "T"}

Null == -1
Cells == Nat \cup {Null}

Dialects == {"postgresql", "mysql", "sqlite", "mongodb"}
ComparisonOperator == {"=", "!=", ">", "<", ">=", "<="}
StringOperator == {"STARTS", "ENDS", "HAS", "NOT HAS"}

-----------------------------------------------------------------------------
(* SQL's three truth values, with "E" for a statement that is never made *)

Truth(b) == IF b THEN "T" ELSE "F"

SqlNot(t) == CASE t = "T" -> "F" [] t = "F" -> "T" [] OTHER -> t

SqlAnd(ts) ==
    IF "E" \in ts THEN "E" ELSE IF "F" \in ts THEN "F" ELSE IF "U" \in ts THEN "U" ELSE "T"

SqlOr(ts) ==
    IF "E" \in ts THEN "E" ELSE IF "T" \in ts THEN "T" ELSE IF "U" \in ts THEN "U" ELSE "F"

Holds(op, a, b) ==
    CASE op = "="  -> a = b
      [] op = "!=" -> a # b
      [] op = ">"  -> a > b
      [] op = "<"  -> a < b
      [] op = ">=" -> a >= b
      [] op = "<=" -> a <= b

SqlCompare(op, v, w) == IF Null \in {v, w} THEN "U" ELSE Truth(Holds(op, v, w))
IsNull(v) == Truth(v = Null)
IsNotNull(v) == Truth(v # Null)
Between(v, a, b) == SqlAnd({SqlCompare(">=", v, a), SqlCompare("<=", v, b)})
In(v, ws) == SqlOr({SqlCompare("=", v, w) : w \in ws})

MatchesPattern(v, p) == (v \div 2^p) % 2 = 1
Like(v, p) == IF v = Null THEN "U" ELSE Truth(MatchesPattern(v, p))

-----------------------------------------------------------------------------
(* Operands (query_engine/domain/ast.py).  "lit" is a number, a text or a   *)
(* boolean.  The temporal literals are the day (@YYYY-MM-DD: the lexer has   *)
(* no literal for an instant), TODAY and NOW, on a date and on a timestamp  *)
(* column alike; ts says that the column is a timestamp.                    *)

NullLiteral == [kind |-> "null"]
Literal(n) == [kind |-> "lit", value |-> n]
DateOnly(d) == [kind |-> "day", day |-> d]
TodayKeyword == [kind |-> "today"]
NowKeyword == [kind |-> "now"]
Range_(a, b) == [kind |-> "range", start |-> a, end |-> b]
ComparisonConstraint(op, l) == [kind |-> "cmp", operator |-> op, value |-> l]
CompoundAndConstraint(cs) == [kind |-> "and", constraints |-> cs]

\* The operands the parser makes and the validators let through: on a
\* timestamp only temporal literals, NULL only with = and !=, and a value set
\* only with = and !=.
IsLiteral(l, ts) ==
    /\ l.kind \in {"null", "lit", "day", "today", "now"}
    /\ l.kind = "lit" => l.value \in Nat
    /\ l.kind = "day" => l.day \in Nat
    /\ l.kind = "lit" => ~ts

IsValue(l, ts) == IsLiteral(l, ts) /\ l.kind # "null"

IsComparison(op, l, ts) ==
    /\ op \in ComparisonOperator
    /\ IsLiteral(l, ts)
    /\ l.kind = "null" => op \in {"=", "!="}

IsElement(e, ts) ==
    CASE e.kind = "range" -> IsValue(e.start, ts) /\ IsValue(e.end, ts)
      [] e.kind = "cmp"   -> IsComparison(e.operator, e.value, ts)
      [] e.kind = "and"   ->
           /\ Len(e.constraints) \in Nat \ {0}
           /\ DOMAIN e.constraints = 1 .. Len(e.constraints)
           /\ \A i \in DOMAIN e.constraints :
                IsComparison(e.constraints[i].operator, e.constraints[i].value, ts)
      [] OTHER            -> IsLiteral(e, ts)

IsFieldExpression(f) ==
    /\ f.ts \in BOOLEAN
    /\ \/ f.operator \in StringOperator /\ f.patterns \subseteq Nat
       \/ /\ f.operator \in ComparisonOperator
          /\ CASE f.operand.kind = "set"   -> /\ f.operator \in {"=", "!="}
                                             /\ \A e \in f.operand.elements : IsElement(e, f.ts)
               [] f.operand.kind = "range" -> IsElement(f.operand, f.ts)
               [] OTHER                    -> IsComparison(f.operator, f.operand, f.ts)

Temporal(l) == l.kind \in {"day", "today", "now"}
IsDateOnly(l) == l.kind = "day"
DayStart(l) == l.day * DayLength
DayEnd(l) == (l.day + 1) * DayLength

\* What a literal denotes when it is written into the statement
\* (CURRENT_DATE, CURRENT_TIMESTAMP, NULL or a parameter).
lower_literal(l) ==
    CASE l.kind = "null"  -> Null
      [] l.kind = "lit"   -> l.value
      [] l.kind = "day"   -> DayStart(l)
      [] l.kind = "today" -> Today * DayLength
      [] l.kind = "now"   -> Now

\* The parameter the SQL dialects bind for a literal: a keyword has no value.
convert_literal_to_parameter(l) ==
    IF l.kind \in {"today", "now"} THEN Null ELSE lower_literal(l)

invert_operator(op) ==
    CASE op = "="  -> "!="
      [] op = "!=" -> "="
      [] op = ">"  -> "<="
      [] op = "<"  -> ">="
      [] op = ">=" -> "<"
      [] op = "<=" -> ">"

NonNull(els) == {e \in els : e.kind # "null"}
HasNull(els) == \E e \in els : e.kind = "null"
OnlyIf(b, t) == IF b THEN {t} ELSE {}
InDay(l, v) == SqlAnd({SqlCompare(">=", v, DayStart(l)), SqlCompare("<", v, DayEnd(l))})
NotInDay(l, v) == SqlOr({SqlCompare("<", v, DayStart(l)), SqlCompare(">=", v, DayEnd(l))})
Compared(c, v) == SqlCompare(c.operator, v, lower_literal(c.value))
Inverted(c, v) == SqlCompare(invert_operator(c.operator), v, lower_literal(c.value))

-----------------------------------------------------------------------------
(* PostgreSQL *)

PgString(op, pats, v) ==
    IF op = "NOT HAS"
    THEN SqlOr({SqlAnd({SqlNot(Like(v, p)) : p \in pats}), IsNull(v)})
    ELSE SqlOr({Like(v, p) : p \in pats})

\* A value set of plain literals: IN and NOT IN.
PgSimple(els, ts) ==
    /\ \A e \in NonNull(els) : e.kind \in {"lit", "day"}
    /\ ~(ts /\ \E e \in els : IsDateOnly(e))

PgElementEq(e, ts, v) ==
    CASE e.kind = "null"  -> IsNull(v)
      [] e.kind = "range" -> Between(v, lower_literal(e.start), lower_literal(e.end))
      [] e.kind = "cmp" /\ e.value.kind = "null" ->
           CASE e.operator = "="  -> IsNull(v)
             [] e.operator = "!=" -> IsNotNull(v)
             [] OTHER             -> "U"
      [] e.kind = "cmp" /\ e.operator = "=" /\ ts /\ IsDateOnly(e.value) -> InDay(e.value, v)
      [] e.kind = "and"   -> SqlAnd({Compared(c, v) : c \in ToSet(e.constraints)})
      [] e.kind = "day" /\ ts -> InDay(e, v)
      [] e.kind \in {"lit", "today", "now"} \/ (e.kind = "day" /\ ~ts) ->
           SqlCompare("=", v, lower_literal(e))
      [] OTHER            -> Compared(e, v)

PgSetEq(els, ts, v) ==
    IF PgSimple(els, ts)
    THEN SqlOr({In(v, {lower_literal(e) : e \in NonNull(els)})}
                  \cup OnlyIf(HasNull(els), IsNull(v)))
    ELSE SqlOr({PgElementEq(e, ts, v) : e \in els})

\* The conjunct an element contributes to `!=`: none for a compound constraint.
PgElementNeq(e, v) ==
    CASE e.kind = "null"  -> IsNotNull(v)
      [] e.kind = "range" -> SqlOr({SqlCompare("<", v, lower_literal(e.start)),
                                    SqlCompare(">", v, lower_literal(e.end)), IsNull(v)})
      [] e.kind = "cmp" /\ e.value.kind = "null" ->
           CASE e.operator = "="  -> IsNotNull(v)
             [] e.operator = "!=" -> IsNull(v)
             [] OTHER             -> "T"
      [] e.kind = "cmp" /\ e.value.kind # "null" -> SqlOr({Inverted(e, v), IsNull(v)})
      [] e.kind = "and"   -> "T"
      [] OTHER            -> SqlOr({SqlCompare("!=", v, lower_literal(e)), IsNull(v)})

PgSetNeq(els, ts, v) ==
    IF PgSimple(els, ts)
    THEN LET notIn == SqlNot(In(v, {lower_literal(e) : e \in NonNull(els)}))
         IN  IF HasNull(els) THEN SqlAnd({notIn, IsNotNull(v)}) ELSE SqlOr({notIn, IsNull(v)})
    ELSE SqlAnd({PgElementNeq(e, v) : e \in els})

\* A literal operand; a TemporalLiteral gets no `OR IS NULL` with `!=`.
PgDirect(op, l, ts, v) ==
    CASE op = "=" /\ ts /\ IsDateOnly(l) -> InDay(l, v)
      [] op = "!=" /\ ~Temporal(l) -> SqlOr({SqlCompare("!=", v, lower_literal(l)), IsNull(v)})
      [] OTHER -> SqlCompare(op, v, lower_literal(l))

\* NULL and range operands, the same text in the three SQL dialects: a range
\* is BETWEEN whatever the operator is.
SqlNullOrRange(op, operand, v) ==
    IF operand.kind = "range"
    THEN Between(v, lower_literal(operand.start), lower_literal(operand.end))
    ELSE CASE op = "=" -> IsNull(v) [] op = "!=" -> IsNotNull(v) [] OTHER -> "U"

PgField(f, v) ==
    IF f.operator \in StringOperator THEN PgString(f.operator, f.patterns, v)
    ELSE CASE f.operand.kind \in {"null", "range"} -> SqlNullOrRange(f.operator, f.operand, v)
           [] f.operand.kind = "set" /\ f.operator = "=" -> PgSetEq(f.operand.elements, f.ts, v)
           [] f.operand.kind = "set" /\ f.operator = "!=" -> PgSetNeq(f.operand.elements, f.ts, v)
           [] OTHER -> PgDirect(f.operator, f.operand, f.ts, v)

-----------------------------------------------------------------------------
(* MySQL *)

MySqlString(op, pats, v) ==
    IF op = "NOT HAS"
    THEN SqlOr({SqlAnd({SqlNot(Like(v, p)) : p \in pats}), IsNull(v)})
    ELSE SqlOr({Like(v, p) : p \in pats})

\* The elements bound as parameters of one IN or NOT IN.
SimpleScalars(els, ts) ==
    {e \in els : e.kind \in {"lit", "today", "now"} \/ (IsDateOnly(e) /\ ~ts)}

MySqlElementEq(e, v) ==
    CASE e.kind = "range" -> Between(v, lower_literal(e.start), lower_literal(e.end))
      [] e.kind = "cmp"   -> Compared(e, v)
      [] e.kind = "and"   -> SqlAnd({Compared(c, v) : c \in ToSet(e.constraints)})
      [] OTHER            -> InDay(e, v)

MySqlSetEq(els, ts, v) ==
    LET scalars == SimpleScalars(els, ts)
        others  == NonNull(els) \ scalars
    IN  SqlOr(OnlyIf(HasNull(els), IsNull(v))
                \cup OnlyIf(scalars # {}, In(v, {convert_literal_to_parameter(e) : e \in scalars}))
                \cup {MySqlElementEq(e, v) : e \in others})

MySqlElementNeq(e, v) ==
    CASE e.kind = "range" -> SqlNot(Between(v, lower_literal(e.start), lower_literal(e.end)))
      [] e.kind = "cmp"   -> Inverted(e, v)
      [] e.kind = "and"   -> SqlOr({Inverted(c, v) : c \in ToSet(e.constraints)})
      [] OTHER            -> NotInDay(e, v)

MySqlSetNeq(els, ts, v) ==
    LET scalars == SimpleScalars(els, ts)
        others  == NonNull(els) \ scalars
        preds   == OnlyIf(scalars # {}, SqlNot(In(v, {convert_literal_to_parameter(e) : e \in scalars})))
                     \cup {MySqlElementNeq(e, v) : e \in others}
    IN  IF HasNull(els) THEN SqlAnd(preds \cup {IsNotNull(v)})
                        ELSE SqlOr({SqlAnd(preds), IsNull(v)})

\* Mutant: `!=` drops NULL, as SQL does.
MySqlDirectStrict(op, l, ts, v) ==
    IF op = "=" /\ ts /\ IsDateOnly(l) THEN InDay(l, v) ELSE SqlCompare(op, v, lower_literal(l))

MySqlDirect(op, l, ts, v) ==
    CASE op = "=" /\ ts /\ IsDateOnly(l) -> InDay(l, v)
      [] op = "!=" -> SqlOr({SqlCompare("!=", v, lower_literal(l)), IsNull(v)})
      [] OTHER -> SqlCompare(op, v, lower_literal(l))

MySqlField(f, v) ==
    IF f.operator \in StringOperator THEN MySqlString(f.operator, f.patterns, v)
    ELSE CASE f.operand.kind \in {"null", "range"} -> SqlNullOrRange(f.operator, f.operand, v)
           [] f.operand.kind = "set" /\ f.operator = "=" -> MySqlSetEq(f.operand.elements, f.ts, v)
           [] f.operand.kind = "set" /\ f.operator = "!=" -> MySqlSetNeq(f.operand.elements, f.ts, v)
           [] OTHER -> MySqlDirect(f.operator, f.operand, f.ts, v)

-----------------------------------------------------------------------------
(* SQLite: the statements of MySQL, on text.  A day literal is bound as     *)
(* YYYY-MM-DD, TODAY is DATE('now'), of the same form, and NOW is            *)
(* DATETIME('now'), with a space before the time; the bounds of a day are   *)
(* written by isoformat, with a T.  The day D is less than every text that   *)
(* begins with D, and a space is less than a T.  The timestamps of a table  *)
(* have one Separator; SQLite writes a space (CURRENT_TIMESTAMP).  A day    *)
(* stored in a timestamp column stays a day's text: the statement that      *)
(* stores it is modelled, a later comparison with it is not.                *)

\* The text of a row's date or timestamp v is before that of the literal l.
TextBefore(v, l, ts) ==
    CASE l.kind = "now" /\ ~ts -> v <= Today * DayLength
      [] l.kind = "now" /\ ts /\ Separator = "T" -> v < Today * DayLength
      [] OTHER -> v < lower_literal(l)

\* It is the same text.
TextSame(v, l, ts) ==
    CASE l.kind = "now" -> ts /\ Separator = " " /\ v = Now
      [] l.kind \in {"day", "today"} -> ~ts /\ v = lower_literal(l)
      [] OTHER -> v = lower_literal(l)

SqliteCompare(op, v, l, ts) ==
    IF Null \in {v, lower_literal(l)} THEN "U"
    ELSE Truth(CASE op = "="  -> TextSame(v, l, ts)
                 [] op = "!=" -> ~TextSame(v, l, ts)
                 [] op = "<"  -> TextBefore(v, l, ts)
                 [] op = ">=" -> ~TextBefore(v, l, ts)
                 [] op = "<=" -> TextBefore(v, l, ts) \/ TextSame(v, l, ts)
                 [] op = ">"  -> ~TextBefore(v, l, ts) /\ ~TextSame(v, l, ts))

\* The first instant whose text is not before the isoformat midnight of day d:
\* with a space every instant of the day itself is.
Midnight(d) == (IF Separator = "T" THEN d ELSE d + 1) * DayLength

SqliteInDay(l, v) ==
    SqlAnd({SqlCompare(">=", v, Midnight(l.day)), SqlCompare("<", v, Midnight(l.day + 1))})
SqliteNotInDay(l, v) ==
    SqlOr({SqlCompare("<", v, Midnight(l.day)), SqlCompare(">=", v, Midnight(l.day + 1))})
SqliteBetween(r, ts, v) ==
    SqlAnd({SqliteCompare(">=", v, r.start, ts), SqliteCompare("<=", v, r.end, ts)})

SqliteString(op, pats, v) == MySqlString(op, pats, v)

\* The comprehension of a compound constraint reads `elem.constraints`, and
\* `elem` is bound only under the string operators: it raises.
SqliteElementEq(e, ts, v) ==
    CASE e.kind = "range" -> SqliteBetween(e, ts, v)
      [] e.kind = "cmp"   -> SqliteCompare(e.operator, v, e.value, ts)
      [] e.kind = "and"   -> "E"
      [] OTHER            -> SqliteInDay(e, v)

SqliteSetEq(els, ts, v) ==
    LET scalars == SimpleScalars(els, ts)
        others  == NonNull(els) \ scalars
    IN  SqlOr(OnlyIf(HasNull(els), IsNull(v))
                \cup OnlyIf(scalars # {}, In(v, {convert_literal_to_parameter(e) : e \in scalars}))
                \cup {SqliteElementEq(e, ts, v) : e \in others})

SqliteElementNeq(e, ts, v) ==
    CASE e.kind = "range" -> SqlNot(SqliteBetween(e, ts, v))
      [] e.kind = "cmp"   -> SqliteCompare(invert_operator(e.operator), v, e.value, ts)
      [] e.kind = "and"   -> SqlOr({SqliteCompare(invert_operator(c.operator), v, c.value, ts) :
                                      c \in ToSet(e.constraints)})
      [] OTHER            -> SqliteNotInDay(e, v)

SqliteSetNeq(els, ts, v) ==
    LET scalars == SimpleScalars(els, ts)
        others  == NonNull(els) \ scalars
        preds   == OnlyIf(scalars # {}, SqlNot(In(v, {convert_literal_to_parameter(e) : e \in scalars})))
                     \cup {SqliteElementNeq(e, ts, v) : e \in others}
    IN  IF HasNull(els) THEN SqlAnd(preds \cup {IsNotNull(v)})
                        ELSE SqlOr({SqlAnd(preds), IsNull(v)})

SqliteDirect(op, l, ts, v) ==
    CASE op = "=" /\ ts /\ IsDateOnly(l) -> SqliteInDay(l, v)
      [] op = "!=" -> SqlOr({SqliteCompare("!=", v, l, ts), IsNull(v)})
      [] OTHER -> SqliteCompare(op, v, l, ts)

SqliteField(f, v) ==
    IF f.operator \in StringOperator THEN SqliteString(f.operator, f.patterns, v)
    ELSE CASE f.operand.kind = "null"  -> SqlNullOrRange(f.operator, f.operand, v)
           [] f.operand.kind = "range" -> SqliteBetween(f.operand, f.ts, v)
           [] f.operand.kind = "set" /\ f.operator = "=" -> SqliteSetEq(f.operand.elements, f.ts, v)
           [] f.operand.kind = "set" /\ f.operator = "!=" -> SqliteSetNeq(f.operand.elements, f.ts, v)
           [] OTHER -> SqliteDirect(f.operator, f.operand, f.ts, v)

-----------------------------------------------------------------------------
(* MongoDB: a filter document is two-valued.                                *)

\* How the server matches {field: {op: w}}: null is equal to null, different
\* from every value, and outside every order.
MongoMatch(op, v, w) ==
    IF op \notin {"=", "!="} /\ Null \in {v, w} THEN Truth(v = w /\ op \in {">=", "<="})
    ELSE Truth(Holds(op, v, w))

\* A date-only literal is converted to a datetime.date, which the driver does
\* not encode: a filter that carries one is never sent.
MongoCompare(op, v, l) == IF IsDateOnly(l) THEN "E" ELSE MongoMatch(op, v, lower_literal(l))

MongoRegex(v, p) == Truth(v # Null /\ MatchesPattern(v, p))

MongoString(op, pats, v) ==
    IF op = "NOT HAS"
    THEN SqlOr({SqlAnd({SqlNot(MongoRegex(v, p)) : p \in pats}), MongoMatch("=", v, Null)})
    ELSE SqlOr({MongoRegex(v, p) : p \in pats})

MongoRange(v, a, b) == SqlAnd({MongoCompare(">=", v, a), MongoCompare("<=", v, b)})
MongoOutside(v, a, b) == SqlOr({MongoCompare("<", v, a), MongoCompare(">", v, b)})

\* {op: value, ...} is a Python dict: a second constraint with the same
\* operator replaces the first.
MongoCompound(cs, v) ==
    SqlAnd({MongoCompare(cs[i].operator, v, cs[i].value) :
              i \in {j \in DOMAIN cs : \A k \in DOMAIN cs : k > j => cs[k].operator # cs[j].operator}})

MongoElementEq(e, v) ==
    CASE e.kind = "range" -> MongoRange(v, e.start, e.end)
      [] e.kind = "cmp"   -> MongoCompare(e.operator, v, e.value)
      [] e.kind = "and"   -> MongoCompound(e.constraints, v)
      [] OTHER            -> SqlAnd({MongoMatch(">=", v, DayStart(e)), MongoMatch("<", v, DayEnd(e))})

MongoSetEq(els, ts, v) ==
    LET scalars == SimpleScalars(els, ts)
    IN  SqlOr(OnlyIf(HasNull(els), MongoMatch("=", v, Null))
                \cup {MongoCompare("=", v, e) : e \in scalars}
                \cup {MongoElementEq(e, v) : e \in NonNull(els) \ scalars})

MongoElementNeq(e, v) ==
    CASE e.kind = "range" -> MongoOutside(v, e.start, e.end)
      [] e.kind = "cmp"   -> MongoCompare(invert_operator(e.operator), v, e.value)
      [] e.kind = "and"   -> SqlOr({MongoCompare(invert_operator(c.operator), v, c.value) :
                                      c \in ToSet(e.constraints)})
      [] OTHER            -> SqlOr({MongoMatch("<", v, DayStart(e)), MongoMatch(">=", v, DayEnd(e))})

MongoSetNeq(els, ts, v) ==
    LET scalars == SimpleScalars(els, ts)
    IN  SqlAnd(OnlyIf(HasNull(els), MongoMatch("!=", v, Null))
                 \cup {MongoCompare("!=", v, e) : e \in scalars}
                 \cup {MongoElementNeq(e, v) : e \in NonNull(els) \ scalars})

MongoDirect(op, operand, ts, v) ==
    CASE operand.kind = "range" /\ op = "!=" ->
           SqlOr({MongoOutside(v, operand.start, operand.end), MongoMatch("=", v, Null)})
      [] operand.kind = "range" /\ op # "!=" -> MongoRange(v, operand.start, operand.end)
      [] op = "=" /\ ts /\ IsDateOnly(operand) ->
           SqlAnd({MongoMatch(">=", v, DayStart(operand)), MongoMatch("<", v, DayEnd(operand))})
      [] OTHER -> MongoCompare(op, v, operand)

MongoField(f, v) ==
    IF f.operator \in StringOperator THEN MongoString(f.operator, f.patterns, v)
    ELSE CASE f.operand.kind = "set" /\ f.operator = "=" -> MongoSetEq(f.operand.elements, f.ts, v)
           [] f.operand.kind = "set" /\ f.operator = "!=" -> MongoSetNeq(f.operand.elements, f.ts, v)
           [] OTHER -> MongoDirect(f.operator, f.operand, f.ts, v)

-----------------------------------------------------------------------------
(* The WHERE tree: lower_expression of each dialect.  A tree is one field   *)
(* expression on the column x, or two on x and y under AND or OR, possibly  *)
(* negated; a row gives x and y a cell each.                                *)

Connect(t, a, b) ==
    CASE t.connective = "AND" -> SqlAnd({a, b})
      [] t.connective = "OR"  -> SqlOr({a, b})
      [] OTHER                -> a

\* NOT keeps SQL's unknown; $nor has none to keep.
Negate(t, a) == IF t.negated THEN SqlNot(a) ELSE a

PgExpression(t, row) == Negate(t, Connect(t, PgField(t.left, row.x), PgField(t.right, row.y)))

\* Mutant: NOT without parentheses.
NegatesFirstOnly(t, row) ==
    Connect(t, Negate(t, MySqlField(t.left, row.x)), MySqlField(t.right, row.y))

MySqlExpression(t, row) == Negate(t, Connect(t, MySqlField(t.left, row.x), MySqlField(t.right, row.y)))
SqliteExpression(t, row) == Negate(t, Connect(t, SqliteField(t.left, row.x), SqliteField(t.right, row.y)))
MongoExpression(t, row) == Negate(t, Connect(t, MongoField(t.left, row.x), MongoField(t.right, row.y)))

lower_expression(d, t, row) ==
    CASE d = "postgresql" -> PgExpression(t, row)
      [] d = "mysql"      -> MySqlExpression(t, row)
      [] d = "sqlite"     -> SqliteExpression(t, row)
      [] d = "mongodb"    -> MongoExpression(t, row)

-----------------------------------------------------------------------------
(* What the language says (docs/altrql/specification.md, "Strict Two-Valued *)
(* NULL Logic"): a comparison is true or false, `!=` is the negation of `=`,*)
(* and a date-only literal equals every instant of its day.                 *)

LiteralEquals(l, ts, v) ==
    CASE l.kind = "null"       -> v = Null
      [] l.kind = "day" /\ ts  -> v # Null /\ DayStart(l) <= v /\ v < DayEnd(l)
      [] OTHER                 -> v = lower_literal(l)

ConstraintHolds(op, l, ts, v) ==
    CASE op = "="  -> LiteralEquals(l, ts, v)
      [] op = "!=" -> ~LiteralEquals(l, ts, v)
      [] OTHER     -> v # Null /\ Holds(op, v, lower_literal(l))

ElementHolds(e, ts, v) ==
    CASE e.kind = "range" -> v # Null /\ lower_literal(e.start) <= v /\ v <= lower_literal(e.end)
      [] e.kind = "cmp"   -> ConstraintHolds(e.operator, e.value, ts, v)
      [] e.kind = "and"   -> \A c \in ToSet(e.constraints) : ConstraintHolds(c.operator, c.value, ts, v)
      [] OTHER            -> LiteralEquals(e, ts, v)

FieldHolds(f, v) ==
    IF f.operator = "NOT HAS" THEN v = Null \/ \A p \in f.patterns : ~MatchesPattern(v, p)
    ELSE IF f.operator \in StringOperator THEN v # Null /\ \E p \in f.patterns : MatchesPattern(v, p)
    ELSE CASE f.operand.kind = "set" ->
                (f.operator = "=") <=> \E e \in f.operand.elements : ElementHolds(e, f.ts, v)
           [] f.operand.kind = "range" -> (f.operator # "!=") <=> ElementHolds(f.operand, f.ts, v)
           [] OTHER -> ConstraintHolds(f.operator, f.operand, f.ts, v)

TreeHolds(t, row) ==
    LET a == FieldHolds(t.left, row.x)
        b == FieldHolds(t.right, row.y)
        inner == CASE t.connective = "AND" -> a /\ b
                   [] t.connective = "OR"  -> a \/ b
                   [] OTHER                -> a
    IN  inner # t.negated

-----------------------------------------------------------------------------
(* Statements.  A query is a record with the fields                         *)
(*   operation           "GET", "CREATE", "UPDATE" or "DELETE"              *)
(*   where               a tree, or NoWhere                                 *)
(*   sort                a sequence of [field, direction]                   *)
(*   ranking             [field, direction ("TOP", "BOTTOM"), count] or     *)
(*                       NoRanking                                          *)
(*   limit, offset       natural numbers or Absent                          *)
(*   keyed               whether the entity has a primary key (the id)      *)
(*   assignments         a sequence of [field, value] (UPDATE)              *)
(*   records             a sequence of such sequences (CREATE)              *)
(* that its operation has.                                                  *)

NoWhere == [connective |-> "absent"]
NoRanking == [count |-> 0]
Absent == -1

IsTree(t) ==
    /\ t.connective \in {"AND", "OR", "none"}
    /\ t.negated \in BOOLEAN
    /\ IsFieldExpression(t.left)
    /\ IsFieldExpression(t.right)

\* What a column is set to: a literal, and no column twice.
LiteralValue ==
    {NullLiteral, TodayKeyword, NowKeyword}
      \cup [kind : {"lit"}, value : Nat] \cup [kind : {"day"}, day : Nat]
Assignment == [field : {"x", "y"}, value : LiteralValue]

IsRecord(rec) ==
    /\ rec \in Seq(Assignment)
    /\ \A i, j \in DOMAIN rec : rec[i].field = rec[j].field => i = j

IsQuery(q) ==
    /\ q.operation \in {"GET", "CREATE", "UPDATE", "DELETE"}
    /\ q.operation # "CREATE" => q.where = NoWhere \/ IsTree(q.where)
    /\ q.operation = "UPDATE" => IsRecord(q.assignments)
    /\ q.operation = "CREATE" =>
         /\ q.records \in Seq(Seq(Assignment))
         /\ \A i \in DOMAIN q.records : IsRecord(q.records[i])
    /\ q.operation = "GET" =>
         /\ q.sort \in Seq([field : {"x", "y"}, direction : {"ASC", "DESC"}])
         /\ \/ q.ranking = NoRanking
            \/ q.ranking \in [field : {"x", "y"}, direction : {"TOP", "BOTTOM"}, count : Nat \ {0}]
         /\ q.limit \in Nat \cup {Absent}
         /\ q.offset \in Nat \cup {Absent}
         /\ q.keyed \in BOOLEAN

Rows == [id : Nat, x : Cells, y : Cells]

ASSUME CasesAssumption ==
    \A c \in Cases : IsQuery(c[1]) /\ c[2] \subseteq Rows /\ IsFiniteSet(c[2])

Where(d, q, row) ==
    IF q.where = NoWhere THEN "T" ELSE lower_expression(d, q.where, row)

\* ORDER BY: a clause says where NULLs go, or leaves it to the database.
Clause(field, direction, nulls) == [field |-> field, direction |-> direction, nulls |-> nulls]

\* External: PostgreSQL takes NULL for the largest value, the others for the
\* smallest.
NullsFirst(d, c) ==
    CASE c.nulls = "FIRST" -> TRUE
      [] c.nulls = "LAST"  -> FALSE
      [] OTHER -> (c.direction = "DESC") <=> (d = "postgresql")

ColumnBefore(d, c, a, b) ==
    /\ a # b
    /\ CASE a = Null -> NullsFirst(d, c)
         [] b = Null -> ~NullsFirst(d, c)
         [] OTHER    -> (c.direction = "ASC") <=> (a < b)

RowBefore(d, clauses, r, s) ==
    \E i \in DOMAIN clauses :
       /\ ColumnBefore(d, clauses[i], r[clauses[i].field], s[clauses[i].field])
       /\ \A j \in 1 .. i - 1 : r[clauses[j].field] = s[clauses[j].field]

RankDirection(q) == IF q.ranking.direction = "TOP" THEN "DESC" ELSE "ASC"

\* The ranking, else the sort clauses, else the primary key.
OrderBy(q, sortNulls(_), fallback) ==
    IF q.ranking # NoRanking THEN <<Clause(q.ranking.field, RankDirection(q), "default")>>
    ELSE IF q.sort # <<>>
    THEN [i \in DOMAIN q.sort |->
            Clause(q.sort[i].field, q.sort[i].direction, sortNulls(q.sort[i].direction))]
    ELSE IF q.keyed THEN <<Clause("id", "ASC", "default")>>
    ELSE fallback

\* Mutant: no NULLS clause.
PgNullsOmitted(direction) == "default"

PgNulls(direction) == IF direction = "ASC" THEN "FIRST" ELSE "LAST"
DefaultNulls(direction) == "default"

PgOrderBy(q) == OrderBy(q, PgNulls, <<>>)
MySqlOrderBy(q) == OrderBy(q, DefaultNulls, <<>>)
SqliteOrderBy(q) == OrderBy(q, DefaultNulls, <<>>)
MongoSort(q) == OrderBy(q, DefaultNulls, <<Clause("id", "ASC", "default")>>)

OrderOf(d, q) ==
    CASE d = "postgresql" -> PgOrderBy(q)
      [] d = "mysql"      -> MySqlOrderBy(q)
      [] d = "sqlite"     -> SqliteOrderBy(q)
      [] d = "mongodb"    -> MongoSort(q)

LimitValue(q) == IF q.ranking # NoRanking THEN q.ranking.count ELSE q.limit

\* External: MySQL and SQLite have no OFFSET without a LIMIT.
Malformed(d, q) ==
    d \in {"mysql", "sqlite"} /\ q.offset # Absent /\ LimitValue(q) = Absent

\* The first n rows of S, in some order that agrees with the clauses: rows
\* that the clauses do not tell apart may come in any order.
Firsts(S, n, d, clauses) ==
    LET sure  == {r \in S : Cardinality({s \in S : ~RowBefore(d, clauses, r, s)}) <= n}
        maybe == {r \in S \ sure : Cardinality({s \in S : RowBefore(d, clauses, s, r)}) < n}
    IN  {sure \cup P : P \in kSubset(Min({n, Cardinality(S)}) - Cardinality(sure), maybe)}

Pages(S, q, d, clauses) ==
    LET skip == IF q.offset = Absent THEN 0 ELSE q.offset
        take == IF LimitValue(q) = Absent THEN Cardinality(S) ELSE LimitValue(q)
    IN  {w[2] \ w[1] : w \in {u \in Firsts(S, skip, d, clauses) \X Firsts(S, skip + take, d, clauses) :
                                 u[1] \subseteq u[2]}}

-----------------------------------------------------------------------------
(* CREATE.  The SQL dialects put consecutive records with the same columns  *)
(* into one INSERT; a value is a parameter, bound by its position, or a     *)
(* keyword in the text.                                                     *)

Columns(rec) == [i \in DOMAIN rec |-> rec[i].field]

\* Mutant: the columns are compared as a set.
AddToGroupsUnordered(groups, rec) ==
    IF groups # <<>> /\ ToSet(Columns(Head(Last(groups)))) = ToSet(Columns(rec))
    THEN [groups EXCEPT ![Len(groups)] = Append(@, rec)]
    ELSE Append(groups, <<rec>>)

AddToGroups(groups, rec) ==
    IF groups # <<>> /\ Columns(Head(Last(groups))) = Columns(rec)
    THEN [groups EXCEPT ![Len(groups)] = Append(@, rec)]
    ELSE Append(groups, <<rec>>)

Groups(records) ==
    LET groups[n \in 0 .. Len(records)] ==
          IF n = 0 THEN <<>> ELSE AddToGroups(groups[n - 1], records[n])
    IN  groups[Len(records)]

\* One value of a VALUES tuple: the text and the parameters so far.
LowerValue(acc, a) ==
    IF a.value.kind \in {"null", "today", "now"}
    THEN [acc EXCEPT !.row = Append(@, a.value)]
    ELSE [row |-> Append(acc.row, [kind |-> "slot", index |-> Len(acc.params) + 1]),
          params |-> Append(acc.params, convert_literal_to_parameter(a.value))]

LowerRecord(stmt, rec) ==
    LET acc[n \in 0 .. Len(rec)] ==
          IF n = 0 THEN [row |-> <<>>, params |-> stmt.params] ELSE LowerValue(acc[n - 1], rec[n])
    IN  [stmt EXCEPT !.rows = Append(@, acc[Len(rec)].row), !.params = acc[Len(rec)].params]

InsertStatement(group) ==
    LET stmt[n \in 0 .. Len(group)] ==
          IF n = 0 THEN [columns |-> Columns(Head(group)), rows |-> <<>>, params |-> <<>>]
          ELSE LowerRecord(stmt[n - 1], group[n])
    IN  stmt[Len(group)]

\* What the database stores for a tuple of a statement.
Stored(stmt, row) ==
    [c \in {"x", "y"} |->
       IF \E i \in DOMAIN stmt.columns : stmt.columns[i] = c
       THEN LET i == CHOOSE j \in DOMAIN stmt.columns : stmt.columns[j] = c
            IN  IF row[i].kind = "slot" THEN stmt.params[row[i].index] ELSE lower_literal(row[i])
       ELSE Null]

Tuples(stmt) == [r \in DOMAIN stmt.rows |-> Stored(stmt, stmt.rows[r])]

\* The statements are executed one after the other.
SqlInserted(records) ==
    LET groups == Groups(records)
        rows[n \in 0 .. Len(groups)] ==
          IF n = 0 THEN <<>> ELSE rows[n - 1] \o Tuples(InsertStatement(groups[n]))
    IN  rows[Len(groups)]

\* One insert_many of all the documents.
Document(rec) ==
    [c \in {"x", "y"} |->
       IF \E i \in DOMAIN rec : rec[i].field = c
       THEN lower_literal(rec[CHOOSE i \in DOMAIN rec : rec[i].field = c].value)
       ELSE Null]

MongoInserted(records) == [i \in DOMAIN records |-> Document(records[i])]
PgInserted(records) == SqlInserted(records)
MySqlInserted(records) == SqlInserted(records)
SqliteInserted(records) == SqlInserted(records)

Inserted(d, records) ==
    CASE d = "postgresql" -> PgInserted(records)
      [] d = "mysql"      -> MySqlInserted(records)
      [] d = "sqlite"     -> SqliteInserted(records)
      [] d = "mongodb"    -> MongoInserted(records)

Unencodable(rec) == \E i \in DOMAIN rec : IsDateOnly(rec[i].value)

-----------------------------------------------------------------------------
VARIABLES
    dialect,    \* the dialect of the source
    query,      \* the query
    table,      \* the rows of the entity
    outcome     \* [status, rows]: "pending", "failed" or "done"

vars == <<dialect, query, table, outcome>>

Pending == [status |-> "pending", rows |-> {}]
Failed == [status |-> "failed", rows |-> {}]
Done(rows) == [status |-> "done", rows |-> rows]

Init ==
    /\ dialect \in Dialects
    /\ \E c \in Cases : query = c[1] /\ table = c[2]
    /\ outcome = Pending

Pick(op) == outcome = Pending /\ query.operation = op

Raises == \E r \in table : Where(dialect, query, r) = "E"
Selected == {r \in table : Where(dialect, query, r) = "T"}

LowerRead ==
    /\ Pick("GET")
    /\ IF Raises \/ Malformed(dialect, query)
       THEN outcome' = Failed
       ELSE \E page \in Pages(Selected, query, dialect, OrderOf(dialect, query)) :
               outcome' = Done(page)
    /\ UNCHANGED <<dialect, query, table>>

Assigned(row, assignments) ==
    [c \in DOMAIN row |->
       IF \E i \in DOMAIN assignments : assignments[i].field = c
       THEN lower_literal(assignments[CHOOSE i \in DOMAIN assignments : assignments[i].field = c].value)
       ELSE row[c]]

LowerUpdate ==
    /\ Pick("UPDATE")
    /\ IF Raises \/ (dialect = "mongodb" /\ Unencodable(query.assignments))
       THEN outcome' = Failed /\ UNCHANGED table
       ELSE /\ table' = (table \ Selected) \cup {Assigned(r, query.assignments) : r \in Selected}
            /\ outcome' = Done(Selected)
    /\ UNCHANGED <<dialect, query>>

LowerDelete ==
    /\ Pick("DELETE")
    /\ IF Raises THEN outcome' = Failed /\ UNCHANGED table
                 ELSE table' = table \ Selected /\ outcome' = Done(Selected)
    /\ UNCHANGED <<dialect, query>>

LowerCreate ==
    /\ Pick("CREATE")
    /\ LET inserted == Inserted(dialect, query.records)
           fresh == {[id |-> Cardinality(table) + i, x |-> inserted[i].x, y |-> inserted[i].y] :
                       i \in DOMAIN inserted}
       IN  IF dialect = "mongodb" /\ \E i \in DOMAIN query.records : Unencodable(query.records[i])
           THEN outcome' = Failed /\ UNCHANGED table
           ELSE table' = table \cup fresh /\ outcome' = Done(fresh)
    /\ UNCHANGED <<dialect, query>>

Next == LowerRead \/ LowerUpdate \/ LowerDelete \/ LowerCreate

Spec == Init /\ [][Next]_vars

-----------------------------------------------------------------------------
(* Properties.  The forms a dialect translates exactly; what is left out    *)
(* departs from the language and is listed in the README.                   *)

Ordering == {">", "<", ">=", "<="}
Keyword(l) == l.kind \in {"today", "now"}
Encodes(d, l) == d # "mongodb" \/ ~IsDateOnly(l)

\* Where the order of SQLite's texts is the order of time.
TextExact(d, op, l, ts) ==
    d = "sqlite" /\ Temporal(l) =>
       IF ~ts THEN l.kind # "now"
       ELSE IF l.kind = "now" THEN Separator = " "
       ELSE op \in {"<", ">="}

\* Where a day of SQLite is that day, and not the next.
DayExact(d) == d = "sqlite" => Separator = "T"

\* A constraint inside a value set: NULL and `!=` are SQL's own there.
ExactConstraint(d, c, ts) ==
    /\ Encodes(d, c.value)
    /\ d = "mongodb" \/ (c.value.kind # "null" /\ c.operator # "!=")
    /\ ts /\ IsDateOnly(c.value) => c.operator \in Ordering
    /\ TextExact(d, c.operator, c.value, ts)

ExactRange(d, r, ts) ==
    /\ Encodes(d, r.start) /\ Encodes(d, r.end)
    /\ TextExact(d, ">=", r.start, ts) /\ TextExact(d, "<=", r.end, ts)

ExactEqElement(d, e, ts) ==
    CASE e.kind = "range" -> ExactRange(d, e, ts)
      [] e.kind = "cmp"   -> ExactConstraint(d, e, ts)
      [] e.kind = "and"   ->
           /\ d # "sqlite"
           /\ \A i \in DOMAIN e.constraints : ExactConstraint(d, e.constraints[i], ts)
           /\ d = "mongodb" => \A i, j \in DOMAIN e.constraints :
                  e.constraints[i].operator = e.constraints[j].operator => i = j
      [] e.kind = "day"   -> IF ts THEN DayExact(d) ELSE Encodes(d, e)
      [] OTHER -> Keyword(e) => d \in {"postgresql", "mongodb"}

ExactNeqElement(d, e, ts) ==
    IF d = "mongodb" THEN e.kind \in {"null", "lit", "today", "now"}
    ELSE CASE e.kind = "range" -> ExactRange(d, e, ts)
           [] e.kind = "cmp"   -> ExactConstraint(d, e, ts)
           [] e.kind = "and"   -> d # "postgresql"
                                    /\ \A c \in ToSet(e.constraints) : ExactConstraint(d, c, ts)
           [] e.kind = "day"   -> ts => d # "postgresql" /\ DayExact(d)
           [] OTHER -> Keyword(e) => d = "postgresql"

\* An operand that is a literal.
ExactDirect(d, op, l, ts) ==
    /\ op \in Ordering \/ ~ts => Encodes(d, l)
    /\ op = "!=" => ~(ts /\ IsDateOnly(l)) /\ (d = "postgresql" => ~Temporal(l))
    /\ IF op = "=" /\ ts /\ IsDateOnly(l) THEN DayExact(d) ELSE TextExact(d, op, l, ts)

ExactField(d, f) ==
    IF f.operator \in StringOperator THEN TRUE
    ELSE CASE f.operand.kind = "set" /\ f.operator = "=" ->
                \A e \in f.operand.elements : ExactEqElement(d, e, f.ts)
           [] f.operand.kind = "set" /\ f.operator = "!=" ->
                \A e \in f.operand.elements : ExactNeqElement(d, e, f.ts)
           [] f.operand.kind = "range" ->
                ExactRange(d, f.operand, f.ts) /\ (f.operator = "!=" => d = "mongodb")
           [] OTHER -> ExactDirect(d, f.operator, f.operand, f.ts)

ExactWhere(d, q) ==
    q.where = NoWhere \/ (ExactField(d, q.where.left) /\ ExactField(d, q.where.right))

\* A statement that is not cut to a page.
Whole(q) == q.operation = "GET" => q.offset = Absent /\ LimitValue(q) = Absent

Negated(q) == q.where # NoWhere /\ q.where.negated
Meant(q, rows) == {r \in rows : q.where = NoWhere \/ TreeHolds(q.where, r)}

NullsLeast(direction) == IF direction = "ASC" THEN "FIRST" ELSE "LAST"
MeantOrder(q) ==
    LET clauses == OrderBy(q, NullsLeast, <<>>)
    IN  [i \in DOMAIN clauses |-> [clauses[i] EXCEPT !.nulls = NullsLeast(clauses[i].direction)]]

\* A ranking has no NULLS clause: PostgreSQL counts NULL among the TOP values.
RankingOverNulls(d, q, rows) ==
    d = "postgresql" /\ q.ranking # NoRanking /\ \E r \in rows : r[q.ranking.field] = Null

\* The dialect and the query are the ones of a case, and so is the table until
\* the statement has run.
TypeOK ==
    /\ dialect \in Dialects
    /\ IsQuery(query)
    /\ outcome.status \in {"pending", "failed", "done"}
    /\ outcome = Pending \/ query.operation = "GET" => table \subseteq Rows /\ IsFiniteSet(table)

\* A GET whose predicate has an exact form returns a page of the rows it means,
\* under one order for every database (NULL first in ASC, last in DESC), and
\* fails only for an OFFSET without a LIMIT.
ReadIsPage ==
    query.operation = "GET" /\ outcome # Pending /\ ExactWhere(dialect, query) /\ ~Negated(query) =>
       IF Malformed(dialect, query) THEN outcome = Failed
       ELSE /\ outcome.status = "done"
            /\ ~RankingOverNulls(dialect, query, table) =>
                  outcome.rows \in Pages(Meant(query, table), query, dialect, MeantOrder(query))

\* An UPDATE or DELETE touches exactly the rows its predicate means, when its
\* form is exact in the dialect.  In SQLite a date-only literal is, on a
\* timestamp column, with < and >= only, and NOW with every operator; with =
\* it takes the rows of the next day, unless they are stored with a T.
MutationIsExact ==
    [][query.operation \in {"UPDATE", "DELETE"} /\ outcome'.status = "done"
         /\ ExactWhere(dialect, query) /\ ~Negated(query) =>
          outcome'.rows = Meant(query, table) /\ table \ table' \subseteq Meant(query, table)]_vars

\* Under NOT no dialect selects a row the language excludes, for the exact
\* forms; the rows SQL misses have a NULL in a compared column, and MongoDB
\* misses none.
NegationNeverAdds ==
    [][query.operation # "CREATE" /\ outcome'.status = "done"
         /\ ExactWhere(dialect, query) /\ Negated(query) =>
          /\ outcome'.rows \subseteq Meant(query, table)
          /\ Whole(query) =>
               \A r \in Meant(query, table) \ outcome'.rows :
                  Null \in {r.x, r.y} /\ dialect # "mongodb"]_vars

\* A CREATE stores every record once, in the order given, whatever the
\* grouping of the records into statements.
CreateKeepsRecords ==
    [][query.operation = "CREATE" /\ outcome'.status = "done" =>
          table' = table \cup
            {[id |-> Cardinality(table) + i, x |-> Document(query.records[i]).x,
                                             y |-> Document(query.records[i]).y] :
               i \in DOMAIN query.records}]_vars
=============================================================================
