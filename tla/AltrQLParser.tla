----------------------------- MODULE AltrQLParser -----------------------------
(***************************************************************************)
(* The recursive descent parser of AltrQL, the semantic validator and the  *)
(* normalizer that run on its result, and the type checks of the binder.   *)
(*                                                                         *)
(* A text is the sequence of its tokens; a parsing function takes a text   *)
(* and a position and gives what it read and the position after it, or the *)
(* position of the token it refuses.  The wording of errors is left out.   *)
(*                                                                         *)
(* A condition is the sequence of its nodes in postfix order: <<a, b, AND, *)
(* NOT>> is NOT (a AND b), and <<>> is no condition.  Loops and recursive  *)
(* functions of the code are recursive functions on the number of rounds,  *)
(* or of calls within each other, of which a text never needs all.         *)
(***************************************************************************)
EXTENDS Integers, Sequences, FiniteSets

CONSTANTS
    None,         \* what Python calls None
    Identifiers,  \* the names that are not keywords
    LiteralOf,    \* literal tokens and what they stand for: [kind, value]
    FieldTypes    \* the schema: name -> [category, nullable]

ComparisonTokens == {"=", "!=", ">", "<", ">=", "<="}
OrderingTokens == {">", "<", ">=", "<="}

\* Keywords and punctuation.
Reserved ==
    ComparisonTokens
    \cup {"GET", "CREATE", "UPDATE", "DELETE", "WHERE", "SORT", "TOP", "BOTTOM", "BY", "LIMIT", "OFFSET", "AS",
          "ASC", "DESC", "AND", "OR", "NOT", "STARTS", "ENDS", "HAS",
          "(", ")", "{", "}", ",", ":", ";", ".", "..", "&", "EOF"}

LiteralKinds == {"string", "integer", "float", "boolean", "null", "temporal"}

\* The lexer tells names, literals and the rest apart; TODAY, NOW and NULL have no
\* value to compare.
ASSUME LanguageAssumption ==
    /\ DOMAIN FieldTypes \subseteq Identifiers
    /\ Identifiers \cap DOMAIN LiteralOf = {}
    /\ (Identifiers \cup DOMAIN LiteralOf) \cap Reserved = {}
    /\ \A t \in DOMAIN LiteralOf :
          /\ LiteralOf[t] \in [kind : LiteralKinds, value : Int \cup {None}]
          /\ LiteralOf[t].kind = "integer" => LiteralOf[t].value \in Int
    /\ None \notin Int /\ None \notin Identifiers
    /\ None \notin [direction : {"TOP", "BOTTOM"}, count : Int, field : Seq(Identifiers)]

Ok(i, v) == [ok |-> TRUE, at |-> i, val |-> v]
Err(i) == [ok |-> FALSE, at |-> i, val |-> None]
Then(r, F(_, _)) == IF r.ok THEN F(r.at, r.val) ELSE r

\* Past the end there is only EOF.
Tok(ts, i) == IF i > Len(ts) THEN "EOF" ELSE ts[i]
Consume(ts, i, t, v) == IF Tok(ts, i) = t THEN Ok(i + 1, v) ELSE Err(i)

\* What the loops are made of.  A round goes on at a place, with what was read, or
\* is the last with its result; a round reads a token, or more, of what is left.
More(i, v) == [result |-> Ok(i, v), more |-> TRUE]
Done(r) == [result |-> r, more |-> FALSE]
Repeat(ts, i, v, Round(_, _)) ==
    LET Rounds[n \in 0 .. Len(ts) + 1] ==
          IF n = 0 THEN More(i, v)
          ELSE LET before == Rounds[n - 1]
               IN  IF before.more THEN Round(before.result.at, before.result.val) ELSE before
    IN  Rounds[Len(ts) + 1].result

-----------------------------------------------------------------------------
(* Field paths, literals, ranges *)

\* A name and, as often as they are there, a dot and a name.
ParseFieldPath(ts, i) ==
    LET segment(n) == Tok(ts, i + 2 * n - 1) = "." /\ Tok(ts, i + 2 * n) \in Identifiers
        last == CHOOSE n \in 0 .. Len(ts) : (\A m \in 1 .. n : segment(m)) /\ ~segment(n + 1)
        j == i + 2 * last + 1
    IN  IF Tok(ts, i) \notin Identifiers THEN Err(i)
        ELSE IF Tok(ts, j) = "." THEN Err(j + 1)
        ELSE Ok(j, [n \in 1 .. last + 1 |-> ts[i + 2 * n - 2]])

ParseLiteral(ts, i) ==
    IF Tok(ts, i) \in DOMAIN LiteralOf THEN Ok(i + 1, LiteralOf[Tok(ts, i)]) ELSE Err(i)

OfKind(ts, i, kind) == Tok(ts, i) \in DOMAIN LiteralOf /\ LiteralOf[Tok(ts, i)].kind = kind

ParseStringLiteral(ts, i) == IF OfKind(ts, i, "string") THEN ParseLiteral(ts, i) ELSE Err(i)

ParseLiteralOrRange(ts, i) ==
    Then(ParseLiteral(ts, i), LAMBDA j, a :
        IF Tok(ts, j) # ".." THEN Ok(j, a)
        ELSE Then(ParseLiteral(ts, j + 1), LAMBDA k, b : Ok(k, [kind |-> "range", start |-> a, end |-> b])))

-----------------------------------------------------------------------------
(* Lists and what they are made of *)

ParseComparisonConstraint(ts, i) ==
    IF Tok(ts, i) \notin ComparisonTokens THEN Err(i)
    ELSE Then(ParseLiteral(ts, i + 1), LAMBDA j, v :
             Ok(j, [kind |-> "constraint", operator |-> Tok(ts, i), value |-> v]))

\* One constraint or, with & between them, several.
ParseValueSetElement(ts, i) ==
    LET constraint(n) == Tok(ts, i + 3 * n - 1) = "&" /\ ParseComparisonConstraint(ts, i + 3 * n).ok
        last == CHOOSE n \in 0 .. Len(ts) : (\A m \in 1 .. n : constraint(m)) /\ ~constraint(n + 1)
        j == i + 3 * last + 2
    IN  IF Tok(ts, i) \notin ComparisonTokens THEN ParseLiteralOrRange(ts, i)
        ELSE Then(ParseComparisonConstraint(ts, i), LAMBDA k, c :
                 IF Tok(ts, j) = "&" THEN ParseComparisonConstraint(ts, j + 1)
                 ELSE IF last = 0 THEN Ok(j, c)
                 ELSE Ok(j, [kind |-> "compound",
                             constraints |-> [n \in 1 .. last + 1 |-> ParseComparisonConstraint(ts, i + 3 * n - 3).val]]))

ParseSelection(ts, i) ==
    Then(ParseFieldPath(ts, i), LAMBDA j, path :
        IF Tok(ts, j) # "AS" THEN Ok(j, [path |-> path, alias |-> None])
        ELSE IF Tok(ts, j + 1) \notin Identifiers THEN Err(j + 1)
        ELSE Ok(j + 2, [path |-> path, alias |-> Tok(ts, j + 1)]))

ParseSortClause(ts, i) ==
    Then(ParseFieldPath(ts, i), LAMBDA j, path :
        IF Tok(ts, j) \in {"ASC", "DESC"} THEN Ok(j + 1, [field |-> path, direction |-> Tok(ts, j)]) ELSE Err(j))

\* CREATE refuses a field that was assigned before; UPDATE leaves it to the validator.
ParseAssignment(ts, i, before, unique) ==
    Then(ParseFieldPath(ts, i), LAMBDA j, path :
        IF unique /\ \E k \in DOMAIN before : before[k].field = path THEN Err(j)
        ELSE Then(Consume(ts, j, ":", None), LAMBDA k, x :
                  Then(ParseLiteral(ts, k), LAMBDA l, v : Ok(l, [field |-> path, value |-> v]))))

Item(kind, ts, i, before) ==
    CASE kind = "element"    -> ParseValueSetElement(ts, i)
      [] kind = "sort"       -> ParseSortClause(ts, i)
      [] kind = "selection"  -> ParseSelection(ts, i)
      [] kind = "assignment" -> ParseAssignment(ts, i, before, FALSE)
      [] kind = "unique"     -> ParseAssignment(ts, i, before, TRUE)

Close == [element |-> "}", sort |-> "}", selection |-> ")", assignment |-> ")", unique |-> ")", record |-> ")"]

\* Items with commas between them; x is the last.  A comma before the end is for
\* value sets and sort blocks only; sort clauses need none at all.
AfterItem(kind, ts, x, before) ==
    LET j == x.at
        all == Append(before, x.val)
    IN  CASE ~x.ok -> Done(x)
          [] x.ok /\ Tok(ts, j) = "," /\ Tok(ts, j + 1) = Close[kind] ->
               Done(IF kind \in {"element", "sort"} THEN Ok(j + 2, all) ELSE Err(j + 1))
          [] x.ok /\ Tok(ts, j) = "," /\ Tok(ts, j + 1) # Close[kind] -> More(j + 1, all)
          [] x.ok /\ Tok(ts, j) = Close[kind] -> Done(Ok(j + 1, all))
          [] x.ok /\ kind = "sort" /\ Tok(ts, j) \in Identifiers -> More(j, all)
          [] OTHER -> Done(Err(j))

List(kind, ts, i) ==
    Repeat(ts, i, <<>>, LAMBDA j, before : AfterItem(kind, ts, Item(kind, ts, j, before), before))

\* A record of a batch, and the batch.
ParseCreateRecord(ts, i) ==
    Then(Consume(ts, i, "(", None), LAMBDA j, x : IF Tok(ts, j) = ")" THEN Err(j) ELSE List("unique", ts, j))

ParseBatchCreateRecords(ts, i) ==
    Repeat(ts, i, <<>>, LAMBDA j, before : AfterItem("record", ts, ParseCreateRecord(ts, j), before))

ParseValueSet(ts, i) ==
    IF Tok(ts, i) = "}" THEN Err(i)
    ELSE Then(List("element", ts, i), LAMBDA j, es : Ok(j, [kind |-> "set", elements |-> es]))

-----------------------------------------------------------------------------
(* Conditions *)

Connective(op) == <<[kind |-> op]>>
Logical(op, l, r) == l \o r \o Connective(op)
Negation(e) == e \o Connective("NOT")

ParseOperatorAndOperand(ts, i) ==
    LET With(op, r) == Then(r, LAMBDA j, v : Ok(j, [operator |-> op, operand |-> v]))
        StringOrSet(op, j) == With(op, IF Tok(ts, j) = "{" THEN ParseValueSet(ts, j + 1) ELSE ParseStringLiteral(ts, j))
        t == Tok(ts, i)
    IN  CASE t \in {"STARTS", "ENDS"} -> With(t, ParseStringLiteral(ts, i + 1))
          [] t = "HAS" -> StringOrSet("HAS", i + 1)
          [] t = "NOT" -> IF Tok(ts, i + 1) = "HAS" THEN StringOrSet("NOT HAS", i + 2) ELSE Err(i + 1)
          [] t \in ComparisonTokens ->
                IF Tok(ts, i + 1) # "{" THEN With(t, ParseLiteralOrRange(ts, i + 1))
                ELSE IF t \in OrderingTokens THEN Err(i + 2)
                ELSE With(t, ParseValueSet(ts, i + 2))
          [] OTHER -> Err(i)

ParseAtomicFieldExpression(ts, i) ==
    Then(ParseFieldPath(ts, i), LAMBDA j, path :
        Then(ParseOperatorAndOperand(ts, j), LAMBDA k, x :
            Ok(k, <<[kind |-> "field", field |-> path, operator |-> x.operator, operand |-> x.operand]>>)))

\* The functions that call each other; P has what each of them gives at each place.
\* Those of the rests give the nodes that follow a first operand.
ParsePrimaryExpression(ts, i, P) ==
    IF Tok(ts, i) # "{" THEN ParseAtomicFieldExpression(ts, i)
    ELSE Then(P.or[i + 1], LAMBDA j, e : Consume(ts, j, "}", e))

ParseNotExpression(ts, i, P) ==
    IF Tok(ts, i) = "NOT" THEN Then(P.not[i + 1], LAMBDA j, e : Ok(j, Negation(e)))
    ELSE ParsePrimaryExpression(ts, i, P)

\* A comma is an AND; one before the end of the block is refused where it stands.
AndRest(ts, i, P) ==
    IF Tok(ts, i) \notin {"AND", ","} THEN Ok(i, <<>>)
    ELSE IF Tok(ts, i) = "," /\ Tok(ts, i + 1) = "}" THEN Err(i)
    ELSE Then(P.not[i + 1], LAMBDA j, e :
             Then(P.andRest[j], LAMBDA k, rest : Ok(k, e \o Connective("AND") \o rest)))

\* Mutant: a comma separates conditions like the end of a line does.
ParseAndExpressionNoComma(ts, i, P) ==
    Then(P.not[i], LAMBDA j, e :
        IF Tok(ts, j) = "," THEN Ok(j, e) ELSE Then(P.andRest[j], LAMBDA k, rest : Ok(k, e \o rest)))

ParseAndExpression(ts, i, P) ==
    Then(P.not[i], LAMBDA j, e : Then(P.andRest[j], LAMBDA k, rest : Ok(k, e \o rest)))

OrRest(ts, i, P) ==
    IF Tok(ts, i) # "OR" THEN Ok(i, <<>>)
    ELSE Then(P.and[i + 1], LAMBDA j, e :
             Then(P.orRest[j], LAMBDA k, rest : Ok(k, e \o Connective("OR") \o rest)))

ParseOrExpression(ts, i, P) ==
    Then(P.and[i], LAMBDA j, e : Then(P.orRest[j], LAMBDA k, rest : Ok(k, e \o rest)))

\* The other expressions of a block, with or without a comma, and its end.
WhereRest(ts, i, P) ==
    LET j == IF Tok(ts, i) = "," THEN i + 1 ELSE i
    IN  CASE Tok(ts, j) = "}" -> Ok(j + 1, <<>>)
          [] Tok(ts, j) = "EOF" -> Err(j)
          [] OTHER -> Then(P.or[j], LAMBDA k, e :
                          Then(P.whereRest[k], LAMBDA l, rest : Ok(l, e \o Connective("AND") \o rest)))

WhereExpression(ts, i, P) ==
    Then(P.or[i], LAMBDA j, e : Then(P.whereRest[j], LAMBDA k, rest : Ok(k, e \o rest)))

\* What each of them gives at each place, if what they call gives P.
Called(ts, P) ==
    LET places == 1 .. Len(ts) + 1
    IN  [not       |-> [i \in places |-> ParseNotExpression(ts, i, P)],
         and       |-> [i \in places |-> ParseAndExpression(ts, i, P)],
         andRest   |-> [i \in places |-> AndRest(ts, i, P)],
         or        |-> [i \in places |-> ParseOrExpression(ts, i, P)],
         orRest    |-> [i \in places |-> OrRest(ts, i, P)],
         where     |-> [i \in places |-> WhereExpression(ts, i, P)],
         whereRest |-> [i \in places |-> WhereRest(ts, i, P)]]

\* Calls[n]: with no more than n calls within each other.  At one place there are at
\* most four (where, or, and, not) before a token is read.
Conditions(ts) ==
    LET none == [i \in 1 .. Len(ts) + 1 |-> Err(i)]
        Calls[n \in 0 .. 4 * (Len(ts) + 1)] ==
          IF n = 0 THEN [not |-> none, and |-> none, andRest |-> none, or |-> none, orRest |-> none,
                         where |-> none, whereRest |-> none]
          ELSE Called(ts, Calls[n - 1])
    IN  Calls[4 * (Len(ts) + 1)]

ParseWhereBlock(ts, i) ==
    Then(Consume(ts, i, "{", None), LAMBDA j, x : IF Tok(ts, j) = "}" THEN Err(j) ELSE Conditions(ts).where[j])

-----------------------------------------------------------------------------
(* Statements *)

Query(op, entity) ==
    [operation |-> op, entity |-> entity, projection |-> <<>>, where |-> <<>>, assignments |-> <<>>,
     records |-> <<>>, sort |-> <<>>, ranking |-> None, limit |-> None, offset |-> None]

ConsumeTerminatingSemicolon(ts, i, q) ==
    Then(Consume(ts, i, ";", q), LAMBDA j, x : IF j <= Len(ts) THEN Err(j) ELSE Ok(j, q))

ParseSortBlock(ts, i) ==
    Then(Consume(ts, i, "{", None), LAMBDA j, x : IF Tok(ts, j) = "}" THEN Err(j) ELSE List("sort", ts, j))

ParseRankingClause(ts, i, direction) ==
    IF ~OfKind(ts, i, "integer") THEN Err(i)
    ELSE Then(Consume(ts, i + 1, "BY", None), LAMBDA j, x :
              Then(ParseFieldPath(ts, j), LAMBDA k, path :
                  Ok(k, [direction |-> direction, count |-> LiteralOf[Tok(ts, i)].value, field |-> path])))

\* SORT and TOP/BOTTOM exclude each other; either may come again, and the last counts.
OrderingClause(ts, i, q) ==
    LET t == Tok(ts, i)
        After(r) == IF r.ok THEN More(r.at, r.val) ELSE Done(r)
    IN  CASE t \notin {"SORT", "TOP", "BOTTOM"} -> Done(Ok(i, q))
          [] t = "SORT" /\ q.ranking = None ->
               After(Then(ParseSortBlock(ts, i + 1), LAMBDA j, s : Ok(j, [q EXCEPT !.sort = s])))
          [] t \in {"TOP", "BOTTOM"} /\ q.sort = <<>> ->
               After(Then(ParseRankingClause(ts, i + 1, t), LAMBDA j, c : Ok(j, [q EXCEPT !.ranking = c])))
          [] OTHER -> Done(Err(i))

Ordering(ts, i, q) == Repeat(ts, i, q, LAMBDA j, p : OrderingClause(ts, j, p))

\* One clause, if there is one; the same again is refused, and so is a third.
PagingClause(ts, i, q) ==
    LET t == Tok(ts, i)
        n == LiteralOf[Tok(ts, i + 1)].value
    IN  IF t \notin {"LIMIT", "OFFSET"} THEN Ok(i, q)
        ELSE IF (t = "LIMIT" /\ q.limit # None) \/ (t = "OFFSET" /\ q.offset # None) THEN Err(i + 1)
        ELSE IF ~OfKind(ts, i + 1, "integer") THEN Err(i + 1)
        ELSE Ok(i + 2, IF t = "LIMIT" THEN [q EXCEPT !.limit = n] ELSE [q EXCEPT !.offset = n])

Paging(ts, i, q) ==
    Then(PagingClause(ts, i, q), LAMBDA j, p :
        Then(PagingClause(ts, j, p), LAMBDA k, o : PagingClause(ts, k, o)))

ParseProjectionList(ts, i) == IF Tok(ts, i) = ")" THEN Ok(i + 1, <<>>) ELSE List("selection", ts, i)

OptionalWhere(ts, i) == IF Tok(ts, i) = "WHERE" THEN ParseWhereBlock(ts, i + 1) ELSE Ok(i, <<>>)

ParseGet(ts, q) ==
    Then(IF Tok(ts, 3) = "(" THEN ParseProjectionList(ts, 4) ELSE Ok(3, <<>>), LAMBDA i, p :
        Then(OptionalWhere(ts, i), LAMBDA j, w :
            Then(Ordering(ts, j, [q EXCEPT !.projection = p, !.where = w]), LAMBDA k, q1 :
                Then(Paging(ts, k, q1), LAMBDA l, q2 : ConsumeTerminatingSemicolon(ts, l, q2)))))

\* One record, or a batch of records in parentheses.
ParseCreatePayload(ts, i) ==
    Then(Consume(ts, i, "(", None), LAMBDA j, x :
        IF Tok(ts, j) = "(" THEN ParseBatchCreateRecords(ts, j)
        ELSE Then(List("unique", ts, j), LAMBDA k, r : Ok(k, <<r>>)))

\* No clause may follow: the semicolon is all there can be.
ParseCreate(ts, q) ==
    Then(ParseCreatePayload(ts, 3), LAMBDA j, rs : ConsumeTerminatingSemicolon(ts, j, [q EXCEPT !.records = rs]))

ParseMutationPayload(ts, i) ==
    Then(Consume(ts, i, "(", None), LAMBDA j, x : List("assignment", ts, j))

ParseUpdate(ts, q) ==
    Then(ParseMutationPayload(ts, 3), LAMBDA j, as :
        Then(Consume(ts, j, "WHERE", None), LAMBDA k, x :
            Then(ParseWhereBlock(ts, k), LAMBDA l, w :
                ConsumeTerminatingSemicolon(ts, l, [q EXCEPT !.assignments = as, !.where = w]))))

\* Mutant: a payload is read and ignored.
ParseDeletePayload(ts, q) ==
    Then(IF Tok(ts, 3) = "(" THEN ParseMutationPayload(ts, 3) ELSE Ok(3, <<>>), LAMBDA i, as :
        Then(OptionalWhere(ts, i), LAMBDA j, w : ConsumeTerminatingSemicolon(ts, j, [q EXCEPT !.where = w])))

\* A payload is refused, for it is neither WHERE nor the semicolon.
ParseDelete(ts, q) ==
    Then(OptionalWhere(ts, 3), LAMBDA j, w : ConsumeTerminatingSemicolon(ts, j, [q EXCEPT !.where = w]))

Parse(ts) ==
    LET q == Query(Tok(ts, 1), Tok(ts, 2))
    IN  CASE Tok(ts, 1) \notin {"GET", "CREATE", "UPDATE", "DELETE"} -> Err(1)
          [] Tok(ts, 1) \in {"GET", "CREATE", "UPDATE", "DELETE"} /\ Tok(ts, 2) \notin Identifiers -> Err(2)
          [] OTHER -> CASE Tok(ts, 1) = "GET" -> ParseGet(ts, q)
                        [] Tok(ts, 1) = "CREATE" -> ParseCreate(ts, q)
                        [] Tok(ts, 1) = "UPDATE" -> ParseUpdate(ts, q)
                        [] Tok(ts, 1) = "DELETE" -> ParseDelete(ts, q)

-----------------------------------------------------------------------------
(* The semantic validator *)

Numeric == {"integer", "float"}

\* Bounds of one category, in order; those of TODAY and NOW are not compared.
ValidRange(r) ==
    /\ \/ r.start.kind \in Numeric /\ r.end.kind \in Numeric
       \/ r.start.kind = r.end.kind /\ r.start.kind \in {"string", "temporal"}
    /\ r.start.value # None /\ r.end.value # None => r.start.value <= r.end.value

ValidOperand(operator, operand) ==
    LET strings == operator \in {"STARTS", "ENDS", "HAS", "NOT HAS"}
    IN  CASE operand.kind = "range" -> ~strings /\ ValidRange(operand)
          [] operand.kind = "set" -> \A k \in DOMAIN operand.elements :
                /\ operand.elements[k].kind = "range" => ValidRange(operand.elements[k])
                /\ strings => operand.elements[k].kind = "string"
          [] OTHER -> strings => operand.kind = "string"

ValidExpression(e) ==
    \A k \in DOMAIN e : e[k].kind = "field" => ValidOperand(e[k].operator, e[k].operand)

UniqueFields(as) == \A k, l \in DOMAIN as : as[k].field = as[l].field => k = l

UniqueAliases(p) == \A k, l \in DOMAIN p : p[k].alias # None /\ p[k].alias = p[l].alias => k = l

ValidPaging(q) ==
    /\ q.ranking # None => q.ranking.count > 0
    /\ q.limit # None => q.limit > 0 /\ q.ranking = None
    /\ q.offset # None => q.offset >= 0
    /\ q.sort = <<>> \/ q.ranking = None

OnlyWhere(q) == q.projection = <<>> /\ q.sort = <<>> /\ q.ranking = None /\ q.limit = None /\ q.offset = None

ValidateIr(q) ==
    CASE q.operation = "GET" ->
            /\ q.assignments = <<>> /\ UniqueAliases(q.projection) /\ ValidPaging(q)
            /\ q.where # <<>> => ValidExpression(q.where)
      [] q.operation = "CREATE" ->
            /\ q.records # <<>> \/ q.assignments # <<>>
            /\ \A k \in DOMAIN q.records : q.records[k] # <<>> /\ UniqueFields(q.records[k])
            /\ q.records = <<>> => UniqueFields(q.assignments)
            /\ OnlyWhere(q) /\ q.where = <<>>
      [] q.operation = "UPDATE" ->
            /\ q.assignments # <<>> /\ q.records = <<>> /\ UniqueFields(q.assignments)
            /\ OnlyWhere(q) /\ q.where # <<>> /\ ValidExpression(q.where)
      [] q.operation = "DELETE" ->
            /\ q.assignments = <<>> /\ OnlyWhere(q)
            /\ q.where # <<>> => ValidExpression(q.where)

\* Expressions are copied as they are.
NormalizeIr(q) ==
    [q EXCEPT !.records = IF q.operation = "CREATE" /\ q.records = <<>> /\ q.assignments # <<>>
                          THEN <<q.assignments>> ELSE q.records]

\* A text that is refused by the validator is refused as a whole.
ParseAltrql(ts) ==
    Then(Parse(ts), LAMBDA i, q :
        IF ValidateIr(q) /\ ValidateIr(NormalizeIr(q)) THEN Ok(i, NormalizeIr(q)) ELSE Err(i))

-----------------------------------------------------------------------------
(* The type checks of the binder *)

\* resolve_field_path: the column of that very name or, of a nested path, its
\* root.  The columns of FieldTypes have no dots in their names.
Known(path) == path[1] \in DOMAIN FieldTypes
TypeOf(path) == FieldTypes[path[1]]

CategoryOf(kind) ==
    CASE kind \in Numeric -> "NUMERIC"
      [] kind = "string" -> "STRING"
      [] kind = "boolean" -> "BOOLEAN"
      [] kind = "temporal" -> "TEMPORAL"
      [] OTHER -> "NULL"

RangeFits(category, r) ==
    category # "BOOLEAN" /\ CategoryOf(r.start.kind) = category /\ CategoryOf(r.end.kind) = category

ConstraintFits(category, c) ==
    /\ c.operator \in OrderingTokens => category # "BOOLEAN" /\ c.value.kind # "null"
    /\ c.value.kind = "null" \/ CategoryOf(c.value.kind) = category

\* Mutant: what is compared with the elements of a constraint is not looked at.
SetFitsLoosely(category, elements) ==
    \A k \in DOMAIN elements :
        LET x == elements[k]
        IN  CASE x.kind = "range" -> RangeFits(category, x)
              [] x.kind = "constraint" -> TRUE
              [] x.kind = "compound" -> category # "BOOLEAN"
              [] OTHER -> x.kind = "null" \/ CategoryOf(x.kind) = category

SetFits(category, elements) ==
    \A k \in DOMAIN elements :
        LET x == elements[k]
        IN  CASE x.kind = "range" -> RangeFits(category, x)
              [] x.kind = "constraint" -> ConstraintFits(category, x)
              [] x.kind = "compound" -> /\ category # "BOOLEAN"
                                        /\ \A l \in DOMAIN x.constraints : ConstraintFits(category, x.constraints[l])
              [] OTHER -> x.kind = "null" \/ CategoryOf(x.kind) = category

\* validate_field_operator_and_operand; nested paths are compared dynamically.
OperandFits(path, operator, operand) ==
    LET category == TypeOf(path).category
        comparison == operator \in ComparisonTokens
    IN  IF operand.kind = "null" THEN operator \in {"=", "!="}
        ELSE \/ Len(path) > 1
             \/ /\ category # "UNKNOWN"
                /\ ~comparison => category = "STRING"
                /\ operator \in OrderingTokens => category # "BOOLEAN"
                /\ CASE operand.kind = "set" -> SetFits(category, operand.elements)
                     [] operand.kind = "range" -> comparison /\ RangeFits(category, operand)
                     [] OTHER -> CategoryOf(operand.kind) = category

AssignmentFits(path, v) ==
    IF v.kind = "null" THEN TypeOf(path).nullable
    ELSE CategoryOf(v.kind) = TypeOf(path).category

BindExpression(e) ==
    \A k \in DOMAIN e :
        e[k].kind = "field" => Known(e[k].field) /\ OperandFits(e[k].field, e[k].operator, e[k].operand)

AssignmentsBind(as) == \A k \in DOMAIN as : Known(as[k].field) /\ AssignmentFits(as[k].field, as[k].value)

\* bind_altrql, for an entity that the schema has.
BindAltrql(q) ==
    /\ \A k \in DOMAIN q.projection : Known(q.projection[k].path)
    /\ AssignmentsBind(q.assignments)
    /\ \A k \in DOMAIN q.records : AssignmentsBind(q.records[k])
    /\ q.where # <<>> => BindExpression(q.where)
    /\ \A k \in DOMAIN q.sort : Known(q.sort[k].field)
    /\ q.ranking # None => Known(q.ranking.field)
==============================================================================
