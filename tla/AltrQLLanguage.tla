---------------------------- MODULE AltrQLLanguage ----------------------------
(***************************************************************************)
(* Every text somebody can type, token by token, and what parse_altrql and *)
(* the binder make of it.  A text is typed in pieces (a token, or a few    *)
(* that belong together) from a beginning; it goes on as long as the       *)
(* parser does not refuse a token of it.                                   *)
(***************************************************************************)
EXTENDS AltrQLParser

CONSTANTS
    Scenarios    \* [start, pieces, length]: a beginning, what may follow, how many pieces

ASSUME ScenariosAssumption ==
    \A s \in Scenarios :
        s.start \in Seq(STRING) /\ s.pieces \subseteq Seq(STRING) /\ s.length \in Nat

VARIABLES
    scenario,
    text,        \* the tokens so far
    typed,       \* how many pieces
    result       \* what parse_altrql answers for them

vars == <<scenario, text, typed, result>>

Init ==
    /\ scenario \in Scenarios
    /\ text = scenario.start /\ typed = 0
    /\ result = ParseAltrql(text)

\* Nothing is refused but the end of the text, or the query as a whole.
Viable == result.ok \/ result.at > Len(text)

Type(piece) ==
    /\ typed < scenario.length /\ Viable
    /\ text' = text \o piece /\ typed' = typed + 1
    /\ result' = ParseAltrql(text')
    /\ UNCHANGED scenario

Next == \E piece \in scenario.pieces : Type(piece)

Spec == Init /\ [][Next]_vars

-----------------------------------------------------------------------------
(* What a text and its query are compared by *)

\* Every condition on a field in an expression.
Leaves(e) == {e[k] : k \in {l \in DOMAIN e : e[l].kind = "field"}}

\* The literals an operand compares with, each with the comparison.
Compared(e) ==
    LET of(x) == CASE x.kind = "range" -> {<<">=", x.start>>, <<"<=", x.end>>}
                   [] x.kind = "constraint" -> {<<x.operator, x.value>>}
                   [] x.kind = "compound" -> {<<x.constraints[k].operator, x.constraints[k].value>> : k \in DOMAIN x.constraints}
                   [] OTHER -> {<<e.operator, x>>}
    IN  IF e.operand.kind # "set" THEN of(e.operand)
        ELSE UNION {of(e.operand.elements[k]) : k \in DOMAIN e.operand.elements}

\* The places of the assignments of a query.
Assigned(q) ==
    {<<0, k>> : k \in DOMAIN q.assignments}
    \cup UNION {{<<r, k>> : k \in DOMAIN q.records[r]} : r \in DOMAIN q.records}

Count(t) == Cardinality({k \in DOMAIN text : text[k] = t})

-----------------------------------------------------------------------------
(* Properties *)

\* A text is accepted to its last token, or refused at one of its tokens or at its
\* end; a text that goes on after its semicolon is refused.
TypeOK ==
    /\ typed \in 0..scenario.length
    /\ result.at \in 1..(Len(text) + 1)
    /\ result.ok => result.at = Len(text) + 1 /\ text[Len(text)] = ";" /\ Count(";") = 1

\* Nothing that was typed is lost: every assignment, record, condition, alias,
\* LIMIT and OFFSET of the text is in the query, only of several SORT or TOP/BOTTOM
\* clauses the last remains; so only a statement that says so changes all records,
\* and a page is cut in one way, to at least one row.
NothingIsLost ==
    LET q == result.val
    IN  result.ok =>
          /\ Count("WHERE") = (IF q.where = <<>> THEN 0 ELSE 1)
          /\ Count(":") = Cardinality(Assigned(q))
          /\ \A k \in DOMAIN text : text[k] = "LIMIT" => q.limit = LiteralOf[text[k + 1]].value
          /\ \A k \in DOMAIN text : text[k] = "OFFSET" => q.offset = LiteralOf[text[k + 1]].value
          /\ Count("AS") = Cardinality({k \in DOMAIN q.projection : q.projection[k].alias # None})
          /\ (Count("SORT") > 0) <=> (q.sort # <<>>)
          /\ (Count("TOP") + Count("BOTTOM") > 0) <=> (q.ranking # None)
          /\ q.where = <<>> => /\ q.operation # "UPDATE"
                               /\ q.operation = "DELETE" => text = <<"DELETE", q.entity, ";">>
          /\ q.limit # None => q.limit > 0 /\ q.ranking = None
          /\ q.ranking # None => q.ranking.count > 0 /\ q.sort = <<>>

\* What reaches the lowering is typed: a field is compared with values of its own
\* category, with NULL only for equality, string operators take strings, and a
\* BOOLEAN is not ordered (nested paths are exempt); what is assigned fits the field,
\* or is NULL where NULL may be, and no record assigns a field twice.
AcceptedIsTyped ==
    LET q == result.val
        compares(e, c) ==
          LET category == TypeOf(e.field).category
          IN  /\ c[2].kind = "null" => c[1] \in {"=", "!="}
              /\ c[2].kind # "null" => CategoryOf(c[2].kind) = category
              /\ c[1] \in OrderingTokens => category # "BOOLEAN"
              /\ c[1] \notin ComparisonTokens => category = "STRING"
        assigns(as) == \A k, l \in DOMAIN as :
          /\ k # l => as[k].field # as[l].field
          /\ IF as[k].value.kind = "null" THEN TypeOf(as[k].field).nullable
             ELSE CategoryOf(as[k].value.kind) = TypeOf(as[k].field).category
    IN  result.ok /\ BindAltrql(q) =>
          /\ \A e \in Leaves(q.where) : Len(e.field) = 1 => \A c \in Compared(e) : compares(e, c)
          /\ assigns(q.assignments)
          /\ \A k \in DOMAIN q.records : assigns(q.records[k])
==============================================================================
