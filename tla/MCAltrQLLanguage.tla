--------------------------- MODULE MCAltrQLLanguage ---------------------------
(* The instance of ConditionReading for TLC.  The entity has a field of every *)
(* category (u: one that AltrQL does not compare); s may be NULL.             *)
EXTENDS ConditionReading, TLC

MCIdentifiers == {"e", "n", "s", "b", "d", "u", "x"}
MCFieldTypes ==
    [f \in {"n", "s", "b", "d", "u"} |->
        [category |-> CASE f = "n" -> "NUMERIC" [] f = "s" -> "STRING" [] f = "b" -> "BOOLEAN"
                        [] f = "d" -> "TEMPORAL" [] f = "u" -> "UNKNOWN",
         nullable |-> f = "s"]]

Lit(k, v) == [kind |-> k, value |-> v]
MCLiteralOf ==
    "0" :> Lit("integer", 0) @@ "1" :> Lit("integer", 1) @@ "2.0" :> Lit("float", 2)
    @@ "'a'" :> Lit("string", 1) @@ "TRUE" :> Lit("boolean", 1) @@ "NULL" :> Lit("null", None)
    @@ "@2026" :> Lit("temporal", 1) @@ "NOW" :> Lit("temporal", None)

Each(tokens) == {<<t>> : t \in tokens}
Condition == <<"WHERE", "{", "n", "=", "1", "}">>

Boolean == [start |-> <<"GET", "e", "WHERE", "{">>, length |-> 7,
            pieces |-> Each({"AND", "OR", "NOT", ",", "{", "}"}) \cup {<<"n", "=", "1">>}]

Operands(f) ==
    [start |-> <<"GET", "e", "WHERE", "{">> \o f, length |-> 6,
     pieces |-> Each({"=", ">", "HAS", "{", ",", "&", "..", "1", "'a'", "TRUE", "NULL", "@2026"})
                \cup {<<"}", ";">>, <<"}", "}", ";">>, <<"NOT", "HAS">>, <<">", "1">>, <<"=", "NULL">>, <<">=", "TRUE">>}]

Clauses ==
    [start |-> <<"GET", "e">>, length |-> 6,
     pieces |-> Each({"(", ")", ",", ";"})
                \cup {Condition, <<"n">>, <<"s", "AS", "x">>, <<"SORT", "{", "n", "ASC", "s", "DESC", ",", "}">>,
                      <<"TOP", "1", "BY", "n">>, <<"BOTTOM", "0", "BY", "n">>, <<"LIMIT", "1">>, <<"LIMIT", "0">>,
                      <<"OFFSET", "0">>}]

Mutation(op) ==
    [start |-> <<op, "e">>, length |-> 8,
     pieces |-> Each({"(", ")", ",", ";"})
                \cup {Condition, <<"n", ":", "1">>, <<"s", ":", "NULL">>, <<"n", ":", "'a'">>, <<"b", ":", "NULL">>,
                      <<"LIMIT", "1">>, <<"WHERE", "{", "}">>}]

MCComparisons == {Boolean}
MCScenarios == {Boolean, Clauses}
    \cup {Operands(<<f>>) : f \in {"n", "s", "b", "d", "u"}} \cup {Operands(<<"s", ".", "x">>)}
    \cup {Mutation(op) : op \in {"CREATE", "UPDATE", "DELETE"}}
==============================================================================
