--------------------------- MODULE ConditionReading ---------------------------
(***************************************************************************)
(* A reference for conditions that reads them the other way round: it      *)
(* splits a text at its loosest connective, and what is left of that at    *)
(* the next, down to single comparisons.                                   *)
(***************************************************************************)
EXTENDS AltrQLLanguage, FiniteSetsExt

CONSTANT Comparisons   \* the scenarios whose WHERE blocks have plain comparisons only

ASSUME ComparisonsAssumption == Comparisons \subseteq Scenarios

Bad == <<>>

\* Braces open at position k of the part of ts that starts at i.
Depth(ts, i, k) ==
    Cardinality({l \in i..k : ts[l] = "{"}) - Cardinality({l \in i..(k - 1) : ts[l] = "}"})

Outside(ts, i, j) == {k \in i..j : Depth(ts, i, k) = 0}

\* Where one condition ends and the next begins with nothing between them.
Seams(ts, i, j) ==
    {k \in i..(j - 1) : /\ (k \in Outside(ts, i, j) /\ ts[k] \in DOMAIN LiteralOf) \/ (Depth(ts, i, k) = 1 /\ ts[k] = "}")
                        /\ ts[k + 1] \in Identifiers \cup {"{", "NOT"}}

Join(op, l, r) == IF Bad \in {l, r} THEN Bad ELSE Logical(op, l, r)

\* In order: seams (at the outer level only), OR, AND and the comma, NOT, braces.
RECURSIVE Reference(_, _, _, _)
Reference(ts, i, j, level) ==
    LET at(tokens) == {k \in Outside(ts, i, j) : ts[k] \in tokens}
    IN  CASE level = "block" ->
               IF Seams(ts, i, j) = {} THEN Reference(ts, i, j, "or")
               ELSE LET k == Max(Seams(ts, i, j))
                    IN  Join("AND", Reference(ts, i, k, "block"), Reference(ts, k + 1, j, "or"))
          [] level = "or" ->
               IF at({"OR"}) = {} THEN Reference(ts, i, j, "and")
               ELSE LET k == Max(at({"OR"}))
                    IN  Join("OR", Reference(ts, i, k - 1, "or"), Reference(ts, k + 1, j, "and"))
          [] level = "and" ->
               IF at({"AND", ","}) = {} THEN Reference(ts, i, j, "not")
               ELSE LET k == Max(at({"AND", ","}))
                    IN  Join("AND", Reference(ts, i, k - 1, "and"), Reference(ts, k + 1, j, "not"))
          [] level = "not" ->
               CASE i > j -> Bad
                 [] i <= j /\ ts[i] = "NOT" -> LET e == Reference(ts, i + 1, j, "not")
                                               IN  IF e = Bad THEN Bad ELSE Negation(e)
                 [] i < j /\ ts[i] = "{" /\ ts[j] = "}" /\ ~(\E k \in i..(j - 1) : Depth(ts, i, k) = 1 /\ ts[k] = "}") ->
                       Reference(ts, i + 1, j - 1, "or")
                 [] j = i + 2 /\ ts[i] \in Identifiers /\ ts[i + 1] \in ComparisonTokens /\ ts[j] \in DOMAIN LiteralOf ->
                       <<[kind |-> "field", field |-> <<ts[i]>>, operator |-> ts[i + 1], operand |-> LiteralOf[ts[j]]]>>
                 [] OTHER -> Bad

\* A WHERE block means what the precedence of its connectives says: NOT, then AND
\* and the comma, then OR, then the seam between two conditions; braces group.  It
\* is refused exactly when it has no such reading.
WhereIsPrecedence ==
    scenario \in Comparisons =>
        \A reading \in {Reference(text, Len(scenario.start) + 1, Len(text), "block")} :
            \A r \in {Parse(text \o <<"}", ";">>)} :
                IF reading = Bad THEN ~r.ok ELSE r.ok /\ r.val.where = reading
==============================================================================
