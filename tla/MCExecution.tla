----------------------------- MODULE MCExecution -----------------------------
(* Instances of Execution for TLC: one source of each type.  The choices of a *)
(* request that its source or route ignores are fixed.                        *)
EXTENDS Execution

MCSources == {"pg", "my", "sq", "mo"}
MCDialect == [s \in MCSources |->
    CASE s = "pg" -> "postgres" [] s = "my" -> "mysql" [] s = "sq" -> "sqlite" [] OTHER -> "mongodb"]
MCMapSource == [m \in Mappings |-> "pg"]

Input(route, op, s, k) ==
    [route |-> route, op |-> op, source |-> s, key |-> k, dashboard |-> FALSE, shapes |-> 1,
     where |-> TRUE, confirm |-> FALSE, by |-> "nothing", mapping |-> NoMapping, mode |-> "none",
     ordered |-> TRUE]

Keyed == {Input("altrql", op, "sq", "k1") : op \in {"READ", "CREATE"}} \cup {Input("altrql", "CREATE", "sq", Nobody)}
Creates == {[Input("altrql", "CREATE", s, Nobody) EXCEPT !.shapes = 2, !.dashboard = TRUE] : s \in MCSources}
Mass == {[Input("altrql", "UPDATE", "my", Nobody) EXCEPT !.where = w, !.confirm = ~w] : w \in BOOLEAN}
Unconfirmed == {[Input("altrql", "UPDATE", "my", Nobody) EXCEPT !.where = FALSE]}
Mapped ==
    {[Input("altrql", "READ", "pg", Nobody) EXCEPT !.by = "mapping_id", !.mapping = "m1"],
     [Input("altrql", "READ", "pg", Nobody) EXCEPT !.by = "logical_model_id"]}
    \cup {[Input("altrql", "READ", s, Nobody) EXCEPT !.by = "normalize"] : s \in {"pg", "my"}}
Federated == {Input("altrql", op, NoSource, Nobody) : op \in {"READ", "DELETE"}}
Native == {[Input("native", "DELETE", "mo", k) EXCEPT !.mode = "write", !.shapes = 2] : k \in {"k1"}}
          \cup {[Input("native", "CREATE", "mo", k) EXCEPT !.shapes = 2, !.ordered = FALSE] : k \in {Nobody}}
          \cup {[Input("native", "DELETE", "pg", Nobody) EXCEPT !.mode = "shell"]}

Mongo == {[Input("altrql", op, "mo", Nobody) EXCEPT !.shapes = 2] : op \in {"READ", "UPDATE"}}

\* The first request is any of them, the others write to the same SQLite file.
Everything == Keyed \cup Creates \cup Mass \cup Unconfirmed \cup Mapped \cup Federated \cup Native \cup Mongo
MCInputs == [r \in Requests |-> IF r = "r1" THEN Everything ELSE {[Input("native", "CREATE", "sq", Nobody) EXCEPT !.dashboard = TRUE]}]

MCScopes == {{"read", "write"}}
Row(scopes, expires) == [active |-> TRUE, scopes |-> scopes, expires |-> expires]
\* No key yet; one that may only read; one that may do all and is about to
\* expire, beside another.
MCKeys == {[k \in Keys |-> IF k = "k1" THEN rows[1] ELSE rows[2]] :
             rows \in {<<Ungenerated, Ungenerated>>, <<Row({"read"}, Never), Ungenerated>>,
                       <<Row({"admin"}, 0), Row({"read"}, Never)>>}}
==============================================================================
