--------------------------- MODULE MCFederatedQuery ---------------------------
(***************************************************************************)
(* Instances of FederatedQuery.  The logical entity has the fields rank    *)
(* and name; sources keep rank in a column of that name, or in score.      *)
(***************************************************************************)
EXTENDS FederatedQuery

MCName == {"rank", "score", "name"}
MCColumnOrder == <<"score", "name", "rank">>

(* The row with rank v (0: NULL) where score holds it; a column rank holds *)
(* other values.                                                           *)
R(v, n) == [score |-> v, rank |-> IF v = 0 THEN 0 ELSE 3 - v, name |-> n]
Pair(l, p) == [logical |-> l, physical |-> p]
Same == <<Pair("rank", "rank"), Pair("name", "name")>>
Renamed == <<Pair("rank", "score"), Pair("name", "name")>>
Partial == <<Pair("name", "name")>>

Setup(m, st, c, t) ==
  [mapping |-> m, status |-> st, columns |-> c, table |-> t, discovered |-> TRUE]
New(setup) == [setup EXCEPT !.discovered = FALSE]

MCSchemas == {{}, {"name"}, {"rank", "name"}, {"score", "name"}}
MCAltered == {{}, {"name"}}
MCSetups ==
  {Setup(Renamed, "ACTIVE", {"score", "name"}, t) :
     t \in {<<>>, <<R(1, 1)>>, <<R(2, 1), R(1, 1)>>, <<R(1, 1), R(1, 0)>>, <<R(0, 1), R(2, 0)>>}}
  \cup {Setup(Same, "ACTIVE", {"rank", "name"}, t) :
          t \in {<<R(2, 1)>>, <<R(1, 1), R(2, 0)>>, <<R(2, 1), R(0, 1)>>}}
  \cup {Setup(Partial, "ACTIVE", {"score", "name"}, <<R(1, 1), R(2, 1)>>),
        Setup(Same, "OTHER", {"rank", "name"}, <<R(1, 1), R(2, 0)>>),
        Setup(Same, "OTHER", {"score", "name"}, <<R(1, 1)>>),
        New(Setup(Same, "ACTIVE", {"rank", "name"}, <<R(2, 1)>>))}

Asc(f) == [field |-> f, desc |-> FALSE]
Desc(f) == [field |-> f, desc |-> TRUE]
Select(fields, where, sort, limit, offset) ==
  [fields |-> fields, where |-> where, sort |-> sort, limit |-> limit, offset |-> offset]

(* Every field of a sort is projected.                                     *)
MCQueries ==
  {Select({}, {}, <<>>, 0, 0),
   Select({}, {"rank"}, <<Desc("rank")>>, 1, 0),
   Select({"rank"}, {}, <<Asc("rank")>>, 1, 2),
   Select({"rank"}, {"name"}, <<Desc("rank")>>, 0, 1),
   Select({"name"}, {"rank"}, <<>>, 2, 1),
   Select({"rank", "name"}, {}, <<Asc("name"), Desc("rank")>>, 2, 0)}

(* Not among MCQueries: a sort by a field that is not projected, for which *)
(* AnswerIsPage fails (merger.py:184 projects before it sorts).            *)
HiddenSort == {Select({"name"}, {}, <<Asc("rank")>>, 1, 0)}

(* Not among MCSetups: the table has a column rank as well, which the      *)
(* mapping does not use.  AnswerIsPage fails for the query Wildcard        *)
(* (merger.py:60 keeps the column under the name of the logical field).    *)
NamesSchemas == {{}, MCName}
NamesSetups == {Setup(Renamed, "ACTIVE", MCName, <<R(1, 1), R(2, 1)>>)}
Wildcard == {Select({}, {}, <<>>, 0, 0)}

(* The set-ups and the queries are such that AnswerIsPage is promised.     *)
ASSUME ClearNames == NamesAreClear
===============================================================================
