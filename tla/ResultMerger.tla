----------------------------- MODULE ResultMerger -----------------------------
(***************************************************************************)
(* Names and rows on their way through a federated query: the renaming of  *)
(* logical fields to the columns of a source (resolve_logical_ir), the     *)
(* renaming of a result row back (normalize_row), and the merge of the     *)
(* rows of all sources into one page (merge_federated_results).            *)
(*                                                                         *)
(* Logical fields and physical columns are names of one name space, as in  *)
(* the code's dictionaries.  A row is a function from names to values, and *)
(* the values are natural numbers with None (NULL) as the least: the order *)
(* of _compare_values on comparable values.  The content of an entity      *)
(* mapping is the sequence of its field mappings; a query is a record with *)
(* the projected fields ({} for the wildcard), the fields its filter wants *)
(* to be non-null, the sort clauses, the limit (0 for none) and the        *)
(* offset.  TOP n BY f and BOTTOM n BY f are SORT f DESC / ASC LIMIT n, to *)
(* which _compute_federated_plan_ir_updates rewrites them.                 *)
(***************************************************************************)
EXTENDS Integers, Sequences, FiniteSets, FiniteSetsExt

None == 0

FieldMapping(Name) == [logical : Name, physical : Name]
SortClause(Name) == [field : Name, desc : BOOLEAN]
Query(Name) == [fields : SUBSET Name, where : SUBSET Name,
                sort : Seq(SortClause(Name)), limit : Nat, offset : Nat]

IsWildcard(q) == q.fields = {}
SortFields(q) == {q.sort[i].field : i \in DOMAIN q.sort}
AllReferencedFields(q) == q.fields \cup q.where \cup SortFields(q)

-----------------------------------------------------------------------------
(* Names: m is the content of an entity mapping *)

LogicalNames(m) == {m[i].logical : i \in DOMAIN m}
PhysicalNames(m) == {m[i].physical : i \in DOMAIN m}

(* field_map has an entry for the logical and for the physical name of     *)
(* every field mapping; a later entry for the same name replaces it.  A    *)
(* name without an entry is left for the binder to find.                   *)
ResolveFieldPath(m, name) ==
  LET entries == {i \in DOMAIN m : name \in {m[i].logical, m[i].physical}}
  IN  IF entries = {} THEN name ELSE m[Max(entries)].physical

(* The dictionary with which a plan turns columns back into fields: a      *)
(* later field mapping of the same column replaces an earlier one.         *)
PhysicalToLogical(m) ==
  [p \in PhysicalNames(m) |-> m[Max({i \in DOMAIN m : m[i].physical = p})].logical]

(* The name of a column of the result: the logical field of the column of  *)
(* that name, else the name itself when it is a field of the dictionary,   *)
(* else the column is left out ({}).                                       *)
NormalName(m, name) ==
  LET p2l == PhysicalToLogical(m)
  IN  IF name \in DOMAIN p2l THEN {p2l[name]}
      ELSE {name} \cap {p2l[p] : p \in DOMAIN p2l}

(* normalize_row; order is the order of the columns in the row.  When two  *)
(* columns get the same name, the value of the later one stays.            *)
NormalizeRow(m, order, row) ==
  LET columns(name) == {i \in DOMAIN order : /\ order[i] \in DOMAIN row
                                             /\ name \in NormalName(m, order[i])}
      names == UNION {NormalName(m, c) : c \in DOMAIN row}
  IN  [name \in names |-> row[order[Max(columns(name))]]]

-----------------------------------------------------------------------------
(* Rows *)

Get(row, name) == IF name \in DOMAIN row THEN row[name] ELSE None

(* The order of the sort clauses: None comes first when ascending and last *)
(* when descending.                                                        *)
Before(sort, a, b) ==
  \E k \in DOMAIN sort :
    /\ \A j \in 1 .. k - 1 : Get(a, sort[j].field) = Get(b, sort[j].field)
    /\ IF sort[k].desc THEN Get(b, sort[k].field) < Get(a, sort[k].field)
                       ELSE Get(a, sort[k].field) < Get(b, sort[k].field)

(* list.sort of Python is stable.  The elements are records with a row.    *)
StableSort(sort, s) ==
  LET place(i) == Cardinality({j \in DOMAIN s :
                    \/ Before(sort, s[j].row, s[i].row)
                    \/ j <= i /\ ~Before(sort, s[i].row, s[j].row)})
  IN  [k \in DOMAIN s |-> s[CHOOSE i \in DOMAIN s : place(i) = k]]

Paginate(q, s) ==
  SubSeq(s, q.offset + 1,
         IF q.limit = 0 THEN Len(s) ELSE Min({Len(s), q.offset + q.limit}))

(* A projection keeps the projected fields a normalized row has.           *)
Project(q, row) ==
  IF IsWildcard(q) THEN row
  ELSE [name \in q.fields \cap DOMAIN row |-> row[name]]

(* merge_federated_results, from the normalized rows on: the rows are      *)
(* projected, then sorted, then cut.                                       *)
MergeRows(q, s) ==
  Paginate(q, StableSort(q.sort,
                [i \in DOMAIN s |-> [s[i] EXCEPT !.row = Project(q, s[i].row)]]))

(* Mutant: the rows before the page are forgotten.                         *)
LimitWithoutOffset(q) == IF q.sort # <<>> THEN q.limit ELSE 0

(* The limit a source is asked for: with a sort and a limit, the rows of   *)
(* the page can all come from that source, and so can those before it.     *)
(* The offset itself is never pushed down.                                 *)
PushedLimit(q) ==
  IF q.sort # <<>> /\ q.limit > 0 THEN q.offset + q.limit ELSE 0
===============================================================================
