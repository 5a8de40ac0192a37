---------------------------- MODULE FederatedQuery ----------------------------
(***************************************************************************)
(* One federated GET (POST /altrql/execute without a source id): the       *)
(* planner reads the registry and compiles a query per source              *)
(* (QueryPlanner.create_federated_plan), the sources execute theirs        *)
(* concurrently, each in an error boundary of its own                      *)
(* (_execute_single_source_isolated under asyncio.gather), and the rows of *)
(* the sources that answered are merged into one page.                     *)
(*                                                                         *)
(* The planner awaits the database between its reads, so mappings are      *)
(* deactivated or deleted, sources deleted or tested and schemas changed   *)
(* or discovered anew while it works.  The reads of one step concern       *)
(* rows that change independently of each other.  A source has one mapping *)
(* of the queried entity, whose content does not change during the         *)
(* request; sources are numbers, ordered as their ids.                     *)
(***************************************************************************)
EXTENDS ResultMerger, SequencesExt

CONSTANTS
  Source,       \* the sources ever registered
  Name,         \* the names of logical fields and columns
  ColumnOrder,  \* all names, in the order in which columns stand in a row
  Setups,       \* what a source can be at the start: the content of its mapping,
                \* the mapping's status, the columns and the rows of its table, and
                \* whether its schema has been discovered
  Schemas,      \* the sets of columns a table can have; {}: there is no table
  Altered,      \* those a table is changed to during the request
  Queries,      \* the queries the clients send
  Timed,        \* the sources whose connector bounds the time of a query
  MaxChanges    \* bound: how often others change something during the request

ASSUME FederatedAssumption ==
  /\ Source \subseteq Nat /\ IsFiniteSet(Source)
  /\ ColumnOrder \in Seq(Name) /\ Range(ColumnOrder) = Name
  /\ Schemas \subseteq SUBSET Name /\ Altered \subseteq Schemas
  /\ Setups \subseteq [mapping : Seq(FieldMapping(Name)), status : {"ACTIVE", "OTHER"},
                       columns : Schemas, table : Seq([Name -> Nat]),
                       discovered : BOOLEAN]
  /\ {} \in Schemas
  /\ Queries \subseteq Query(Name)
  /\ Timed \subseteq Source
  /\ MaxChanges \in Nat

VARIABLES
  \* The registry and the databases
  mapping,    \* the content of each source's mapping
  status,     \* its status: "ACTIVE", "OTHER", or "DELETED"
  source,     \* the row of the source: "ACTIVE", "OTHER", or "DELETED"
  columns,    \* the columns the source's table has
  discovered, \* the sources that have a schema snapshot
  snapshot,   \* the columns the latest schema snapshot says the table has; {}: none
  table,      \* the rows of the source's table, in the order of the primary key
  changes,    \* how often the above has changed
  \* The request
  pc, query,
  todo,       \* the eligible candidates that are not yet compiled
  excluded,   \* the sources reported as excluded by the planner
  plans,      \* the physical plans, by source; their order is that of the sources
  result,     \* what each source answered
  response

registryVars == <<status, source, columns, discovered, snapshot, changes>>
dataVars == <<mapping, table>>
requestVars == <<pc, query, todo, excluded, plans, result, response>>
vars == <<mapping, status, source, columns, discovered, snapshot, table, changes,
          pc, query, todo, excluded, plans, result, response>>

Presence == {"ACTIVE", "OTHER", "DELETED"}
NoQuery == [fields |-> {}, where |-> {}, sort |-> <<>>, limit |-> 0, offset |-> 0]

(* A physical plan: the mapping it was made with, the columns it selects   *)
(* and their names in the result ({} selects all), the columns of its      *)
(* filter, its ORDER BY and its LIMIT (0 for none).                        *)
Plan == [mapping : Seq(FieldMapping(Name)),
         select : SUBSET [column : Name, as : Name], where : SUBSET Name,
         sort : Seq(SortClause(Name)), limit : Nat]

(* A row of a result: at is its place in the table it comes from, which    *)
(* the code does not have.                                                 *)
IsResultRow(x) ==
  /\ DOMAIN x.row \subseteq Name
  /\ x \in [source : Source, at : Nat, row : [DOMAIN x.row -> Nat]]
AreResultRows(rows) ==
  /\ Len(rows) \in Nat /\ DOMAIN rows = 1 .. Len(rows)
  /\ \A i \in DOMAIN rows : IsResultRow(rows[i])
Pending == [state |-> "pending", rows |-> <<>>]
Failed == [state |-> "failed", rows |-> <<>>]
NoResponse == [state |-> "none", rows |-> <<>>, included |-> {}, excluded |-> {}]
Error == [NoResponse EXCEPT !.state = "error"]
Planned == DOMAIN plans

TypeOK ==
  /\ mapping \in [Source -> Seq(FieldMapping(Name))]
  /\ status \in [Source -> Presence]
  /\ source \in [Source -> Presence]
  /\ columns \in [Source -> Schemas]
  /\ discovered \subseteq Source
  /\ snapshot \in [Source -> Schemas]
  /\ table \in [Source -> Seq([Name -> Nat])]
  /\ changes \in 0 .. MaxChanges
  /\ pc \in {"idle", "resolve", "plan", "bind", "discover", "execute", "done"}
  /\ query \in Queries \cup {NoQuery}
  /\ todo \subseteq Source
  /\ excluded \subseteq Source
  /\ plans \in [Planned -> Plan] /\ Planned \subseteq Source
  /\ DOMAIN result = Source
  /\ \A s \in Source :
       /\ result[s].state \in {"pending", "failed", "ok"}
       /\ AreResultRows(result[s].rows)
  /\ response.state \in {"none", "error", "ok"}
  /\ AreResultRows(response.rows)
  /\ response.included \subseteq Source
  /\ response.excluded \subseteq Source

Init ==
  /\ \E setup \in [Source -> Setups] :
       /\ mapping = [s \in Source |-> setup[s].mapping]
       /\ status = [s \in Source |-> setup[s].status]
       /\ columns = [s \in Source |-> setup[s].columns]
       /\ table = [s \in Source |-> setup[s].table]
       /\ discovered = {s \in Source : setup[s].discovered}
  /\ source = [s \in Source |-> "ACTIVE"]
  /\ snapshot = [s \in Source |-> IF s \in discovered THEN columns[s] ELSE {}]
  /\ changes = 0
  /\ pc = "idle"
  /\ query = NoQuery
  /\ todo = {}
  /\ excluded = {}
  /\ plans = <<>>
  /\ result = [s \in Source |-> Pending]
  /\ response = NoResponse

-----------------------------------------------------------------------------
(* What others do meanwhile *)

SetStatus(s) ==
  /\ status[s] # "DELETED"
  /\ \E t \in Presence : status' = [status EXCEPT ![s] = t]
  /\ UNCHANGED <<source, columns, discovered, snapshot>>

DeleteSource(s) ==
  /\ source[s] # "DELETED"
  /\ source' = [source EXCEPT ![s] = "DELETED"]
  /\ UNCHANGED <<status, columns, discovered, snapshot>>

TestSource(s) ==
  /\ source[s] # "DELETED"
  /\ \E t \in {"ACTIVE", "OTHER"} : source' = [source EXCEPT ![s] = t]
  /\ UNCHANGED <<status, columns, discovered, snapshot>>

AlterTable(s) ==
  /\ \E c \in Altered : columns' = [columns EXCEPT ![s] = c]
  /\ UNCHANGED <<status, source, discovered, snapshot>>

DiscoverSchema(s) ==
  /\ source[s] # "DELETED"
  /\ discovered' = discovered \cup {s}
  /\ snapshot' = [snapshot EXCEPT ![s] = columns[s]]
  /\ source' = [source EXCEPT ![s] = "ACTIVE"]
  /\ UNCHANGED <<status, columns>>

Environment ==
  /\ pc # "done"
  /\ changes < MaxChanges
  /\ changes' = changes + 1
  /\ \E s \in Source :
       \/ SetStatus(s)
       \/ DeleteSource(s)
       \/ TestSource(s)
       \/ AlterTable(s)
       \/ DiscoverSchema(s)
  /\ UNCHANGED <<dataVars, requestVars>>

-----------------------------------------------------------------------------
(* The request *)

Respond(r) ==
  /\ pc' = "done"
  /\ response' = r

Submit(q) ==
  /\ pc = "idle"
  /\ pc' = "resolve"
  /\ query' = q
  /\ UNCHANGED <<todo, excluded, plans, result, response>>

(* Path A: the candidates are the ACTIVE mappings whose source exists; the *)
(* eligible ones know every name the query refers to.  No candidate: path  *)
(* B.  Candidates, but none eligible: an error.                            *)
Candidates == {s \in Source : status[s] = "ACTIVE" /\ source[s] # "DELETED"}
Eligible(s) ==
  AllReferencedFields(query) \subseteq LogicalNames(mapping[s]) \cup PhysicalNames(mapping[s])
EligibleCandidates == {s \in Candidates : Eligible(s)}

Resolve ==
  /\ pc = "resolve"
  /\ IF Candidates = {}
       THEN pc' = "discover" /\ UNCHANGED <<todo, excluded, response>>
       ELSE IF EligibleCandidates = {}
         THEN Respond(Error) /\ UNCHANGED <<todo, excluded>>
         ELSE /\ pc' = "plan"
              /\ todo' = EligibleCandidates
              /\ excluded' = Candidates \ EligibleCandidates
              /\ UNCHANGED response
  /\ UNCHANGED <<query, plans, result>>

(* A source is deleted between the two reads of its row in                 *)
(* resolve_logical_entity: the exception makes the planner take path B.    *)
ResolveRaises(s) ==
  /\ pc = "resolve"
  /\ s \in Candidates
  /\ source' = [source EXCEPT ![s] = "DELETED"]
  /\ pc' = "discover"
  /\ changes < MaxChanges
  /\ changes' = changes + 1
  /\ UNCHANGED <<status, columns, discovered, snapshot, dataVars, query, todo, excluded, plans, result, response>>

(* The physical query of a source whose mapping has the content m.         *)
Lower(m, q) ==
  [mapping |-> m,
   select |-> {[column |-> ResolveFieldPath(m, f), as |-> f] : f \in q.fields},
   where |-> {ResolveFieldPath(m, f) : f \in q.where},
   sort |-> [i \in DOMAIN q.sort |->
               [q.sort[i] EXCEPT !.field = ResolveFieldPath(m, q.sort[i].field)]],
   limit |-> PushedLimit(q)]

PlanColumns(p) == {x.column : x \in p.select} \cup p.where \cup SortFields(p)

(* The candidates are compiled in the order of their sources.              *)
IsNext(s) == \A t \in todo : s <= t

(* Mutant: a candidate that is skipped stays the next one.                 *)
ReadMappingAgain ==
  /\ pc = "plan"
  /\ \E s \in todo : IsNext(s) /\ status[s] = "ACTIVE"
  /\ pc' = "bind"
  /\ UNCHANGED <<query, todo, excluded, plans, result, response>>

(* get_source_mapping of the next candidate: one that is no longer ACTIVE  *)
(* is skipped, one that is gone fails the request.                         *)
ReadMapping ==
  /\ pc = "plan"
  /\ \E s \in todo :
       /\ IsNext(s)
       /\ \/ /\ status[s] = "DELETED"
             /\ Respond(Error) /\ UNCHANGED todo
          \/ /\ status[s] = "OTHER"
             /\ todo' = todo \ {s} /\ UNCHANGED <<pc, response>>
          \/ /\ status[s] = "ACTIVE"
             /\ pc' = "bind" /\ UNCHANGED <<todo, response>>
  /\ UNCHANGED <<query, excluded, plans, result>>

(* get_latest_schema of its source, then resolve_logical_ir, bind_altrql   *)
(* and lower: a source without a snapshot is skipped; a source that is     *)
(* gone, and a table or a column the snapshot lacks, fail the request.     *)
BindAndLower ==
  /\ pc = "bind"
  /\ \E s \in todo :
       /\ IsNext(s)
       /\ LET p == Lower(mapping[s], query)
              bound == snapshot[s] # {} /\ PlanColumns(p) \subseteq snapshot[s]
          IN  \/ /\ source[s] = "DELETED" \/ (s \in discovered /\ ~bound)
                 /\ Respond(Error) /\ UNCHANGED <<todo, plans>>
              \/ /\ source[s] # "DELETED" /\ s \notin discovered
                 /\ todo' = todo \ {s} /\ pc' = "plan" /\ UNCHANGED <<plans, response>>
              \/ /\ source[s] # "DELETED" /\ s \in discovered /\ bound
                 /\ plans' = [t \in Planned \cup {s} |-> IF t = s THEN p ELSE plans[t]]
                 /\ todo' = todo \ {s} /\ pc' = "plan" /\ UNCHANGED response
  /\ UNCHANGED <<query, excluded, result>>

FinishPlan ==
  /\ pc = "plan" /\ todo = {}
  /\ IF Planned = {} THEN Respond(Error) ELSE pc' = "execute" /\ UNCHANGED response
  /\ UNCHANGED <<query, todo, excluded, plans, result>>

(* Path B: every ACTIVE source whose snapshot has the entity takes part,   *)
(* under an ephemeral mapping that renames nothing.  A wildcard stands for *)
(* the columns all of them have; with a projection, those that lack one of *)
(* its fields are excluded.                                                *)
ActiveSources == {s \in Source : source[s] = "ACTIVE"}
Matching == {s \in ActiveSources : snapshot[s] # {}}
Participating == {s \in Matching : query.fields \subseteq snapshot[s]}
CanonicalFields ==
  IF IsWildcard(query) THEN {n \in Name : \A s \in Matching : n \in snapshot[s]}
  ELSE query.fields
EphemeralMapping ==
  LET fields == SetToSeq(CanonicalFields)
  IN  [i \in DOMAIN fields |-> [logical |-> fields[i], physical |-> fields[i]]]

Discover ==
  /\ pc = "discover"
  /\ LET p == Lower(EphemeralMapping, query)
     IN  IF \/ Participating = {} \/ CanonicalFields = {}
            \/ \E s \in Participating : ~(PlanColumns(p) \subseteq snapshot[s])
         THEN Respond(Error) /\ UNCHANGED <<excluded, plans>>
         ELSE /\ pc' = "execute"
              /\ plans' = [s \in Participating |-> p]
              /\ excluded' = ActiveSources \ Participating
              /\ UNCHANGED response
  /\ UNCHANGED <<query, todo, result>>

(* What the database of a source answers: the rows of the filter in an     *)
(* order that respects ORDER BY, up to LIMIT.  Rows that tie may come in   *)
(* any order; without a sort the lowering orders by the primary key.       *)
Answers(s, p) ==
  LET row(i) == table[s][i]
      rows == {i \in DOMAIN table[s] : \A c \in p.where : row(i)[c] # None}
      sorted == {a \in SetToSeqs(rows) :
                   \A i, j \in DOMAIN a : i < j =>
                     IF p.sort = <<>> THEN a[i] < a[j] ELSE ~Before(p.sort, row(a[j]), row(a[i]))}
  IN  {SubSeq(a, 1, IF p.limit = 0 THEN Len(a) ELSE Min({Len(a), p.limit})) : a \in sorted}

Selected(s, p, row) ==
  IF p.select = {} THEN [c \in columns[s] |-> row[c]]
  ELSE [n \in {x.as : x \in p.select} |-> row[(CHOOSE x \in p.select : x.as = n).column]]

(* The rows are kept under their logical names, to which the merge turns   *)
(* them.                                                                   *)
Execute(s) ==
  /\ pc = "execute" /\ s \in Planned /\ result[s] = Pending
  /\ source[s] # "DELETED"
  /\ columns[s] # {} /\ PlanColumns(plans[s]) \subseteq columns[s]
  /\ \E a \in Answers(s, plans[s]) :
       result' = [result EXCEPT ![s] =
                    [state |-> "ok",
                     rows |-> [i \in DOMAIN a |->
                        [source |-> s, at |-> a[i],
                         row |-> NormalizeRow(plans[s].mapping, ColumnOrder,
                                   Selected(s, plans[s], table[s][a[i]]))]]]]
  /\ UNCHANGED <<pc, query, todo, excluded, plans, response>>

(* The source is gone, unreachable or slow, or its database refuses the    *)
(* query.                                                                  *)
Fail(s) ==
  /\ pc = "execute" /\ s \in Planned /\ result[s] = Pending
  /\ result' = [result EXCEPT ![s] = Failed]
  /\ UNCHANGED <<pc, query, todo, excluded, plans, response>>

Succeeded == {s \in Planned : result[s].state = "ok"}

(* The rows of all results in one list: source by source, in the order of  *)
(* the plans.                                                              *)
Sent == UNION {{s} \X DOMAIN result[s].rows : s \in Planned}
NotAfter(x, y) == x[1] < y[1] \/ (x[1] = y[1] /\ x[2] <= y[2])
AllRows ==
  LET place(x) == Cardinality({y \in Sent : NotAfter(y, x)})
      at(k) == CHOOSE x \in Sent : place(x) = k
  IN  [k \in 1 .. Cardinality(Sent) |-> result[at(k)[1]].rows[at(k)[2]]]

(* Mutant: gather without the error boundaries raises the first failure.   *)
MergeAllOrNothing ==
  /\ pc = "execute"
  /\ \A s \in Planned : result[s] # Pending
  /\ IF Succeeded # Planned THEN Respond(Error)
     ELSE \E rows \in {AllRows} :
            Respond([state |-> "ok", rows |-> MergeRows(query, rows), included |-> Succeeded,
                     excluded |-> excluded])
  /\ UNCHANGED <<query, todo, excluded, plans, result>>

(* gather has all results.                                                 *)
Merge ==
  /\ pc = "execute"
  /\ \A s \in Planned : result[s] # Pending
  /\ IF Succeeded = {} THEN Respond(Error)
     ELSE \E rows \in {AllRows} :
            Respond([state |-> "ok", rows |-> MergeRows(query, rows), included |-> Succeeded,
                     excluded |-> excluded \cup (Planned \ Succeeded)])
  /\ UNCHANGED <<query, todo, excluded, plans, result>>

Handler ==
  /\ \/ Resolve
     \/ ReadMapping
     \/ BindAndLower
     \/ FinishPlan
     \/ Discover
     \/ Merge
  /\ UNCHANGED <<dataVars, registryVars>>

Answer(s) == (Execute(s) \/ Fail(s)) /\ UNCHANGED <<dataVars, registryVars>>

Next ==
  \/ Environment
  \/ \E q \in Queries : Submit(q) /\ UNCHANGED <<dataVars, registryVars>>
  \/ \E s \in Source : ResolveRaises(s)
  \/ Handler
  \/ \E s \in Source : Answer(s)

(* The event loop runs the handler on; a connector that bounds the time of *)
(* a query comes back, with rows or with an error.                         *)
Fairness == WF_vars(Handler) /\ \A s \in Timed : WF_vars(Answer(s))

Spec == Init /\ [][Next]_vars /\ Fairness

-----------------------------------------------------------------------------
(* Properties *)

(* The column that holds a logical field under a mapping.                  *)
Denotes(m, f) ==
  IF f \in LogicalNames(m) THEN (CHOOSE x \in Range(m) : x.logical = f).physical ELSE f
TrueValue(s, i, f) == table[s][i][Denotes(plans[s].mapping, f)]
TrueRow(x) == [f \in SortFields(query) |-> TrueValue(x[1], x[2], f)]

(* All rows the query asks for, of the sources that answered: the pairs of *)
(* a source and a place in its table.                                      *)
Asked == {x \in UNION {{s} \X DOMAIN table[s] : s \in response.included} :
            \A f \in query.where : TrueValue(x[1], x[2], f) # None}
Precedes(x, y) ==
  IF query.sort # <<>> THEN Before(query.sort, TrueRow(x), TrueRow(y))
  ELSE x[1] < y[1] \/ (x[1] = y[1] /\ x[2] < y[2])

(* What the promise below rests on.  A mapping gives two fields two names  *)
(* and two columns, and no field the name of another one's column; a table *)
(* has no column with the name of a field that is kept elsewhere (the      *)
(* dictionary of normalize_row would mistake it for the field); clients    *)
(* name fields, not columns; and every field of a sort is projected (the   *)
(* merge projects before it sorts).                                        *)
NamesAreApart(m) ==
  \A i, j \in DOMAIN m :
    (\/ m[i].logical = m[j].logical
     \/ m[i].physical = m[j].physical
     \/ m[i].logical = m[j].physical) => i = j
ColumnsAreApart(m, c) == c \cap LogicalNames(m) \subseteq PhysicalNames(m)
NamesFields(q, m) == AllReferencedFields(q) \cap PhysicalNames(m) \subseteq LogicalNames(m)
SortIsProjected(q) == IsWildcard(q) \/ SortFields(q) \subseteq q.fields

NamesAreClear ==
  /\ \A setup \in Setups :
       /\ NamesAreApart(setup.mapping)
       /\ \A c \in Altered \cup {setup.columns} : ColumnsAreApart(setup.mapping, c)
       /\ \A q \in Queries : NamesFields(q, setup.mapping)
  /\ \A q \in Queries : SortIsProjected(q)

(* A successful answer is the page OFFSET, LIMIT of all rows of the        *)
(* sources that answered in the order the query asks for, although every   *)
(* source only sent its first OFFSET + LIMIT rows: rows are distinct, each *)
(* could stand at its place (rows that tie may stand in any order, without *)
(* a sort the order is that of the sources and their keys), none is        *)
(* missing, and each holds the fields asked for with their values.         *)
AnswerIsPage ==
  response.state = "ok" =>
    LET rows == response.rows
        at(k) == <<rows[k].source, rows[k].at>>
        rest == Max({0, Cardinality(Asked) - query.offset})
    IN  /\ Len(rows) = IF query.limit = 0 THEN rest ELSE Min({query.limit, rest})
        /\ \A k \in DOMAIN rows :
             /\ at(k) \in Asked
             /\ \A j \in DOMAIN rows : at(j) = at(k) => j = k
             /\ Cardinality({x \in Asked : Precedes(x, at(k))}) < query.offset + k
             /\ Cardinality({x \in Asked : ~Precedes(at(k), x)}) >= query.offset + k
             /\ query.fields \subseteq DOMAIN rows[k].row
             /\ \A f \in DOMAIN rows[k].row :
                  rows[k].row[f] = TrueValue(rows[k].source, rows[k].at, f)

(* One source that fails takes nothing from the others: once execution has *)
(* begun, the request succeeds if any source does, reports the ones that   *)
(* answered as included and the ones that did not as excluded.             *)
FailureIsIsolated ==
  pc = "done" /\ (\E s \in Planned : result[s] # Pending) =>
    /\ response.state = "ok" <=> Succeeded # {}
    /\ response.state = "ok" =>
         /\ response.included = Succeeded
         /\ Planned \subseteq response.included \cup response.excluded

(* A request is answered, whatever happens to mappings and sources on the  *)
(* way, once every connector bounds the time of a query: gather waits for  *)
(* all of them.                                                            *)
Answered == pc = "resolve" ~> pc = "done"
===============================================================================
