---------------------------- MODULE MappingRegistry ----------------------------
(***************************************************************************)
(* The mapping registry of a node (RegistryService over                    *)
(* SqliteRegistryRepository): the source mappings of one logical model,    *)
(* their life cycle DRAFT -> VALIDATED -> ACTIVE (or ERROR), and the HTTP  *)
(* requests that work on them concurrently.                                *)
(*                                                                         *)
(* Every request has a database session of its own (get_session), which    *)
(* commits when the handler returns.  On SQLite the statements before the  *)
(* first write run outside a transaction, each on the latest committed     *)
(* rows; the first write takes the database's only write lock and keeps it *)
(* up to the commit.  Hence a request is a few reads, each a step, and one *)
(* atomic write step.  The session refers to loaded rows weakly, so        *)
(* update_source_mapping reads its row afresh; its UPDATE then writes the  *)
(* columns in which the handler's copy differs from that read.             *)
(*                                                                         *)
(* A field mapping is identified with the column it maps: it is good when  *)
(* its logical field exists and the physical schema has the column with a  *)
(* compatible type.  An entity mapping is a set of field mappings, the     *)
(* content of a source mapping a set of entity mappings.                   *)
(***************************************************************************)
EXTENDS Functions, TLC

CONSTANTS
  Mapping,      \* bound: the ids of the mappings that are ever created
  Source,       \* the registered sources
  Version,      \* the version strings a client uses
  Field,        \* the field mappings a client uses
  Bodies,       \* the lists of entity mappings a client sends
  Sessions,     \* the requests that are handled at the same time
  Ops,          \* the operations of the API the clients call
  PutStatuses   \* the statuses they send in the body of a POST or PUT

Statuses == {"DRAFT", "VALIDATED", "ACTIVE", "ERROR"}
AllOps == {"create", "ingest", "version", "status", "replace", "add_entity",
           "delete_entity", "add_field", "delete_field", "validate", "activate",
           "delete", "logical", "sources"}

ASSUME RegistryAssumption ==
  /\ Bodies \subseteq SUBSET (SUBSET Field)
  /\ Ops \subseteq AllOps
  /\ PutStatuses \subseteq Statuses

VARIABLES
  model,      \* the row of the logical model exists
  logical,    \* its logical fields
  sources,    \* the rows of the sources table
  physical,   \* what the database of each source really holds
  snapshot,   \* its latest schema snapshot: {}, or the set of that one schema
  used,       \* the ids handed out so far (they are UUIDs, never reused)
  mappings,   \* the rows of source_mappings, by id
  content,    \* entity_mappings and field_mappings, by source_mapping_id
  session,    \* the locals of each request
  checked,    \* observation: the content that passed the last validation
  tainted     \* history: the mappings whose status rests on something else

registryVars == <<mappings, content, checked, tainted>>
schemaVars == <<model, logical, sources, physical, snapshot>>
vars == <<model, logical, sources, physical, snapshot, used, mappings, content,
          session, checked, tainted>>

Content == SUBSET (SUBSET Field)
Row == [source : Source, version : Version, status : Statuses]
present == DOMAIN mappings

(* The locals of a handler: its operation, the mapping it works on, the    *)
(* row as it will be written (target), the content it loaded or was given  *)
(* (body), the logical fields a validation read (known), the rows of the   *)
(* mappings it demotes (others), and the row the repository selected       *)
(* before the first write (base, the row of first).                        *)
Rows == UNION {[S -> Row] : S \in SUBSET Mapping}
Idle == [pc |-> "idle"]
Local == [pc : {"insert", "add_entity", "validate", "list", "select"},
          op : AllOps, m : Mapping, target : Row, body : Content,
          known : SUBSET Field, others : Rows]
Saving == [pc : {"save"}, op : AllOps, m : Mapping, target : Row, body : Content,
           known : SUBSET Field, others : Rows, first : Mapping, base : Row]

TypeOK ==
  /\ model \in BOOLEAN
  /\ logical \subseteq Field
  /\ sources \subseteq Source
  /\ physical \in [Source -> SUBSET Field]
  /\ snapshot \in [Source -> SUBSET (SUBSET Field)]
  /\ used \subseteq Mapping
  /\ present \subseteq used
  /\ mappings \in [present -> Row]
  /\ content \in [Mapping -> Content]
  /\ checked \in [Mapping -> Content]
  /\ tainted \subseteq Mapping
  /\ session \in [Sessions -> {Idle} \cup Local \cup Saving]

Init ==
  /\ model = TRUE
  /\ logical = Field
  /\ sources = Source
  /\ physical = [s \in Source |-> Field]
  /\ snapshot = [s \in Source |-> {}]
  /\ used = {}
  /\ mappings = <<>>
  /\ content = [m \in Mapping |-> {}]
  /\ checked = [m \in Mapping |-> {}]
  /\ tainted = {}
  /\ session = [r \in Sessions |-> Idle]

-----------------------------------------------------------------------------
(* Requests *)

Free(r, op) == op \in Ops /\ session[r].pc = "idle"
Return(r) == session' = [session EXCEPT ![r] = Idle]

(* A handler of operation op has read its mapping m and goes on at pc.     *)
Continue(r, op, pc, m, target, body) ==
  session' = [session EXCEPT ![r] = [pc |-> pc, op |-> op, m |-> m, target |-> target,
                                     body |-> body,
                                     known |-> IF op = "validate" THEN logical ELSE {},
                                     others |-> <<>>]]
ReadsOnly == UNCHANGED <<schemaVars, registryVars, used>>

(* History.  A write taints the rows that another request has loaded, and  *)
(* the mapping whose VALIDATED the client sent; a validation of the very   *)
(* content that is there, with no other request on the mapping, clears it. *)
Loaded(r) ==
  IF session[r].pc = "idle" THEN {} ELSE {session[r].m} \cup DOMAIN session[r].others
Overlapped(r) == UNION {Loaded(q) : q \in Sessions \ {r}}
Vouched(r, status) ==
  {m \in {session[r].m} : /\ session[r].op = "validate" /\ status = "VALIDATED"
                          /\ session[r].body = content[m]}
SentByClient(r, status) ==
  {m \in {session[r].m} : session[r].op \in {"create", "status"} /\ status = "VALIDATED"}
Written(r, rows, status) ==
  tainted' = (tainted \ Vouched(r, status)) \cup SentByClient(r, status)
               \cup (rows \cap Overlapped(r))

(* create_source_mapping: the model and the source exist, no mapping of    *)
(* the pair has this version; ACTIVE is not accepted as an initial status. *)
InitialStatus(st) == IF st = "ACTIVE" THEN "DRAFT" ELSE st
VersionTaken(s, v) ==
  \E m \in present : mappings[m].source = s /\ mappings[m].version = v
CreateCheck(r, m, s, v, st, c) ==
  /\ Free(r, "create") /\ m \notin used
  /\ model /\ s \in sources
  /\ ~VersionTaken(s, v)
  /\ st \in PutStatuses \cup {"DRAFT"}
  /\ used' = used \cup {m}
  /\ Continue(r, "create", "insert", m,
              [source |-> s, version |-> v, status |-> InitialStatus(st)], c)
  /\ UNCHANGED <<schemaVars, registryVars>>

(* ingest_align_suggestions.                                               *)
IngestCheck(r, m, s, v, c) ==
  /\ Free(r, "ingest") /\ m \notin used
  /\ model /\ s \in sources
  /\ used' = used \cup {m}
  /\ Continue(r, "ingest", "insert", m,
              [source |-> s, version |-> v, status |-> "DRAFT"], c)
  /\ UNCHANGED <<schemaVars, registryVars>>

Insert(r) ==
  LET m == session[r].m
  IN /\ session[r].pc = "insert"
     /\ mappings' = [i \in present \cup {m} |->
                       IF i = m THEN session[r].target ELSE mappings[i]]
     /\ content' = [content EXCEPT ![m] = session[r].body]
     /\ Written(r, {m}, session[r].target.status)
     /\ Return(r)
     /\ UNCHANGED <<schemaVars, used, checked>>

(* update_source_mapping, with or without a new version: without           *)
(* entity_mappings and without status, ...                                 *)
NewVersion(m) == {mappings[m].version} \cup (IF "version" \in Ops THEN Version ELSE {})
UpdateVersion(r, m, v) ==
  /\ Free(r, "version") /\ m \in present /\ v \in NewVersion(m)
  /\ Continue(r, "version", "select", m, [mappings[m] EXCEPT !.version = v], {})
  /\ ReadsOnly

(* ... with a status, which other mappings have no part in, ...            *)
UpdateStatus(r, m, v, st) ==
  /\ Free(r, "status") /\ m \in present /\ v \in NewVersion(m)
  /\ st \in PutStatuses
  /\ st = "ACTIVE" => mappings[m].status = "VALIDATED"
  /\ Continue(r, "status", "select", m,
              [mappings[m] EXCEPT !.version = v, !.status = st], {})
  /\ ReadsOnly

(* Mutant: new content, old status.                                        *)
ReplaceKeepsStatus(r, m, v, c) ==
  /\ Free(r, "replace") /\ m \in present /\ v \in NewVersion(m) /\ model
  /\ Continue(r, "replace", "select", m, [mappings[m] EXCEPT !.version = v], c)
  /\ ReadsOnly

(* ... and with entity_mappings, when a status in the body is ignored.     *)
ReplaceContent(r, m, v, c) ==
  /\ Free(r, "replace") /\ m \in present /\ v \in NewVersion(m) /\ model
  /\ Continue(r, "replace", "select", m,
              [mappings[m] EXCEPT !.version = v, !.status = "DRAFT"], c)
  /\ ReadsOnly

(* add_entity_mapping: the insert takes the write lock, so the reset to    *)
(* DRAFT that follows it selects and writes in the same transaction.       *)
AddEntityLoad(r, m, em) ==
  /\ Free(r, "add_entity") /\ m \in present /\ model
  /\ Continue(r, "add_entity", "add_entity", m,
              [mappings[m] EXCEPT !.status = "DRAFT"], {em})
  /\ ReadsOnly
AddEntity(r) ==
  LET m == session[r].m
  IN /\ session[r].pc = "add_entity" /\ m \in present
     /\ mappings' = [mappings EXCEPT ![m] = session[r].target]
     /\ content' = [content EXCEPT ![m] = @ \cup session[r].body]
     /\ Written(r, {m}, session[r].target.status)
     /\ Return(r)
     /\ UNCHANGED <<schemaVars, used, checked>>

(* delete_entity_mapping, add_field_mapping and delete_field_mapping write *)
(* one row of a child table and nothing else.                              *)
EditContent(m, c) ==
  /\ content' = [content EXCEPT ![m] = c]
  /\ tainted' = tainted \cup {m}
  /\ UNCHANGED <<schemaVars, used, mappings, checked, session>>
DeleteEntity(r, m, em) ==
  /\ Free(r, "delete_entity") /\ em \in content[m]
  /\ EditContent(m, content[m] \ {em})
AddField(r, m, em, f) ==
  /\ Free(r, "add_field") /\ em \in content[m]
  /\ f \in logical \ em
  /\ EditContent(m, (content[m] \ {em}) \cup {em \cup {f}})
DeleteField(r, m, em, f) ==
  /\ Free(r, "delete_field") /\ em \in content[m]
  /\ f \in em
  /\ EditContent(m, (content[m] \ {em}) \cup {em \ {f}})

(* validate_source_mapping.  The mapping and the model are read first ...  *)
ValidateLoad(r, m) ==
  /\ Free(r, "validate") /\ m \in present /\ model
  /\ Continue(r, "validate", "validate", m, mappings[m], content[m])
  /\ ReadsOnly

(* Mutant: a failed check is reported by a status that does not exist.     *)
InvalidVerdict(c, schema) ==
  IF c # {} /\ (\A em \in c : em # {} /\ em \subseteq schema) THEN "VALIDATED"
  ELSE "INVALID"
(* ... then the source and its schema, against which every field mapping   *)
(* is checked.                                                             *)
Verdict(c, schema) ==
  CASE c = {} -> "DRAFT"
    [] c # {} /\ (\A em \in c : em # {} /\ em \subseteq schema) -> "VALIDATED"
    [] OTHER -> "ERROR"
Judged(r, verdict) ==
  session' = [session EXCEPT ![r].pc = "select", ![r].target.status = verdict]

ValidateCheck(r) ==
  LET s == session[r].target.source
  IN /\ session[r].pc = "validate"
     /\ \/ s \notin sources /\ Judged(r, "ERROR")
        \/ /\ s \in sources
           /\ \E schema \in snapshot[s] :
                Judged(r, Verdict(session[r].body, schema \cap session[r].known))
     /\ ReadsOnly

(* Without a snapshot the schema is discovered.  When that fails the       *)
(* verdict is ERROR.  When it succeeds the new snapshot is the first write *)
(* of the session, and the mapping is selected and written under the lock. *)
Undiscovered(r) ==
  /\ session[r].pc = "validate"
  /\ session[r].target.source \in sources
  /\ snapshot[session[r].target.source] = {}
ValidateUnreachable(r) ==
  Undiscovered(r) /\ Judged(r, "ERROR") /\ ReadsOnly
ValidateDiscover(r) ==
  LET m == session[r].m
      s == session[r].target.source
      verdict == Verdict(session[r].body, physical[s] \cap session[r].known)
  IN /\ Undiscovered(r) /\ m \in present
     /\ snapshot' = [snapshot EXCEPT ![s] = {physical[s]}]
     /\ mappings' = [mappings EXCEPT ![m] = [session[r].target EXCEPT !.status = verdict]]
     /\ checked' = [checked EXCEPT ![m] = IF verdict = "VALIDATED"
                                          THEN session[r].body ELSE @]
     /\ Written(r, {m}, verdict)
     /\ Return(r)
     /\ UNCHANGED <<model, logical, sources, physical, used, content>>

(* activate_source_mapping: only a VALIDATED mapping; the ACTIVE mappings  *)
(* of the same source are listed, to be demoted to VALIDATED.              *)
ActivateLoad(r, m) ==
  /\ Free(r, "activate") /\ m \in present
  /\ mappings[m].status = "VALIDATED"
  /\ Continue(r, "activate", "list", m, [mappings[m] EXCEPT !.status = "ACTIVE"], {})
  /\ ReadsOnly
(* Mutant: nothing is demoted.                                             *)
NoOthers(r) == {}
(* Mutant: the mappings of every source are demoted.                       *)
AnyActive(r) == {m \in present \ {session[r].m} : mappings[m].status = "ACTIVE"}
OtherActive(r) ==
  {m \in present \ {session[r].m} : /\ mappings[m].source = session[r].target.source
                                    /\ mappings[m].status = "ACTIVE"}
ActivateList(r) ==
  /\ session[r].pc = "list"
  /\ session' = [session EXCEPT
       ![r].pc = "select",
       ![r].others = [m \in OtherActive(r) |-> [mappings[m] EXCEPT !.status = "VALIDATED"]]]
  /\ ReadsOnly

(* update_source_mapping of the repository, called for the mappings to be  *)
(* demoted and then for the mapping itself: the row is selected, a missing *)
(* row ends the request, ...                                               *)
Saved(r) == DOMAIN session[r].others \cup {session[r].m}
SelectRow(r) ==
  /\ session[r].pc = "select"
  /\ \E i \in IF DOMAIN session[r].others = {} THEN {session[r].m}
              ELSE DOMAIN session[r].others :
       IF i \in present
       THEN session' = [session EXCEPT ![r] =
              [pc |-> "save", op |-> @.op, m |-> @.m, target |-> @.target, body |-> @.body,
               known |-> @.known, others |-> @.others, first |-> i, base |-> mappings[i]]]
       ELSE Return(r)
  /\ ReadsOnly

(* ... and the columns in which it differs from the handler's copy are     *)
(* written.  From the second row on, the select is inside the transaction. *)
Flush(base, target, current) ==
  [source  |-> current.source,
   version |-> IF target.version = base.version THEN current.version ELSE target.version,
   status  |-> IF target.status = base.status THEN current.status ELSE target.status]
Wanted(r, i) == IF i = session[r].m THEN session[r].target ELSE session[r].others[i]
Selected(r, i) == IF i = session[r].first THEN session[r].base ELSE mappings[i]
(* Mutant: the write inserts a row that is no longer there.                *)
Upsert(r) ==
  /\ session[r].pc = "save"
  /\ mappings' = [i \in present \cup Saved(r) |->
                    IF i \in Saved(r) THEN Wanted(r, i) ELSE mappings[i]]
  /\ Return(r)
  /\ UNCHANGED <<schemaVars, used, content, checked, tainted>>
Save(r) ==
  LET m == session[r].m
      op == session[r].op
  IN /\ session[r].pc = "save" /\ Saved(r) \subseteq present
     /\ mappings' = [i \in present |->
          IF i \in Saved(r) THEN Flush(Selected(r, i), Wanted(r, i), mappings[i])
          ELSE mappings[i]]
     /\ content' = [content EXCEPT ![m] = IF op = "replace" THEN session[r].body ELSE @]
     /\ checked' = [checked EXCEPT ![m] =
          IF op = "validate" /\ session[r].target.status = "VALIDATED"
          THEN session[r].body ELSE @]
     /\ Written(r, Saved(r), session[r].target.status)
     /\ Return(r)
     /\ UNCHANGED <<schemaVars, used>>

(* A request fails: the database stays locked beyond the busy timeout, a   *)
(* row is gone when it is written.  The session rolls back.                *)
Abort(r) ==
  /\ session[r].pc # "idle"
  /\ Return(r)
  /\ ReadsOnly

(* delete_source_mapping and delete_model delete one row by a statement;   *)
(* foreign keys are not enforced on the connection, so nothing cascades.   *)
Delete(r, m) ==
  /\ Free(r, "delete") /\ m \in present
  /\ mappings' = Restrict(mappings, present \ {m})
  /\ checked' = [checked EXCEPT ![m] = {}]
  /\ tainted' = tainted \cup ({m} \cap Overlapped(r))
  /\ UNCHANGED <<schemaVars, used, content, session>>
DeleteModel(r) ==
  /\ Free(r, "delete") /\ model
  /\ model' = FALSE
  /\ UNCHANGED <<logical, sources, physical, snapshot, registryVars, used, session>>

-----------------------------------------------------------------------------
(* The logical fields, the sources and the databases behind them *)

LogicalVars == <<model, sources, physical, snapshot, registryVars, used, session>>
DeleteLogicalField(r, f) ==
  /\ Free(r, "logical") /\ f \in logical
  /\ logical' = logical \ {f}
  /\ UNCHANGED LogicalVars
AddLogicalField(r, f) ==
  /\ Free(r, "logical") /\ model /\ f \notin logical
  /\ logical' = logical \cup {f}
  /\ UNCHANGED LogicalVars

DeleteSource(r, s) ==
  /\ Free(r, "sources") /\ s \in sources
  /\ sources' = sources \ {s}
  /\ UNCHANGED <<model, logical, physical, snapshot, registryVars, used, session>>
DiscoverSchema(r, s) ==
  /\ Free(r, "sources") /\ s \in sources
  /\ snapshot' = [snapshot EXCEPT ![s] = {physical[s]}]
  /\ UNCHANGED <<model, logical, sources, physical, registryVars, used, session>>
Drift(s, schema) ==
  /\ "sources" \in Ops
  /\ physical' = [physical EXCEPT ![s] = schema]
  /\ UNCHANGED <<model, logical, sources, snapshot, registryVars, used, session>>

-----------------------------------------------------------------------------
CreateRequest(r) ==
  \E m \in Mapping, s \in Source, v \in Version, c \in Bodies :
    \/ \E st \in Statuses : CreateCheck(r, m, s, v, st, c)
    \/ IngestCheck(r, m, s, v, c)
UpdateRequest(r) ==
  \E m \in Mapping :
    \/ \E v \in Version : UpdateVersion(r, m, v)
    \/ \E v \in Version, st \in Statuses : UpdateStatus(r, m, v, st)
    \/ \E v \in Version, c \in Bodies : ReplaceContent(r, m, v, c)
    \/ \E em \in UNION Bodies : AddEntityLoad(r, m, em)
    \/ \E em \in SUBSET Field : DeleteEntity(r, m, em)
    \/ \E em \in SUBSET Field, f \in Field : AddField(r, m, em, f)
    \/ \E em \in SUBSET Field, f \in Field : DeleteField(r, m, em, f)
    \/ ValidateLoad(r, m)
    \/ ActivateLoad(r, m)
    \/ Delete(r, m)
Handle(r) ==
  \/ Insert(r) \/ AddEntity(r)
  \/ ValidateCheck(r) \/ ValidateUnreachable(r) \/ ValidateDiscover(r)
  \/ ActivateList(r) \/ SelectRow(r) \/ Save(r) \/ Abort(r)
SchemaRequest(r) ==
  \/ DeleteModel(r)
  \/ \E f \in Field : DeleteLogicalField(r, f)
  \/ \E f \in Field : AddLogicalField(r, f)
  \/ \E s \in Source : DeleteSource(r, s)
  \/ \E s \in Source : DiscoverSchema(r, s)

Next ==
  \/ \E r \in Sessions :
       CreateRequest(r) \/ UpdateRequest(r) \/ Handle(r) \/ SchemaRequest(r)
  \/ \E s \in Source, schema \in SUBSET Field : Drift(s, schema)

Spec == Init /\ [][Next]_vars

Symmetry == Permutations(Mapping) \cup Permutations(Source) \cup Permutations(Version)
            \cup Permutations(Sessions)

-----------------------------------------------------------------------------
(* Properties *)

ActiveOf(s) == {m \in present : mappings[m].source = s /\ mappings[m].status = "ACTIVE"}

(* At most one ACTIVE mapping for a pair of a logical model and a source,  *)
(* the invariant activate_source_mapping names: with two, a federated      *)
(* query reads the same source twice.                                      *)
OneActive == \A s \in Source : \A m, n \in ActiveOf(s) : m = n

(* A mapping leaves service for another one: unless it is validated again, *)
(* an ACTIVE mapping becomes VALIDATED only in the commit that makes       *)
(* another mapping of the same source ACTIVE, so that activation takes no  *)
(* source out of service and touches no other source.                      *)
HandOver ==
  [][\A m \in DOMAIN mappings \cap DOMAIN mappings' :
       mappings[m].status = "ACTIVE" /\ mappings'[m].status = "VALIDATED" =>
         \/ \E n \in DOMAIN mappings' : /\ mappings'[n].source = mappings[m].source
                                        /\ mappings'[n].status = "ACTIVE"
         \/ \E r \in Sessions : /\ session[r].pc \in {"validate", "save"}
                                /\ session[r].op = "validate" /\ session[r].m = m]_vars

(* A mapping that is VALIDATED or ACTIVE has the content that passed       *)
(* validation, unless it is tainted: since that validation a client sent   *)
(* the status itself or edited an entity or field in place, which leave    *)
(* it in service, or a request wrote it that another one had loaded.       *)
(* Every other history, of any operations, keeps what is in service        *)
(* checked, and a validation by one request alone mends the tainted ones.  *)
ActiveIsChecked ==
  \A m \in present \ tainted :
    mappings[m].status \in {"VALIDATED", "ACTIVE"} =>
      content[m] = checked[m] /\ checked[m] # {}

(* A deleted mapping stays deleted, whatever requests had loaded it before *)
(* it was deleted: no late save brings the row back.                       *)
DeletedForGood ==
  [][\A m \in used \ present : m \in DOMAIN mappings' => \E r \in Sessions :
        session[r].pc = "insert" /\ session[r].m = m]_vars

=============================================================================
