------------------------- MODULE MappingRegistryProofs -------------------------
(***************************************************************************)
(* Theorems about the mapping registry, for any sets of mappings, sources, *)
(* versions, fields and concurrent requests.                               *)
(***************************************************************************)
EXTENDS MappingRegistry, TLAPS

(* No step but Insert, which creates a mapping, adds a row to              *)
(* source_mappings: a save writes rows that are there, or fails.           *)
LEMMA OnlyInsertAdds ==
  ASSUME NEW r \in Sessions, CreateRequest(r) \/ UpdateRequest(r) \/ Handle(r)
                               \/ SchemaRequest(r)
  PROVE  \/ DOMAIN mappings' \subseteq present
         \/ /\ session[r].pc = "insert"
            /\ DOMAIN mappings' = present \cup {session[r].m}
<1>1. CASE CreateRequest(r)
  BY <1>1 DEF CreateRequest, CreateCheck, IngestCheck, registryVars, present
<1>2. CASE SchemaRequest(r)
  BY <1>2 DEF SchemaRequest, DeleteModel, DeleteLogicalField, AddLogicalField,
     DeleteSource, DiscoverSchema, LogicalVars, registryVars, present
<1>3. CASE UpdateRequest(r)
  <2>1. PICK m \in Mapping :
          \/ \E v \in Version : UpdateVersion(r, m, v)
          \/ \E v \in Version, st \in Statuses : UpdateStatus(r, m, v, st)
          \/ \E v \in Version, c \in Bodies : ReplaceContent(r, m, v, c)
          \/ \E em \in UNION Bodies : AddEntityLoad(r, m, em)
          \/ \E em \in SUBSET Field : DeleteEntity(r, m, em)
          \/ \E em \in SUBSET Field, f \in Field : AddField(r, m, em, f)
          \/ \E em \in SUBSET Field, f \in Field : DeleteField(r, m, em, f)
          \/ ValidateLoad(r, m)
          \/ ActivateLoad(r, m)
          \/ Delete(r, m)
    BY <1>3 DEF UpdateRequest
  <2>2. CASE Delete(r, m)
    BY <2>2 DEF Delete, Restrict, present
  <2>3. CASE ~Delete(r, m)
    <3>1. mappings' = mappings
      BY <2>1, <2>3 DEF UpdateVersion, UpdateStatus, ReplaceContent, AddEntityLoad,
         DeleteEntity, AddField, DeleteField, EditContent, ValidateLoad, ActivateLoad,
         ReadsOnly, registryVars
    <3> QED BY <3>1 DEF present
  <2> QED BY <2>2, <2>3
<1>4. CASE Handle(r)
  <2>1. CASE Insert(r)
    BY <2>1 DEF Insert, present
  <2>2. CASE AddEntity(r)
    BY <2>2 DEF AddEntity, present
  <2>3. CASE ValidateDiscover(r)
    BY <2>3 DEF ValidateDiscover, present
  <2>4. CASE Save(r)
    BY <2>4 DEF Save, present
  <2>5. CASE \/ ValidateCheck(r) \/ ValidateUnreachable(r) \/ ActivateList(r)
             \/ SelectRow(r) \/ Abort(r)
    <3>1. mappings' = mappings
      BY <2>5 DEF ValidateCheck, ValidateUnreachable, ActivateList, SelectRow, Abort,
         ReadsOnly, registryVars
    <3> QED BY <3>1 DEF present
  <2> QED BY <1>4, <2>1, <2>2, <2>3, <2>4, <2>5 DEF Handle
<1> QED BY <1>1, <1>2, <1>3, <1>4

(* A deleted mapping stays deleted: however requests interleave with its   *)
(* deletion, only the request that creates a mapping brings its row.       *)
THEOREM DeletedMappingsStayDeleted == Spec => DeletedForGood
<1> DEFINE A == \A m \in used \ present : m \in DOMAIN mappings' =>
                  \E r \in Sessions : session[r].pc = "insert" /\ session[r].m = m
<1>1. ASSUME Next PROVE A
  <2>1. CASE \E s \in Source, schema \in SUBSET Field : Drift(s, schema)
    <3>1. mappings' = mappings
      BY <2>1 DEF Drift, registryVars
    <3> QED BY <3>1 DEF present
  <2>2. CASE \E r \in Sessions : CreateRequest(r) \/ UpdateRequest(r) \/ Handle(r)
                                   \/ SchemaRequest(r)
    <3>1. PICK r \in Sessions : CreateRequest(r) \/ UpdateRequest(r) \/ Handle(r)
                                  \/ SchemaRequest(r)
      BY <2>2
    <3>2. \/ DOMAIN mappings' \subseteq present
          \/ /\ session[r].pc = "insert"
             /\ DOMAIN mappings' = present \cup {session[r].m}
      BY <3>1, OnlyInsertAdds
    <3> QED BY <3>2
  <2> QED BY <1>1, <2>1, <2>2 DEF Next
<1>2. [Next]_vars => [A]_vars
  BY <1>1
<1> QED BY <1>2, PTL DEF Spec, DeletedForGood

-----------------------------------------------------------------------------
(* Types *)

State == {"insert", "add_entity", "validate", "list", "select"}

(* The three parts of TypeOK that actions change separately.               *)
SchemaTyped ==
  /\ model \in BOOLEAN
  /\ logical \subseteq Field
  /\ sources \subseteq Source
  /\ physical \in [Source -> SUBSET Field]
  /\ snapshot \in [Source -> SUBSET (SUBSET Field)]
RegistryTyped ==
  /\ used \subseteq Mapping
  /\ present \subseteq used
  /\ mappings \in [present -> Row]
  /\ content \in [Mapping -> Content]
  /\ checked \in [Mapping -> Content]
  /\ tainted \subseteq Mapping
SessionTyped == session \in [Sessions -> {Idle} \cup Local \cup Saving]

(* TypeOK is the conjunction of the three.                                 *)
LEMMA Parts ==
  /\ TypeOK <=> SchemaTyped /\ RegistryTyped /\ SessionTyped
  /\ TypeOK' <=> SchemaTyped' /\ RegistryTyped' /\ SessionTyped'
BY DEF TypeOK, SchemaTyped, RegistryTyped, SessionTyped

(* A row with another version and another status is a row.                 *)
LEMMA RowWith ==
  ASSUME NEW row \in Row, NEW v \in Version, NEW st \in Statuses
  PROVE  [row EXCEPT !.version = v, !.status = st] \in Row
BY DEF Row

(* The locals of a handler that has just loaded its mapping.               *)
LEMMA LocalsTyped ==
  ASSUME NEW pc \in State, NEW op \in AllOps, NEW m \in Mapping, NEW target \in Row,
         NEW body \in Content, NEW known \in SUBSET Field
  PROVE  [pc |-> pc, op |-> op, m |-> m, target |-> target, body |-> body,
          known |-> known, others |-> <<>>] \in Local
<1>1. <<>> \in [{} -> Row]
  OBVIOUS
<1>2. <<>> \in Rows
  BY <1>1 DEF Rows
<1> QED BY <1>2 DEF Local, State

(* A save keeps the source of a row, and gives it the status the handler   *)
(* wants when the row is the one that was selected.                        *)
LEMMA FlushTyped ==
  ASSUME NEW base \in Row, NEW target \in Row, NEW current \in Row
  PROVE  /\ Flush(base, target, current) \in Row
         /\ Flush(base, target, current).source = current.source
         /\ base = current => Flush(base, target, current).status = target.status
BY DEF Row, Flush

(* A validation ends in a status that exists.                              *)
LEMMA VerdictTyped ==
  ASSUME NEW c, NEW schema PROVE Verdict(c, schema) \in Statuses
BY DEF Verdict, Statuses

(* A handler that goes on keeps its session well typed.                    *)
LEMMA ContinueTyped ==
  ASSUME SessionTyped, logical \subseteq Field, NEW r \in Sessions,
         NEW pc \in State, NEW op \in AllOps, NEW m \in Mapping, NEW target \in Row,
         NEW body \in Content, Continue(r, op, pc, m, target, body)
  PROVE  SessionTyped'
<1> DEFINE known == IF op = "validate" THEN logical ELSE {}
<1>1. [pc |-> pc, op |-> op, m |-> m, target |-> target, body |-> body,
       known |-> known, others |-> <<>>] \in Local
  BY LocalsTyped
<1> QED BY <1>1 DEF Continue, SessionTyped

(* So does a handler that returns.                                         *)
LEMMA ReturnTyped ==
  ASSUME SessionTyped, NEW r \in Sessions, Return(r) PROVE SessionTyped'
BY DEF Return, SessionTyped

(* What the locals of a busy session are.                                  *)
LEMMA BusyTyped ==
  ASSUME SessionTyped, NEW r \in Sessions, session[r].pc # "idle"
  PROVE  /\ session[r].pc \in State \cup {"save"}
         /\ session[r].op \in AllOps
         /\ session[r].m \in Mapping
         /\ session[r].target \in Row
         /\ session[r].body \in Content
         /\ session[r].known \in SUBSET Field
         /\ session[r].others \in Rows
         /\ session[r].pc # "save" => session[r] \in Local
         /\ session[r].pc = "save" => /\ session[r] \in Saving
                                      /\ session[r].first \in Mapping
                                      /\ session[r].base \in Row
<1>1. session[r] \in Local \/ session[r] \in Saving
  BY DEF SessionTyped, Idle
<1> QED BY <1>1 DEF Local, Saving, State

(* The rows of the mappings to be demoted.                                 *)
LEMMA OthersTyped ==
  ASSUME NEW o \in Rows
  PROVE  /\ DOMAIN o \subseteq Mapping
         /\ \A i \in DOMAIN o : o[i] \in Row
BY DEF Rows

(* What the requests have loaded, and so what a write taints, are mappings. *)
LEMMA HistoryTyped ==
  ASSUME SessionTyped, tainted \subseteq Mapping, NEW r \in Sessions
  PROVE  /\ Overlapped(r) \subseteq Mapping
         /\ \A rows, status : session[r].pc # "idle" /\ Written(r, rows, status) =>
              tainted' \subseteq Mapping
<1>1. ASSUME NEW q \in Sessions PROVE Loaded(q) \subseteq Mapping
  BY BusyTyped, OthersTyped DEF Loaded
<1>2. Overlapped(r) \subseteq Mapping
  BY <1>1 DEF Overlapped
<1>3. session[r].pc # "idle" => session[r].m \in Mapping
  BY BusyTyped
<1> QED BY <1>2, <1>3 DEF Written, Vouched, SentByClient

(* A verdict changes the program counter and the status, nothing else.     *)
LEMMA JudgedTyped ==
  ASSUME SessionTyped, NEW r \in Sessions, session[r].pc = "validate",
         NEW verdict \in Statuses, Judged(r, verdict)
  PROVE  SessionTyped'
<1>1. session[r] \in Local
  BY BusyTyped
<1>2. [session[r].target EXCEPT !.status = verdict] \in Row
  BY <1>1 DEF Local, Row
<1>3. session'[r] = [session[r] EXCEPT !.pc = "select",
                       !.target = [session[r].target EXCEPT !.status = verdict]]
  BY <1>1 DEF Judged, SessionTyped, Local
<1>4. session'[r] \in Local
  BY <1>1, <1>2, <1>3 DEF Local
<1> QED BY <1>4 DEF Judged, SessionTyped

(* Every step keeps the types: first the requests that begin, ...          *)
LEMMA CreateTyped ==
  ASSUME TypeOK, NEW r \in Sessions, CreateRequest(r)
  PROVE  TypeOK'
<1> USE Parts
<1>1. PICK m \in Mapping, s \in Source, v \in Version, c \in Bodies :
        \/ \E st \in Statuses : CreateCheck(r, m, s, v, st, c)
        \/ IngestCheck(r, m, s, v, c)
  BY DEF CreateRequest
<1>2. c \in Content
  BY RegistryAssumption DEF Content
<1>3. SchemaTyped'
  <2>1. UNCHANGED schemaVars
    BY <1>1 DEF CreateCheck, IngestCheck
  <2> QED BY <2>1 DEF schemaVars, SchemaTyped
<1>4. RegistryTyped'
  <2>1. UNCHANGED registryVars /\ used' = used \cup {m}
    BY <1>1 DEF CreateCheck, IngestCheck
  <2> QED BY <2>1 DEF registryVars, RegistryTyped, present
<1>5. SessionTyped'
  <2>1. PICK op \in AllOps, st \in Statuses :
          Continue(r, op, "insert", m, [source |-> s, version |-> v, status |-> st], c)
    <3>1. CASE IngestCheck(r, m, s, v, c)
      BY <3>1 DEF IngestCheck, AllOps, Statuses
    <3>2. CASE \E st \in Statuses : CreateCheck(r, m, s, v, st, c)
      BY <3>2 DEF CreateCheck, InitialStatus, AllOps, Statuses
    <3> QED BY <1>1, <3>1, <3>2
  <2>2. [source |-> s, version |-> v, status |-> st] \in Row
    BY DEF Row
  <2> QED BY <1>2, <2>1, <2>2, ContinueTyped DEF SchemaTyped, State
<1> QED BY <1>3, <1>4, <1>5

(* ... on a mapping, ...                                                   *)
LEMMA UpdateTyped ==
  ASSUME TypeOK, NEW r \in Sessions, UpdateRequest(r)
  PROVE  TypeOK'
<1> USE Parts
<1>1. PICK m \in Mapping :
        \/ \E v \in Version : UpdateVersion(r, m, v)
        \/ \E v \in Version, st \in Statuses : UpdateStatus(r, m, v, st)
        \/ \E v \in Version, c \in Bodies : ReplaceContent(r, m, v, c)
        \/ \E em \in UNION Bodies : AddEntityLoad(r, m, em)
        \/ \E em \in SUBSET Field : DeleteEntity(r, m, em)
        \/ \E em \in SUBSET Field, f \in Field : AddField(r, m, em, f)
        \/ \E em \in SUBSET Field, f \in Field : DeleteField(r, m, em, f)
        \/ ValidateLoad(r, m)
        \/ ActivateLoad(r, m)
        \/ Delete(r, m)
  BY DEF UpdateRequest
<1>2. ASSUME NEW op \in AllOps, NEW pc \in State, NEW target \in Row,
             NEW body \in Content, Continue(r, op, pc, m, target, body), ReadsOnly
      PROVE  TypeOK'
  <2>1. SchemaTyped' /\ RegistryTyped'
    BY <1>2 DEF ReadsOnly, schemaVars, registryVars, SchemaTyped, RegistryTyped, present
  <2>2. SessionTyped'
    BY <1>2, ContinueTyped DEF SchemaTyped
  <2> QED BY <2>1, <2>2
<1>3. ASSUME NEW c \in Content, EditContent(m, c)
      PROVE  TypeOK'
  BY <1>3 DEF EditContent, schemaVars, SchemaTyped, RegistryTyped, SessionTyped, present
<1>4. m \in present => mappings[m] \in Row
  BY DEF RegistryTyped
<1>5. {} \in Content /\ content[m] \in Content
  BY DEF Content, RegistryTyped
<1>6. ASSUME NEW v \in Version, UpdateVersion(r, m, v) PROVE TypeOK'
  <2>1. [mappings[m] EXCEPT !.version = v] \in Row
    BY <1>4, <1>6 DEF UpdateVersion, Row
  <2> QED BY <1>2, <1>5, <1>6, <2>1 DEF UpdateVersion, AllOps, State
<1>7. ASSUME NEW v \in Version, NEW st \in Statuses, UpdateStatus(r, m, v, st)
      PROVE  TypeOK'
  <2>1. [mappings[m] EXCEPT !.version = v, !.status = st] \in Row
    BY <1>4, <1>7, RowWith DEF UpdateStatus
  <2> QED BY <1>2, <1>5, <1>7, <2>1 DEF UpdateStatus, AllOps, State
<1>8. ASSUME NEW v \in Version, NEW c \in Bodies, ReplaceContent(r, m, v, c)
      PROVE  TypeOK'
  <2>1. [mappings[m] EXCEPT !.version = v, !.status = "DRAFT"] \in Row
    BY <1>4, <1>8, RowWith DEF ReplaceContent, Statuses
  <2>2. c \in Content
    BY RegistryAssumption DEF Content
  <2> QED BY <1>2, <1>8, <2>1, <2>2 DEF ReplaceContent, AllOps, State
<1>9. ASSUME NEW em \in UNION Bodies, AddEntityLoad(r, m, em) PROVE TypeOK'
  <2>1. [mappings[m] EXCEPT !.status = "DRAFT"] \in Row
    BY <1>4, <1>9 DEF AddEntityLoad, Row, Statuses
  <2>2. {em} \in Content
    BY RegistryAssumption DEF Content
  <2> QED BY <1>2, <1>9, <2>1, <2>2 DEF AddEntityLoad, AllOps, State
<1>10. ASSUME NEW em \in SUBSET Field, DeleteEntity(r, m, em) PROVE TypeOK'
  <2>1. content[m] \ {em} \in Content
    BY <1>5 DEF Content
  <2> QED BY <1>3, <1>10, <2>1 DEF DeleteEntity
<1>11. ASSUME NEW em \in SUBSET Field, NEW f \in Field, AddField(r, m, em, f)
       PROVE  TypeOK'
  <2>1. (content[m] \ {em}) \cup {em \cup {f}} \in Content
    BY <1>5 DEF Content
  <2> QED BY <1>3, <1>11, <2>1 DEF AddField
<1>12. ASSUME NEW em \in SUBSET Field, NEW f \in Field, DeleteField(r, m, em, f)
       PROVE  TypeOK'
  <2>1. (content[m] \ {em}) \cup {em \ {f}} \in Content
    BY <1>5 DEF Content
  <2> QED BY <1>3, <1>12, <2>1 DEF DeleteField
<1>13. CASE ValidateLoad(r, m)
  BY <1>2, <1>4, <1>5, <1>13 DEF ValidateLoad, AllOps, State
<1>14. CASE ActivateLoad(r, m)
  <2>1. [mappings[m] EXCEPT !.status = "ACTIVE"] \in Row
    BY <1>4, <1>14 DEF ActivateLoad, Row, Statuses
  <2> QED BY <1>2, <1>5, <1>14, <2>1 DEF ActivateLoad, AllOps, State
<1>15. CASE Delete(r, m)
  <2>1. SchemaTyped' /\ SessionTyped'
    BY <1>15 DEF Delete, schemaVars, SchemaTyped, SessionTyped
  <2>2. mappings' = [i \in present \ {m} |-> mappings[i]]
    BY <1>15 DEF Delete, Restrict
  <2>3. RegistryTyped'
    BY <1>15, <2>2, HistoryTyped DEF Delete, RegistryTyped, present, Content
  <2> QED BY <2>1, <2>3
<1> QED BY <1>1, <1>6, <1>7, <1>8, <1>9, <1>10, <1>11, <1>12, <1>13, <1>14, <1>15

(* The id of a mapping about to be inserted has been handed out: TypeOK    *)
(* says that rows have such ids, and Insert keeps it only because of this. *)
Claimed == \A r \in Sessions : session[r].pc = "insert" => session[r].m \in used

(* ... the later steps of a request, ...                                   *)
LEMMA HandleTyped ==
  ASSUME TypeOK, Claimed, NEW r \in Sessions, Handle(r)
  PROVE  TypeOK'
<1> USE Parts
<1>1. ReadsOnly => SchemaTyped' /\ RegistryTyped'
  BY DEF ReadsOnly, schemaVars, registryVars, SchemaTyped, RegistryTyped, present
<1>2. CASE Insert(r)
  <2>1. /\ session[r].m \in Mapping /\ session[r].target \in Row
        /\ session[r].body \in Content
    BY <1>2, BusyTyped DEF Insert
  <2>2. session[r].m \in used
    BY <1>2 DEF Claimed, Insert
  <2>3. RegistryTyped'
    <3>1. tainted' \subseteq Mapping
      BY <1>2, HistoryTyped DEF Insert, RegistryTyped
    <3> QED BY <1>2, <2>1, <2>2, <3>1 DEF Insert, RegistryTyped, present
  <2> QED BY <1>2, <2>3, ReturnTyped DEF Insert, schemaVars, SchemaTyped
<1>3. CASE AddEntity(r)
  <2>1. /\ session[r].m \in Mapping /\ session[r].target \in Row
        /\ session[r].body \in Content
    BY <1>3, BusyTyped DEF AddEntity
  <2>2. content[session[r].m] \cup session[r].body \in Content
    BY <2>1 DEF RegistryTyped, Content
  <2>3. RegistryTyped'
    <3>1. tainted' \subseteq Mapping
      BY <1>3, HistoryTyped DEF AddEntity, RegistryTyped
    <3> QED BY <1>3, <2>1, <2>2, <3>1 DEF AddEntity, RegistryTyped, present
  <2> QED BY <1>3, <2>3, ReturnTyped DEF AddEntity, schemaVars, SchemaTyped
<1>4. CASE ValidateCheck(r)
  <2>1. PICK verdict \in Statuses : Judged(r, verdict)
    BY <1>4, VerdictTyped DEF ValidateCheck, Statuses
  <2> QED BY <1>1, <1>4, <2>1, JudgedTyped DEF ValidateCheck
<1>5. CASE ValidateUnreachable(r)
  <2>1. "ERROR" \in Statuses
    BY DEF Statuses
  <2> QED BY <1>1, <1>5, <2>1, JudgedTyped DEF ValidateUnreachable, Undiscovered
<1>6. CASE ValidateDiscover(r)
  <2> DEFINE s == session[r].target.source
             verdict == Verdict(session[r].body, physical[s] \cap session[r].known)
  <2>1. /\ session[r].m \in Mapping /\ session[r].target \in Row
        /\ session[r].body \in Content
    BY <1>6, BusyTyped DEF ValidateDiscover, Undiscovered
  <2>2. s \in Source /\ verdict \in Statuses
    BY <2>1, VerdictTyped DEF Row
  <2>3. SchemaTyped'
    BY <1>6, <2>2 DEF ValidateDiscover, SchemaTyped
  <2>4. [session[r].target EXCEPT !.status = verdict] \in Row
    BY <2>1, <2>2 DEF Row
  <2>5. mappings' = [mappings EXCEPT ![session[r].m] =
                       [session[r].target EXCEPT !.status = verdict]]
    BY <1>6 DEF ValidateDiscover
  <2>6. checked' \in [Mapping -> Content]
    BY <1>6, <2>1 DEF ValidateDiscover, RegistryTyped
  <2>7. UNCHANGED <<used, content>> /\ tainted' \subseteq Mapping
    BY <1>6, HistoryTyped DEF ValidateDiscover, Undiscovered, RegistryTyped
  <2> HIDE DEF verdict, s
  <2>8. RegistryTyped'
    BY <2>1, <2>4, <2>5, <2>6, <2>7 DEF RegistryTyped, present
  <2> QED BY <1>6, <2>3, <2>8, ReturnTyped DEF ValidateDiscover
<1>7. CASE ActivateList(r)
  <2> DEFINE o == [m \in OtherActive(r) |-> [mappings[m] EXCEPT !.status = "VALIDATED"]]
  <2>1. session[r] \in Local
    BY <1>7, BusyTyped DEF ActivateList
  <2>2. \A m \in OtherActive(r) : /\ m \in Mapping
                                  /\ [mappings[m] EXCEPT !.status = "VALIDATED"] \in Row
    BY DEF OtherActive, RegistryTyped, Row, Statuses
  <2>3. o \in Rows
    <3>1. o \in [OtherActive(r) -> Row] /\ OtherActive(r) \in SUBSET Mapping
      BY <2>2
    <3> HIDE DEF o
    <3> QED BY <3>1 DEF Rows
  <2>4. session'[r] = [session[r] EXCEPT !.pc = "select", !.others = o]
    BY <1>7 DEF ActivateList, SessionTyped
  <2> HIDE DEF o
  <2>5. session'[r] \in Local
    BY <2>1, <2>3, <2>4 DEF Local
  <2> QED BY <1>1, <1>7, <2>5 DEF ActivateList, SessionTyped
<1>8. CASE SelectRow(r)
  <2>1. CASE Return(r)
    BY <1>1, <1>8, <2>1, ReturnTyped DEF SelectRow
  <2>2. CASE \E i \in present : session' = [session EXCEPT ![r] =
          [pc |-> "save", op |-> @.op, m |-> @.m, target |-> @.target, body |-> @.body,
           known |-> @.known, others |-> @.others, first |-> i, base |-> mappings[i]]]
    <3>1. PICK i \in present : session' = [session EXCEPT ![r] =
            [pc |-> "save", op |-> @.op, m |-> @.m, target |-> @.target, body |-> @.body,
             known |-> @.known, others |-> @.others, first |-> i, base |-> mappings[i]]]
      BY <2>2
    <3>2. i \in Mapping /\ mappings[i] \in Row
      BY DEF RegistryTyped
    <3>3. session[r] \in Local
      BY <1>8, BusyTyped DEF SelectRow
    <3>4. session'[r] \in Saving
      BY <3>1, <3>2, <3>3 DEF SessionTyped, Local, Saving
    <3> QED BY <1>1, <1>8, <3>1, <3>4 DEF SelectRow, SessionTyped
  <2> QED BY <1>8, <2>1, <2>2 DEF SelectRow
<1>9. CASE Save(r)
  <2> DEFINE m == session[r].m
             W(i) == Flush(Selected(r, i), Wanted(r, i), mappings[i])
  <2>1. /\ m \in Mapping /\ session[r].target \in Row /\ session[r].body \in Content
        /\ session[r].others \in Rows /\ session[r].base \in Row
    BY <1>9, BusyTyped DEF Save
  <2>2. ASSUME NEW i \in present, i \in Saved(r) PROVE W(i) \in Row
    <3>1. Wanted(r, i) \in Row
      BY <2>1, <2>2, OthersTyped DEF Wanted, Saved
    <3>2. Selected(r, i) \in Row /\ mappings[i] \in Row
      BY <2>1 DEF Selected, RegistryTyped
    <3> QED BY <3>1, <3>2, FlushTyped
  <2>3. mappings' = [i \in present |-> IF i \in Saved(r) THEN W(i) ELSE mappings[i]]
    BY <1>9 DEF Save
  <2> HIDE DEF W
  <2>4. DOMAIN mappings' = present /\ mappings' \in [present -> Row]
    BY <2>2, <2>3 DEF RegistryTyped
  <2>5. /\ content' \in [Mapping -> Content] /\ checked' \in [Mapping -> Content]
        /\ tainted' \subseteq Mapping
    BY <1>9, <2>1, HistoryTyped DEF Save, RegistryTyped
  <2>6. RegistryTyped'
    BY <1>9, <2>4, <2>5 DEF Save, RegistryTyped, present
  <2> QED BY <1>9, <2>6, ReturnTyped DEF Save, schemaVars, SchemaTyped
<1>10. CASE Abort(r)
  BY <1>1, <1>10, ReturnTyped DEF Abort
<1> QED BY <1>2, <1>3, <1>4, <1>5, <1>6, <1>7, <1>8, <1>9, <1>10 DEF Handle

(* ... and the requests about the model, the sources and their schemas.    *)
LEMMA SchemaRequestTyped ==
  ASSUME TypeOK, NEW r \in Sessions, SchemaRequest(r)
  PROVE  TypeOK' /\ UNCHANGED <<used, mappings, session>>
<1>1. UNCHANGED <<registryVars, used, session>>
  BY DEF SchemaRequest, DeleteModel, DeleteLogicalField, AddLogicalField, DeleteSource,
     DiscoverSchema, LogicalVars
<1>2. RegistryTyped' /\ SessionTyped'
  BY <1>1, Parts DEF registryVars, RegistryTyped, SessionTyped, present
<1>3. SchemaTyped'
  <2>1. SchemaTyped
    BY Parts
  <2>2. CASE \/ DeleteModel(r)
             \/ \E f \in Field : DeleteLogicalField(r, f) \/ AddLogicalField(r, f)
             \/ \E s \in Source : DeleteSource(r, s)
    BY <2>1, <2>2 DEF SchemaTyped, DeleteModel, DeleteLogicalField, AddLogicalField,
       DeleteSource, LogicalVars
  <2>3. ASSUME NEW s \in Source, DiscoverSchema(r, s) PROVE SchemaTyped'
    BY <2>1, <2>3 DEF SchemaTyped, DiscoverSchema
  <2> QED BY <2>2, <2>3 DEF SchemaRequest
<1> QED BY <1>1, <1>2, <1>3, Parts DEF registryVars

(* A change of the database behind a source keeps the types.               *)
LEMMA DriftTyped ==
  ASSUME TypeOK, NEW s \in Source, NEW schema \in SUBSET Field, Drift(s, schema)
  PROVE  TypeOK' /\ UNCHANGED <<used, mappings, session>>
<1>1. UNCHANGED <<registryVars, used, session>>
  BY DEF Drift
<1>2. RegistryTyped' /\ SessionTyped'
  BY <1>1, Parts DEF registryVars, RegistryTyped, SessionTyped, present
<1>3. SchemaTyped'
  BY Parts DEF SchemaTyped, Drift
<1> QED BY <1>1, <1>2, <1>3, Parts DEF registryVars

(* Ids are handed out and never taken back; a session only comes to        *)
(* "insert" with the id it has just taken.                                 *)
LEMMA ClaimedKept ==
  ASSUME TypeOK, Claimed, NEW r \in Sessions,
         CreateRequest(r) \/ UpdateRequest(r) \/ Handle(r)
  PROVE  Claimed'
<1>1. session \in [Sessions -> {Idle} \cup Local \cup Saving]
  BY DEF TypeOK
<1>2. CASE CreateRequest(r)
  <2>1. PICK m \in Mapping, s \in Source, v \in Version, c \in Bodies :
          \/ \E st \in Statuses : CreateCheck(r, m, s, v, st, c)
          \/ IngestCheck(r, m, s, v, c)
    BY <1>2 DEF CreateRequest
  <2>2. /\ used' = used \cup {m}
        /\ \E op, target : Continue(r, op, "insert", m, target, c)
    BY <2>1 DEF CreateCheck, IngestCheck
  <2> QED BY <1>1, <2>2 DEF Continue, Claimed
<1>3. CASE UpdateRequest(r)
  <2>1. used' = used
    BY <1>3 DEF UpdateRequest, UpdateVersion, UpdateStatus, ReplaceContent, AddEntityLoad,
       DeleteEntity, AddField, DeleteField, EditContent, ValidateLoad, ActivateLoad,
       ReadsOnly, Delete
  <2>2. \/ session' = session
        \/ \E op, m, target, body : \E pc \in State \ {"insert"} :
             Continue(r, op, pc, m, target, body)
    BY <1>3 DEF UpdateRequest, UpdateVersion, UpdateStatus, ReplaceContent, AddEntityLoad,
       DeleteEntity, AddField, DeleteField, EditContent, ValidateLoad, ActivateLoad,
       ReadsOnly, Delete, State
  <2> QED BY <1>1, <2>1, <2>2 DEF Continue, Claimed
<1>4. CASE Handle(r)
  <2>1. used' = used
    BY <1>4 DEF Handle, Insert, AddEntity, ValidateCheck, ValidateUnreachable,
       ValidateDiscover, ActivateList, SelectRow, Save, Abort, ReadsOnly
  <2>2. \A q \in Sessions \ {r} : session'[q] = session[q]
    BY <1>1, <1>4 DEF Handle, Insert, AddEntity, ValidateCheck, ValidateUnreachable,
       ValidateDiscover, ActivateList, SelectRow, Save, Abort, Return, Judged
  <2>3. session'[r].pc # "insert"
    <3>1. CASE Insert(r) \/ AddEntity(r) \/ ValidateDiscover(r) \/ Save(r) \/ Abort(r)
      BY <1>1, <3>1 DEF Insert, AddEntity, ValidateDiscover, Save, Abort, Return, Idle
    <3>2. CASE ValidateCheck(r) \/ ValidateUnreachable(r) \/ ActivateList(r)
      <4>1. session[r] \in Local
        BY <3>2, Parts, BusyTyped DEF ValidateCheck, ValidateUnreachable, Undiscovered,
           ActivateList
      <4>2. CASE ActivateList(r)
        BY <1>1, <4>1, <4>2 DEF ActivateList, Local
      <4>3. CASE ValidateCheck(r) \/ ValidateUnreachable(r)
        <5>1. PICK verdict : Judged(r, verdict)
          BY <4>3 DEF ValidateCheck, ValidateUnreachable
        <5> QED BY <1>1, <4>1, <5>1 DEF Judged, Local
      <4> QED BY <3>2, <4>2, <4>3
    <3>3. CASE SelectRow(r)
      BY <1>1, <3>3 DEF SelectRow, Return, Idle
    <3> QED BY <1>4, <3>1, <3>2, <3>3 DEF Handle
  <2> QED BY <2>1, <2>2, <2>3 DEF Claimed
<1> QED BY <1>2, <1>3, <1>4

(* Every row of source_mappings keeps a valid status, source and version,  *)
(* every mapping has an id that was handed out, and every request has      *)
(* well-formed locals, under any interleaving of requests.                 *)
THEOREM TypeCorrect == Spec => []TypeOK
<1> DEFINE I == TypeOK /\ Claimed
<1>1. Init => I
  <2>1. ASSUME Init PROVE TypeOK
    <3>1. mappings \in [present -> Row] /\ present = {}
      BY <2>1 DEF Init, present
    <3> QED BY <2>1, <3>1 DEF Init, TypeOK, Content
  <2> QED BY <2>1 DEF Init, Claimed, Idle
<1>2. ASSUME I, [Next]_vars PROVE I'
  <2>1. CASE UNCHANGED vars
    BY <1>2, <2>1 DEF vars, TypeOK, Claimed, present
  <2>2. ASSUME NEW r \in Sessions, CreateRequest(r) \/ UpdateRequest(r) \/ Handle(r)
        PROVE  I'
    BY <1>2, <2>2, CreateTyped, UpdateTyped, HandleTyped, ClaimedKept
  <2>3. ASSUME NEW r \in Sessions, SchemaRequest(r) PROVE I'
    BY <1>2, <2>3, SchemaRequestTyped DEF Claimed
  <2>4. ASSUME NEW s \in Source, NEW schema \in SUBSET Field, Drift(s, schema) PROVE I'
    BY <1>2, <2>4, DriftTyped DEF Claimed
  <2> QED BY <1>2, <2>1, <2>2, <2>3, <2>4 DEF Next
<1> QED BY <1>1, <1>2, PTL DEF Spec

-----------------------------------------------------------------------------
(* One ACTIVE mapping per source, when requests do not overlap *)

(* What a request has loaded is still true when it writes: a request that  *)
(* will write ACTIVE found the mapping ACTIVE, or has listed every other   *)
(* ACTIVE mapping of the source to demote it.  This is what a second       *)
(* request between the load and the write would break.                     *)
Current(r) ==
  /\ session[r].pc \in {"insert", "add_entity"} => session[r].target.status # "ACTIVE"
  /\ session[r].pc \in {"validate", "list", "select", "save"} =>
       /\ session[r].m \in present
       /\ session[r].target.source = mappings[session[r].m].source
       /\ session[r].m \notin DOMAIN session[r].others
       /\ \A i \in DOMAIN session[r].others : session[r].others[i].status # "ACTIVE"
  /\ session[r].pc \in {"select", "save"} /\ session[r].target.status = "ACTIVE" =>
       \/ mappings[session[r].m].status = "ACTIVE"
       \/ OtherActive(r) \subseteq DOMAIN session[r].others
  /\ session[r].pc = "save" => /\ session[r].first \in present
                               /\ session[r].base = mappings[session[r].first]

(* A step that makes no mapping ACTIVE keeps the invariant.                *)
LEMMA NoneActivated ==
  ASSUME OneActive,
         \A i \in DOMAIN mappings' :
           mappings'[i].status = "ACTIVE" =>
             /\ i \in present
             /\ mappings[i].status = "ACTIVE"
             /\ mappings'[i].source = mappings[i].source
  PROVE  OneActive'
BY DEF OneActive, ActiveOf, present

(* A request that begins with copies of what it reads.                     *)
LEMMA BeginsCurrent ==
  ASSUME TypeOK, NEW r \in Sessions, CreateRequest(r) \/ UpdateRequest(r),
         session' # session, "ACTIVE" \notin PutStatuses
  PROVE  Current(r)' /\ mappings' = mappings
<1> DEFINE Begun(op, pc, m, target, body) ==
             /\ Continue(r, op, pc, m, target, body)
             /\ mappings' = mappings
<1>1. session \in [Sessions -> {Idle} \cup Local \cup Saving]
  BY DEF TypeOK
<1>2. ASSUME NEW op, NEW pc \in {"insert", "add_entity"}, NEW m, NEW target, NEW body,
             Begun(op, pc, m, target, body), target.status # "ACTIVE"
      PROVE  Current(r)' /\ mappings' = mappings
  BY <1>1, <1>2 DEF Continue, Current
<1>3. ASSUME NEW op, NEW pc \in {"validate", "list"}, NEW m \in present, NEW target,
             NEW body, Begun(op, pc, m, target, body), target.source = mappings[m].source
      PROVE  Current(r)' /\ mappings' = mappings
  BY <1>1, <1>3 DEF Continue, Current, present
<1>4. ASSUME NEW op, NEW m \in present, NEW target, NEW body,
             Begun(op, "select", m, target, body), target.source = mappings[m].source,
             target.status = "ACTIVE" => mappings[m].status = "ACTIVE"
      PROVE  Current(r)' /\ mappings' = mappings
  BY <1>1, <1>4 DEF Continue, Current, present
<1>5. \A m \in present : mappings[m] \in Row
  BY DEF TypeOK
<1>6. CASE CreateRequest(r)
  <2>1. PICK m \in Mapping, s \in Source, v \in Version, c \in Bodies :
          \/ \E st \in Statuses : CreateCheck(r, m, s, v, st, c)
          \/ IngestCheck(r, m, s, v, c)
    BY <1>6 DEF CreateRequest
  <2>2. \E op, st : /\ Begun(op, "insert", m, [source |-> s, version |-> v, status |-> st], c)
                    /\ st # "ACTIVE"
    <3>1. CASE IngestCheck(r, m, s, v, c)
      BY <3>1 DEF IngestCheck, registryVars
    <3>2. CASE \E st \in Statuses : CreateCheck(r, m, s, v, st, c)
      BY <3>2 DEF CreateCheck, InitialStatus, registryVars
    <3> QED BY <2>1, <3>1, <3>2
  <2> QED BY <1>2, <2>2
<1>7. CASE UpdateRequest(r)
  <2>1. PICK m \in Mapping :
          \/ \E v \in Version : UpdateVersion(r, m, v)
          \/ \E v \in Version, st \in Statuses : UpdateStatus(r, m, v, st)
          \/ \E v \in Version, c \in Bodies : ReplaceContent(r, m, v, c)
          \/ \E em \in UNION Bodies : AddEntityLoad(r, m, em)
          \/ ValidateLoad(r, m)
          \/ ActivateLoad(r, m)
    BY <1>7 DEF UpdateRequest, DeleteEntity, AddField, DeleteField, EditContent, Delete
  <2>2. ASSUME NEW v \in Version, UpdateVersion(r, m, v)
        PROVE  Current(r)' /\ mappings' = mappings
    <3>1. /\ [mappings[m] EXCEPT !.version = v].source = mappings[m].source
          /\ [mappings[m] EXCEPT !.version = v].status = mappings[m].status
      BY <1>5, <2>2 DEF UpdateVersion, Row
    <3> QED BY <1>4, <2>2, <3>1 DEF UpdateVersion, ReadsOnly, registryVars
  <2>3. ASSUME NEW v \in Version, NEW st \in Statuses, UpdateStatus(r, m, v, st)
        PROVE  Current(r)' /\ mappings' = mappings
    <3>1. /\ [mappings[m] EXCEPT !.version = v, !.status = st].source = mappings[m].source
          /\ [mappings[m] EXCEPT !.version = v, !.status = st].status = st
          /\ st # "ACTIVE"
      BY <1>5, <2>3 DEF UpdateStatus, Row
    <3> QED BY <1>4, <2>3, <3>1 DEF UpdateStatus, ReadsOnly, registryVars
  <2>4. ASSUME NEW v \in Version, NEW c \in Bodies, ReplaceContent(r, m, v, c)
        PROVE  Current(r)' /\ mappings' = mappings
    <3>1. /\ [mappings[m] EXCEPT !.version = v, !.status = "DRAFT"].source
               = mappings[m].source
          /\ [mappings[m] EXCEPT !.version = v, !.status = "DRAFT"].status = "DRAFT"
      BY <1>5, <2>4 DEF ReplaceContent, Row
    <3> QED BY <1>4, <2>4, <3>1 DEF ReplaceContent, ReadsOnly, registryVars
  <2>5. ASSUME NEW em \in UNION Bodies, AddEntityLoad(r, m, em)
        PROVE  Current(r)' /\ mappings' = mappings
    <3>1. [mappings[m] EXCEPT !.status = "DRAFT"].status = "DRAFT"
      BY <1>5, <2>5 DEF AddEntityLoad, Row
    <3> QED BY <1>2, <2>5, <3>1 DEF AddEntityLoad, ReadsOnly, registryVars
  <2>6. CASE ValidateLoad(r, m)
    BY <1>3, <2>6 DEF ValidateLoad, ReadsOnly, registryVars
  <2>7. CASE ActivateLoad(r, m)
    <3>1. [mappings[m] EXCEPT !.status = "ACTIVE"].source = mappings[m].source
      BY <1>5, <2>7 DEF ActivateLoad, Row
    <3> QED BY <1>3, <2>7, <3>1 DEF ActivateLoad, ReadsOnly, registryVars
  <2> QED BY <2>1, <2>2, <2>3, <2>4, <2>5, <2>6, <2>7
<1> QED BY <1>6, <1>7

(* The later steps that only read keep what is loaded current.             *)
LEMMA ReadsStayCurrent ==
  ASSUME TypeOK, NEW r \in Sessions, Current(r),
         \/ ValidateCheck(r) \/ ValidateUnreachable(r) \/ ActivateList(r) \/ SelectRow(r)
  PROVE  Current(r)' /\ mappings' = mappings
<1>1. session \in [Sessions -> {Idle} \cup Local \cup Saving]
  BY DEF TypeOK
<1>2. mappings' = mappings
  BY DEF ValidateCheck, ValidateUnreachable, ActivateList, SelectRow, ReadsOnly, registryVars
<1>3. session[r] \in Local
  BY Parts, BusyTyped DEF ValidateCheck, ValidateUnreachable, Undiscovered, ActivateList,
     SelectRow
<1>4. CASE ValidateCheck(r) \/ ValidateUnreachable(r)
  <2>1. PICK verdict : Judged(r, verdict) /\ verdict # "ACTIVE"
    BY <1>4 DEF ValidateCheck, ValidateUnreachable, Verdict
  <2>2. session[r].pc = "validate"
    BY <1>4 DEF ValidateCheck, ValidateUnreachable, Undiscovered
  <2>3. session[r].target \in Row
    BY <1>3 DEF Local
  <2>4. /\ session'[r].pc = "select"
        /\ session'[r].m = session[r].m
        /\ session'[r].others = session[r].others
        /\ session'[r].target = [session[r].target EXCEPT !.status = verdict]
    BY <1>1, <1>3, <2>1 DEF Judged, Local
  <2>5. /\ session'[r].target.source = session[r].target.source
        /\ session'[r].target.status = verdict
    BY <2>3, <2>4 DEF Row
  <2> QED BY <1>2, <2>1, <2>2, <2>4, <2>5 DEF Current, present
<1>5. CASE ActivateList(r)
  <2> DEFINE o == [m \in OtherActive(r) |-> [mappings[m] EXCEPT !.status = "VALIDATED"]]
  <2>1. session'[r] = [session[r] EXCEPT !.pc = "select", !.others = o]
    BY <1>1, <1>5 DEF ActivateList
  <2>2. \A i \in OtherActive(r) : i \in present /\ mappings[i] \in Row
    BY DEF OtherActive, TypeOK
  <2>3. DOMAIN o = OtherActive(r) /\ \A i \in OtherActive(r) : o[i].status = "VALIDATED"
    BY <2>2 DEF Row
  <2>4. session[r].m \notin OtherActive(r)
    BY DEF OtherActive
  <2>5. /\ session'[r].pc = "select"
        /\ session'[r].m = session[r].m
        /\ session'[r].others = o
        /\ session'[r].target = session[r].target
    BY <1>3, <2>1 DEF Local
  <2>6. OtherActive(r)' = OtherActive(r)
    BY <1>2, <2>5 DEF OtherActive, present
  <2>7. session[r].pc = "list"
    BY <1>5 DEF ActivateList
  <2> HIDE DEF o
  <2> QED BY <1>2, <2>3, <2>4, <2>5, <2>6, <2>7 DEF Current, present
<1>6. CASE SelectRow(r)
  <2>1. CASE Return(r)
    BY <1>1, <1>2, <2>1 DEF Return, Idle, Current
  <2>2. ASSUME NEW i \in present, session' = [session EXCEPT ![r] =
          [pc |-> "save", op |-> @.op, m |-> @.m, target |-> @.target, body |-> @.body,
           known |-> @.known, others |-> @.others, first |-> i, base |-> mappings[i]]]
        PROVE  Current(r)' /\ mappings' = mappings
    <3>1. /\ session'[r].pc = "save"
          /\ session'[r].m = session[r].m
          /\ session'[r].others = session[r].others
          /\ session'[r].target = session[r].target
          /\ session'[r].first = i
          /\ session'[r].base = mappings[i]
      BY <1>1, <2>2
    <3>2. OtherActive(r)' = OtherActive(r)
      BY <1>2, <3>1 DEF OtherActive, present
    <3>3. session[r].pc = "select"
      BY <1>6 DEF SelectRow
    <3> QED BY <1>2, <3>1, <3>2, <3>3 DEF Current, present
  <2> QED BY <1>6, <2>1, <2>2 DEF SelectRow
<1> QED BY <1>4, <1>5, <1>6

(* The write of a request that is current: the statuses it wants are the   *)
(* statuses the rows get, and when it activates its mapping every other    *)
(* ACTIVE mapping of the source is among the rows it demotes.              *)
LEMMA SaveKeepsOneActive ==
  ASSUME TypeOK, NEW r \in Sessions, Current(r), OneActive, Save(r)
  PROVE  OneActive'
<1> DEFINE m == session[r].m
           o == session[r].others
           W(i) == Flush(Selected(r, i), Wanted(r, i), mappings[i])
<1>1. /\ session[r].pc = "save" /\ Saved(r) \subseteq present
      /\ mappings' = [i \in present |-> IF i \in Saved(r) THEN W(i) ELSE mappings[i]]
  BY DEF Save
<1>2. /\ session[r].target \in Row /\ o \in Rows
  BY <1>1, Parts, BusyTyped
<1>3. /\ m \in present /\ session[r].target.source = mappings[m].source
      /\ m \notin DOMAIN o
      /\ \A i \in DOMAIN o : o[i].status # "ACTIVE"
      /\ session[r].base = mappings[session[r].first]
  BY <1>1 DEF Current
<1>4. ASSUME NEW i \in Saved(r)
      PROVE  W(i).source = mappings[i].source /\ W(i).status = Wanted(r, i).status
  <2>1. mappings[i] \in Row
    BY <1>1 DEF TypeOK
  <2>2. Wanted(r, i) \in Row
    BY <1>2, OthersTyped DEF Wanted, Saved
  <2>3. Selected(r, i) = mappings[i]
    BY <1>3 DEF Selected
  <2> QED BY <2>1, <2>2, <2>3, FlushTyped
<1> HIDE DEF W
<1>5. ASSUME NEW i \in DOMAIN o PROVE mappings'[i].status # "ACTIVE"
  BY <1>1, <1>3, <1>4 DEF Saved, Wanted
<1>6. \A i \in present : mappings'[i].source = mappings[i].source
  BY <1>1, <1>4
<1>7. \A i \in present \ {m} : mappings'[i].status = "ACTIVE" => mappings[i].status = "ACTIVE"
  BY <1>1, <1>5 DEF Saved
<1>8. mappings'[m].status = session[r].target.status
  BY <1>1, <1>3, <1>4 DEF Saved, Wanted
<1>9. DOMAIN mappings' = present
  BY <1>1
<1>10. CASE mappings'[m].status = "ACTIVE" => mappings[m].status = "ACTIVE"
  BY <1>6, <1>7, <1>9, <1>10, NoneActivated
<1>11. CASE mappings'[m].status = "ACTIVE" /\ mappings[m].status # "ACTIVE"
  <2>1. OtherActive(r) \subseteq DOMAIN o
    BY <1>1, <1>8, <1>11 DEF Current
  <2>2. ASSUME NEW i \in present \ {m}, mappings'[i].status = "ACTIVE"
        PROVE  mappings'[i].source # mappings'[m].source
    BY <1>3, <1>5, <1>6, <1>7, <2>1, <2>2 DEF OtherActive
  <2>3. \A i, j \in present \ {m} :
          mappings'[i].status = "ACTIVE" /\ mappings'[j].status = "ACTIVE" =>
            \/ mappings'[i].source # mappings'[j].source
            \/ mappings'[i].source \notin Source
            \/ i = j
    BY <1>6, <1>7 DEF OneActive, ActiveOf
  <2> QED BY <1>9, <2>2, <2>3 DEF OneActive, ActiveOf, present
<1> QED BY <1>10, <1>11

(* What a lone request has loaded stays current, and so one mapping of a   *)
(* source is ACTIVE.                                                       *)
Steady == (\A r \in Sessions : Current(r)) /\ OneActive

LEMMA SequentialSteady ==
  ASSUME \A q, r \in Sessions : q = r,
         "ACTIVE" \notin PutStatuses
  PROVE  Spec => []Steady
<1> DEFINE I == Steady
<1> USE DEF Steady
<1>1. Init => I
  BY DEF Init, Current, Idle, OneActive, ActiveOf, present
<1>2. ASSUME TypeOK, I, [Next]_vars PROVE I'
  <2>1. ASSUME UNCHANGED <<mappings, session>> PROVE I'
    BY <1>2, <2>1 DEF Current, OtherActive, OneActive, ActiveOf, present
  <2>2. ASSUME NEW r \in Sessions, Current(r)', OneActive' PROVE I'
    BY <2>2
  <2>3. ASSUME NEW r \in Sessions, Return(r) \/ (session' = session /\ session[r].pc = "idle")
        PROVE  Current(r)'
    BY <1>2, <2>3 DEF Return, Idle, Current, TypeOK
  <2>4. ASSUME mappings' = mappings PROVE OneActive'
    BY <1>2, <2>4 DEF OneActive, ActiveOf, present
  <2>5. ASSUME NEW r \in Sessions, CreateRequest(r) \/ UpdateRequest(r) PROVE I'
    <3>1. CASE session' # session
      BY <2>2, <2>4, <2>5, <3>1, <1>2, BeginsCurrent
    <3>2. CASE session' = session
      <4>1. session[r].pc = "idle"
        BY <2>5 DEF CreateRequest, UpdateRequest, CreateCheck, IngestCheck, UpdateVersion,
           UpdateStatus, ReplaceContent, AddEntityLoad, DeleteEntity, AddField,
           DeleteField, ValidateLoad, ActivateLoad, Delete, Free
      <4>2. \/ mappings' = mappings
            \/ \E m \in present : mappings' = [i \in present \ {m} |-> mappings[i]]
        BY <2>5 DEF CreateRequest, UpdateRequest, CreateCheck, IngestCheck, UpdateVersion,
           UpdateStatus, ReplaceContent, AddEntityLoad, DeleteEntity, AddField,
           DeleteField, EditContent, ValidateLoad, ActivateLoad, Delete, Restrict,
           ReadsOnly, registryVars
      <4>3. OneActive'
        BY <1>2, <2>4, <4>2, NoneActivated
      <4> QED BY <2>2, <2>3, <3>2, <4>1, <4>3
    <3> QED BY <3>1, <3>2
  <2>6. ASSUME NEW r \in Sessions, Handle(r) PROVE I'
    <3>1. CASE \/ ValidateCheck(r) \/ ValidateUnreachable(r) \/ ActivateList(r)
               \/ SelectRow(r)
      BY <1>2, <2>2, <2>4, <3>1, ReadsStayCurrent
    <3>2. CASE Insert(r)
      <4>1. session[r].target.status # "ACTIVE"
        BY <1>2, <3>2 DEF Current, Insert
      <4>2. OneActive'
        BY <1>2, <3>2, <4>1, NoneActivated DEF Insert
      <4> QED BY <2>2, <2>3, <3>2, <4>2 DEF Insert
    <3>3. CASE AddEntity(r)
      <4>1. session[r].target.status # "ACTIVE"
        BY <1>2, <3>3 DEF Current, AddEntity
      <4>2. OneActive'
        BY <1>2, <3>3, <4>1, NoneActivated DEF AddEntity, present
      <4> QED BY <2>2, <2>3, <3>3, <4>2 DEF AddEntity
    <3>4. CASE ValidateDiscover(r)
      <4> DEFINE s == session[r].target.source
                 verdict == Verdict(session[r].body, physical[s] \cap session[r].known)
      <4>1. session[r].target \in Row
        BY <1>2, <3>4, Parts, BusyTyped DEF ValidateDiscover, Undiscovered
      <4>2. verdict # "ACTIVE"
        BY DEF Verdict
      <4>3. mappings' = [mappings EXCEPT ![session[r].m] =
                           [session[r].target EXCEPT !.status = verdict]]
        BY <3>4 DEF ValidateDiscover
      <4> HIDE DEF verdict, s
      <4>4. [session[r].target EXCEPT !.status = verdict].status # "ACTIVE"
        BY <4>1, <4>2 DEF Row
      <4>5. OneActive'
        BY <1>2, <4>3, <4>4, NoneActivated DEF present
      <4> QED BY <2>2, <2>3, <3>4, <4>5 DEF ValidateDiscover
    <3>5. CASE Save(r)
      BY <1>2, <2>2, <2>3, <3>5, SaveKeepsOneActive DEF Save
    <3>6. CASE Abort(r)
      BY <2>2, <2>3, <2>4, <3>6 DEF Abort, ReadsOnly, registryVars
    <3> QED BY <2>6, <3>1, <3>2, <3>3, <3>4, <3>5, <3>6 DEF Handle
  <2>7. ASSUME NEW r \in Sessions, SchemaRequest(r) PROVE I'
    BY <1>2, <2>1, <2>7, SchemaRequestTyped
  <2>8. ASSUME NEW s \in Source, NEW schema \in SUBSET Field, Drift(s, schema) PROVE I'
    BY <1>2, <2>1, <2>8, DriftTyped
  <2>9. CASE UNCHANGED vars
    BY <2>1, <2>9 DEF vars
  <2> QED BY <1>2, <2>5, <2>6, <2>7, <2>8, <2>9 DEF Next
<1> HIDE DEF Steady
<1> QED BY <1>1, <1>2, TypeCorrect, PTL DEF Spec

(* At most one ACTIVE mapping per source, for any number of mappings and   *)
(* sources and every operation of the API, provided that requests do not   *)
(* overlap and that no client PUTs the status ACTIVE: activation itself    *)
(* keeps the invariant that activate_source_mapping names.  Each of the    *)
(* two conditions is needed: the run registry_race violates the invariant  *)
(* without the first, a PUT of ACTIVE beside an ACTIVE mapping without the *)
(* second.                                                                 *)
THEOREM SequentialOneActive ==
  ASSUME \A q, r \in Sessions : q = r,
         "ACTIVE" \notin PutStatuses
  PROVE  Spec => []OneActive
<1>1. Steady => OneActive
  BY DEF Steady
<1> QED BY <1>1, SequentialSteady, PTL

-----------------------------------------------------------------------------
(* What is in service was checked, and is replaced in one commit *)

(* What a request will write has its reasons in the rows: a status that    *)
(* says "validated" rests on the verdict over the content as it is, or on  *)
(* the status as it is, and what is demoted is of the activated mapping's  *)
(* source.                                                                 *)
Backed(r) ==
  /\ session[r].pc \in {"insert", "add_entity"} =>
       session[r].target.status \notin {"VALIDATED", "ACTIVE"}
  /\ session[r].pc = "validate" =>
       session[r].op = "validate" /\ session[r].body = content[session[r].m]
         /\ DOMAIN session[r].others = {}
  /\ session[r].pc = "list" =>
       /\ session[r].op = "activate" /\ session[r].target.status = "ACTIVE"
       /\ mappings[session[r].m].status = "VALIDATED"
  /\ session[r].pc \in {"select", "save"} =>
       /\ session[r].op = "replace" => session[r].target.status = "DRAFT"
       /\ session[r].op = "validate" =>
            /\ session[r].body = content[session[r].m]
            /\ session[r].target.status # "ACTIVE"
            /\ session[r].target.status = "VALIDATED" => session[r].body # {}
       /\ session[r].op # "validate" /\ session[r].target.status = "ACTIVE" =>
            mappings[session[r].m].status \in {"VALIDATED", "ACTIVE"}
       /\ session[r].op # "validate" /\ session[r].target.status = "VALIDATED" =>
            mappings[session[r].m].status = "VALIDATED"
       /\ \A i \in DOMAIN session[r].others :
            /\ i \in present /\ mappings[i].status = "ACTIVE"
            /\ mappings[i].source = session[r].target.source
            /\ session[r].target.status = "ACTIVE"

(* A request that begins.                                                  *)
LEMMA BeginsBacked ==
  ASSUME TypeOK, NEW r \in Sessions, CreateRequest(r) \/ UpdateRequest(r),
         session' # session, PutStatuses \subseteq {"DRAFT", "ERROR"}
  PROVE  Backed(r)' /\ UNCHANGED registryVars
<1> DEFINE Begun(op, pc, m, target, body) ==
             /\ Continue(r, op, pc, m, target, body)
             /\ UNCHANGED registryVars
<1>1. session \in [Sessions -> {Idle} \cup Local \cup Saving]
  BY DEF TypeOK
<1>2. ASSUME NEW op, NEW pc, NEW m, NEW target, NEW body, Begun(op, pc, m, target, body)
      PROVE  /\ session'[r].pc = pc /\ session'[r].op = op /\ session'[r].m = m
             /\ session'[r].target = target /\ session'[r].body = body
             /\ DOMAIN session'[r].others = {}
             /\ mappings' = mappings /\ content' = content
  BY <1>1, <1>2 DEF Continue, registryVars
<1>3. ASSUME NEW op, NEW pc \in {"insert", "add_entity"}, NEW m, NEW target, NEW body,
             Begun(op, pc, m, target, body), target.status \notin {"VALIDATED", "ACTIVE"}
      PROVE  Backed(r)' /\ UNCHANGED registryVars
  BY <1>2, <1>3 DEF Backed
<1>4. ASSUME NEW op \in {"version", "status", "replace"}, NEW m, NEW target, NEW body,
             Begun(op, "select", m, target, body),
             op = "replace" => target.status = "DRAFT",
             target.status \in {"DRAFT", "ERROR"} \/ target.status = mappings[m].status
      PROVE  Backed(r)' /\ UNCHANGED registryVars
  <2>1. /\ session'[r].pc = "select" /\ session'[r].op = op /\ session'[r].m = m
        /\ session'[r].target = target /\ DOMAIN session'[r].others = {}
        /\ mappings' = mappings
    BY <1>2, <1>4
  <2> QED BY <1>4, <2>1 DEF Backed
<1>5. \A m \in present : mappings[m] \in Row
  BY DEF TypeOK
<1>6. CASE CreateRequest(r)
  <2>1. PICK m \in Mapping, s \in Source, v \in Version, c \in Bodies :
          \/ \E st \in Statuses : CreateCheck(r, m, s, v, st, c)
          \/ IngestCheck(r, m, s, v, c)
    BY <1>6 DEF CreateRequest
  <2>2. \E op, st : /\ Begun(op, "insert", m, [source |-> s, version |-> v, status |-> st], c)
                    /\ st \notin {"VALIDATED", "ACTIVE"}
    <3>1. CASE IngestCheck(r, m, s, v, c)
      BY <3>1 DEF IngestCheck
    <3>2. CASE \E st \in Statuses : CreateCheck(r, m, s, v, st, c)
      BY <3>2 DEF CreateCheck, InitialStatus
    <3> QED BY <2>1, <3>1, <3>2
  <2> QED BY <1>3, <2>2
<1>7. CASE UpdateRequest(r)
  <2>1. PICK m \in Mapping :
          \/ \E v \in Version : UpdateVersion(r, m, v)
          \/ \E v \in Version, st \in Statuses : UpdateStatus(r, m, v, st)
          \/ \E v \in Version, c \in Bodies : ReplaceContent(r, m, v, c)
          \/ \E em \in UNION Bodies : AddEntityLoad(r, m, em)
          \/ ValidateLoad(r, m)
          \/ ActivateLoad(r, m)
    BY <1>7 DEF UpdateRequest, DeleteEntity, AddField, DeleteField, EditContent, Delete
  <2>2. ASSUME NEW v \in Version, UpdateVersion(r, m, v)
        PROVE  Backed(r)' /\ UNCHANGED registryVars
    <3>1. [mappings[m] EXCEPT !.version = v].status = mappings[m].status
      BY <1>5, <2>2 DEF UpdateVersion, Row
    <3> QED BY <1>4, <2>2, <3>1 DEF UpdateVersion, ReadsOnly
  <2>3. ASSUME NEW v \in Version, NEW st \in Statuses, UpdateStatus(r, m, v, st)
        PROVE  Backed(r)' /\ UNCHANGED registryVars
    <3>1. /\ [mappings[m] EXCEPT !.version = v, !.status = st].status = st
          /\ st \in {"DRAFT", "ERROR"}
      BY <1>5, <2>3 DEF UpdateStatus, Row
    <3> QED BY <1>4, <2>3, <3>1 DEF UpdateStatus, ReadsOnly
  <2>4. ASSUME NEW v \in Version, NEW c \in Bodies, ReplaceContent(r, m, v, c)
        PROVE  Backed(r)' /\ UNCHANGED registryVars
    <3>1. [mappings[m] EXCEPT !.version = v, !.status = "DRAFT"].status = "DRAFT"
      BY <1>5, <2>4 DEF ReplaceContent, Row
    <3> QED BY <1>4, <2>4, <3>1 DEF ReplaceContent, ReadsOnly
  <2>5. ASSUME NEW em \in UNION Bodies, AddEntityLoad(r, m, em)
        PROVE  Backed(r)' /\ UNCHANGED registryVars
    <3>1. [mappings[m] EXCEPT !.status = "DRAFT"].status = "DRAFT"
      BY <1>5, <2>5 DEF AddEntityLoad, Row
    <3> QED BY <1>3, <2>5, <3>1 DEF AddEntityLoad, ReadsOnly
  <2>6. CASE ValidateLoad(r, m)
    <3>1. Begun("validate", "validate", m, mappings[m], content[m])
      BY <2>6 DEF ValidateLoad, ReadsOnly
    <3> QED BY <1>2, <3>1 DEF Backed
  <2>7. CASE ActivateLoad(r, m)
    <3>1. /\ [mappings[m] EXCEPT !.status = "ACTIVE"].status = "ACTIVE"
          /\ mappings[m].status = "VALIDATED"
      BY <1>5, <2>7 DEF ActivateLoad, Row
    <3> DEFINE t == [mappings[m] EXCEPT !.status = "ACTIVE"]
    <3>2. Begun("activate", "list", m, t, {})
      BY <2>7 DEF ActivateLoad, ReadsOnly
    <3> HIDE DEF t
    <3>3. /\ session'[r].pc = "list" /\ session'[r].op = "activate" /\ session'[r].m = m
          /\ session'[r].target = t /\ mappings' = mappings
      BY <1>2, <3>2
    <3>4. t.status = "ACTIVE" BY <3>1 DEF t
    <3> QED BY <3>1, <3>2, <3>3, <3>4 DEF Backed
  <2> QED BY <2>1, <2>2, <2>3, <2>4, <2>5, <2>6, <2>7
<1> QED BY <1>6, <1>7

(* The later steps that only read.                                         *)
LEMMA ReadsStayBacked ==
  ASSUME TypeOK, NEW r \in Sessions, Current(r), Backed(r),
         \/ ValidateCheck(r) \/ ValidateUnreachable(r) \/ ActivateList(r) \/ SelectRow(r)
  PROVE  Backed(r)' /\ UNCHANGED registryVars
<1>1. session \in [Sessions -> {Idle} \cup Local \cup Saving]
  BY DEF TypeOK
<1>2. UNCHANGED registryVars /\ mappings' = mappings /\ content' = content
  BY DEF ValidateCheck, ValidateUnreachable, ActivateList, SelectRow, ReadsOnly, registryVars
<1>3. session[r] \in Local
  BY Parts, BusyTyped DEF ValidateCheck, ValidateUnreachable, Undiscovered, ActivateList,
     SelectRow
<1>4. CASE ValidateCheck(r) \/ ValidateUnreachable(r)
  <2>1. PICK verdict : Judged(r, verdict) /\ verdict # "ACTIVE"
                         /\ (verdict = "VALIDATED" => session[r].body # {})
    BY <1>4 DEF ValidateCheck, ValidateUnreachable, Verdict
  <2>2. session[r].pc = "validate"
    BY <1>4 DEF ValidateCheck, ValidateUnreachable, Undiscovered
  <2>3. session[r].target \in Row
    BY <1>3 DEF Local
  <2>4. /\ session'[r].pc = "select"
        /\ session'[r].op = session[r].op
        /\ session'[r].m = session[r].m
        /\ session'[r].body = session[r].body
        /\ session'[r].others = session[r].others
        /\ session'[r].target = [session[r].target EXCEPT !.status = verdict]
    BY <1>1, <1>3, <2>1 DEF Judged, Local
  <2>5. session'[r].target.status = verdict
    BY <2>3, <2>4 DEF Row
  <2>6. session[r].op = "validate" /\ session[r].body = content[session[r].m]
          /\ DOMAIN session[r].others = {}
    BY <2>2 DEF Backed
  <2> QED BY <1>2, <2>1, <2>4, <2>5, <2>6 DEF Backed
<1>5. CASE ActivateList(r)
  <2> DEFINE o == [m \in OtherActive(r) |-> [mappings[m] EXCEPT !.status = "VALIDATED"]]
  <2>1. session'[r] = [session[r] EXCEPT !.pc = "select", !.others = o]
    BY <1>1, <1>5 DEF ActivateList
  <2>2. DOMAIN o = OtherActive(r)
    OBVIOUS
  <2> HIDE DEF o
  <2>3. /\ session'[r].pc = "select"
        /\ session'[r].op = session[r].op
        /\ session'[r].m = session[r].m
        /\ session'[r].others = o
        /\ session'[r].target = session[r].target
    BY <1>3, <2>1 DEF Local
  <2>4. \A i \in OtherActive(r) : /\ i \in present /\ mappings[i].status = "ACTIVE"
                                  /\ mappings[i].source = session[r].target.source
    BY DEF OtherActive
  <2>5. /\ session[r].op = "activate" /\ session[r].target.status = "ACTIVE"
        /\ mappings[session[r].m].status = "VALIDATED"
    BY <1>5 DEF Backed, ActivateList
  <2> QED BY <1>2, <2>2, <2>3, <2>4, <2>5 DEF Backed, present
<1>6. CASE SelectRow(r)
  <2>1. CASE Return(r)
    BY <1>1, <1>2, <2>1 DEF Return, Idle, Backed
  <2>2. ASSUME NEW i \in present, session' = [session EXCEPT ![r] =
          [pc |-> "save", op |-> @.op, m |-> @.m, target |-> @.target, body |-> @.body,
           known |-> @.known, others |-> @.others, first |-> i, base |-> mappings[i]]]
        PROVE  Backed(r)'
    <3>1. /\ session'[r].pc = "save"
          /\ session'[r].op = session[r].op
          /\ session'[r].m = session[r].m
          /\ session'[r].body = session[r].body
          /\ session'[r].others = session[r].others
          /\ session'[r].target = session[r].target
      BY <1>1, <2>2
    <3>2. session[r].pc = "select"
      BY <1>6 DEF SelectRow
    <3> QED BY <1>2, <3>1, <3>2 DEF Backed, present
  <2> QED BY <1>2, <1>6, <2>1, <2>2 DEF SelectRow
<1> QED BY <1>2, <1>4, <1>5, <1>6

(* With one request at a time, what it will write stays backed.            *)
LEMMA SequentialBacked ==
  ASSUME \A q, r \in Sessions : q = r,
         PutStatuses \subseteq {"DRAFT", "ERROR"}
  PROVE  Spec => [](\A r \in Sessions : Backed(r))
<1> DEFINE I == \A r \in Sessions : Backed(r)
<1>0. "ACTIVE" \notin PutStatuses
  OBVIOUS
<1>1. Init => I
  BY DEF Init, Backed, Idle
<1>2. ASSUME TypeOK, Steady, I, [Next]_vars PROVE I'
  <2>1. ASSUME UNCHANGED <<registryVars, session>> PROVE I'
    BY <1>2, <2>1 DEF Backed, present, registryVars
  <2>2. ASSUME NEW r \in Sessions, Backed(r)' PROVE I'
    BY <2>2
  <2>3. ASSUME NEW r \in Sessions, Return(r) \/ (session' = session /\ session[r].pc = "idle")
        PROVE  I'
    <3>1. Backed(r)'
      BY <1>2, <2>3 DEF Return, Idle, Backed, TypeOK
    <3> QED BY <2>2, <3>1
  <2>4. ASSUME NEW r \in Sessions, CreateRequest(r) \/ UpdateRequest(r) PROVE I'
    <3>1. CASE session' # session
      BY <1>2, <2>2, <2>4, <3>1, BeginsBacked
    <3>2. CASE session' = session
      <4>1. session[r].pc = "idle"
        BY <2>4, ZenonT(40) DEF CreateRequest, UpdateRequest, CreateCheck, IngestCheck, UpdateVersion,
           UpdateStatus, ReplaceContent, AddEntityLoad, DeleteEntity, AddField,
           DeleteField, ValidateLoad, ActivateLoad, Delete, Free
      <4> QED BY <2>3, <3>2, <4>1
    <3> QED BY <3>1, <3>2
  <2>5. ASSUME NEW r \in Sessions, Handle(r) PROVE I'
    <3>1. CASE \/ ValidateCheck(r) \/ ValidateUnreachable(r) \/ ActivateList(r)
               \/ SelectRow(r)
      BY <1>2, <2>2, <3>1, ReadsStayBacked DEF Steady
    <3>2. CASE Insert(r) \/ AddEntity(r) \/ ValidateDiscover(r) \/ Save(r) \/ Abort(r)
      BY <2>3, <3>2 DEF Insert, AddEntity, ValidateDiscover, Save, Abort
    <3> QED BY <2>5, <3>1, <3>2 DEF Handle
  <2>6. ASSUME NEW r \in Sessions, SchemaRequest(r) PROVE I'
    <3>1. UNCHANGED <<registryVars, session>>
      BY <2>6 DEF SchemaRequest, DeleteModel, DeleteLogicalField, AddLogicalField, DeleteSource,
         DiscoverSchema, LogicalVars
    <3> QED BY <2>1, <3>1
  <2>7. ASSUME NEW s \in Source, NEW schema \in SUBSET Field, Drift(s, schema) PROVE I'
    BY <2>1, <2>7 DEF Drift
  <2>8. CASE UNCHANGED vars
    BY <2>1, <2>8 DEF vars, registryVars
  <2> QED BY <1>2, <2>4, <2>5, <2>6, <2>7, <2>8 DEF Next
<1> QED BY <1>0, <1>1, <1>2, TypeCorrect, SequentialSteady, PTL DEF Spec

(* The rows after the save of a request that is current.                   *)
LEMMA SaveWrites ==
  ASSUME TypeOK, NEW r \in Sessions, Current(r), Save(r)
  PROVE  /\ DOMAIN mappings' = present /\ session[r].m \in present
         /\ session[r].pc = "save" /\ session[r].m \in Mapping
         /\ \A i \in present : mappings'[i].source = mappings[i].source
         /\ mappings'[session[r].m].status = session[r].target.status
         /\ \A i \in present \ {session[r].m} :
              i \notin DOMAIN session[r].others => mappings'[i] = mappings[i]
<1> DEFINE m == session[r].m
           o == session[r].others
           W(i) == Flush(Selected(r, i), Wanted(r, i), mappings[i])
<1>1. /\ session[r].pc = "save" /\ Saved(r) \subseteq present
      /\ mappings' = [i \in present |-> IF i \in Saved(r) THEN W(i) ELSE mappings[i]]
  BY DEF Save
<1>2. session[r].target \in Row /\ o \in Rows /\ m \in Mapping
  BY <1>1, Parts, BusyTyped
<1>3. m \in present /\ session[r].base = mappings[session[r].first]
  BY <1>1 DEF Current
<1>4. ASSUME NEW i \in Saved(r)
      PROVE  W(i).source = mappings[i].source /\ W(i).status = Wanted(r, i).status
  <2>1. mappings[i] \in Row
    BY <1>1 DEF TypeOK
  <2>2. Wanted(r, i) \in Row
    BY <1>2, OthersTyped DEF Wanted, Saved
  <2>3. Selected(r, i) = mappings[i]
    BY <1>3 DEF Selected
  <2> QED BY <2>1, <2>2, <2>3, FlushTyped
<1> HIDE DEF W
<1>5. \A i \in present : mappings'[i].source = mappings[i].source
  BY <1>1, <1>4
<1>6. mappings'[m].status = session[r].target.status
  BY <1>1, <1>3, <1>4 DEF Saved, Wanted
<1>7. \A i \in present \ {m} : i \notin DOMAIN o => mappings'[i] = mappings[i]
  BY <1>1 DEF Saved
<1> QED BY <1>1, <1>2, <1>3, <1>5, <1>6, <1>7

(* Activation takes no source out of service: with one request at a time   *)
(* and no status VALIDATED or ACTIVE from a client, an ACTIVE mapping is   *)
(* demoted only by its own validation or in the commit that activates      *)
(* another mapping of the same source.  In-place edits are allowed here.   *)
THEOREM SequentialHandOver ==
  ASSUME \A q, r \in Sessions : q = r,
         PutStatuses \subseteq {"DRAFT", "ERROR"}
  PROVE  Spec => HandOver
<1> DEFINE A == \A m \in DOMAIN mappings \cap DOMAIN mappings' :
                  mappings[m].status = "ACTIVE" /\ mappings'[m].status = "VALIDATED" =>
                    \/ \E n \in DOMAIN mappings' : /\ mappings'[n].source = mappings[m].source
                                                   /\ mappings'[n].status = "ACTIVE"
                    \/ \E r \in Sessions : /\ session[r].pc \in {"validate", "save"}
                                           /\ session[r].op = "validate" /\ session[r].m = m
<1>0. "ACTIVE" \notin PutStatuses
  OBVIOUS
<1>1. ASSUME TypeOK, Steady, \A r \in Sessions : Backed(r), Next PROVE A
  <2>1. ASSUME \A i \in present \cap DOMAIN mappings' :
                 mappings'[i].status = mappings[i].status \/ mappings'[i].status # "VALIDATED"
        PROVE  A
    BY <2>1 DEF present
  <2>2. ASSUME mappings' = mappings PROVE A
    BY <2>1, <2>2 DEF present
  <2>3. ASSUME NEW r \in Sessions, CreateRequest(r) \/ UpdateRequest(r) PROVE A
    <3>1. \/ mappings' = mappings
          \/ \E m \in present : mappings' = [i \in present \ {m} |-> mappings[i]]
      BY <2>3, ZenonT(40) DEF CreateRequest, UpdateRequest, CreateCheck, IngestCheck, UpdateVersion,
         UpdateStatus, ReplaceContent, AddEntityLoad, DeleteEntity, AddField,
         DeleteField, EditContent, ValidateLoad, ActivateLoad, Delete, Restrict,
         ReadsOnly, registryVars
    <3> HIDE DEF A
    <3> QED BY <2>1, <2>2, <3>1
  <2>4. ASSUME NEW r \in Sessions, Handle(r) PROVE A
    <3>1. Current(r) /\ Backed(r)
      BY <1>1 DEF Steady
    <3>2. CASE Insert(r)
      <4>1. session[r].target.status # "VALIDATED"
        BY <3>1, <3>2 DEF Backed, Insert
      <4>2. mappings' = [i \in present \cup {session[r].m} |->
                           IF i = session[r].m THEN session[r].target ELSE mappings[i]]
        BY <3>2 DEF Insert
      <4> HIDE DEF A
      <4> QED BY <2>1, <4>1, <4>2
    <3>3. CASE AddEntity(r)
      <4>1. session[r].target.status # "VALIDATED"
        BY <3>1, <3>3 DEF Backed, AddEntity
      <4>2. mappings' = [mappings EXCEPT ![session[r].m] = session[r].target]
        BY <3>3 DEF AddEntity
      <4> HIDE DEF A
      <4> QED BY <2>1, <4>1, <4>2 DEF present
    <3>4. CASE ValidateDiscover(r)
      <4>1. session[r].pc = "validate" /\ session[r].op = "validate"
        BY <3>1, <3>4 DEF ValidateDiscover, Undiscovered, Backed
      <4>2. \A i \in DOMAIN mappings \cap DOMAIN mappings' : i # session[r].m => mappings'[i] = mappings[i]
        BY <3>4 DEF ValidateDiscover
      <4> QED BY <4>1, <4>2
    <3>5. CASE Save(r)
      <4>1. /\ DOMAIN mappings' = present /\ session[r].m \in present /\ session[r].pc = "save"
            /\ \A i \in present : mappings'[i].source = mappings[i].source
            /\ mappings'[session[r].m].status = session[r].target.status
            /\ \A i \in present \ {session[r].m} :
                 i \notin DOMAIN session[r].others => mappings'[i] = mappings[i]
        BY <1>1, <3>1, <3>5, SaveWrites
      <4>2. ASSUME NEW m \in present, mappings[m].status = "ACTIVE", mappings'[m].status = "VALIDATED"
            PROVE  \/ \E n \in DOMAIN mappings' : /\ mappings'[n].source = mappings[m].source
                                                  /\ mappings'[n].status = "ACTIVE"
                   \/ \E q \in Sessions : /\ session[q].pc \in {"validate", "save"}
                                          /\ session[q].op = "validate" /\ session[q].m = m
        <5>1. CASE m = session[r].m
          <6>1. session[r].op = "validate"
            BY <3>1, <4>1, <4>2, <5>1 DEF Backed
          <6> QED BY <4>1, <5>1, <6>1
        <5>2. CASE m # session[r].m
          <6>1. m \in DOMAIN session[r].others
            BY <4>1, <4>2, <5>2
          <6>2. mappings[m].source = session[r].target.source /\ session[r].target.status = "ACTIVE"
            BY <3>1, <4>1, <6>1 DEF Backed
          <6>3. session[r].target.source = mappings[session[r].m].source
            BY <3>1, <4>1 DEF Current
          <6> QED BY <4>1, <6>2, <6>3
        <5> QED BY <5>1, <5>2
      <4> QED BY <4>1, <4>2 DEF present
    <3>6. CASE \/ ValidateCheck(r) \/ ValidateUnreachable(r) \/ ActivateList(r)
               \/ SelectRow(r) \/ Abort(r)
      <4>1. mappings' = mappings
        BY <3>6 DEF ValidateCheck, ValidateUnreachable, ActivateList, SelectRow, Abort, ReadsOnly, registryVars
      <4> HIDE DEF A
      <4> QED BY <2>2, <4>1
    <3> HIDE DEF A
    <3> QED BY <2>4, <3>2, <3>3, <3>4, <3>5, <3>6 DEF Handle
  <2>5. ASSUME NEW r \in Sessions, SchemaRequest(r) PROVE A
    <3>1. mappings' = mappings BY <1>1, <2>5, SchemaRequestTyped
    <3> HIDE DEF A
    <3> QED BY <2>2, <3>1
  <2>6. ASSUME NEW s \in Source, NEW schema \in SUBSET Field, Drift(s, schema) PROVE A
    <3>1. mappings' = mappings BY <1>1, <2>6, DriftTyped
    <3> HIDE DEF A
    <3> QED BY <2>2, <3>1
  <2> HIDE DEF A
  <2> QED BY <1>1, <2>3, <2>4, <2>5, <2>6 DEF Next
<1>2. TypeOK /\ Steady /\ (\A r \in Sessions : Backed(r)) /\ [Next]_vars => [A]_vars
  BY <1>1
<1> QED BY <1>0, <1>2, TypeCorrect, SequentialSteady, SequentialBacked, PTL DEF Spec, HandOver

-----------------------------------------------------------------------------
(* What is in service was checked, with any number of requests *)

(* What a request has loaded is as it was, unless the row is tainted: a    *)
(* status that says "validated" rests on the verdict over the content that *)
(* is there, or on the status that is there.                               *)
InService == {"VALIDATED", "ACTIVE"}
Reasons(s) ==
  /\ s.pc = "insert" /\ s.target.status \in InService =>
       s.op = "create" /\ s.target.status = "VALIDATED"
  /\ s.pc = "add_entity" => s.target.status = "DRAFT"
  /\ s.pc = "validate" => s.op = "validate" /\ DOMAIN s.others = {}
  /\ s.pc = "list" => s.op = "activate"
  /\ s.pc \in {"select", "save"} /\ s.target.status \in InService =>
       /\ s.op # "replace"
       /\ s.op = "validate" => s.target.status = "VALIDATED" /\ s.body # {}
  /\ s.pc = "save" => s.first \in {s.m} \cup DOMAIN s.others
InForce(i) == i \in present /\ mappings[i].status \in InService
Stands(s) ==
  /\ s.pc \in {"validate", "select", "save"} /\ s.op = "validate" /\ s.m \notin tainted =>
       s.body = content[s.m]
  /\ s.pc = "list" /\ s.m \notin tainted => InForce(s.m)
  /\ s.pc \in {"select", "save"} /\ s.op # "validate" /\ s.target.status \in InService
       /\ s.m \notin tainted =>
       (s.op = "status" /\ s.target.status = "VALIDATED") \/ InForce(s.m)
  /\ s.pc \in {"select", "save"} => \A i \in DOMAIN s.others \ tainted : InForce(i)
  /\ s.pc = "save" /\ s.first \notin tainted =>
       s.first \in present /\ s.base = mappings[s.first]
Founded == \A q \in Sessions : Reasons(session[q]) /\ Stands(session[q])

(* What a request has loaded stands as long as no row of it changes that   *)
(* is not tainted.                                                         *)
LEMMA StillStands ==
  ASSUME NEW q \in Sessions, session'[q] = session[q],
         Reasons(session[q]), Stands(session[q]),
         \A i \in Loaded(q) \ tainted' :
           /\ i \notin tainted
           /\ content'[i] = content[i]
           /\ i \in present => i \in present' /\ mappings'[i] = mappings[i]
  PROVE  Reasons(session[q])' /\ Stands(session[q])'
<1> DEFINE s == session[q]
<1>1. CASE s.pc = "idle"
  BY <1>1 DEF Stands, Reasons
<1>2. CASE s.pc # "idle"
  <2>1. s.m \in Loaded(q) /\ DOMAIN s.others \subseteq Loaded(q)
    BY <1>2 DEF Loaded
  <2>2. s.pc = "save" => s.first \in Loaded(q)
    BY <1>2 DEF Reasons, Loaded
  <2>3. \A i \in Loaded(q) \ tainted' : InForce(i) => InForce(i)'
    BY DEF InForce
  <2> QED BY <2>1, <2>2, <2>3 DEF Stands, Reasons
<1> QED BY <1>1, <1>2

(* A request that begins has what it has just read.                        *)
LEMMA BeginsFounded ==
  ASSUME TypeOK, NEW r \in Sessions, CreateRequest(r) \/ UpdateRequest(r),
         session' # session
  PROVE  /\ Reasons(session[r])' /\ Stands(session[r])'
         /\ UNCHANGED registryVars
         /\ \A q \in Sessions \ {r} : session'[q] = session[q]
<1> DEFINE Begun(op, pc, m, target, body) ==
             /\ Continue(r, op, pc, m, target, body)
             /\ UNCHANGED registryVars
           Goal == /\ Reasons(session[r])' /\ Stands(session[r])'
                   /\ UNCHANGED registryVars
                   /\ \A q \in Sessions \ {r} : session'[q] = session[q]
<1>1. session \in [Sessions -> {Idle} \cup Local \cup Saving]
  BY DEF TypeOK
<1>2. ASSUME NEW op, NEW pc, NEW m, NEW target, NEW body, Begun(op, pc, m, target, body)
      PROVE  /\ session'[r].pc = pc /\ session'[r].op = op /\ session'[r].m = m
             /\ session'[r].target = target /\ session'[r].body = body
             /\ DOMAIN session'[r].others = {}
             /\ UNCHANGED registryVars /\ mappings' = mappings /\ content' = content
             /\ \A q \in Sessions \ {r} : session'[q] = session[q]
  BY <1>1, <1>2 DEF Continue, registryVars
<1>3. ASSUME NEW op, NEW m, NEW target, NEW body, Begun(op, "insert", m, target, body),
             target.status \in InService => op = "create" /\ target.status = "VALIDATED"
      PROVE  Goal
  BY <1>2, <1>3 DEF Reasons, Stands
<1>4. ASSUME NEW op \in {"version", "status", "replace"}, NEW m \in present, NEW target,
             NEW body, Begun(op, "select", m, target, body),
             op = "replace" => target.status = "DRAFT",
             target.status \in InService =>
               \/ op = "status" /\ target.status = "VALIDATED"
               \/ mappings[m].status \in InService
      PROVE  Goal
  <2>1. /\ session'[r].pc = "select" /\ session'[r].op = op /\ session'[r].m = m
        /\ session'[r].target = target /\ DOMAIN session'[r].others = {}
        /\ UNCHANGED registryVars /\ mappings' = mappings
        /\ \A q \in Sessions \ {r} : session'[q] = session[q]
    BY <1>2, <1>4
  <2>2. Reasons(session[r])'
    BY <1>4, <2>1 DEF Reasons, InService
  <2>3. Stands(session[r])'
    BY <1>4, <2>1 DEF Stands, InForce, present
  <2> QED BY <2>1, <2>2, <2>3
<1>5. \A m \in present : mappings[m] \in Row
  BY DEF TypeOK
<1>6. CASE CreateRequest(r)
  <2>1. PICK m \in Mapping, s \in Source, v \in Version, c \in Bodies :
          \/ \E st \in Statuses : CreateCheck(r, m, s, v, st, c)
          \/ IngestCheck(r, m, s, v, c)
    BY <1>6 DEF CreateRequest
  <2>2. \E op, st :
          /\ Begun(op, "insert", m, [source |-> s, version |-> v, status |-> st], c)
          /\ st \in InService => op = "create" /\ st = "VALIDATED"
    <3>1. CASE IngestCheck(r, m, s, v, c)
      BY <3>1 DEF IngestCheck, InService
    <3>2. CASE \E st \in Statuses : CreateCheck(r, m, s, v, st, c)
      BY <3>2 DEF CreateCheck, InitialStatus, InService
    <3> QED BY <2>1, <3>1, <3>2
  <2> QED BY <1>3, <2>2
<1>7. CASE UpdateRequest(r)
  <2>1. PICK m \in Mapping :
          \/ \E v \in Version : UpdateVersion(r, m, v)
          \/ \E v \in Version, st \in Statuses : UpdateStatus(r, m, v, st)
          \/ \E v \in Version, c \in Bodies : ReplaceContent(r, m, v, c)
          \/ \E em \in UNION Bodies : AddEntityLoad(r, m, em)
          \/ ValidateLoad(r, m)
          \/ ActivateLoad(r, m)
    BY <1>7 DEF UpdateRequest, DeleteEntity, AddField, DeleteField, EditContent, Delete
  <2>2. ASSUME NEW v \in Version, UpdateVersion(r, m, v) PROVE Goal
    <3>1. [mappings[m] EXCEPT !.version = v].status = mappings[m].status
      BY <1>5, <2>2 DEF UpdateVersion, Row
    <3> QED BY <1>4, <2>2, <3>1 DEF UpdateVersion, ReadsOnly
  <2>3. ASSUME NEW v \in Version, NEW st \in Statuses, UpdateStatus(r, m, v, st)
        PROVE  Goal
    <3>1. /\ [mappings[m] EXCEPT !.version = v, !.status = st].status = st
          /\ st = "ACTIVE" => mappings[m].status \in InService
      BY <1>5, <2>3 DEF UpdateStatus, Row, InService
    <3>2. st \in InService => st = "VALIDATED" \/ mappings[m].status \in InService
      BY <3>1 DEF InService
    <3> QED BY <1>4, <2>3, <3>1, <3>2 DEF UpdateStatus, ReadsOnly
  <2>4. ASSUME NEW v \in Version, NEW c \in Bodies, ReplaceContent(r, m, v, c) PROVE Goal
    <3>1. /\ [mappings[m] EXCEPT !.version = v, !.status = "DRAFT"].status = "DRAFT"
          /\ "DRAFT" \notin InService
      BY <1>5, <2>4 DEF ReplaceContent, Row, InService
    <3> QED BY <1>4, <2>4, <3>1 DEF ReplaceContent, ReadsOnly
  <2>5. ASSUME NEW em \in UNION Bodies, AddEntityLoad(r, m, em) PROVE Goal
    <3> DEFINE t == [mappings[m] EXCEPT !.status = "DRAFT"]
    <3>1. t.status = "DRAFT"
      BY <1>5, <2>5 DEF AddEntityLoad, Row
    <3>2. Begun("add_entity", "add_entity", m, t, {em})
      BY <2>5 DEF AddEntityLoad, ReadsOnly
    <3> HIDE DEF t
    <3> QED BY <1>2, <3>1, <3>2 DEF Reasons, Stands
  <2>6. CASE ValidateLoad(r, m)
    <3>1. Begun("validate", "validate", m, mappings[m], content[m])
      BY <2>6 DEF ValidateLoad, ReadsOnly
    <3> QED BY <1>2, <3>1 DEF Reasons, Stands
  <2>7. CASE ActivateLoad(r, m)
    <3> DEFINE t == [mappings[m] EXCEPT !.status = "ACTIVE"]
    <3>1. m \in present /\ mappings[m].status = "VALIDATED"
      BY <2>7 DEF ActivateLoad
    <3>2. Begun("activate", "list", m, t, {})
      BY <2>7 DEF ActivateLoad, ReadsOnly
    <3> HIDE DEF t
    <3> QED BY <1>2, <3>1, <3>2 DEF Reasons, Stands, InForce, InService, present
  <2> QED BY <2>1, <2>2, <2>3, <2>4, <2>5, <2>6, <2>7
<1> QED BY <1>6, <1>7

(* The later steps that only read.                                         *)
LEMMA ReadsStayFounded ==
  ASSUME TypeOK, NEW r \in Sessions, Reasons(session[r]), Stands(session[r]),
         \/ ValidateCheck(r) \/ ValidateUnreachable(r) \/ ActivateList(r) \/ SelectRow(r)
         \/ Abort(r)
  PROVE  /\ Reasons(session[r])' /\ Stands(session[r])'
         /\ UNCHANGED registryVars
         /\ \A q \in Sessions \ {r} : session'[q] = session[q]
<1>1. session \in [Sessions -> {Idle} \cup Local \cup Saving]
  BY DEF TypeOK
<1>2. /\ UNCHANGED registryVars /\ mappings' = mappings /\ content' = content
      /\ tainted' = tainted
  BY DEF ValidateCheck, ValidateUnreachable, ActivateList, SelectRow, Abort, ReadsOnly,
     registryVars
<1>3. \A q \in Sessions \ {r} : session'[q] = session[q]
  BY <1>1 DEF ValidateCheck, ValidateUnreachable, ActivateList, SelectRow, Abort, Judged,
     Return
<1>4. \A i : InForce(i)' <=> InForce(i)
  BY <1>2 DEF InForce, present
<1>5. CASE Return(r)
  BY <1>1, <1>2, <1>3, <1>5 DEF Return, Idle, Reasons, Stands
<1>6. CASE ValidateCheck(r) \/ ValidateUnreachable(r)
  <2>1. PICK verdict : Judged(r, verdict) /\ verdict # "ACTIVE"
                         /\ (verdict = "VALIDATED" => session[r].body # {})
    BY <1>6 DEF ValidateCheck, ValidateUnreachable, Verdict
  <2>2. session[r].pc = "validate"
    BY <1>6 DEF ValidateCheck, ValidateUnreachable, Undiscovered
  <2>3. session[r] \in Local
    BY <2>2, Parts, BusyTyped
  <2>4. /\ session'[r].pc = "select"
        /\ session'[r].op = session[r].op
        /\ session'[r].m = session[r].m
        /\ session'[r].body = session[r].body
        /\ session'[r].others = session[r].others
        /\ session'[r].target = [session[r].target EXCEPT !.status = verdict]
    BY <1>1, <2>1, <2>3 DEF Judged, Local
  <2>5. session'[r].target.status = verdict
    BY <2>3, <2>4 DEF Row, Local
  <2>6. session[r].op = "validate" /\ DOMAIN session[r].others = {}
          /\ (session[r].m \notin tainted => session[r].body = content[session[r].m])
    BY <2>2 DEF Reasons, Stands
  <2> QED BY <1>2, <1>3, <2>1, <2>4, <2>5, <2>6 DEF Reasons, Stands, InService
<1>7. CASE ActivateList(r)
  <2> DEFINE o == [m \in OtherActive(r) |-> [mappings[m] EXCEPT !.status = "VALIDATED"]]
  <2>1. session[r].pc = "list" /\ session[r].op = "activate"
          /\ (session[r].m \notin tainted => InForce(session[r].m))
    BY <1>7 DEF ActivateList, Reasons, Stands
  <2>2. session[r] \in Local
    BY <2>1, Parts, BusyTyped
  <2>3. session'[r] = [session[r] EXCEPT !.pc = "select", !.others = o]
    BY <1>1, <1>7 DEF ActivateList
  <2>4. DOMAIN o = OtherActive(r)
    OBVIOUS
  <2> HIDE DEF o
  <2>5. /\ session'[r].pc = "select"
        /\ session'[r].op = "activate"
        /\ session'[r].m = session[r].m
        /\ session'[r].others = o
    BY <2>1, <2>2, <2>3 DEF Local
  <2>6. \A i \in OtherActive(r) : InForce(i)
    BY DEF OtherActive, InForce, InService
  <2> QED BY <1>2, <1>3, <1>4, <2>1, <2>4, <2>5, <2>6 DEF Reasons, Stands
<1>8. ASSUME SelectRow(r), NEW i \in present, i \in Loaded(r),
             session' = [session EXCEPT ![r] =
          [pc |-> "save", op |-> @.op, m |-> @.m, target |-> @.target, body |-> @.body,
           known |-> @.known, others |-> @.others, first |-> i, base |-> mappings[i]]]
      PROVE  Reasons(session[r])' /\ Stands(session[r])'
  <2>1. session[r].pc = "select"
    BY <1>8 DEF SelectRow
  <2>2. /\ session'[r].pc = "save"
        /\ session'[r].op = session[r].op
        /\ session'[r].m = session[r].m
        /\ session'[r].body = session[r].body
        /\ session'[r].others = session[r].others
        /\ session'[r].target = session[r].target
        /\ session'[r].first = i
        /\ session'[r].base = mappings[i]
    BY <1>1, <1>8
  <2>3. i \in {session[r].m} \cup DOMAIN session[r].others
    BY <1>8, <2>1 DEF Loaded
  <2>4. i \in present'
    BY <1>2, <1>8 DEF present
  <2> HIDE DEF present
  <2>5. Reasons(session[r])'
    BY <2>1, <2>2, <2>3 DEF Reasons
  <2>6. Stands(session[r])'
    BY <1>2, <1>4, <2>1, <2>2, <2>4 DEF Stands
  <2> QED BY <2>5, <2>6
<1>9. CASE SelectRow(r) /\ ~Return(r)
  <2>1. session[r].pc = "select"
    BY <1>9 DEF SelectRow
  <2>2. DOMAIN session[r].others \subseteq Loaded(r) /\ session[r].m \in Loaded(r)
    BY <2>1 DEF Loaded
  <2> QED BY <1>2, <1>3, <1>8, <1>9, <2>2 DEF SelectRow
<1> QED BY <1>5, <1>6, <1>7, <1>9 DEF Abort

(* A write taints what another request has loaded of the rows it writes,   *)
(* and clears nothing else that request has loaded.                        *)
LEMMA WriteTaints ==
  ASSUME NEW r \in Sessions, NEW rows, NEW status, Written(r, rows, status),
         session[r].m \in rows, NEW q \in Sessions \ {r}, NEW i \in Loaded(q) \ tainted'
  PROVE  i \notin tainted /\ i \notin rows
<1>1. i \in Overlapped(r)
  BY DEF Overlapped
<1>2. i \notin rows
  BY <1>1 DEF Written
<1> QED BY <1>2 DEF Written, Vouched

(* The write of one request leaves the others founded.                     *)
LEMMA WritesKeepOthers ==
  ASSUME TypeOK, Founded, NEW r \in Sessions, NEW q \in Sessions \ {r},
         Insert(r) \/ AddEntity(r) \/ ValidateDiscover(r) \/ Save(r)
  PROVE  Reasons(session[q])' /\ Stands(session[q])'
<1> DEFINE m == session[r].m
<1>1. session \in [Sessions -> {Idle} \cup Local \cup Saving]
      /\ content \in [Mapping -> Content] /\ present \subseteq Mapping
  BY DEF TypeOK
<1>2. session[r].pc # "idle"
  BY DEF Insert, AddEntity, ValidateDiscover, Undiscovered, Save
<1>3. session'[q] = session[q]
  BY <1>1 DEF Insert, AddEntity, ValidateDiscover, Save, Return
<1>4. PICK rows, status :
        /\ Written(r, rows, status) /\ m \in rows
        /\ \A i : i \notin rows => content'[i] = content[i]
        /\ \A i \in present : i \notin rows => i \in present' /\ mappings'[i] = mappings[i]
  <2>1. CASE Insert(r)
    <3>1. /\ Written(r, {m}, session[r].target.status)
          /\ content' = [content EXCEPT ![m] = session[r].body]
          /\ mappings' = [i \in present \cup {m} |->
                            IF i = m THEN session[r].target ELSE mappings[i]]
      BY <2>1 DEF Insert
    <3>2. \A i : i \notin {m} => content'[i] = content[i]
      BY <3>1
    <3>3. \A i \in present : i \notin {m} => i \in present' /\ mappings'[i] = mappings[i]
      BY <3>1 DEF present
    <3> QED BY <3>1, <3>2, <3>3
  <2>2. CASE AddEntity(r)
    <3>1. /\ Written(r, {m}, session[r].target.status)
          /\ content' = [content EXCEPT ![m] = @ \cup session[r].body]
          /\ mappings' = [mappings EXCEPT ![m] = session[r].target]
      BY <2>2 DEF AddEntity
    <3>2. \A i : i \notin {m} => content'[i] = content[i]
      BY <3>1
    <3>3. \A i \in present : i \notin {m} => i \in present' /\ mappings'[i] = mappings[i]
      BY <3>1 DEF present
    <3> QED BY <3>1, <3>2, <3>3
  <2>3. CASE ValidateDiscover(r)
    <3>1. PICK row, status : /\ Written(r, {m}, status)
                             /\ content' = content
                             /\ mappings' = [mappings EXCEPT ![m] = row]
      BY <2>3 DEF ValidateDiscover
    <3>2. \A i : i \notin {m} => content'[i] = content[i]
      BY <3>1
    <3>3. \A i \in present : i \notin {m} => i \in present' /\ mappings'[i] = mappings[i]
      BY <3>1 DEF present
    <3> QED BY <3>1, <3>2, <3>3
  <2>4. CASE Save(r)
    <3> DEFINE W(i) == Flush(Selected(r, i), Wanted(r, i), mappings[i])
    <3>1. /\ Written(r, Saved(r), session[r].target.status)
          /\ content' = [content EXCEPT ![m] =
                           IF session[r].op = "replace" THEN session[r].body ELSE @]
          /\ mappings' = [i \in present |-> IF i \in Saved(r) THEN W(i) ELSE mappings[i]]
      BY <2>4 DEF Save
    <3> HIDE DEF W
    <3>2. m \in Saved(r)
      BY DEF Saved
    <3>3. \A i : i \notin Saved(r) => content'[i] = content[i]
      BY <3>1, <3>2
    <3>4. \A i \in present : i \notin Saved(r) => i \in present' /\ mappings'[i] = mappings[i]
      BY <3>1 DEF present
    <3> QED BY <3>1, <3>2, <3>3, <3>4
  <2> QED BY <2>1, <2>2, <2>3, <2>4
<1>5. ASSUME NEW i \in Loaded(q) \ tainted' PROVE i \notin tainted /\ i \notin rows
  BY <1>4, <1>5, WriteTaints
<1>6. Reasons(session[q]) /\ Stands(session[q])
  BY DEF Founded
<1> QED BY <1>3, <1>4, <1>5, <1>6, StillStands

(* The write of a request that is founded leaves what is in service        *)
(* checked or tainted.                                                     *)
LEMMA WritesKeepChecked ==
  ASSUME TypeOK, Founded, ActiveIsChecked, NEW r \in Sessions,
         Insert(r) \/ AddEntity(r) \/ ValidateDiscover(r) \/ Save(r)
  PROVE  ActiveIsChecked'
<1> DEFINE m == session[r].m
           Sound(i) == content[i] = checked[i] /\ checked[i] # {}
           Mended(i) == content'[i] = checked'[i] /\ checked'[i] # {}
           Vouches == session[r].op = "validate" /\ session[r].body = content[m]
<1>0. /\ content \in [Mapping -> Content] /\ checked \in [Mapping -> Content]
      /\ present \subseteq Mapping
  BY DEF TypeOK
<1>1. session[r].pc # "idle"
  BY DEF Insert, AddEntity, ValidateDiscover, Undiscovered, Save
<1>2. m \in Mapping /\ session[r].target \in Row /\ session[r].body \in Content
  BY <1>1, Parts, BusyTyped
<1>3. Reasons(session[r]) /\ Stands(session[r])
  BY DEF Founded
<1>4. \A i \in present \ tainted : mappings[i].status \in InService => Sound(i)
  BY DEF ActiveIsChecked, InService
<1>5. ASSUME NEW rows, NEW status, Written(r, rows, status), m \in rows,
             DOMAIN mappings' \subseteq present \cup {m},
             \A i \in present \ rows : i \in DOMAIN mappings' => mappings'[i] = mappings[i],
             \A i \in Mapping \ {m} : content'[i] = content[i] /\ checked'[i] = checked[i],
             \A i \in (rows \ {m}) \ tainted :
               i \in DOMAIN mappings' /\ mappings'[i].status \in InService =>
                 i \in present /\ mappings[i].status \in InService,
             m \in DOMAIN mappings' \ tainted' /\ mappings'[m].status \in InService =>
               Mended(m)
      PROVE  ActiveIsChecked'
  <2>1. ASSUME NEW i \in DOMAIN mappings' \ tainted', i # m,
               mappings'[i].status \in InService
        PROVE  Mended(i)
    <3>1. i \notin tainted
      BY <1>5, <2>1 DEF Written, Vouched
    <3>2. i \in present /\ mappings[i].status \in InService
      BY <1>5, <2>1, <3>1
    <3> QED BY <1>0, <1>4, <1>5, <2>1, <3>1, <3>2
  <2> QED BY <1>5, <2>1 DEF ActiveIsChecked, InService, present
<1>6. ASSUME NEW status, NEW rows, Written(r, rows, status), m \notin tainted',
             m \in tainted
      PROVE  Vouches /\ status = "VALIDATED"
  BY <1>6 DEF Written, Vouched
<1>7. ASSUME NEW status, NEW rows, Written(r, rows, status), m \notin tainted'
      PROVE  ~(session[r].op \in {"create", "status"} /\ status = "VALIDATED")
  BY <1>7 DEF Written, SentByClient
<1>8. CASE Insert(r)
  <2>1. /\ mappings' = [i \in present \cup {m} |->
                          IF i = m THEN session[r].target ELSE mappings[i]]
        /\ content' = [content EXCEPT ![m] = session[r].body] /\ checked' = checked
        /\ Written(r, {m}, session[r].target.status)
    BY <1>8 DEF Insert
  <2>2. session[r].target.status \in InService =>
          session[r].op = "create" /\ session[r].target.status = "VALIDATED"
    BY <1>3, <1>8 DEF Reasons, Insert
  <2>3. m \notin tainted' => session[r].target.status \notin InService
    BY <1>7, <2>1, <2>2
  <2> QED BY <1>0, <1>5, <2>1, <2>3
<1>9. CASE AddEntity(r)
  <2>1. /\ mappings' = [mappings EXCEPT ![m] = session[r].target]
        /\ content' = [content EXCEPT ![m] = @ \cup session[r].body] /\ checked' = checked
        /\ Written(r, {m}, session[r].target.status)
    BY <1>9 DEF AddEntity
  <2>2. session[r].target.status \notin InService
    BY <1>3, <1>9 DEF Reasons, AddEntity, InService
  <2> QED BY <1>0, <1>5, <2>1, <2>2 DEF present
<1>10. CASE ValidateDiscover(r)
  <2> DEFINE s == session[r].target.source
             verdict == Verdict(session[r].body, physical[s] \cap session[r].known)
             row == [session[r].target EXCEPT !.status = verdict]
  <2>1. /\ mappings' = [mappings EXCEPT ![m] = row] /\ content' = content
        /\ checked' = [checked EXCEPT ![m] = IF verdict = "VALIDATED"
                                             THEN session[r].body ELSE @]
        /\ Written(r, {m}, verdict)
    BY <1>10 DEF ValidateDiscover
  <2>2. row.status = verdict
    BY <1>2 DEF Row
  <2>3. verdict # "ACTIVE" /\ (verdict = "VALIDATED" => session[r].body # {})
    BY DEF Verdict
  <2>4. m \notin tainted => session[r].body = content[m]
    BY <1>3, <1>10 DEF ValidateDiscover, Undiscovered, Reasons, Stands
  <2> HIDE DEF s, verdict, row
  <2>5. m \notin tainted' => session[r].body = content[m]
    BY <1>6, <2>1, <2>4
  <2>6. m \notin tainted' /\ verdict \in InService => Mended(m)
    BY <1>0, <1>2, <2>1, <2>3, <2>5 DEF InService
  <2> QED BY <1>0, <1>5, <2>1, <2>2, <2>6 DEF present
<1>11. CASE Save(r)
  <2> DEFINE W(i) == Flush(Selected(r, i), Wanted(r, i), mappings[i])
             to == session[r].target.status
  <2>1. /\ session[r].pc = "save" /\ Saved(r) \subseteq present
        /\ mappings' = [i \in present |-> IF i \in Saved(r) THEN W(i) ELSE mappings[i]]
        /\ content' = [content EXCEPT ![m] = IF session[r].op = "replace"
                                             THEN session[r].body ELSE @]
        /\ checked' = [checked EXCEPT ![m] =
             IF session[r].op = "validate" /\ to = "VALIDATED" THEN session[r].body ELSE @]
        /\ Written(r, Saved(r), to)
    BY <1>11 DEF Save
  <2>2. m \in Saved(r) /\ m \in present
    BY <2>1 DEF Saved
  <2>3. /\ \A i \in DOMAIN session[r].others \ tainted : mappings[i].status \in InService
        /\ session[r].first \notin tainted =>
             session[r].base = mappings[session[r].first]
    BY <1>3, <2>1 DEF Stands, InForce
  <2>4. ASSUME NEW i \in Saved(r) \ tainted PROVE W(i).status = Wanted(r, i).status
    <3>1. Selected(r, i) = mappings[i]
      BY <2>3, <2>4 DEF Selected
    <3> QED BY <3>1 DEF Flush
  <2> HIDE DEF W
  <2>5. \A i \in (Saved(r) \ {m}) \ tainted :
          i \in DOMAIN mappings' /\ mappings'[i].status \in InService =>
            i \in present /\ mappings[i].status \in InService
    BY <2>1, <2>3 DEF Saved
  <2>6. ASSUME m \notin tainted', m \notin tainted, mappings'[m].status \in InService
        PROVE  Mended(m)
    <3>1. to \in InService
      BY <2>1, <2>2, <2>4, <2>6 DEF Wanted
    <3>2. session[r].op # "replace"
            /\ (session[r].op = "validate" => to = "VALIDATED" /\ session[r].body # {})
      BY <1>3, <2>1, <3>1 DEF Reasons
    <3>3. CASE session[r].op = "validate"
      <4>1. session[r].body = content[m]
        BY <1>3, <2>1, <2>6, <3>3 DEF Stands
      <4> QED BY <1>0, <1>2, <2>1, <3>2, <3>3, <4>1
    <3>4. CASE session[r].op # "validate"
      <4>1. ~(session[r].op = "status" /\ to = "VALIDATED")
        BY <1>7, <2>1, <2>6
      <4>2. mappings[m].status \in InService
        BY <1>3, <2>1, <2>6, <3>1, <3>4, <4>1 DEF Stands, InForce
      <4> QED BY <1>0, <1>2, <1>4, <2>1, <2>2, <2>6, <3>2, <3>4, <4>2
    <3> QED BY <3>3, <3>4
  <2>7. ASSUME m \notin tainted', m \in tainted PROVE Mended(m)
    <3>1. Vouches /\ to = "VALIDATED"
      BY <1>6, <2>1, <2>7
    <3>2. session[r].body # {}
      BY <1>3, <2>1, <3>1 DEF Reasons, InService
    <3> QED BY <1>0, <1>2, <2>1, <3>1, <3>2
  <2>8. m \in DOMAIN mappings' \ tainted' /\ mappings'[m].status \in InService => Mended(m)
    BY <2>6, <2>7
  <2>9. /\ DOMAIN mappings' \subseteq present \cup {m}
        /\ \A i \in present \ Saved(r) : mappings'[i] = mappings[i]
    BY <2>1
  <2>10. \A i \in Mapping \ {m} : content'[i] = content[i] /\ checked'[i] = checked[i]
    BY <1>0, <2>1
  <2> HIDE DEF Sound, Mended
  <2> QED BY <1>5, <2>1, <2>2, <2>5, <2>8, <2>9, <2>10
<1> QED BY <1>8, <1>9, <1>10, <1>11

(* What is in service was checked: for any number of mappings and          *)
(* sources, any operations of the API and any number of requests at a      *)
(* time, a mapping that is VALIDATED or ACTIVE has the content that passed *)
(* validation, unless it is tainted: a client sent VALIDATED itself or     *)
(* edited an entity or field in place, or a request wrote it while another *)
(* one had it loaded, and no validation alone on the mapping has mended it *)
(* since.                                                                  *)
THEOREM ServiceIsChecked == Spec => []ActiveIsChecked
<1> DEFINE I == Founded /\ ActiveIsChecked
<1>1. Init => I
  BY DEF Init, Founded, Reasons, Stands, Idle, ActiveIsChecked, present
<1>2. ASSUME TypeOK, I, [Next]_vars PROVE I'
  <2>1. ASSUME UNCHANGED <<registryVars, session>> PROVE I'
    BY <1>2, <2>1 DEF registryVars, Founded, Reasons, Stands, InForce, ActiveIsChecked,
       present
  <2>2. ASSUME UNCHANGED registryVars PROVE ActiveIsChecked'
    BY <1>2, <2>2 DEF registryVars, ActiveIsChecked, present
  <2>3. ASSUME NEW r \in Sessions, UNCHANGED registryVars,
               Reasons(session[r])', Stands(session[r])',
               \A q \in Sessions \ {r} : session'[q] = session[q]
        PROVE  I'
    <3>1. ASSUME NEW q \in Sessions \ {r} PROVE Reasons(session[q])' /\ Stands(session[q])'
      <4>1. Reasons(session[q]) /\ Stands(session[q]) /\ session'[q] = session[q]
        BY <1>2, <2>3 DEF Founded
      <4> QED BY <2>3, <4>1, StillStands DEF registryVars, present
    <3> QED BY <2>2, <2>3, <3>1 DEF Founded
  <2>4. ASSUME NEW r \in Sessions, CreateRequest(r) \/ UpdateRequest(r), session' # session
        PROVE  I'
    BY <1>2, <2>3, <2>4, BeginsFounded
  <2>5. ASSUME NEW r \in Sessions, CreateRequest(r) \/ UpdateRequest(r), session' = session
        PROVE  I'
    <3>1. /\ session[r].pc = "idle"
          /\ \/ UNCHANGED registryVars
             \/ \E m \in Mapping :
                  /\ m \in tainted' /\ tainted \subseteq tainted'
                  /\ mappings' = mappings /\ checked' = checked
                  /\ \E c : content' = [content EXCEPT ![m] = c]
             \/ \E m \in Mapping : Delete(r, m)
      <4>1. session[r].pc = "idle"
        BY <2>5 DEF CreateRequest, UpdateRequest, CreateCheck, IngestCheck, UpdateVersion,
           UpdateStatus, ReplaceContent, AddEntityLoad, DeleteEntity, AddField,
           DeleteField, ValidateLoad, ActivateLoad, Delete, Free
      <4>2. CASE CreateRequest(r)
        BY <4>1, <4>2 DEF CreateRequest, CreateCheck, IngestCheck
      <4>3. ASSUME NEW m \in Mapping, NEW c, EditContent(m, c)
            PROVE  /\ m \in tainted' /\ tainted \subseteq tainted'
                   /\ mappings' = mappings /\ checked' = checked
                   /\ content' = [content EXCEPT ![m] = c]
        BY <4>3 DEF EditContent
      <4>4. CASE UpdateRequest(r)
        <5>1. \/ UNCHANGED registryVars
              \/ \E m \in Mapping : \E c : EditContent(m, c)
              \/ \E m \in Mapping : Delete(r, m)
          BY <4>4 DEF UpdateRequest, UpdateVersion, UpdateStatus, ReplaceContent,
             AddEntityLoad, DeleteEntity, AddField, DeleteField, ValidateLoad,
             ActivateLoad, ReadsOnly
        <5> QED BY <4>1, <4>3, <5>1
      <4> QED BY <2>5, <4>1, <4>2, <4>4
    <3>2. ASSUME \A q \in Sessions : \A i \in Loaded(q) \ tainted' :
                   /\ i \notin tainted
                   /\ content'[i] = content[i]
                   /\ i \in present => i \in present' /\ mappings'[i] = mappings[i]
          PROVE  Founded'
      BY <1>2, <2>5, <3>2, StillStands DEF Founded
    <3>3. ASSUME NEW m \in Mapping, m \in tainted', tainted \subseteq tainted',
                 mappings' = mappings, checked' = checked,
                 \E c : content' = [content EXCEPT ![m] = c]
          PROVE  I'
      <4>1. \A i : i \notin tainted' => i \notin tainted /\ content'[i] = content[i]
        BY <3>3
      <4>2. Founded'
        BY <3>2, <3>3, <4>1 DEF present
      <4> QED BY <1>2, <3>3, <4>1, <4>2 DEF ActiveIsChecked, present
    <3>4. ASSUME NEW m \in Mapping, Delete(r, m) PROVE I'
      <4>1. /\ mappings' = [i \in present \ {m} |-> mappings[i]] /\ content' = content
            /\ checked' = [checked EXCEPT ![m] = {}]
            /\ tainted' = tainted \cup ({m} \cap Overlapped(r))
        BY <3>4 DEF Delete, Restrict
      <4>2. checked \in [Mapping -> Content] /\ present \subseteq Mapping
        BY <1>2 DEF TypeOK
      <4>3. ASSUME NEW q \in Sessions, NEW i \in Loaded(q) \ tainted' PROVE i # m
        <5>1. q # r
          BY <3>1, <4>3 DEF Loaded
        <5> QED BY <4>1, <4>3, <5>1 DEF Overlapped
      <4>4. Founded'
        BY <3>2, <4>1, <4>3 DEF present
      <4> QED BY <1>2, <4>1, <4>2, <4>4 DEF ActiveIsChecked, present
    <3> QED BY <2>1, <2>5, <3>1, <3>3, <3>4
  <2>6. ASSUME NEW r \in Sessions, Handle(r) PROVE I'
    <3>1. CASE Insert(r) \/ AddEntity(r) \/ ValidateDiscover(r) \/ Save(r)
      <4>1. session'[r] = Idle
        BY <1>2, <3>1 DEF Insert, AddEntity, ValidateDiscover, Save, Return, TypeOK
      <4>2. Reasons(session[r])' /\ Stands(session[r])'
        BY <4>1 DEF Idle, Reasons, Stands
      <4>3. Founded'
        BY <1>2, <3>1, <4>2, WritesKeepOthers DEF Founded
      <4> QED BY <1>2, <3>1, <4>3, WritesKeepChecked
    <3>2. CASE \/ ValidateCheck(r) \/ ValidateUnreachable(r) \/ ActivateList(r)
               \/ SelectRow(r) \/ Abort(r)
      <4>1. Reasons(session[r]) /\ Stands(session[r])
        BY <1>2 DEF Founded
      <4> QED BY <1>2, <2>3, <3>2, <4>1, ReadsStayFounded
    <3> QED BY <2>6, <3>1, <3>2 DEF Handle
  <2>7. ASSUME NEW r \in Sessions, SchemaRequest(r) PROVE I'
    <3>1. UNCHANGED <<registryVars, session>>
      BY <2>7 DEF SchemaRequest, DeleteModel, DeleteLogicalField, AddLogicalField,
         DeleteSource, DiscoverSchema, LogicalVars
    <3> QED BY <2>1, <3>1
  <2>8. ASSUME NEW s \in Source, NEW schema \in SUBSET Field, Drift(s, schema) PROVE I'
    BY <2>1, <2>8 DEF Drift
  <2>9. CASE UNCHANGED vars
    BY <2>1, <2>9 DEF vars, registryVars
  <2> HIDE DEF I
  <2> QED BY <1>2, <2>4, <2>5, <2>6, <2>7, <2>8, <2>9 DEF Next
<1>3. I => ActiveIsChecked
  OBVIOUS
<1> HIDE DEF I
<1> QED BY <1>1, <1>2, <1>3, TypeCorrect, PTL DEF Spec
=============================================================================
