------------------------------ MODULE Execution ------------------------------
(***************************************************************************)
(* The execution of one query on one named source: POST /altrql/execute    *)
(* with a source_id and POST /queries/execute, from the API key to the     *)
(* answer, through QueryService and the four connectors.                   *)
(*                                                                         *)
(* A request is a record of the choices its control depends on.  What it   *)
(* changes in the source is a sequence of units: the statements of a SQL   *)
(* query or batch, the documents of a MongoDB command.  An await is the    *)
(* end of an action; between two of them keys, mappings and sources may    *)
(* change, and so may the other requests.                                  *)
(***************************************************************************)
EXTENDS ApiKeys, FiniteSets

CONSTANTS
    Requests,       \* requests under way at once
    Sources,        \* registered data sources
    Dialect,        \* Dialect[s]: the type of a source, which never changes
    Mappings,       \* source mappings
    MapSource,      \* MapSource[m]: the source of a mapping
    Inputs,         \* Inputs[r]: what a request may ask for
    InitialKeys,    \* the rows of the keys to start from
    RequireApiKey,  \* settings.require_api_key
    MaxAdmin,       \* bound: changes of keys, mappings and sources
    MaxFaults       \* bound: failures of a database or of the process

NoSource == "no source"
NoMapping == "no mapping"
Nobody == "nobody"         \* no key, or the dashboard's header

\* The choices a request makes; shapes: the kinds of record in a CREATE; ordered:
\* the option of a native insert_many.
AllInputs ==
    [route : {"altrql", "native"}, op : {"READ", "CREATE", "UPDATE", "DELETE"},
     source : Sources \cup {NoSource}, key : Keys \cup {Nobody}, dashboard : BOOLEAN,
     shapes : Nat \ {0}, where : BOOLEAN, confirm : BOOLEAN,
     by : {"nothing", "mapping_id", "logical_model_id", "normalize"},
     mapping : Mappings \cup {NoMapping}, mode : {"none", "write", "shell"},
     ordered : BOOLEAN]

ASSUME ExecutionAssumption ==
    /\ Dialect \in [Sources -> {"postgres", "mysql", "sqlite", "mongodb"}]
    /\ MapSource \in [Mappings -> Sources]
    /\ NoSource \notin Sources /\ NoMapping \notin Mappings /\ Nobody \notin Keys
    /\ \A r \in Requests : Inputs[r] \subseteq AllInputs
    /\ InitialKeys \subseteq [Keys -> KeyRows]
    /\ RequireApiKey \in BOOLEAN /\ MaxAdmin \in Nat /\ MaxFaults \in Nat

VARIABLES
    req,         \* req[r]: a request and its local state
    registered,  \* the sources that have a row
    active,      \* the mappings in status ACTIVE
    applied,     \* units <<r, i>> durable in their source
    pending,     \* units executed in an open transaction
    counted,     \* counted[r]: statements reported to the usage tracker
    admin,       \* changes made so far
    faults,      \* faults so far
    barred,      \* barred[r]: keys not in force when r arrived (history)
    usable       \* usable[r]: mappings active at some time since then (history)

source == <<applied, pending>>
registry == <<registered, active, key, now, admin>>
history == <<barred, usable>>
vars == <<req, registry, source, counted, faults, history>>

Nothing == [op |-> "none", source |-> NoSource]
Idle == [pc |-> "idle", in |-> Nothing, grant |-> Nobody, map |-> NoMapping,
         next |-> 1, conn |-> "none", pool |-> FALSE, failed |-> FALSE, answer |-> "none"]

Init ==
    /\ now = 0 /\ key \in InitialKeys
    /\ req = [r \in Requests |-> Idle]
    /\ registered = Sources /\ active = Mappings
    /\ applied = {} /\ pending = {}
    /\ counted = [r \in Requests |-> 0]
    /\ admin = 0 /\ faults = 0
    /\ barred = [r \in Requests |-> {}] /\ usable = [r \in Requests |-> {}]

In(r) == req[r].in
At(r, pc) == req[r].pc = pc
Type(r) == IF In(r).source \in Sources THEN Dialect[In(r).source] ELSE "none"
IsMutation(in) == in.op \in {"CREATE", "UPDATE", "DELETE"}

\* Records of different shapes make a batch; MongoDB has one command.
Statements(in) ==
    IF in.op = "CREATE" /\ in.source \in Sources /\ Dialect[in.source] # "mongodb" THEN in.shapes ELSE 1
IsBatch(r) == Statements(In(r)) > 1

\* Lowering always asks for an ordered insert; a native command says so itself.
Unordered(r) ==
    Type(r) = "mongodb" /\ In(r).op = "CREATE" /\ In(r).route = "native" /\ ~In(r).ordered

\* What can become durable one by one.
Units(in) ==
    IF IsMutation(in) /\ Dialect[in.source] = "mongodb" THEN in.shapes ELSE Statements(in)

Goto(r, pc) == req' = [req EXCEPT ![r].pc = pc]
Answer(r, a) == req' = [req EXCEPT ![r].pc = "done", ![r].answer = a]
Reading == UNCHANGED <<registry, source, counted, faults, history>>

Fault == faults < MaxFaults /\ faults' = faults + 1

-----------------------------------------------------------------------------
(* The API key: require_scope("read") *)

Arrive(r, in) ==
    /\ At(r, "idle")
    /\ in.key \in Keys => Generated(in.key)
    /\ req' = [req EXCEPT ![r].pc = "auth", ![r].in = in]
    /\ barred' = [barred EXCEPT ![r] = {k \in Keys : ~InForce(k)}]
    /\ usable' = [usable EXCEPT ![r] = active]
    /\ UNCHANGED <<registry, source, counted, faults>>

RequireScope(r) ==
    /\ At(r, "auth")
    /\ IF In(r).dashboard \/ (~HasActiveKeys /\ ~RequireApiKey) THEN Goto(r, "handle")
       ELSE IF In(r).key = Nobody THEN Answer(r, "unauthorized")
       ELSE Goto(r, "verify")
    /\ Reading

Verify(r) ==
    /\ At(r, "verify")
    /\ IF VerifyKey(In(r).key, "read")
       THEN req' = [req EXCEPT ![r].pc = "record", ![r].grant = In(r).key]
       ELSE Answer(r, "forbidden")
    /\ Reading

\* last_used_at is written and committed before the handler runs; a locked
\* database fails the request.
RecordUsage(r) ==
    /\ At(r, "record")
    /\ \/ Goto(r, "handle") /\ UNCHANGED faults
       \/ Fault /\ Answer(r, "error")
    /\ UNCHANGED <<registry, source, counted, history>>

-----------------------------------------------------------------------------
(* The handlers *)

\* The text does not parse, does not resolve or bind, or cannot be lowered; a
\* native one is not a single statement or a MongoDB command.
Refuse(r) ==
    /\ \/ req[r].pc \in {"handle", "mapping", "schema"} /\ In(r).route = "altrql"
       \/ At(r, "fetch") /\ In(r).route = "native"
    /\ Answer(r, "failed")
    /\ Reading

MayMutate(r) ==
    req[r].grant = Nobody \/ key[req[r].grant].scopes \cap {"write", "admin"} # {}

\* A federated GET is the subject of FederatedQuery.
ExecuteAltrql(r) ==
    /\ At(r, "handle") /\ In(r).route = "altrql"
    /\ IF IsMutation(In(r)) /\ ~MayMutate(r) THEN Answer(r, "forbidden")
       ELSE IF In(r).source = NoSource
            THEN Answer(r, IF IsMutation(In(r)) THEN "failed" ELSE "federated")
       ELSE Goto(r, IF In(r).by = "nothing" THEN "source" ELSE "mapping")
    /\ Reading

\* POST /queries/execute; a mode is for MongoDB only.
ExecuteNative(r) ==
    /\ At(r, "handle") /\ In(r).route = "native"
    /\ IF In(r).mode = "write" /\ ~MayMutate(r) THEN Answer(r, "forbidden") ELSE Goto(r, "fetch")
    /\ Reading

\* The candidates: the named mapping, or those of the source; ACTIVE ones only.
FindActiveMapping(r) ==
    IF In(r).by = "mapping_id" THEN {In(r).mapping} \cap active
    ELSE {m \in active : MapSource[m] = In(r).source}

\* None or several are an error for a logical model; with normalize alone the
\* first one is taken, and none means physical names.
ResolveMapping(r) ==
    /\ At(r, "mapping")
    /\ LET found == FindActiveMapping(r)
       IN  \/ /\ found # {} /\ (In(r).by = "logical_model_id" => Cardinality(found) = 1)
              /\ \E m \in found : req' = [req EXCEPT ![r].pc = "source", ![r].map = m]
           \/ /\ found = {} /\ In(r).by = "normalize"
              /\ Goto(r, "source")
           \/ /\ found = {} /\ In(r).by # "normalize"
              /\ Answer(r, "failed")
           \/ /\ Cardinality(found) > 1 /\ In(r).by = "logical_model_id"
              /\ Answer(r, "failed")
    /\ Reading

GetSource(r) ==
    /\ At(r, "source")
    /\ IF In(r).source \in registered THEN Goto(r, "schema") ELSE Answer(r, "failed")
    /\ Reading

\* classify_query
RequiresConfirmation(in) == in.op \in {"UPDATE", "DELETE"} /\ ~in.where

\* Mutant: the gate looks at DELETE alone.
PlanUpdates(r) ==
    /\ At(r, "schema")
    /\ IF In(r).source \notin registered THEN Answer(r, "error")
       ELSE IF RequiresConfirmation(In(r)) /\ In(r).op = "DELETE" /\ ~In(r).confirm
            THEN Answer(r, "unconfirmed")
       ELSE Goto(r, "fetch")
    /\ Reading

\* The schema is read (a source deleted since is not caught), then binding,
\* classification, lowering and the confirmation gate, without an await.
Plan(r) ==
    /\ At(r, "schema")
    /\ IF In(r).source \notin registered THEN Answer(r, "error")
       ELSE IF RequiresConfirmation(In(r)) /\ ~In(r).confirm THEN Answer(r, "unconfirmed")
       ELSE Goto(r, "fetch")
    /\ Reading

\* QueryService reads the source again and prepares the statements.  The
\* connector of SQLite has nothing to initialise.
PrepareQuery(r) ==
    /\ At(r, "fetch")
    /\ IF \/ In(r).source \notin registered
          \/ In(r).route = "native" /\ In(r).mode # "none" /\ Type(r) # "mongodb"
       THEN Answer(r, "failed")
       ELSE Goto(r, IF Type(r) = "sqlite" THEN "acquire" ELSE "open")
    /\ Reading

-----------------------------------------------------------------------------
(* The connectors *)

\* A pool is made; if that fails, connections are made one by one.
MakePool(r) ==
    /\ At(r, "open")
    /\ \/ req' = [req EXCEPT ![r].pc = "acquire", ![r].pool = TRUE] /\ UNCHANGED faults
       \/ Fault /\ Goto(r, "acquire")
    /\ UNCHANGED <<registry, source, counted, history>>

\* __aenter__ initialises the connector.
PostgresInitialize(r) == Type(r) = "postgres" /\ MakePool(r)
MySQLInitialize(r) == Type(r) = "mysql" /\ MakePool(r)

\* The client connects when it is used.
MongoInitialize(r) ==
    /\ At(r, "open") /\ Type(r) = "mongodb"
    /\ req' = [req EXCEPT ![r].pc = "run", ![r].pool = TRUE]
    /\ Reading

\* From the pool when there is one, otherwise a connection of its own.
Acquire(r) ==
    /\ At(r, "acquire")
    /\ \/ /\ req' = [req EXCEPT ![r].pc = "run",
                                ![r].conn = IF req[r].pool THEN "pooled" ELSE "direct"]
          /\ UNCHANGED faults
       \/ Fault /\ req' = [req EXCEPT ![r].pc = "release", ![r].failed = TRUE]
    /\ UNCHANGED <<registry, source, counted, history>>

PostgresAcquire(r) == Type(r) = "postgres" /\ Acquire(r)
MySQLAcquire(r) == Type(r) = "mysql" /\ Acquire(r)
SqliteConnect(r) == Type(r) = "sqlite" /\ Acquire(r)

More(r) == At(r, "run") /\ req[r].next <= Units(In(r))
AllRun(r) == At(r, "run") /\ req[r].next > Units(In(r))
Open(r) == {u \in pending : u[1] = r}
NextUnit(r) == IF IsMutation(In(r)) THEN {<<r, req[r].next>>} ELSE {}

\* A statement takes effect at once, or as part of the open transaction.
Autocommit(r) ==
    /\ More(r)
    /\ req' = [req EXCEPT ![r].next = @ + 1]
    /\ applied' = applied \cup NextUnit(r)
    /\ UNCHANGED <<registry, pending, counted, faults, history>>

InTransaction(r) ==
    /\ More(r)
    /\ req' = [req EXCEPT ![r].next = @ + 1]
    /\ pending' = pending \cup NextUnit(r)
    /\ UNCHANGED <<registry, applied, counted, faults, history>>

Return(r) == AllRun(r) /\ Goto(r, "release") /\ Reading

Commit(r) ==
    /\ AllRun(r)
    /\ applied' = applied \cup Open(r) /\ pending' = pending \ Open(r)
    /\ Goto(r, "release")
    /\ UNCHANGED <<registry, counted, faults, history>>

\* The driver raises after these units became durable; what is open is lost.
Raise(r, durable) ==
    /\ At(r, "run") /\ Fault
    /\ req' = [req EXCEPT ![r].pc = "release", ![r].failed = TRUE]
    /\ applied' = applied \cup durable /\ pending' = pending \ Open(r)
    /\ UNCHANGED <<registry, counted, history>>

\* A statement fails, or only its answer is lost (time-out, broken connection).
StatementRaises(r) == More(r) /\ (Raise(r, {}) \/ Raise(r, NextUnit(r)))

\* A document is refused and the command goes on.
PassOver(r) ==
    /\ More(r) /\ Fault
    /\ req' = [req EXCEPT ![r].next = @ + 1, ![r].failed = TRUE]
    /\ UNCHANGED <<registry, source, counted, history>>

PostgresQuery(r) ==
    /\ Type(r) = "postgres" /\ ~IsBatch(r)
    /\ Autocommit(r) \/ Return(r) \/ StatementRaises(r)

\* A commit that raises may have been done all the same.
PostgresBatch(r) ==
    /\ Type(r) = "postgres" /\ IsBatch(r)
    /\ \/ InTransaction(r) \/ Commit(r) \/ Raise(r, {})
       \/ AllRun(r) /\ Raise(r, Open(r))

MySQLQuery(r) ==
    /\ Type(r) = "mysql" /\ ~IsBatch(r)
    /\ Autocommit(r) \/ Return(r) \/ StatementRaises(r)

\* Mutant: begin is missing, and the connection is in autocommit mode.
MySQLBatchAutocommit(r) ==
    /\ Type(r) = "mysql" /\ IsBatch(r)
    /\ \/ Autocommit(r) \/ Commit(r) \/ Raise(r, {})
       \/ AllRun(r) /\ Raise(r, Open(r))

MySQLBatch(r) ==
    /\ Type(r) = "mysql" /\ IsBatch(r)
    /\ \/ InTransaction(r) \/ Commit(r) \/ Raise(r, {})
       \/ AllRun(r) /\ Raise(r, Open(r))

\* SQLite has one writer; the others wait, or fail when their time is up.
Locked(r) == \E u \in pending : u[1] # r /\ In(u[1]).source = In(r).source
SqliteStatement(r) == (IsMutation(In(r)) => ~Locked(r)) /\ InTransaction(r)

\* Mutant: the connection is closed without a commit.
SqliteQueryUncommitted(r) ==
    /\ Type(r) = "sqlite" /\ ~IsBatch(r)
    /\ \/ SqliteStatement(r) \/ Raise(r, {})
       \/ AllRun(r) /\ Goto(r, "release") /\ pending' = pending \ Open(r)
          /\ UNCHANGED <<registry, applied, counted, faults, history>>

\* A mutation opens a transaction by itself; both kinds of query end with commit.
SqliteQuery(r) ==
    /\ Type(r) = "sqlite" /\ ~IsBatch(r)
    /\ SqliteStatement(r) \/ Commit(r) \/ Raise(r, {})

SqliteBatch(r) ==
    /\ Type(r) = "sqlite" /\ IsBatch(r)
    /\ SqliteStatement(r) \/ Commit(r) \/ Raise(r, {})

MongoFind(r) ==
    /\ Type(r) = "mongodb" /\ In(r).op = "READ"
    /\ Autocommit(r) \/ Return(r) \/ StatementRaises(r)

\* Mutant: an ordered insert goes on, too.
MongoInsertAnyway(r) ==
    /\ Type(r) = "mongodb" /\ In(r).op = "CREATE"
    /\ Autocommit(r) \/ Return(r) \/ StatementRaises(r) \/ PassOver(r)

\* One document after the other, without a transaction; the server ends at the
\* first one it refuses, or goes on with the next and the driver raises at the end.
MongoInsertMany(r) ==
    /\ Type(r) = "mongodb" /\ In(r).op = "CREATE"
    /\ Autocommit(r) \/ Return(r) \/ StatementRaises(r) \/ (Unordered(r) /\ PassOver(r))

MongoUpdateMany(r) ==
    /\ Type(r) = "mongodb" /\ In(r).op = "UPDATE"
    /\ Autocommit(r) \/ Return(r) \/ StatementRaises(r)

MongoDeleteMany(r) ==
    /\ Type(r) = "mongodb" /\ In(r).op = "DELETE"
    /\ Autocommit(r) \/ Return(r) \/ StatementRaises(r)

\* The connector's execute_query or execute_batch.
Execute(r) ==
    \/ PostgresQuery(r) \/ PostgresBatch(r) \/ MySQLQuery(r) \/ MySQLBatch(r)
    \/ SqliteQuery(r) \/ SqliteBatch(r)
    \/ MongoFind(r) \/ MongoInsertMany(r) \/ MongoUpdateMany(r) \/ MongoDeleteMany(r)

\* record_read and record_write, skipped by an exception.
CountUsage(r) == IF req[r].failed THEN 0 ELSE Statements(In(r))

\* The finally clause of every operation gives the connection back to the pool
\* or closes it; then QueryService counts the statements.
GiveBack(r, kinds) ==
    /\ At(r, "release")
    /\ req' = [req EXCEPT ![r].pc = "close", ![r].conn = IF @ \in kinds THEN "none" ELSE @]
    /\ counted' = [counted EXCEPT ![r] = @ + CountUsage(r)]
    /\ UNCHANGED <<registry, source, faults, history>>

\* Mutants: only one kind of connection is given back.
PostgresReleasePooled(r) == Type(r) = "postgres" /\ GiveBack(r, {"pooled"})
MySQLReleaseDirect(r) == Type(r) = "mysql" /\ GiveBack(r, {"direct"})

PostgresRelease(r) == Type(r) = "postgres" /\ GiveBack(r, {"pooled", "direct"})
MySQLRelease(r) == Type(r) = "mysql" /\ GiveBack(r, {"pooled", "direct"})
\* SQLite closes its connection, MongoDB has none of its own.
OtherRelease(r) == Type(r) \in {"sqlite", "mongodb"} /\ GiveBack(r, {"direct"})

\* The handler's answer: the result, or whatever was raised.
Outcome(r) == IF req[r].failed THEN "failed" ELSE "ok"

\* __aexit__: a pool waits for its connections before it closes.
CloseConnector(r) ==
    /\ At(r, "close") /\ req[r].conn # "pooled"
    /\ req' = [req EXCEPT ![r].pc = "done", ![r].pool = FALSE,
                          ![r].answer = Outcome(r)]
    /\ Reading

-----------------------------------------------------------------------------
(* What happens around a request *)

\* Of the sources, the deletion of one that a request names.
Registry ==
    /\ admin < MaxAdmin /\ admin' = admin + 1
    /\ \/ /\ \/ \E k \in Keys, sc \in ScopeSets : GenerateKey(k, sc, Never)
             \/ \E k \in Keys : key[k].active /\ RevokeKey(k)
             \/ Tick
          /\ UNCHANGED <<registered, active, usable>>
       \/ /\ \E r \in Requests : /\ ~At(r, "idle") /\ In(r).source \in registered
                               /\ registered' = registered \ {In(r).source}
          /\ UNCHANGED <<key, now, active, usable>>
       \/ /\ \E m \in Mappings : active' = IF m \in active THEN active \ {m} ELSE active \cup {m}
          /\ usable' = [r \in Requests |-> usable[r] \cup active']
          /\ UNCHANGED <<key, now, registered>>
    /\ UNCHANGED <<req, source, counted, faults, barred>>

\* The process dies: the databases roll back what was not committed.
Crash ==
    /\ Fault
    /\ \E r \in Requests : ~At(r, "idle") /\ ~At(r, "done")
    /\ req' = [r \in Requests |-> IF At(r, "idle") \/ At(r, "done") THEN req[r]
                                  ELSE [req[r] EXCEPT !.pc = "done", !.conn = "none", !.pool = FALSE,
                                                      !.answer = "lost"]]
    /\ pending' = {}
    /\ UNCHANGED <<registry, applied, counted, history>>

Admit(r) == RequireScope(r) \/ Verify(r) \/ RecordUsage(r)
Handle(r) ==
    \/ Refuse(r) \/ ExecuteAltrql(r) \/ ExecuteNative(r) \/ ResolveMapping(r)
    \/ GetSource(r) \/ Plan(r) \/ PrepareQuery(r)
Connect(r) ==
    \/ PostgresInitialize(r) \/ MySQLInitialize(r) \/ MongoInitialize(r)
    \/ PostgresAcquire(r) \/ MySQLAcquire(r) \/ SqliteConnect(r)
Finish(r) ==
    \/ PostgresRelease(r) \/ MySQLRelease(r) \/ OtherRelease(r) \/ CloseConnector(r)

Step(r) == Admit(r) \/ Handle(r) \/ Connect(r) \/ Execute(r) \/ Finish(r)

Next ==
    \/ \E r \in Requests : Step(r) \/ \E in \in Inputs[r] : Arrive(r, in)
    \/ Registry \/ Crash

Spec == Init /\ [][Next]_vars

\* What has a time-out: all of MongoDB (socketTimeoutMS), making a connection of
\* asyncpg, a statement on a connection of its pool (command_timeout).  A direct
\* connection, aiomysql past the TCP connect and sqlite3 may never answer.
Timed(r) == Type(r) = "mongodb" \/ (Type(r) = "postgres" /\ (req[r].pool \/ ~At(r, "run")))
Awaits(r) == req[r].pc \in {"open", "acquire", "run"} /\ ~Timed(r)

\* The event loop runs what is ready; of the drivers, those with a time-out
\* answer or raise.
FairSpec == Spec /\ \A r \in Requests : WF_vars(Step(r) /\ ~Awaits(r))

-----------------------------------------------------------------------------
(* Properties *)

UnitsOf(r) == {u[2] : u \in {v \in applied : v[1] = r}}
Ran(r) == \E u \in applied \cup pending : u[1] = r

Places == {"idle", "auth", "verify", "record", "handle", "mapping", "source", "schema", "fetch",
           "open", "acquire", "run", "release", "close", "done"}
Locals ==
    [pc : Places, in : AllInputs \cup {Nothing}, grant : Keys \cup {Nobody},
     map : Mappings \cup {NoMapping}, next : Nat \ {0}, conn : {"none", "pooled", "direct"},
     pool : BOOLEAN, failed : BOOLEAN,
     answer : {"none", "ok", "failed", "error", "unauthorized", "forbidden", "unconfirmed",
               "federated", "lost"}]

\* Types; a request has an input once it has arrived.
TypeOK ==
    /\ now \in 0..MaxTime /\ admin \in 0..MaxAdmin /\ faults \in 0..MaxFaults
    /\ registered \subseteq Sources /\ active \subseteq Mappings
    /\ key \in [Keys -> KeyRows]
    /\ req \in [Requests -> Locals] /\ counted \in [Requests -> Nat]
    /\ barred \in [Requests -> SUBSET Keys] /\ usable \in [Requests -> SUBSET Mappings]
    /\ applied \subseteq Requests \X Nat /\ pending \subseteq Requests \X Nat
    /\ \A r \in Requests : IF At(r, "idle") THEN req[r] = Idle ELSE In(r) \in AllInputs

\* A mutation of a SQL source is applied as a whole or not at all, at every
\* moment, whichever statement, commit, connection or process fails; what a
\* failed MongoDB command leaves behind is the first documents, without a gap,
\* unless the client asked for an unordered insert, which leaves any of them.
AllOrNothing ==
    \A r \in Requests : Ran(r) =>
        IF Type(r) # "mongodb" THEN UnitsOf(r) \in {{}, 1..Units(In(r))}
        ELSE IF Unordered(r) THEN UnitsOf(r) \subseteq 1..Units(In(r))
        ELSE \E n \in 0..Units(In(r)) : UnitsOf(r) = 1..n

\* The answer is true: a mutation whose client is told ok is durable as a whole,
\* and the usage tracker has counted exactly the statements of the requests
\* whose clients are told ok.
AnswerIsTrue ==
    \A r \in Requests : At(r, "done") /\ req[r].answer # "lost" =>
        /\ req[r].answer = "ok" /\ IsMutation(In(r)) => UnitsOf(r) = 1..Units(In(r))
        /\ counted[r] = IF req[r].answer = "ok" THEN Statements(In(r)) ELSE 0

\* An AltrQL mutation that reached its source named it, was confirmed if it has
\* no WHERE, and came with a key that may write, if with a key; the mapping a
\* request uses was ACTIVE at some time while it was under way.
EffectIsAllowed ==
    \A r \in Requests :
        /\ Ran(r) /\ In(r).route = "altrql" =>
             /\ In(r).source # NoSource
             /\ RequiresConfirmation(In(r)) => In(r).confirm
             /\ MayMutate(r)
        /\ req[r].map # NoMapping => req[r].map \in usable[r]

\* A request that arrives after its key was revoked or expired is never let in
\* by that key, however the lookups and the revocation interleave.
RevokedStaysOut == \A r \in Requests : req[r].grant # Nobody => req[r].grant \notin barred[r]

\* When a request is over nothing it opened is left open, on any path.
NothingLeaks == \A r \in Requests : At(r, "done") => req[r].conn = "none" /\ ~req[r].pool

\* Every request comes to its answer, or waits for a driver that has no time-out:
\* once the driver has answered or raised, nothing keeps the request from its end.
EveryRequestAnswered == \A r \in Requests : (~At(r, "idle")) ~> (At(r, "done") \/ Awaits(r))
==============================================================================
