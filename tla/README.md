# Verification of Altr-Stream

TLA+ models of the parts of Altr-Stream whose correctness depends on the order
in which things happen, the TLC configurations that check them on small
instances, and TLAPS proofs of the properties that matter most for every
instance.  Paths below are relative to the repository (`src/altr_stream/...`);
`PROJECT.json` maps every definition to the lines it models and lists the runs,
the hazards, the findings and the theorems.

Contents: [the system](#1-the-system) · [the modules](#2-the-modules) ·
[runs](#3-runs) · [fairness and deadlock](#4-fairness-and-deadlock) ·
[proofs](#5-proofs) · [where code and text disagree](#6-where-code-and-text-disagree) ·
[not modelled](#7-not-modelled) · [plan](#8-plan)

To repeat a run: `tlc -config SupervisorShared.cfg Supervisor`; to repeat the
proofs: `tlapm SupervisorProofs.tla`.

## 1. The system

A node is one container: a FastAPI application that keeps a registry of data
sources, logical models and mappings in a SQLite metadata database and answers
AltrQL queries against one source or, federated, against all sources that have
the queried entity.  Outside the container a host daemon, the supervisor,
updates it; an installer written in Go switches versions; a Flutter dashboard
drives both through the API.

| Component | State it keeps | Operations | Interacts with | What is hard |
|---|---|---|---|---|
| **Update supervisor** `supervisor/supervisor.py`, `domain/updates.py` | request and status file (host and container copy), `.env`, compose file, PID file | poll and process a request, reconcile at start-up, roll back, start/stop/status | Docker, `/health`, the update API through files | crash between any two steps, half-done `compose up`, cancellation during a pull, unreliable `docker cp` |
| **Mapping registry** `application/registry_service.py`, `infrastructure/database/registry_repository.py`, `domain/mapping.py`, `domain/logical.py` | logical models, entities, fields; source mappings with their entity and field mappings and a status | create, ingest, update, edit, validate, activate, delete, resolve | sources and snapshots; read by the query planner | several awaits per handler, each read on newer rows; one ACTIVE mapping per model and source |
| **Federated query engine** `presentation/api/routes/altrql.py`, `query_engine/planning/`, `query_engine/binding/` | one request's plan, partial results | select sources, bind, lower, execute concurrently, merge | registry, snapshots, connectors | registry changes while the plan is made, partial failure, pushed-down limits, names renamed twice |
| **Sources and schema snapshots** `application/source_service.py`, `schema_service.py`, `infrastructure/database/repository.py` | source rows (status, encrypted configuration), snapshots | register, update, test, discover, probe, delete | connectors, registry | awaits between check and write, whole-row update from a stale copy, a probe that holds the write lock |
| **AltrQL language** `query_engine/parser`, `semantic`, `classification`, `binding/type_validator.py` | none | lex, parse, validate, normalise, type-check | planner, execution | three ways to write AND, clauses in loops, values nested five ways |
| **Predicate and dialect lowering** `query_engine/lowering/` | none | AST to SQL (three dialects) or MongoDB | planner, connectors | NULL and negation must mean the same in four languages |
| **Single-source execution and mutations** `routes/altrql.py`, `application/query_service.py` | one request's state | one statement or batch on one source | keys, registry, connectors, usage tracker | a batch that fails half-way, a commit nobody hears of, checks that are stale when used |
| **Connectors** `infrastructure/connectors/` | a pool or a connection per request | connect, execute, discover, release | databases | time-outs and transactions differ by database; a pool waits for its connections |
| **Usage tracker** `application/usage_tracker.py` | counters in memory, rows, a debounce flag | record, save, load, clear | every query route | save, clear and record interleave at awaits |
| **API keys** `application/api_key_service.py`, `presentation/api/security.py` | keys: hash, active flag, expiry | create, revoke, delete, verify | every protected route | whether a key is needed depends on which are active |
| **Metadata database** `infrastructure/database/session.py`, `models.py`, `migrations.py` | SQLite file | session per request, migrations | all services | single writer, autocommit reads |
| **Versions** `domain/semver.py` | none | parse, compare, choose an upgrade | supervisor, updates | pure functions |
| **Host installer engine** `packaging/engine/*.go` | compose file, `.env`, containers | install, switch version, roll back, uninstall | Docker, supervisor's files | failure between steps of `SwitchVersion` |
| **Web dashboard update client** `frontend/altr_stream_admin/lib/core/updates/update_controller.dart` | the state shown, a poll timer | apply, cancel, poll, time out | update API | overlapping polls, time-out against a late answer |
| **Web dashboard and desktop applications** | view state | presentation | API | — |
| **Feedback, health and start-up** | none | forward, report, configure | — | — |
| **Build and packaging scripts** | none | release | — | — |

What makes the modelled components correct:

* *Supervisor.* What the status file says of the node is true; the container is
  only replaced under a status that says so; the image a reboot would start is
  one that was running; a request that is taken is answered, and one whose file
  cannot be removed is worked through again; a critical status never lacks an
  owner.
* *Registry.* One ACTIVE mapping per model and source; a VALIDATED or ACTIVE
  mapping has the content that was validated, but for the calls that change one
  of the two without the other (section 6); activation hands a source over
  without a gap; deleted rows stay deleted.
* *Federated query.* The answer is the page the query asks for, of all the rows
  of the sources that answered; a failing source costs only its own rows; every
  request is answered.
* *Language.*  A condition means what the precedence of its connectives says;
  nothing of an accepted text is lost; what reaches the lowering is typed.
* *Lowering.*  For the forms a dialect is exact on, its statement selects the rows
  the language means, in one order, NULL included; an INSERT stores the records it
  was given.
* *Single-source execution, connectors, keys.*  A mutation is whole or absent
  (on MongoDB a prefix, or what an unordered insert leaves); a client that is told
  ok has it durable and counted; nothing unconfirmed or unauthorised has an effect;
  no connection or pool survives its request; every request is answered, or waits
  for a driver that has no time-out.
* *Sources.*  Names are unique, a status is one somebody saw, an update that met
  no other changes what it was sent, deleted sources and older schemas do not
  return, every request ends or waits for a connector that has no time-out.
* *Usage tracker.*  What is counted is saved, what is cleared stays cleared, the
  tables agree, except where a named anomaly that nothing has repaired since
  explains it.

## 2. The modules

| Module | Models | Uses |
|---|---|---|
| `UpdateLifecycle` | the promise of the status file: an abstract state machine over the status and the running version | |
| `Supervisor` | the supervisor, its files, Docker, the node and the update API | `UpdateLifecycle` (refinement) |
| `SupervisorProofs` | proofs, of the versions too | `Supervisor`, `SemVer` |
| `MappingRegistry` | source mappings of one logical model under concurrent sessions | |
| `MappingRegistryProofs` | proofs | `MappingRegistry` |
| `ResultMerger` | names, rows, sort, page: the pure part of a federated query | |
| `FederatedQuery` | one federated GET, with the registry changing under it | `ResultMerger` |
| `MCFederatedQuery` | instances: set-ups, queries | `FederatedQuery` |
| `FederatedQueryProofs` | proofs | `FederatedQuery` |
| `AltrQLParser` | parser, validator, normaliser and type checks as operators on sequences of tokens | |
| `AltrQLLanguage` | texts typed token by token, and what becomes of them | `AltrQLParser` |
| `AltrQLLanguageProofs` | proofs | `AltrQLLanguage` |
| `ConditionReading`, `MCAltrQLLanguage` | the reference reading of a condition; scenarios | `AltrQLLanguage` |
| `PredicateLowering`, `MCPredicateLowering` | the four dialects: predicates, order, page, mutations; its queries and tables | |
| `PredicateLoweringProofs` | proofs | `PredicateLowering` |
| `ApiKeys` | the table of keys and `verify_key` | |
| `Execution`, `MCExecution` | requests on one source from the key to the answer; its inputs | `ApiKeys` |
| `ExecutionProofs` | proofs | `Execution` |
| `SourceRegistry`, `MCSourceRegistry` | the table of sources and its snapshots under concurrent requests | |
| `SourceRegistryProofs` | proofs | `SourceRegistry` |
| `UsageTracker`, `MCUsageTracker` | the counters in memory, their saves and the tables | |
| `UsageTrackerProofs` | proofs | `UsageTracker` |
| `SemVer` | the order of versions and the choice of an upgrade, as operators | |

Definitions whose comment begins with "Mutant" are deliberate errors; each
property is shown to notice at least one of them (`mutants` in `PROJECT.json`).

### Supervisor

`pc` is the place in `process_pending_request` (or in `startup`, `down`); `job`
holds its locals.  One action per stretch of code between two externally
visible effects:

| Actions | Code in `supervisor.py` |
|---|---|
| `ReconcileNothing`, `ReconcileOrphan` | `reconcile_startup_state` |
| `SyncFromContainer`, `ReadRequest`, `RejectInvalid`, `CheckVersion` | `process_pending_request` up to the staging status |
| `PullSucceeds`, `PullFails`, `CapturePrevious`, `Recreate`, `BeginVerify`, `HealthVerified`, `HealthTimesOut`, `PersistTarget`, `Complete` | the workflow |
| `BeginRollback`, `Rollback`, `RollbackHealth`, `RollbackLive`, `PersistPrevious`, `RolledBack`, `RollbackFailed` | the rollback part of `process_pending_request` (lines 798-880) |
| `Cleanup` | `_cleanup_request_file` |
| `Crash`, `Restart` | the process dies; launchd or systemd starts it again |
| `NodeFlaps`, and the nondeterminism of `LiveVersions`, `CurrentImages`, `RecreateFails` | Docker and `/health` |
| `Submit`, `Cancel`, `ClearStatus` | the update API (external: only its files and states are known here, from `domain/updates.py`, the dashboard and the API reference) |

Abstractions.  An image is identified with the version its health endpoint
reports, 0 being none or unknown.  `Shared` says whether the updates directory
is bind-mounted, as in every compose file of the repository; when it is not,
requests and statuses travel by `docker cp`, which may fail.  A failed
`compose up` may have done nothing, removed the container, or created the new
one.  The removal of the request file may be refused (`UnlinkFaults`); the code
ignores that (`supervisor.py:517-520`) and reads the request again at the next poll.
`answered` is an observation variable: no guard reads it.

`UpdateLifecycle` has the status file and the running version only.  It says
which states follow which, that the container changes in `applying` and
`rolling_back` only, that `completed` is announced of a node that runs the
target and `rolled_back` of one that is back on the version the status names.
The mapping is `status <- hostStatus, running <- image`.

### MappingRegistry

A request has a session of its own which commits when the handler returns.  On
SQLite (aiosqlite in its default mode) the statements before the first write
run outside a transaction, each on the latest committed rows; the first write
takes the only write lock and holds it to the commit.  A request is therefore a
few read steps and one atomic write step.  The session refers to rows weakly,
so `update_source_mapping` selects its row again, and its UPDATE writes the
columns in which the handler's copy differs from *that* read (`Flush`).

| Actions | Code in `registry_service.py` (and the repository below it) |
|---|---|
| `CreateCheck`, `IngestCheck`, `Insert` | `create_source_mapping`, `ingest_align_suggestions` |
| `UpdateVersion`, `UpdateStatus`, `ReplaceContent` | `update_source_mapping`, by what the body has |
| `AddEntityLoad`, `AddEntity`, `DeleteEntity`, `AddField`, `DeleteField` | the edits of the content |
| `ValidateLoad`, `ValidateCheck`, `ValidateUnreachable`, `ValidateDiscover` | `validate_source_mapping` |
| `ActivateLoad`, `ActivateList` | `activate_source_mapping` |
| `SelectRow`, `Save`, `Abort` | the repository's `update_source_mapping`; a request that fails rolls back |
| `Delete`, `DeleteModel`, `DeleteLogicalField`, `AddLogicalField`, `DeleteSource`, `DiscoverSchema`, `Drift` | deletions, the model, the sources and their databases |

Abstractions.  One logical model.  A field mapping is identified with the
column it maps: good if its logical field exists and the schema has the column
with a compatible type.  Foreign keys are not enforced on the connection, so
deletions cascade to nothing.  `checked` observes the content that last passed
validation, and `tainted` the mappings whose status rests on something else: since
their validation a client sent VALIDATED itself or edited an entity or a field in
place, or a request wrote the mapping while another one had it loaded.  A
validation with no other request on the mapping clears it.  No guard reads either.
`Ops` and `PutStatuses` select which operations clients use, so
that a run can ask about a part of the API.

### ResultMerger and FederatedQuery

`ResultMerger` has the pure operators: `ResolveFieldPath` (logical names to
columns), `NormalizeRow` (columns back to logical names, the later of two
columns winning), `Before`/`StableSort` (`_compare_values` and `list.sort`),
`Paginate`, `Project`, `MergeRows` (the order of the code: project, sort, cut)
and `PushedLimit`.  `FederatedQuery` has the request:

| Actions | Code |
|---|---|
| `Submit`, `Resolve`, `ResolveRaises` | `create_federated_plan` and `resolve_logical_entity`: path A, or path B |
| `ReadMapping`, `BindAndLower`, `FinishPlan` | the loop over the candidates: `get_source_mapping`, `get_latest_schema`, `resolve_logical_ir`, `bind_altrql`, the lowering |
| `Discover` | path B: physical discovery over the snapshots of the active sources |
| `Execute`, `Fail` | `_execute_single_source_isolated` under `asyncio.gather`, one per source |
| `Merge` | what follows `gather`: the all-failed check, `merge_federated_results` |
| `Environment` | other requests change mappings, sources, tables and snapshots |

Abstractions.  Logical and physical names share one name space, as in the
code's dictionaries; aliases and the matching of case and plural are left out.
A filter asks for non-null fields: it is there so that filtering, sorting and
cutting interact.  Values are naturals with `None` as the least, the order of
`_compare_values` on comparable values.  `TOP`/`BOTTOM` are `SORT` + `LIMIT`,
as `_compute_federated_plan_ir_updates` rewrites them.  The validator rejects
`LIMIT 0`, so 0 stands for no limit.  Tables have a primary key, by which the
lowering orders a query without a sort; rows that tie come in any order.  Rows
carry their place in their table (`at`), which the code does not have, so that
the property can count them.  Rows are renamed when a source answers rather
than when the merge begins: nothing changes a plan's mapping in between.

### AltrQLParser, AltrQLLanguage and ConditionReading

A text is a sequence of tokens.  Every parser function returns `Ok(i, value)`,
the next place and the IR, or `Err(i)`, the place of the error; `Then` chains
them, so that a definition reads as its function does.  A loop is `Repeat`, a
recursive function of the number of its rounds; the functions that call each other
for a condition are one recursive function of the number of calls within each
other (`Conditions`), with a record of what each of them gives at each place, made
from such a record of what they call (`Called`).  That these bounds are
enough is proved (`LoopsEnd`, `ConditionsAreRecursive`).  A
condition is the sequence of its nodes in postfix order, which says the same as
the tree: `<<a, b, AND, NOT>>` is NOT (a AND b).  `ParseAltrql` is `parse_altrql`:
parse, `validate_ir`, `normalize_ir`, validate again.
`BindAltrql` has the type checks of the binder for one entity whose columns are
`FieldTypes`.  `AltrQLLanguage` types a text piece by piece, from several
beginnings, as long as the parser accepts what there is, and keeps in `result`
what `parse_altrql` answers.  `ConditionReading` has `Reference`, which reads a
condition the other way round, by splitting it at its loosest connective; it is a
module of its own because it is a RECURSIVE operator, which a module with proofs
cannot use.

Abstractions.  Identifiers and literals are tokens with a kind and, for
integers, a value.  Error messages are a place.  Names have no dots, so that a
nested path resolves to its root.

### PredicateLowering

A lowered predicate is what the database answers for a row: `T`, `F`, `U`
(unknown) or `E` (no statement can be made).  `TreeHolds` is the language's
two-valued meaning of the same tree.  `LowerRead`, `LowerUpdate`, `LowerDelete`
and `LowerCreate` lower one query and apply it to one table.  The `Exact...`
operators name the forms for which a dialect is exact; what they leave out is
listed in section 6.

`Cases` is the set of queries with their tables.  `IsQuery` says what the parser
and the type checks let through (a range of two literals, a value set without
sets in it, a compound of one constraint at least, an offset and a limit that
are numbers, on a timestamp column only temporal literals, assignments and records of
columns and values), and `CasesAssumption` that every case is such a query on a
finite table; the instance `MCPredicateLowering` enumerates, the theorems range over
all of them.

PostgreSQL, MySQL and MongoDB compare dates as dates, and there an instant is a
number.  SQLite has none: days, `TODAY`, `NOW` and the bounds of a day are bound as
text and compared with the text that is stored.  The section *SQLite* gives that
order: two texts of one day are compared at their eleventh character, where a day
ends, `DATETIME('now')` has a space, the bounds of `_lower_date_range` have a `T`,
and a stored timestamp has the `Separator`, a constant, for the column is filled by
others.

Abstractions.  Columns hold NULL or numbers, without a bound; a timestamp is the
number of its instant, a day is `DayLength` of them, and a date column holds the
first instant of each day; a text is the set of patterns it matches.  The lexer has
no literal for an instant, so a temporal literal is a day, `TODAY` or `NOW`.  TIME
columns, a table of SQLite that mixes separators, and a day that was itself stored
in a timestamp column are left out, and so are quoting, parameter numbering and
time zones.

### Execution and ApiKeys

`req[r]` holds a request's place and locals; an action is the code between two
awaits.  `Admit` is `require_scope`, `Handle` the route up to `QueryService`,
`Connect`, `Execute` and `Finish` the connector of the source's type.  What a
mutation changes is a sequence of units, the statements of a SQL query or the
documents of a MongoDB command; `pending` are those of an open transaction,
`applied` the durable ones.  Each driver call answers or raises (`Raise`); a
commit that raises may have been done.  An insert into MongoDB goes on after a
document that was refused if the client's native command says `ordered: false`
(`Unordered`, `PassOver`).  `Registry` is another request that
revokes a key, deletes a source or changes a mapping; `Crash` ends the process.
`usable` and `barred` observe which mappings were ACTIVE and which keys were
revoked, for the properties only.

### SourceRegistry

The session model of `MappingRegistry` for `/sources`: reads see committed rows,
the first write takes SQLite's lock.  Every request but the probe writes and
commits in one step; the probe (`list_sources?probe=true`) tests all sources
with `gather` in one session and holds the lock from its first status to its
commit, so the lock is a variable here, and `Busy` a writer whose time is up.
`UpdateFlush` writes the columns in which the domain object differs from the row
read second, as SQLAlchemy does.  `Timed` are the hosts whose connector bounds the
time of what it does.

### UsageTracker

A counter is the set of operations it counts, so that losing one and counting
one twice are visible.  An operation has a source or, as the tracker's own tests
record it, none, and then it moves the node's counters only.  It remembers when it
came, and whether a save was announced that had already taken its copy (`late`) or
some save held a copy (`midsave`).  `saves[t]` is a save task with its snapshot; two
can be under way.  A load can fail before the totals are read or after them.

`anomaly` records the faults the properties excuse: a save that failed, two that
overlapped, a clear over a save, a clear or a load that failed, a crash.  A fault is
not excused for ever: a save that writes everything with no other copy about repairs
failed and overlapping ones (`Repair`), a clear that leaves nothing behind repairs
all, and a start forgets what concerned memory only (`Past`).  Each invariant names
the anomalies that really break it, and has a part that no anomaly excuses where
there is one.

## 3. Runs

| Run | Configuration | Distinct states | Shows |
|---|---|---|---|
| `supervisor_shared` | 3 versions, 2 requests, 2 crashes, shared directory, local images allowed, removals that may be refused, `FairSpec` | 888,244 | `CompletedMeansRunning`, `RolledBackMeansRestored`, `CriticalHasOwner`, `StatusPrecedesReplacement`, `PersistsOnlyRunning`, `ImplementsLifecycle`, `PendingIsRetried`, `TakenIsAnswered` |
| `supervisor_copied` | 2 versions, 2 requests, 1 crash, `docker cp`, disk faults, removals that may be refused | 1,523,049 | `AnnouncesOnlyReached` |
| `supervisor_cancel` | | violation | `CancelledIsNotApplied` |
| `registry_sequential` | 3 mappings, 2 sources, 2 versions, one request at a time; no PUT of VALIDATED or ACTIVE, no edits of fields in place | 544,248 | `OneActive`, `HandOver` |
| `registry_concurrent` | 1 mapping, 1 source, 2 overlapping requests, every operation of the API with PUTs of VALIDATED and ACTIVE | 1,729,808 | `TypeOK`, `ActiveIsChecked`, `DeletedForGood` |
| `registry_race` | 2 mappings, 1 source, 2 overlapping requests | violation | `OneActive` |
| `federated_page` | 2 sources, 12 set-ups each, 6 queries, one change during the request | 201,294 | `AnswerIsPage`, `FailureIsIsolated`, `Answered` |
| `lowering` | 4 dialects, every operand form on scalar, date and timestamp columns, each as GET and DELETE, tables with NULLs | 37,388 | `ReadIsPage`, `MutationIsExact`, `NegationNeverAdds`, `CreateKeepsRecords` |
| `usage` | 1 source, operations with it or without a source, 2 save tasks, 2 operations, one kind of fault, `FairSpec` | 624,335 | `UnsavedIsLate`, `LedgerBalances`, `ClearIsFinal`, `ReportIsAccurate`, `CountedSurvives`, `SavedEventually` |
| `execution` | 2 requests, a source of each type, 2 keys, 2 mappings, one change and one failure, `FairSpec` | 302,824 | `AllOrNothing`, `AnswerIsTrue`, `EffectIsAllowed`, `RevokedStaysOut`, `NothingLeaks`, `EveryRequestAnswered` |
| `sources` | 2 sources, 2 overlapping requests of 3, two hosts, one of them behind a connector with time-outs, that come and go once, `FairSpec` | 148,729 | `RowsAreSound`, `LoneUpdateIsExact`, `NothingReturns`, `EveryRequestEnds` |
| `language` | texts from 11 beginnings, up to 6 to 8 further pieces | 148,466 | `WhereIsPrecedence`, `NothingIsLost`, `AcceptedIsTyped` |

`TypeOK` of every module with a run is proved (section 5).

Why the bounds are enough to be interesting:

* *Supervisor.*  Three versions give a request that upgrades, one that is
  superseded, and an image that is neither the old one nor the target; two
  requests let the second arrive while the first is being cleaned up; two
  crashes let the process die again after a reconciliation.  The proofs (below)
  remove the bounds for everything but liveness.
* *Registry.*  Three mappings over two sources: one ACTIVE mapping, one to
  activate on the same source, and a bystander on the other.  Symmetry over
  mappings, sources, versions and sessions is sound: they are only compared for
  equality, no property names one, and `DeletedForGood` and `HandOver` are
  action properties, not liveness.  The sequential run leaves out what section 6
  shows to break `OneActive` and `HandOver`; the concurrent run leaves out nothing,
  and `ActiveIsChecked` says there which mappings such calls concern.  One mapping
  is enough for it: a mapping's content, its validation and its status are not
  touched by the requests on another one, but for the status that an activation
  writes; that case is left to the theorem, which is for any number of mappings.
* *Federated query.*  The set-ups cover an empty table, ties, NULLs, renamed and
  equal names, a mapping that lacks a field, an inactive mapping, a source never
  discovered; the queries cover wildcard, projection, filter, one and two sort
  clauses, limit and offset beyond one source.  A table of two rows makes every
  page of one or two rows cut through a source, and ties make the source's own
  choice visible.  With two changes instead of one, the safety properties also
  hold (1.36 million states, not kept as a run for its time).  The set-ups keep
  clear of the name clash and the queries of the hidden sort (section 6), which
  `MCFederatedQuery` has as `NamesSetups` and `HiddenSort`.  `NamesAreClear` says
  so in general; it is an `ASSUME` of the instance (`ClearNames`) and the
  hypothesis of the theorem.
* *Lowering.*  Two columns with NULL and four values, tables that have every
  value or every pair, or four rows to be paged; two days of two instants, the second
  day being today and its second instant now: each operator, range, set, constraint
  and compound has a row on either side and on the boundary, and each day a row on
  the day after.  SQLite's timestamps have a space, as SQLite writes them; with
  `Separator = "T"` the run passes as well.
* *Language.*  Each scenario grows one clause: a WHERE block long enough for
  three conditions with every connective between and around them, projections,
  sorts, pages, the three mutations, sets and compounds.
* *Execution.*  The first request is one of 20: queries and mutations of one or two
  units, by either route, with and without key, mapping and confirmation, on each
  of the four databases, an unordered insert among them; the second writes to the
  same SQLite file.
  One failure reaches every single fault, one change every stale check.
* *Sources.*  Two requests race and a third finds what they left; two names, two
  hosts and two passwords make every collision and every loss visible.
* *Usage.*  Two operations, one before and one after a snapshot, each with the
  source or without one; two tasks and the final save to overlap; one kind of fault
  that nothing has repaired, so that each anomaly is met alone.  Sources do not touch
  each other's counters; the proofs are for any number.

## 4. Fairness and deadlock

* Supervisor: weak fairness of the supervisor's own steps (the daemon's loop
  never blocks for ever: every Docker call and health poll has a time-out) and
  of `Restart` (launchd `KeepAlive`, systemd `Restart=always`).  Nothing is
  assumed of users, Docker or the disk: every call and every removal of the request
  file may fail every time.  So a request file need not go away;
  `PendingIsRetried` says that it is worked through again and again.
* Federated query: weak fairness of the handler (the event loop) and of the
  answer of the sources in `Timed`, those whose connector bounds the time of a
  query.  The MySQL connector bounds the connection only, so for it `Answered`
  rests on the server's own limits.
* Execution: weak fairness of each request's own steps, except where it waits for
  a driver without a time-out (`Awaits`).  MongoDB bounds all it does
  (`socketTimeoutMS`), asyncpg the making of a connection, its pool the statements
  too (`command_timeout`).  aiomysql bounds the TCP connect only, a direct asyncpg
  connection no statement, SQLite no query.  `EveryRequestAnswered` excuses a
  request while it waits there, and no other one: once the driver has answered or
  raised, the request must go on to its end.
* Sources: the same.  A host outside `Timed` can hold a test, a discovery or a probe
  for as long as it likes, and a probe that has written holds SQLite's write lock
  meanwhile.  `EveryRequestEnds` excuses the request that waits; the others end all
  the same, for SQLite gives a writer up after its busy time-out (`Busy`).
* Usage: weak fairness of the save tasks, of the end of a clear, of shutdown and
  of the restart.  A save may fail every time; `SavedEventually` then excuses it.
* `CHECK_DEADLOCK FALSE` everywhere: an idle supervisor waits for a request, and
  requests are bounded; the registry's ids are; a federated request and a typed text end.

## 5. Proofs

All theorems hold for every value of the constants that satisfies the named
`ASSUME`s.  These are type declarations and what the code checks before it comes
to the modelled part (`CasesAssumption`).  Where a theorem needs more, it is a
hypothesis of the theorem and named below.  Every safety property a run checks
is a theorem, but for `WhereIsPrecedence` (the end of this section).

**Supervisor** (`SupervisorProofs`).  The invariants are not inductive: that
`completed` is true of the node depends on what the supervisor knew several
steps earlier.  `IInv` adds, to the types and the invariants themselves,

* `SameFiles`: with a shared directory the two copies agree;
* `ProperRequests`: a request's target is not the version it was made at, which
  is why `CheckVersion` cannot take a recorded version for the target;
* `JobKnown`, `StatusKnown`: at each location, what the locals hold and which
  status is on disk — the update API touches nothing in a critical state, so the
  status the supervisor last wrote is still there;
* `ImageKnown`: at each location, which image runs — only the supervisor
  changes it.

`Invariance` proves `Spec => []IInv`, split into the preservation of the types
(`TypeStep`), of the files (`FilesStep`), of the supervisor's knowledge
(`KnowledgeStep`) and of the truth of the status (`TruthStep`), one case per
action.  From it: `TypeCorrect`, `CompletedIsTrue`, `RolledBackIsTrue`,
`CriticalIsOwned`, `ReplacementIsAnnounced`, `OnlyRunningIsPersisted`,
`OnlyReachedIsAnnounced`, and
`Refinement` (`Spec => ImplementsLifecycle`).  Those about the truth of the status, and the
refinement, assume `Shared`; without it a status that was copied earlier comes
back from the container and describes the past.

**Registry** (`MappingRegistryProofs`).

* `TypeCorrect`, with `Claimed` (an id is taken before its row is inserted).
* `DeletedMappingsStayDeleted`: only `Insert` adds a row, whatever requests
  overlap.
* `SequentialOneActive`: one ACTIVE mapping per source, for any number of
  mappings and sources and every operation, if requests do not overlap and no
  client PUTs ACTIVE.  The strengthening is `Current`: what a request has read
  is still true when it writes — which is what a second session breaks, and
  `registry_race` shows it.
* `SequentialHandOver`: if requests do not overlap and clients PUT DRAFT and
  ERROR only, an ACTIVE mapping that is not being validated becomes VALIDATED
  only in the commit that activates another mapping of its source.
* `ServiceIsChecked`: whatever the operations, their order and their overlap,
  every VALIDATED or ACTIVE mapping that is not tainted has the content that passed
  validation, and a content that is not empty.  There is no hypothesis: the calls by
  which a mapping can get into service unchecked are in the model, and the property
  says which mappings they concern and how they are mended.  The strengthening
  `Founded` gives, for each request between two of its awaits, the reason why the
  row it will write may say VALIDATED or ACTIVE (`Reasons`): its own verdict, or the
  status it read; and that what it has loaded of an untainted mapping, content, status
  or row, is still so (`Stands`).

**Federated query** (`FederatedQueryProofs`), for every set of sources,
mappings, tables and queries, whatever others change meanwhile.

* `TypeCorrect`: the types of the request, of its plans and of its rows, from what
  planning, execution and the merge make (`LowerTyped`, `ExecuteTyped`,
  `MergeTyped`).
* `FailuresAreIsolated`.  `NothingRuns` (no source has answered before execution
  begins) makes it inductive.
* `AnswersArePages`: `NamesAreClear => (Spec => []AnswerIsPage)`.  The hypothesis
  is about names only: a mapping gives two fields two names and two columns and
  no field the name of another one's column; a table has no column with the name
  of a field kept elsewhere; clients name fields; every field of a sort is
  projected.  Where it fails the answer can be wrong (section 6), so it cannot be
  dropped.  The argument:
  1. *Places.*  In a finite total order the places are 1, 2, ... (`Places`); so
     `StableSort` and `AllRows`, which are defined by places, are permutations in
     order (`Enumerates`, `StableSorts`).  `Before` is a strict weak order
     (`BeforeOrders`: two rows are compared at the first clause that tells them
     apart).
  2. *Pushdown* (`PageOfAll`).  Let a source hold back a row.  Then it sent
     OFFSET + LIMIT rows, none after that row.  If the row preceded entry *k* of
     the merged list, *k* at most OFFSET + LIMIT, all those rows would too, and
     they would fill more than the *k* - 1 places before it.  So the rows before
     an entry of the page have all been sent.
  3. *Names* (`ResolvesToMeaning`, `NormalizeKeeps`, `RowIsMeant`).  A name
     resolves to the column that holds it, no two columns of a result get one
     name, and a renamed row has every field with its value.
  4. *Sources* (`DatabaseAnswers`, `ExecuteAnswers`).  The filter, order and limit
     of a plan are those of the query.
  5. *Merge* (`MergeGetsInput`, `MergeSorts`, `MergedPlaces`, `MergeIsPage`).
     Concatenating, projecting, sorting and cutting gives the page.

  The inductive invariant `PageInv` carries this from step to step: the registry
  stays clear whatever is altered (`RegistryIsClear`), candidates know the names
  of the query (`PlanningGoesOn`), every plan means what the query means, be it
  made with the source's mapping or with the ephemeral one of path B
  (`PlansAreClear`), and every source that answered sent a good answer
  (`AnswersAreGood`), although its table was altered before or after.

**Lowering** (`PredicateLoweringProofs`), for all values, tables and queries of
the four dialects.  There is one step, so the work is in the operators.
`Agrees(t, b, v)` relates what a database answers to what the language means: true
for the same values, unknown for NULL only; `Decides` is the two-valued form of
MongoDB.  One lemma per form of operand and dialect, put together for a value
set, a field and a tree (`FieldAgrees`), then for the rows of a statement.  SQLite
is reduced to MySQL: where the order of the texts is the order of time, its answer to
a field is MySQL's (`TextCompare`, `DayText`, `RangeText`, `SqliteAsMySql`), and the
`Exact...` operators name those forms.  From it `MutationsAreExact`, `NegationsNeverAdd` and, with the order of rows and NULLs
of each dialect, `ReadsArePages`; `TypeCorrect`.  `CreatesKeepRecords`: an INSERT
for each set of assigned columns stores every record once, with its values and
NULL elsewhere.  The grouping is a loop, written as a recursive function of the
number of records seen; that after *n* of them the groups cut the first *n*
records without overlap (`GroupsCut`) is shown for the least *n* for which it
would fail.

**Execution** (`ExecutionProofs`), for any requests, keys, sources and number of
statements.  `IInv` says for each request, at each place, what is durable and
what is in an open transaction (`Progress`; of an unordered insert any part may be
durable), what was counted (`Accounts`), what
is open (`Handles`), that a key which was not in force when the request arrived
never comes back into force (`Admitted`), and what the gates it has passed let
through (`Gated`).  From it `TypeCorrect`, `MutationsAreAllOrNothing`,
`AnswersAreTrue`, `EffectsAreAllowed`, `RevokedKeysStayOut`, `NoRequestLeaks`.

**Sources** (`SourceRegistryProofs`), for any sources, names and sessions.  What
a session carries from one await to the next (`Carries`): the row it read, who
answered it, whether it is still alone.  `TypeCorrect`, `RowsStaySound`,
`LoneUpdatesAreExact`, `NothingEverReturns`.

**Usage** (`UsageTrackerProofs`), for any number of sources, save tasks and
operations, with a source or without.  Memory, the copies of the saves under way and
the tables must be related all at once: one save at a time holds a copy unless an
overlap is named (`OneHolder`); what memory counts is saved, late or about to be
saved (`Unsaved`); each copy balances and lies between the tables and memory
(`Ledger`); none holds what was cleared (`Gone`); totals and logs have the same
minutes (`Filing`); the final save has all that no older copy lacks (`Final`).  From
`Invariance`: `TypeCorrect`, `UnsavedOperationsAreLate`, `LedgersBalance`,
`ClearsAreFinal`, `ReportsAreAccurate` (with the arithmetic of windows and steps, the
first minute included), and `CountedOperationsSurvive`, which excuses no anomaly: what
the final save leaves out was recorded while a save held an older copy, whatever
failed, overlapped or was cleared before.

**Versions** (`SupervisorProofs`), for all versions, releases and channels; there
is no run, for nothing here has steps.

* `StrictTotalOrder`: `SemVer.__lt__` is irreflexive, transitive and total, so
  the sort of the resolver means something and the supervisor's model may take
  versions for numbers.  The argument is about the first place where two
  pre-releases differ (`FirstDifference`, from the well-foundedness of `<`).
* `UpgradeIsFinal`: an upgrade has at most one target, and the node that runs it
  is offered nothing more by the same releases.  When no channel is asked for,
  the channel of the new version counts from then on; `AllowedTransitive` is why
  it never allows what the old one did not.
* `UpgradeIsFound`: of finitely many releases there is a target whenever one of
  them is newer and allowed.  The release with the fewest others above it has
  none above it (`HighestVersion`).

**Language** (`AltrQLLanguageProofs`), for texts of any length and nesting, any
names, literals and schema.  One step, so again the work is in the operators.
`Reads(ts, r, i, V, S)` says of a result *r* that it is an error at a place from *i*
on, or a value of *V* read from the tokens before its place, among which none of
the counted tokens (`Marks`) occurs but those of *S*.  Results chained by `Then`
read what their parts read (`ReadsThen`), so one lemma per parser function says
what it reads, in the order of the grammar:

1. *Loops.*  If every round keeps a property, a loop ends with the property
   (`LoopExists`, `LoopStays`); if every round that goes on takes a token at least,
   it ends within a text's length (`LoopEnds`).  With them `ListReads` (items with
   commas, each with as many `AS` or `:` as `Times` counts), `BatchReads`,
   `OrderingReads`, and theorem `LoopsEnd`: the rounds the model counts are enough.
2. *Conditions.*  `Conditions(ts)` is a record of readers of nodes, whatever the
   number of calls within each other (`CalledReads`, `ConditionsRead`).  Theorem
   `ConditionsAreRecursive`: `Conditions(ts) = Called(ts, Conditions(ts))`, so
   the bound on the calls does not show.  The argument gives every function and
   place the number of calls it needs: four for each token that is left (`Need`), and
   one to four for the function.  A call goes to a place further on, since an
   expression that was read took a token (`AtomicGoesOn`, `Onward`), or to a function
   that needs less; so two records that agree where *n* calls are enough give records that
   agree where *n* + 1 are (`CalledAgree`).
3. *Statements.*  A statement cuts its text into the operation and its payload,
   the conditions, the ordering, the page and the semicolon (`Cut`); each mark can
   occur in one of these parts only, so what a part counts is what the whole text
   has (`Located`, `CutIsKept`).  `ParseOutcome` puts the four statements together.

From it `TypeCorrect`, `NothingTypedIsLost` and, with the checks of the validator
and of the binder for each form of operand (`ElementCompares`, `LeafCompares`),
`LoweredIsTyped`.

Only model-checked:

* the liveness properties (`PendingIsRetried`, `TakenIsAnswered`, `Answered`,
  `SavedEventually`, `EveryRequestAnswered`, `EveryRequestEnds`): fairness and
  ENABLED are out of the prover's reach;
* `WhereIsPrecedence`: that two readings of a condition give one tree, for every
  text, needs an induction over the text in which both are unfolded.  The parser's
  side of it is `ConditionsAreRecursive`, but the reference is a RECURSIVE operator.

What the proofs changed in the models.  A query that takes a page was wrongly
covered by the second part of `NegationNeverAdds`, which is about all rows
(`Whole`).  Two `CASE`s had arms that overlap, and a compound constraint without
constraints was allowed, which the parser refuses.  A missing parenthesis in
`ApiKeys` let a conjunct apply to one of two alternatives only.  The merged list
and the ephemeral mapping are now defined without operator arguments, by places
and by enumeration; the grouping of records and the parser, which were RECURSIVE
operators and a fold, are recursive functions, and conditions have become
sequences of nodes (the old and the new parser were compared on every text of the
run).  The types of the federated query say that a result has a length.  None of these hid a disagreement of the code with a
property.

## 6. Where code and text disagree

Two have a run whose counterexample shows them:

1. `supervisor_cancel`: an update cancelled in `staging` is applied; the
   supervisor does not look at the request again after the pull.
2. `registry_race`: two concurrent activations leave two ACTIVE mappings of one
   source, against the invariant stated in `activate_source_mapping`.

Seen in the models, without a run of their own.

*Supervisor.*

* An update that `reconcile_startup_state` finds completed, or that ends on the
  already-running branch, is never written to `.env` and the compose file
  (`supervisor.py:914`), although line 530 promises that "reboot/restart retains
  updated version": the next `compose up` starts the old image.
* A crash between the final status and the cleanup runs a finished request
  again (`supervisor.py:794`).  It ends well: `CompletedMeansRunning` holds.
* A request submitted between the final status and the cleanup is deleted unread
  (`supervisor.py:518`) and its status stays `requested`; this is why
  `TakenIsAnswered` starts from a request that was read.
* A request file that cannot be removed (`supervisor.py:517-520` ignores the error)
  is run again every two seconds.  Nothing counts the attempts.

*Registry.*

* A PUT of ACTIVE to a validated mapping does not demote the others
  (`registry_service.py:345`).
* Field and entity edits other than an added entity leave VALIDATED and ACTIVE
  as they are (`registry_service.py:423`); a PUT of VALIDATED asks for no
  validation.
* Validating an ACTIVE mapping makes it VALIDATED, which takes it out of service;
  hence the second disjunct of `HandOver`.
* Nothing makes versions unique under concurrency, and deletions leave the rows
  that refer to the deleted one.

*Federated query.*

* A federated sort by a field that is not projected is no sort: `merger.py:184`
  drops the field before line 226 orders the rows (`HiddenSort`).
* Under a wildcard a column outside the mapping overwrites the logical field of
  the same name (`merger.py:60`, `NamesSetups`), although line 30 says such
  fields "are excluded in logical mode".
* A source whose snapshot lacks a mapped column fails the whole federated request
  (`planner.py:188`); `README.md:81` says "individual source failures do not
  crash federated requests".
* Strings are ordered by each database's collation when a source cuts its rows and
  by code points in the merge (`merger.py:91`); values are numbers in the model.
* Of two logical fields mapped to one column, a wildcard returns the later only.
* A candidate skipped by the planner is reported neither as included nor as
  excluded.

*Lowering* (the forms the `Exact...` operators leave out).

* SQL's `NOT` drops rows with a NULL in a compared column, MongoDB's keeps them;
  `docs/altrql/specification.md:22` promises two-valued logic.  `NegationNeverAdds`
  says how far apart they are.
* With a range the SQL dialects ignore the operator: `!= 1..5` is `BETWEEN`
  (`postgres.py:303`).
* `!=` and NULL inside a constraint of a set are SQL's own; PostgreSQL's `!=` with a
  day, `TODAY` or `NOW` lacks `OR IS NULL`, its `!=` sets drop compounds and compare
  a day with its midnight; `!=` with a date is no day range.
* SQLite compares dates as text.  On a timestamp column with a space before the time,
  as SQLite writes it, `= @day` selects the rows of the *next* day, and in an UPDATE or
  DELETE touches them: the bounds of the day are written with a `T`
  (`sqlite.py:71-76`), and every timestamp of the day itself, with its space, comes
  before them.  The specification calls the range half-open
  (`docs/altrql/specification.md:34`).  The same holds of a day in a set.
* Also on SQLite, a day or `TODAY` is right with `<` and `>=` only on a timestamp
  column, for no timestamp has the text of a day; `NOW` is right on timestamps with a
  space only (on a date column it differs at midnight).
* MySQL and SQLite bind NULL for `TODAY` and `NOW` in a set; SQLite raises for a
  compound in an `=` set (`sqlite.py:353`).
* MongoDB keeps the last of two constraints with one operator, drops NULL rows for
  a `!=` set with a range, and cannot encode a date-only literal.
* PostgreSQL's TOP and BOTTOM have no NULLS clause; `OFFSET` without `LIMIT` is
  malformed on MySQL and SQLite.

*Language.*

* A second SORT or TOP silently replaces the first; a second LIMIT is an error.
* A comma is AND with AND's precedence; two conditions side by side are an AND
  that binds loosest, at the outer level of a block only; the comma branch of
  `_parse_where_block` is therefore never reached.
* Operands of nested paths are not type-checked.
* `docs/altrql/specification.md` shows `@YYYY-MM-DDTHH:MM:SSZ`, `TOP <limit>` and
  an optional ASC or DESC; the grammar takes dates only, wants `TOP n BY field`
  and a direction.

*Execution and keys.*

* MongoDB mutations are no transactions (`mongodb/connector.py:324`): a failed
  CREATE of several records leaves the first ones, or any of them if a native command
  asks for an unordered insert (`mongodb/connector.py:322`), although
  `docs/altrql/specification.md:65` says "Batch mutations execute inside an atomic
  transaction".  `AllOrNothing` says what remains true.
* An answer of failure does not mean that nothing was applied: the commit may have
  been done, or usage may have failed to be counted after it.
* A MySQL statement, a statement on a direct PostgreSQL connection and a SQLite query
  have no time-out (`mysql/connector.py:102-113`, `postgres/connector.py:116-123`): a
  server that does not answer holds the request for ever.
* A mapping named by the client is not compared with the source it names; a source
  deleted between the checks raises an error the route does not catch.
* `security.py` says keys are required once any "have ever been registered"; the
  code counts the active ones, so revoking the last key opens the node again.

*Sources and usage.*

* Two concurrent PUTs can lose an update, and a PUT can undo the status of a test;
  hence *lone* in `LoneUpdateIsExact`.  A changed host keeps its status.
* `list_sources?probe=true` keeps SQLite's write lock from its first status to its
  commit, while it waits for the other sources.  MySQL bounds the TCP connect only
  (`mysql/connector.py:145`), so one that stalls makes every writer of the metadata
  database fail until it answers.
* Deleting a source leaves its snapshots (`repository.py:109`), although the route
  says "and its associated schema snapshots".
* An operation recorded after the snapshot of a save and before its flag is reset
  is saved only with the next one (`usage_tracker.py:67`).
* A save task that is still writing when the node stops can write its older copy over
  the final save; what was recorded meanwhile is then lost (`CountedSurvives`).
* A clear over a save comes back.  A failed load is followed by a save of what little
  there is, and one that fails after the totals leaves a node without its log.
* A save whose copy has no operation of a source leaves that source's row as it is
  (`Upsert`), so two saves that commit in the other order can leave a source's row
  ahead of the node's.

## 7. Not modelled

* Supervisor: the start/stop/status commands, among them the PID file that two
  starts can both find free (`supervisor.py:1017`); log files, message texts, the
  parsing of image names (an unreadable request is `valid = FALSE`).
* Registry: renaming, models other than one, listing and resolution (its result
  is modelled in `FederatedQuery`).
* Federated query: mutations (rejected before planning), aliases, case and plural
  matching, collations, values that cannot be compared; a PUT of the entity
  mappings during a request.
* Language: the lexer (characters to tokens) and the MongoDB shell syntax of
  `shell_parser.py`, pure functions of strings.
* Drivers and Docker: what they may answer is nondeterminism.
* The installer in Go and the dashboard in Dart: the version switch of the one
  and the overlapping polls of the other are hazards listed in `PROJECT.json`;
  both work on the supervisor's files and status from outside.
* The texts of versions and channels, migrations, encryption, URL resolution: pure
  or sequential.  User interfaces, feedback, health, start-up, packaging scripts: no
  state of their own, or presentation only.

## 8. Plan

Modelled, in this order because of what is at stake: the supervisor (the node
itself), the mapping registry (what queries mean), the federated query (what they
answer), the lowering and the language (the same on one source), execution with
keys and connectors (what a mutation does), sources, usage, versions.

Proved: every safety property of the runs but `WhereIsPrecedence`, and the
refinement of `UpdateLifecycle` (section 5).

Worth proving next: that a bigger text never changes what a condition before it
means, as a step towards `WhereIsPrecedence` for every text; liveness, with a
prover that knows ENABLED.

Models worth adding: the daemon commands and two daemons on one host;
the dashboard's polls against the supervisor; `SwitchVersion` of the installer
with each step failing; a PUT of entity mappings during a federated request.
