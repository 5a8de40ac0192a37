---------------------------- MODULE SourceRegistry ----------------------------
(***************************************************************************)
(* The registered data sources and their schema snapshots: the requests of *)
(* routes/sources.py through SourceService, SchemaService and the          *)
(* repository, each in a session of its own on the metadata database.      *)
(*                                                                         *)
(* Reading opens no transaction: two reads of one request may see two      *)
(* states.  What a request writes is flushed and committed together; only  *)
(* a probe of all sources writes, goes on waiting for connections, and     *)
(* commits at the end, with SQLite's write lock in its hand.  A host stands *)
(* for everything a connection needs besides the password.                 *)
(***************************************************************************)
EXTENDS Integers, FiniteSets

CONSTANTS
    Sources,     \* identifiers, each given out once (UUIDs)
    Names, Hosts, Passwords,
    Timed,       \* the hosts whose connector bounds the time of all it does
    Sessions,    \* requests under way at once
    Creations,   \* what a POST may ask for
    Edits,       \* what a PUT may ask for
    InitialRows, \* the sources registered at the start
    MaxRequests, \* bound: requests
    MaxSwings    \* bound: hosts that come up or go down

Blank == ""       \* a password of blanks
Keep == "None"    \* a field the client did not send
Fields == {"name", "host", "password", "status"}
Absent == [f \in Fields |-> "absent"]
Free == "free"

Statuses == {"UNKNOWN", "ACTIVE", "UNREACHABLE"}
Rows == [name : Names, host : Hosts, password : Passwords \cup {Blank}, status : Statuses]

\* A task of a probe: still to read the row, a host to connect to, the answer,
\* and what became of the update.
Settled == {"raised", "wrote ACTIVE", "wrote UNREACHABLE"}
TaskStates == {"get", "ACTIVE", "UNREACHABLE"} \cup Settled

ASSUME SourcesAssumption ==
    /\ MaxRequests \in Nat /\ MaxSwings \in Nat
    /\ Keep \notin Names \cup Hosts \cup Passwords /\ Blank \notin Names \cup Hosts \cup Passwords
    /\ Timed \subseteq Hosts
    /\ Free \notin Sources \cup Sessions /\ Hosts \cap TaskStates = {}
    /\ Creations \subseteq [name : Names, host : Hosts, password : Passwords \cup {Blank}]
    /\ Edits \subseteq [name : Names \cup {Keep}, host : Hosts \cup {Keep},
                        password : Passwords \cup {Keep, Blank}]
    /\ InitialRows \in [Sources -> Rows \cup {Absent}]
    /\ \A s, t \in Sources : InitialRows[s] # Absent /\ InitialRows[s].name = InitialRows[t].name => s = t

VARIABLES
    row,        \* row[s]: the committed row of s, or Absent
    snapshots,  \* committed rows of schema_snapshots: [source, host, at]
    up,         \* the hosts that answer
    used,       \* identifiers given out
    now,        \* the clock: counts discoveries
    session,    \* session[r]: a request and what it has read
    lock,       \* the session that holds the write lock, or Free
    requests, swings,
    seen,       \* <<s, status>> for the answers of connectors (history)
    alone       \* alone[r]: nobody else wrote r's row since r read it (history)

history == <<seen, alone>>
vars == <<row, snapshots, up, used, now, session, lock, requests, swings, history>>

Ready == [pc |-> "idle", op |-> "none", s |-> Free, in |-> Absent, first |-> Absent, target |-> Absent,
          second |-> Absent, found |-> "UNKNOWN", host |-> Keep, at |-> 0, tasks |-> [s \in {} |-> "get"]]

Present == {s \in Sources : row[s] # Absent}

Init ==
    /\ row = InitialRows /\ used = Present
    /\ snapshots = {} /\ up = Hosts /\ now = 0
    /\ session = [r \in Sessions |-> Ready]
    /\ lock = Free /\ requests = 0 /\ swings = 0
    /\ seen = {<<s, row[s].status>> : s \in Present} /\ alone = [r \in Sessions |-> TRUE]

At(r, op, pc) == session[r].op = op /\ session[r].pc = pc

\* The request ends: its session is closed, committed or rolled back.
End(r) == session' = [session EXCEPT ![r] = Ready]
Reads == UNCHANGED <<row, snapshots, up, used, now, lock, requests, swings, history>>

Begin(r, op, s, in, pc) ==
    /\ session[r] = Ready /\ requests < MaxRequests
    /\ requests' = requests + 1
    /\ session' = [session EXCEPT ![r] = [Ready EXCEPT !.op = op, !.s = s, !.in = in, !.pc = pc]]
    /\ UNCHANGED <<row, snapshots, up, used, now, lock, swings, history>>

\* The unique index on sources.name, and get_by_name.
NameFree(n, s) == \A t \in Present \ {s} : row[t].name # n

\* One statement and its commit; whoever else has read the row is not alone.
Write(r, s, new) ==
    /\ lock = Free
    /\ row' = [row EXCEPT ![s] = new]
    /\ alone' = [q \in Sessions |-> alone[q] /\ (q = r \/ session[q].s # s \/ new = row[s])]

\* The outcome of a connection to a host; every await of a connector is here.
Answers(host) == IF host \in up THEN "ACTIVE" ELSE "UNREACHABLE"

-----------------------------------------------------------------------------
(* POST /sources *)

\* The identifier is a new UUID.
CreateBegin(r, s, in) ==
    /\ session[r] = Ready /\ requests < MaxRequests /\ s \notin used
    /\ requests' = requests + 1 /\ used' = used \cup {s}
    /\ session' = [session EXCEPT ![r] = [Ready EXCEPT !.op = "create", !.s = s, !.in = in, !.pc = "check"]]
    /\ UNCHANGED <<row, snapshots, up, now, lock, swings, history>>

\* The name is checked, then, if the client asks for it, the connection.
CreateCheck(r) ==
    /\ At(r, "create", "check")
    /\ IF ~NameFree(session[r].in.name, session[r].s) THEN End(r) /\ UNCHANGED seen
       ELSE \E st \in {"UNKNOWN", Answers(session[r].in.host)} :
              /\ session' = [session EXCEPT ![r].pc = "insert", ![r].found = st]
              /\ seen' = seen \cup {<<session[r].s, st>>}
    /\ UNCHANGED <<row, snapshots, up, used, now, lock, requests, swings, alone>>

Insert(r) ==
    /\ At(r, "create", "insert")
    /\ LET in == session[r].in
           new == [name |-> in.name, host |-> in.host, password |-> in.password, status |-> session[r].found]
       IN  IF NameFree(in.name, session[r].s) THEN Write(r, session[r].s, new)
           ELSE UNCHANGED <<row, alone>>    \* IntegrityError
    /\ End(r)
    /\ UNCHANGED <<snapshots, up, used, now, lock, requests, swings, seen>>

-----------------------------------------------------------------------------
(* PUT /sources/{id} *)

\* Mutant: a password of blanks replaces the one there is.
EditBlank(old, in) ==
    [f \in Fields |-> IF f \in DOMAIN in /\ in[f] # Keep THEN in[f] ELSE old[f]]

\* The domain object after the assignments of update_source.
Edit(old, in) ==
    [f \in Fields |-> IF f \in DOMAIN in /\ in[f] \notin {Keep, Blank} THEN in[f] ELSE old[f]]

UpdateBegin(r, s, in) == Begin(r, "update", s, in, "first")

UpdateRead(r) ==
    /\ At(r, "update", "first")
    /\ LET s == session[r].s  old == row[session[r].s]
       IN  IF old = Absent THEN End(r) /\ UNCHANGED alone
           ELSE /\ session' = [session EXCEPT
                     ![r].first = old, ![r].target = Edit(old, session[r].in),
                     ![r].pc = IF session[r].in.name \in {Keep, old.name} THEN "second" ELSE "name"]
                /\ alone' = [alone EXCEPT ![r] = TRUE]
    /\ UNCHANGED <<row, snapshots, up, used, now, lock, requests, swings, seen>>

UpdateCheckName(r) ==
    /\ At(r, "update", "name")
    /\ IF NameFree(session[r].in.name, session[r].s)
       THEN session' = [session EXCEPT ![r].pc = "second"]
       ELSE End(r)
    /\ Reads

\* repository.update selects the row again.
UpdateReadAgain(r) ==
    /\ At(r, "update", "second")
    /\ LET current == row[session[r].s]
       IN  IF current = Absent THEN End(r)
           ELSE session' = [session EXCEPT ![r].second = current, ![r].pc = "flush"]
    /\ Reads

\* The columns that differ from the second read are written; a password that
\* is not empty always is, for its encryption differs every time.
Flushed(current, second, target) ==
    [f \in Fields |-> IF (f = "password" /\ target[f] # Blank) \/ target[f] # second[f]
                      THEN target[f] ELSE current[f]]

\* Mutant: the row is written whether it is there or not.
UpdateUpsert(r) ==
    /\ At(r, "update", "flush")
    /\ LET s == session[r].s
           new == IF row[s] = Absent THEN session[r].target ELSE Flushed(row[s], session[r].second, session[r].target)
       IN  IF NameFree(new.name, session[r].s) THEN Write(r, session[r].s, new)
           ELSE UNCHANGED <<row, alone>>
    /\ End(r)
    /\ UNCHANGED <<snapshots, up, used, now, lock, requests, swings, seen>>

\* A row that is gone raises StaleDataError, a name that is taken IntegrityError.
UpdateFlush(r) ==
    /\ At(r, "update", "flush")
    /\ LET s == session[r].s
           new == Flushed(row[s], session[r].second, session[r].target)
       IN  IF row[s] # Absent /\ NameFree(new.name, s) THEN Write(r, s, new)
           ELSE UNCHANGED <<row, alone>>
    /\ End(r)
    /\ UNCHANGED <<snapshots, up, used, now, lock, requests, swings, seen>>

-----------------------------------------------------------------------------
(* DELETE /sources/{id}: one statement, and no snapshot goes with the row *)

DeleteBegin(r, s) == Begin(r, "delete", s, Absent, "delete")

Delete(r) ==
    /\ At(r, "delete", "delete")
    /\ Write(r, session[r].s, Absent)
    /\ End(r)
    /\ UNCHANGED <<snapshots, up, used, now, lock, requests, swings, seen>>

-----------------------------------------------------------------------------
(* POST /sources/{id}/test and /schema/discover *)

TestBegin(r, s) == Begin(r, "test", s, Absent, "get")
DiscoverBegin(r, s) == Begin(r, "discover", s, Absent, "get")

GetById(r) ==
    /\ session[r].op \in {"test", "discover"} /\ session[r].pc = "get"
    /\ IF row[session[r].s] = Absent THEN End(r)
       ELSE session' = [session EXCEPT ![r].host = row[session[r].s].host, ![r].pc = "connect"]
    /\ Reads

TestConnection(r) ==
    /\ At(r, "test", "connect")
    /\ LET st == Answers(session[r].host)
       IN  /\ session' = [session EXCEPT ![r].found = st, ![r].pc = "save"]
           /\ seen' = seen \cup {<<session[r].s, st>>}
    /\ UNCHANGED <<row, snapshots, up, used, now, lock, requests, swings, alone>>

\* The time of a snapshot is that of the discovery; a failure ends the request.
DiscoverSchema(r) ==
    /\ At(r, "discover", "connect")
    /\ IF session[r].host \notin up THEN End(r) /\ UNCHANGED <<now, seen>>
       ELSE /\ now' = now + 1
            /\ session' = [session EXCEPT ![r].found = "ACTIVE", ![r].at = now', ![r].pc = "save"]
            /\ seen' = seen \cup {<<session[r].s, "ACTIVE">>}
    /\ UNCHANGED <<row, snapshots, up, used, lock, requests, swings, alone>>

\* update_status: nothing happens to a row that is gone.
WithStatus(s, st) == IF row[s] = Absent THEN Absent ELSE [row[s] EXCEPT !.status = st]

\* Mutant: a test that was answered at all counts as a success.
SaveStatusActive(r) ==
    /\ At(r, "test", "save")
    /\ Write(r, session[r].s, WithStatus(session[r].s, "ACTIVE"))
    /\ End(r)
    /\ UNCHANGED <<snapshots, up, used, now, lock, requests, swings, seen>>

SaveStatus(r) ==
    /\ At(r, "test", "save")
    /\ Write(r, session[r].s, WithStatus(session[r].s, session[r].found))
    /\ End(r)
    /\ UNCHANGED <<snapshots, up, used, now, lock, requests, swings, seen>>

\* Foreign keys are not enforced: the source may be gone.
SaveSnapshot(r) ==
    /\ At(r, "discover", "save")
    /\ Write(r, session[r].s, WithStatus(session[r].s, session[r].found))
    /\ snapshots' = snapshots \cup {[source |-> session[r].s, host |-> session[r].host, at |-> session[r].at]}
    /\ End(r)
    /\ UNCHANGED <<up, used, now, lock, requests, swings, seen>>

\* get_latest_schema: the greatest discovered_at.
Latest(s) ==
    LET mine == {x \in snapshots : x.source = s}
    IN  {x \in mine : \A y \in mine : y.at <= x.at}

-----------------------------------------------------------------------------
(* GET /sources?probe=true: all sources are tested at once in one session *)

ProbeBegin(r) ==
    /\ session[r] = Ready /\ requests < MaxRequests /\ Present # {}
    /\ requests' = requests + 1
    /\ session' = [session EXCEPT ![r] = [Ready EXCEPT !.op = "probe", !.pc = "gather",
                                           !.tasks = [s \in Present |-> "get"]]]
    /\ UNCHANGED <<row, snapshots, up, used, now, lock, swings, history>>

Task(r, s, st) == At(r, "probe", "gather") /\ s \in DOMAIN session[r].tasks /\ session[r].tasks[s] = st
Becomes(r, s, st) == session' = [session EXCEPT ![r].tasks[s] = st]

\* get_source; a source that is gone raises, which gather returns.
ProbeGet(r, s) ==
    /\ Task(r, s, "get")
    /\ Becomes(r, s, IF row[s] = Absent THEN "raised" ELSE row[s].host)
    /\ Reads

ProbeTest(r, s) ==
    /\ At(r, "probe", "gather") /\ s \in DOMAIN session[r].tasks /\ session[r].tasks[s] \in Hosts
    /\ LET st == Answers(session[r].tasks[s])
       IN  Becomes(r, s, st) /\ seen' = seen \cup {<<s, st>>}
    /\ UNCHANGED <<row, snapshots, up, used, now, lock, requests, swings, alone>>

Written == [ACTIVE |-> "wrote ACTIVE", UNREACHABLE |-> "wrote UNREACHABLE"]

\* The first update takes the write lock; or it is busy for too long.
ProbeUpdate(r, s) ==
    /\ At(r, "probe", "gather") /\ s \in DOMAIN session[r].tasks
    /\ session[r].tasks[s] \in {"ACTIVE", "UNREACHABLE"}
    /\ \/ lock \in {Free, r} /\ lock' = r /\ Becomes(r, s, Written[session[r].tasks[s]])
       \/ lock \notin {Free, r} /\ Becomes(r, s, "raised") /\ UNCHANGED lock
    /\ UNCHANGED <<row, snapshots, up, used, now, requests, swings, history>>

Wrote(r) == {s \in DOMAIN session[r].tasks : \E st \in DOMAIN Written : session[r].tasks[s] = Written[st]}
StatusWritten(r, s) == CHOOSE st \in DOMAIN Written : session[r].tasks[s] = Written[st]

\* Mutant: the commit is for a probe in which nothing was raised.
ProbeCommitAllWell(r) ==
    /\ At(r, "probe", "gather") /\ \A s \in DOMAIN session[r].tasks : session[r].tasks[s] \in Settled \ {"raised"}
    /\ row' = [s \in Sources |-> IF s \in Wrote(r) THEN WithStatus(s, StatusWritten(r, s)) ELSE row[s]]
    /\ alone' = [q \in Sessions |-> alone[q] /\ (session[q].s \in Sources => row'[session[q].s] = row[session[q].s])]
    /\ lock' = Free
    /\ End(r)
    /\ UNCHANGED <<snapshots, up, used, now, requests, swings, seen>>

ProbeCommit(r) ==
    /\ At(r, "probe", "gather") /\ \A s \in DOMAIN session[r].tasks : session[r].tasks[s] \in Settled
    /\ row' = [s \in Sources |-> IF s \in Wrote(r) THEN WithStatus(s, StatusWritten(r, s)) ELSE row[s]]
    /\ alone' = [q \in Sessions |-> alone[q] /\ (session[q].s \in Sources => row'[session[q].s] = row[session[q].s])]
    /\ lock' = IF lock = r THEN Free ELSE lock
    /\ End(r)
    /\ UNCHANGED <<snapshots, up, used, now, requests, swings, seen>>

-----------------------------------------------------------------------------

\* A write that finds the database locked until its time is up.
Busy(r) ==
    /\ session[r].pc \in {"insert", "flush", "delete", "save"} /\ lock \notin {Free, r}
    /\ End(r)
    /\ Reads

Swing(h) ==
    /\ swings < MaxSwings /\ swings' = swings + 1
    /\ up' = IF h \in up THEN up \ {h} ELSE up \cup {h}
    /\ UNCHANGED <<row, snapshots, used, now, session, lock, requests, history>>

Request(r) ==
    \/ \E s \in Sources, in \in Creations : CreateBegin(r, s, in)
    \/ \E s \in used : \/ \E in \in Edits : UpdateBegin(r, s, in)
                       \/ DeleteBegin(r, s) \/ TestBegin(r, s) \/ DiscoverBegin(r, s)
    \/ ProbeBegin(r)

Step(r) ==
    \/ CreateCheck(r) \/ Insert(r)
    \/ UpdateRead(r) \/ UpdateCheckName(r) \/ UpdateReadAgain(r) \/ UpdateFlush(r)
    \/ Delete(r) \/ GetById(r) \/ TestConnection(r) \/ DiscoverSchema(r) \/ SaveStatus(r) \/ SaveSnapshot(r)
    \/ \E s \in Sources : ProbeGet(r, s) \/ ProbeTest(r, s) \/ ProbeUpdate(r, s)
    \/ ProbeCommit(r) \/ Busy(r)

Next == (\E r \in Sessions : Request(r) \/ Step(r)) \/ \E h \in Hosts : Swing(h)

Spec == Init /\ [][Next]_vars

\* A request waits for a connector that may never answer: MySQL bounds the TCP
\* connect alone, and a direct connection to PostgreSQL the connecting.
Awaits(r) ==
    \/ At(r, "create", "check") /\ session[r].in.host \notin Timed
    \/ session[r].pc = "connect" /\ session[r].host \notin Timed
    \/ \E s \in DOMAIN session[r].tasks : session[r].tasks[s] \in Hosts \ Timed

\* The event loop runs what is ready, the database answers within its busy
\* timeout, and a connector only where it bounds the time.
FairSpec == Spec /\ \A r \in Sessions : WF_vars(Step(r) /\ ~Awaits(r))

-----------------------------------------------------------------------------
(* Properties *)

Places == {"idle", "check", "insert", "first", "name", "second", "flush", "delete", "get", "connect",
           "save", "gather"}
Operations == {"none", "create", "update", "delete", "test", "discover", "probe"}
Locals ==
    [pc : Places, op : Operations, s : Sources \cup {Free}, in : Creations \cup Edits \cup {Absent},
     first : Rows \cup {Absent}, target : Rows \cup {Absent}, second : Rows \cup {Absent},
     found : Statuses, host : Hosts \cup {Keep}, at : Nat,
     tasks : UNION {[S -> TaskStates \cup Hosts] : S \in SUBSET Sources}]

\* Types; the lock is held by a probe that has written.
TypeOK ==
    /\ row \in [Sources -> Rows \cup {Absent}] /\ Present \subseteq used /\ used \subseteq Sources
    /\ snapshots \subseteq [source : Sources, host : Hosts, at : Nat] /\ now \in Nat
    /\ up \subseteq Hosts /\ session \in [Sessions -> Locals] /\ lock \in Sessions \cup {Free}
    /\ requests \in 0..MaxRequests /\ swings \in 0..MaxSwings
    /\ seen \subseteq Sources \X Statuses /\ alone \in [Sessions -> BOOLEAN]
    /\ lock # Free => At(lock, "probe", "gather") /\ Wrote(lock) # {}

\* Two sources never have the same name, however creations and renamings race
\* between their check and their write, and a status other than UNKNOWN is one
\* that a connection to the source once had.
RowsAreSound ==
    /\ \A s, t \in Present : row[s].name = row[t].name => s = t
    /\ \A s \in Present : row[s].status # "UNKNOWN" => <<s, row[s].status>> \in seen

\* An update that nobody interfered with changes the fields the client sent and
\* no others, the status included.
LoneUpdateIsExact ==
    [][\A r \in Sessions : At(r, "update", "flush") /\ session'[r] = Ready /\ alone[r]
                            /\ NameFree(session[r].target.name, session[r].s) /\ lock = Free =>
         LET s == session[r].s  in == session[r].in
         IN  /\ row[s] # Absent
             /\ row'[s].status = row[s].status
             /\ \A f \in {"name", "host"} : row'[s][f] = IF in[f] = Keep THEN row[s][f] ELSE in[f]
             /\ row'[s].password = IF in.password \in Passwords THEN in.password ELSE row[s].password]_vars

\* What is over does not return: a deleted source stays deleted, whatever was
\* under way on it, and the schema a source is queried with is never replaced by
\* an older one, also when two discoveries are saved in the other order.
NothingReturns ==
    [][/\ \A s \in used \ Present :
            (\A r \in Sessions : session[r].s = s => session[r].op # "create") => row'[s] = Absent
       /\ \A s \in Sources : \A x \in Latest(s), y \in Latest(s)' : y.at >= x.at]_vars

\* Every request ends, and with it the hold of a probe on the database, or waits
\* for a connector that may never answer; a probe that waits so with the write
\* lock in its hand keeps nobody else from the end.
EveryRequestEnds == \A r \in Sessions : session[r] # Ready ~> (session[r] = Ready \/ Awaits(r))
==============================================================================
