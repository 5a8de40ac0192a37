----------------------------- MODULE UsageTracker -----------------------------
(***************************************************************************)
(* The node's usage telemetry (application/usage_tracker.py): operations   *)
(* are counted in memory, a debounced task writes the counters to the      *)
(* metadata database, a restart loads them and a user may clear them.      *)
(*                                                                         *)
(* A counter is modelled by the set of operations it counts.  An operation *)
(* remembers its source (or that it has none), the tick it was recorded    *)
(* at, whether it came late (a save was announced but had already taken    *)
(* its snapshot) and whether it came midsave (some save held a snapshot).  *)
(* Reads and writes have counters of their own that move alike; one is     *)
(* modelled.  A minute is TicksPerMinute ticks.                            *)
(*                                                                         *)
(* anomaly is a history of what can set memory and tables at variance and  *)
(* has not been repaired: a save that wrote all there is repairs failed    *)
(* and overlapping ones, a start forgets what memory lost, a clear that    *)
(* left nothing behind repairs everything.                                 *)
(***************************************************************************)
EXTENDS Integers, FiniteSets

CONSTANTS
    Sources,         \* data sources
    Tasks,           \* save tasks that can be under way at once
    MaxOps,          \* bound: operations recorded
    MaxTime,         \* bound: ticks
    TicksPerMinute,  \* resolution of the clock
    Retention,       \* minutes of log a restart loads (seven days)
    Windows,         \* the windows of get_metrics: [steps, minutes]
    MaxFaults        \* bound: kinds of fault not repaired

ASSUME UsageAssumption ==
    /\ {MaxOps, MaxTime, Retention, MaxFaults} \subseteq Nat
    /\ TicksPerMinute \in Nat \ {0}
    /\ "shutdown" \notin Tasks /\ {"global", "none"} \cap Sources = {}
    /\ \A w \in Windows : w.steps \in Nat \ {0} /\ w.minutes \in Nat \ {0}

VARIABLES
    node,        \* "up", "stopping" or "down"
    now,         \* the clock
    totals,      \* totals[k]: the operations total_reads/total_writes count
    buckets,     \* buckets[k]: the operations in the minute buckets
    recent,      \* the operations in the sliding deque of the last minute
    scheduled,   \* _save_scheduled
    saves,       \* saves[t]: [pc, totals, logs], a save task and its snapshot
    clearing,    \* "no", or "reset": clear_data is past its transaction
    db,          \* [totals, logs]: the tables node_usage and node_usage_logs
    recorded,    \* every operation ever recorded (history)
    cleared,     \* operations recorded before the last clear (history)
    anomaly      \* what has happened and is not repaired (history)

volatile == <<totals, buckets, recent, scheduled, saves, clearing>>
history == <<recorded, cleared, anomaly>>
vars == <<node, now, totals, buckets, recent, scheduled, saves, clearing, db, history>>

Keys == Sources \cup {"global"}
Origins == Sources \cup {"none"}
Nothing == [k \in Keys |-> {}]
Empty == [totals |-> Nothing, logs |-> Nothing]
Idle == [pc |-> "idle", totals |-> Nothing, logs |-> Nothing]
Minute(tick) == tick \div TicksPerMinute

\* The database raises or the process dies.
FaultAfter(past, f) ==
    /\ Cardinality((past \cup {f}) \cap {"save failed", "clear failed", "load failed", "log unread", "crash"})
          <= MaxFaults
    /\ anomaly' = past \cup {f}
Fault(f) == FaultAfter(anomaly, f)

InFlight == {t \in DOMAIN saves : saves[t].pc # "idle"}
Holding == {t \in DOMAIN saves : saves[t].pc = "write"}
Asleep == {t \in DOMAIN saves : saves[t].pc = "sleep"}

Init ==
    /\ node = "down" /\ now = 0
    /\ totals = Nothing /\ buckets = Nothing /\ recent = {}
    /\ scheduled = FALSE /\ clearing = "no"
    /\ saves = [t \in Tasks \cup {"shutdown"} |-> Idle]
    /\ db = Empty
    /\ recorded = {} /\ cleared = {} /\ anomaly = {}

-----------------------------------------------------------------------------
(* Recording *)

\* The counters of the node and, if the operation names one, of the source.
Count(f, op) == [k \in Keys |-> IF k \in {"global", op.source} THEN f[k] \cup {op} ELSE f[k]]

\* _schedule_save: a task is created unless one is announced.
ScheduleSave ==
    IF scheduled THEN UNCHANGED <<scheduled, saves>>
    ELSE \E t \in Tasks : /\ saves[t] = Idle
                          /\ saves' = [saves EXCEPT ![t].pc = "sleep"]
                          /\ scheduled' = TRUE

Record(s) ==
    /\ node = "up" /\ Cardinality(recorded) < MaxOps
    /\ LET op == [id |-> Cardinality(recorded) + 1, source |-> s, at |-> now,
                  late |-> scheduled /\ Asleep = {}, midsave |-> Holding # {}]
       IN  /\ totals' = Count(totals, op)
           /\ buckets' = Count(buckets, op)
           /\ recent' = recent \cup {op}
           /\ recorded' = recorded \cup {op}
    /\ ScheduleSave
    /\ UNCHANGED <<node, now, clearing, db, cleared, anomaly>>

record_read(s) == Record(s)
record_write(s) == Record(s)

-----------------------------------------------------------------------------
(* Saving *)

\* The copy of the counters, made before the first await of save_to_db.
Snapshot(t) ==
    /\ saves' = [saves EXCEPT ![t] = [pc |-> "write", totals |-> totals, logs |-> buckets]]
    /\ anomaly' = anomaly \cup (IF Holding # {} THEN {"overlap"} ELSE {})

\* Mutant: the task waits for the minute to be over.
WakeUpNextMinute(t) ==
    /\ t \in Tasks /\ saves[t].pc = "sleep" /\ \A op \in recent : Minute(op.at) < Minute(now)
    /\ Snapshot(t)
    /\ UNCHANGED <<node, now, totals, buckets, recent, scheduled, clearing, db, recorded, cleared>>

\* Half a second later.
WakeUp(t) ==
    /\ t \in Tasks /\ saves[t].pc = "sleep"
    /\ Snapshot(t)
    /\ UNCHANGED <<node, now, totals, buckets, recent, scheduled, clearing, db, recorded, cleared>>

\* Mutant: the rows of the sources are not written.
UpsertGlobalOnly(rows, copy) == [rows EXCEPT !["global"] = copy["global"]]

\* A row is written for every counter of the copy that is not empty; the row
\* of any other counter stays as it is.
Upsert(rows, copy) == [k \in Keys |-> IF copy[k] = {} /\ k # "global" THEN rows[k] ELSE copy[k]]

\* Log rows are keyed by minute: a minute of the copy replaces the row.
UpsertLogs(rows, copy) ==
    [k \in Keys |-> copy[k] \cup {op \in rows[k] : \A p \in copy[k] : Minute(p.at) # Minute(op.at)}]

\* A save that wrote all there is, with no other copy about, repairs what
\* failed and overlapping saves left.
Repair(t) ==
    anomaly' = anomaly \ (IF Holding = {t} /\ saves[t].totals = totals THEN {"save failed", "overlap"} ELSE {})

\* Mutant: the task's own session is closed without a commit.
SaveUncommitted(t) ==
    /\ saves[t].pc = "write"
    /\ IF t \in Tasks THEN UNCHANGED db
       ELSE db' = [totals |-> Upsert(db.totals, saves[t].totals), logs |-> UpsertLogs(db.logs, saves[t].logs)]
    /\ saves' = [saves EXCEPT ![t] = [Idle EXCEPT !.pc = "finally"]]
    /\ Repair(t)
    /\ UNCHANGED <<node, now, totals, buckets, recent, scheduled, clearing, recorded, cleared>>

save_to_db(t) ==
    /\ saves[t].pc = "write"
    /\ db' = [totals |-> Upsert(db.totals, saves[t].totals), logs |-> UpsertLogs(db.logs, saves[t].logs)]
    /\ saves' = [saves EXCEPT ![t] = [Idle EXCEPT !.pc = "finally"]]
    /\ Repair(t)
    /\ UNCHANGED <<node, now, totals, buckets, recent, scheduled, clearing, recorded, cleared>>

\* An exception of the database is logged and swallowed.
SaveFails(t) ==
    /\ saves[t].pc = "write"
    /\ saves' = [saves EXCEPT ![t] = [Idle EXCEPT !.pc = IF t = "shutdown" THEN "failed" ELSE "finally"]]
    /\ Fault("save failed")
    /\ UNCHANGED <<node, now, totals, buckets, recent, scheduled, clearing, db, recorded, cleared>>

\* The finally of _async_save_wrapper.
ResetFlag(t) ==
    /\ t \in Tasks /\ saves[t].pc = "finally"
    /\ saves' = [saves EXCEPT ![t] = Idle]
    /\ scheduled' = FALSE
    /\ UNCHANGED <<node, now, totals, buckets, recent, clearing, db, history>>

-----------------------------------------------------------------------------
(* Clearing: the deletes are committed, then memory is reset. *)

ClearRows ==
    /\ node = "up" /\ clearing = "no" /\ recorded # {}
    /\ clearing' = "reset"
    /\ \/ /\ db' = Empty
          /\ anomaly' = anomaly \cup (IF Holding # {} THEN {"clear over a save"} ELSE {})
       \/ Fault("clear failed") /\ UNCHANGED db
    /\ UNCHANGED <<node, now, totals, buckets, recent, scheduled, saves, recorded, cleared>>

\* Mutant: the buckets of the sources stay.
ResetGlobalOnly ==
    /\ clearing = "reset"
    /\ totals' = [totals EXCEPT !["global"] = {}] /\ buckets' = [buckets EXCEPT !["global"] = {}]
    /\ recent' = {} /\ scheduled' = FALSE /\ clearing' = "no"
    /\ cleared' = recorded
    /\ UNCHANGED <<node, now, saves, db, recorded, anomaly>>

\* A save that took its copy between the deletes and the reset writes it later.
ClearMemory ==
    /\ clearing = "reset"
    /\ totals' = Nothing /\ buckets' = Nothing /\ recent' = {}
    /\ scheduled' = FALSE /\ clearing' = "no"
    /\ cleared' = recorded
    /\ anomaly' = IF Holding # {} \/ db # Empty THEN anomaly \cup {"clear over a save"} ELSE {}
    /\ UNCHANGED <<node, now, saves, db, recorded>>

-----------------------------------------------------------------------------
(* Starting and stopping (the lifespan of main.py) *)

\* What is not in the tables is forgotten, and what overlapping saves left in
\* them is taken for granted.
Past == (anomaly \ {"save failed", "overlap"}) \cup (IF "overlap" \in anomaly THEN {"stale start"} ELSE {})

load_from_db ==
    /\ node = "down" /\ node' = "up"
    /\ totals' = db.totals
    /\ buckets' = [k \in Keys |-> {op \in db.logs[k] : Minute(op.at) >= Minute(now) - Retention}]
    /\ anomaly' = Past
    /\ UNCHANGED <<now, recent, scheduled, saves, clearing, db, recorded, cleared>>

\* The failure is swallowed: the node starts from zero, or with the totals and
\* no log, and the next save writes that over the rows.
LoadFails ==
    /\ node = "down" /\ node' = "up"
    /\ \/ FaultAfter(Past, "load failed") /\ UNCHANGED totals
       \/ FaultAfter(Past, "log unread") /\ totals' = db.totals
    /\ UNCHANGED <<now, buckets, recent, scheduled, saves, clearing, db, recorded, cleared>>

\* Mutant: no final save.
ShutdownAtOnce ==
    /\ node = "up" /\ clearing = "no" /\ node' = "stopping"
    /\ saves' = [saves EXCEPT !["shutdown"].pc = "finally"]
    /\ UNCHANGED <<now, totals, buckets, recent, scheduled, clearing, db, history>>

\* The final save; requests are over, save tasks may still be under way.
Shutdown ==
    /\ node = "up" /\ clearing = "no" /\ node' = "stopping"
    /\ Snapshot("shutdown")
    /\ UNCHANGED <<now, totals, buckets, recent, scheduled, clearing, db, recorded, cleared>>

Halt ==
    /\ node' = "down"
    /\ totals' = Nothing /\ buckets' = Nothing /\ recent' = {}
    /\ scheduled' = FALSE /\ clearing' = "no"
    /\ saves' = [t \in DOMAIN saves |-> Idle]
    /\ UNCHANGED <<now, db, recorded, cleared>>

\* The process ends when the final save is over; tasks are cancelled.
Exit == node = "stopping" /\ saves["shutdown"].pc \in {"finally", "failed"} /\ Halt /\ UNCHANGED anomaly

Crash == node # "down" /\ Halt /\ Fault("crash")

-----------------------------------------------------------------------------
(* get_metrics *)

\* Mutant: one minute too late.
WindowStartLate(w) == Minute(now) - w.minutes * (w.steps - 1) + 1

\* The first minute of a window: its last step begins at the current minute.
WindowStart(w) == Minute(now) - w.minutes * (w.steps - 1)

\* The operations one step of the series counts.
Step(w, k, i) ==
    {op \in buckets[k] : LET from == WindowStart(w) + w.minutes * (i - 1)
                         IN  from <= Minute(op.at) /\ Minute(op.at) < from + w.minutes}

Pruned == {op \in recent : op.at >= now - TicksPerMinute}

\* Operations per minute: the deque, or the current minute's bucket if the
\* deque has nothing (a node that was restarted).
Rate(k) ==
    LET mine == {op \in Pruned : k \in {"global", op.source}}
    IN  IF mine # {} THEN mine ELSE {op \in buckets[k] : Minute(op.at) = Minute(now)}

\* Asking prunes the deque; the answer is Step and Rate.
get_metrics ==
    /\ node = "up" /\ recent # Pruned
    /\ recent' = Pruned
    /\ UNCHANGED <<node, now, totals, buckets, scheduled, saves, clearing, db, history>>

Tick == now < MaxTime /\ now' = now + 1
          /\ UNCHANGED <<node, volatile, db, history>>

Next ==
    \/ \E s \in Origins : record_read(s) \/ record_write(s)
    \/ \E t \in DOMAIN saves : WakeUp(t) \/ save_to_db(t) \/ SaveFails(t) \/ ResetFlag(t)
    \/ ClearRows \/ ClearMemory
    \/ load_from_db \/ LoadFails \/ Shutdown \/ Exit \/ Crash
    \/ get_metrics \/ Tick

Spec == Init /\ [][Next]_vars

\* The event loop runs every task that is ready, and the node is restarted.
FairSpec ==
    /\ Spec
    /\ \A t \in Tasks : WF_vars(WakeUp(t)) /\ WF_vars(save_to_db(t) \/ SaveFails(t)) /\ WF_vars(ResetFlag(t))
    /\ WF_vars(save_to_db("shutdown") \/ SaveFails("shutdown")) /\ WF_vars(Exit)
    /\ WF_vars(ClearMemory) /\ WF_vars(load_from_db)

-----------------------------------------------------------------------------
(* Properties *)

Ops == [id : Nat \ {0}, source : Origins, at : Nat, late : BOOLEAN, midsave : BOOLEAN]
Kinds == {"save failed", "clear failed", "load failed", "log unread", "crash",
          "overlap", "clear over a save", "stale start"}
Counters == [Keys -> SUBSET recorded]

\* Types; operations are numbered as they are recorded, none in the future.
TypeOK ==
    /\ node \in {"up", "stopping", "down"} /\ now \in 0 .. MaxTime
    /\ scheduled \in BOOLEAN /\ clearing \in {"no", "reset"}
    /\ recorded \subseteq Ops /\ IsFiniteSet(recorded)
    /\ \A op \in recorded : op.at <= now /\ op.id <= Cardinality(recorded)
    /\ recent \subseteq recorded /\ cleared \subseteq recorded
    /\ totals \in Counters /\ buckets \in Counters
    /\ db \in [totals : Counters, logs : Counters]
    /\ saves \in [Tasks \cup {"shutdown"} ->
                    [pc : {"idle", "sleep", "write", "finally", "failed"}, totals : Counters, logs : Counters]]
    /\ anomaly \subseteq Kinds

\* An announced save is under way: the record that relies on the announcement
\* and creates no task of its own relies on a task that exists.
AnnouncementHasTask == scheduled => InFlight # {}

\* A record that finds a save announced may rely on it, and when nothing is being
\* saved, what the database misses was recorded late (after the snapshot of the
\* last save), or a save failed, two overlapped or a clear crossed one, and no
\* later save wrote all there was.
UnsavedIsLate ==
    /\ AnnouncementHasTask
    /\ node = "up" /\ InFlight = {} /\ clearing = "no" /\ anomaly \cap {"save failed", "overlap", "clear over a save"} = {} =>
         \A k \in Keys : \A op \in totals[k] \ db.totals[k] : op.late

\* The tables agree with each other.  Whatever overlapped or failed, the node's
\* rows count no operation of a source that the source's rows miss.  A source's
\* total counts no more than the node's total does of it, and the log nothing that
\* the totals miss, unless saves overlapped and no save has written everything
\* since (nor before a restart), or a clear crossed a save, or a clear or the load
\* of the totals failed, and nothing has been cleared properly since.
LedgerBalances ==
    /\ \A rows \in {db.totals, db.logs} : \A op \in rows["global"] : op.source # "none" => op \in rows[op.source]
    /\ anomaly \cap {"overlap", "stale start", "clear over a save", "clear failed", "load failed"} = {} =>
         /\ \A s \in Sources : db.totals[s] = {op \in db.totals["global"] : op.source = s}
         /\ \A k \in Keys : db.logs[k] \subseteq db.totals[k]

\* What was cleared stays cleared, in memory and in the database and after a
\* restart, unless the clear crossed a save or its deletes failed (until the next
\* clear that does neither).
ClearIsFinal ==
    anomaly \cap {"clear over a save", "clear failed"} = {} /\ clearing = "no" =>
       \A k \in Keys : (totals[k] \cup buckets[k] \cup db.totals[k] \cup db.logs[k]) \cap cleared = {}

\* A window counts every operation that memory holds of its minutes, from the
\* first minute of its first step to the current one, exactly once, and the rate
\* counts no operation older than a minute, from the deque or, after a restart,
\* from the bucket.
ReportIsAccurate ==
    \A k \in Keys :
       /\ \A w \in Windows, op \in buckets[k] :
             Minute(op.at) >= Minute(now) - w.minutes * (w.steps - 1) =>
                \E i \in 1 .. w.steps : \A j \in 1 .. w.steps : op \in Step(w, k, j) <=> i = j
       /\ \A op \in Rate(k) : now - op.at <= TicksPerMinute

\* Once the final save is through, the tables have all that memory counts, but for
\* what was recorded while a save task held an older copy: such a task, if it is
\* still at it, may write its copy over the final one.  Nothing else is excused.
CountedSurvives ==
    node = "stopping" /\ saves["shutdown"].pc = "finally" =>
       \A k \in Keys : \A op \in totals[k] \ db.totals[k] : op.midsave

\* What a sleeping task will copy reaches the database, unless the process
\* dies, the counters are cleared or the database fails.
SavedEventually ==
    \A n \in 1 .. MaxOps :
       (\E op \in totals["global"] : op.id = n /\ Asleep # {}) ~>
          \/ \E op \in db.totals["global"] : op.id = n
          \/ \E op \in cleared : op.id = n
          \/ anomaly # {}
=============================================================================
