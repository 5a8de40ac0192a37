-------------------------- MODULE UsageTrackerProofs --------------------------
(***************************************************************************)
(* Theorems about the usage telemetry, for any number of sources, save     *)
(* tasks, operations and ticks, and whatever fails.                        *)
(***************************************************************************)
EXTENDS UsageTracker, FiniteSetTheorems, TLAPS

Workers == Tasks \cup {"shutdown"}
Clean(kinds) == anomaly \cap kinds = {}

Within(f, g) == \A k \in Keys : f[k] \subseteq g[k]
(* A source's counter has the node's operations of that source.            *)
Sums(f) == \A s \in Sources : f[s] = {op \in f["global"] : op.source = s}

(* Nothing is in memory while the process is down.                         *)
Rest ==
  /\ node = "down" => /\ totals = Nothing /\ buckets = Nothing /\ recent = {} /\ ~scheduled
                      /\ InFlight = {}
  /\ node # "up" => clearing = "no"

OneHolder == "overlap" \notin anomaly => \A t, u \in Holding : t = u

(* What memory counts is saved, late, or about to be saved; and a save does *)
(* not take back what is saved.                                            *)
Unsaved ==
  /\ Clean({"save failed", "overlap", "clear over a save"}) /\ node # "down" /\ clearing = "no" =>
       \A k \in Keys : \A op \in totals[k] \ db.totals[k] :
          op.late \/ Asleep # {} \/ \E t \in Holding : op \in saves[t].totals[k]
  /\ Clean({"overlap"}) =>
       \A t \in Holding : \A k \in Keys : db.totals[k] \cap totals[k] \subseteq saves[t].totals[k]

(* Memory and copies balance and have all that is in the tables; the tables *)
(* themselves balance unless saves overlapped.                             *)
Ledger ==
  Clean({"clear over a save", "clear failed", "load failed", "stale start"}) =>
    /\ Sums(totals) /\ Within(buckets, totals)
    /\ node # "down" => Within(db.totals, totals) /\ Within(db.logs, totals)
    /\ \A t \in Holding : /\ Sums(saves[t].totals) /\ Within(saves[t].logs, saves[t].totals)
                          /\ Within(saves[t].totals, totals)
    /\ Clean({"overlap"}) => /\ Sums(db.totals) /\ Within(db.logs, db.totals)
                             /\ \A t \in Holding : Within(db.totals, saves[t].totals)

Apart(f) == \A k \in Keys : f[k] \cap cleared = {}
Gone ==
  Clean({"clear over a save", "clear failed"}) =>
    /\ Apart(totals) /\ Apart(buckets) /\ Apart(db.totals) /\ Apart(db.logs)
    /\ \A t \in Holding : Apart(saves[t].totals) /\ Apart(saves[t].logs)

(* Whatever was lost, the node counts nothing of a source that the source  *)
(* does not, and the log of a source has no minute the node's log lacks.   *)
Credited(f) == \A op \in f["global"] : op.source \in Sources => op \in f[op.source]
Filed(g) ==
  /\ Credited(g)
  /\ \A s \in Sources : \A p \in g[s] : \E q \in g["global"] : Minute(q.at) = Minute(p.at)
Filing ==
  /\ Credited(totals) /\ Credited(db.totals) /\ Filed(buckets) /\ Filed(db.logs)
  /\ \A t \in Holding : Credited(saves[t].totals) /\ Filed(saves[t].logs)

(* What a copy lacks came while it was held, and so did what the tables    *)
(* lack after the final save.                                              *)
Final ==
  /\ \A t \in Holding : \A k \in Keys : \A op \in totals[k] \ saves[t].totals[k] : op.midsave
  /\ CountedSurvives

IInv ==
  /\ TypeOK /\ AnnouncementHasTask /\ Rest /\ OneHolder /\ Unsaved /\ Ledger /\ Gone /\ Filing /\ Final

-------------------------------------------------------------------------------
(* Types *)

Task == [pc : {"idle", "sleep", "write", "finally", "failed"}, totals : Counters, logs : Counters]

LEMMA TimeAssumption == MaxTime \in Nat /\ TicksPerMinute \in Nat /\ TicksPerMinute > 0
BY UsageAssumption

LEMMA NowType ==
  /\ \A n \in 0 .. MaxTime : n \in Nat /\ n <= n
  /\ TypeOK => now \in Nat
<1>1. \A n \in 0 .. MaxTime : n \in Nat /\ n <= n BY TimeAssumption
<1>2. TypeOK => now \in 0 .. MaxTime BY DEF TypeOK
<1> QED BY <1>1, <1>2

(* Counting nothing is counting.                                           *)
LEMMA NothingCounts == Nothing \in Counters /\ Idle \in Task
BY DEF Nothing, Counters, Idle, Task

(* What was a counter still is when more has been recorded.                *)
LEMMA CountersGrow ==
  ASSUME recorded \subseteq recorded'
  PROVE  /\ \A f \in Counters : f \in Counters'
         /\ \A t \in Task : t \in Task'
<1>1. \A f \in Counters : f \in Counters' BY DEF Counters, Keys
<1>2. QED BY <1>1 DEF Task

LEMMA CountersStay ==
  ASSUME UNCHANGED recorded
  PROVE  Counters' = Counters /\ Task' = Task
BY DEF Counters, Task

(* The copy of a save, seen from the other tasks.                          *)
LEMMA SnapshotTypes ==
  ASSUME TypeOK, NEW t \in Workers, Snapshot(t), UNCHANGED recorded
  PROVE  /\ saves' \in [Workers -> Task]
         /\ saves'[t] = [pc |-> "write", totals |-> totals, logs |-> buckets]
         /\ \A u \in Workers : u # t => saves'[u] = saves[u]
         /\ Holding' = Holding \cup {t}
         /\ Asleep' = Asleep \ {t}
         /\ InFlight' # {}
         /\ anomaly \subseteq anomaly'
         /\ Holding # {} => "overlap" \in anomaly'
<1>1. saves \in [Workers -> Task] /\ totals \in Counters /\ buckets \in Counters
  BY DEF TypeOK, Workers, Task
<1> DEFINE c == [pc |-> "write", totals |-> totals, logs |-> buckets]
<1>2. c \in Task /\ c.pc = "write" BY <1>1 DEF Task
<1>3. saves' = [saves EXCEPT ![t] = c] BY DEF Snapshot
<1> HIDE DEF c
<1>4. /\ saves' \in [Workers -> Task] /\ saves'[t] = c
      /\ \A u \in Workers : u # t => saves'[u] = saves[u]
  BY <1>1, <1>2, <1>3
<1>5. DOMAIN saves = Workers /\ DOMAIN saves' = Workers BY <1>1, <1>4
<1>6. Holding' = Holding \cup {t} /\ Asleep' = Asleep \ {t} /\ t \in InFlight'
  BY <1>2, <1>4, <1>5 DEF Holding, Asleep, InFlight
<1>7. anomaly \subseteq anomaly' /\ (Holding # {} => "overlap" \in anomaly') BY DEF Snapshot
<1> QED BY <1>4, <1>6, <1>7 DEF c

(* A task whose transaction is over has let go of its copy.                *)
LEMMA ReleaseTypes ==
  ASSUME TypeOK, NEW t \in Workers, NEW p \in {"idle", "finally", "failed"},
         saves' = [saves EXCEPT ![t] = [Idle EXCEPT !.pc = p]], UNCHANGED recorded
  PROVE  /\ saves' \in [Workers -> Task]
         /\ saves'[t].pc = p
         /\ \A u \in Workers : u # t => saves'[u] = saves[u]
         /\ Holding' = Holding \ {t}
         /\ Asleep' = Asleep \ {t}
         /\ p # "idle" => InFlight' # {}
<1>1. saves \in [Workers -> Task] BY DEF TypeOK, Workers, Task
<1> DEFINE c == [Idle EXCEPT !.pc = p]
<1>2. c \in Task /\ c.pc = p BY NothingCounts DEF Task, Idle
<1>3. saves' = [saves EXCEPT ![t] = c] OBVIOUS
<1> HIDE DEF c
<1>4. /\ saves' \in [Workers -> Task] /\ saves'[t] = c
      /\ \A u \in Workers : u # t => saves'[u] = saves[u]
  BY <1>1, <1>2, <1>3
<1>5. DOMAIN saves = Workers /\ DOMAIN saves' = Workers BY <1>1, <1>4
<1>6. Holding' = Holding \ {t} /\ Asleep' = Asleep \ {t} /\ (p # "idle" => t \in InFlight')
  BY <1>2, <1>4, <1>5 DEF Holding, Asleep, InFlight
<1> QED BY <1>2, <1>4, <1>6

LEMMA UpsertTypes ==
  ASSUME NEW f \in Counters, NEW g \in Counters
  PROVE  Upsert(f, g) \in Counters /\ UpsertLogs(f, g) \in Counters
BY DEF Upsert, UpsertLogs, Counters

LEMMA HaltTypes ==
  ASSUME TypeOK, Halt
  PROVE  /\ saves' \in [Workers -> Task]
         /\ \A t \in Workers : saves'[t] = Idle
         /\ Holding' = {} /\ Asleep' = {} /\ InFlight' = {}
<1>1. saves \in [Workers -> Task] BY DEF TypeOK, Workers, Task
<1>2. saves' = [t \in Workers |-> Idle] BY <1>1 DEF Halt
<1>3. UNCHANGED recorded /\ Idle \in Task BY NothingCounts DEF Halt
<1>4. saves' \in [Workers -> Task] BY <1>2, <1>3
<1>5. \A t \in Workers : saves'[t] = Idle BY <1>2
<1>6. DOMAIN saves' = Workers BY <1>2
<1>7. Idle.pc = "idle" BY DEF Idle
<1>8. Holding' = {} /\ Asleep' = {} /\ InFlight' = {}
  BY <1>5, <1>6, <1>7 DEF Holding, Asleep, InFlight
<1> QED BY <1>4, <1>5, <1>8

(* An announcement goes with a task that sleeps.                           *)
LEMMA ScheduleTypes ==
  ASSUME TypeOK, ScheduleSave
  PROVE  /\ saves' \in [Workers -> Task] /\ scheduled'
         /\ Holding' = Holding /\ Asleep \subseteq Asleep' /\ InFlight \subseteq InFlight'
         /\ \A t \in Holding : saves'[t] = saves[t]
         /\ saves'["shutdown"] = saves["shutdown"]
         /\ scheduled \/ Asleep' # {}
<1>1. saves \in [Workers -> Task] /\ scheduled \in BOOLEAN BY DEF TypeOK, Workers, Task
<1>2. CASE scheduled
  <2>1. saves' = saves /\ scheduled' BY <1>2 DEF ScheduleSave
  <2> QED BY <1>1, <1>2, <2>1 DEF Holding, Asleep, InFlight
<1>3. CASE ~scheduled
  <2>1. PICK t \in Tasks : /\ saves[t] = Idle /\ saves' = [saves EXCEPT ![t].pc = "sleep"]
                           /\ scheduled' = TRUE
    BY <1>3 DEF ScheduleSave
  <2>2. t \in Workers /\ t # "shutdown" BY UsageAssumption DEF Workers
  <2> DEFINE c == [saves[t] EXCEPT !.pc = "sleep"]
  <2>3. c \in Task /\ c.pc = "sleep" BY <1>1, <2>2 DEF Task
  <2>4. saves' = [saves EXCEPT ![t] = c] BY <1>1, <2>1
  <2> HIDE DEF c
  <2>5. saves' \in [Workers -> Task] /\ saves'[t] = c /\ \A u \in Workers : u # t => saves'[u] = saves[u]
    BY <1>1, <2>2, <2>3, <2>4
  <2>6. saves[t].pc = "idle" BY <2>1 DEF Idle
  <2>7. DOMAIN saves = Workers /\ DOMAIN saves' = Workers BY <1>1, <2>5
  <2>8. /\ Holding' = Holding /\ Asleep' = Asleep \cup {t} /\ InFlight \subseteq InFlight'
        /\ t \notin Holding /\ Holding \subseteq Workers
    BY <2>2, <2>3, <2>5, <2>6, <2>7 DEF Holding, Asleep, InFlight
  <2>9. \A u \in Holding : saves'[u] = saves[u] BY <2>5, <2>8
  <2>10. saves'["shutdown"] = saves["shutdown"] BY <2>2, <2>5 DEF Workers
  <2> QED BY <2>1, <2>5, <2>8, <2>9, <2>10
<1> QED BY <1>1, <1>2, <1>3

NewOp(s) == [id |-> Cardinality(recorded) + 1, source |-> s, at |-> now,
             late |-> scheduled /\ Asleep = {}, midsave |-> Holding # {}]

(* Every record is an operation of its own.                                *)
LEMMA RecordTypes ==
  ASSUME TypeOK, NEW s \in Origins, Record(s)
  PROVE  /\ NewOp(s) \in Ops /\ NewOp(s) \notin recorded
         /\ recorded' = recorded \cup {NewOp(s)} /\ recent' = recent \cup {NewOp(s)}
         /\ totals' = Count(totals, NewOp(s)) /\ buckets' = Count(buckets, NewOp(s))
         /\ IsFiniteSet(recorded') /\ Cardinality(recorded') = Cardinality(recorded) + 1
         /\ Cardinality(recorded) \in Nat
<1> DEFINE o == NewOp(s)
<1>1. /\ recorded' = recorded \cup {o} /\ recent' = recent \cup {o}
      /\ totals' = Count(totals, o) /\ buckets' = Count(buckets, o)
  BY DEF Record, NewOp
<1>2. IsFiniteSet(recorded) BY DEF TypeOK
<1>3. Cardinality(recorded) \in Nat BY <1>2, FS_CardinalityType
<1>4. o.id = Cardinality(recorded) + 1 /\ o.source = s /\ o.at = now BY DEF NewOp
<1>5. \A p \in recorded : p.id <= Cardinality(recorded) /\ p.id \in Nat
  BY DEF TypeOK, Ops
<1>6. o \notin recorded BY <1>3, <1>4, <1>5
<1>7. now \in Nat BY NowType
<1>8. o \in Ops BY <1>3, <1>7 DEF NewOp, Ops
<1>9. IsFiniteSet(recorded \cup {o}) /\ Cardinality(recorded \cup {o}) = Cardinality(recorded) + 1
  BY <1>2, <1>6, FS_AddElement
<1> QED BY <1>1, <1>3, <1>6, <1>8, <1>9

LEMMA CountTypes ==
  ASSUME NEW f \in Counters, NEW op \in recorded', recorded \subseteq recorded'
  PROVE  Count(f, op) \in Counters'
BY DEF Count, Counters

(* The types in a form that leaves the sets of counters and tasks folded.  *)
Typed ==
  /\ node \in {"up", "stopping", "down"} /\ now \in 0 .. MaxTime
  /\ scheduled \in BOOLEAN /\ clearing \in {"no", "reset"}
  /\ recorded \subseteq Ops /\ IsFiniteSet(recorded)
  /\ \A op \in recorded : op.at <= now /\ op.id <= Cardinality(recorded)
  /\ recent \subseteq recorded /\ cleared \subseteq recorded
  /\ totals \in Counters /\ buckets \in Counters
  /\ db \in [totals : Counters, logs : Counters]
  /\ saves \in [Workers -> Task]
  /\ anomaly \subseteq Kinds

LEMMA TypeFolded == (TypeOK <=> Typed) /\ (TypeOK' <=> Typed')
<1>1. TypeOK <=> Typed BY DEF TypeOK, Typed, Workers, Task
<1>2. TypeOK' <=> Typed' BY DEF TypeOK, Typed, Workers, Task
<1> QED BY <1>1, <1>2

LEMMA InitTypes == Init => TypeOK
<1> SUFFICES ASSUME Init PROVE Typed BY TypeFolded
<1>1. now = 0 /\ 0 \in 0 .. MaxTime BY TimeAssumption DEF Init
<1>2. recorded = {} /\ recent = {} /\ cleared = {} /\ anomaly = {} BY DEF Init
<1>3. IsFiniteSet(recorded) BY <1>2, FS_EmptySet
<1>4. totals \in Counters /\ buckets \in Counters /\ db \in [totals : Counters, logs : Counters]
  BY NothingCounts DEF Init, Empty
<1>5. saves \in [Workers -> Task] BY NothingCounts DEF Init, Workers
<1>6. node \in {"up", "stopping", "down"} /\ scheduled \in BOOLEAN /\ clearing \in {"no", "reset"} BY DEF Init
<1> QED BY <1>1, <1>2, <1>3, <1>4, <1>5, <1>6 DEF Typed

LEMMA NextTypes == TypeOK /\ [Next]_vars => TypeOK'
<1> SUFFICES ASSUME Typed, TypeOK, [Next]_vars PROVE Typed' BY TypeFolded
<1> DEFINE Same == /\ UNCHANGED recorded /\ node' \in {"up", "stopping", "down"} /\ now' \in 0 .. MaxTime /\ now <= now'
                   /\ scheduled' \in BOOLEAN /\ clearing' \in {"no", "reset"}
                   /\ recent' \subseteq recorded /\ cleared' \subseteq recorded
                   /\ totals' \in Counters /\ buckets' \in Counters
                   /\ db' \in [totals : Counters, logs : Counters]
                   /\ saves' \in [Workers -> Task]
                   /\ anomaly' \subseteq Kinds
<1>1. Same => Typed'
  <2> SUFFICES ASSUME Same PROVE Typed' OBVIOUS
  <2>1. Counters' = Counters /\ Task' = Task BY CountersStay
  <2>2. now \in Nat /\ now' \in Nat /\ \A op \in recorded : op.at \in Nat /\ op.at <= now
    <3>1. now \in Nat /\ now' \in Nat BY NowType
    <3>2. \A op \in recorded : op.at \in Nat /\ op.at <= now BY DEF Typed, Ops
    <3> QED BY <3>1, <3>2
  <2>3. \A op \in recorded : op.at <= now'
    <3>1. now <= now' OBVIOUS
    <3> HIDE DEF Same
    <3> QED BY <2>2, <3>1
  <2>4. (\A op \in recorded : op.at <= now /\ op.id <= Cardinality(recorded))' BY <2>3 DEF Typed
  <2>5. (recorded \subseteq Ops /\ IsFiniteSet(recorded))' BY DEF Typed, Ops
  <2> QED BY <2>1, <2>4, <2>5 DEF Typed
<1> DEFINE Known == /\ recorded \subseteq Ops /\ now \in 0 .. MaxTime /\ now <= now
                    /\ node \in {"up", "stopping", "down"} /\ scheduled \in BOOLEAN /\ clearing \in {"no", "reset"}
                    /\ recent \subseteq recorded /\ cleared \subseteq recorded
                    /\ totals \in Counters /\ buckets \in Counters
                    /\ db \in [totals : Counters, logs : Counters]
                    /\ saves \in [Workers -> Task]
                    /\ anomaly \subseteq Kinds
<1>2. Known BY NowType DEF Typed
<1>3. ASSUME NEW s \in Origins, Record(s) PROVE Typed'
  <2>1. recorded \subseteq recorded' /\ NewOp(s) \in recorded' BY <1>3, RecordTypes
  <2>2. totals' \in Counters' /\ buckets' \in Counters'
    <3>1. totals' = Count(totals, NewOp(s)) /\ buckets' = Count(buckets, NewOp(s)) BY <1>3, RecordTypes
    <3>2. totals \in Counters /\ buckets \in Counters BY <1>2
    <3>3. Count(totals, NewOp(s)) \in Counters' BY <2>1, <3>2, CountTypes
    <3>4. Count(buckets, NewOp(s)) \in Counters' BY <2>1, <3>2, CountTypes
    <3> QED BY <3>1, <3>3, <3>4
  <2>3. saves' \in [Workers -> Task]' 
    <3>1. saves' \in [Workers -> Task] BY <1>3, ScheduleTypes DEF Record
    <3> QED BY <2>1, <3>1, CountersGrow
  <2>4. scheduled' \in BOOLEAN BY <1>3, ScheduleTypes DEF Record, ScheduleSave, TypeOK
  <2>5. UNCHANGED <<node, now, clearing, db, cleared, anomaly>> BY <1>3 DEF Record
  <2>6. db' \in [totals : Counters, logs : Counters]' BY <1>2, <2>1, <2>5, CountersGrow
  <2>7. (\A op \in recorded : op.at <= now /\ op.id <= Cardinality(recorded))'
    <3>1. \A op \in recorded : op.at <= now /\ op.id <= Cardinality(recorded) /\ op.id \in Nat
      BY DEF Typed, Ops
    <3>2. NewOp(s).id = Cardinality(recorded) + 1 /\ NewOp(s).at = now BY DEF NewOp
    <3>3. now \in Nat /\ Cardinality(recorded) \in Nat BY <1>3, NowType, RecordTypes
    <3>4. recorded' = recorded \cup {NewOp(s)} /\ Cardinality(recorded') = Cardinality(recorded) + 1 BY <1>3, RecordTypes
    <3> QED BY <2>5, <3>1, <3>2, <3>3, <3>4
  <2>8. (recorded \subseteq Ops /\ IsFiniteSet(recorded))' BY <1>2, <1>3, RecordTypes DEF Ops
  <2>9. (recent \subseteq recorded /\ cleared \subseteq recorded)' BY <1>2, <1>3, <2>5, RecordTypes
  <2> QED BY <1>2, <2>2, <2>3, <2>4, <2>5, <2>6, <2>7, <2>8, <2>9 DEF Typed
<1>4. ASSUME NEW t \in DOMAIN saves, WakeUp(t) PROVE Same
  <2>1. t \in Workers BY <1>2, <1>4
  <2>2. saves' \in [Workers -> Task] BY <1>4, <2>1, SnapshotTypes DEF WakeUp
  <2>3. UNCHANGED <<node, now, totals, buckets, recent, scheduled, clearing, db, recorded, cleared>>
        /\ anomaly' \subseteq anomaly \cup {"overlap"} BY <1>4 DEF WakeUp, Snapshot
  <2> QED BY <1>2, <2>2, <2>3 DEF Kinds
<1>5. ASSUME NEW t \in DOMAIN saves, save_to_db(t) PROVE Same
  <2>1. t \in Workers BY <1>2
  <2>2. saves' \in [Workers -> Task]
    <3>1. saves' = [saves EXCEPT ![t] = [Idle EXCEPT !.pc = "finally"]] /\ UNCHANGED recorded
      BY <1>5 DEF save_to_db
    <3> QED BY <2>1, <3>1, ReleaseTypes
  <2>3. saves[t].totals \in Counters /\ saves[t].logs \in Counters /\ db.totals \in Counters /\ db.logs \in Counters
    BY <1>2, <2>1 DEF Task
  <2>4. db' \in [totals : Counters, logs : Counters] BY <1>5, <2>3, UpsertTypes DEF save_to_db
  <2>5. UNCHANGED <<node, now, totals, buckets, recent, scheduled, clearing, recorded, cleared>>
        /\ anomaly' \subseteq anomaly
    BY <1>5 DEF save_to_db, Repair
  <2> QED BY <1>2, <2>2, <2>4, <2>5
<1>6. ASSUME NEW t \in DOMAIN saves, SaveFails(t) PROVE Same
  <2>1. t \in Workers BY <1>2
  <2>2. saves' \in [Workers -> Task]
    <3>1. PICK p \in {"finally", "failed"} : saves' = [saves EXCEPT ![t] = [Idle EXCEPT !.pc = p]] /\ UNCHANGED recorded
      BY <1>6 DEF SaveFails
    <3> QED BY <2>1, <3>1, ReleaseTypes
  <2>3. UNCHANGED <<node, now, totals, buckets, recent, scheduled, clearing, db, recorded, cleared>>
        /\ anomaly' = anomaly \cup {"save failed"} BY <1>6 DEF SaveFails, Fault, FaultAfter
  <2> QED BY <1>2, <2>2, <2>3 DEF Kinds
<1>7. ASSUME NEW t \in DOMAIN saves, ResetFlag(t) PROVE Same
  <2>1. t \in Workers BY <1>2
  <2>2. saves' \in [Workers -> Task] BY <1>2, <1>7, <2>1, NothingCounts DEF ResetFlag
  <2>3. UNCHANGED <<node, now, totals, buckets, recent, clearing, db, history>> /\ scheduled' = FALSE BY <1>7 DEF ResetFlag
  <2> QED BY <1>2, <2>2, <2>3 DEF history
<1>8. ASSUME ClearRows PROVE Same
  <2>1. UNCHANGED <<node, now, totals, buckets, recent, scheduled, saves, recorded, cleared>>
        /\ clearing' = "reset" BY <1>8 DEF ClearRows
  <2>2. anomaly' \subseteq anomaly \cup {"clear over a save", "clear failed"} BY <1>8 DEF ClearRows, Fault, FaultAfter, Kinds
  <2>3. db' = db \/ db' = [totals |-> Nothing, logs |-> Nothing] BY <1>8 DEF ClearRows, Empty
  <2>4. db' \in [totals : Counters, logs : Counters]
    <3>1. db \in [totals : Counters, logs : Counters] BY <1>2
    <3>2. Nothing \in Counters BY NothingCounts
    <3> HIDE DEF Same, Known
    <3>3. [totals |-> Nothing, logs |-> Nothing] \in [totals : Counters, logs : Counters] BY <3>2
    <3> QED BY <2>3, <3>1, <3>3
  <2> QED BY <1>2, <2>1, <2>2, <2>4 DEF Kinds
<1>9. ASSUME ClearMemory PROVE Same
  <2>1. UNCHANGED <<node, now, saves, db, recorded>> /\ totals' = Nothing /\ buckets' = Nothing /\ recent' = {}
        /\ scheduled' = FALSE /\ clearing' = "no" /\ cleared' = recorded BY <1>9 DEF ClearMemory
  <2>2. anomaly' \subseteq Kinds BY <1>2, <1>9 DEF ClearMemory, Kinds
  <2> QED BY <1>2, <2>1, <2>2, NothingCounts
<1>10. ASSUME load_from_db PROVE Same
  <2>1. node' = "up" /\ UNCHANGED <<now, recent, scheduled, saves, clearing, db, recorded, cleared>> BY <1>10 DEF load_from_db
  <2>2. totals' \in Counters /\ db.logs \in Counters BY <1>2, <1>10 DEF load_from_db
  <2>3. buckets' \in Counters BY <1>10, <2>2 DEF load_from_db, Counters
  <2>4. anomaly' \subseteq Kinds BY <1>2, <1>10 DEF load_from_db, Past, Kinds
  <2> QED BY <1>2, <2>1, <2>2, <2>3, <2>4
<1>11. ASSUME LoadFails PROVE Same
  <2>1. node' = "up" /\ UNCHANGED <<now, buckets, recent, scheduled, saves, clearing, db, recorded, cleared>>
    BY <1>11 DEF LoadFails
  <2>2. totals' \in Counters BY <1>2, <1>11 DEF LoadFails
  <2>3. anomaly' \subseteq Kinds BY <1>2, <1>11 DEF LoadFails, FaultAfter, Past, Kinds
  <2> QED BY <1>2, <2>1, <2>2, <2>3
<1>12. ASSUME Shutdown PROVE Same
  <2>1. "shutdown" \in Workers BY DEF Workers
  <2>2. saves' \in [Workers -> Task] BY <1>12, <2>1, SnapshotTypes DEF Shutdown
  <2>3. UNCHANGED <<now, totals, buckets, recent, scheduled, clearing, db, recorded, cleared>> /\ node' = "stopping"
        /\ anomaly' \subseteq anomaly \cup {"overlap"} BY <1>12 DEF Shutdown, Snapshot
  <2> QED BY <1>2, <2>2, <2>3 DEF Kinds
<1>13. ASSUME Halt, anomaly' \subseteq anomaly \cup {"crash"} PROVE Same
  <2>1. saves' \in [Workers -> Task] BY <1>13, HaltTypes
  <2>2. node' = "down" /\ totals' = Nothing /\ buckets' = Nothing /\ recent' = {}
        /\ scheduled' = FALSE /\ clearing' = "no" /\ UNCHANGED <<now, db, recorded, cleared>> BY <1>13 DEF Halt
  <2> QED BY <1>2, <1>13, <2>1, <2>2, NothingCounts DEF Kinds
<1>14. ASSUME get_metrics PROVE Same
  BY <1>2, <1>14 DEF get_metrics, Pruned, history
<1>15. ASSUME Tick PROVE Same
  <2>1. UNCHANGED <<node, volatile, db, history>> BY <1>15 DEF Tick
  <2>2. now' \in 0 .. MaxTime /\ now <= now'
    <3>1. now \in 0 .. MaxTime /\ now < MaxTime /\ now' = now + 1 BY <1>2, <1>15 DEF Tick
    <3> HIDE DEF Same, Known
    <3> QED BY <3>1, TimeAssumption
  <2> QED BY <1>2, <2>1, <2>2 DEF volatile, history
<1>16. ASSUME UNCHANGED vars PROVE Same
  BY <1>2, <1>16 DEF vars, history
<1> HIDE DEF Same
<1>17. CASE Exit BY <1>1, <1>13, <1>17 DEF Exit
<1>18. CASE Crash BY <1>1, <1>13, <1>18 DEF Crash, Fault, FaultAfter
<1> QED BY <1>1, <1>3, <1>4, <1>5, <1>6, <1>7, <1>8, <1>9, <1>10, <1>11, <1>12, <1>14, <1>15, <1>16, <1>17, <1>18
        DEF Next, record_read, record_write

-------------------------------------------------------------------------------
(* Counters *)

LEMMA KeysSplit ==
  /\ "global" \in Keys /\ "global" \notin Sources /\ Sources \subseteq Keys
  /\ \A op \in Ops : op.source \in Sources \cup {"none"}
  /\ "none" \notin Keys
  /\ \A k \in Keys : Nothing[k] = {}
BY UsageAssumption DEF Keys, Origins, Ops, Nothing

LEMMA NothingBalances ==
  ASSUME NEW f
  PROVE  Sums(Nothing) /\ Within(Nothing, f) /\ Within(f, f) /\ Apart(Nothing) /\ Filed(Nothing) /\ Credited(Nothing)
BY KeysSplit DEF Sums, Within, Apart, Filed, Credited

(* A record enters the node's counter and its source's, if it has one.     *)
LEMMA CountBalances ==
  ASSUME NEW f \in Counters, NEW g \in Counters, NEW op \in Ops, recorded \subseteq Ops
  PROVE  /\ Sums(f) => Sums(Count(f, op))
         /\ Within(f, g) => Within(f, Count(g, op)) /\ Within(Count(f, op), Count(g, op))
         /\ Credited(f) => Credited(Count(f, op))
         /\ Filed(f) => Filed(Count(f, op))
<1>1. \A k \in Keys : f[k] \subseteq Ops /\ g[k] \subseteq Ops BY DEF Counters
<1> DEFINE cf == Count(f, op) cg == Count(g, op)
<1>2. \A k \in Keys : /\ cf[k] = IF k \in {"global", op.source} THEN f[k] \cup {op} ELSE f[k]
                      /\ cg[k] = IF k \in {"global", op.source} THEN g[k] \cup {op} ELSE g[k]
  BY DEF Count
<1> HIDE DEF cf, cg
<1>3. cf["global"] = f["global"] \cup {op} BY <1>2, KeysSplit
<1>4. \A s \in Sources : cf[s] = IF op.source = s THEN f[s] \cup {op} ELSE f[s]
  BY <1>2, KeysSplit
<1>5. ASSUME Sums(f), NEW s \in Sources PROVE cf[s] = {p \in cf["global"] : p.source = s}
  <2>1. f[s] = {p \in f["global"] : p.source = s} BY <1>5 DEF Sums
  <2>2. {p \in cf["global"] : p.source = s} = IF op.source = s THEN f[s] \cup {op} ELSE f[s] BY <1>3, <2>1
  <2> QED BY <1>4, <2>2
<1>6. Within(f, g) => Within(f, cg) /\ Within(cf, cg)
  BY <1>2 DEF Within
<1>7. ASSUME Credited(f), NEW p \in cf["global"], p.source \in Sources PROVE p \in cf[p.source]
  <2>1. CASE p = op BY <1>4, <1>7, <2>1
  <2>2. CASE p # op
    <3>1. p \in f["global"] BY <1>3, <1>7, <2>2
    <3>2. p \in f[p.source] BY <1>7, <3>1 DEF Credited
    <3> QED BY <1>4, <1>7, <3>2
  <2> QED BY <2>1, <2>2
<1>8. ASSUME Filed(f), NEW s \in Sources, NEW p \in cf[s] PROVE \E q \in cf["global"] : Minute(q.at) = Minute(p.at)
  <2>1. CASE p = op BY <1>3, <2>1
  <2>2. CASE p # op
    <3>1. p \in f[s] BY <1>4, <1>8, <2>2
    <3>2. PICK q \in f["global"] : Minute(q.at) = Minute(p.at) BY <1>8, <3>1 DEF Filed
    <3> QED BY <1>3, <3>2
  <2> QED BY <2>1, <2>2
<1>9. Sums(f) => Sums(cf) BY <1>5 DEF Sums
<1>10. Credited(f) => Credited(cf) BY <1>7 DEF Credited
<1>11. Filed(f) => Filed(cf) BY <1>8, <1>10 DEF Filed
<1> QED BY <1>6, <1>9, <1>10, <1>11 DEF cf, cg

(* A save writes the copy over the totals of a table it contains, and adds *)
(* its minutes to the log.                                                 *)
LEMMA UpsertBalances ==
  ASSUME NEW F \in Counters, NEW G \in Counters, NEW f \in Counters, NEW g \in Counters
  PROVE  /\ \A k \in Keys : Upsert(F, f)[k] = f[k] \/ (f[k] = {} /\ Upsert(F, f)[k] = F[k])
         /\ \A s \in Sources : Upsert(F, f)[s] = IF f[s] = {} THEN F[s] ELSE f[s]
         /\ Upsert(F, f)["global"] = f["global"]
         /\ Within(F, f) => Upsert(F, f) = f
         /\ \A k \in Keys : g[k] \subseteq UpsertLogs(G, g)[k] /\ UpsertLogs(G, g)[k] \subseteq G[k] \cup g[k]
<1>1. \A k \in Keys : Upsert(F, f)[k] = IF f[k] = {} /\ k # "global" THEN F[k] ELSE f[k] BY DEF Upsert
<1>2. Upsert(F, f) \in [Keys -> SUBSET recorded] /\ f \in [Keys -> SUBSET recorded] BY UpsertTypes DEF Counters
<1>3. ASSUME Within(F, f) PROVE Upsert(F, f) = f
  <2>1. \A k \in Keys : Upsert(F, f)[k] = f[k] BY <1>1, <1>3 DEF Within
  <2> HIDE DEF Upsert
  <2> QED BY <1>2, <2>1
<1>4. \A k \in Keys : g[k] \subseteq UpsertLogs(G, g)[k] /\ UpsertLogs(G, g)[k] \subseteq G[k] \cup g[k]
  BY DEF UpsertLogs
<1> QED BY <1>1, <1>3, <1>4, KeysSplit

(* The minutes of a source's log are minutes of the node's, so the rows a  *)
(* save leaves alone fit those it replaces.                                *)
LEMMA UpsertFiles ==
  ASSUME NEW F \in Counters, NEW G \in Counters, NEW f \in Counters, NEW g \in Counters, recorded \subseteq Ops,
         Credited(F), Filed(G), Credited(f), Filed(g)
  PROVE  Credited(Upsert(F, f)) /\ Filed(UpsertLogs(G, g))
<1> DEFINE U == Upsert(F, f) L == UpsertLogs(G, g)
<1>1. \A k \in Keys : L[k] = g[k] \cup {op \in G[k] : \A p \in g[k] : Minute(p.at) # Minute(op.at)} BY DEF UpsertLogs
<1>2. U["global"] = f["global"] /\ \A s \in Sources : U[s] = IF f[s] = {} THEN F[s] ELSE f[s] BY UpsertBalances
<1> HIDE DEF U, L
<1>3. ASSUME NEW op \in U["global"], op.source \in Sources PROVE op \in U[op.source]
  <2>1. op \in f[op.source] BY <1>2, <1>3 DEF Credited
  <2> QED BY <1>2, <1>3, <2>1
<1>4. ASSUME NEW op \in L["global"], op.source \in Sources PROVE op \in L[op.source]
  <2>1. op.source \in Keys BY <1>4, KeysSplit
  <2>2. CASE op \in g["global"]
    <3>1. op \in g[op.source] BY <1>4, <2>2 DEF Filed, Credited
    <3> QED BY <1>1, <2>1, <3>1
  <2>3. CASE op \notin g["global"]
    <3>1. op \in G["global"] /\ \A p \in g["global"] : Minute(p.at) # Minute(op.at) BY <1>1, <1>4, <2>3, KeysSplit
    <3>2. op \in G[op.source] BY <1>4, <3>1 DEF Filed, Credited
    <3>3. ASSUME NEW p \in g[op.source] PROVE Minute(p.at) # Minute(op.at)
      <4>1. PICK q \in g["global"] : Minute(q.at) = Minute(p.at) BY <1>4 DEF Filed
      <4> QED BY <3>1, <4>1
    <3> QED BY <1>1, <2>1, <3>2, <3>3
  <2> QED BY <2>2, <2>3
<1>5. ASSUME NEW s \in Sources, NEW p \in L[s] PROVE \E q \in L["global"] : Minute(q.at) = Minute(p.at)
  <2>1. p \in g[s] \/ p \in G[s] BY <1>1, KeysSplit
  <2>2. PICK q \in G["global"] \cup g["global"] : Minute(q.at) = Minute(p.at) BY <2>1 DEF Filed
  <2>3. CASE q \in L["global"] BY <2>2, <2>3
  <2>4. CASE q \notin L["global"]
    <3>1. q \in G["global"] /\ q \notin g["global"] BY <1>1, <2>4, KeysSplit
    <3>2. PICK r \in g["global"] : Minute(r.at) = Minute(q.at) BY <1>1, <2>4, <3>1, KeysSplit
    <3>3. r \in L["global"] BY <1>1, KeysSplit
    <3> QED BY <2>2, <3>2, <3>3
  <2> QED BY <2>3, <2>4
<1>6. Credited(U) BY <1>3 DEF Credited
<1>7. Filed(L) BY <1>4, <1>5 DEF Filed, Credited
<1> QED BY <1>6, <1>7 DEF U, L

-------------------------------------------------------------------------------
(* The inductive step, action by action *)

Parts == AnnouncementHasTask /\ Rest /\ OneHolder /\ Unsaved /\ Ledger /\ Gone /\ Filing /\ Final

LEMMA QuietStep ==
  ASSUME IInv, UNCHANGED <<node, totals, buckets, scheduled, saves, clearing, db, history>>, recent' \subseteq recent
  PROVE  Parts'
<1>1. UNCHANGED <<recorded, cleared, anomaly>> BY DEF history
<1>2. UNCHANGED <<Holding, Asleep, InFlight>> BY DEF Holding, Asleep, InFlight
<1>3. AnnouncementHasTask' BY <1>2 DEF IInv, AnnouncementHasTask
<1>4. Rest' BY <1>2 DEF IInv, Rest
<1>5. OneHolder' BY <1>1, <1>2 DEF IInv, OneHolder
<1>6. Unsaved' BY <1>1, <1>2 DEF IInv, Unsaved, Clean
<1>7. Ledger'
  <2>1. \A kinds : Clean(kinds)' <=> Clean(kinds) BY <1>1 DEF Clean
  <2>2. Ledger BY DEF IInv
  <2>3. /\ Sums(totals)' <=> Sums(totals)
        /\ Within(buckets, totals)' <=> Within(buckets, totals)
        /\ Within(db.totals, totals)' <=> Within(db.totals, totals)
        /\ Within(db.logs, totals)' <=> Within(db.logs, totals)
        /\ Sums(db.totals)' <=> Sums(db.totals)
        /\ Within(db.logs, db.totals)' <=> Within(db.logs, db.totals)
    BY DEF Sums, Within
  <2>4. ASSUME NEW t
        PROVE  /\ Sums(saves[t].totals)' <=> Sums(saves[t].totals)
               /\ Within(saves[t].logs, saves[t].totals)' <=> Within(saves[t].logs, saves[t].totals)
               /\ Within(saves[t].totals, totals)' <=> Within(saves[t].totals, totals)
               /\ Within(db.totals, saves[t].totals)' <=> Within(db.totals, saves[t].totals)
    BY DEF Sums, Within
  <2> QED BY <1>2, <2>1, <2>2, <2>3, <2>4 DEF Ledger
<1>8. Gone' BY <1>1, <1>2 DEF IInv, Gone, Clean, Apart
<1>9. Filing' BY <1>2 DEF IInv, Filing, Filed, Credited
<1>10. Final' BY <1>2 DEF IInv, Final, CountedSurvives
<1> QED BY <1>3, <1>4, <1>5, <1>6, <1>7, <1>8, <1>9, <1>10 DEF Parts

(* The types of what the steps below read.                                 *)
LEMMA Reads ==
  ASSUME TypeOK
  PROVE  /\ recorded \subseteq Ops /\ cleared \subseteq recorded
         /\ totals \in Counters /\ buckets \in Counters /\ db.totals \in Counters /\ db.logs \in Counters
         /\ Holding \subseteq InFlight /\ Asleep \subseteq InFlight /\ InFlight \subseteq Workers
         /\ DOMAIN saves = Workers
         /\ \A t \in Workers : saves[t].totals \in Counters /\ saves[t].logs \in Counters
<1>1. Typed BY TypeFolded
<1>2. db \in [totals : Counters, logs : Counters] /\ saves \in [Workers -> Task] BY <1>1 DEF Typed
<1>3. /\ recorded \subseteq Ops /\ cleared \subseteq recorded /\ totals \in Counters /\ buckets \in Counters
  BY <1>1 DEF Typed
<1>4. DOMAIN saves = Workers BY <1>2
<1>5. Holding \subseteq InFlight /\ Asleep \subseteq InFlight /\ InFlight \subseteq Workers
  BY <1>4 DEF Holding, Asleep, InFlight
<1> QED BY <1>2, <1>3, <1>4, <1>5 DEF Task

LEMMA RecordStep ==
  ASSUME IInv, NEW s \in Origins, Record(s)
  PROVE  Parts'
<1> DEFINE o == NewOp(s)
<1>0. TypeOK BY DEF IInv
<1>1. /\ o \in Ops /\ o \notin recorded /\ o.late = (scheduled /\ Asleep = {}) /\ o.midsave = (Holding # {})
      /\ totals' = Count(totals, o) /\ buckets' = Count(buckets, o)
  BY <1>0, RecordTypes DEF NewOp
<1> HIDE DEF o
<1>2. UNCHANGED <<node, clearing, db, cleared, anomaly>> /\ node = "up" BY DEF Record
<1>3. ScheduleSave BY DEF Record
<1>4. /\ Holding' = Holding /\ \A t \in Holding : saves'[t] = saves[t]
      /\ Asleep \subseteq Asleep' /\ InFlight \subseteq InFlight'
      /\ saves'["shutdown"] = saves["shutdown"] /\ (scheduled \/ Asleep' # {})
  BY <1>0, <1>3, ScheduleTypes
<1>5. \A k \in Keys : totals'[k] \subseteq totals[k] \cup {o} /\ buckets'[k] \subseteq buckets[k] \cup {o}
  BY <1>1 DEF Count
<1>6. AnnouncementHasTask'
  <2>1. Asleep' \subseteq InFlight' BY DEF Asleep, InFlight
  <2> QED BY <1>4, <2>1 DEF IInv, AnnouncementHasTask
<1>7. Rest' BY <1>2 DEF Rest
<1>8. OneHolder' BY <1>2, <1>4 DEF IInv, OneHolder
<1>9. Unsaved'
  <2>1. ASSUME Clean({"save failed", "overlap", "clear over a save"}), clearing = "no",
               NEW k \in Keys, NEW op \in totals'[k] \ db.totals[k]
        PROVE  op.late \/ Asleep' # {} \/ \E t \in Holding : op \in saves[t].totals[k]
    <3>1. CASE op = o BY <1>1, <1>4, <3>1
    <3>2. CASE op \in totals[k] BY <1>2, <1>4, <2>1, <3>2 DEF IInv, Unsaved
    <3> QED BY <1>5, <2>1, <3>1, <3>2
  <2>2. ASSUME Clean({"overlap"}), NEW t \in Holding, NEW k \in Keys
        PROVE  db.totals[k] \cap totals'[k] \subseteq saves[t].totals[k]
    <3>1. o \notin db.totals[k] BY <1>0, <1>1, Reads DEF Counters
    <3>2. db.totals[k] \cap totals[k] \subseteq saves[t].totals[k] BY <2>2 DEF IInv, Unsaved
    <3> QED BY <1>5, <3>1, <3>2
  <2> QED BY <1>2, <1>4, <2>1, <2>2 DEF Unsaved, Clean
<1>10. Ledger'
  <2> SUFFICES ASSUME Clean({"clear over a save", "clear failed", "load failed", "stale start"}) PROVE Ledger'
    BY <1>2 DEF Ledger, Clean
  <2>1. /\ Sums(totals) /\ Within(buckets, totals) /\ Within(db.totals, totals) /\ Within(db.logs, totals)
        /\ \A t \in Holding : /\ Sums(saves[t].totals) /\ Within(saves[t].logs, saves[t].totals)
                              /\ Within(saves[t].totals, totals)
        /\ Clean({"overlap"}) => /\ Sums(db.totals) /\ Within(db.logs, db.totals)
                                 /\ \A t \in Holding : Within(db.totals, saves[t].totals)
    BY <1>2 DEF IInv, Ledger
  <2>2. recorded \subseteq Ops /\ totals \in Counters /\ buckets \in Counters /\ db.totals \in Counters /\ db.logs \in Counters
    BY <1>0, Reads
  <2>3. Sums(totals') BY <1>1, <2>1, <2>2, CountBalances
  <2>4. Within(buckets', totals') BY <1>1, <2>1, <2>2, CountBalances
  <2>5. Within(db.totals, totals') /\ Within(db.logs, totals') BY <1>1, <2>1, <2>2, CountBalances
  <2>6. ASSUME NEW t \in Holding PROVE Within(saves[t].totals, totals')
    <3>1. saves[t].totals \in Counters BY <1>0, Reads
    <3> QED BY <1>1, <2>1, <2>2, <3>1, CountBalances
  <2>7. Clean({"overlap"})' = Clean({"overlap"}) BY <1>2 DEF Clean
  <2> QED BY <1>2, <1>4, <2>1, <2>3, <2>4, <2>5, <2>6, <2>7 DEF Ledger
<1>11. Gone'
  <2>1. o \notin cleared BY <1>0, <1>1, Reads
  <2> QED BY <1>2, <1>4, <1>5, <2>1, ZenonT(40) DEF IInv, Gone, Clean, Apart
<1>12. Filing'
  <2>1. Credited(totals') /\ Filed(buckets') BY <1>0, <1>1, Reads, CountBalances DEF IInv, Filing
  <2> QED BY <1>2, <1>4, <2>1 DEF IInv, Filing
<1>13. Final'
  <2>1. ASSUME NEW t \in Holding, NEW k \in Keys, NEW op \in totals'[k] \ saves[t].totals[k] PROVE op.midsave
    <3>1. CASE op = o BY <1>1, <2>1, <3>1
    <3>2. CASE op \in totals[k] BY <2>1, <3>2 DEF IInv, Final
    <3> QED BY <1>5, <2>1, <3>1, <3>2
  <2> QED BY <1>2, <1>4, <2>1 DEF Final, CountedSurvives
<1> QED BY <1>6, <1>7, <1>8, <1>9, <1>10, <1>11, <1>12, <1>13 DEF Parts

(* A copy is of all there is; a second one is flagged.                     *)
LEMMA SnapshotStep ==
  ASSUME IInv, NEW t \in Workers, Snapshot(t), node # "down",
         \/ t \in Tasks /\ UNCHANGED node
         \/ t = "shutdown" /\ node' = "stopping" /\ clearing = "no",
         UNCHANGED <<totals, buckets, scheduled, clearing, db, recorded, cleared>>
  PROVE  Parts'
<1>0. TypeOK BY DEF IInv
<1>1. /\ saves'[t] = [pc |-> "write", totals |-> totals, logs |-> buckets]
      /\ \A u \in Workers : u # t => saves'[u] = saves[u]
      /\ Holding' = Holding \cup {t} /\ InFlight' # {}
      /\ anomaly \subseteq anomaly' /\ (Holding # {} => "overlap" \in anomaly')
  BY <1>0, SnapshotTypes
<1>2. saves'[t].pc = "write" /\ saves'[t].totals = totals /\ saves'[t].logs = buckets BY <1>1
<1>3. "overlap" \notin anomaly' => Holding = {} /\ Holding' = {t} BY <1>1
<1>4. node' # "down" /\ (node = "up" \/ node = "stopping") BY <1>0 DEF TypeOK
<1>5. AnnouncementHasTask' BY <1>1 DEF AnnouncementHasTask
<1>6. Rest' BY <1>4 DEF IInv, Rest
<1>7. OneHolder' BY <1>3 DEF OneHolder
<1>8. Unsaved'
  <2>1. \A k \in Keys : \A op \in totals[k] : \E u \in Holding' : op \in saves'[u].totals[k]
    BY <1>1, <1>2
  <2>2. Clean({"overlap"})' => Holding' = {t} BY <1>3 DEF Clean
  <2> QED BY <1>2, <2>1, <2>2 DEF Unsaved
<1>9. Ledger'
  <2> SUFFICES ASSUME Clean({"clear over a save", "clear failed", "load failed", "stale start"})' PROVE Ledger'
    BY DEF Ledger
  <2>1. Clean({"clear over a save", "clear failed", "load failed", "stale start"})
    BY <1>1 DEF Clean
  <2>2. /\ Sums(totals) /\ Within(buckets, totals) /\ Within(db.totals, totals) /\ Within(db.logs, totals)
        /\ Clean({"overlap"}) => Sums(db.totals) /\ Within(db.logs, db.totals)
    BY <2>1 DEF IInv, Ledger
  <2>3. Within(totals, totals) BY NothingBalances
  <2>4. ASSUME NEW u \in Holding'
        PROVE  /\ Sums(saves'[u].totals) /\ Within(saves'[u].logs, saves'[u].totals)
               /\ Within(saves'[u].totals, totals)
    <3>1. CASE u = t
      <4>1. saves'[u].totals = totals /\ saves'[u].logs = buckets BY <1>2, <3>1
      <4> QED BY <2>2, <2>3, <4>1
    <3>2. CASE u # t
      <4>1. u \in Holding /\ saves'[u] = saves[u] BY <1>0, <1>1, <3>2, Reads
      <4> QED BY <2>1, <4>1 DEF IInv, Ledger
    <3> QED BY <3>1, <3>2
  <2>5. ASSUME Clean({"overlap"})'
        PROVE  Sums(db.totals) /\ Within(db.logs, db.totals) /\ \A u \in Holding' : Within(db.totals, saves'[u].totals)
    <3>1. Clean({"overlap"}) /\ Holding' = {t} BY <1>1, <1>3, <2>5 DEF Clean
    <3> QED BY <1>2, <2>2, <3>1
  <2> QED BY <2>2, <2>4, <2>5 DEF Ledger
<1>10. Gone'
  <2> SUFFICES ASSUME Clean({"clear over a save", "clear failed"})' PROVE Gone'
    BY DEF Gone
  <2>1. Clean({"clear over a save", "clear failed"}) BY <1>1 DEF Clean
  <2>2. ASSUME NEW u \in Holding' PROVE \A k \in Keys : saves'[u].totals[k] \cap cleared = {} /\ saves'[u].logs[k] \cap cleared = {}
    <3>1. CASE u = t BY <1>2, <2>1, <3>1 DEF IInv, Gone, Apart
    <3>2. CASE u # t
      <4>1. u \in Holding /\ saves'[u] = saves[u] BY <1>0, <1>1, <3>2, Reads
      <4> QED BY <2>1, <4>1 DEF IInv, Gone, Apart
    <3> QED BY <3>1, <3>2
  <2> QED BY <2>1, <2>2 DEF IInv, Gone, Apart
<1>11. Filing'
  <2>1. ASSUME NEW u \in Holding' PROVE Credited(saves'[u].totals) /\ Filed(saves'[u].logs)
    <3>1. CASE u = t BY <1>2, <3>1 DEF IInv, Filing
    <3>2. CASE u # t
      <4>1. u \in Holding /\ saves'[u] = saves[u] BY <1>0, <1>1, <3>2, Reads
      <4> QED BY <4>1 DEF IInv, Filing
    <3> QED BY <3>1, <3>2
  <2> QED BY <2>1 DEF IInv, Filing
<1>12. Final'
  <2>1. ASSUME NEW u \in Holding', NEW k \in Keys, NEW op \in totals[k] \ saves'[u].totals[k] PROVE op.midsave
    <3>1. u # t BY <1>2, <2>1
    <3>2. u \in Holding /\ saves'[u] = saves[u] BY <1>0, <1>1, <3>1, Reads
    <3> QED BY <2>1, <3>2 DEF IInv, Final
  <2>2. CountedSurvives'
    <3>1. CASE t = "shutdown" BY <1>2, <3>1 DEF CountedSurvives
    <3>2. CASE t # "shutdown"
      <4>1. UNCHANGED node /\ saves'["shutdown"] = saves["shutdown"] BY <1>1, <3>2 DEF Workers
      <4> QED BY <4>1 DEF IInv, Final, CountedSurvives
    <3> QED BY <3>1, <3>2
  <2> QED BY <2>1, <2>2 DEF Final
<1> QED BY <1>5, <1>6, <1>7, <1>8, <1>9, <1>10, <1>11, <1>12 DEF Parts

(* A task whose copy is dropped, written or not, and the rest of the state. *)
LEMMA SaveStep ==
  ASSUME IInv, NEW t \in Workers, save_to_db(t)
  PROVE  Parts'
<1>0. TypeOK BY DEF IInv
<1>1. /\ saves[t].pc = "write" /\ saves' = [saves EXCEPT ![t] = [Idle EXCEPT !.pc = "finally"]]
      /\ db'.totals = Upsert(db.totals, saves[t].totals) /\ db'.logs = UpsertLogs(db.logs, saves[t].logs)
      /\ UNCHANGED <<node, totals, buckets, scheduled, clearing, recorded, cleared>>
  BY DEF save_to_db
<1>a. anomaly' = anomaly \/ (anomaly' = anomaly \ {"save failed", "overlap"} /\ Holding = {t} /\ saves[t].totals = totals)
  BY DEF save_to_db, Repair
<1>2. /\ \A u \in Workers : u # t => saves'[u] = saves[u]
      /\ Holding' = Holding \ {t} /\ Asleep' = Asleep \ {t} /\ InFlight' # {} /\ saves'[t].pc = "finally"
  BY <1>0, <1>1, ReleaseTypes
<1>3. t \in Holding /\ t \in InFlight /\ t \notin Asleep /\ DOMAIN saves = Workers /\ Holding \subseteq Workers
  BY <1>0, <1>1, Reads DEF Holding, InFlight, Asleep
<1>4. Asleep' = Asleep /\ \A u \in Holding' : u \in Holding /\ u # t /\ saves'[u] = saves[u]
  BY <1>2, <1>3
<1> DEFINE F == db.totals G == db.logs f == saves[t].totals g == saves[t].logs
<1>5. F \in Counters /\ G \in Counters /\ f \in Counters /\ g \in Counters BY <1>0, Reads
<1>6. /\ \A k \in Keys : db'.totals[k] = f[k] \/ (f[k] = {} /\ db'.totals[k] = F[k])
      /\ db'.totals["global"] = f["global"] /\ (Within(F, f) => db'.totals = f)
      /\ \A k \in Keys : db'.logs[k] \subseteq G[k] \cup g[k]
  BY <1>1, <1>5, UpsertBalances
<1>7. Credited(F) /\ Filed(G) /\ Credited(f) /\ Filed(g) => Credited(db'.totals) /\ Filed(db'.logs)
  BY <1>0, <1>1, <1>5, Reads, UpsertFiles
<1>8. "overlap" \notin anomaly' => Holding = {t} /\ Holding' = {} BY <1>a, <1>2, <1>3 DEF IInv, OneHolder
<1> HIDE DEF F, G, f, g
<1>9. AnnouncementHasTask' BY <1>2 DEF AnnouncementHasTask
<1>10. Rest'
  <2>1. node # "down" BY <1>3 DEF IInv, Rest
  <2> QED BY <1>1, <2>1 DEF IInv, Rest
<1>11. OneHolder' BY <1>8 DEF OneHolder
<1>12. Unsaved'
  <2>1. ASSUME Clean({"save failed", "overlap", "clear over a save"})', node # "down", clearing = "no",
               NEW k \in Keys, NEW op \in totals[k] \ db'.totals[k]
        PROVE  op.late \/ Asleep # {}
    <3>1. op \notin f[k] BY <1>6, <2>1
    <3>2. f # totals BY <2>1, <3>1
    <3>3. Clean({"save failed", "overlap", "clear over a save"}) BY <1>a, <2>1, <3>2 DEF Clean, f
    <3>4. Holding = {t} /\ F[k] \cap totals[k] \subseteq f[k]
      BY <1>3, <1>8, <2>1, <3>3 DEF IInv, Unsaved, Clean, F, f
    <3>5. op \notin F[k] BY <1>6, <2>1, <3>4
    <3>6. op.late \/ Asleep # {} \/ \E u \in Holding : op \in saves[u].totals[k]
      BY <2>1, <3>3, <3>5 DEF IInv, Unsaved, F
    <3> QED BY <3>1, <3>4, <3>6 DEF f
  <2>2. Clean({"overlap"})' => Holding' = {} BY <1>8 DEF Clean
  <2> QED BY <1>1, <1>4, <2>1, <2>2 DEF Unsaved
<1>13. Ledger'
  <2> SUFFICES ASSUME Clean({"clear over a save", "clear failed", "load failed", "stale start"})' PROVE Ledger'
    BY DEF Ledger
  <2>0. Clean({"clear over a save", "clear failed", "load failed", "stale start"}) /\ node # "down"
    BY <1>a, <1>3 DEF Clean, IInv, Rest
  <2>1. /\ Sums(totals) /\ Within(buckets, totals) /\ Within(F, totals) /\ Within(G, totals)
        /\ Sums(f) /\ Within(g, f) /\ Within(f, totals)
        /\ Clean({"overlap"}) => Sums(F) /\ Within(G, F) /\ Within(F, f)
    BY <1>3, <2>0 DEF IInv, Ledger, F, G, f, g
  <2>2. Within(db'.totals, totals) /\ Within(db'.logs, totals)
    <3>1. \A k \in Keys : db'.totals[k] \subseteq F[k] \cup f[k] /\ db'.logs[k] \subseteq G[k] \cup g[k] BY <1>6
    <3> QED BY <2>1, <3>1 DEF Within
  <2>3. \A u \in Holding' : /\ Sums(saves'[u].totals) /\ Within(saves'[u].logs, saves'[u].totals)
                            /\ Within(saves'[u].totals, totals)
    BY <1>4, <2>0 DEF IInv, Ledger
  <2>4. ASSUME Clean({"overlap"})'
        PROVE  Sums(db'.totals) /\ Within(db'.logs, db'.totals) /\ Holding' = {}
    <3>1. Holding' = {} BY <1>8, <2>4 DEF Clean
    <3>2. Within(F, f) /\ Within(G, f)
      <4>1. CASE anomaly' = anomaly
        <5>1. Clean({"overlap"}) BY <2>4, <4>1 DEF Clean
        <5> QED BY <2>1, <5>1 DEF Within
      <4>2. CASE f = totals BY <2>1, <4>2
      <4> QED BY <1>a, <4>1, <4>2 DEF f
    <3>3. db'.totals = f BY <1>6, <3>2
    <3>4. Within(db'.logs, f) BY <1>6, <2>1, <3>2 DEF Within
    <3> QED BY <2>1, <3>1, <3>3, <3>4
  <2> QED BY <1>1, <2>1, <2>2, <2>3, <2>4 DEF Ledger
<1>14. Gone'
  <2> SUFFICES ASSUME Clean({"clear over a save", "clear failed"})' PROVE Gone' BY DEF Gone
  <2>0. Clean({"clear over a save", "clear failed"}) BY <1>a DEF Clean
  <2>1. Apart(f) /\ Apart(g) /\ Apart(F) /\ Apart(G) BY <1>3, <2>0 DEF IInv, Gone, F, G, f, g
  <2>2. \A k \in Keys : db'.totals[k] \cap cleared = {} /\ db'.logs[k] \cap cleared = {} BY <1>6, <2>1 DEF Apart
  <2> QED BY <1>1, <1>4, <2>0, <2>2 DEF IInv, Gone, Apart
<1>15. Filing'
  <2>1. Credited(F) /\ Filed(G) /\ Credited(f) /\ Filed(g) BY <1>3 DEF IInv, Filing, F, G, f, g
  <2> QED BY <1>1, <1>4, <1>7, <2>1 DEF IInv, Filing
<1>16. Final'
  <2>1. \A k \in Keys : \A op \in totals[k] \ f[k] : op.midsave BY <1>3 DEF IInv, Final, f
  <2>2. CountedSurvives' BY <1>1, <1>6, <2>1 DEF CountedSurvives
  <2> QED BY <1>1, <1>4, <2>2 DEF IInv, Final
<1> QED BY <1>9, <1>10, <1>11, <1>12, <1>13, <1>14, <1>15, <1>16 DEF Parts

(* A failed save and the end of a task touch no counter; a task that holds *)
(* a copy lets go of it only through a save or with a fault on record.     *)
LEMMA ReleaseStep ==
  ASSUME IInv, NEW t \in Workers, NEW p \in {"idle", "finally", "failed"},
         saves' = [saves EXCEPT ![t] = [Idle EXCEPT !.pc = p]],
         \/ /\ saves[t].pc = "write" /\ p = (IF t = "shutdown" THEN "failed" ELSE "finally") /\ UNCHANGED scheduled
            /\ anomaly' = anomaly \cup {"save failed"}
         \/ saves[t].pc = "finally" /\ p = "idle" /\ t # "shutdown" /\ ~scheduled' /\ UNCHANGED anomaly,
         UNCHANGED <<node, totals, buckets, clearing, db, recorded, cleared>>
  PROVE  Parts'
<1>0. TypeOK BY DEF IInv
<1>1. /\ \A u \in Workers : u # t => saves'[u] = saves[u]
      /\ Holding' = Holding \ {t} /\ Asleep' = Asleep \ {t} /\ (p # "idle" => InFlight' # {}) /\ saves'[t].pc = p
  BY <1>0, ReleaseTypes
<1>2. t \in InFlight /\ t \notin Asleep /\ DOMAIN saves = Workers /\ Holding \subseteq Workers
  BY <1>0, Reads DEF Holding, InFlight, Asleep
<1>3. Asleep' = Asleep /\ \A u \in Holding' : u \in Holding /\ u # t /\ saves'[u] = saves[u]
  BY <1>1, <1>2
<1>4. anomaly \subseteq anomaly' OBVIOUS
<1>5. "save failed" \notin anomaly' => Holding' = Holding
  BY <1>1 DEF Holding
<1>6. AnnouncementHasTask' BY <1>1 DEF AnnouncementHasTask
<1>7. Rest'
  <2>1. node # "down" BY <1>2 DEF IInv, Rest
  <2> QED BY <2>1 DEF IInv, Rest
<1>8. OneHolder' BY <1>3, <1>4 DEF IInv, OneHolder
<1>9. Unsaved'
  <2>1. ASSUME Clean({"save failed", "overlap", "clear over a save"})', node # "down", clearing = "no",
               NEW k \in Keys, NEW op \in totals[k] \ db.totals[k]
        PROVE  op.late \/ Asleep' # {} \/ \E u \in Holding' : op \in saves'[u].totals[k]
    <3>1. Clean({"save failed", "overlap", "clear over a save"}) /\ Holding' = Holding
      BY <1>4, <1>5, <2>1 DEF Clean
    <3>2. op.late \/ Asleep # {} \/ \E u \in Holding : op \in saves[u].totals[k]
      BY <2>1, <3>1 DEF IInv, Unsaved
    <3> QED BY <1>3, <3>1, <3>2
  <2>2. ASSUME Clean({"overlap"})', NEW u \in Holding', NEW k \in Keys
        PROVE  db.totals[k] \cap totals[k] \subseteq saves'[u].totals[k]
    <3>1. Clean({"overlap"}) BY <1>4, <2>2 DEF Clean
    <3> QED BY <1>3, <2>2, <3>1 DEF IInv, Unsaved
  <2> QED BY <2>1, <2>2 DEF Unsaved
<1>10. Ledger'
  <2> SUFFICES ASSUME Clean({"clear over a save", "clear failed", "load failed", "stale start"})' PROVE Ledger'
    BY DEF Ledger
  <2>1. Clean({"clear over a save", "clear failed", "load failed", "stale start"}) BY <1>4 DEF Clean
  <2>2. Clean({"overlap"})' => Clean({"overlap"}) BY <1>4 DEF Clean
  <2> QED BY <1>3, <2>1, <2>2 DEF IInv, Ledger
<1>11. Gone'
  <2> SUFFICES ASSUME Clean({"clear over a save", "clear failed"})' PROVE Gone' BY DEF Gone
  <2>1. Clean({"clear over a save", "clear failed"}) BY <1>4 DEF Clean
  <2> QED BY <1>3, <2>1 DEF IInv, Gone, Apart
<1>12. Filing' BY <1>3 DEF IInv, Filing
<1>13. Final'
  <2>1. CountedSurvives'
    <3>1. CASE t = "shutdown"
      <4>1. saves'["shutdown"].pc # "finally" BY <1>1, <3>1
      <4> QED BY <4>1 DEF CountedSurvives
    <3>2. CASE t # "shutdown"
      <4>1. saves'["shutdown"] = saves["shutdown"] BY <1>1, <3>2 DEF Workers
      <4> QED BY <4>1 DEF IInv, Final, CountedSurvives
    <3> QED BY <3>1, <3>2
  <2> QED BY <1>3, <2>1 DEF IInv, Final
<1> QED BY <1>6, <1>7, <1>8, <1>9, <1>10, <1>11, <1>12, <1>13 DEF Parts

(* The deletes of a clear leave memory and the copies for the reset.       *)
LEMMA ClearRowsStep ==
  ASSUME IInv, ClearRows
  PROVE  Parts'
<1>1. /\ node = "up" /\ clearing' = "reset"
      /\ UNCHANGED <<node, totals, buckets, scheduled, saves, recorded, cleared>>
      /\ anomaly \subseteq anomaly'
  BY DEF ClearRows, Fault, FaultAfter
<1>2. \/ db'.totals = Nothing /\ db'.logs = Nothing
      \/ db' = db /\ "clear failed" \in anomaly'
  <2>1. CASE db' = Empty BY <2>1 DEF Empty
  <2>2. CASE Fault("clear failed") /\ UNCHANGED db BY <2>2 DEF Fault, FaultAfter
  <2> QED BY <2>1, <2>2 DEF ClearRows
<1>3. UNCHANGED <<Holding, Asleep, InFlight>> BY <1>1 DEF Holding, Asleep, InFlight
<1>4. AnnouncementHasTask' BY <1>1, <1>3 DEF IInv, AnnouncementHasTask
<1>5. Rest' BY <1>1 DEF Rest
<1>6. OneHolder' BY <1>1, <1>3 DEF IInv, OneHolder
<1>7. Unsaved'
  <2>1. ASSUME Clean({"overlap"})', NEW u \in Holding, NEW k \in Keys
        PROVE  db'.totals[k] \cap totals[k] \subseteq saves[u].totals[k]
    <3>1. Clean({"overlap"}) BY <1>1, <2>1 DEF Clean
    <3>2. db.totals[k] \cap totals[k] \subseteq saves[u].totals[k] BY <2>1, <3>1 DEF IInv, Unsaved
    <3>3. db'.totals[k] = {} \/ db'.totals = db.totals BY <1>2, KeysSplit
    <3> QED BY <3>2, <3>3
  <2> QED BY <1>1, <1>3, <2>1 DEF Unsaved
<1>8. Ledger'
  <2> SUFFICES ASSUME Clean({"clear over a save", "clear failed", "load failed", "stale start"})' PROVE Ledger'
    BY DEF Ledger
  <2>1. Clean({"clear over a save", "clear failed", "load failed", "stale start"}) BY <1>1 DEF Clean
  <2>2. db'.totals = Nothing /\ db'.logs = Nothing BY <1>2 DEF Clean
  <2>3. \A f : Sums(Nothing) /\ Within(Nothing, f) BY NothingBalances
  <2> QED BY <1>1, <1>3, <2>1, <2>2, <2>3 DEF IInv, Ledger
<1>9. Gone'
  <2> SUFFICES ASSUME Clean({"clear over a save", "clear failed"})' PROVE Gone' BY DEF Gone
  <2>1. Clean({"clear over a save", "clear failed"}) BY <1>1 DEF Clean
  <2>2. db'.totals = Nothing /\ db'.logs = Nothing BY <1>2 DEF Clean
  <2> QED BY <1>1, <1>3, <2>1, <2>2, KeysSplit DEF IInv, Gone, Apart
<1>10. Filing'
  <2>1. Credited(db'.totals) /\ Filed(db'.logs) BY <1>2, NothingBalances DEF IInv, Filing
  <2> QED BY <1>1, <1>3, <2>1 DEF IInv, Filing
<1>11. Final' BY <1>1, <1>3 DEF IInv, Final, CountedSurvives
<1> QED BY <1>4, <1>5, <1>6, <1>7, <1>8, <1>9, <1>10, <1>11 DEF Parts

(* The reset: a copy taken, or written, since the deletes is flagged;      *)
(* otherwise nothing is left anywhere.                                     *)
LEMMA ClearMemoryStep ==
  ASSUME IInv, ClearMemory
  PROVE  Parts'
<1>1. /\ totals' = Nothing /\ buckets' = Nothing /\ ~scheduled' /\ clearing' = "no" /\ cleared' = recorded
      /\ UNCHANGED <<node, saves, db, recorded>>
      /\ (Holding # {} \/ db # Empty => "clear over a save" \in anomaly' /\ anomaly \subseteq anomaly')
  BY DEF ClearMemory
<1>2. node = "up" BY DEF IInv, Rest, ClearMemory
<1>3. UNCHANGED <<Holding, Asleep, InFlight>> BY <1>1 DEF Holding, Asleep, InFlight
<1>4. "clear over a save" \notin anomaly' => Holding = {} /\ db.totals = Nothing /\ db.logs = Nothing
  <2> SUFFICES ASSUME "clear over a save" \notin anomaly' PROVE Holding = {} /\ db.totals = Nothing /\ db.logs = Nothing
    OBVIOUS
  <2>1. Holding = {} /\ db = Empty BY <1>1
  <2> QED BY <2>1 DEF Empty
<1>5. AnnouncementHasTask' BY <1>1 DEF AnnouncementHasTask
<1>6. Rest' BY <1>1, <1>2 DEF Rest
<1>7. OneHolder'
  <2>1. CASE Holding = {} BY <1>3, <2>1 DEF OneHolder
  <2>2. CASE Holding # {} BY <1>1, <1>3, <2>2 DEF IInv, OneHolder
  <2> QED BY <2>1, <2>2
<1>8. Unsaved' BY <1>1, KeysSplit DEF Unsaved
<1>9. Ledger'
  <2> SUFFICES ASSUME Clean({"clear over a save", "clear failed", "load failed", "stale start"})' PROVE Ledger'
    BY DEF Ledger
  <2>1. db.totals = Nothing /\ db.logs = Nothing /\ Holding' = {} BY <1>3, <1>4 DEF Clean
  <2>2. \A f : Sums(Nothing) /\ Within(Nothing, f) BY NothingBalances
  <2> QED BY <1>1, <2>1, <2>2 DEF Ledger
<1>10. Gone'
  <2> SUFFICES ASSUME Clean({"clear over a save", "clear failed"})' PROVE Gone' BY DEF Gone
  <2>1. db.totals = Nothing /\ db.logs = Nothing /\ Holding' = {} BY <1>3, <1>4 DEF Clean
  <2> QED BY <1>1, <2>1, KeysSplit DEF Gone, Apart
<1>11. Filing' BY <1>1, <1>3, NothingBalances DEF IInv, Filing
<1>12. Final' BY <1>1, <1>2, KeysSplit DEF Final, CountedSurvives
<1> QED BY <1>5, <1>6, <1>7, <1>8, <1>9, <1>10, <1>11, <1>12 DEF Parts

(* A start, with the rows, with the totals alone or with nothing.          *)
LEMMA LoadStep ==
  ASSUME IInv, node = "down", node' = "up", UNCHANGED <<scheduled, saves, clearing, db, recorded, cleared>>,
         \/ /\ totals' = db.totals /\ anomaly' = Past
            /\ buckets' = [k \in Keys |-> {op \in db.logs[k] : Minute(op.at) >= Minute(now) - Retention}]
         \/ UNCHANGED <<totals, buckets>> /\ anomaly' = Past \cup {"load failed"}
         \/ totals' = db.totals /\ UNCHANGED buckets /\ anomaly' = Past \cup {"log unread"}
  PROVE  Parts'
<1>1. /\ totals = Nothing /\ buckets = Nothing /\ ~scheduled /\ clearing = "no" /\ InFlight = {} /\ Holding = {}
  BY Reads DEF IInv, Rest
<1>2. UNCHANGED <<Holding, Asleep, InFlight>> BY DEF Holding, Asleep, InFlight
<1>3. Holding' = {} BY <1>1, <1>2
<1> DEFINE kept == [k \in Keys |-> {op \in db.logs[k] : Minute(op.at) >= Minute(now) - Retention}]
<1>4. \A k \in Keys : kept[k] = {op \in db.logs[k] : Minute(op.at) >= Minute(now) - Retention} OBVIOUS
<1> HIDE DEF kept
<1>5. /\ (totals' = db.totals \/ (totals' = Nothing /\ "load failed" \in anomaly'))
      /\ (buckets' = kept \/ buckets' = Nothing) /\ Past \subseteq anomaly'
  BY <1>1 DEF kept
<1>6. AnnouncementHasTask' BY <1>1 DEF AnnouncementHasTask
<1>7. Rest' BY DEF Rest
<1>8. OneHolder' BY <1>3 DEF OneHolder
<1>9. Unsaved' BY <1>3, <1>5, KeysSplit DEF Unsaved
<1>10. Ledger'
  <2> SUFFICES ASSUME Clean({"clear over a save", "clear failed", "load failed", "stale start"})' PROVE Ledger'
    BY DEF Ledger
  <2>1. Clean({"clear over a save", "clear failed", "load failed", "stale start", "overlap"}) /\ totals' = db.totals
    BY <1>5 DEF Clean, Past
  <2>2. Sums(db.totals) /\ Within(db.logs, db.totals) BY <2>1 DEF IInv, Ledger, Clean
  <2>3. Within(kept, db.totals) /\ Within(Nothing, db.totals) BY <1>4, <2>2, NothingBalances DEF Within
  <2>4. Within(db.totals, db.totals) BY DEF Within
  <2>5. Within(buckets', db.totals) BY <1>5, <2>3
  <2> QED BY <1>3, <2>1, <2>2, <2>4, <2>5 DEF Ledger
<1>11. Gone'
  <2> SUFFICES ASSUME Clean({"clear over a save", "clear failed"})' PROVE Gone' BY DEF Gone
  <2>1. Clean({"clear over a save", "clear failed"}) BY <1>5 DEF Clean, Past
  <2>2. Apart(db.totals) /\ Apart(db.logs) BY <2>1 DEF IInv, Gone
  <2>3. Apart(kept) /\ Apart(Nothing) BY <1>4, <2>2, KeysSplit DEF Apart
  <2>4. Apart(totals') /\ Apart(buckets') BY <1>5, <2>2, <2>3
  <2> QED BY <1>3, <2>2, <2>4 DEF Gone, Apart
<1>12. Filing'
  <2>1. Credited(db.totals) /\ Filed(db.logs) BY DEF IInv, Filing
  <2>2. Filed(kept)
    <3>1. ASSUME NEW op \in kept["global"], op.source \in Sources PROVE op \in kept[op.source]
      <4>1. op \in db.logs["global"] /\ Minute(op.at) >= Minute(now) - Retention BY <1>4, <3>1, KeysSplit
      <4>2. op \in db.logs[op.source] BY <2>1, <3>1, <4>1 DEF Filed, Credited
      <4>3. op.source \in Keys BY <3>1, KeysSplit
      <4> QED BY <1>4, <4>1, <4>2, <4>3
    <3>2. ASSUME NEW s \in Sources, NEW p \in kept[s] PROVE \E q \in kept["global"] : Minute(q.at) = Minute(p.at)
      <4>1. p \in db.logs[s] /\ Minute(p.at) >= Minute(now) - Retention BY <1>4, <3>2, KeysSplit
      <4>2. PICK q \in db.logs["global"] : Minute(q.at) = Minute(p.at) BY <2>1, <4>1 DEF Filed
      <4>3. q \in kept["global"] BY <1>4, <4>1, <4>2, KeysSplit
      <4> QED BY <4>2, <4>3
    <3> QED BY <3>1, <3>2 DEF Filed, Credited
  <2>3. Credited(totals') /\ Filed(buckets') BY <1>5, <2>1, <2>2, NothingBalances
  <2> QED BY <1>3, <2>1, <2>3 DEF Filing
<1>13. Final' BY <1>3 DEF Final, CountedSurvives
<1> QED BY <1>6, <1>7, <1>8, <1>9, <1>10, <1>11, <1>12, <1>13 DEF Parts

(* The end of the process leaves the tables.                               *)
LEMMA HaltStep ==
  ASSUME IInv, Halt, anomaly \subseteq anomaly'
  PROVE  Parts'
<1>0. TypeOK BY DEF IInv
<1>1. Holding' = {} /\ Asleep' = {} /\ InFlight' = {} BY <1>0, HaltTypes
<1>2. /\ node' = "down" /\ totals' = Nothing /\ buckets' = Nothing /\ recent' = {} /\ ~scheduled' /\ clearing' = "no"
      /\ UNCHANGED <<db, cleared>>
  BY DEF Halt
<1>3. AnnouncementHasTask' BY <1>2 DEF AnnouncementHasTask
<1>4. Rest' BY <1>1, <1>2 DEF Rest, Nothing, Keys
<1>5. OneHolder' BY <1>1 DEF OneHolder
<1>6. Unsaved' BY <1>1, <1>2 DEF Unsaved
<1>7. Ledger'
  <2> SUFFICES ASSUME Clean({"clear over a save", "clear failed", "load failed", "stale start"})' PROVE Ledger'
    BY DEF Ledger
  <2>1. Clean({"clear over a save", "clear failed", "load failed", "stale start"}) BY DEF Clean
  <2>2. \A f : Sums(Nothing) /\ Within(Nothing, f) BY NothingBalances
  <2>3. Clean({"overlap"})' => Clean({"overlap"}) BY DEF Clean
  <2> QED BY <1>1, <1>2, <2>1, <2>2, <2>3 DEF IInv, Ledger
<1>8. Gone'
  <2> SUFFICES ASSUME Clean({"clear over a save", "clear failed"})' PROVE Gone' BY DEF Gone
  <2>1. Clean({"clear over a save", "clear failed"}) BY DEF Clean
  <2> QED BY <1>1, <1>2, <2>1, KeysSplit DEF IInv, Gone, Apart
<1>9. Filing' BY <1>1, <1>2, NothingBalances DEF IInv, Filing
<1>10. Final' BY <1>1, <1>2 DEF Final, CountedSurvives
<1> QED BY <1>3, <1>4, <1>5, <1>6, <1>7, <1>8, <1>9, <1>10 DEF Parts

LEMMA InitParts == Init => Parts
<1> SUFFICES ASSUME Init PROVE Parts OBVIOUS
<1>1. /\ node = "down" /\ totals = Nothing /\ buckets = Nothing /\ recent = {} /\ ~scheduled /\ clearing = "no"
      /\ db.totals = Nothing /\ db.logs = Nothing
  BY DEF Init, Empty
<1>2. Holding = {} /\ InFlight = {} BY DEF Init, Holding, InFlight, Idle
<1>3. \A f : Sums(Nothing) /\ Within(Nothing, f) /\ Apart(Nothing) /\ Credited(Nothing) /\ Filed(Nothing) BY NothingBalances
<1>4. AnnouncementHasTask /\ Rest /\ OneHolder BY <1>1, <1>2 DEF AnnouncementHasTask, Rest, OneHolder
<1>5. Unsaved BY <1>1, <1>2 DEF Unsaved
<1>6. Ledger BY <1>1, <1>2, <1>3 DEF Ledger
<1>7. Gone BY <1>1, <1>2, <1>3 DEF Gone
<1>8. Filing BY <1>1, <1>2, <1>3 DEF Filing
<1>9. Final BY <1>1, <1>2 DEF Final, CountedSurvives
<1> QED BY <1>4, <1>5, <1>6, <1>7, <1>8, <1>9 DEF Parts

-------------------------------------------------------------------------------
(* Minutes and windows *)

LEMMA Quotient ==
  ASSUME NEW a \in Nat, NEW b \in Nat, b > 0
  PROVE  /\ a \div b \in Nat /\ b * (a \div b) <= a /\ a < b * (a \div b) + b
<1>1. a \div b \in Nat OBVIOUS
<1>2. b * (a \div b) <= a BY SMTT(20)
<1>3. a < b * (a \div b) + b BY SMTT(20)
<1> QED BY <1>1, <1>2, <1>3

LEMMA Monotone ==
  ASSUME NEW a \in Nat, NEW b \in Nat, NEW c \in Nat, a <= b
  PROVE  c * a <= c * b
<1>1. PICK d \in Nat : b = a + d
  <2>1. b - a \in Nat /\ b = a + (b - a) OBVIOUS
  <2> QED BY <2>1
<1>2. c * b = c * a + c * d BY <1>1
<1>3. c * d \in Nat /\ c * a \in Nat OBVIOUS
<1> QED BY <1>2, <1>3

LEMMA NextMultiple ==
  ASSUME NEW a \in Nat, NEW b \in Nat, NEW c \in Nat, a < b
  PROVE  c * a + c <= c * b
<1>1. c * (a + 1) <= c * b BY Monotone
<1>2. c * (a + 1) = c * a + c OBVIOUS
<1> QED BY <1>1, <1>2

LEMMA Slot ==
  ASSUME NEW d \in Nat, NEW m \in Nat, m > 0, NEW n \in Nat, n > 0, d <= m * (n - 1)
  PROVE  /\ d \div m + 1 \in 1 .. n
         /\ \A j \in 1 .. n : (m * (j - 1) <= d /\ d < m * (j - 1) + m) <=> d \div m + 1 = j
<1> DEFINE q == d \div m
<1>1. q \in Nat /\ m * q <= d /\ d < m * q + m BY Quotient
<1> HIDE DEF q
<1>2. q < n
  <2> SUFFICES ASSUME q >= n PROVE FALSE BY <1>1
  <2>1. n - 1 \in Nat /\ n - 1 < q BY <1>1
  <2>2. m * (n - 1) + m <= m * q BY <1>1, <2>1, NextMultiple
  <2>3. m * (n - 1) \in Nat /\ m * q \in Nat BY <1>1, <2>1
  <2> QED BY <1>1, <2>2, <2>3
<1>3. ASSUME NEW j \in 1 .. n PROVE (m * (j - 1) <= d /\ d < m * (j - 1) + m) <=> q + 1 = j
  <2> DEFINE i == j - 1
  <2>1. i \in Nat /\ j = i + 1 OBVIOUS
  <2> HIDE DEF i
  <2>2. m * i \in Nat /\ m * q \in Nat BY <1>1, <2>1
  <2>3. CASE i = q BY <1>1, <2>1, <2>3
  <2>4. CASE i < q
    <3>1. m * i + m <= m * q BY <1>1, <2>1, <2>4, NextMultiple
    <3>2. ~(d < m * i + m) BY <1>1, <2>2, <3>1
    <3> QED BY <2>1, <2>4, <3>2, <1>1 DEF i
  <2>5. CASE q < i
    <3>1. m * q + m <= m * i BY <1>1, <2>1, <2>5, NextMultiple
    <3>2. ~(m * i <= d) BY <1>1, <2>2, <3>1
    <3> QED BY <2>1, <2>5, <3>2, <1>1 DEF i
  <2> QED BY <1>1, <2>1, <2>3, <2>4, <2>5
<1> QED BY <1>1, <1>2, <1>3 DEF q

LEMMA MinuteFacts ==
  ASSUME NEW a \in Nat, NEW b \in Nat, a <= b
  PROVE  /\ Minute(a) \in Nat /\ Minute(b) \in Nat /\ Minute(a) <= Minute(b)
         /\ Minute(a) = Minute(b) => b - a <= TicksPerMinute
<1> DEFINE T == TicksPerMinute x == a \div T y == b \div T
<1>1. T \in Nat /\ T > 0 BY TimeAssumption
<1> HIDE DEF T
<1>2. x \in Nat /\ T * x <= a /\ a < T * x + T BY <1>1, Quotient
<1>3. y \in Nat /\ T * y <= b /\ b < T * y + T BY <1>1, Quotient
<1> HIDE DEF x, y
<1>4. T * x \in Nat /\ T * y \in Nat BY <1>1, <1>2, <1>3
<1>5. x <= y
  <2> SUFFICES ASSUME y < x PROVE FALSE BY <1>2, <1>3
  <2>1. T * y + T <= T * x BY <1>1, <1>2, <1>3, NextMultiple
  <2> QED BY <1>1, <1>2, <1>3, <1>4, <2>1
<1>6. x = y => b - a <= T BY <1>1, <1>2, <1>3, <1>4
<1>7. Minute(a) = x /\ Minute(b) = y BY DEF Minute, x, y, T
<1> QED BY <1>2, <1>3, <1>5, <1>6, <1>7 DEF T

(* Every operation of a window is in one step of its series.               *)
LEMMA WindowPartition ==
  ASSUME TypeOK, NEW k \in Keys, NEW w \in Windows, NEW op \in buckets[k],
         Minute(op.at) >= Minute(now) - w.minutes * (w.steps - 1)
  PROVE  \E i \in 1 .. w.steps : \A j \in 1 .. w.steps : op \in Step(w, k, j) <=> i = j
<1> DEFINE m == w.minutes n == w.steps M == Minute(op.at) N == Minute(now)
           d == M - (N - m * (n - 1))
<1>1. m \in Nat /\ m > 0 /\ n \in Nat /\ n > 0 BY UsageAssumption
<1>2. M \in Nat /\ N \in Nat /\ M <= N
  <2>1. op \in recorded BY Reads DEF Counters
  <2>2. op.at \in Nat /\ op.at <= now BY <2>1 DEF TypeOK, Ops
  <2> QED BY <2>2, NowType, MinuteFacts
<1>3. M >= N - m * (n - 1) OBVIOUS
<1>4. \A j \in 1 .. n : op \in Step(w, k, j) <=>
         /\ (N - m * (n - 1)) + m * (j - 1) <= M
         /\ M < ((N - m * (n - 1)) + m * (j - 1)) + m
  BY DEF Step, WindowStart
<1> HIDE DEF m, n, M, N
<1>5. m * (n - 1) \in Nat
  <2>1. n - 1 \in Nat BY <1>1
  <2> QED BY <1>1, <2>1
<1>6. d \in Nat /\ d <= m * (n - 1) /\ M = (N - m * (n - 1)) + d BY <1>2, <1>3, <1>5
<1>7. \A j \in 1 .. n : m * (j - 1) \in Nat
  <2> SUFFICES ASSUME NEW j \in 1 .. n PROVE m * (j - 1) \in Nat OBVIOUS
  <2>1. j - 1 \in Nat BY <1>1
  <2> QED BY <1>1, <2>1
<1> HIDE DEF d
<1>8. \A j \in 1 .. n : op \in Step(w, k, j) <=> (m * (j - 1) <= d /\ d < m * (j - 1) + m)
  <2> SUFFICES ASSUME NEW j \in 1 .. n
               PROVE  op \in Step(w, k, j) <=> (m * (j - 1) <= d /\ d < m * (j - 1) + m)
    OBVIOUS
  <2> DEFINE z == N - m * (n - 1) e == m * (j - 1)
  <2>1. z \in Int /\ e \in Nat /\ M = z + d /\ d \in Nat /\ m \in Nat BY <1>1, <1>2, <1>5, <1>6, <1>7
  <2>2. op \in Step(w, k, j) <=> (z + e <= M /\ M < (z + e) + m) BY <1>4
  <2> HIDE DEF z, e
  <2>3. (z + e <= M /\ M < (z + e) + m) <=> (e <= d /\ d < e + m) BY <2>1
  <2> QED BY <2>2, <2>3 DEF e
<1>9. /\ d \div m + 1 \in 1 .. n
      /\ \A j \in 1 .. n : (m * (j - 1) <= d /\ d < m * (j - 1) + m) <=> d \div m + 1 = j
  BY <1>1, <1>6, Slot
<1>10. \A j \in 1 .. n : op \in Step(w, k, j) <=> d \div m + 1 = j BY <1>8, <1>9
<1> QED BY <1>9, <1>10 DEF n

LEMMA RateIsRecent ==
  ASSUME TypeOK, NEW k \in Keys, NEW op \in Rate(k)
  PROVE  now - op.at <= TicksPerMinute
<1>1. op \in Pruned \/ (op \in buckets[k] /\ Minute(op.at) = Minute(now)) BY DEF Rate
<1>2. op \in recorded
  <2>1. recent \subseteq recorded BY DEF TypeOK
  <2>2. buckets[k] \subseteq recorded BY Reads DEF Counters
  <2> QED BY <1>1, <2>1, <2>2 DEF Pruned
<1>3. op.at \in Nat /\ op.at <= now BY <1>2 DEF TypeOK, Ops
<1>4. now \in Nat /\ TicksPerMinute \in Nat BY NowType, TimeAssumption
<1>5. CASE op \in Pruned
  <2>1. op.at >= now - TicksPerMinute BY <1>5 DEF Pruned
  <2> QED BY <1>3, <1>4, <2>1
<1>6. CASE Minute(op.at) = Minute(now) BY <1>3, <1>4, <1>6, MinuteFacts
<1> QED BY <1>1, <1>5, <1>6

-------------------------------------------------------------------------------
(* Theorems *)

LEMMA NextParts == IInv /\ [Next]_vars => Parts'
<1> SUFFICES ASSUME IInv, [Next]_vars PROVE Parts' OBVIOUS
<1>0. TypeOK BY DEF IInv
<1>1. ASSUME NEW s \in Origins, Record(s) PROVE Parts' BY <1>1, RecordStep
<1>2. ASSUME NEW t \in DOMAIN saves, WakeUp(t) PROVE Parts'
  <2>1. t \in Workers /\ t \in InFlight BY <1>0, <1>2, Reads DEF WakeUp, InFlight
  <2>2. node # "down" BY <2>1 DEF IInv, Rest
  <2>3. /\ Snapshot(t) /\ t \in Tasks /\ UNCHANGED node
        /\ UNCHANGED <<totals, buckets, scheduled, clearing, db, recorded, cleared>>
    BY <1>2 DEF WakeUp
  <2> QED BY <2>1, <2>2, <2>3, SnapshotStep
<1>3. ASSUME NEW t \in DOMAIN saves, save_to_db(t) PROVE Parts'
  BY <1>0, <1>3, Reads, SaveStep
<1>4. ASSUME NEW t \in DOMAIN saves, SaveFails(t) PROVE Parts'
  <2>1. t \in Workers BY <1>0, Reads
  <2> DEFINE p == IF t = "shutdown" THEN "failed" ELSE "finally"
  <2>2. /\ saves' = [saves EXCEPT ![t] = [Idle EXCEPT !.pc = p]] /\ saves[t].pc = "write"
        /\ anomaly' = anomaly \cup {"save failed"} /\ p \in {"idle", "finally", "failed"}
        /\ UNCHANGED <<scheduled, node, totals, buckets, clearing, db, recorded, cleared>>
    BY <1>4 DEF SaveFails, Fault, FaultAfter
  <2> HIDE DEF p
  <2>3. p = IF t = "shutdown" THEN "failed" ELSE "finally" BY DEF p
  <2> QED BY <2>1, <2>2, <2>3, ReleaseStep
<1>5. ASSUME NEW t \in DOMAIN saves, ResetFlag(t) PROVE Parts'
  <2>1. t \in Workers BY <1>0, Reads
  <2>2. t # "shutdown" BY <1>5, UsageAssumption DEF ResetFlag
  <2>3. [Idle EXCEPT !.pc = "idle"] = Idle BY DEF Idle
  <2>4. /\ saves' = [saves EXCEPT ![t] = [Idle EXCEPT !.pc = "idle"]] /\ saves[t].pc = "finally"
        /\ ~scheduled' /\ UNCHANGED <<anomaly, node, totals, buckets, clearing, db, recorded, cleared>>
    BY <1>5, <2>3 DEF ResetFlag, history
  <2> QED BY <2>1, <2>2, <2>4, ReleaseStep
<1>6. CASE ClearRows BY <1>6, ClearRowsStep
<1>7. CASE ClearMemory BY <1>7, ClearMemoryStep
<1>8. CASE load_from_db
  <2>1. /\ node = "down" /\ node' = "up" /\ UNCHANGED <<scheduled, saves, clearing, db, recorded, cleared>>
        /\ totals' = db.totals /\ anomaly' = Past
        /\ buckets' = [k \in Keys |-> {op \in db.logs[k] : Minute(op.at) >= Minute(now) - Retention}]
    BY <1>8 DEF load_from_db
  <2> QED BY <2>1, LoadStep
<1>9. CASE LoadFails
  <2>1. /\ node = "down" /\ node' = "up" /\ UNCHANGED <<scheduled, saves, clearing, db, recorded, cleared>>
        /\ UNCHANGED buckets
        /\ \/ UNCHANGED totals /\ anomaly' = Past \cup {"load failed"}
           \/ totals' = db.totals /\ anomaly' = Past \cup {"log unread"}
    BY <1>9 DEF LoadFails, FaultAfter
  <2> QED BY <2>1, LoadStep
<1>10. CASE Shutdown
  <2>1. "shutdown" \in Workers BY DEF Workers
  <2>2. /\ Snapshot("shutdown") /\ node = "up" /\ node' = "stopping" /\ clearing = "no"
        /\ UNCHANGED <<totals, buckets, scheduled, clearing, db, recorded, cleared>>
    BY <1>10 DEF Shutdown
  <2> QED BY <2>1, <2>2, SnapshotStep
<1>11. CASE Exit BY <1>11, HaltStep DEF Exit
<1>12. CASE Crash BY <1>12, HaltStep DEF Crash, Fault, FaultAfter
<1>13. CASE get_metrics BY <1>13, QuietStep DEF get_metrics, Pruned
<1>14. CASE Tick BY <1>14, QuietStep DEF Tick, volatile
<1>15. CASE UNCHANGED vars BY <1>15, QuietStep DEF vars
<1> QED BY <1>1, <1>2, <1>3, <1>4, <1>5, <1>6, <1>7, <1>8, <1>9, <1>10, <1>11, <1>12, <1>13, <1>14, <1>15
        DEF Next, record_read, record_write

(* The inductive invariant: whatever is recorded, saved, cleared, loaded,  *)
(* fails or dies, memory, copies and tables stay in these relations.       *)
THEOREM Invariance == Spec => []IInv
<1>1. Init => IInv BY InitTypes, InitParts DEF IInv, Parts
<1>2. IInv /\ [Next]_vars => IInv'
  <2> SUFFICES ASSUME IInv, [Next]_vars PROVE IInv' OBVIOUS
  <2>1. TypeOK' BY NextTypes DEF IInv
  <2>2. Parts' BY NextParts
  <2> QED BY <2>1, <2>2 DEF IInv, Parts
<1> QED BY <1>1, <1>2, PTL DEF Spec

(* Every counter, copy and row counts recorded operations, and none from   *)
(* the future.                                                             *)
THEOREM TypeCorrect == Spec => []TypeOK
<1>1. IInv => TypeOK BY DEF IInv
<1> QED BY <1>1, Invariance, PTL

(* An announced save exists, and with no save under way what the database  *)
(* misses was recorded after the last copy, or a fault explains it.        *)
THEOREM UnsavedOperationsAreLate == Spec => []UnsavedIsLate
<1>1. IInv => UnsavedIsLate
  <2> SUFFICES ASSUME IInv PROVE UnsavedIsLate OBVIOUS
  <2>1. AnnouncementHasTask BY DEF IInv
  <2>2. ASSUME node = "up", InFlight = {}, clearing = "no", anomaly \cap {"save failed", "overlap", "clear over a save"} = {},
               NEW k \in Keys, NEW op \in totals[k] \ db.totals[k]
        PROVE  op.late
    <3>1. Holding = {} /\ Asleep = {} BY <2>2, Reads DEF IInv
    <3> QED BY <2>2, <3>1 DEF IInv, Unsaved, Clean
  <2> QED BY <2>1, <2>2 DEF UnsavedIsLate
<1> QED BY <1>1, Invariance, PTL

(* The node's rows miss nothing of a source but what its source's rows     *)
(* miss, whatever happened; they are equal, and the log within the totals, *)
(* but for the overlaps, clears and loads that are named and not repaired. *)
THEOREM LedgersBalance == Spec => []LedgerBalances
<1>1. IInv => LedgerBalances
  <2> SUFFICES ASSUME IInv PROVE LedgerBalances OBVIOUS
  <2>1. ASSUME NEW rows \in {db.totals, db.logs}, NEW op \in rows["global"], op.source # "none"
        PROVE  op \in rows[op.source]
    <3>1. Credited(rows) BY DEF IInv, Filing, Filed
    <3>2. rows["global"] \subseteq Ops BY Reads, KeysSplit DEF IInv, Counters
    <3>3. op.source \in Sources BY <2>1, <3>2, KeysSplit
    <3> QED BY <2>1, <3>1, <3>3 DEF Credited
  <2>2. anomaly \cap {"overlap", "stale start", "clear over a save", "clear failed", "load failed"} = {} =>
          Sums(db.totals) /\ Within(db.logs, db.totals)
    BY DEF IInv, Ledger, Clean
  <2> QED BY <2>1, <2>2 DEF LedgerBalances, Sums, Within
<1> QED BY <1>1, Invariance, PTL

(* What was cleared stays cleared, unless the clear crossed a save or its  *)
(* deletes failed.                                                         *)
THEOREM ClearsAreFinal == Spec => []ClearIsFinal
<1>1. IInv => ClearIsFinal BY DEF IInv, Gone, Clean, Apart, ClearIsFinal
<1> QED BY <1>1, Invariance, PTL

(* Every window, whatever its length and step, counts each operation of    *)
(* its minutes once, and the rate counts the last minute only.             *)
THEOREM ReportsAreAccurate == Spec => []ReportIsAccurate
<1>1. TypeOK => ReportIsAccurate BY WindowPartition, RateIsRecent DEF ReportIsAccurate
<1> QED BY <1>1, TypeCorrect, PTL

(* After the final save of a shutdown the tables miss only what came while *)
(* a save task held an older copy, whatever such tasks do to its rows.     *)
THEOREM CountedOperationsSurvive == Spec => []CountedSurvives
<1>1. IInv => CountedSurvives BY DEF IInv, Final
<1> QED BY <1>1, Invariance, PTL
===============================================================================
