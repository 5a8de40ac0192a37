------------------------- MODULE SourceRegistryProofs -------------------------
(***************************************************************************)
(* Theorems about the registered sources, for any sources, names, sessions *)
(* and requests, however they interleave.                                  *)
(***************************************************************************)
EXTENDS SourceRegistry, TLAPS

(* A status that is not UNKNOWN was the answer of a connection.            *)
Known(s, x) == x.status # "UNKNOWN" => <<s, x.status>> \in seen

(* What the sessions carry from one await to the next.                     *)
Creating(r) ==
  session[r].op = "create" =>
    /\ session[r].s \in used /\ session[r].in \in Creations
    /\ session[r].pc = "insert" => <<session[r].s, session[r].found>> \in seen
Updating(r) ==
  session[r].op = "update" =>
    /\ session[r].s \in used /\ session[r].in \in Edits
    /\ session[r].pc \in {"name", "second", "flush"} =>
         /\ session[r].first \in Rows /\ session[r].target = Edit(session[r].first, session[r].in)
         /\ Known(session[r].s, session[r].first)
         /\ alone[r] => row[session[r].s] = session[r].first
    /\ session[r].pc = "flush" /\ alone[r] => session[r].second = session[r].first
Testing(r) ==
  session[r].op \in {"test", "discover"} =>
    /\ session[r].s \in used
    /\ session[r].pc \in {"connect", "save"} => session[r].host \in Hosts
    /\ session[r].pc = "save" => <<session[r].s, session[r].found>> \in seen
Deleting(r) == session[r].op = "delete" => session[r].s \in used
Probing(r) ==
  session[r].op = "probe" => \A s \in DOMAIN session[r].tasks :
    /\ session[r].tasks[s] \in {"ACTIVE", "wrote ACTIVE"} => <<s, "ACTIVE">> \in seen
    /\ session[r].tasks[s] \in {"UNREACHABLE", "wrote UNREACHABLE"} => <<s, "UNREACHABLE">> \in seen

Carries(r) == Creating(r) /\ Updating(r) /\ Testing(r) /\ Deleting(r) /\ Probing(r)

IInv == TypeOK /\ RowsAreSound /\ \A r \in Sessions : Carries(r)

-----------------------------------------------------------------------------
(* Rows and sessions *)

LEMMA RowFacts ==
  ASSUME TypeOK, NEW s \in Sources
  PROVE  /\ Absent \notin Rows /\ row[s] \in Rows \cup {Absent}
         /\ s \in Present <=> row[s] # Absent
         /\ s \in Present <=> row[s] \in Rows
         /\ row[s] # Absent => s \in used
<1>1. Absent \notin Rows
  BY DEF Absent, Rows, Fields, Statuses
<1>2. row[s] \in Rows \cup {Absent} /\ Present \subseteq used
  BY DEF TypeOK
<1> QED BY <1>1, <1>2 DEF Present

LEMMA SessionFacts ==
  ASSUME TypeOK, NEW r \in Sessions
  PROVE  session[r] \in Locals /\ session \in [Sessions -> Locals]
BY DEF TypeOK

LEMMA ReadyFacts ==
  /\ Ready \in Locals /\ Ready.op = "none" /\ Ready.pc = "idle" /\ Ready.s = Free
  /\ Ready.tasks = [s \in {} |-> "get"]
<1>1. Ready.tasks \in UNION {[S -> TaskStates \cup Hosts] : S \in SUBSET Sources}
  <2>1. Ready.tasks \in [{} -> TaskStates \cup Hosts] /\ {} \in SUBSET Sources
    BY DEF Ready
  <2> QED BY <2>1
<1>2. /\ Ready.pc = "idle" /\ Ready.op = "none" /\ Ready.s = Free /\ Ready.in = Absent
      /\ Ready.first = Absent /\ Ready.target = Absent /\ Ready.second = Absent
      /\ Ready.found = "UNKNOWN" /\ Ready.host = Keep /\ Ready.at = 0
  BY DEF Ready
<1>3. Ready = [pc |-> Ready.pc, op |-> Ready.op, s |-> Ready.s, in |-> Ready.in,
               first |-> Ready.first, target |-> Ready.target, second |-> Ready.second,
               found |-> Ready.found, host |-> Ready.host, at |-> Ready.at, tasks |-> Ready.tasks]
  BY DEF Ready
<1>4. Ready \in Locals
  BY <1>1, <1>2, <1>3 DEF Locals, Places, Operations, Statuses
<1> QED BY <1>2, <1>4 DEF Ready

(* What update_source and the flush make of a row.                         *)
LEMMA EditFacts ==
  ASSUME NEW old \in Rows, NEW in \in Edits
  PROVE  /\ Edit(old, in) \in Rows /\ Edit(old, in).status = old.status
         /\ \A f \in {"name", "host"} : Edit(old, in)[f] = IF in[f] = Keep THEN old[f] ELSE in[f]
         /\ Edit(old, in).password = IF in.password \in Passwords THEN in.password ELSE old.password
<1>1. in \in [name : Names \cup {Keep}, host : Hosts \cup {Keep}, password : Passwords \cup {Keep, Blank}]
  BY SourcesAssumption
<1>2. DOMAIN in = {"name", "host", "password"}
  BY <1>1
<1>3. /\ Edit(old, in).status = old.status
      /\ Edit(old, in).name = IF in.name = Keep THEN old.name ELSE in.name
      /\ Edit(old, in).host = IF in.host = Keep THEN old.host ELSE in.host
  BY <1>1, <1>2, SourcesAssumption DEF Edit, Fields
<1>4. Edit(old, in).password = IF in.password \in Passwords THEN in.password ELSE old.password
  BY <1>1, <1>2, SourcesAssumption DEF Edit, Fields
<1>5. Edit(old, in) \in Rows
  BY <1>1, <1>2, SourcesAssumption DEF Edit, Fields, Rows
<1> QED BY <1>3, <1>4, <1>5

LEMMA FlushFacts ==
  ASSUME NEW current \in Rows, NEW target \in Rows, NEW second
  PROVE  /\ Flushed(current, second, target) \in Rows
         /\ Flushed(current, second, target).status \in {current.status, target.status}
BY DEF Flushed, Fields, Rows

(* Who holds the write lock.                                               *)
LockOK ==
  /\ lock \in Sessions \cup {Free}
  /\ lock # Free => At(lock, "probe", "gather") /\ Wrote(lock) # {}

(* What a step of a session may do to everything else.                     *)
Moves(r) ==
  /\ session' = [session EXCEPT ![r] = session'[r]] /\ session'[r] \in Locals
  /\ row' \in [Sources -> Rows \cup {Absent}] /\ Present' \subseteq used'
  /\ used \subseteq used' /\ used' \subseteq Sources
  /\ snapshots' \subseteq [source : Sources, host : Hosts, at : Nat] /\ now' \in Nat
  /\ requests' \in 0..MaxRequests /\ UNCHANGED <<up, swings>>
  /\ seen \subseteq seen' /\ seen' \subseteq Sources \X Statuses
  /\ alone' \in [Sessions -> BOOLEAN]
  /\ \A q \in Sessions \ {r} : session[q].op = "update" /\ alone'[q] =>
        alone[q] /\ row'[session[q].s] = row[session[q].s]
  /\ LockOK'

LEMMA MovesKeep ==
  ASSUME IInv, NEW r \in Sessions, Moves(r), Carries(r)', RowsAreSound'
  PROVE  IInv'
<1>1. session' \in [Sessions -> Locals] /\ \A q \in Sessions \ {r} : session'[q] = session[q]
  BY DEF Moves, IInv, TypeOK
<1>2. TypeOK'
  BY <1>1 DEF Moves, IInv, TypeOK, LockOK
<1>3. ASSUME NEW q \in Sessions, q # r PROVE Carries(q)'
  <2>1. Carries(q) /\ session'[q] = session[q] /\ seen \subseteq seen' /\ used \subseteq used'
    BY <1>1, <1>3 DEF IInv, Moves
  <2>2. session[q].op = "update" /\ alone'[q] => alone[q] /\ row'[session[q].s] = row[session[q].s]
    BY <1>3 DEF Moves
  <2>3. Creating(q)' /\ Testing(q)' /\ Deleting(q)'
    BY <2>1 DEF Carries, Creating, Testing, Deleting
  <2>4. Probing(q)'
    BY <2>1 DEF Carries, Probing
  <2>5. Updating(q)'
    BY <2>1, <2>2 DEF Carries, Updating, Known
  <2> QED BY <2>3, <2>4, <2>5 DEF Carries
<1> QED BY <1>2, <1>3 DEF IInv

(* Only a probe that gathers can hold the lock, and the steps of the others *)
(* leave it there.                                                         *)
LEMMA NotLocked ==
  ASSUME TypeOK, NEW r \in Sessions, session[r].pc # "gather"
  PROVE  lock # r
BY SourcesAssumption DEF TypeOK, At

LEMMA LockStays ==
  ASSUME TypeOK, NEW r \in Sessions, session' = [session EXCEPT ![r] = session'[r]],
         lock' = lock, lock # r
  PROVE  LockOK'
<1>1. lock \in Sessions => session'[lock] = session[lock]
  BY DEF TypeOK
<1> QED BY <1>1 DEF LockOK, TypeOK, At, Wrote

(* A step that reads, or asks a host, changes its session alone.           *)
LEMMA QuietMoves ==
  ASSUME TypeOK, NEW r \in Sessions, NEW l \in Locals, session' = [session EXCEPT ![r] = l],
         UNCHANGED <<row, snapshots, up, used, lock, swings>>, now' \in Nat,
         requests' \in 0..MaxRequests, seen \subseteq seen', seen' \subseteq Sources \X Statuses,
         alone' \in [Sessions -> BOOLEAN], \A q \in Sessions \ {r} : alone'[q] = alone[q],
         lock # r
  PROVE  Moves(r) /\ session'[r] = l
<1>1. session'[r] = l /\ session' = [session EXCEPT ![r] = session'[r]]
  BY DEF TypeOK
<1>2. LockOK'
  BY <1>1, LockStays
<1>3. Present' = Present
  BY DEF Present
<1> QED BY <1>1, <1>2, <1>3 DEF Moves, TypeOK

LEMMA SoundStays ==
  ASSUME RowsAreSound, row' = row, seen \subseteq seen'
  PROVE  RowsAreSound'
BY DEF RowsAreSound, Present

(* The end of a request.                                                   *)
LEMMA ReadyCarries ==
  ASSUME NEW r \in Sessions, session'[r] = Ready
  PROVE  Carries(r)'
BY ReadyFacts DEF Carries, Creating, Updating, Testing, Deleting, Probing

LEMMA EndIs ==
  ASSUME TypeOK, NEW r \in Sessions, End(r)
  PROVE  session'[r] = Ready /\ session' = [session EXCEPT ![r] = session'[r]]
BY DEF End, TypeOK

LEMMA QuietEnd ==
  ASSUME IInv, NEW r \in Sessions, End(r), lock # r,
         UNCHANGED <<row, snapshots, up, used, now, lock, swings, requests, seen, alone>>
  PROVE  IInv'
<1>0. TypeOK /\ RowsAreSound /\ Ready \in Locals /\ session' = [session EXCEPT ![r] = Ready]
  BY ReadyFacts DEF IInv, End
<1>1. now' \in Nat /\ requests' \in 0..MaxRequests /\ seen' \subseteq Sources \X Statuses
      /\ alone' \in [Sessions -> BOOLEAN]
  BY <1>0 DEF TypeOK
<1>2. Moves(r) /\ session'[r] = Ready
  BY <1>0, <1>1, QuietMoves
<1> QED BY <1>0, <1>2, MovesKeep, ReadyCarries, SoundStays

(* A row is written: its name is free and its status known.                *)
LEMMA SoundWrite ==
  ASSUME TypeOK, RowsAreSound, NEW s \in Sources, NEW new \in Rows \cup {Absent},
         row' = [row EXCEPT ![s] = new], seen' = seen,
         new # Absent => NameFree(new.name, s) /\ Known(s, new)
  PROVE  RowsAreSound'
<1>1. row'[s] = new /\ \A t \in Sources \ {s} : row'[t] = row[t]
  BY DEF TypeOK
<1>2. ASSUME NEW t \in Present', NEW u \in Present', row'[t].name = row'[u].name PROVE t = u
  BY <1>1, <1>2 DEF Present, RowsAreSound, NameFree
<1>3. ASSUME NEW t \in Present' PROVE row'[t].status # "UNKNOWN" => <<t, row'[t].status>> \in seen'
  BY <1>1, <1>3 DEF Present, RowsAreSound, Known
<1> QED BY <1>2, <1>3 DEF RowsAreSound

LEMMA WriteKeeps ==
  ASSUME IInv, NEW r \in Sessions, NEW s \in used, NEW new \in Rows \cup {Absent},
         Write(r, s, new), End(r), session[r].pc # "gather", snapshots \subseteq snapshots',
         snapshots' \subseteq [source : Sources, host : Hosts, at : Nat],
         new # Absent => NameFree(new.name, s) /\ Known(s, new),
         UNCHANGED <<up, used, now, lock, requests, swings, seen>>
  PROVE  IInv'
<1>0. TypeOK /\ RowsAreSound /\ s \in Sources /\ row \in [Sources -> Rows \cup {Absent}]
  BY DEF IInv, TypeOK
<1>1. row' = [row EXCEPT ![s] = new]
      /\ alone' = [q \in Sessions |-> alone[q] /\ (q = r \/ session[q].s # s \/ new = row[s])]
  BY DEF Write
<1>2. RowsAreSound'
  BY <1>0, <1>1, SoundWrite
<1>3. row' \in [Sources -> Rows \cup {Absent}] /\ Present' \subseteq used'
  <2>1. ASSUME NEW t \in Present' PROVE t \in used
    BY <1>0, <1>1, <2>1 DEF Present, TypeOK
  <2> QED BY <1>0, <1>1, <2>1
<1>4. alone' \in [Sessions -> BOOLEAN]
  BY <1>0, <1>1 DEF TypeOK
<1>5. ASSUME NEW q \in Sessions \ {r}, session[q].op = "update", alone'[q]
      PROVE  alone[q] /\ row'[session[q].s] = row[session[q].s]
  <2>1. alone[q] /\ (session[q].s # s \/ new = row[s])
    BY <1>1, <1>5
  <2>2. session[q].s \in Sources
    BY <1>0, <1>5 DEF IInv, Carries, Updating, TypeOK
  <2> QED BY <1>0, <1>1, <2>1, <2>2
<1>6. session'[r] = Ready /\ session' = [session EXCEPT ![r] = session'[r]] /\ Ready \in Locals
  BY <1>0, EndIs, ReadyFacts
<1>7. LockOK'
  BY <1>0, <1>6, NotLocked, LockStays
<1>8. Moves(r)
  BY <1>0, <1>3, <1>4, <1>5, <1>6, <1>7 DEF Moves, TypeOK
<1> QED BY <1>2, <1>6, <1>8, MovesKeep, ReadyCarries

-----------------------------------------------------------------------------
(* The beginning of a request *)

LEMMA BeginKeeps ==
  ASSUME IInv, NEW r \in Sessions, NEW op \in {"update", "delete", "test", "discover"}, NEW s \in used,
         NEW in \in Edits \cup {Absent}, op = "update" => in \in Edits,
         NEW pc \in {"first", "delete", "get"}, Begin(r, op, s, in, pc)
  PROVE  IInv'
<1>0. TypeOK /\ RowsAreSound /\ session[r] = Ready /\ s \in Sources /\ Ready \in Locals
  BY ReadyFacts DEF IInv, TypeOK, Begin
<1> DEFINE l == [Ready EXCEPT !.op = op, !.s = s, !.in = in, !.pc = pc]
<1>1. l \in Locals /\ l.op = op /\ l.s = s /\ l.in = in /\ l.pc = pc
  <2>1. op \in Operations /\ pc \in Places
    BY DEF Operations, Places
  <2>2. l \in Locals
    BY <1>0, <2>1, ZenonT(40) DEF Locals
  <2>3. l.op = op /\ l.s = s /\ l.in = in /\ l.pc = pc
    BY DEF Ready
  <2> QED BY <2>2, <2>3
<1>2. session' = [session EXCEPT ![r] = l]
  BY DEF Begin
<1> HIDE DEF l
<1>3. /\ requests' \in 0..MaxRequests /\ now' \in Nat /\ seen \subseteq seen'
      /\ seen' \subseteq Sources \X Statuses /\ alone' \in [Sessions -> BOOLEAN]
      /\ UNCHANGED <<row, snapshots, up, used, lock, swings, alone, seen>>
  BY <1>0, SourcesAssumption DEF Begin, TypeOK, history
<1>4. lock # r
  BY <1>0, ReadyFacts, NotLocked
<1>5. Moves(r) /\ session'[r] = l
  BY <1>0, <1>1, <1>2, <1>3, <1>4, QuietMoves
<1>6. Carries(r)'
  BY <1>1, <1>3, <1>5 DEF Carries, Creating, Updating, Testing, Deleting, Probing
<1> QED BY <1>0, <1>3, <1>5, <1>6, MovesKeep, SoundStays

LEMMA CreateBeginKeeps ==
  ASSUME IInv, NEW r \in Sessions, NEW s \in Sources, NEW in \in Creations, CreateBegin(r, s, in)
  PROVE  IInv'
<1>0. TypeOK /\ RowsAreSound /\ session[r] = Ready /\ Ready \in Locals
  BY ReadyFacts DEF IInv, TypeOK, CreateBegin
<1> DEFINE l == [Ready EXCEPT !.op = "create", !.s = s, !.in = in, !.pc = "check"]
<1>1. l \in Locals /\ l.op = "create" /\ l.s = s /\ l.in = in /\ l.pc = "check"
  BY <1>0, ZenonT(40) DEF Locals, Places, Operations
<1>2. session' = [session EXCEPT ![r] = l]
  BY DEF CreateBegin
<1> HIDE DEF l
<1>3. requests' \in 0..MaxRequests /\ UNCHANGED <<row, snapshots, up, now, lock, swings, alone, seen>>
  BY <1>0, SourcesAssumption DEF CreateBegin, TypeOK, history
<1>4. used' = used \cup {s} /\ Present' = Present
  BY <1>3 DEF CreateBegin, Present
<1>5. session'[r] = l /\ session' = [session EXCEPT ![r] = session'[r]]
  BY <1>0, <1>2 DEF TypeOK
<1>6. LockOK'
  BY <1>0, <1>3, <1>5, ReadyFacts, NotLocked, LockStays
<1>7. Moves(r)
  BY <1>0, <1>1, <1>3, <1>4, <1>5, <1>6 DEF Moves, TypeOK
<1>8. Carries(r)'
  BY <1>1, <1>4, <1>5 DEF Carries, Creating, Updating, Testing, Deleting, Probing
<1> QED BY <1>0, <1>3, <1>7, <1>8, MovesKeep, SoundStays

LEMMA ProbeBeginKeeps ==
  ASSUME IInv, NEW r \in Sessions, ProbeBegin(r)
  PROVE  IInv'
<1>0. TypeOK /\ RowsAreSound /\ session[r] = Ready /\ Ready \in Locals
  BY ReadyFacts DEF IInv, TypeOK, ProbeBegin
<1> DEFINE t == [s \in Present |-> "get"]
           l == [Ready EXCEPT !.op = "probe", !.pc = "gather", !.tasks = t]
<1>1. t \in UNION {[S -> TaskStates \cup Hosts] : S \in SUBSET Sources}
  <2>1. t \in [Present -> TaskStates \cup Hosts] /\ Present \in SUBSET Sources
    BY DEF Present, TaskStates
  <2> HIDE DEF t
  <2> QED BY <2>1
<1>2. \A s \in DOMAIN t : t[s] = "get"
  OBVIOUS
<1>3. session' = [session EXCEPT ![r] = l]
  BY DEF ProbeBegin
<1> HIDE DEF t
<1>4. l \in Locals /\ l.op = "probe" /\ l.pc = "gather" /\ l.tasks = t
  BY <1>0, <1>1, ZenonT(40) DEF Locals, Places, Operations
<1> HIDE DEF l
<1>5. /\ requests' \in 0..MaxRequests /\ now' \in Nat /\ seen \subseteq seen'
      /\ seen' \subseteq Sources \X Statuses /\ alone' \in [Sessions -> BOOLEAN]
      /\ UNCHANGED <<row, snapshots, up, used, lock, swings, alone, seen>>
  BY <1>0, SourcesAssumption DEF ProbeBegin, TypeOK, history
<1>6. lock # r
  BY <1>0, ReadyFacts, NotLocked
<1>7. Moves(r) /\ session'[r] = l
  BY <1>0, <1>3, <1>4, <1>5, <1>6, QuietMoves
<1>8. Carries(r)'
  BY <1>2, <1>4, <1>7 DEF Carries, Creating, Updating, Testing, Deleting, Probing
<1> QED BY <1>0, <1>5, <1>7, <1>8, MovesKeep, SoundStays

LEMMA RequestKeeps ==
  ASSUME IInv, NEW r \in Sessions, Request(r)
  PROVE  IInv'
<1>1. ASSUME NEW s \in used, NEW in \in Edits, UpdateBegin(r, s, in) PROVE IInv'
  BY <1>1, BeginKeeps DEF UpdateBegin
<1>2. ASSUME NEW s \in used, DeleteBegin(r, s) PROVE IInv'
  BY <1>2, BeginKeeps DEF DeleteBegin
<1>3. ASSUME NEW s \in used, TestBegin(r, s) \/ DiscoverBegin(r, s) PROVE IInv'
  BY <1>3, BeginKeeps DEF TestBegin, DiscoverBegin
<1> QED BY <1>1, <1>2, <1>3, CreateBeginKeeps, ProbeBeginKeeps DEF Request

-----------------------------------------------------------------------------
(* Steps that read, or ask a host *)

(* The session goes on with new locals, and learns an answer at most.      *)
LEMMA QuietKeeps ==
  ASSUME IInv, NEW r \in Sessions, NEW l \in Locals, session' = [session EXCEPT ![r] = l],
         session[r].pc # "gather",
         UNCHANGED <<row, snapshots, up, used, lock, requests, swings>>, now' \in Nat,
         seen \subseteq seen', seen' \subseteq Sources \X Statuses,
         alone' \in [Sessions -> BOOLEAN], \A q \in Sessions \ {r} : alone'[q] = alone[q],
         session'[r] = l => Carries(r)'
  PROVE  IInv'
<1>0. TypeOK /\ RowsAreSound
  BY DEF IInv
<1>1. lock # r /\ requests' \in 0..MaxRequests
  BY <1>0, NotLocked DEF TypeOK
<1>2. Moves(r) /\ session'[r] = l
  BY <1>0, <1>1, QuietMoves
<1> QED BY <1>0, <1>2, MovesKeep, SoundStays

LEMMA CreateCheckKeeps ==
  ASSUME IInv, NEW r \in Sessions, CreateCheck(r)
  PROVE  IInv'
<1>0. /\ TypeOK /\ session[r] \in Locals /\ session[r].op = "create" /\ session[r].pc = "check"
      /\ session[r].s \in used /\ session[r].s \in Sources /\ session[r].in \in Creations
      /\ UNCHANGED <<row, snapshots, up, used, now, lock, requests, swings, alone>>
  BY SessionFacts DEF IInv, TypeOK, CreateCheck, At, Carries, Creating
<1>1. CASE End(r) /\ UNCHANGED seen
  BY <1>0, <1>1, NotLocked, QuietEnd
<1>2. ASSUME NEW st \in {"UNKNOWN", Answers(session[r].in.host)},
             session' = [session EXCEPT ![r].pc = "insert", ![r].found = st],
             seen' = seen \cup {<<session[r].s, st>>}
      PROVE  IInv'
  <2> DEFINE l == [session[r] EXCEPT !.pc = "insert", !.found = st]
  <2>1. st \in Statuses
    BY DEF Answers, Statuses
  <2>2. /\ l \in Locals /\ l.op = "create" /\ l.pc = "insert" /\ l.found = st /\ l.s = session[r].s
        /\ l.in = session[r].in
    BY <1>0, <2>1 DEF Locals, Places, Operations
  <2>3. session' = [session EXCEPT ![r] = l]
    BY <1>0, <1>2 DEF TypeOK
  <2> HIDE DEF l
  <2>4. seen' \subseteq Sources \X Statuses /\ now' \in Nat /\ alone' \in [Sessions -> BOOLEAN]
    BY <1>0, <1>2, <2>1 DEF TypeOK
  <2>5. session'[r] = l => Carries(r)'
    <3>1. <<session[r].s, st>> \in seen' /\ session[r].s \in used'
      BY <1>0, <1>2
    <3>2. session'[r] = l => Creating(r)'
      BY <1>0, <2>2, <3>1 DEF Creating
    <3> QED BY <2>2, <3>2 DEF Carries, Updating, Testing, Deleting, Probing
  <2> QED BY <1>0, <1>2, <2>2, <2>3, <2>4, <2>5, QuietKeeps
<1> QED BY <1>1, <1>2 DEF CreateCheck

LEMMA UpdateReadKeeps ==
  ASSUME IInv, NEW r \in Sessions, UpdateRead(r)
  PROVE  IInv'
<1>0. /\ TypeOK /\ RowsAreSound /\ session[r] \in Locals /\ session[r].op = "update"
      /\ session[r].pc = "first" /\ session[r].s \in used /\ session[r].s \in Sources
      /\ session[r].in \in Edits
      /\ UNCHANGED <<row, snapshots, up, used, now, lock, requests, swings, seen>>
  BY SessionFacts DEF IInv, TypeOK, UpdateRead, At, Carries, Updating
<1> DEFINE old == row[session[r].s]
           pc == IF session[r].in.name \in {Keep, old.name} THEN "second" ELSE "name"
           l == [session[r] EXCEPT !.first = old, !.target = Edit(old, session[r].in), !.pc = pc]
<1>1. CASE old = Absent
  <2>1. End(r) /\ UNCHANGED alone
    BY <1>1 DEF UpdateRead
  <2> QED BY <1>0, <2>1, NotLocked, QuietEnd
<1>2. CASE old # Absent
  <2>1. old \in Rows /\ Known(session[r].s, old)
    BY <1>0, <1>2, RowFacts DEF RowsAreSound, Known
  <2>2. Edit(old, session[r].in) \in Rows
    BY <1>0, <2>1, EditFacts
  <2>3. pc \in {"name", "second"}
    OBVIOUS
  <2>4. session' = [session EXCEPT ![r] = l] /\ alone' = [alone EXCEPT ![r] = TRUE]
    BY <1>0, <1>2 DEF UpdateRead, TypeOK
  <2> HIDE DEF old, pc
  <2>5. /\ l \in Locals /\ l.op = "update" /\ l.pc = pc /\ l.first = old /\ l.s = session[r].s
        /\ l.target = Edit(old, session[r].in) /\ l.in = session[r].in
    BY <1>0, <2>1, <2>2, <2>3 DEF Locals, Places, Operations
  <2> HIDE DEF l
  <2>6. /\ alone' \in [Sessions -> BOOLEAN] /\ \A q \in Sessions \ {r} : alone'[q] = alone[q]
        /\ now' \in Nat /\ seen' \subseteq Sources \X Statuses
    BY <1>0, <2>4 DEF TypeOK
  <2>7. row'[session[r].s] = old /\ (old.status # "UNKNOWN" => <<session[r].s, old.status>> \in seen')
    BY <1>0, <2>1 DEF old, Known
  <2>8. session'[r] = l => Carries(r)'
    <3>1. session'[r] = l => Updating(r)'
      BY <1>0, <2>1, <2>3, <2>5, <2>7 DEF Updating, Known
    <3> QED BY <2>5, <3>1 DEF Carries, Creating, Testing, Deleting, Probing
  <2> QED BY <1>0, <2>4, <2>5, <2>6, <2>8, QuietKeeps
<1> QED BY <1>1, <1>2

LEMMA UpdateCheckNameKeeps ==
  ASSUME IInv, NEW r \in Sessions, UpdateCheckName(r)
  PROVE  IInv'
<1>0. /\ TypeOK /\ session[r] \in Locals /\ session[r].op = "update" /\ session[r].pc = "name"
      /\ Updating(r)
      /\ UNCHANGED <<row, snapshots, up, used, now, lock, requests, swings, seen, alone>>
  BY SessionFacts DEF IInv, UpdateCheckName, At, Carries, Reads, history
<1>1. CASE End(r)
  BY <1>0, <1>1, NotLocked, QuietEnd
<1>2. CASE session' = [session EXCEPT ![r].pc = "second"]
  <2> DEFINE l == [session[r] EXCEPT !.pc = "second"]
  <2>1. session' = [session EXCEPT ![r] = l]
    BY <1>0, <1>2 DEF TypeOK
  <2>2. /\ l \in Locals /\ l.op = "update" /\ l.pc = "second" /\ l.first = session[r].first
        /\ l.s = session[r].s /\ l.target = session[r].target /\ l.in = session[r].in
    BY <1>0 DEF Locals, Places, Operations
  <2> HIDE DEF l
  <2>3. alone' \in [Sessions -> BOOLEAN] /\ now' \in Nat /\ seen' \subseteq Sources \X Statuses
    BY <1>0 DEF TypeOK
  <2>4. session'[r] = l => Carries(r)'
    BY <1>0, <2>2 DEF Carries, Creating, Updating, Testing, Deleting, Probing, Known
  <2> QED BY <1>0, <2>1, <2>2, <2>3, <2>4, QuietKeeps
<1> QED BY <1>1, <1>2 DEF UpdateCheckName

LEMMA UpdateReadAgainKeeps ==
  ASSUME IInv, NEW r \in Sessions, UpdateReadAgain(r)
  PROVE  IInv'
<1>0. /\ TypeOK /\ session[r] \in Locals /\ session[r].op = "update" /\ session[r].pc = "second"
      /\ Updating(r) /\ session[r].s \in Sources
      /\ UNCHANGED <<row, snapshots, up, used, now, lock, requests, swings, seen, alone>>
  BY SessionFacts DEF IInv, TypeOK, UpdateReadAgain, At, Carries, Updating, Reads, history
<1> DEFINE current == row[session[r].s]
<1>1. CASE current = Absent
  <2>1. End(r)
    BY <1>1 DEF UpdateReadAgain
  <2> QED BY <1>0, <2>1, NotLocked, QuietEnd
<1>2. CASE current # Absent
  <2> DEFINE l == [session[r] EXCEPT !.second = current, !.pc = "flush"]
  <2>1. session' = [session EXCEPT ![r] = l]
    BY <1>0, <1>2 DEF UpdateReadAgain, TypeOK
  <2>2. current \in Rows
    BY <1>0, <1>2, RowFacts
  <2>3. /\ l \in Locals /\ l.op = "update" /\ l.pc = "flush" /\ l.first = session[r].first
        /\ l.s = session[r].s /\ l.target = session[r].target /\ l.in = session[r].in
        /\ l.second = current
    BY <1>0, <2>2 DEF Locals, Places, Operations
  <2> HIDE DEF l
  <2>4. alone' \in [Sessions -> BOOLEAN] /\ now' \in Nat /\ seen' \subseteq Sources \X Statuses
    BY <1>0 DEF TypeOK
  <2>5. session'[r] = l => Carries(r)'
    BY <1>0, <2>3 DEF Carries, Creating, Updating, Testing, Deleting, Probing, Known
  <2> QED BY <1>0, <2>1, <2>3, <2>4, <2>5, QuietKeeps
<1> QED BY <1>1, <1>2

LEMMA GetByIdKeeps ==
  ASSUME IInv, NEW r \in Sessions, GetById(r)
  PROVE  IInv'
<1>0. /\ TypeOK /\ session[r] \in Locals /\ session[r].op \in {"test", "discover"}
      /\ session[r].pc = "get" /\ session[r].s \in used /\ session[r].s \in Sources
      /\ UNCHANGED <<row, snapshots, up, used, now, lock, requests, swings, seen, alone>>
  BY SessionFacts DEF IInv, TypeOK, GetById, Carries, Testing, Reads, history
<1>1. CASE row[session[r].s] = Absent
  <2>1. End(r)
    BY <1>1 DEF GetById
  <2> QED BY <1>0, <2>1, NotLocked, QuietEnd
<1>2. CASE row[session[r].s] # Absent
  <2> DEFINE h == row[session[r].s].host
             l == [session[r] EXCEPT !.host = h, !.pc = "connect"]
  <2>1. session' = [session EXCEPT ![r] = l]
    BY <1>0, <1>2 DEF GetById, TypeOK
  <2>2. h \in Hosts
    BY <1>0, <1>2, RowFacts DEF Rows
  <2>3. /\ l \in Locals /\ l.op = session[r].op /\ l.pc = "connect" /\ l.s = session[r].s /\ l.host = h
    BY <1>0, <2>2 DEF Locals, Places, Operations
  <2> HIDE DEF l, h
  <2>4. alone' \in [Sessions -> BOOLEAN] /\ now' \in Nat /\ seen' \subseteq Sources \X Statuses
    BY <1>0 DEF TypeOK
  <2>5. session'[r] = l => Carries(r)'
    BY <1>0, <2>2, <2>3 DEF Carries, Creating, Updating, Testing, Deleting, Probing
  <2> QED BY <1>0, <2>1, <2>3, <2>4, <2>5, QuietKeeps
<1> QED BY <1>1, <1>2

LEMMA TestConnectionKeeps ==
  ASSUME IInv, NEW r \in Sessions, TestConnection(r)
  PROVE  IInv'
<1>0. /\ TypeOK /\ session[r] \in Locals /\ session[r].op = "test" /\ session[r].pc = "connect"
      /\ session[r].s \in used /\ session[r].s \in Sources /\ session[r].host \in Hosts
      /\ UNCHANGED <<row, snapshots, up, used, now, lock, requests, swings, alone>>
  BY SessionFacts DEF IInv, TypeOK, TestConnection, At, Carries, Testing
<1> DEFINE st == Answers(session[r].host)
           l == [session[r] EXCEPT !.found = st, !.pc = "save"]
<1>1. st \in Statuses
  BY DEF Answers, Statuses
<1>2. session' = [session EXCEPT ![r] = l] /\ seen' = seen \cup {<<session[r].s, st>>}
  BY <1>0 DEF TestConnection, TypeOK
<1> HIDE DEF st
<1>3. /\ l \in Locals /\ l.op = "test" /\ l.pc = "save" /\ l.found = st /\ l.s = session[r].s
      /\ l.host = session[r].host
  BY <1>0, <1>1 DEF Locals, Places, Operations
<1> HIDE DEF l
<1>4. seen' \subseteq Sources \X Statuses /\ now' \in Nat /\ alone' \in [Sessions -> BOOLEAN]
  BY <1>0, <1>1, <1>2 DEF TypeOK
<1>5. session'[r] = l => Carries(r)'
  <2>1. <<session[r].s, st>> \in seen' /\ session[r].s \in used'
    BY <1>0, <1>2
  <2>2. session'[r] = l => Testing(r)'
    BY <1>0, <1>3, <2>1 DEF Testing
  <2> QED BY <1>3, <2>2 DEF Carries, Creating, Updating, Deleting, Probing
<1> QED BY <1>0, <1>2, <1>3, <1>4, <1>5, QuietKeeps

LEMMA DiscoverSchemaKeeps ==
  ASSUME IInv, NEW r \in Sessions, DiscoverSchema(r)
  PROVE  IInv'
<1>0. /\ TypeOK /\ session[r] \in Locals /\ session[r].op = "discover" /\ session[r].pc = "connect"
      /\ session[r].s \in used /\ session[r].s \in Sources /\ session[r].host \in Hosts
      /\ UNCHANGED <<row, snapshots, up, used, lock, requests, swings, alone>>
  BY SessionFacts DEF IInv, TypeOK, DiscoverSchema, At, Carries, Testing
<1>1. CASE session[r].host \notin up
  <2>1. End(r) /\ UNCHANGED <<now, seen>>
    BY <1>1 DEF DiscoverSchema
  <2> QED BY <1>0, <2>1, NotLocked, QuietEnd
<1>2. CASE session[r].host \in up
  <2> DEFINE n == now + 1
             l == [session[r] EXCEPT !.found = "ACTIVE", !.at = n, !.pc = "save"]
  <2>1. /\ session' = [session EXCEPT ![r] = l] /\ seen' = seen \cup {<<session[r].s, "ACTIVE">>}
        /\ now' = n
    BY <1>0, <1>2 DEF DiscoverSchema, TypeOK
  <2>2. n \in Nat
    BY <1>0 DEF TypeOK
  <2> HIDE DEF n
  <2>3. /\ l \in Locals /\ l.op = "discover" /\ l.pc = "save" /\ l.found = "ACTIVE"
        /\ l.s = session[r].s /\ l.host = session[r].host
    BY <1>0, <2>2 DEF Locals, Places, Operations, Statuses
  <2> HIDE DEF l
  <2>4. seen' \subseteq Sources \X Statuses /\ now' \in Nat /\ alone' \in [Sessions -> BOOLEAN]
    BY <1>0, <2>1, <2>2 DEF TypeOK, Statuses
  <2>5. session'[r] = l => Carries(r)'
    <3>1. <<session[r].s, "ACTIVE">> \in seen' /\ session[r].s \in used'
      BY <1>0, <2>1
    <3>2. session'[r] = l => Testing(r)'
      BY <1>0, <2>3, <3>1 DEF Testing
    <3> QED BY <2>3, <3>2 DEF Carries, Creating, Updating, Deleting, Probing
  <2> QED BY <1>0, <2>1, <2>3, <2>4, <2>5, QuietKeeps
<1> QED BY <1>1, <1>2

LEMMA BusyKeeps ==
  ASSUME IInv, NEW r \in Sessions, Busy(r)
  PROVE  IInv'
BY QuietEnd DEF Busy, Reads, history

-----------------------------------------------------------------------------
(* Steps that write *)

(* A name nobody else has, once it is in the table.                        *)
LEMMA NameStays ==
  ASSUME TypeOK, RowsAreSound, NEW s \in Sources, row[s] # Absent
  PROVE  NameFree(row[s].name, s)
BY DEF RowsAreSound, NameFree, Present

LEMMA StatusFacts ==
  ASSUME TypeOK, RowsAreSound, NEW s \in Sources, NEW st \in Statuses, <<s, st>> \in seen
  PROVE  /\ WithStatus(s, st) \in Rows \cup {Absent}
         /\ WithStatus(s, st) # Absent =>
              /\ row[s] # Absent /\ WithStatus(s, st).name = row[s].name
              /\ NameFree(WithStatus(s, st).name, s) /\ Known(s, WithStatus(s, st))
         /\ row[s] # Absent => WithStatus(s, st) # Absent
<1>1. CASE row[s] = Absent
  BY <1>1 DEF WithStatus
<1>2. CASE row[s] # Absent
  <2>1. row[s] \in Rows /\ Absent \notin Rows
    BY <1>2, RowFacts
  <2> DEFINE x == [row[s] EXCEPT !.status = st]
  <2>2. x \in Rows /\ x.name = row[s].name /\ x.status = st
    BY <2>1 DEF Rows
  <2>3. WithStatus(s, st) = x
    BY <1>2 DEF WithStatus
  <2> HIDE DEF x
  <2> QED BY <1>2, <2>1, <2>2, <2>3, NameStays DEF Known
<1> QED BY <1>1, <1>2

LEMMA InsertKeeps ==
  ASSUME IInv, NEW r \in Sessions, Insert(r)
  PROVE  IInv'
<1>0. /\ TypeOK /\ RowsAreSound /\ session[r] \in Locals /\ session[r].op = "create"
      /\ session[r].pc = "insert" /\ session[r].s \in used /\ session[r].in \in Creations
      /\ <<session[r].s, session[r].found>> \in seen /\ session[r].found \in Statuses
      /\ End(r) /\ UNCHANGED <<snapshots, up, used, now, lock, requests, swings, seen>>
  BY SessionFacts DEF IInv, Insert, At, Carries, Creating, Locals, Places, Operations
<1> DEFINE in == session[r].in
           new == [name |-> in.name, host |-> in.host, password |-> in.password,
                   status |-> session[r].found]
<1>1. CASE ~NameFree(in.name, session[r].s)
  <2>1. UNCHANGED <<row, alone>>
    BY <1>1 DEF Insert
  <2> QED BY <1>0, <2>1, NotLocked, QuietEnd
<1>2. CASE NameFree(in.name, session[r].s)
  <2>1. in \in [name : Names, host : Hosts, password : Passwords \cup {Blank}]
    BY <1>0, SourcesAssumption
  <2>2. new \in Rows /\ new.name = in.name /\ new.status = session[r].found
    BY <1>0, <2>1 DEF Rows
  <2>3. Write(r, session[r].s, new)
    BY <1>2 DEF Insert
  <2> HIDE DEF new, in
  <2>4. NameFree(new.name, session[r].s) /\ Known(session[r].s, new)
    BY <1>0, <1>2, <2>2 DEF Known
  <2>5. snapshots' \subseteq [source : Sources, host : Hosts, at : Nat]
    BY <1>0 DEF TypeOK
  <2> QED BY <1>0, <2>2, <2>3, <2>4, <2>5, WriteKeeps
<1> QED BY <1>1, <1>2

LEMMA UpdateFlushKeeps ==
  ASSUME IInv, NEW r \in Sessions, UpdateFlush(r)
  PROVE  IInv'
<1>0. /\ TypeOK /\ RowsAreSound /\ session[r] \in Locals /\ session[r].op = "update"
      /\ session[r].pc = "flush" /\ session[r].s \in used /\ session[r].in \in Edits
      /\ session[r].first \in Rows /\ session[r].target = Edit(session[r].first, session[r].in)
      /\ Known(session[r].s, session[r].first) /\ session[r].s \in Sources
      /\ End(r) /\ UNCHANGED <<snapshots, up, used, now, lock, requests, swings, seen>>
  BY SessionFacts DEF IInv, TypeOK, UpdateFlush, At, Carries, Updating
<1> DEFINE s == session[r].s
           new == Flushed(row[s], session[r].second, session[r].target)
<1>1. CASE ~(row[s] # Absent /\ NameFree(new.name, s))
  <2>1. UNCHANGED <<row, alone>>
    BY <1>1 DEF UpdateFlush
  <2> QED BY <1>0, <2>1, NotLocked, QuietEnd
<1>2. CASE row[s] # Absent /\ NameFree(new.name, s)
  <2>1. row[s] \in Rows /\ Known(s, row[s])
    BY <1>0, <1>2, RowFacts DEF RowsAreSound, Known
  <2>2. session[r].target \in Rows /\ session[r].target.status = session[r].first.status
    BY <1>0, EditFacts
  <2>3. new \in Rows /\ new.status \in {row[s].status, session[r].target.status}
    BY <2>1, <2>2, FlushFacts
  <2>4. Write(r, s, new)
    BY <1>2 DEF UpdateFlush
  <2> HIDE DEF new
  <2>5. NameFree(new.name, s) /\ Known(s, new)
    BY <1>0, <1>2, <2>1, <2>2, <2>3 DEF Known
  <2>6. snapshots' \subseteq [source : Sources, host : Hosts, at : Nat]
    BY <1>0 DEF TypeOK
  <2> QED BY <1>0, <2>3, <2>4, <2>5, <2>6, WriteKeeps
<1> QED BY <1>1, <1>2

LEMMA DeleteKeeps ==
  ASSUME IInv, NEW r \in Sessions, Delete(r)
  PROVE  IInv'
<1>0. /\ TypeOK /\ session[r].pc = "delete" /\ session[r].s \in used /\ Write(r, session[r].s, Absent)
      /\ End(r) /\ UNCHANGED <<snapshots, up, used, now, lock, requests, swings, seen>>
  BY DEF IInv, Delete, At, Carries, Deleting
<1>1. snapshots' \subseteq [source : Sources, host : Hosts, at : Nat]
  BY <1>0 DEF TypeOK
<1> QED BY <1>0, <1>1, WriteKeeps

LEMMA SaveKeeps ==
  ASSUME IInv, NEW r \in Sessions, SaveStatus(r) \/ SaveSnapshot(r)
  PROVE  IInv'
<1>0. /\ TypeOK /\ RowsAreSound /\ session[r] \in Locals /\ session[r].op \in {"test", "discover"}
      /\ session[r].pc = "save" /\ session[r].s \in used /\ session[r].host \in Hosts
      /\ session[r].s \in Sources
      /\ <<session[r].s, session[r].found>> \in seen /\ session[r].found \in Statuses
      /\ session[r].at \in Nat
      /\ End(r) /\ UNCHANGED <<up, used, now, lock, requests, swings, seen>>
  BY SessionFacts DEF IInv, TypeOK, SaveStatus, SaveSnapshot, At, Carries, Testing, Locals, Places, Operations
<1> DEFINE new == WithStatus(session[r].s, session[r].found)
<1>1. Write(r, session[r].s, new)
  BY DEF SaveStatus, SaveSnapshot
<1>2. new \in Rows \cup {Absent} /\ (new # Absent => NameFree(new.name, session[r].s) /\ Known(session[r].s, new))
  BY <1>0, StatusFacts
<1>3. snapshots \subseteq snapshots' /\ snapshots' \subseteq [source : Sources, host : Hosts, at : Nat]
  BY <1>0 DEF SaveStatus, SaveSnapshot, TypeOK
<1> QED BY <1>0, <1>1, <1>2, <1>3, WriteKeeps

-----------------------------------------------------------------------------
(* A probe of all sources *)

LEMMA WroteIs ==
  ASSUME NEW r \in Sessions
  PROVE  /\ Wrote(r) = {s \in DOMAIN session[r].tasks :
                          session[r].tasks[s] \in {"wrote ACTIVE", "wrote UNREACHABLE"}}
         /\ \A s \in Wrote(r) : /\ StatusWritten(r, s) \in {"ACTIVE", "UNREACHABLE"}
                                /\ session[r].tasks[s] = Written[StatusWritten(r, s)]
<1>1. /\ DOMAIN Written = {"ACTIVE", "UNREACHABLE"}
      /\ Written["ACTIVE"] = "wrote ACTIVE" /\ Written["UNREACHABLE"] = "wrote UNREACHABLE"
  BY DEF Written
<1>2. Wrote(r) = {s \in DOMAIN session[r].tasks :
                    session[r].tasks[s] \in {"wrote ACTIVE", "wrote UNREACHABLE"}}
  BY <1>1 DEF Wrote
<1>3. ASSUME NEW s \in Wrote(r)
      PROVE  StatusWritten(r, s) \in DOMAIN Written /\ session[r].tasks[s] = Written[StatusWritten(r, s)]
  <2>1. \E st \in DOMAIN Written : session[r].tasks[s] = Written[st]
    BY DEF Wrote
  <2> QED BY <2>1 DEF StatusWritten
<1> QED BY <1>1, <1>2, <1>3

(* One of its tasks goes on.                                               *)
GoesOn(r, s, st) ==
  /\ session' = [session EXCEPT ![r] = session'[r]] /\ session'[r] \in Locals
  /\ session'[r].op = "probe" /\ session'[r].pc = "gather" /\ s \in Sources
  /\ session'[r].tasks = [session[r].tasks EXCEPT ![s] = st]

LEMMA BecomesIs ==
  ASSUME TypeOK, NEW r \in Sessions, At(r, "probe", "gather"), NEW s \in DOMAIN session[r].tasks,
         NEW st \in TaskStates \cup Hosts, Becomes(r, s, st)
  PROVE  GoesOn(r, s, st)
<1>0. session[r] \in Locals /\ session \in [Sessions -> Locals]
  BY SessionFacts
<1> DEFINE t == [session[r].tasks EXCEPT ![s] = st]
           l == [session[r] EXCEPT !.tasks = t]
<1>1. PICK S \in SUBSET Sources : session[r].tasks \in [S -> TaskStates \cup Hosts]
  BY <1>0 DEF Locals
<1>2. t \in [S -> TaskStates \cup Hosts] /\ s \in Sources
  BY <1>1
<1>3. session' = [session EXCEPT ![r] = l]
  BY <1>0 DEF Becomes
<1> HIDE DEF t
<1>4. t \in UNION {[R -> TaskStates \cup Hosts] : R \in SUBSET Sources}
  BY <1>2
<1>5. l \in Locals /\ l.tasks = t /\ l.op = session[r].op /\ l.pc = session[r].pc
  BY <1>0, <1>4 DEF Locals
<1> HIDE DEF l
<1>6. session'[r] = l
  BY <1>0, <1>3
<1> QED BY <1>2, <1>3, <1>5, <1>6 DEF At, t, GoesOn

LEMMA TaskKeeps ==
  ASSUME IInv, NEW r \in Sessions, At(r, "probe", "gather"), NEW s \in DOMAIN session[r].tasks,
         NEW st \in TaskStates \cup Hosts, Becomes(r, s, st),
         session[r].tasks[s] \notin {"wrote ACTIVE", "wrote UNREACHABLE"},
         st \in {"ACTIVE", "wrote ACTIVE"} => <<s, "ACTIVE">> \in seen',
         st \in {"UNREACHABLE", "wrote UNREACHABLE"} => <<s, "UNREACHABLE">> \in seen',
         UNCHANGED <<row, snapshots, up, used, now, requests, swings, alone>>,
         seen \subseteq seen', seen' \subseteq Sources \X Statuses,
         \/ lock' = lock
         \/ lock' = r /\ st \in {"wrote ACTIVE", "wrote UNREACHABLE"}
  PROVE  IInv'
<1>0. /\ TypeOK /\ RowsAreSound /\ Probing(r) /\ session[r].op = "probe"
      /\ session \in [Sessions -> Locals]
  BY DEF IInv, TypeOK, Carries, At
<1>1. /\ session' = [session EXCEPT ![r] = session'[r]] /\ session'[r] \in Locals
      /\ session'[r].op = "probe" /\ session'[r].pc = "gather" /\ s \in Sources
      /\ session'[r].tasks = [session[r].tasks EXCEPT ![s] = st]
  <2>1. GoesOn(r, s, st)
    BY <1>0, BecomesIs
  <2> QED BY <2>1 DEF GoesOn
<1>2. /\ DOMAIN session'[r].tasks = DOMAIN session[r].tasks /\ session'[r].tasks[s] = st
      /\ \A t \in DOMAIN session[r].tasks \ {s} : session'[r].tasks[t] = session[r].tasks[t]
  BY <1>1
<1>3. Probing(r)'
  BY <1>0, <1>2 DEF Probing
<1>4. Carries(r)'
  BY <1>1, <1>3 DEF Carries, Creating, Updating, Testing, Deleting
<1>5. LockOK'
  <2>1. /\ Wrote(r) = {t \in DOMAIN session[r].tasks :
                         session[r].tasks[t] \in {"wrote ACTIVE", "wrote UNREACHABLE"}}
        /\ Wrote(r)' = {t \in DOMAIN session'[r].tasks :
                          session'[r].tasks[t] \in {"wrote ACTIVE", "wrote UNREACHABLE"}}
    <3>1. /\ DOMAIN Written = {"ACTIVE", "UNREACHABLE"}
          /\ Written["ACTIVE"] = "wrote ACTIVE" /\ Written["UNREACHABLE"] = "wrote UNREACHABLE"
      BY DEF Written
    <3> QED BY <3>1 DEF Wrote
  <2>2. Wrote(r) \subseteq Wrote(r)' /\ (st \in {"wrote ACTIVE", "wrote UNREACHABLE"} => s \in Wrote(r)')
    BY <1>2, <2>1
  <2>3. At(r, "probe", "gather")'
    BY <1>1 DEF At
  <2>4. CASE lock' = r /\ st \in {"wrote ACTIVE", "wrote UNREACHABLE"}
    BY <2>2, <2>3, <2>4 DEF LockOK
  <2>5. CASE lock' = lock /\ lock # r
    BY <1>0, <1>1, <2>5, LockStays
  <2>6. CASE lock' = lock /\ lock = r
    <3>1. Wrote(r) # {}
      BY <1>0, <2>6, SourcesAssumption DEF TypeOK
    <3> QED BY <2>2, <2>3, <2>6, <3>1 DEF LockOK
  <2> QED BY <2>4, <2>5, <2>6
<1>6. Present' = Present
  BY DEF Present
<1>7. Moves(r)
  BY <1>0, <1>1, <1>5, <1>6 DEF Moves, TypeOK
<1> QED BY <1>0, <1>4, <1>7, MovesKeep, SoundStays

LEMMA ProbeGetKeeps ==
  ASSUME IInv, NEW r \in Sessions, NEW s \in Sources, ProbeGet(r, s)
  PROVE  IInv'
<1> DEFINE st == IF row[s] = Absent THEN "raised" ELSE row[s].host
<1>0. /\ TypeOK /\ At(r, "probe", "gather") /\ s \in DOMAIN session[r].tasks
      /\ session[r].tasks[s] = "get" /\ Becomes(r, s, st)
      /\ UNCHANGED <<row, snapshots, up, used, now, lock, requests, swings, seen, alone>>
  BY DEF IInv, ProbeGet, Task, Reads, history
<1>1. st \in Hosts \cup {"raised"}
  BY <1>0, RowFacts DEF Rows
<1> HIDE DEF st
<1>2. /\ st \in TaskStates \cup Hosts
      /\ st \notin {"ACTIVE", "wrote ACTIVE", "UNREACHABLE", "wrote UNREACHABLE"}
  BY <1>1, SourcesAssumption DEF TaskStates, Settled
<1>3. seen' \subseteq Sources \X Statuses
  BY <1>0 DEF TypeOK
<1> QED BY <1>0, <1>2, <1>3, TaskKeeps

LEMMA ProbeTestKeeps ==
  ASSUME IInv, NEW r \in Sessions, NEW s \in Sources, ProbeTest(r, s)
  PROVE  IInv'
<1> DEFINE st == Answers(session[r].tasks[s])
<1>0. /\ TypeOK /\ At(r, "probe", "gather") /\ s \in DOMAIN session[r].tasks
      /\ session[r].tasks[s] \in Hosts /\ Becomes(r, s, st) /\ seen' = seen \cup {<<s, st>>}
      /\ UNCHANGED <<row, snapshots, up, used, now, lock, requests, swings, alone>>
  BY DEF IInv, ProbeTest
<1>1. st \in {"ACTIVE", "UNREACHABLE"}
  BY DEF Answers
<1> HIDE DEF st
<1>2. st \in TaskStates \cup Hosts /\ session[r].tasks[s] \notin {"wrote ACTIVE", "wrote UNREACHABLE"}
  BY <1>0, <1>1, SourcesAssumption DEF TaskStates, Settled
<1>3. seen' \subseteq Sources \X Statuses
  BY <1>0, <1>1 DEF TypeOK, Statuses
<1>4. /\ st \in {"ACTIVE", "wrote ACTIVE"} => <<s, "ACTIVE">> \in seen'
      /\ st \in {"UNREACHABLE", "wrote UNREACHABLE"} => <<s, "UNREACHABLE">> \in seen'
  BY <1>0, <1>1
<1> QED BY <1>0, <1>2, <1>3, <1>4, TaskKeeps

LEMMA ProbeUpdateKeeps ==
  ASSUME IInv, NEW r \in Sessions, NEW s \in Sources, ProbeUpdate(r, s)
  PROVE  IInv'
<1>0. /\ TypeOK /\ At(r, "probe", "gather") /\ s \in DOMAIN session[r].tasks
      /\ session[r].tasks[s] \in {"ACTIVE", "UNREACHABLE"} /\ Probing(r) /\ session[r].op = "probe"
      /\ UNCHANGED <<row, snapshots, up, used, now, requests, swings, seen, alone>>
  BY DEF IInv, ProbeUpdate, history, At, Carries
<1>1. seen' \subseteq Sources \X Statuses
  BY <1>0 DEF TypeOK
<1>2. Written["ACTIVE"] = "wrote ACTIVE" /\ Written["UNREACHABLE"] = "wrote UNREACHABLE"
  BY DEF Written
<1>3. /\ session[r].tasks[s] = "ACTIVE" => <<s, "ACTIVE">> \in seen'
      /\ session[r].tasks[s] = "UNREACHABLE" => <<s, "UNREACHABLE">> \in seen'
  BY <1>0 DEF Probing
<1> DEFINE st == Written[session[r].tasks[s]]
<1>4. CASE lock' = r /\ Becomes(r, s, st)
  <2>1. /\ st \in {"wrote ACTIVE", "wrote UNREACHABLE"} /\ st \in TaskStates \cup Hosts
        /\ st \in {"ACTIVE", "wrote ACTIVE"} => <<s, "ACTIVE">> \in seen'
        /\ st \in {"UNREACHABLE", "wrote UNREACHABLE"} => <<s, "UNREACHABLE">> \in seen'
    BY <1>0, <1>2, <1>3 DEF TaskStates, Settled
  <2> HIDE DEF st
  <2> QED BY <1>0, <1>1, <1>4, <2>1, TaskKeeps
<1>5. CASE lock' = lock /\ Becomes(r, s, "raised")
  BY <1>0, <1>1, <1>5, TaskKeeps DEF TaskStates, Settled
<1> QED BY <1>4, <1>5 DEF ProbeUpdate

(* What a probe commits: known answers, on the rows that are still there.  *)
LEMMA ProbeCommitKeeps ==
  ASSUME IInv, NEW r \in Sessions, ProbeCommit(r)
  PROVE  IInv'
<1>0. /\ TypeOK /\ RowsAreSound /\ Probing(r) /\ At(r, "probe", "gather") /\ session[r].op = "probe"
      /\ session[r] \in Locals /\ End(r) /\ lock' = IF lock = r THEN Free ELSE lock
      /\ UNCHANGED <<snapshots, up, used, now, requests, swings, seen>>
      /\ row \in [Sources -> Rows \cup {Absent}]
  BY SessionFacts DEF IInv, TypeOK, Carries, ProbeCommit, At
<1>1. ASSUME NEW s \in Sources
      PROVE  /\ row'[s] \in Rows \cup {Absent} /\ (row'[s] # Absent <=> row[s] # Absent)
             /\ row'[s] # Absent => /\ row'[s].name = row[s].name
                                    /\ row'[s].status # "UNKNOWN" => <<s, row'[s].status>> \in seen
  <2>1. CASE s \in Wrote(r)
    <3>1. /\ StatusWritten(r, s) \in {"ACTIVE", "UNREACHABLE"} /\ s \in DOMAIN session[r].tasks
          /\ session[r].tasks[s] = Written[StatusWritten(r, s)]
      BY <2>1, WroteIs
    <3>2. <<s, StatusWritten(r, s)>> \in seen
      <4>1. Written["ACTIVE"] = "wrote ACTIVE" /\ Written["UNREACHABLE"] = "wrote UNREACHABLE"
        BY DEF Written
      <4>2. /\ session[r].tasks[s] = "wrote ACTIVE" => <<s, "ACTIVE">> \in seen
            /\ session[r].tasks[s] = "wrote UNREACHABLE" => <<s, "UNREACHABLE">> \in seen
        BY <1>0, <3>1 DEF Probing
      <4>3. CASE StatusWritten(r, s) = "ACTIVE"
        BY <3>1, <4>1, <4>2, <4>3
      <4>4. CASE StatusWritten(r, s) = "UNREACHABLE"
        BY <3>1, <4>1, <4>2, <4>4
      <4> QED BY <3>1, <4>3, <4>4
    <3>3. StatusWritten(r, s) \in Statuses
      BY <3>1 DEF Statuses
    <3>4. row'[s] = WithStatus(s, StatusWritten(r, s))
      BY <2>1 DEF ProbeCommit
    <3> QED BY <1>0, <3>2, <3>3, <3>4, StatusFacts DEF Known
  <2>2. CASE s \notin Wrote(r)
    <3>1. row'[s] = row[s]
      BY <2>2 DEF ProbeCommit
    <3> QED BY <1>0, <3>1 DEF RowsAreSound, Present
  <2> QED BY <2>1, <2>2
<1>2. row' \in [Sources -> Rows \cup {Absent}] /\ Present' = Present
  <2>1. row' = [s \in Sources |-> row'[s]]
    BY DEF ProbeCommit
  <2> QED BY <1>1, <2>1 DEF Present
<1>3. RowsAreSound'
  BY <1>0, <1>1, <1>2 DEF RowsAreSound, Present
<1>4. /\ alone' \in [Sessions -> BOOLEAN]
      /\ \A q \in Sessions : alone'[q] => alone[q] /\ (session[q].s \in Sources =>
                                                        row'[session[q].s] = row[session[q].s])
  BY <1>0 DEF ProbeCommit, TypeOK
<1>5. \A q \in Sessions : session[q].op = "update" => session[q].s \in Sources
  BY <1>0 DEF IInv, Carries, Updating, TypeOK
<1>6. session'[r] = Ready /\ session' = [session EXCEPT ![r] = session'[r]] /\ Ready \in Locals
  BY <1>0, EndIs, ReadyFacts
<1>7. LockOK'
  <2>1. CASE lock = r
    BY <1>0, <2>1 DEF LockOK
  <2>2. CASE lock # r
    BY <1>0, <1>6, <2>2, LockStays
  <2> QED BY <2>1, <2>2
<1>8. Moves(r)
  BY <1>0, <1>2, <1>4, <1>5, <1>6, <1>7 DEF Moves, TypeOK
<1> QED BY <1>3, <1>6, <1>8, MovesKeep, ReadyCarries

-----------------------------------------------------------------------------
(* The theorems *)

LEMMA StepKeeps ==
  ASSUME IInv, NEW r \in Sessions, Step(r)
  PROVE  IInv'
BY CreateCheckKeeps, InsertKeeps, UpdateReadKeeps, UpdateCheckNameKeeps, UpdateReadAgainKeeps,
   UpdateFlushKeeps, DeleteKeeps, GetByIdKeeps, TestConnectionKeeps, DiscoverSchemaKeeps, SaveKeeps,
   ProbeGetKeeps, ProbeTestKeeps, ProbeUpdateKeeps, ProbeCommitKeeps, BusyKeeps DEF Step

(* Nothing of what is known depends on the hosts that answer.              *)
LEMMA StutterKeeps ==
  ASSUME IInv, UNCHANGED <<row, snapshots, used, now, session, lock, requests, seen, alone>>,
         up' \subseteq Hosts, swings' \in 0..MaxSwings
  PROVE  IInv'
<1>1. Present' = Present
  BY DEF Present
<1>2. TypeOK'
  BY <1>1 DEF IInv, TypeOK, At, Wrote
<1>3. RowsAreSound'
  BY SoundStays DEF IInv
<1>4. ASSUME NEW r \in Sessions PROVE Carries(r)'
  <2>1. Carries(r)
    BY DEF IInv
  <2> QED BY <2>1 DEF Carries, Creating, Updating, Testing, Deleting, Probing, Known
<1> QED BY <1>2, <1>3, <1>4 DEF IInv

LEMMA NextKeeps ==
  ASSUME IInv, [Next]_vars
  PROVE  IInv'
<1>1. CASE \E r \in Sessions : Request(r) \/ Step(r)
  BY <1>1, RequestKeeps, StepKeeps
<1>2. CASE \E h \in Hosts : Swing(h)
  <2>1. up' \subseteq Hosts /\ swings' \in 0..MaxSwings
    BY <1>2, SourcesAssumption DEF Swing, IInv, TypeOK
  <2> QED BY <1>2, <2>1, StutterKeeps DEF Swing, history
<1>3. CASE UNCHANGED vars
  <2>1. up' \subseteq Hosts /\ swings' \in 0..MaxSwings
    BY <1>3 DEF vars, IInv, TypeOK
  <2> QED BY <1>3, <2>1, StutterKeeps DEF vars, history
<1> QED BY <1>1, <1>2, <1>3 DEF Next

LEMMA InitHolds ==
  ASSUME Init
  PROVE  IInv
<1>1. row \in [Sources -> Rows \cup {Absent}] /\ row = InitialRows
  BY SourcesAssumption DEF Init
<1>2. Absent \notin Rows
  BY DEF Absent, Rows, Fields, Statuses
<1>3. seen \subseteq Sources \X Statuses
  <2>1. ASSUME NEW s \in Present PROVE row[s].status \in Statuses /\ s \in Sources
    BY <1>1, <2>1 DEF Present, Rows
  <2> QED BY <2>1 DEF Init
<1>4. \A r \in Sessions : session[r] = Ready
  BY DEF Init
<1>5. session \in [Sessions -> Locals] /\ alone \in [Sessions -> BOOLEAN]
  BY ReadyFacts DEF Init
<1>6. TypeOK
  BY <1>1, <1>3, <1>5, SourcesAssumption DEF Init, TypeOK, Present
<1>7. RowsAreSound
  <2>1. ASSUME NEW s \in Present, NEW t \in Present, row[s].name = row[t].name PROVE s = t
    BY <1>1, <2>1, SourcesAssumption DEF Present
  <2>2. ASSUME NEW s \in Present PROVE <<s, row[s].status>> \in seen
    BY <2>2 DEF Init
  <2> QED BY <2>1, <2>2 DEF RowsAreSound
<1>8. ASSUME NEW r \in Sessions PROVE Carries(r)
  BY <1>4, ReadyFacts DEF Carries, Creating, Updating, Testing, Deleting, Probing
<1> QED BY <1>6, <1>7, <1>8 DEF IInv

(* The inductive invariant: types, sound rows, and what every session carries *)
(* from one await to the next (routes/sources.py, SourceService).             *)
THEOREM Invariance == Spec => []IInv
<1>1. Init => IInv
  BY InitHolds
<1>2. IInv /\ [Next]_vars => IInv'
  BY NextKeeps
<1> QED BY <1>1, <1>2, PTL DEF Spec

(* Rows, snapshots, sessions and the write lock keep their types; the lock is *)
(* held only by a probe that has written (list_sources with probe=true).      *)
THEOREM TypeCorrect == Spec => []TypeOK
<1>1. IInv => TypeOK
  BY DEF IInv
<1> QED BY <1>1, Invariance, PTL

(* However creations, renamings, tests and probes interleave, no two sources  *)
(* have one name, and a status other than UNKNOWN was once the answer of a    *)
(* connection to that source (SourceService, the index on sources.name).      *)
THEOREM RowsStaySound == Spec => []RowsAreSound
<1>1. IInv => RowsAreSound
  BY DEF IInv
<1> QED BY <1>1, Invariance, PTL

-----------------------------------------------------------------------------
(* What a step may never do *)

(* A session changes only by its own steps.                                *)
LEMMA OthersStay ==
  ASSUME TypeOK, NEW q \in Sessions, Request(q) \/ Step(q), NEW r \in Sessions, r # q
  PROVE  session'[r] = session[r]
<1>0. session \in [Sessions -> Locals]
  BY DEF TypeOK
<1>1. CASE Request(q)
  BY <1>0, <1>1 DEF Request, CreateBegin, UpdateBegin, DeleteBegin, TestBegin, DiscoverBegin, Begin,
     ProbeBegin
<1>2. CASE CreateCheck(q) \/ Insert(q) \/ Delete(q) \/ Busy(q)
  BY <1>0, <1>2 DEF CreateCheck, Insert, Delete, Busy, End
<1>3. CASE UpdateRead(q) \/ UpdateCheckName(q) \/ UpdateReadAgain(q) \/ UpdateFlush(q)
  BY <1>0, <1>3 DEF UpdateRead, UpdateCheckName, UpdateReadAgain, UpdateFlush, End
<1>4. CASE GetById(q) \/ TestConnection(q) \/ DiscoverSchema(q) \/ SaveStatus(q) \/ SaveSnapshot(q)
  BY <1>0, <1>4 DEF GetById, TestConnection, DiscoverSchema, SaveStatus, SaveSnapshot, End
<1>5. CASE ProbeCommit(q) \/ \E s \in Sources : ProbeGet(q, s) \/ ProbeTest(q, s) \/ ProbeUpdate(q, s)
  BY <1>0, <1>5 DEF ProbeCommit, ProbeGet, ProbeTest, ProbeUpdate, Becomes, End
<1> QED BY <1>1, <1>2, <1>3, <1>4, <1>5 DEF Step

(* An update ends by its flush, or because the database stays locked.      *)
LEMMA FlushOrBusy ==
  ASSUME NEW r \in Sessions, At(r, "update", "flush"), Request(r) \/ Step(r)
  PROVE  UpdateFlush(r) \/ Busy(r)
<1>0. session[r] # Ready
  BY ReadyFacts DEF At
<1>1. ~Request(r)
  BY <1>0 DEF Request, CreateBegin, UpdateBegin, DeleteBegin, TestBegin, DiscoverBegin, Begin, ProbeBegin
<1>2. ~(CreateCheck(r) \/ Insert(r) \/ Delete(r) \/ UpdateRead(r) \/ UpdateCheckName(r) \/ UpdateReadAgain(r))
  BY DEF CreateCheck, Insert, Delete, UpdateRead, UpdateCheckName, UpdateReadAgain, At
<1>3. ~(GetById(r) \/ TestConnection(r) \/ DiscoverSchema(r) \/ SaveStatus(r) \/ SaveSnapshot(r))
  BY DEF GetById, TestConnection, DiscoverSchema, SaveStatus, SaveSnapshot, At
<1>4. ~(ProbeCommit(r) \/ \E s \in Sources : ProbeGet(r, s) \/ ProbeTest(r, s) \/ ProbeUpdate(r, s))
  BY DEF ProbeCommit, ProbeGet, Task, ProbeTest, ProbeUpdate, At
<1> QED BY <1>1, <1>2, <1>3, <1>4 DEF Step

(* A flush on top of what was read writes what the client asked for.       *)
LEMMA FlushIsTarget ==
  ASSUME NEW old \in Rows, NEW target \in Rows
  PROVE  Flushed(old, old, target) = target
BY DEF Flushed, Fields, Rows

LEMMA LoneFlush ==
  ASSUME IInv, NEW r \in Sessions, At(r, "update", "flush"), UpdateFlush(r), alone[r],
         NameFree(session[r].target.name, session[r].s)
  PROVE  /\ row[session[r].s] # Absent
         /\ row'[session[r].s].status = row[session[r].s].status
         /\ \A f \in {"name", "host"} : row'[session[r].s][f] =
              IF session[r].in[f] = Keep THEN row[session[r].s][f] ELSE session[r].in[f]
         /\ row'[session[r].s].password =
              IF session[r].in.password \in Passwords THEN session[r].in.password
              ELSE row[session[r].s].password
<1> DEFINE s == session[r].s
           old == session[r].first
           target == session[r].target
<1>1. /\ TypeOK /\ s \in Sources /\ session[r].in \in Edits /\ old \in Rows
      /\ target = Edit(old, session[r].in) /\ row[s] = old /\ session[r].second = old
  BY DEF IInv, TypeOK, At, Carries, Updating
<1>2. target \in Rows /\ old # Absent
  BY <1>1, EditFacts, RowFacts
<1>3. Flushed(row[s], session[r].second, target) = target
  BY <1>1, <1>2, FlushIsTarget
<1>4. row' = [row EXCEPT ![s] = target]
  BY <1>1, <1>2, <1>3 DEF UpdateFlush, Write
<1>5. row'[s] = target
  BY <1>1, <1>4 DEF TypeOK
<1> QED BY <1>1, <1>2, <1>5, EditFacts

(* An update that nobody interfered with changes the fields the client sent   *)
(* and no others, whatever tests and probes run meanwhile on other sources    *)
(* (SourceService.update_source, the repository's second select and flush).   *)
THEOREM LoneUpdatesAreExact == Spec => LoneUpdateIsExact
<1>1. ASSUME IInv, [Next]_vars, NEW r \in Sessions, At(r, "update", "flush"), session'[r] = Ready,
             alone[r], NameFree(session[r].target.name, session[r].s), lock = Free
      PROVE  UpdateFlush(r)
  <2>0. TypeOK /\ session[r] # Ready
    BY <1>1, ReadyFacts DEF IInv, At
  <2>1. ~UNCHANGED session
    BY <1>1, <2>0
  <2>2. PICK q \in Sessions : Request(q) \/ Step(q)
    BY <1>1, <2>1 DEF Next, vars, Swing
  <2>3. q = r
    BY <1>1, <2>0, <2>2, OthersStay
  <2>4. ~Busy(r)
    BY <1>1 DEF Busy
  <2> QED BY <1>1, <2>2, <2>3, <2>4, FlushOrBusy
<1>2. IInv /\ [Next]_vars =>
        [\A r \in Sessions : At(r, "update", "flush") /\ session'[r] = Ready /\ alone[r]
                              /\ NameFree(session[r].target.name, session[r].s) /\ lock = Free =>
           LET s == session[r].s  in == session[r].in
           IN  /\ row[s] # Absent
               /\ row'[s].status = row[s].status
               /\ \A f \in {"name", "host"} : row'[s][f] = IF in[f] = Keep THEN row[s][f] ELSE in[f]
               /\ row'[s].password = IF in.password \in Passwords THEN in.password
                                     ELSE row[s].password]_vars
  BY <1>1, LoneFlush
<1> QED BY <1>2, Invariance, PTL DEF Spec, LoneUpdateIsExact

(* A row appears only by the insert of the request that creates it.        *)
LEMMA AbsentStays ==
  ASSUME IInv, [Next]_vars, NEW s \in Sources, row[s] = Absent,
         \A r \in Sessions : session[r].s = s => session[r].op # "create"
  PROVE  row'[s] = Absent
<1>0. row \in [Sources -> Rows \cup {Absent}]
  BY DEF IInv, TypeOK
<1>1. ASSUME NEW r \in Sessions, Insert(r) PROVE row'[s] = row[s]
  <2>1. session[r].s # s
    BY <1>1 DEF Insert, At
  <2> QED BY <1>0, <1>1, <2>1 DEF Insert, Write
<1>2. ASSUME NEW r \in Sessions, UpdateFlush(r) PROVE row'[s] = row[s]
  <2>1. CASE row[session[r].s] = Absent
    BY <1>2, <2>1 DEF UpdateFlush
  <2>2. CASE row[session[r].s] # Absent
    BY <1>0, <1>2, <2>2 DEF UpdateFlush, Write
  <2> QED BY <2>1, <2>2
<1>3. ASSUME NEW r \in Sessions, Delete(r) PROVE row'[s] = Absent
  BY <1>0, <1>3 DEF Delete, Write
<1>4. ASSUME NEW r \in Sessions, SaveStatus(r) \/ SaveSnapshot(r) PROVE row'[s] = Absent
  BY <1>0, <1>4 DEF SaveStatus, SaveSnapshot, Write, WithStatus
<1>5. ASSUME NEW r \in Sessions, ProbeCommit(r) PROVE row'[s] = Absent
  BY <1>5 DEF ProbeCommit, WithStatus
<1>6. ASSUME NEW r \in Sessions, Request(r) PROVE row' = row
  BY <1>6 DEF Request, CreateBegin, UpdateBegin, DeleteBegin, TestBegin, DiscoverBegin, Begin, ProbeBegin
<1>7. ASSUME NEW r \in Sessions, Step(r) PROVE row'[s] = Absent
  <2>1. CASE CreateCheck(r) \/ UpdateRead(r) \/ UpdateCheckName(r) \/ UpdateReadAgain(r) \/ GetById(r)
             \/ TestConnection(r) \/ DiscoverSchema(r) \/ Busy(r)
    BY <2>1 DEF CreateCheck, UpdateRead, UpdateCheckName, UpdateReadAgain, GetById, TestConnection,
       DiscoverSchema, Busy, Reads
  <2>2. CASE \E t \in Sources : ProbeGet(r, t) \/ ProbeTest(r, t) \/ ProbeUpdate(r, t)
    BY <2>2 DEF ProbeGet, ProbeTest, ProbeUpdate, Reads
  <2> QED BY <1>1, <1>2, <1>3, <1>4, <1>5, <1>7, <2>1, <2>2 DEF Step
<1> QED BY <1>6, <1>7 DEF Next, Swing, vars

LEMMA SnapshotsStay ==
  ASSUME [Next]_vars
  PROVE  snapshots \subseteq snapshots'
<1>1. ASSUME NEW r \in Sessions, Request(r) PROVE snapshots' = snapshots
  BY <1>1 DEF Request, CreateBegin, UpdateBegin, DeleteBegin, TestBegin, DiscoverBegin, Begin, ProbeBegin
<1>2. ASSUME NEW r \in Sessions, Step(r) PROVE snapshots \subseteq snapshots'
  BY <1>2 DEF Step, CreateCheck, Insert, UpdateRead, UpdateCheckName, UpdateReadAgain, UpdateFlush, Delete,
     GetById, TestConnection, DiscoverSchema, SaveStatus, SaveSnapshot, ProbeGet, ProbeTest, ProbeUpdate,
     ProbeCommit, Busy, Reads
<1> QED BY <1>1, <1>2 DEF Next, Swing, vars

(* A deleted source stays deleted, whatever update, test, discovery or probe  *)
(* was under way on it, and the latest schema of a source is never replaced   *)
(* by an older one (delete_source, update_status, get_latest_schema).         *)
THEOREM NothingEverReturns == Spec => NothingReturns
<1>1. ASSUME IInv, IInv', [Next]_vars, NEW s \in Sources, NEW x \in Latest(s), NEW y \in Latest(s)'
      PROVE  y.at >= x.at
  <2>1. x \in snapshots' /\ x.source = s
    BY <1>1, SnapshotsStay DEF Latest
  <2>2. y \in snapshots' /\ x.at <= y.at
    BY <2>1 DEF Latest
  <2>3. x.at \in Nat /\ y.at \in Nat
    BY <1>1, <2>1, <2>2 DEF IInv, TypeOK
  <2> QED BY <2>2, <2>3
<1>2. ASSUME IInv, [Next]_vars, NEW s \in used \ Present,
             \A r \in Sessions : session[r].s = s => session[r].op # "create"
      PROVE  row'[s] = Absent
  BY <1>2, AbsentStays DEF IInv, TypeOK, Present
<1>3. IInv /\ IInv' /\ [Next]_vars =>
        [/\ \A s \in used \ Present :
              (\A r \in Sessions : session[r].s = s => session[r].op # "create") => row'[s] = Absent
         /\ \A s \in Sources : \A x \in Latest(s), y \in Latest(s)' : y.at >= x.at]_vars
  BY <1>1, <1>2
<1> QED BY <1>3, Invariance, PTL DEF Spec, NothingReturns
===============================================================================
