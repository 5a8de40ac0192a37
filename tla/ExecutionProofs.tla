---------------------------- MODULE ExecutionProofs ----------------------------
(***************************************************************************)
(* Theorems about the execution of a query on one source, for any requests,*)
(* keys, sources, mappings and number of statements, and whatever fails.   *)
(***************************************************************************)
EXTENDS Execution, TLAPS

(* The units of a request that are durable, and those in its transaction.  *)
Durable(r) == {i \in Nat : <<r, i>> \in applied}
Held(r) == {i \in Nat : <<r, i>> \in pending}

(* Before the first statement; between the handlers and the end.           *)
Early == {"idle", "auth", "verify", "record", "handle", "mapping", "source", "schema", "fetch",
          "open", "acquire"}
Connected == {"open", "acquire", "run", "release", "close"}

Transactional(r) == Type(r) = "sqlite" \/ (Type(r) \in {"postgres", "mysql"} /\ IsBatch(r))
Sent(r) == IF IsMutation(In(r)) THEN 1..(req[r].next - 1) ELSE {}
All(r) == IF IsMutation(In(r)) THEN 1..Units(In(r)) ELSE {}

(* All of the mutation, nothing of it, or its beginning on MongoDB, where  *)
(* an unordered insert leaves any documents.                               *)
Whole(r) ==
  \/ Durable(r) = {}
  \/ IsMutation(In(r)) /\ Durable(r) = 1..Units(In(r))
  \/ Unordered(r) /\ Durable(r) \subseteq 1..Units(In(r))
  \/ Type(r) = "mongodb" /\ \E n \in 0..Units(In(r)) : Durable(r) = 1..n

(* What is durable and what is open, at each place.                        *)
Progress(r) ==
  /\ req[r].pc \in Early => Durable(r) = {} /\ Held(r) = {} /\ req[r].next = 1 /\ ~req[r].failed
  /\ req[r].pc \in Connected => In(r).source \in Sources
  /\ At(r, "run") => /\ req[r].next \in 1..(Units(In(r)) + 1)
                     /\ req[r].failed => Unordered(r) /\ Durable(r) \subseteq Sent(r)
                     /\ ~req[r].failed => Durable(r) = IF Transactional(r) THEN {} ELSE Sent(r)
                     /\ Held(r) = IF Transactional(r) THEN Sent(r) ELSE {}
  /\ req[r].pc \in {"release", "close", "done"} => Held(r) = {} /\ Whole(r)
  /\ req[r].pc \in {"release", "close"} /\ ~req[r].failed => Durable(r) = All(r)
  /\ At(r, "done") /\ req[r].answer = "ok" => Durable(r) = All(r)
  /\ Durable(r) \cup Held(r) # {} => IsMutation(In(r))

(* What the usage tracker has counted.                                     *)
Accounts(r) ==
  /\ req[r].pc \in Early \cup {"run", "release"} => counted[r] = 0
  /\ At(r, "close") => counted[r] = CountUsage(r)
  /\ At(r, "done") /\ req[r].answer # "lost" =>
       counted[r] = IF req[r].answer = "ok" THEN Statements(In(r)) ELSE 0

(* Which connections are open.                                             *)
Handles(r) ==
  /\ req[r].pc \notin {"acquire", "run", "release", "close"} => ~req[r].pool
  /\ req[r].pc \notin {"run", "release"} => req[r].conn = "none"
  /\ At(r, "acquire") => Type(r) # "mongodb" /\ (Type(r) = "sqlite" => ~req[r].pool)
  /\ At(r, "open") => Type(r) # "sqlite"
  /\ Type(r) \in {"sqlite", "mongodb"} => req[r].conn # "pooled"

(* A key that was not in force when the request arrived never is again, and *)
(* the scopes of the key that let it in do not change.                     *)
Admitted(r) ==
  /\ ~At(r, "idle") /\ In(r).key \in Keys => Generated(In(r).key)
  /\ ~At(r, "idle") /\ In(r).key \in barred[r] => ~InForce(In(r).key)
  /\ req[r].grant # Nobody => /\ req[r].grant \in Keys /\ Generated(req[r].grant)
                              /\ req[r].grant \notin barred[r]
  /\ At(r, "verify") => In(r).key \in Keys
  /\ At(r, "idle") => req[r].grant = Nobody

(* What the gates of the handlers let through.                             *)
Past(r, places) == In(r).route = "altrql" /\ (req[r].pc \in places \/ Durable(r) \cup Held(r) # {})
Gated(r) ==
  /\ ~At(r, "idle") /\ Past(r, Connected \cup {"mapping", "source", "schema", "fetch"}) =>
       (IsMutation(In(r)) => MayMutate(r)) /\ In(r).source # NoSource
  /\ ~At(r, "idle") /\ Past(r, Connected \cup {"fetch"}) =>
       (RequiresConfirmation(In(r)) => In(r).confirm)
  /\ ~At(r, "idle") => active \subseteq usable[r]
  /\ req[r].map # NoMapping => ~At(r, "idle") /\ req[r].map \in usable[r]

IInv ==
  /\ TypeOK
  /\ \A r \in Requests : Progress(r) /\ Accounts(r) /\ Handles(r) /\ Admitted(r) /\ Gated(r)

-----------------------------------------------------------------------------
(* Inputs and units *)

(* An input on a registered source has at least one statement and unit; a  *)
(* mutation that is no batch has one unit, but on MongoDB.                 *)
LEMMA UnitFacts ==
  ASSUME NEW in \in AllInputs, in.source \in Sources
  PROVE  /\ Statements(in) \in Nat \ {0} /\ Units(in) \in Nat \ {0}
         /\ Dialect[in.source] # "mongodb" => Units(in) = Statements(in)
BY ExecutionAssumption DEF AllInputs, Statements, Units, IsMutation

(* The parts of a request, from TypeOK.                                    *)
LEMMA LocalFacts ==
  ASSUME TypeOK, NEW r \in Requests
  PROVE  /\ req[r] \in Locals /\ req[r].pc \in Places /\ req[r].next \in Nat \ {0}
         /\ req[r].conn \in {"none", "pooled", "direct"}
         /\ req[r].pool \in BOOLEAN /\ req[r].failed \in BOOLEAN
         /\ req[r].grant \in Keys \cup {Nobody} /\ req[r].map \in Mappings \cup {NoMapping}
         /\ counted[r] \in Nat
         /\ ~At(r, "idle") => In(r) \in AllInputs
BY DEF TypeOK, Locals, In, At

(* A request stays the one it is, and works on its own locals only.        *)
Local(r) ==
  /\ req' = [req EXCEPT ![r] = req'[r]]
  /\ req'[r] \in Locals /\ req'[r].in = In(r) /\ req'[r].pc # "idle"

LEMMA BecomesIsLocal ==
  ASSUME TypeOK, NEW r \in Requests, NEW l \in Locals, req' = [req EXCEPT ![r] = l],
         l.in = In(r), l.pc # "idle"
  PROVE  Local(r) /\ req'[r] = l
BY DEF Local, TypeOK

LEMMA GotoIsLocal ==
  ASSUME TypeOK, NEW r \in Requests, NEW pc \in Places \ {"idle"}, Goto(r, pc)
  PROVE  Local(r) /\ req'[r] = [req[r] EXCEPT !.pc = pc]
BY LocalFacts, SMTT(30) DEF Goto, Local, Locals, TypeOK, In

LEMMA AnswerIsLocal ==
  ASSUME TypeOK, NEW r \in Requests,
         NEW a \in {"ok", "failed", "error", "unauthorized", "forbidden", "unconfirmed", "federated"},
         Answer(r, a)
  PROVE  Local(r) /\ req'[r] = [req[r] EXCEPT !.pc = "done", !.answer = a]
<1> DEFINE l == [req[r] EXCEPT !.pc = "done", !.answer = a]
<1>1. req[r] \in Locals /\ req \in [Requests -> Locals]
  BY LocalFacts DEF TypeOK
<1>2. l \in Locals
  BY <1>1, ZenonT(40) DEF Locals, Places
<1>3. l.in = In(r) /\ l.pc # "idle"
  BY <1>1 DEF Locals, In
<1>4. req' = [req EXCEPT ![r] = l]
  BY <1>1 DEF Answer
<1> QED BY <1>2, <1>3, <1>4, BecomesIsLocal

(* What the steps of a request leave alone.                                *)
OwnStep(r) ==
  /\ UNCHANGED <<registry, history>>
  /\ Local(r)
  /\ counted' = [counted EXCEPT ![r] = counted'[r]] /\ counted'[r] \in Nat
  /\ faults' \in {faults, faults + 1} /\ (faults' # faults => faults < MaxFaults)
  /\ applied' \subseteq applied \cup ({r} \X Nat) /\ applied \subseteq applied'
  /\ pending' \subseteq pending \cup ({r} \X Nat)
  /\ \A u \in pending \ pending' : u[1] = r

LEMMA QuietIsOwn ==
  ASSUME TypeOK, NEW r \in Requests, Local(r),
         UNCHANGED <<registry, source, counted, history>>,
         faults' = faults \/ Fault
  PROVE  OwnStep(r)
BY DEF OwnStep, TypeOK, source, Fault

(* The API key: *)
LEMMA AdmitIsOwn ==
  ASSUME TypeOK, NEW r \in Requests, Admit(r)
  PROVE  OwnStep(r)
<1>0. req[r] \in Locals /\ req \in [Requests -> Locals]
  BY LocalFacts DEF TypeOK
<1>1. CASE RequireScope(r)
  <2>1. Local(r)
    BY <1>1, GotoIsLocal, AnswerIsLocal DEF RequireScope, Places
  <2> QED BY <1>1, <2>1, QuietIsOwn DEF RequireScope, Reading
<1>2. CASE Verify(r)
  <2>1. Local(r)
    <3>1. CASE VerifyKey(In(r).key, "read")
      <4> DEFINE l == [req[r] EXCEPT !.pc = "record", !.grant = In(r).key]
      <4>1. In(r).key \in Keys \cup {Nobody}
        BY <1>2, LocalFacts DEF Verify, At, AllInputs
      <4>2. l \in Locals /\ l.in = In(r) /\ l.pc # "idle"
        BY <1>0, <4>1 DEF Locals, Places, In
      <4>3. req' = [req EXCEPT ![r] = l]
        BY <1>0, <1>2, <3>1 DEF Verify
      <4> QED BY <4>2, <4>3, BecomesIsLocal
    <3>2. CASE ~VerifyKey(In(r).key, "read")
      BY <1>2, <3>2, AnswerIsLocal DEF Verify
    <3> QED BY <3>1, <3>2
  <2> QED BY <1>2, <2>1, QuietIsOwn DEF Verify, Reading
<1>3. CASE RecordUsage(r)
  <2>1. Local(r)
    BY <1>3, GotoIsLocal, AnswerIsLocal DEF RecordUsage, Places
  <2> QED BY <1>3, <2>1, QuietIsOwn DEF RecordUsage, Reading
<1> QED BY <1>1, <1>2, <1>3 DEF Admit

(* The handlers: *)
LEMMA HandleIsOwn ==
  ASSUME TypeOK, NEW r \in Requests, Handle(r)
  PROVE  OwnStep(r)
<1>0. req[r] \in Locals /\ req \in [Requests -> Locals]
  BY LocalFacts DEF TypeOK
<1>1. CASE Refuse(r)
  <2>1. Local(r)
    BY <1>1, GotoIsLocal, AnswerIsLocal DEF Refuse, Places
  <2> QED BY <1>1, <2>1, QuietIsOwn DEF Refuse, Reading
<1>2. CASE ExecuteAltrql(r)
  <2>1. Local(r)
    BY <1>2, GotoIsLocal, AnswerIsLocal DEF ExecuteAltrql, Places
  <2> QED BY <1>2, <2>1, QuietIsOwn DEF ExecuteAltrql, Reading
<1>3. CASE ExecuteNative(r)
  <2>1. Local(r)
    BY <1>3, GotoIsLocal, AnswerIsLocal DEF ExecuteNative, Places
  <2> QED BY <1>3, <2>1, QuietIsOwn DEF ExecuteNative, Reading
<1>4. CASE ResolveMapping(r)
  <2>1. Local(r)
    <3>1. CASE \E m \in FindActiveMapping(r) : req' = [req EXCEPT ![r].pc = "source", ![r].map = m]
      <4>1. PICK m \in FindActiveMapping(r) : req' = [req EXCEPT ![r].pc = "source", ![r].map = m]
        BY <3>1
      <4> DEFINE l == [req[r] EXCEPT !.pc = "source", !.map = m]
      <4>2. m \in Mappings
        BY <4>1 DEF FindActiveMapping, TypeOK
      <4>3. l \in Locals /\ l.in = In(r) /\ l.pc # "idle"
        BY <1>0, <4>2, ZenonT(40) DEF Locals, Places, In
      <4>4. req' = [req EXCEPT ![r] = l]
        BY <1>0, <4>1
      <4> QED BY <4>3, <4>4, BecomesIsLocal
    <3>2. CASE ~\E m \in FindActiveMapping(r) : req' = [req EXCEPT ![r].pc = "source", ![r].map = m]
      BY <1>4, <3>2, GotoIsLocal, AnswerIsLocal DEF ResolveMapping, Places
    <3> QED BY <3>1, <3>2
  <2> QED BY <1>4, <2>1, QuietIsOwn DEF ResolveMapping, Reading
<1>5. CASE GetSource(r)
  <2>1. Local(r)
    BY <1>5, GotoIsLocal, AnswerIsLocal DEF GetSource, Places
  <2> QED BY <1>5, <2>1, QuietIsOwn DEF GetSource, Reading
<1>6. CASE Plan(r)
  <2>1. Local(r)
    BY <1>6, GotoIsLocal, AnswerIsLocal DEF Plan, Places
  <2> QED BY <1>6, <2>1, QuietIsOwn DEF Plan, Reading
<1>7. CASE PrepareQuery(r)
  <2>1. Local(r)
    BY <1>7, GotoIsLocal, AnswerIsLocal DEF PrepareQuery, Places
  <2> QED BY <1>7, <2>1, QuietIsOwn DEF PrepareQuery, Reading
<1> QED BY <1>1, <1>2, <1>3, <1>4, <1>5, <1>6, <1>7 DEF Handle

(* The connections: *)
LEMMA ConnectIsOwn ==
  ASSUME TypeOK, NEW r \in Requests, Connect(r)
  PROVE  OwnStep(r)
<1>0. req[r] \in Locals /\ req \in [Requests -> Locals]
  BY LocalFacts DEF TypeOK
<1>1. CASE PostgresInitialize(r)
  <2>1. Local(r)
    BY <1>0, <1>1, GotoIsLocal DEF PostgresInitialize, MakePool, Local, Locals, Places, In
  <2> QED BY <1>1, <2>1, QuietIsOwn DEF PostgresInitialize, MakePool, Reading
<1>2. CASE MySQLInitialize(r)
  <2>1. Local(r)
    BY <1>0, <1>2, GotoIsLocal DEF MySQLInitialize, MakePool, Local, Locals, Places, In
  <2> QED BY <1>2, <2>1, QuietIsOwn DEF MySQLInitialize, MakePool, Reading
<1>3. CASE MongoInitialize(r)
  <2> DEFINE l == [req[r] EXCEPT !.pc = "run", !.pool = TRUE]
  <2>0. l \in Locals /\ l.in = In(r) /\ l.pc # "idle"
    BY <1>0, ZenonT(40) DEF Locals, Places, In
  <2>1. Local(r)
    BY <1>0, <1>3, <2>0, BecomesIsLocal DEF MongoInitialize
  <2> QED BY <1>3, <2>1, QuietIsOwn DEF MongoInitialize, Reading
<1>4. CASE PostgresAcquire(r)
  <2>1. Local(r)
    BY <1>0, <1>4, GotoIsLocal DEF PostgresAcquire, Acquire, Local, Locals, Places, In
  <2> QED BY <1>4, <2>1, QuietIsOwn DEF PostgresAcquire, Acquire, Reading
<1>5. CASE MySQLAcquire(r)
  <2>1. Local(r)
    BY <1>0, <1>5, GotoIsLocal DEF MySQLAcquire, Acquire, Local, Locals, Places, In
  <2> QED BY <1>5, <2>1, QuietIsOwn DEF MySQLAcquire, Acquire, Reading
<1>6. CASE SqliteConnect(r)
  <2>1. Local(r)
    BY <1>0, <1>6, GotoIsLocal DEF SqliteConnect, Acquire, Local, Locals, Places, In
  <2> QED BY <1>6, <2>1, QuietIsOwn DEF SqliteConnect, Acquire, Reading
<1> QED BY <1>1, <1>2, <1>3, <1>4, <1>5, <1>6 DEF Connect

(* The end: *)
LEMMA FinishIsOwn ==
  ASSUME TypeOK, NEW r \in Requests, Finish(r), Progress(r)
  PROVE  OwnStep(r)
<1>0. req[r] \in Locals /\ req \in [Requests -> Locals]
  BY LocalFacts DEF TypeOK
<1>1. ASSUME NEW kinds, GiveBack(r, kinds) PROVE OwnStep(r)
  <2> DEFINE l == [req[r] EXCEPT !.pc = "close", !.conn = IF @ \in kinds THEN "none" ELSE @]
  <2>1. l \in Locals /\ l.in = In(r) /\ l.pc # "idle"
    BY <1>0, ZenonT(40) DEF Locals, Places, In
  <2>2. req' = [req EXCEPT ![r] = l]
    BY <1>0, <1>1 DEF GiveBack
  <2>3. Local(r)
    BY <2>1, <2>2, BecomesIsLocal
  <2>4. CountUsage(r) \in Nat
    <3>1. In(r) \in AllInputs /\ In(r).source \in Sources
      BY <1>1, LocalFacts DEF GiveBack, At, Progress, Connected
    <3> QED BY <3>1, UnitFacts DEF CountUsage
  <2>5. counted[r] \in Nat /\ counted \in [Requests -> Nat]
    BY DEF TypeOK
  <2>6. counted' = [counted EXCEPT ![r] = counted'[r]] /\ counted'[r] \in Nat
    BY <1>1, <2>4, <2>5 DEF GiveBack
  <2> QED BY <1>1, <2>3, <2>6 DEF OwnStep, GiveBack, source, TypeOK
<1>2. CASE CloseConnector(r)
  <2> DEFINE l == [req[r] EXCEPT !.pc = "done", !.pool = FALSE, !.answer = Outcome(r)]
  <2>0. Outcome(r) \in {"ok", "failed"}
    BY DEF Outcome
  <2>1. l \in Locals /\ l.in = In(r) /\ l.pc # "idle"
    BY <1>0, <2>0, ZenonT(40) DEF Locals, Places, In
  <2>2. req' = [req EXCEPT ![r] = l]
    BY <1>0, <1>2 DEF CloseConnector
  <2>3. Local(r)
    BY <2>1, <2>2, BecomesIsLocal
  <2> QED BY <1>2, <2>3, QuietIsOwn DEF CloseConnector, Reading
<1> QED BY <1>1, <1>2 DEF Finish, PostgresRelease, MySQLRelease, OtherRelease

(* A driver works on the units of its own request.                         *)
LEMMA AutocommitIsOwn ==
  ASSUME TypeOK, NEW r \in Requests, Autocommit(r)
  PROVE  OwnStep(r) /\ req'[r] = [req[r] EXCEPT !.next = @ + 1]
<1>0. req[r] \in Locals /\ req \in [Requests -> Locals]
  BY LocalFacts DEF TypeOK
<1> DEFINE l == [req[r] EXCEPT !.next = @ + 1]
<1>1. l \in Locals /\ l.in = In(r) /\ l.pc # "idle"
  BY <1>0 DEF Autocommit, More, At, Locals, In
<1>2. req' = [req EXCEPT ![r] = l]
  BY <1>0 DEF Autocommit
<1>3. Local(r) /\ req'[r] = l
  BY <1>1, <1>2, BecomesIsLocal
<1>4. NextUnit(r) \subseteq {r} \X Nat
  BY <1>0 DEF NextUnit, Locals
<1> QED BY <1>3, <1>4 DEF OwnStep, Autocommit, TypeOK

LEMMA InTransactionIsOwn ==
  ASSUME TypeOK, NEW r \in Requests, InTransaction(r)
  PROVE  OwnStep(r) /\ req'[r] = [req[r] EXCEPT !.next = @ + 1]
<1>0. req[r] \in Locals /\ req \in [Requests -> Locals]
  BY LocalFacts DEF TypeOK
<1> DEFINE l == [req[r] EXCEPT !.next = @ + 1]
<1>1. l \in Locals /\ l.in = In(r) /\ l.pc # "idle"
  BY <1>0 DEF InTransaction, More, At, Locals, In
<1>2. req' = [req EXCEPT ![r] = l]
  BY <1>0 DEF InTransaction
<1>3. Local(r) /\ req'[r] = l
  BY <1>1, <1>2, BecomesIsLocal
<1>4. NextUnit(r) \subseteq {r} \X Nat
  BY <1>0 DEF NextUnit, Locals
<1> QED BY <1>3, <1>4 DEF OwnStep, InTransaction, TypeOK

LEMMA ReturnIsOwn ==
  ASSUME TypeOK, NEW r \in Requests, Return(r)
  PROVE  OwnStep(r) /\ req'[r] = [req[r] EXCEPT !.pc = "release"]
BY GotoIsLocal, QuietIsOwn DEF Return, Reading, Places

LEMMA CommitIsOwn ==
  ASSUME TypeOK, NEW r \in Requests, Commit(r)
  PROVE  OwnStep(r) /\ req'[r] = [req[r] EXCEPT !.pc = "release"]
<1>1. Local(r) /\ req'[r] = [req[r] EXCEPT !.pc = "release"]
  BY GotoIsLocal DEF Commit, Places
<1>2. Open(r) \subseteq {r} \X Nat /\ \A u \in Open(r) : u[1] = r
  BY DEF Open, TypeOK
<1> QED BY <1>1, <1>2 DEF OwnStep, Commit, TypeOK

LEMMA RaiseIsOwn ==
  ASSUME TypeOK, NEW r \in Requests, NEW durable \in SUBSET ({r} \X Nat), Raise(r, durable)
  PROVE  OwnStep(r) /\ req'[r] = [req[r] EXCEPT !.pc = "release", !.failed = TRUE]
<1>0. req[r] \in Locals /\ req \in [Requests -> Locals]
  BY LocalFacts DEF TypeOK
<1> DEFINE l == [req[r] EXCEPT !.pc = "release", !.failed = TRUE]
<1>1. l \in Locals /\ l.in = In(r) /\ l.pc # "idle"
  BY <1>0, ZenonT(40) DEF Locals, In, Places
<1>2. req' = [req EXCEPT ![r] = l]
  BY <1>0 DEF Raise
<1>3. Local(r) /\ req'[r] = l
  BY <1>1, <1>2, BecomesIsLocal
<1>4. Open(r) \subseteq {r} \X Nat /\ \A u \in Open(r) : u[1] = r
  BY DEF Open, TypeOK
<1> QED BY <1>3, <1>4 DEF OwnStep, Raise, TypeOK, Fault

LEMMA PassOverIsOwn ==
  ASSUME TypeOK, NEW r \in Requests, PassOver(r)
  PROVE  OwnStep(r) /\ req'[r] = [req[r] EXCEPT !.next = @ + 1, !.failed = TRUE]
<1>0. req[r] \in Locals /\ req \in [Requests -> Locals]
  BY LocalFacts DEF TypeOK
<1> DEFINE l == [req[r] EXCEPT !.next = @ + 1, !.failed = TRUE]
<1> DEFINE m == [req[r] EXCEPT !.next = @ + 1]
<1>4. m \in Locals /\ m.in = In(r) /\ m.pc # "idle"
  BY <1>0 DEF PassOver, More, At, Locals, In
<1>5. l = [m EXCEPT !.failed = TRUE]
  BY <1>0 DEF Locals
<1>1. l \in Locals /\ l.in = In(r) /\ l.pc # "idle"
  <2> HIDE DEF m, l
  <2> QED BY <1>4, <1>5 DEF Locals
<1>2. req' = [req EXCEPT ![r] = l]
  BY <1>0 DEF PassOver
<1>3. Local(r) /\ req'[r] = l
  BY <1>1, <1>2, BecomesIsLocal
<1> QED BY <1>3 DEF OwnStep, PassOver, TypeOK, Fault, source

(* Which of them a connector takes.                                        *)
LEMMA ExecuteCases ==
  ASSUME TypeOK, NEW r \in Requests, Execute(r)
  PROVE  /\ At(r, "run")
         /\ \/ /\ ~Transactional(r)
               /\ \/ Autocommit(r) \/ Return(r)
                  \/ More(r) /\ (Raise(r, {}) \/ Raise(r, NextUnit(r)))
                  \/ Unordered(r) /\ PassOver(r)
            \/ /\ Transactional(r)
               /\ \/ InTransaction(r) \/ Commit(r) \/ Raise(r, {})
                  \/ AllRun(r) /\ Raise(r, Open(r))
BY DEF Execute, PostgresQuery, PostgresBatch, MySQLQuery, MySQLBatch, SqliteQuery, SqliteBatch,
   SqliteStatement, MongoFind, MongoInsertMany, MongoUpdateMany, MongoDeleteMany, StatementRaises,
   Transactional, Autocommit, InTransaction, Return, Commit, Raise, More, AllRun, PassOver

LEMMA UnitSets ==
  ASSUME TypeOK, NEW r \in Requests
  PROVE  /\ {} \in SUBSET ({r} \X Nat) /\ NextUnit(r) \in SUBSET ({r} \X Nat)
         /\ Open(r) \in SUBSET ({r} \X Nat)
BY LocalFacts DEF NextUnit, Open, TypeOK

LEMMA StepIsOwn ==
  ASSUME TypeOK, NEW r \in Requests, Step(r), Progress(r)
  PROVE  OwnStep(r)
<1>1. CASE Execute(r)
  BY <1>1, ExecuteCases, UnitSets, AutocommitIsOwn, InTransactionIsOwn, ReturnIsOwn, CommitIsOwn,
     RaiseIsOwn, PassOverIsOwn
<1> QED BY <1>1, AdmitIsOwn, HandleIsOwn, ConnectIsOwn, FinishIsOwn DEF Step

LEMMA StepIsBusy ==
  ASSUME NEW r \in Requests, Step(r)
  PROVE  ~At(r, "idle")
BY DEF Step, Admit, RequireScope, Verify, RecordUsage, Handle, Refuse, ExecuteAltrql, ExecuteNative,
   ResolveMapping, GetSource, Plan, PrepareQuery, Connect, PostgresInitialize, MySQLInitialize,
   MongoInitialize, MakePool, PostgresAcquire, MySQLAcquire, SqliteConnect, Acquire, Finish,
   PostgresRelease, MySQLRelease, OtherRelease, GiveBack, CloseConnector, Execute, PostgresQuery,
   PostgresBatch, MySQLQuery, MySQLBatch, SqliteQuery, SqliteBatch, SqliteStatement, MongoFind,
   MongoInsertMany, MongoUpdateMany, MongoDeleteMany, StatementRaises, Autocommit, InTransaction,
   Return, Commit, Raise, More, AllRun, PassOver, At

(* Hence the types are kept.                                               *)
LEMMA OwnStepTyped ==
  ASSUME TypeOK, NEW r \in Requests, OwnStep(r), ~At(r, "idle")
  PROVE  TypeOK'
<1>1. req' \in [Requests -> Locals] /\ counted' \in [Requests -> Nat]
  BY DEF OwnStep, Local, TypeOK
<1>2. ASSUME NEW q \in Requests PROVE IF At(q, "idle")' THEN req'[q] = Idle ELSE In(q)' \in AllInputs
  <2>1. CASE q = r
    BY <2>1 DEF OwnStep, Local, TypeOK, At, In, Idle
  <2>2. CASE q # r
    BY <2>2 DEF OwnStep, Local, TypeOK, At, In
  <2> QED BY <2>1, <2>2
<1>3. faults' \in 0..MaxFaults
  BY ExecutionAssumption DEF OwnStep, TypeOK
<1>4. applied' \subseteq Requests \X Nat /\ pending' \subseteq Requests \X Nat
  BY DEF OwnStep, TypeOK
<1> QED BY <1>1, <1>2, <1>3, <1>4 DEF TypeOK, OwnStep, registry, history

-----------------------------------------------------------------------------
(* The requests that do not move *)

LEMMA Untouched ==
  ASSUME TypeOK, NEW r \in Requests, OwnStep(r), NEW q \in Requests, q # r
  PROVE  /\ req'[q] = req[q] /\ counted'[q] = counted[q]
         /\ Durable(q)' = Durable(q) /\ Held(q)' = Held(q)
<1>1. req'[q] = req[q] /\ counted'[q] = counted[q]
  BY DEF OwnStep, Local, TypeOK
<1>2. \A i \in Nat : <<q, i>> \in applied' <=> <<q, i>> \in applied
  BY DEF OwnStep
<1>3. \A i \in Nat : <<q, i>> \in pending' <=> <<q, i>> \in pending
  BY DEF OwnStep
<1> QED BY <1>1, <1>2, <1>3 DEF Durable, Held

LEMMA ProgressFrame ==
  ASSUME NEW q \in Requests, req'[q] = req[q], Durable(q)' = Durable(q), Held(q)' = Held(q),
         Progress(q)
  PROVE  Progress(q)'
BY DEF Progress, At, In, Type, Transactional, IsBatch, Sent, All, Whole, Unordered

LEMMA HandlesFrame ==
  ASSUME NEW q \in Requests, req'[q] = req[q], Handles(q)
  PROVE  Handles(q)'
BY DEF Handles, At, In, Type

LEMMA AccountsFrame ==
  ASSUME NEW q \in Requests, req'[q] = req[q], counted'[q] = counted[q], Accounts(q)
  PROVE  Accounts(q)'
BY DEF Accounts, At, In, CountUsage

LEMMA AdmittedFrame ==
  ASSUME NEW q \in Requests, req'[q] = req[q], UNCHANGED <<registry, history>>, Admitted(q)
  PROVE  Admitted(q)'
BY DEF Admitted, At, In, Generated, InForce, registry, history

LEMMA GatedFrame ==
  ASSUME NEW q \in Requests, req'[q] = req[q], Durable(q)' = Durable(q), Held(q)' = Held(q),
         UNCHANGED <<registry, history>>, Gated(q)
  PROVE  Gated(q)'
BY DEF Gated, Past, At, In, MayMutate, registry, history

-----------------------------------------------------------------------------
(* Before the first statement *)

Handled == Connected \cup {"mapping", "source", "schema", "fetch"}
Planned == Connected \cup {"fetch"}

(* What a step of a request may do before the connector runs a statement.  *)
EarlyMove(r) ==
  /\ req[r].pc \in Early \ {"idle"} /\ req'[r].pc \in Early \cup {"run", "release", "done"}
  /\ req'[r].next = req[r].next /\ req'[r].failed = (req'[r].pc = "release")
  /\ req'[r].pc = "done" => req'[r].answer \notin {"ok", "lost"}
  /\ req'[r].pc \in Connected => In(r).source \in Sources
  /\ req'[r].grant # req[r].grant =>
       /\ At(r, "verify") /\ req'[r].grant = In(r).key /\ InForce(In(r).key)
       /\ req'[r].pc = "record"
  /\ req'[r].pc = "verify" => In(r).key # Nobody
  /\ req'[r].map # req[r].map => req'[r].map \in active
  /\ req'[r].pc \in Handled /\ In(r).route = "altrql" /\ req[r].pc \notin Handled =>
       (IsMutation(In(r)) => MayMutate(r)) /\ In(r).source # NoSource
  /\ req'[r].pc \in Planned /\ In(r).route = "altrql" /\ req[r].pc \notin Planned =>
       (RequiresConfirmation(In(r)) => In(r).confirm)

(* The locals after Goto and Answer, one by one.                           *)
LEMMA GotoFields ==
  ASSUME TypeOK, NEW r \in Requests, NEW pc \in Places \ {"idle"}, Goto(r, pc)
  PROVE  /\ req'[r].pc = pc /\ req'[r].next = req[r].next /\ req'[r].failed = req[r].failed
         /\ req'[r].grant = req[r].grant /\ req'[r].map = req[r].map
         /\ req'[r].pool = req[r].pool /\ req'[r].conn = req[r].conn
<1>1. req[r] \in Locals
  BY LocalFacts
<1>2. req'[r] = [req[r] EXCEPT !.pc = pc]
  BY GotoIsLocal
<1> QED BY <1>1, <1>2 DEF Locals

LEMMA AnswerFields ==
  ASSUME TypeOK, NEW r \in Requests,
         NEW a \in {"ok", "failed", "error", "unauthorized", "forbidden", "unconfirmed", "federated"},
         Answer(r, a)
  PROVE  /\ req'[r].pc = "done" /\ req'[r].answer = a
         /\ req'[r].next = req[r].next /\ req'[r].failed = req[r].failed
         /\ req'[r].grant = req[r].grant /\ req'[r].map = req[r].map
         /\ req'[r].pool = req[r].pool /\ req'[r].conn = req[r].conn
<1>1. req[r] \in Locals
  BY LocalFacts
<1>2. req'[r] = [req[r] EXCEPT !.pc = "done", !.answer = a]
  BY AnswerIsLocal
<1> QED BY <1>1, <1>2 DEF Locals

(* A refusal is an early move, and one to a place that opens no gate.      *)
LEMMA RefusalMoves ==
  ASSUME TypeOK, NEW r \in Requests, Progress(r), req[r].pc \in Early \ {"idle"},
         NEW a \in {"failed", "error", "unauthorized", "forbidden", "unconfirmed", "federated"},
         Answer(r, a)
  PROVE  EarlyMove(r)
<1>1. ~req[r].failed /\ req[r].failed \in BOOLEAN
  BY LocalFacts DEF Progress
<1>2. /\ req'[r].pc = "done" /\ req'[r].answer = a
      /\ req'[r].next = req[r].next /\ req'[r].failed = req[r].failed
      /\ req'[r].grant = req[r].grant /\ req'[r].map = req[r].map
  BY AnswerFields
<1> QED BY <1>1, <1>2 DEF EarlyMove, Connected, Handled, Planned

LEMMA GotoMoves ==
  ASSUME TypeOK, NEW r \in Requests, Progress(r), req[r].pc \in Early \ {"idle"},
         NEW pc \in (Early \ {"idle"}) \cup {"run"}, Goto(r, pc),
         pc = "verify" => In(r).key # Nobody,
         pc \in Connected => In(r).source \in Sources,
         pc \in Handled /\ In(r).route = "altrql" /\ req[r].pc \notin Handled =>
           (IsMutation(In(r)) => MayMutate(r)) /\ In(r).source # NoSource,
         pc \in Planned /\ In(r).route = "altrql" /\ req[r].pc \notin Planned =>
           (RequiresConfirmation(In(r)) => In(r).confirm)
  PROVE  EarlyMove(r)
<1>1. ~req[r].failed /\ req[r].failed \in BOOLEAN
  BY LocalFacts DEF Progress
<1>2. pc \in Places \ {"idle"} /\ pc # "release" /\ pc # "done"
  BY DEF Early, Places
<1> QED BY <1>1, <1>2, GotoFields DEF EarlyMove

LEMMA AdmitMoves ==
  ASSUME TypeOK, NEW r \in Requests, Admit(r), Progress(r)
  PROVE  EarlyMove(r)
<1>0. req[r] \in Locals /\ req \in [Requests -> Locals]
  BY LocalFacts DEF TypeOK
<1>1. CASE RequireScope(r)
  BY <1>1, GotoMoves, RefusalMoves DEF RequireScope, Early, Connected, Handled, Planned, At
<1>2. CASE Verify(r)
  <2>1. CASE ~VerifyKey(In(r).key, "read")
    BY <1>2, <2>1, RefusalMoves DEF Verify, Early, At
  <2>2. CASE VerifyKey(In(r).key, "read")
    <3>1. /\ req'[r].pc = "record" /\ req'[r].grant = In(r).key /\ req'[r].next = req[r].next
          /\ req'[r].failed = req[r].failed /\ req'[r].map = req[r].map
      BY <1>0, <1>2, <2>2 DEF Verify, Locals
    <3>2. InForce(In(r).key)
      <4>1. In(r).key \in Keys \/ In(r).key = Nobody
        BY <1>2, LocalFacts DEF Verify, At, AllInputs
      <4> QED BY <2>2 DEF VerifyKey, GetByHash, InForce
    <3>3. ~req[r].failed /\ req[r].failed \in BOOLEAN /\ At(r, "verify")
      BY <1>2, LocalFacts DEF Progress, Verify, Early, At
    <3> QED BY <3>1, <3>2, <3>3 DEF EarlyMove, Early, Connected, Handled, Planned, At
  <2> QED BY <2>1, <2>2
<1>3. CASE RecordUsage(r)
  BY <1>3, GotoMoves, RefusalMoves DEF RecordUsage, Early, Connected, Handled, Planned, At
<1> QED BY <1>1, <1>2, <1>3 DEF Admit

LEMMA HandleMoves ==
  ASSUME TypeOK, NEW r \in Requests, Handle(r), Progress(r)
  PROVE  EarlyMove(r)
<1>0. req[r] \in Locals /\ req \in [Requests -> Locals]
  BY LocalFacts DEF TypeOK
<1>1. CASE Refuse(r)
  BY <1>1, RefusalMoves DEF Refuse, Early, At
<1>2. CASE ExecuteAltrql(r)
  BY <1>2, GotoMoves, RefusalMoves DEF ExecuteAltrql, Early, Connected, Handled, Planned, At
<1>3. CASE ExecuteNative(r)
  BY <1>3, GotoMoves, RefusalMoves DEF ExecuteNative, Early, Connected, Handled, Planned, At
<1>4. CASE ResolveMapping(r)
  <2>1. ASSUME NEW m \in FindActiveMapping(r), req' = [req EXCEPT ![r].pc = "source", ![r].map = m]
        PROVE  EarlyMove(r)
    <3>1. /\ req'[r].pc = "source" /\ req'[r].grant = req[r].grant /\ req'[r].next = req[r].next
          /\ req'[r].failed = req[r].failed /\ req'[r].map = m
      BY <1>0, <2>1 DEF Locals
    <3>2. ~req[r].failed /\ req[r].failed \in BOOLEAN /\ At(r, "mapping")
      BY <1>4, LocalFacts DEF Progress, ResolveMapping, Early, At
    <3>3. m \in active
      BY DEF FindActiveMapping
    <3> QED BY <3>1, <3>2, <3>3 DEF EarlyMove, Early, Connected, Handled, Planned, At
  <2>2. CASE Goto(r, "source")
    BY <1>4, <2>2, GotoMoves DEF ResolveMapping, Early, Connected, Handled, Planned, At
  <2>3. CASE Answer(r, "failed")
    BY <1>4, <2>3, RefusalMoves DEF ResolveMapping, Early, At
  <2> QED BY <1>4, <2>1, <2>2, <2>3 DEF ResolveMapping
<1>5. CASE GetSource(r)
  BY <1>5, GotoMoves, RefusalMoves DEF GetSource, Early, Connected, Handled, Planned, At
<1>6. CASE Plan(r)
  BY <1>6, GotoMoves, RefusalMoves DEF Plan, Early, Connected, Handled, Planned, At
<1>7. CASE PrepareQuery(r)
  <2>1. In(r).source \in registered => In(r).source \in Sources
    BY DEF TypeOK
  <2> QED
  BY <1>7, <2>1, GotoMoves, RefusalMoves DEF PrepareQuery, Early, Connected, Handled, Planned, At
<1> QED BY <1>1, <1>2, <1>3, <1>4, <1>5, <1>6, <1>7 DEF Handle

(* A connection fails with an exception, which skips all statements.       *)
LEMMA ConnectMoves ==
  ASSUME TypeOK, NEW r \in Requests, Connect(r), Progress(r)
  PROVE  EarlyMove(r)
<1>0. req[r] \in Locals /\ req \in [Requests -> Locals]
  BY LocalFacts DEF TypeOK
<1>1. req[r].pc \in {"open", "acquire"}
  BY DEF Connect, PostgresInitialize, MySQLInitialize, MongoInitialize, MakePool, PostgresAcquire,
     MySQLAcquire, SqliteConnect, Acquire, At
<1>2. ~req[r].failed /\ req[r].failed \in BOOLEAN /\ In(r).source \in Sources
  BY <1>1, LocalFacts DEF Progress, Early, Connected
<1>3. /\ req'[r].pc \in {"acquire", "run", "release"} /\ req'[r].next = req[r].next
      /\ req'[r].failed = (req'[r].pc = "release") /\ req'[r].grant = req[r].grant
      /\ req'[r].map = req[r].map
  <2>1. CASE MakePool(r)
    BY <1>0, <1>2, <2>1 DEF MakePool, Goto, Locals
  <2>2. CASE MongoInitialize(r)
    BY <1>0, <1>2, <2>2 DEF MongoInitialize, Locals
  <2>3. CASE Acquire(r)
    BY <1>0, <1>2, <2>3 DEF Acquire, Locals
  <2> QED BY <2>1, <2>2, <2>3 DEF Connect, PostgresInitialize, MySQLInitialize, PostgresAcquire,
          MySQLAcquire, SqliteConnect
<1> QED BY <1>1, <1>2, <1>3 DEF EarlyMove, Early, Connected, Handled, Planned

(* An early move keeps what is known of the units, of the counter, of the  *)
(* key and of the gates.                                                   *)
LEMMA EarlyMoveKeeps ==
  ASSUME TypeOK, NEW r \in Requests, OwnStep(r), EarlyMove(r), UNCHANGED <<source, counted>>,
         Progress(r), Accounts(r), Admitted(r), Gated(r)
  PROVE  Progress(r)' /\ Accounts(r)' /\ Admitted(r)' /\ Gated(r)'
<1>0. /\ Durable(r)' = Durable(r) /\ Held(r)' = Held(r) /\ In(r)' = In(r)
      /\ Durable(r) = {} /\ Held(r) = {} /\ req[r].next = 1 /\ ~req[r].failed
      /\ In(r) \in AllInputs /\ ~At(r, "idle") /\ ~At(r, "idle")'
  BY LocalFacts DEF EarlyMove, OwnStep, Local, source, Durable, Held, In, At, Progress, Early
<1>1. Progress(r)'
  <2>1. At(r, "run")' => Sent(r)' = {} /\ 1 \in 1..(Units(In(r)) + 1)
    <3>1. In(r)' = In(r) /\ req'[r].next = 1
      BY <1>0 DEF EarlyMove
    <3>2. At(r, "run")' => In(r).source \in Sources
      BY DEF At, EarlyMove, Connected
    <3> QED BY <1>0, <3>1, <3>2, UnitFacts DEF Sent
  <2>2. req'[r].failed => req'[r].pc = "release"
    BY DEF EarlyMove
  <2> QED BY <1>0, <2>1, <2>2 DEF Progress, EarlyMove, At, Whole, Early
<1>2. Accounts(r)'
  <2>1. counted'[r] = 0 /\ req'[r].pc # "close"
    BY DEF EarlyMove, Accounts, Early
  <2>2. req'[r].pc = "done" => req'[r].answer # "ok"
    BY DEF EarlyMove
  <2> QED BY <2>1, <2>2 DEF Accounts, At
<1>3. Admitted(r)'
  BY <1>0, LocalFacts DEF Admitted, EarlyMove, OwnStep, At, Generated, InForce, registry, history, AllInputs, Ungenerated
<1>4. Gated(r)'
  <2>1. UNCHANGED <<active, usable, key>>
    BY DEF OwnStep, registry, history
  <2>2. req'[r].pc \in Handled => req'[r].grant = req[r].grant
    BY DEF EarlyMove, Handled, Connected
  <2>3. req'[r].pc \in Handled => MayMutate(r)' = MayMutate(r)
    BY <2>1, <2>2 DEF MayMutate
  <2>4. req'[r].map # NoMapping => req'[r].map \in usable[r]
    BY <1>0 DEF EarlyMove, Gated
  <2> QED BY <1>0, <2>1, <2>3, <2>4 DEF Gated, Past, EarlyMove, Handled, Planned, At
<1> QED BY <1>1, <1>2, <1>3, <1>4

(* Connections before the first statement.                                 *)
LEMMA AdmitHandles ==
  ASSUME TypeOK, NEW r \in Requests, Admit(r), Handles(r)
  PROVE  Handles(r)'
<1>0. req[r] \in Locals /\ req \in [Requests -> Locals]
  BY LocalFacts DEF TypeOK
<1>1. req[r].pc \in {"auth", "verify", "record"}
  BY DEF Admit, RequireScope, Verify, RecordUsage, At
<1>2. /\ req'[r].pc \in {"verify", "record", "handle", "done"} /\ req'[r].in = req[r].in
      /\ req'[r].pool = req[r].pool /\ req'[r].conn = req[r].conn
  BY <1>0 DEF Admit, RequireScope, Verify, RecordUsage, Goto, Answer, Locals
<1> QED BY <1>1, <1>2 DEF Handles, At, In, Type

LEMMA HandleHandles ==
  ASSUME TypeOK, NEW r \in Requests, Handle(r), Handles(r)
  PROVE  Handles(r)'
<1>0. req[r] \in Locals /\ req \in [Requests -> Locals]
  BY LocalFacts DEF TypeOK
<1>1. req[r].pc \in {"handle", "mapping", "source", "schema", "fetch"}
  BY DEF Handle, Refuse, ExecuteAltrql, ExecuteNative, ResolveMapping, GetSource, Plan, PrepareQuery, At
<1>2. /\ req'[r].in = req[r].in /\ req'[r].pool = req[r].pool /\ req'[r].conn = req[r].conn
      /\ \/ req'[r].pc \in {"mapping", "source", "schema", "fetch", "done"}
         \/ req'[r].pc = "acquire" /\ Type(r) = "sqlite"
         \/ req'[r].pc = "open" /\ Type(r) # "sqlite"
  <2>1. CASE Refuse(r)
    BY <1>0, <2>1 DEF Refuse, Answer, Locals
  <2>2. CASE ExecuteAltrql(r) \/ ExecuteNative(r)
    BY <1>0, <2>2 DEF ExecuteAltrql, ExecuteNative, Goto, Answer, Locals
  <2>3. CASE ResolveMapping(r)
    BY <1>0, <2>3 DEF ResolveMapping, Goto, Answer, Locals
  <2>4. CASE GetSource(r) \/ Plan(r)
    BY <1>0, <2>4 DEF GetSource, Plan, Goto, Answer, Locals
  <2>5. CASE PrepareQuery(r)
    BY <1>0, <2>5 DEF PrepareQuery, Goto, Answer, Locals
  <2> QED BY <2>1, <2>2, <2>3, <2>4, <2>5 DEF Handle
<1> QED BY <1>1, <1>2 DEF Handles, At, In, Type

LEMMA ConnectHandles ==
  ASSUME TypeOK, NEW r \in Requests, Connect(r), Handles(r), Progress(r)
  PROVE  Handles(r)'
<1>0. req[r] \in Locals /\ req \in [Requests -> Locals]
  BY LocalFacts DEF TypeOK
<1>1. CASE PostgresInitialize(r) \/ MySQLInitialize(r)
  BY <1>0, <1>1 DEF PostgresInitialize, MySQLInitialize, MakePool, Goto, Locals, Handles, At, In, Type
<1>2. CASE MongoInitialize(r)
  BY <1>0, <1>2 DEF MongoInitialize, Locals, Handles, At, In, Type
<1>3. CASE PostgresAcquire(r) \/ MySQLAcquire(r) \/ SqliteConnect(r)
  BY <1>0, <1>3 DEF PostgresAcquire, MySQLAcquire, SqliteConnect, Acquire, Locals, Handles, At, In, Type
<1> QED BY <1>1, <1>2, <1>3 DEF Connect

-----------------------------------------------------------------------------
(* While statements run *)

(* What is known of a request that runs, from what is known of its units.  *)
LEMMA RunKeeps ==
  ASSUME TypeOK, NEW r \in Requests, OwnStep(r), At(r, "run"), counted' = counted,
         req'[r].pc \in {"run", "release"}, req'[r].grant = req[r].grant, req'[r].map = req[r].map,
         req'[r].pool = req[r].pool, req'[r].conn = req[r].conn,
         Accounts(r), Handles(r), Admitted(r), Gated(r)
  PROVE  Accounts(r)' /\ Handles(r)' /\ Admitted(r)' /\ Gated(r)'
<1>0. In(r)' = In(r) /\ ~At(r, "idle") /\ ~At(r, "idle")'
  BY DEF OwnStep, Local, In, At
<1>1. Accounts(r)'
  BY DEF Accounts, At
<1>2. Handles(r)'
  BY <1>0 DEF Handles, At, Type
<1>3. Admitted(r)'
  BY <1>0 DEF Admitted, OwnStep, At, Generated, InForce, registry, history
<1>4. Gated(r)'
  BY <1>0 DEF Gated, Past, OwnStep, At, MayMutate, registry, history, Connected
<1> QED BY <1>1, <1>2, <1>3, <1>4

(* The units of a request as its driver changes them.                      *)
LEMMA DurableGrows ==
  ASSUME TypeOK, NEW r \in Requests, NEW U \in SUBSET Nat,
         applied' = applied \cup {<<r, i>> : i \in U}
  PROVE  Durable(r)' = Durable(r) \cup U
BY DEF Durable

LEMMA NextUnitIs ==
  ASSUME TypeOK, NEW r \in Requests
  PROVE  /\ NextUnit(r) = {<<r, i>> : i \in IF IsMutation(In(r)) THEN {req[r].next} ELSE {}}
         /\ Open(r) = {<<r, i>> : i \in Held(r)}
<1>1. NextUnit(r) = {<<r, i>> : i \in IF IsMutation(In(r)) THEN {req[r].next} ELSE {}}
  BY DEF NextUnit
<1>2. Open(r) = {<<r, i>> : i \in Held(r)}
  <2>1. ASSUME NEW u \in Open(r) PROVE u \in {<<r, i>> : i \in Held(r)}
    <3>1. PICK q \in Requests, i \in Nat : u = <<q, i>>
      BY DEF Open, TypeOK
    <3> QED BY <3>1 DEF Open, Held
  <2>2. ASSUME NEW i \in Held(r) PROVE <<r, i>> \in Open(r)
    BY DEF Open, Held
  <2> QED BY <2>1, <2>2
<1> QED BY <1>1, <1>2

LEMMA NextUnitGrows ==
  ASSUME TypeOK, NEW r \in Requests, applied' = applied \cup NextUnit(r)
  PROVE  Durable(r)' = Durable(r) \cup (IF IsMutation(In(r)) THEN {req[r].next} ELSE {})
<1> DEFINE U == IF IsMutation(In(r)) THEN {req[r].next} ELSE {}
<1>1. U \in SUBSET Nat
  BY LocalFacts
<1>2. applied' = applied \cup {<<r, i>> : i \in U}
  BY NextUnitIs
<1> HIDE DEF U
<1>3. Durable(r)' = Durable(r) \cup U
  BY <1>1, <1>2, DurableGrows
<1> QED BY <1>3 DEF U

LEMMA Intervals ==
  ASSUME NEW n \in Nat \ {0}
  PROVE  /\ 1..((n + 1) - 1) = (1..(n - 1)) \cup {n}
         /\ 1..(1 - 1) = {}
OBVIOUS

(* The units that a request on a source has, while it runs.                *)
LEMMA RunFacts ==
  ASSUME TypeOK, NEW r \in Requests, At(r, "run"), Progress(r)
  PROVE  /\ In(r) \in AllInputs /\ In(r).source \in Sources
         /\ Units(In(r)) \in Nat \ {0} /\ req[r].next \in 1..(Units(In(r)) + 1)
         /\ ~Transactional(r) /\ Type(r) # "mongodb" => Units(In(r)) = 1
         /\ req[r].next \in Nat \ {0}
<1>1. In(r) \in AllInputs /\ In(r).source \in Sources /\ req[r].next \in 1..(Units(In(r)) + 1)
  BY LocalFacts DEF At, Progress, Connected
<1>2. Statements(In(r)) \in Nat \ {0} /\ Units(In(r)) \in Nat \ {0}
      /\ (Dialect[In(r).source] # "mongodb" => Units(In(r)) = Statements(In(r)))
  BY <1>1, UnitFacts
<1>3. ~Transactional(r) /\ Type(r) # "mongodb" => Statements(In(r)) = 1
  BY <1>1, <1>2, ExecutionAssumption DEF Transactional, Type, IsBatch
<1> QED BY <1>1, <1>2, <1>3, LocalFacts DEF Type

LEMMA UnorderedFacts ==
  ASSUME NEW r \in Requests, Unordered(r)
  PROVE  ~Transactional(r) /\ Type(r) = "mongodb" /\ IsMutation(In(r))
BY DEF Unordered, Transactional, IsMutation

LEMMA AutocommitProgress ==
  ASSUME TypeOK, NEW r \in Requests, Progress(r), ~Transactional(r), Autocommit(r)
  PROVE  Progress(r)'
<1>1. /\ At(r, "run") /\ req[r].next <= Units(In(r))
      /\ applied' = applied \cup NextUnit(r) /\ pending' = pending
  BY DEF Autocommit, More
<1>2. /\ req'[r] = [req[r] EXCEPT !.next = @ + 1] /\ OwnStep(r) /\ req[r] \in Locals
  BY AutocommitIsOwn, LocalFacts
<1>3. /\ req'[r].pc = "run" /\ req'[r].next = req[r].next + 1 /\ req'[r].failed = req[r].failed
      /\ In(r)' = In(r)
  BY <1>1, <1>2 DEF Locals, At, In
<1>4. /\ Held(r)' = Held(r) /\ Held(r) = {} /\ Durable(r) \subseteq Sent(r)
      /\ req[r].failed => Unordered(r)
      /\ ~req[r].failed => Durable(r) = Sent(r)
  BY <1>1 DEF Held, Progress
<1>5. Durable(r)' = Durable(r) \cup (IF IsMutation(In(r)) THEN {req[r].next} ELSE {})
  BY <1>1, NextUnitGrows
<1>6. Durable(r)' \subseteq Sent(r)' /\ (~req'[r].failed => Durable(r)' = Sent(r)')
  <2>1. req[r].next \in Nat \ {0}
    BY <1>1, RunFacts
  <2>2. Sent(r)' = IF IsMutation(In(r)) THEN 1..((req[r].next + 1) - 1) ELSE {}
    BY <1>3 DEF Sent
  <2>3. Sent(r) = IF IsMutation(In(r)) THEN 1..(req[r].next - 1) ELSE {}
    BY DEF Sent
  <2> QED BY <1>3, <1>4, <1>5, <2>1, <2>2, <2>3, Intervals
<1>7. ~Transactional(r)' /\ (Unordered(r)' <=> Unordered(r))
  BY <1>3 DEF Transactional, Type, IsBatch, Unordered
<1>8. req'[r].next \in 1..(Units(In(r)') + 1)
  BY <1>1, <1>3, RunFacts
<1>9. Durable(r)' # {} => IsMutation(In(r)')
  BY <1>3, <1>6 DEF Sent
<1> QED BY <1>1, <1>3, <1>4, <1>6, <1>7, <1>8, <1>9, RunFacts DEF Progress, At, Early

LEMMA InTransactionProgress ==
  ASSUME TypeOK, NEW r \in Requests, Progress(r), Transactional(r), InTransaction(r)
  PROVE  Progress(r)'
<1>1. /\ At(r, "run") /\ req[r].next <= Units(In(r))
      /\ pending' = pending \cup NextUnit(r) /\ applied' = applied
  BY DEF InTransaction, More
<1>2. /\ req'[r] = [req[r] EXCEPT !.next = @ + 1] /\ OwnStep(r) /\ req[r] \in Locals
  BY InTransactionIsOwn, LocalFacts
<1>3. /\ req'[r].pc = "run" /\ req'[r].next = req[r].next + 1 /\ req'[r].failed = req[r].failed
      /\ In(r)' = In(r)
  BY <1>1, <1>2 DEF Locals, At, In
<1>4. Durable(r)' = Durable(r) /\ Durable(r) = {} /\ Held(r) = Sent(r) /\ ~req[r].failed
  BY <1>1, UnorderedFacts DEF Durable, Progress
<1>5. Held(r)' = Held(r) \cup (IF IsMutation(In(r)) THEN {req[r].next} ELSE {})
  BY <1>1, NextUnitIs, RunFacts DEF Held
<1>6. Held(r)' = Sent(r)'
  BY <1>1, <1>3, <1>4, <1>5, RunFacts, Intervals DEF Sent
<1>7. Transactional(r)'
  BY <1>3 DEF Transactional, Type, IsBatch
<1>8. req'[r].next \in 1..(Units(In(r)') + 1)
  BY <1>1, <1>3, RunFacts
<1>9. Held(r)' # {} => IsMutation(In(r)')
  BY <1>3, <1>6 DEF Sent
<1> QED BY <1>1, <1>3, <1>4, <1>6, <1>7, <1>8, <1>9, RunFacts DEF Progress, At, Early

(* A document is passed over.                                              *)
LEMMA PassOverProgress ==
  ASSUME TypeOK, NEW r \in Requests, Progress(r), Unordered(r), PassOver(r)
  PROVE  Progress(r)'
<1>1. /\ At(r, "run") /\ req[r].next <= Units(In(r))
      /\ applied' = applied /\ pending' = pending
  BY DEF PassOver, More, source
<1>2. /\ req'[r] = [req[r] EXCEPT !.next = @ + 1, !.failed = TRUE] /\ req[r] \in Locals
  BY PassOverIsOwn, LocalFacts
<1>3. req'[r].pc = "run" /\ req'[r].next = req[r].next + 1 /\ req'[r].failed /\ In(r)' = In(r)
  BY <1>1, <1>2 DEF Locals, At, In
<1>4. /\ Held(r)' = Held(r) /\ Held(r) = {} /\ Durable(r)' = Durable(r)
      /\ Durable(r) \subseteq Sent(r) /\ IsMutation(In(r)) /\ ~Transactional(r)
  BY <1>1, UnorderedFacts DEF Held, Durable, Progress
<1>5. Sent(r) \subseteq Sent(r)'
  <2>1. req[r].next \in Nat \ {0}
    BY <1>1, RunFacts
  <2>2. Sent(r)' = 1..((req[r].next + 1) - 1) /\ Sent(r) = 1..(req[r].next - 1)
    BY <1>3, <1>4 DEF Sent
  <2> QED BY <2>1, <2>2, Intervals
<1>6. ~Transactional(r)' /\ Unordered(r)'
  BY <1>3, <1>4 DEF Transactional, Type, IsBatch, Unordered
<1>7. req'[r].next \in 1..(Units(In(r)') + 1)
  BY <1>1, <1>3, RunFacts
<1> QED BY <1>1, <1>3, <1>4, <1>5, <1>6, <1>7, RunFacts DEF Progress, At, Early

(* The statements are over: everything is durable.                         *)
LEMMA EndProgress ==
  ASSUME TypeOK, NEW r \in Requests, Progress(r), AllRun(r),
         (~Transactional(r) /\ Return(r)) \/ (Transactional(r) /\ Commit(r))
  PROVE  Progress(r)'
<1>1. /\ At(r, "run") /\ req[r].next > Units(In(r)) /\ (req[r].failed => Unordered(r))
      /\ Transactional(r) => ~req[r].failed
  BY UnorderedFacts DEF AllRun, Progress
<1>2. /\ req'[r] = [req[r] EXCEPT !.pc = "release"] /\ OwnStep(r) /\ req[r] \in Locals
  BY ReturnIsOwn, CommitIsOwn, LocalFacts
<1>3. /\ req'[r].pc = "release" /\ req'[r].failed = req[r].failed /\ In(r)' = In(r)
  BY <1>2 DEF Locals, In
<1>4. Sent(r) = All(r)
  BY <1>1, RunFacts DEF Sent, All
<1>5. /\ Durable(r)' \subseteq Sent(r) /\ Held(r)' = {}
      /\ ~req[r].failed => Durable(r)' = Sent(r)
  <2>1. CASE ~Transactional(r) /\ Return(r)
    BY <1>1, <2>1 DEF Return, Reading, source, Durable, Held, Progress
  <2>2. CASE Transactional(r) /\ Commit(r)
    <3>1. Durable(r) = {} /\ Held(r) = Sent(r)
      BY <1>1, <2>2, UnorderedFacts DEF Progress
    <3>2. Durable(r)' = Durable(r) \cup Held(r)
      BY <2>2, NextUnitIs, DurableGrows DEF Commit, Held
    <3>3. Held(r)' = {}
      BY <2>2 DEF Commit, Held, Open
    <3> QED BY <3>1, <3>2, <3>3
  <2> QED BY <2>1, <2>2
<1>6. All(r)' = All(r) /\ (Unordered(r)' <=> Unordered(r))
  BY <1>3 DEF All, Unordered, Type
<1>7. /\ ~req[r].failed => Durable(r)' = All(r)'
      /\ Durable(r)' # {} => IsMutation(In(r)')
  BY <1>3, <1>4, <1>5, <1>6 DEF All
<1>8. Whole(r)'
  <2>1. CASE ~req[r].failed
    BY <1>3, <1>4, <1>5, <2>1 DEF All, Whole
  <2>2. CASE req[r].failed
    <3>1. Unordered(r)' /\ Durable(r)' \subseteq 1..Units(In(r)')
      BY <1>1, <1>3, <1>4, <1>5, <1>6, <2>2, UnorderedFacts DEF All
    <3> QED BY <3>1 DEF Whole
  <2> QED BY <2>1, <2>2
<1> QED BY <1>1, <1>3, <1>5, <1>7, <1>8, RunFacts DEF Progress, At, Early

(* While statements run all, nothing, or a beginning on MongoDB, is durable. *)
LEMMA RunIsWhole ==
  ASSUME TypeOK, NEW r \in Requests, Progress(r), At(r, "run")
  PROVE  Whole(r)
<1>1. CASE Transactional(r)
  BY <1>1, UnorderedFacts DEF Progress, Whole
<1>3. CASE req[r].failed
  <2>1. Unordered(r) /\ Durable(r) \subseteq Sent(r) /\ IsMutation(In(r))
    BY <1>3, UnorderedFacts DEF Progress
  <2>2. Sent(r) \subseteq 1..Units(In(r))
    BY <2>1, RunFacts DEF Sent
  <2> QED BY <2>1, <2>2 DEF Whole
<1>2. CASE ~Transactional(r) /\ ~req[r].failed
  <2>1. Durable(r) = Sent(r) /\ req[r].next - 1 \in 0..Units(In(r)) /\ 1..(1 - 1) = {}
    BY <1>2, RunFacts DEF Progress
  <2>2. CASE ~IsMutation(In(r))
    BY <2>1, <2>2 DEF Whole, Sent
  <2>3. CASE IsMutation(In(r)) /\ Type(r) = "mongodb"
    BY <2>1, <2>3 DEF Whole, Sent
  <2>4. CASE IsMutation(In(r)) /\ Type(r) # "mongodb"
    <3>1. req[r].next \in 1..(1 + 1) /\ Units(In(r)) = 1
      BY <1>2, <2>4, RunFacts
    <3>2. CASE req[r].next = 1
      BY <2>1, <2>4, <3>2 DEF Whole, Sent
    <3>3. CASE req[r].next = 2
      <4>1. req[r].next - 1 = 1
        BY <3>3
      <4> QED BY <2>1, <2>4, <3>1, <4>1 DEF Whole, Sent
    <3> QED BY <3>1, <3>2, <3>3
  <2> QED BY <2>2, <2>3, <2>4
<1> QED BY <1>1, <1>2, <1>3

(* The driver raises: all, nothing, or a beginning on MongoDB, is durable. *)
LEMMA RaiseProgress ==
  ASSUME TypeOK, NEW r \in Requests, Progress(r), At(r, "run"),
         \/ ~Transactional(r) /\ More(r) /\ (Raise(r, {}) \/ Raise(r, NextUnit(r)))
         \/ Transactional(r) /\ (Raise(r, {}) \/ (AllRun(r) /\ Raise(r, Open(r))))
  PROVE  Progress(r)'
<1>2. /\ req'[r] = [req[r] EXCEPT !.pc = "release", !.failed = TRUE] /\ req[r] \in Locals
  BY RaiseIsOwn, UnitSets, LocalFacts
<1>3. /\ req'[r].pc = "release" /\ req'[r].failed /\ In(r)' = In(r)
  BY <1>2 DEF Locals, In
<1>4. Held(r)' = {}
  BY DEF Raise, Held, Open
<1>5. Whole(r)' /\ (Durable(r)' # {} => IsMutation(In(r)'))
  <2>3. CASE req[r].failed
    <3>1. /\ Unordered(r) /\ Durable(r) \subseteq Sent(r) /\ IsMutation(In(r)) /\ ~Transactional(r)
          /\ req[r].next <= Units(In(r)) /\ (Raise(r, {}) \/ Raise(r, NextUnit(r)))
      BY <2>3, UnorderedFacts DEF Progress, More
    <3>2. Durable(r)' \subseteq Sent(r) \cup {req[r].next}
      <4>1. CASE Raise(r, {})
        BY <3>1, <4>1 DEF Raise, Durable
      <4>2. CASE Raise(r, NextUnit(r))
        BY <3>1, <4>2, NextUnitGrows DEF Raise
      <4> QED BY <3>1, <4>1, <4>2
    <3>3. Sent(r) \cup {req[r].next} \subseteq 1..Units(In(r))
      BY <3>1, RunFacts DEF Sent
    <3>4. Unordered(r)'
      BY <1>3, <3>1 DEF Unordered, Type
    <3> QED BY <1>3, <3>1, <3>2, <3>3, <3>4 DEF Whole
  <2>1. CASE ~Transactional(r) /\ ~req[r].failed
    <3>1. Durable(r) = Sent(r) /\ req[r].next <= Units(In(r))
      BY <2>1 DEF Progress, More
    <3>2. \/ Durable(r)' = Sent(r)
          \/ IsMutation(In(r)) /\ Durable(r)' = 1..req[r].next
      <4>1. CASE Raise(r, {})
        BY <3>1, <4>1 DEF Raise, Durable
      <4>2. CASE Raise(r, NextUnit(r))
        <5>1. Durable(r)' = Durable(r) \cup (IF IsMutation(In(r)) THEN {req[r].next} ELSE {})
          BY <4>2, NextUnitGrows DEF Raise
        <5>2. req[r].next \in Nat \ {0} /\ (req[r].next + 1) - 1 = req[r].next
          BY RunFacts
        <5>3. 1..req[r].next = (1..(req[r].next - 1)) \cup {req[r].next}
          BY <5>2, Intervals
        <5>4. Sent(r) = IF IsMutation(In(r)) THEN 1..(req[r].next - 1) ELSE {}
          BY DEF Sent
        <5>5. CASE IsMutation(In(r))
          BY <3>1, <5>1, <5>3, <5>4, <5>5
        <5>6. CASE ~IsMutation(In(r))
          BY <3>1, <5>1, <5>4, <5>6
        <5> QED BY <5>5, <5>6
      <4> QED BY <2>1, <4>1, <4>2
    <3>3. \/ Durable(r)' = {}
          \/ IsMutation(In(r)) /\ \E n \in 0..Units(In(r)) : Durable(r)' = 1..n
      <4>1. req[r].next - 1 \in 0..Units(In(r)) /\ req[r].next \in 0..Units(In(r))
        BY <3>1, RunFacts
      <4> QED BY <3>2, <4>1 DEF Sent
    <3>4. CASE Type(r) = "mongodb"
      BY <1>3, <3>3, <3>4 DEF Whole, Type
    <3>5. CASE Type(r) # "mongodb"
      <4>1. Units(In(r)) = 1 /\ 1..0 = {}
        BY <2>1, <3>5, RunFacts
      <4>2. \/ Durable(r)' = {}
            \/ IsMutation(In(r)) /\ Durable(r)' = 1..Units(In(r))
        BY <3>3, <4>1
      <4> QED BY <1>3, <4>2 DEF Whole
    <3> QED BY <3>4, <3>5
  <2>2. CASE Transactional(r)
    <3>1. Durable(r) = {} /\ Held(r) = Sent(r)
      BY <2>2, UnorderedFacts DEF Progress
    <3>2. CASE Raise(r, {})
      <4>1. Durable(r)' = {}
        BY <3>1, <3>2 DEF Raise, Durable
      <4> QED BY <4>1 DEF Whole
    <3>3. CASE AllRun(r) /\ Raise(r, Open(r))
      <4>1. Durable(r)' = Held(r)
        BY <3>1, <3>3, NextUnitIs, DurableGrows, ZenonT(40) DEF Raise, Held
      <4>2. Sent(r) = All(r)
        BY <3>3, RunFacts DEF AllRun, Sent, All
      <4> QED BY <1>3, <3>1, <4>1, <4>2 DEF Whole, All
    <3> QED BY <2>2, <3>2, <3>3
  <2> QED BY <2>1, <2>2, <2>3
<1> QED BY <1>3, <1>4, <1>5, RunFacts DEF Progress, At, Early

(* Every step of a driver keeps what is known of its request.              *)
LEMMA ExecuteKeeps ==
  ASSUME TypeOK, NEW r \in Requests, Execute(r), OwnStep(r),
         Progress(r), Accounts(r), Handles(r), Admitted(r), Gated(r)
  PROVE  Progress(r)' /\ Accounts(r)' /\ Handles(r)' /\ Admitted(r)' /\ Gated(r)'
<1>1. req[r] \in Locals /\ At(r, "run")
  BY LocalFacts, ExecuteCases
<1>2. Progress(r)'
  BY ExecuteCases, AutocommitProgress, InTransactionProgress, EndProgress, RaiseProgress,
     PassOverProgress
     DEF Return, Commit
<1>3. \/ req'[r] = [req[r] EXCEPT !.next = @ + 1]
      \/ req'[r] = [req[r] EXCEPT !.pc = "release"]
      \/ req'[r] = [req[r] EXCEPT !.pc = "release", !.failed = TRUE]
      \/ req'[r] = [req[r] EXCEPT !.next = @ + 1, !.failed = TRUE]
  BY ExecuteCases, UnitSets, AutocommitIsOwn, InTransactionIsOwn, ReturnIsOwn, CommitIsOwn, RaiseIsOwn,
     PassOverIsOwn
<1>4. /\ req'[r].pc \in {"run", "release"} /\ req'[r].grant = req[r].grant
      /\ req'[r].map = req[r].map /\ req'[r].pool = req[r].pool /\ req'[r].conn = req[r].conn
  BY <1>1, <1>3 DEF Locals, At
<1>5. counted' = counted
  BY ExecuteCases DEF Autocommit, InTransaction, Return, Commit, Raise, PassOver, Reading
<1> QED BY <1>1, <1>2, <1>4, <1>5, RunKeeps

-----------------------------------------------------------------------------
(* After the last statement *)

LEMMA GiveBackKeeps ==
  ASSUME TypeOK, NEW r \in Requests, NEW kinds, GiveBack(r, kinds), OwnStep(r),
         "direct" \in kinds, "none" \notin kinds,
         Type(r) \in {"sqlite", "mongodb"} \/ "pooled" \in kinds,
         Progress(r), Accounts(r), Handles(r), Admitted(r), Gated(r)
  PROVE  Progress(r)' /\ Accounts(r)' /\ Handles(r)' /\ Admitted(r)' /\ Gated(r)'
<1>0. req[r] \in Locals /\ req \in [Requests -> Locals] /\ counted \in [Requests -> Nat]
  BY LocalFacts DEF TypeOK
<1>1. /\ At(r, "release") /\ req'[r].pc = "close" /\ In(r)' = In(r) /\ req'[r].failed = req[r].failed
      /\ req'[r].grant = req[r].grant /\ req'[r].map = req[r].map /\ req'[r].pool = req[r].pool
      /\ req'[r].conn = IF req[r].conn \in kinds THEN "none" ELSE req[r].conn
  BY <1>0 DEF GiveBack, Locals, In
<1>2. Durable(r)' = Durable(r) /\ Held(r)' = Held(r)
  BY DEF GiveBack, source, Durable, Held
<1>3. Progress(r)'
  BY <1>1, <1>2 DEF Progress, At, Whole, Unordered, All, Type, Early, Connected
<1>4. Accounts(r)'
  <2>1. counted[r] = 0 /\ CountUsage(r)' = CountUsage(r)
    BY <1>1 DEF Accounts, At, CountUsage
  <2>2. counted'[r] = counted[r] + CountUsage(r)
    BY <1>0 DEF GiveBack
  <2>3. CountUsage(r) \in Nat
    <3>1. In(r) \in AllInputs /\ In(r).source \in Sources
      BY <1>1, LocalFacts DEF At, Progress, Connected
    <3> QED BY <3>1, UnitFacts DEF CountUsage
  <2> QED BY <1>1, <2>1, <2>2, <2>3 DEF Accounts, At, Early
<1>5. Handles(r)'
  <2>1. req'[r].conn = "none"
    BY <1>0, <1>1 DEF Handles, Locals
  <2> QED BY <1>1, <2>1 DEF Handles, At
<1>6. Admitted(r)'
  BY <1>1 DEF Admitted, OwnStep, At, Generated, InForce, registry, history
<1>7. Gated(r)'
  BY <1>1, <1>2 DEF Gated, Past, OwnStep, At, MayMutate, registry, history, Connected
<1> QED BY <1>3, <1>4, <1>5, <1>6, <1>7

LEMMA CloseKeeps ==
  ASSUME TypeOK, NEW r \in Requests, CloseConnector(r), OwnStep(r),
         Progress(r), Accounts(r), Handles(r), Admitted(r), Gated(r)
  PROVE  Progress(r)' /\ Accounts(r)' /\ Handles(r)' /\ Admitted(r)' /\ Gated(r)'
<1>0. req[r] \in Locals /\ req \in [Requests -> Locals]
  BY LocalFacts DEF TypeOK
<1>1. /\ At(r, "close") /\ req'[r].pc = "done" /\ In(r)' = In(r) /\ req'[r].failed = req[r].failed
      /\ req'[r].grant = req[r].grant /\ req'[r].map = req[r].map /\ ~req'[r].pool
      /\ req'[r].conn = req[r].conn /\ req'[r].answer = Outcome(r)
  BY <1>0 DEF CloseConnector, Locals, In
<1>2. Durable(r)' = Durable(r) /\ Held(r)' = Held(r) /\ counted' = counted
  BY DEF CloseConnector, Reading, source, Durable, Held
<1>3. Progress(r)'
  BY <1>1, <1>2 DEF Progress, At, Whole, Unordered, All, Type, Early, Connected, Outcome
<1>4. Accounts(r)'
  BY <1>1, <1>2 DEF Accounts, At, Early, Outcome, CountUsage
<1>5. Handles(r)'
  BY <1>1 DEF Handles, At, Type
<1>6. Admitted(r)'
  BY <1>1 DEF Admitted, OwnStep, At, Generated, InForce, registry, history
<1>7. Gated(r)'
  BY <1>1, <1>2 DEF Gated, Past, OwnStep, At, MayMutate, registry, history, Connected
<1> QED BY <1>3, <1>4, <1>5, <1>6, <1>7

(* Every step of a request keeps what is known of all of them.             *)
LEMMA StepKeeps ==
  ASSUME IInv, NEW r \in Requests, Step(r)
  PROVE  IInv'
<1>0. /\ TypeOK /\ OwnStep(r)
      /\ Progress(r) /\ Accounts(r) /\ Handles(r) /\ Admitted(r) /\ Gated(r)
  BY StepIsOwn DEF IInv
<1>1. TypeOK'
  BY <1>0, StepIsBusy, OwnStepTyped
<1>2. Progress(r)' /\ Accounts(r)' /\ Handles(r)' /\ Admitted(r)' /\ Gated(r)'
  <2>1. CASE Admit(r)
    <3>1. UNCHANGED <<source, counted>>
      BY <2>1 DEF Admit, RequireScope, Verify, RecordUsage, Reading
    <3> QED BY <1>0, <2>1, <3>1, AdmitMoves, EarlyMoveKeeps, AdmitHandles
  <2>2. CASE Handle(r)
    <3>1. UNCHANGED <<source, counted>>
      BY <2>2 DEF Handle, Refuse, ExecuteAltrql, ExecuteNative, ResolveMapping, GetSource, Plan,
         PrepareQuery, Reading
    <3> QED BY <1>0, <2>2, <3>1, HandleMoves, EarlyMoveKeeps, HandleHandles
  <2>3. CASE Connect(r)
    <3>1. UNCHANGED <<source, counted>>
      BY <2>3 DEF Connect, PostgresInitialize, MySQLInitialize, MongoInitialize, MakePool,
         PostgresAcquire, MySQLAcquire, SqliteConnect, Acquire, Reading
    <3> QED BY <1>0, <2>3, <3>1, ConnectMoves, EarlyMoveKeeps, ConnectHandles
  <2>4. CASE Execute(r)
    BY <1>0, <2>4, ExecuteKeeps
  <2>5. CASE Finish(r)
    <3>1. CASE PostgresRelease(r) \/ MySQLRelease(r)
      <4>1. GiveBack(r, {"pooled", "direct"})
        BY <3>1 DEF PostgresRelease, MySQLRelease
      <4> QED BY <1>0, <4>1, GiveBackKeeps
    <3>2. CASE OtherRelease(r)
      BY <1>0, <3>2, GiveBackKeeps DEF OtherRelease
    <3>3. CASE CloseConnector(r)
      BY <1>0, <3>3, CloseKeeps
    <3> QED BY <2>5, <3>1, <3>2, <3>3 DEF Finish
  <2> QED BY <2>1, <2>2, <2>3, <2>4, <2>5 DEF Step
<1>3. ASSUME NEW q \in Requests, q # r
      PROVE  Progress(q)' /\ Accounts(q)' /\ Handles(q)' /\ Admitted(q)' /\ Gated(q)'
  <2>1. Progress(q) /\ Accounts(q) /\ Handles(q) /\ Admitted(q) /\ Gated(q)
    BY DEF IInv
  <2>2. /\ req'[q] = req[q] /\ counted'[q] = counted[q]
        /\ Durable(q)' = Durable(q) /\ Held(q)' = Held(q)
    BY <1>0, <1>3, Untouched
  <2>3. UNCHANGED <<registry, history>>
    BY <1>0 DEF OwnStep
  <2> QED BY <2>1, <2>2, <2>3, ProgressFrame, AccountsFrame, HandlesFrame, AdmittedFrame, GatedFrame
<1> QED BY <1>1, <1>2, <1>3 DEF IInv

-----------------------------------------------------------------------------
(* Arrivals, changes of the registry, a crash *)

LEMMA ArriveKeeps ==
  ASSUME IInv, NEW r \in Requests, NEW in \in Inputs[r], Arrive(r, in)
  PROVE  IInv'
<1>0. /\ TypeOK /\ Progress(r) /\ Accounts(r) /\ Handles(r) /\ Admitted(r) /\ Gated(r)
      /\ req[r] \in Locals /\ req \in [Requests -> Locals] /\ in \in AllInputs
  BY LocalFacts, ExecutionAssumption DEF IInv, TypeOK
<1> DEFINE l == [req[r] EXCEPT !.pc = "auth", !.in = in]
<1>1. At(r, "idle") /\ req[r] = Idle
  BY <1>0 DEF Arrive, TypeOK
<1>2. l \in Locals
  BY <1>0 DEF Locals, Places
<1>3. req' = [req EXCEPT ![r] = l]
  BY <1>0 DEF Arrive
<1>4. /\ l.pc = "auth" /\ l.in = in /\ l.grant = Nobody /\ l.map = NoMapping /\ l.next = 1
      /\ l.conn = "none" /\ l.pool = FALSE /\ l.failed = FALSE
  BY <1>1 DEF Idle
<1> HIDE DEF l
<1>5. req' \in [Requests -> Locals] /\ req'[r] = l /\ \A q \in Requests \ {r} : req'[q] = req[q]
  BY <1>0, <1>2, <1>3
<1>6. barred' \in [Requests -> SUBSET Keys] /\ usable' \in [Requests -> SUBSET Mappings]
  BY <1>0 DEF Arrive, TypeOK
<1>7. /\ barred'[r] = {k \in Keys : ~InForce(k)} /\ usable'[r] = active
      /\ \A q \in Requests \ {r} : barred'[q] = barred[q] /\ usable'[q] = usable[q]
  BY <1>0 DEF Arrive, TypeOK
<1>8. UNCHANGED <<registered, active, key, now, admin, applied, pending, counted, faults>>
  BY DEF Arrive, registry, source
<1>9. TypeOK'
  <2>1. ASSUME NEW q \in Requests PROVE IF At(q, "idle")' THEN req'[q] = Idle ELSE In(q)' \in AllInputs
    BY <1>0, <1>4, <1>5 DEF TypeOK, At, In
  <2> QED BY <1>0, <1>5, <1>6, <1>8, <2>1 DEF TypeOK
<1>10. \A q \in Requests : Durable(q)' = Durable(q) /\ Held(q)' = Held(q)
  BY <1>8 DEF Durable, Held
<1>11. Progress(r)' /\ Accounts(r)' /\ Handles(r)' /\ Admitted(r)' /\ Gated(r)'
  <2>0. /\ req'[r].pc = "auth" /\ In(r)' = in /\ req'[r].grant = Nobody /\ req'[r].map = NoMapping
        /\ req'[r].next = 1 /\ req'[r].conn = "none" /\ ~req'[r].pool /\ ~req'[r].failed
    BY <1>4, <1>5 DEF In
  <2>1. Durable(r)' = {} /\ Held(r)' = {} /\ counted'[r] = 0
    BY <1>0, <1>1, <1>8, <1>10 DEF Progress, Accounts, Early, At
  <2>2. Progress(r)'
    BY <2>0, <2>1 DEF Progress, Early, Connected, At
  <2>3. Accounts(r)'
    BY <2>0, <2>1 DEF Accounts, At
  <2>4. Handles(r)'
    BY <2>0 DEF Handles, At
  <2>5. Admitted(r)'
    BY <1>7, <1>8, <2>0 DEF Admitted, At, Arrive, Generated, InForce
  <2>6. Gated(r)'
    BY <1>7, <1>8, <2>0, <2>1 DEF Gated, Past, At, Connected
  <2> QED BY <2>2, <2>3, <2>4, <2>5, <2>6
<1>12. ASSUME NEW q \in Requests, q # r
      PROVE  Progress(q)' /\ Accounts(q)' /\ Handles(q)' /\ Admitted(q)' /\ Gated(q)'
  <2>1. Progress(q) /\ Accounts(q) /\ Handles(q) /\ Admitted(q) /\ Gated(q)
    BY DEF IInv
  <2>2. req'[q] = req[q] /\ counted'[q] = counted[q] /\ barred'[q] = barred[q] /\ usable'[q] = usable[q]
    BY <1>5, <1>7, <1>8, <1>12
  <2>3. Progress(q)' /\ Accounts(q)' /\ Handles(q)'
    BY <1>10, <2>1, <2>2, ProgressFrame, AccountsFrame, HandlesFrame
  <2>4. Admitted(q)'
    BY <1>8, <2>1, <2>2 DEF Admitted, At, In, Generated, InForce
  <2>5. Gated(q)'
    BY <1>8, <1>10, <2>1, <2>2 DEF Gated, Past, At, In, MayMutate
  <2> QED BY <2>3, <2>4, <2>5
<1> QED BY <1>9, <1>11, <1>12 DEF IInv

(* A key that was generated stays so, with the same scopes, and comes into *)
(* force once only.                                                        *)
KeysMove ==
  /\ key' \in [Keys -> KeyRows] /\ now' \in 0..MaxTime
  /\ \A k \in Keys : Generated(k) =>
       Generated(k)' /\ key'[k].scopes = key[k].scopes /\ (InForce(k)' => InForce(k))

LEMMA KeysOnlyMove ==
  ASSUME TypeOK,
         \/ \E k \in Keys, sc \in ScopeSets : GenerateKey(k, sc, Never)
         \/ \E k \in Keys : key[k].active /\ RevokeKey(k)
         \/ Tick
         \/ UNCHANGED <<key, now>>
  PROVE  KeysMove
<1>0. /\ key \in [Keys -> KeyRows] /\ now \in 0..MaxTime /\ MaxTime \in Nat
      /\ ScopeSets \subseteq ((SUBSET Scopes) \ {{}})
  BY KeysAssumption DEF TypeOK
<1>1. ASSUME NEW k \in Keys, NEW sc \in ScopeSets, GenerateKey(k, sc, Never) PROVE KeysMove
  <2> DEFINE row == [active |-> TRUE, scopes |-> sc, expires |-> Never]
  <2>1. row \in KeyRows
    BY <1>0 DEF KeyRows, Never
  <2>2. key' = [key EXCEPT ![k] = row] /\ now' = now /\ ~Generated(k)
    BY <1>1 DEF GenerateKey
  <2> QED BY <1>0, <2>1, <2>2 DEF KeysMove, Generated, InForce
<1>2. ASSUME NEW k \in Keys, RevokeKey(k) PROVE KeysMove
  <2> DEFINE row == [key[k] EXCEPT !.active = FALSE]
  <2>1. key' = [key EXCEPT ![k] = row] /\ now' = now /\ Generated(k)
    BY <1>0, <1>2 DEF RevokeKey
  <2>2. key[k] \in [active : BOOLEAN, scopes : (SUBSET Scopes) \ {{}}, expires : 0..Never]
    BY <1>0, <2>1 DEF KeyRows, Generated
  <2>3. row \in KeyRows /\ row # Ungenerated /\ row.scopes = key[k].scopes /\ row.active = FALSE
    <3>1. row \in [active : BOOLEAN, scopes : (SUBSET Scopes) \ {{}}, expires : 0..Never]
      BY <2>2
    <3>2. row.scopes = key[k].scopes /\ row.active = FALSE /\ key[k].scopes # {}
      BY <2>2
    <3>3. Ungenerated.scopes = {}
      BY DEF Ungenerated
    <3> HIDE DEF row
    <3> QED BY <3>1, <3>2, <3>3 DEF KeyRows
  <2> HIDE DEF row
  <2> QED BY <1>0, <2>1, <2>3 DEF KeysMove, Generated, InForce
<1>3. CASE Tick
  <2>1. key' = key /\ now' = now + 1 /\ now < MaxTime
    BY <1>3 DEF Tick
  <2>2. ASSUME NEW k \in Keys, InForce(k)' PROVE InForce(k)
    <3>1. key[k].expires \in 0..Never
      BY <1>0 DEF KeyRows, Ungenerated, Never
    <3> QED BY <1>0, <2>1, <2>2, <3>1 DEF InForce, Never
  <2> QED BY <1>0, <2>1, <2>2 DEF KeysMove, Generated
<1>4. CASE UNCHANGED <<key, now>>
  BY <1>0, <1>4 DEF KeysMove, Generated, InForce
<1> QED BY <1>1, <1>2, <1>3, <1>4

LEMMA RegistryKeeps ==
  ASSUME IInv, Registry
  PROVE  IInv'
<1>0. TypeOK /\ UNCHANGED <<req, applied, pending, counted, faults, barred>>
  BY DEF IInv, Registry, source
<1>1. KeysMove
  BY <1>0, KeysOnlyMove DEF Registry
<1>2. /\ registered' \subseteq Sources /\ active' \subseteq Mappings
      /\ usable' \in [Requests -> SUBSET Mappings]
      /\ \A r \in Requests : usable[r] \subseteq usable'[r]
                             /\ (active \subseteq usable[r] => active' \subseteq usable'[r])
  BY <1>0 DEF Registry, TypeOK
<1>3. admin' \in 0..MaxAdmin
  BY <1>0, ExecutionAssumption DEF Registry, TypeOK
<1>4. TypeOK'
  BY <1>0, <1>1, <1>2, <1>3 DEF TypeOK, KeysMove, At, In
<1>5. ASSUME NEW r \in Requests
      PROVE  Progress(r)' /\ Accounts(r)' /\ Handles(r)' /\ Admitted(r)' /\ Gated(r)'
  <2>1. Progress(r) /\ Accounts(r) /\ Handles(r) /\ Admitted(r) /\ Gated(r)
    BY DEF IInv
  <2>2. /\ req'[r] = req[r] /\ counted'[r] = counted[r] /\ barred'[r] = barred[r]
        /\ Durable(r)' = Durable(r) /\ Held(r)' = Held(r)
        /\ In(r)' = In(r) /\ \A pc : At(r, pc)' = At(r, pc)
    BY <1>0 DEF Durable, Held, In, At
  <2>3. Progress(r)' /\ Accounts(r)' /\ Handles(r)'
    BY <2>1, <2>2, ProgressFrame, AccountsFrame, HandlesFrame
  <2>4. Admitted(r)'
    <3>1. barred[r] \subseteq Keys
      BY <1>0 DEF TypeOK
    <3> QED BY <1>1, <2>1, <2>2, <3>1 DEF Admitted, KeysMove
  <2>5. MayMutate(r) => MayMutate(r)'
    <3>1. req[r].grant # Nobody => key'[req[r].grant].scopes = key[req[r].grant].scopes
      BY <1>1, <2>1 DEF Admitted, KeysMove
    <3> QED BY <2>2, <3>1 DEF MayMutate
  <2>6. Gated(r)'
    BY <1>2, <2>1, <2>2, <2>5 DEF Gated, Past
  <2> QED BY <2>3, <2>4, <2>6
<1> QED BY <1>4, <1>5 DEF IInv

LEMMA CrashKeeps ==
  ASSUME IInv, Crash
  PROVE  IInv'
<1>0. /\ TypeOK /\ req \in [Requests -> Locals] /\ pending' = {} /\ Fault
      /\ UNCHANGED <<registered, active, key, now, admin, applied, counted, barred, usable>>
  BY DEF IInv, TypeOK, Crash, registry, history
<1>1. ASSUME NEW r \in Requests, At(r, "idle") \/ At(r, "done")
      PROVE  req'[r] = req[r] /\ req'[r] \in Locals
  BY <1>0, <1>1 DEF Crash
<1>2. ASSUME NEW r \in Requests, ~(At(r, "idle") \/ At(r, "done"))
      PROVE  /\ req'[r].pc = "done" /\ req'[r].in = In(r) /\ req'[r].conn = "none"
             /\ req'[r].pool = FALSE /\ req'[r].answer = "lost" /\ req'[r].grant = req[r].grant
             /\ req'[r].map = req[r].map /\ req'[r] \in Locals
  <2>1. req'[r] = [req[r] EXCEPT !.pc = "done", !.conn = "none", !.pool = FALSE, !.answer = "lost"]
    BY <1>2 DEF Crash
  <2>2. req[r] \in Locals
    BY <1>0
  <2> QED BY <2>1, <2>2, ZenonT(40) DEF Locals, Places, In
<1>3. req' \in [Requests -> Locals]
  <2>1. DOMAIN req' = Requests /\ req' = [r \in Requests |-> req'[r]]
    BY DEF Crash
  <2> QED BY <1>1, <1>2, <2>1
<1>4. TypeOK'
  <2>1. ASSUME NEW r \in Requests PROVE IF At(r, "idle")' THEN req'[r] = Idle ELSE In(r)' \in AllInputs
    BY <1>0, <1>1, <1>2 DEF TypeOK, At, In
  <2>2. faults' \in 0..MaxFaults
    BY <1>0, ExecutionAssumption DEF Fault, TypeOK
  <2> QED BY <1>0, <1>3, <2>1, <2>2 DEF TypeOK
<1>5. ASSUME NEW r \in Requests
      PROVE  Progress(r)' /\ Accounts(r)' /\ Handles(r)' /\ Admitted(r)' /\ Gated(r)'
  <2>1. Progress(r) /\ Accounts(r) /\ Handles(r) /\ Admitted(r) /\ Gated(r)
    BY DEF IInv
  <2>2. Durable(r)' = Durable(r) /\ Held(r)' = {} /\ In(r)' = In(r) /\ req'[r].grant = req[r].grant
        /\ req'[r].map = req[r].map
    BY <1>0, <1>1, <1>2 DEF Durable, Held, In
  <2>3. CASE At(r, "idle") \/ At(r, "done")
    <3>1. Held(r) = {}
      BY <2>1, <2>3 DEF Progress, At, Early
    <3>2. req'[r] = req[r]
      BY <1>1, <2>3
    <3>3. UNCHANGED <<registry, history>> /\ counted'[r] = counted[r]
      BY <1>0 DEF registry, history
    <3> QED BY <2>1, <2>2, <3>1, <3>2, <3>3, ProgressFrame, AccountsFrame, HandlesFrame,
            AdmittedFrame, GatedFrame
  <2>4. CASE ~(At(r, "idle") \/ At(r, "done"))
    <3>1. /\ req'[r].pc = "done" /\ req'[r].conn = "none" /\ ~req'[r].pool /\ req'[r].answer = "lost"
      BY <1>2, <2>4
    <3>2. Whole(r)
      <4>1. CASE req[r].pc \in Early \cup {"release", "close"}
        BY <2>1, <4>1 DEF Progress, Whole
      <4>2. CASE At(r, "run")
        BY <1>0, <2>1, <4>2, RunIsWhole
      <4> QED BY <1>0, <2>4, <4>1, <4>2, LocalFacts DEF Places, Early, At
    <3>3. Progress(r)'
      <4>1. Whole(r)'
        BY <2>2, <3>2 DEF Whole, Unordered, Type
      <4> QED BY <2>1, <2>2, <3>1, <4>1 DEF Progress, Early, Connected, At
    <3>4. Accounts(r)'
      BY <3>1 DEF Accounts, Early, At
    <3>5. Handles(r)'
      BY <3>1 DEF Handles, At
    <3>6. Admitted(r)'
      BY <1>0, <2>1, <2>2, <2>4, <3>1 DEF Admitted, At, Generated, InForce
    <3>7. Gated(r)'
      <4>1. Past(r, Connected \cup {"mapping", "source", "schema", "fetch"})' =>
               Past(r, Connected \cup {"mapping", "source", "schema", "fetch"})
        BY <2>2, <3>1 DEF Past, Connected
      <4>2. Past(r, Connected \cup {"fetch"})' => Past(r, Connected \cup {"fetch"})
        BY <2>2, <3>1 DEF Past, Connected
      <4>3. MayMutate(r)' = MayMutate(r)
        BY <1>0, <2>2 DEF MayMutate
      <4>4. ~At(r, "idle") /\ ~At(r, "idle")'
        BY <2>4, <3>1 DEF At
      <4> HIDE DEF Past
      <4>5. /\ Past(r, Connected \cup {"mapping", "source", "schema", "fetch"})' =>
                 (IsMutation(In(r)) => MayMutate(r)) /\ In(r).source # NoSource
            /\ Past(r, Connected \cup {"fetch"})' => (RequiresConfirmation(In(r)) => In(r).confirm)
        BY <2>1, <4>1, <4>2, <4>4 DEF Gated
      <4>6. active' \subseteq usable'[r] /\ (req'[r].map # NoMapping => req'[r].map \in usable'[r])
        BY <1>0, <2>1, <2>2, <4>4 DEF Gated
      <4> QED BY <2>2, <4>3, <4>4, <4>5, <4>6 DEF Gated
    <3> QED BY <3>3, <3>4, <3>5, <3>6, <3>7
  <2> QED BY <2>3, <2>4
<1> QED BY <1>4, <1>5 DEF IInv

-----------------------------------------------------------------------------
(* The theorems *)

LEMMA InitHolds ==
  ASSUME Init
  PROVE  IInv
<1>1. Idle \in Locals
  BY DEF Idle, Locals, Places
<1>2. TypeOK
  <2>1. /\ req \in [Requests -> Locals] /\ counted \in [Requests -> Nat]
        /\ barred \in [Requests -> SUBSET Keys] /\ usable \in [Requests -> SUBSET Mappings]
    BY <1>1 DEF Init
  <2>2. key \in [Keys -> KeyRows] /\ registered \subseteq Sources /\ active \subseteq Mappings
    BY ExecutionAssumption DEF Init
  <2>3. now \in 0..MaxTime /\ admin \in 0..MaxAdmin /\ faults \in 0..MaxFaults
    BY ExecutionAssumption, KeysAssumption DEF Init
  <2>4. \A r \in Requests : At(r, "idle") /\ req[r] = Idle
    BY DEF Init, At, Idle
  <2>5. applied = {} /\ pending = {}
    BY DEF Init
  <2> QED BY <2>1, <2>2, <2>3, <2>4, <2>5 DEF TypeOK
<1>3. ASSUME NEW r \in Requests
      PROVE  Progress(r) /\ Accounts(r) /\ Handles(r) /\ Admitted(r) /\ Gated(r)
  <2>1. /\ At(r, "idle") /\ req[r].grant = Nobody /\ req[r].map = NoMapping /\ req[r].next = 1
        /\ req[r].conn = "none" /\ ~req[r].pool /\ ~req[r].failed
    BY <1>3 DEF Init, Idle, At
  <2>2. Durable(r) = {} /\ Held(r) = {} /\ counted[r] = 0
    BY DEF Init, Durable, Held
  <2>3. Progress(r)
    BY <2>1, <2>2 DEF Progress, At, Early, Connected
  <2>4. Accounts(r)
    BY <2>1, <2>2 DEF Accounts, At
  <2>5. Handles(r)
    BY <2>1 DEF Handles, At
  <2>6. Admitted(r)
    BY <2>1 DEF Admitted, At
  <2>7. Gated(r)
    BY <2>1 DEF Gated
  <2> QED BY <2>3, <2>4, <2>5, <2>6, <2>7
<1> QED BY <1>2, <1>3 DEF IInv

LEMMA NextKeeps ==
  ASSUME IInv, [Next]_vars
  PROVE  IInv'
<1>1. CASE Next
  BY <1>1, StepKeeps, ArriveKeeps, RegistryKeeps, CrashKeeps DEF Next
<1>2. CASE UNCHANGED vars
  <2>1. /\ UNCHANGED <<registry, history>>
        /\ UNCHANGED <<req, registered, active, key, now, admin, applied, pending, counted, faults,
                       barred, usable>>
    BY <1>2 DEF vars, registry, source, history
  <2>2. TypeOK'
    BY <2>1 DEF IInv, TypeOK, At, In
  <2>3. ASSUME NEW q \in Requests
        PROVE  Progress(q)' /\ Accounts(q)' /\ Handles(q)' /\ Admitted(q)' /\ Gated(q)'
    <3>1. Progress(q) /\ Accounts(q) /\ Handles(q) /\ Admitted(q) /\ Gated(q)
      BY DEF IInv
    <3>2. /\ req'[q] = req[q] /\ counted'[q] = counted[q]
          /\ Durable(q)' = Durable(q) /\ Held(q)' = Held(q)
      BY <2>1 DEF Durable, Held
    <3> QED BY <2>1, <3>1, <3>2, ProgressFrame, AccountsFrame, HandlesFrame, AdmittedFrame, GatedFrame
  <2> QED BY <2>2, <2>3 DEF IInv
<1> QED BY <1>1, <1>2

(* The inductive invariant: at every place of every request, what is durable *)
(* and open in the source, what is counted, which connections are open, and  *)
(* what the key and the gates have let through (Execution.Step, Registry,    *)
(* Crash).                                                                   *)
THEOREM Invariance == Spec => []IInv
<1>1. Init => IInv
  BY InitHolds
<1>2. IInv /\ [Next]_vars => IInv'
  BY NextKeeps
<1> QED BY <1>1, <1>2, PTL DEF Spec

(* The types of the state of a request, its units, keys and histories.     *)
THEOREM TypeCorrect == Spec => []TypeOK
<1>1. IInv => TypeOK
  BY DEF IInv
<1> QED BY <1>1, Invariance, PTL

(* Units as the properties name them.                                      *)
LEMMA UnitsAreDurable ==
  ASSUME TypeOK, NEW r \in Requests
  PROVE  UnitsOf(r) = Durable(r) /\ (Ran(r) <=> Durable(r) \cup Held(r) # {})
<1>1. ASSUME NEW u \in applied \cup pending, u[1] = r
      PROVE  u[2] \in Nat /\ u = <<r, u[2]>>
  BY <1>1 DEF TypeOK
<1>2. UnitsOf(r) = Durable(r)
  <2>1. ASSUME NEW i \in UnitsOf(r) PROVE i \in Durable(r)
    <3>1. PICK u \in applied : u[1] = r /\ i = u[2]
      BY DEF UnitsOf
    <3> QED BY <1>1, <3>1 DEF Durable
  <2>2. ASSUME NEW i \in Durable(r) PROVE i \in UnitsOf(r)
    <3>1. <<r, i>> \in applied /\ <<r, i>>[1] = r /\ <<r, i>>[2] = i
      BY DEF Durable
    <3> QED BY <3>1 DEF UnitsOf
  <2> QED BY <2>1, <2>2
<1>3. ASSUME Ran(r) PROVE Durable(r) \cup Held(r) # {}
  <2>1. PICK u \in applied \cup pending : u[1] = r
    BY <1>3 DEF Ran
  <2>2. u[2] \in Durable(r) \cup Held(r)
    BY <1>1, <2>1 DEF Durable, Held
  <2> QED BY <2>2
<1>4. ASSUME Durable(r) \cup Held(r) # {} PROVE Ran(r)
  <2>1. PICK i \in Nat : <<r, i>> \in applied \cup pending
    BY <1>4 DEF Durable, Held
  <2>2. <<r, i>>[1] = r
    OBVIOUS
  <2> QED BY <2>1, <2>2 DEF Ran
<1> QED BY <1>2, <1>3, <1>4

(* For every number of statements and documents, whichever statement, commit, *)
(* connection or process fails: a mutation of a SQL source is applied as a    *)
(* whole or not at all, and of a MongoDB command the first documents, unless  *)
(* it is an unordered insert of the native route (PostgresBatch, MySQLBatch,  *)
(* SqliteQuery, MongoInsertMany).                                             *)
THEOREM MutationsAreAllOrNothing == Spec => []AllOrNothing
<1>1. ASSUME IInv, NEW r \in Requests, Ran(r)
      PROVE  IF Type(r) # "mongodb" THEN UnitsOf(r) \in {{}, 1..Units(In(r))}
             ELSE IF Unordered(r) THEN UnitsOf(r) \subseteq 1..Units(In(r))
             ELSE \E n \in 0..Units(In(r)) : UnitsOf(r) = 1..n
  <2>1. TypeOK /\ Progress(r) /\ UnitsOf(r) = Durable(r) /\ Durable(r) \cup Held(r) # {}
    BY <1>1, UnitsAreDurable DEF IInv
  <2>2. ~At(r, "idle") /\ In(r) \in AllInputs /\ IsMutation(In(r)) /\ req[r].pc \notin Early
    BY <2>1, LocalFacts DEF Progress, At, Early
  <2>3. Whole(r)
    <3>1. CASE At(r, "run")
      BY <2>1, <3>1, RunIsWhole
    <3>2. CASE ~At(r, "run")
      <4>1. req[r].pc \in {"release", "close", "done"}
        BY <2>1, <2>2, <3>2, LocalFacts DEF Places, Early, At
      <4> QED BY <2>1, <4>1 DEF Progress
    <3> QED BY <3>1, <3>2
  <2>4. CASE Type(r) # "mongodb"
    BY <2>1, <2>3, <2>4 DEF Whole, Unordered
  <2>5. CASE Type(r) = "mongodb"
    <3>1. In(r).source \in Sources
      BY <2>5 DEF Type
    <3>2. Units(In(r)) \in Nat \ {0}
      BY <2>2, <3>1, UnitFacts
    <3>3. 0 \in 0..Units(In(r)) /\ Units(In(r)) \in 0..Units(In(r)) /\ 1..0 = {}
      BY <3>2
    <3>4. CASE Unordered(r)
      <4>1. Durable(r) \subseteq 1..Units(In(r))
        BY <2>3, <3>2, <3>4 DEF Whole
      <4> QED BY <2>1, <2>5, <3>4, <4>1
    <3>5. CASE ~Unordered(r)
      <4>1. \E n \in 0..Units(In(r)) : Durable(r) = 1..n
        BY <2>3, <3>3, <3>5 DEF Whole
      <4> QED BY <2>1, <2>5, <3>5, <4>1
    <3> QED BY <3>4, <3>5
  <2> QED BY <2>4, <2>5
<1>2. IInv => AllOrNothing
  BY <1>1 DEF AllOrNothing
<1> QED BY <1>2, Invariance, PTL

(* A client that is told ok has its whole mutation durable, and exactly the   *)
(* statements of the requests that are told ok are counted, whatever fails    *)
(* (QueryService.execute, the finally clauses of the connectors).             *)
THEOREM AnswersAreTrue == Spec => []AnswerIsTrue
<1>1. ASSUME IInv, NEW r \in Requests, At(r, "done"), req[r].answer # "lost"
      PROVE  /\ req[r].answer = "ok" /\ IsMutation(In(r)) => UnitsOf(r) = 1..Units(In(r))
             /\ counted[r] = IF req[r].answer = "ok" THEN Statements(In(r)) ELSE 0
  <2>1. TypeOK /\ Progress(r) /\ Accounts(r)
    BY <1>1 DEF IInv
  <2>2. UnitsOf(r) = Durable(r)
    BY <2>1, UnitsAreDurable
  <2>3. req[r].answer = "ok" /\ IsMutation(In(r)) => Durable(r) = 1..Units(In(r))
    BY <1>1, <2>1 DEF Progress, All
  <2>4. counted[r] = IF req[r].answer = "ok" THEN Statements(In(r)) ELSE 0
    BY <1>1, <2>1 DEF Accounts
  <2> QED BY <2>2, <2>3, <2>4
<1>2. IInv => AnswerIsTrue
  BY <1>1 DEF AnswerIsTrue
<1> QED BY <1>2, Invariance, PTL

(* An AltrQL mutation that reached its source named it, was confirmed if it   *)
(* has no WHERE, and its key may write; the mapping a request uses was ACTIVE *)
(* while it was under way (execute_altrql, the confirmation gate).            *)
THEOREM EffectsAreAllowed == Spec => []EffectIsAllowed
<1>1. ASSUME IInv, NEW r \in Requests
      PROVE  /\ Ran(r) /\ In(r).route = "altrql" =>
                  /\ In(r).source # NoSource
                  /\ RequiresConfirmation(In(r)) => In(r).confirm
                  /\ MayMutate(r)
             /\ req[r].map # NoMapping => req[r].map \in usable[r]
  <2>1. TypeOK /\ Progress(r) /\ Gated(r)
    BY <1>1 DEF IInv
  <2>2. ASSUME Ran(r), In(r).route = "altrql"
        PROVE  /\ In(r).source # NoSource /\ MayMutate(r)
               /\ RequiresConfirmation(In(r)) => In(r).confirm
    <3>1. Durable(r) \cup Held(r) # {}
      BY <2>1, <2>2, UnitsAreDurable
    <3>2. IsMutation(In(r)) /\ ~At(r, "idle")
      BY <2>1, <3>1 DEF Progress, At, Early
    <3> QED BY <2>1, <2>2, <3>1, <3>2 DEF Gated, Past
  <2> QED BY <2>1, <2>2 DEF Gated
<1>2. IInv => EffectIsAllowed
  BY <1>1 DEF EffectIsAllowed
<1> QED BY <1>2, Invariance, PTL

(* A request that arrives after its key was revoked or has expired is never   *)
(* let in by that key (require_scope, verify_key, revoke_key).                *)
THEOREM RevokedKeysStayOut == Spec => []RevokedStaysOut
<1>1. IInv => RevokedStaysOut
  BY DEF IInv, Admitted, RevokedStaysOut
<1> QED BY <1>1, Invariance, PTL

(* When a request is over neither a connection nor a pool of it is left open, *)
(* on any path (the finally clauses, __aexit__).                              *)
THEOREM NoRequestLeaks == Spec => []NothingLeaks
<1>1. IInv => NothingLeaks
  BY DEF IInv, Handles, NothingLeaks, At
<1> QED BY <1>1, Invariance, PTL
===============================================================================
