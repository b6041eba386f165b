------------------------------ MODULE EngineProofs ------------------------------
(* Theorems about Engine, for every value of its constants.                     *)
EXTENDS EngineProperties, TLAPS

--------------------------------------------------------------------------------
(* The host's calls keep the host's type.                                       *)

LEMMA AnswerType ==
    ASSUME faults \in 0 .. MaxFaults, NEW possible \in BOOLEAN, NEW err \in BOOLEAN,
           Answer(possible, err)
    PROVE  faults' \in 0 .. MaxFaults
BY HostAssumption DEF Answer, Fault

LEMMA InstallQuadletType ==
    ASSUME HostType, NEW alive \in BOOLEAN, NEW n \in Names, NEW c \in Contents \cup {Absent},
           NEW err \in BOOLEAN, InstallQuadlet(alive, n, c, err)
    PROVE  HostType'
<1>1. faults' \in 0 .. MaxFaults
  BY HostAssumption DEF InstallQuadlet, Answer, Fault, HostType
<1>2. files' \in Sources
  BY DEF InstallQuadlet, Outcome, HostType, Sources
<1> QED
  BY <1>1, <1>2 DEF InstallQuadlet, HostType, units

LEMMA RemoveQuadletType ==
    ASSUME HostType, NEW alive \in BOOLEAN, NEW n \in Names, NEW force \in BOOLEAN,
           NEW err \in BOOLEAN, RemoveQuadlet(alive, n, force, err)
    PROVE  HostType'
<1>1. faults' \in 0 .. MaxFaults
  BY HostAssumption DEF RemoveQuadlet, Answer, Fault, HostType
<1>2. running' \in Sources
  BY DEF RemoveQuadlet, Outcome, HostType, Sources
<1>3. files' \in Sources
  BY DEF RemoveQuadlet, Outcome, HostType, Sources
<1> QED
  BY <1>1, <1>2, <1>3 DEF RemoveQuadlet, HostType

LEMMA ReadType ==
    ASSUME HostType, NEW alive \in BOOLEAN, NEW n, NEW err \in BOOLEAN,
           GetQuadlet(alive, n, err) \/ ListQuadlets(alive, err) \/ Verify(alive, n, err)
    PROVE  HostType'
BY HostAssumption DEF GetQuadlet, ListQuadlets, Verify, Answer, Fault, HostType, units

LEMMA ReloadType ==
    ASSUME HostType, NEW alive \in BOOLEAN, NEW err \in BOOLEAN, Reload(alive, err)
    PROVE  HostType'
<1>1. faults' \in 0 .. MaxFaults
  BY HostAssumption DEF Reload, Answer, Fault, HostType
<1> QED
  BY <1>1 DEF Reload, Outcome, HostType

LEMMA UnitJobType ==
    ASSUME HostType, NEW alive \in BOOLEAN, NEW n \in Names, NEW err \in BOOLEAN,
           Start(alive, n, err) \/ Stop(alive, n, err) \/ Restart(alive, n, err)
    PROVE  HostType'
<1>1. faults' \in 0 .. MaxFaults
  BY HostAssumption DEF Start, Stop, Restart, Dies, Answer, Fault, HostType
<1>2. running' \in Sources
  <2>1. CASE Start(alive, n, err)
    BY <2>1 DEF Start, Dies, Outcome, HostType, Sources
  <2>2. CASE Stop(alive, n, err)
    BY <2>2 DEF Stop, Outcome, HostType, Sources
  <2>3. CASE Restart(alive, n, err)
    BY <2>3 DEF Restart, Dies, Outcome, HostType, Sources
  <2> QED BY <2>1, <2>2, <2>3
<1>3. UNCHANGED <<files, loaded>>
  BY DEF Start, Stop, Restart
<1> QED
  BY <1>1, <1>2, <1>3 DEF HostType

--------------------------------------------------------------------------------
(* What a step of one handler does to its locals and to the other handlers.     *)

Kept == \A i \in Instances : instances[i] # NoRecord => instances'[i] # NoRecord

LEMMA HandlerUpdates ==
    ASSUME NEW t \in Handler
    PROVE  /\ \A x \in Answers : [t EXCEPT !.answer = x] \in Handler
           /\ \A x \in BOOLEAN : [t EXCEPT !.rbErr = x] \in Handler
           /\ \A x \in SUBSET Names :
                 /\ [t EXCEPT !.removed = x] \in Handler
                 /\ [t EXCEPT !.installed = x] \in Handler
                 /\ [t EXCEPT !.started = x] \in Handler
                 /\ [t EXCEPT !.listed = x] \in Handler
           /\ \A x \in Sources : [t EXCEPT !.old = x] \in Handler /\ [t EXCEPT !.seen = x] \in Handler
           /\ \A x \in Record :
                 /\ [t EXCEPT !.prev = x] \in Handler
                 /\ [t EXCEPT !.prev = x].job = t.job
                 /\ [t EXCEPT !.prev = x].prev = x
           /\ [t EXCEPT !.alive = FALSE] \in Handler
BY DEF Handler

LEMMA Moved ==
    ASSUME TypeOK, Kept, NEW r \in Requests,
           NEW stage \in Stages, NEW S \in SUBSET Names, NEW t \in Handler,
           Go(r, stage, S), Keep(r, t), Fits(stage, t, instances')
    PROVE  RequestType' /\ HandlersFit'
<1>1. RequestType'
  BY DEF TypeOK, RequestType, Go, Keep
<1>2. ASSUME NEW q \in Requests PROVE Fits(pc[q], tx[q], instances)'
  <2>1. CASE q = r
    BY <2>1 DEF TypeOK, RequestType, Go, Keep
  <2>2. CASE q # r
    <3>1. pc'[q] = pc[q] /\ tx'[q] = tx[q]
      BY <2>2 DEF TypeOK, RequestType, Go, Keep
    <3>2. Fits(pc[q], tx[q], instances)
      BY DEF TypeOK, HandlersFit
    <3>3. Fits(pc[q], tx[q], instances')
      BY <3>2 DEF Fits, Kept, Job
    <3> QED BY <3>1, <3>3
  <2> QED BY <2>1, <2>2
<1> QED
  BY <1>1, <1>2 DEF HandlersFit

LEMMA Stayed ==
    ASSUME TypeOK, Kept, NEW r \in Requests, NEW stage \in Stages, NEW S \in SUBSET Names,
           Go(r, stage, S), UNCHANGED tx, Fits(stage, tx[r], instances')
    PROVE  RequestType' /\ HandlersFit'
<1>1. tx[r] \in Handler /\ Keep(r, tx[r])
  BY DEF TypeOK, RequestType, Keep
<1> QED
  BY <1>1, Moved

LEMMA Replied ==
    ASSUME TypeOK, Kept, NEW r \in Requests, NEW x \in Answers, pc[r] # "idle", Reply(r, x)
    PROVE  RequestType' /\ HandlersFit'
<1> DEFINE t == [tx[r] EXCEPT !.answer = x]
<1>1. tx[r] \in Handler /\ Fits(pc[r], tx[r], instances)
  BY DEF TypeOK, RequestType, HandlersFit
<1>2. t \in Handler /\ t.job = tx[r].job
  BY <1>1, HandlerUpdates DEF Handler
<1>3. Fits("done", t, instances')
  BY <1>1, <1>2 DEF Fits
<1>4. Go(r, "done", {}) /\ Keep(r, t)
  BY DEF Reply
<1> QED
  BY <1>2, <1>3, <1>4, Moved DEF Stages

(* A stage of the transaction of a plan, where the job and the loaded record    *)
(* are what Fits says.                                                          *)
Working(r) == pc[r] \notin {"idle", "done", "lifecycle"}

LEMMA Aborted ==
    ASSUME TypeOK, Kept, NEW r \in Requests, Working(r), NEW t \in Handler,
           t.job = tx[r].job, t.prev = tx[r].prev, AbortTo(r, t), UNCHANGED instances
    PROVE  RequestType' /\ HandlersFit'
<1>1. Fits(pc[r], tx[r], instances)
  BY DEF TypeOK, HandlersFit
<1>2. t.installed \in SUBSET Names /\ t.started \in SUBSET Names /\ t.removed \in SUBSET Names
  BY DEF Handler
<1>3. CASE t.job.op = "install" /\ Go(r, "undoInstall", t.installed)
  <2>1. Fits("undoInstall", t, instances')
    BY <1>1, <1>3 DEF Fits, Working
  <2> QED BY <1>2, <1>3, <2>1, Moved DEF AbortTo, Stages
<1>4. CASE t.job.op = "update" /\ Go(r, "undoStop", t.started)
  <2>1. Fits("undoStop", t, instances')
    BY <1>1, <1>4 DEF Fits, Working
  <2> QED BY <1>2, <1>4, <2>1, Moved DEF AbortTo, Stages
<1>5. CASE t.job.op = "remove" /\ Go(r, "reinstall", t.removed)
  <2>1. Fits("reinstall", t, instances')
    BY <1>1, <1>5 DEF Fits, Working
  <2> QED BY <1>2, <1>5, <2>1, Moved DEF AbortTo, Stages
<1> QED
  BY <1>3, <1>4, <1>5 DEF AbortTo

LEMMA Locals ==
    ASSUME TypeOK, NEW r \in Requests, Working(r)
    PROVE  /\ tx[r] \in Handler /\ tx[r].job \in Job /\ Op(r) \in PlanOps
           /\ Inst(r) \in Instances /\ Alive(r) \in BOOLEAN
           /\ pc[r] \in Stages /\ todo[r] \in SUBSET Names
           /\ tx[r].job.src \in Sources /\ Fits(pc[r], tx[r], instances)
           /\ Op(r) \in {"update", "remove"} =>
                 tx[r].prev \in Record /\ instances[Inst(r)] \in Record
<1>1. tx[r] \in Handler /\ pc[r] \in Stages /\ todo[r] \in SUBSET Names
  BY DEF TypeOK, RequestType
<1>2. Fits(pc[r], tx[r], instances)
  BY DEF TypeOK, HandlersFit
<1>3. tx[r].job \in Job /\ Op(r) \in PlanOps
  BY <1>2 DEF Fits, Working, Op
<1>4. Inst(r) \in Instances /\ Alive(r) \in BOOLEAN /\ tx[r].job.src \in Sources
  BY <1>1, <1>3 DEF Inst, Alive, Handler, Job
<1>5. Op(r) \in {"update", "remove"} => tx[r].prev \in Record /\ instances[Inst(r)] \in Record
  BY <1>2, <1>4 DEF Fits, Working, Op, Inst, TypeOK, StoreType
<1> QED
  BY <1>1, <1>2, <1>3, <1>4, <1>5

LEMMA StoreSameType ==
    ASSUME TypeOK, StoreSame
    PROVE  /\ StoreType' /\ Kept /\ UNCHANGED instances
           /\ edits' \in Nat /\ crashes' \in Nat /\ suspect' \subseteq Instances
BY DEF TypeOK, StoreSame, storeVars, envVars, StoreType, Kept

LEMMA HostSameType ==
    ASSUME TypeOK, HostSame PROVE HostType'
BY DEF TypeOK, HostSame, hostVars, HostType

LEMMA NamesOfType ==
    ASSUME NEW s PROVE NamesOf(s) \in SUBSET Names
BY DEF NamesOf

(* From a stage of a transaction to another: what the step must respect.        *)
Follows(r, stage) ==
    /\ stage \in Stages \ {"lifecycle"}
    /\ stage \in {"check", "snapshot", "stop", "removeOld"} => Op(r) # "install"

LEMMA Passed ==
    ASSUME TypeOK, Kept, NEW r \in Requests, Working(r), NEW stage, Follows(r, stage),
           NEW S \in SUBSET Names, NEW t \in Handler, t.job = tx[r].job, t.prev = tx[r].prev,
           Go(r, stage, S), Keep(r, t)
    PROVE  RequestType' /\ HandlersFit'
<1>1. Fits(stage, t, instances')
  BY Locals DEF Follows, Fits, PlanOps, Op, Inst, Kept, Working
<1> QED
  BY <1>1, Moved DEF Follows

LEMMA PassedOn ==
    ASSUME TypeOK, Kept, NEW r \in Requests, Working(r), NEW stage, Follows(r, stage),
           NEW S \in SUBSET Names, Go(r, stage, S), UNCHANGED tx
    PROVE  RequestType' /\ HandlersFit'
<1>1. tx[r] \in Handler /\ Keep(r, tx[r])
  BY DEF TypeOK, RequestType, Keep
<1> QED
  BY <1>1, Passed

LEMMA RolledOn ==
    ASSUME TypeOK, Kept, NEW r \in Requests, Working(r), NEW stage, Follows(r, stage),
           NEW S \in SUBSET Names, Go(r, stage, S), NEW err \in BOOLEAN, RollbackError(r, err)
    PROVE  RequestType' /\ HandlersFit'
<1> DEFINE t == [tx[r] EXCEPT !.rbErr = @ \/ err]
<1>1. t \in Handler /\ t.job = tx[r].job /\ t.prev = tx[r].prev
  BY Locals DEF Handler
<1>2. Keep(r, t)
  BY DEF RollbackError
<1> HIDE DEF t
<1> QED
  BY <1>1, <1>2, Passed

LEMMA AbortedHere ==
    ASSUME TypeOK, Kept, NEW r \in Requests, Working(r), Abort(r), UNCHANGED instances
    PROVE  RequestType' /\ HandlersFit'
BY Locals, Aborted DEF Abort

--------------------------------------------------------------------------------
(* One lemma per action.                                                        *)

LEMMA CheckDriftType ==
    ASSUME TypeOK, NEW r \in Requests, CheckDrift(r)
    PROVE  TypeOK'
<1>1. Working(r) /\ pc[r] = "check"
  BY DEF CheckDrift, Visit, Leave, Working
<1>2. StoreSame
  BY DEF CheckDrift
<1>3. Fits("check", tx[r], instances') /\ Fits("load", tx[r], instances')
  BY <1>1, <1>2, Locals, StoreSameType DEF Fits
<1>4. ASSUME NEW n \in Names, NEW err \in BOOLEAN,
             GetQuadlet(Alive(r), n, err),
             IF err \/ ~Matches(r, n) THEN Reply(r, "refused") ELSE Advance(r, n) /\ UNCHANGED tx
      PROVE  HostType' /\ RequestType' /\ HandlersFit'
  <2>1. HostType'
    BY <1>1, <1>4, Locals, ReadType DEF TypeOK
  <2>2. CASE Reply(r, "refused")
    BY <1>1, <1>2, <2>1, <2>2, StoreSameType, Replied DEF Answers
  <2>3. CASE Advance(r, n) /\ UNCHANGED tx
    BY <1>1, <1>2, <1>3, <2>1, <2>3, Locals, StoreSameType, Stayed DEF Advance
  <2> QED BY <1>4, <2>2, <2>3
<1>5. ASSUME Go(r, "load", {}), HostSame, UNCHANGED tx
      PROVE  HostType' /\ RequestType' /\ HandlersFit'
  BY <1>2, <1>3, <1>5, HostSameType, StoreSameType, Stayed DEF Stages
<1> QED
  BY <1>2, <1>4, <1>5, StoreSameType DEF CheckDrift, TypeOK

LEMMA LoadType ==
    ASSUME TypeOK, NEW r \in Requests, Load(r)
    PROVE  TypeOK'
<1>1. Working(r) /\ pc[r] = "load"
  BY DEF Load, Leave, Working
<1>2. StoreSame /\ UNCHANGED <<files, units>>
  BY DEF Load
<1>3. PICK err \in BOOLEAN :
         /\ Answer(TRUE, err)
         /\ \/ err /\ Reply(r, "failed")
            \/ /\ ~err /\ Op(r) = "install"
               /\ Go(r, "installNew", NamesOf(tx[r].job.src)) /\ UNCHANGED tx
            \/ /\ ~err /\ Op(r) # "install"
               /\ Go(r, "snapshot", NamesOf(instances[Inst(r)].src))
               /\ Keep(r, [tx[r] EXCEPT !.prev = instances[Inst(r)]])
  BY DEF Load
<1>4. HostType'
  BY <1>2, <1>3, HostAssumption DEF TypeOK, HostType, Answer, Fault, units
<1>5. CASE Reply(r, "failed")
  BY <1>1, <1>2, <1>4, <1>5, StoreSameType, Replied DEF TypeOK, Answers
<1>6. CASE Op(r) = "install" /\ Go(r, "installNew", NamesOf(tx[r].job.src)) /\ UNCHANGED tx
  <2>1. Fits("installNew", tx[r], instances')
    BY <1>1, <1>6, Locals DEF Fits, Op
  <2> QED BY <1>2, <1>4, <1>6, <2>1, StoreSameType, Stayed, NamesOfType DEF TypeOK, Stages
<1>7. CASE /\ Op(r) # "install"
           /\ Go(r, "snapshot", NamesOf(instances[Inst(r)].src))
           /\ Keep(r, [tx[r] EXCEPT !.prev = instances[Inst(r)]])
  <2> DEFINE t == [tx[r] EXCEPT !.prev = instances[Inst(r)]]
  <2>1. Op(r) \in {"update", "remove"} /\ instances[Inst(r)] \in Record
    BY <1>1, <1>7, Locals DEF PlanOps
  <2>2. t \in Handler /\ t.job = tx[r].job /\ t.prev = instances[Inst(r)]
    BY <1>1, <2>1, Locals, HandlerUpdates
  <2>3. Fits("snapshot", t, instances')
    BY <1>1, <1>2, <2>1, <2>2, Locals, StoreSameType, NoRecordAssumption DEF Fits, Op, Inst
  <2> HIDE DEF t
  <2>4. Go(r, "snapshot", NamesOf(instances[Inst(r)].src)) /\ Keep(r, t)
    BY <1>7 DEF t
  <2> QED BY <1>2, <1>4, <2>2, <2>3, <2>4, StoreSameType, Moved, NamesOfType DEF TypeOK, Stages
<1> QED
  BY <1>3, <1>5, <1>6, <1>7

LEMMA SnapshotType ==
    ASSUME TypeOK, NEW r \in Requests, Snapshot(r)
    PROVE  TypeOK'
<1>1. Working(r) /\ pc[r] = "snapshot"
  BY DEF Snapshot, Visit, Leave, Working
<1>2. StoreSame
  BY DEF Snapshot
<1>3. \A t \in Handler : t.job = tx[r].job /\ t.prev = tx[r].prev =>
         Fits("snapshot", t, instances') /\ Fits("stop", t, instances')
  BY <1>1, <1>2, Locals, StoreSameType DEF Fits
<1>4. ASSUME NEW n \in Names, NEW err \in BOOLEAN,
             GetQuadlet(Alive(r), n, err),
             IF err THEN Reply(r, "failed")
             ELSE Advance(r, n) /\ Keep(r, [tx[r] EXCEPT !.old[n] = files[n]])
      PROVE  HostType' /\ RequestType' /\ HandlersFit'
  <2>1. HostType'
    BY <1>1, <1>4, Locals, ReadType DEF TypeOK
  <2>2. CASE Reply(r, "failed")
    BY <1>1, <1>2, <2>1, <2>2, StoreSameType, Replied DEF Answers
  <2>3. CASE Advance(r, n) /\ Keep(r, [tx[r] EXCEPT !.old[n] = files[n]])
    <3> DEFINE t == [tx[r] EXCEPT !.old[n] = files[n]]
    <3>1. t \in Handler /\ t.job = tx[r].job /\ t.prev = tx[r].prev
      BY <1>1, Locals DEF Handler, Sources, TypeOK, HostType
    <3> HIDE DEF t
    <3>2. Go(r, "snapshot", todo[r] \ {n}) /\ Keep(r, t)
      BY <1>1, <2>3 DEF Advance, t
    <3> QED BY <1>1, <1>2, <1>3, <2>1, <3>1, <3>2, Locals, StoreSameType, Moved
  <2> QED BY <1>4, <2>2, <2>3
<1>5. ASSUME Go(r, "stop", tx[r].prev.units), HostSame, UNCHANGED tx
      PROVE  HostType' /\ RequestType' /\ HandlersFit'
  <2>1. tx[r] \in Handler /\ tx[r].prev.units \in SUBSET Names
    BY <1>1, Locals DEF Fits, Record
  <2> QED BY <1>2, <1>3, <1>5, <2>1, HostSameType, StoreSameType, Stayed DEF Stages
<1> QED
  BY <1>2, <1>4, <1>5, StoreSameType DEF Snapshot, TypeOK

LEMMA StopUnitType ==
    ASSUME TypeOK, NEW r \in Requests, StopUnit(r)
    PROVE  TypeOK'
<1>1. Working(r) /\ pc[r] = "stop" /\ Op(r) # "install"
  BY DEF StopUnit, Visit, Leave, Working, TypeOK, HandlersFit, Fits, Op
<1>2. StoreSame
  BY DEF StopUnit
<1>3. Follows(r, "stop") /\ Follows(r, "removeOld")
  BY <1>1 DEF Follows, Stages
<1>4. ASSUME NEW n \in Names, NEW err \in BOOLEAN, Stop(Alive(r), n, err),
             IF err THEN Reply(r, "failed") ELSE Advance(r, n) /\ UNCHANGED tx
      PROVE  HostType' /\ RequestType' /\ HandlersFit'
  <2>1. HostType'
    BY <1>1, <1>4, Locals, UnitJobType DEF TypeOK
  <2>2. CASE Reply(r, "failed")
    BY <1>1, <1>2, <2>1, <2>2, StoreSameType, Replied DEF Answers
  <2>3. CASE Advance(r, n) /\ UNCHANGED tx
    BY <1>1, <1>2, <1>3, <2>1, <2>3, Locals, StoreSameType, PassedOn DEF Advance
  <2> QED BY <1>4, <2>2, <2>3
<1>5. ASSUME Go(r, "removeOld", NamesOf(tx[r].prev.src)), HostSame, UNCHANGED tx
      PROVE  HostType' /\ RequestType' /\ HandlersFit'
  BY <1>1, <1>2, <1>3, <1>5, HostSameType, StoreSameType, PassedOn, NamesOfType
<1> QED
  BY <1>2, <1>4, <1>5, StoreSameType DEF StopUnit, TypeOK

LEMMA RemoveOldType ==
    ASSUME TypeOK, NEW r \in Requests, RemoveOld(r)
    PROVE  TypeOK'
<1>1. Working(r) /\ pc[r] = "removeOld" /\ Op(r) # "install"
  BY DEF RemoveOld, Visit, Leave, Working, TypeOK, HandlersFit, Fits, Op
<1>2. StoreSame
  BY DEF RemoveOld
<1>3. \A stage \in {"removeOld", "reinstall", "installNew", "reload"} : Follows(r, stage)
  BY <1>1 DEF Follows, Stages
<1>4. ASSUME NEW n \in Names, NEW err \in BOOLEAN, RemoveQuadlet(Alive(r), n, FALSE, err),
             IF err THEN Go(r, "reinstall", tx[r].removed) /\ UNCHANGED tx
             ELSE Advance(r, n) /\ Keep(r, [tx[r] EXCEPT !.removed = @ \cup {n}])
      PROVE  HostType' /\ RequestType' /\ HandlersFit'
  <2>1. HostType'
    BY <1>1, <1>4, Locals, RemoveQuadletType DEF TypeOK
  <2>2. CASE Go(r, "reinstall", tx[r].removed) /\ UNCHANGED tx
    <3>1. tx[r].removed \in SUBSET Names
      BY <1>1, Locals DEF Handler
    <3> QED BY <1>1, <1>2, <1>3, <2>1, <2>2, <3>1, StoreSameType, PassedOn
  <2>3. CASE Advance(r, n) /\ Keep(r, [tx[r] EXCEPT !.removed = @ \cup {n}])
    <3> DEFINE t == [tx[r] EXCEPT !.removed = @ \cup {n}]
    <3>1. t \in Handler /\ t.job = tx[r].job /\ t.prev = tx[r].prev
      BY <1>1, Locals DEF Handler
    <3> HIDE DEF t
    <3>2. Go(r, "removeOld", todo[r] \ {n}) /\ Keep(r, t)
      BY <1>1, <2>3 DEF Advance, t
    <3> QED BY <1>1, <1>2, <1>3, <2>1, <3>1, <3>2, Locals, StoreSameType, Passed
  <2> QED BY <1>4, <2>2, <2>3
<1>5. ASSUME IF Op(r) = "update" THEN Go(r, "installNew", NamesOf(tx[r].job.src))
                                 ELSE Go(r, "reload", {}),
             HostSame, UNCHANGED tx
      PROVE  HostType' /\ RequestType' /\ HandlersFit'
  <2>1. CASE Go(r, "installNew", NamesOf(tx[r].job.src))
    BY <1>1, <1>2, <1>3, <1>5, <2>1, HostSameType, StoreSameType, PassedOn, NamesOfType
  <2>2. CASE Go(r, "reload", {})
    BY <1>1, <1>2, <1>3, <1>5, <2>2, HostSameType, StoreSameType, PassedOn
  <2> QED BY <1>5, <2>1, <2>2
<1> QED
  BY <1>2, <1>4, <1>5, StoreSameType DEF RemoveOld, TypeOK

LEMMA InstallNewType ==
    ASSUME TypeOK, NEW r \in Requests, InstallNew(r)
    PROVE  TypeOK'
<1>1. Working(r) /\ pc[r] = "installNew"
  BY DEF InstallNew, Visit, Leave, Working
<1>2. StoreSame
  BY DEF InstallNew
<1>3. Follows(r, "installNew") /\ Follows(r, "reload")
  BY DEF Follows, Stages
<1>4. ASSUME NEW n \in Names, NEW err \in BOOLEAN,
             InstallQuadlet(Alive(r), n, tx[r].job.src[n], err),
             IF err THEN Abort(r)
             ELSE Advance(r, n) /\ Keep(r, [tx[r] EXCEPT !.installed = @ \cup {n}])
      PROVE  HostType' /\ RequestType' /\ HandlersFit'
  <2>1. tx[r].job.src[n] \in Contents \cup {Absent}
    BY <1>1, Locals DEF Sources
  <2>2. HostType'
    BY <1>1, <1>4, <2>1, Locals, InstallQuadletType DEF TypeOK
  <2>3. CASE Abort(r)
    BY <1>1, <1>2, <2>2, <2>3, StoreSameType, AbortedHere
  <2>4. CASE Advance(r, n) /\ Keep(r, [tx[r] EXCEPT !.installed = @ \cup {n}])
    <3> DEFINE t == [tx[r] EXCEPT !.installed = @ \cup {n}]
    <3>1. t \in Handler /\ t.job = tx[r].job /\ t.prev = tx[r].prev
      BY <1>1, Locals DEF Handler
    <3> HIDE DEF t
    <3>2. Go(r, "installNew", todo[r] \ {n}) /\ Keep(r, t)
      BY <1>1, <2>4 DEF Advance, t
    <3> QED BY <1>1, <1>2, <1>3, <2>2, <3>1, <3>2, Locals, StoreSameType, Passed
  <2> QED BY <1>4, <2>3, <2>4
<1>5. ASSUME Go(r, "reload", {}), HostSame, UNCHANGED tx
      PROVE  HostType' /\ RequestType' /\ HandlersFit'
  BY <1>1, <1>2, <1>3, <1>5, HostSameType, StoreSameType, PassedOn
<1> QED
  BY <1>2, <1>4, <1>5, StoreSameType DEF InstallNew, TypeOK

LEMMA ReloadUnitsType ==
    ASSUME TypeOK, NEW r \in Requests, ReloadUnits(r)
    PROVE  TypeOK'
<1>1. Working(r) /\ StoreSame
  BY DEF ReloadUnits, Leave, Working
<1>2. Follows(r, IF Op(r) = "remove" THEN "save" ELSE "list")
  BY DEF Follows, Stages
<1>3. PICK err \in BOOLEAN :
         /\ Reload(Alive(r), err)
         /\ IF err THEN Abort(r)
            ELSE Go(r, IF Op(r) = "remove" THEN "save" ELSE "list", {}) /\ UNCHANGED tx
  BY DEF ReloadUnits
<1>4. HostType'
  BY <1>1, <1>3, Locals, ReloadType DEF TypeOK
<1>5. CASE Abort(r)
  BY <1>1, <1>4, <1>5, StoreSameType, AbortedHere DEF TypeOK
<1>6. CASE Go(r, IF Op(r) = "remove" THEN "save" ELSE "list", {}) /\ UNCHANGED tx
  BY <1>1, <1>2, <1>4, <1>6, StoreSameType, PassedOn DEF TypeOK
<1> QED
  BY <1>3, <1>5, <1>6

LEMMA ListGeneratedType ==
    ASSUME TypeOK, NEW r \in Requests, Working(r), NEW stage, NEW next, Follows(r, next),
           NEW S \in SUBSET Names, ListGenerated(r, stage, next, S)
    PROVE  TypeOK'
<1>1. StoreSame
  BY DEF ListGenerated
<1>2. PICK err \in BOOLEAN :
         /\ ListQuadlets(Alive(r), err)
         /\ IF err THEN Abort(r)
            ELSE Go(r, next, S) /\ Keep(r, [tx[r] EXCEPT !.listed = NamesOf(files)])
  BY DEF ListGenerated
<1>3. HostType'
  BY <1>2, HostAssumption DEF TypeOK, HostType, ListQuadlets, Answer, Fault, units
<1>4. CASE Abort(r)
  BY <1>1, <1>3, <1>4, StoreSameType, AbortedHere DEF TypeOK
<1>5. CASE Go(r, next, S) /\ Keep(r, [tx[r] EXCEPT !.listed = NamesOf(files)])
  <2> DEFINE t == [tx[r] EXCEPT !.listed = NamesOf(files)]
  <2>1. t \in Handler /\ t.job = tx[r].job /\ t.prev = tx[r].prev
    BY Locals, NamesOfType DEF Handler
  <2> HIDE DEF t
  <2>2. Keep(r, t)
    BY <1>5 DEF t
  <2> QED BY <1>1, <1>3, <1>5, <2>1, <2>2, StoreSameType, Passed DEF TypeOK
<1> QED
  BY <1>2, <1>4, <1>5

LEMMA FindUnitsType ==
    ASSUME TypeOK, NEW r \in Requests, FindUnits(r)
    PROVE  TypeOK'
<1>1. Working(r) /\ Follows(r, "start")
  BY DEF FindUnits, ListGenerated, Leave, Working, Follows, Stages
<1>2. (NamesOf(tx[r].job.src) \cap StartNames) \in SUBSET Names
  BY NamesOfType
<1> QED
  BY <1>1, <1>2, ListGeneratedType DEF FindUnits

LEMMA RelistType ==
    ASSUME TypeOK, NEW r \in Requests, Relist(r)
    PROVE  TypeOK'
<1>1. Working(r) /\ Follows(r, "capture")
  BY DEF Relist, ListGenerated, Leave, Working, Follows, Stages
<1> QED
  BY <1>1, NamesOfType, ListGeneratedType DEF Relist

LEMMA StartUnitType ==
    ASSUME TypeOK, NEW r \in Requests, StartUnit(r)
    PROVE  TypeOK'
<1>1. Working(r) /\ pc[r] = "start"
  BY DEF StartUnit, Visit, Leave, Working
<1>2. StoreSame
  BY DEF StartUnit
<1>3. Follows(r, "verify") /\ Follows(r, "relist")
  BY DEF Follows, Stages
<1>4. ASSUME NEW n \in Names, NEW err \in BOOLEAN,
             IF Op(r) = "install" THEN Start(Alive(r), n, err) ELSE Restart(Alive(r), n, err),
             LET t == [tx[r] EXCEPT !.started = @ \cup {n}] IN
             IF err THEN AbortTo(r, t) ELSE Go(r, "verify", todo[r]) /\ Keep(r, t)
      PROVE  HostType' /\ RequestType' /\ HandlersFit'
  <2> DEFINE t == [tx[r] EXCEPT !.started = @ \cup {n}]
  <2>1. HostType'
    BY <1>1, <1>4, Locals, UnitJobType DEF TypeOK
  <2>2. t \in Handler /\ t.job = tx[r].job /\ t.prev = tx[r].prev
    BY <1>1, Locals DEF Handler
  <2>3. AbortTo(r, t) \/ (Go(r, "verify", todo[r]) /\ Keep(r, t))
    BY <1>4
  <2> HIDE DEF t
  <2>4. CASE AbortTo(r, t)
    BY <1>1, <1>2, <2>1, <2>2, <2>4, StoreSameType, Aborted
  <2>5. CASE Go(r, "verify", todo[r]) /\ Keep(r, t)
    BY <1>1, <1>2, <1>3, <2>1, <2>2, <2>5, Locals, StoreSameType, Passed
  <2> QED BY <2>3, <2>4, <2>5
<1>5. ASSUME Abort(r), HostSame
      PROVE  HostType' /\ RequestType' /\ HandlersFit'
  BY <1>1, <1>2, <1>5, HostSameType, StoreSameType, AbortedHere
<1>6. ASSUME Go(r, "relist", {}), HostSame, UNCHANGED tx
      PROVE  HostType' /\ RequestType' /\ HandlersFit'
  BY <1>1, <1>2, <1>3, <1>6, HostSameType, StoreSameType, PassedOn
<1> QED
  BY <1>2, <1>4, <1>5, <1>6, StoreSameType DEF StartUnit, TypeOK

LEMMA VerifyUnitType ==
    ASSUME TypeOK, NEW r \in Requests, VerifyUnit(r)
    PROVE  TypeOK'
<1>1. Working(r) /\ StoreSame /\ Follows(r, "start")
  BY DEF VerifyUnit, Visit, Working, Follows, Stages
<1>2. PICK n \in Names, err \in BOOLEAN :
         /\ Verify(Alive(r), n, err)
         /\ IF err THEN Abort(r) ELSE Go(r, "start", todo[r] \ {n}) /\ UNCHANGED tx
  BY DEF VerifyUnit
<1>3. HostType'
  BY <1>1, <1>2, Locals, ReadType DEF TypeOK
<1>4. CASE Abort(r)
  BY <1>1, <1>3, <1>4, StoreSameType, AbortedHere DEF TypeOK
<1>5. CASE Go(r, "start", todo[r] \ {n}) /\ UNCHANGED tx
  BY <1>1, <1>3, <1>5, Locals, StoreSameType, PassedOn DEF TypeOK
<1> QED
  BY <1>2, <1>4, <1>5

LEMMA CaptureType ==
    ASSUME TypeOK, NEW r \in Requests, Capture(r)
    PROVE  TypeOK'
<1>1. Working(r) /\ pc[r] = "capture"
  BY DEF Capture, Visit, Leave, Working
<1>2. StoreSame
  BY DEF Capture
<1>3. Follows(r, "capture") /\ Follows(r, "save")
  BY DEF Follows, Stages
<1>4. ASSUME NEW n \in Names, NEW err \in BOOLEAN, GetQuadlet(Alive(r), n, err),
             IF err THEN Abort(r)
             ELSE Advance(r, n) /\ Keep(r, [tx[r] EXCEPT !.seen[n] = files[n]])
      PROVE  HostType' /\ RequestType' /\ HandlersFit'
  <2>1. HostType'
    BY <1>1, <1>4, Locals, ReadType DEF TypeOK
  <2>2. CASE Abort(r)
    BY <1>1, <1>2, <2>1, <2>2, StoreSameType, AbortedHere
  <2>3. CASE Advance(r, n) /\ Keep(r, [tx[r] EXCEPT !.seen[n] = files[n]])
    <3> DEFINE t == [tx[r] EXCEPT !.seen[n] = files[n]]
    <3>1. t \in Handler /\ t.job = tx[r].job /\ t.prev = tx[r].prev
      BY <1>1, Locals DEF Handler, Sources, TypeOK, HostType
    <3> HIDE DEF t
    <3>2. Go(r, "capture", todo[r] \ {n}) /\ Keep(r, t)
      BY <1>1, <2>3 DEF Advance, t
    <3> QED BY <1>1, <1>2, <1>3, <2>1, <3>1, <3>2, Locals, StoreSameType, Passed
  <2> QED BY <1>4, <2>2, <2>3
<1>5. ASSUME Go(r, "save", {}), HostSame, UNCHANGED tx
      PROVE  HostType' /\ RequestType' /\ HandlersFit'
  BY <1>1, <1>2, <1>3, <1>5, HostSameType, StoreSameType, PassedOn
<1> QED
  BY <1>2, <1>4, <1>5, StoreSameType DEF Capture, TypeOK

(* What is recorded, in the store or in a document, is a record.                *)
LEMMA NewRecordType ==
    ASSUME TypeOK, NEW r \in Requests, Working(r)
    PROVE  NewRecord(tx[r]) \in Record
<1>1. CASE Op(r) = "remove"
  BY <1>1, Locals DEF NewRecord, Op, Record
<1>2. CASE Op(r) # "remove"
  <2>1. tx[r].seen \in Sources
    BY Locals DEF Handler
  <2>2. (NamesOf(tx[r].seen) \cap tx[r].listed) \in SUBSET Names
    BY NamesOfType
  <2> QED BY <1>2, <2>1, <2>2 DEF NewRecord, Op, Record
<1> QED
  BY <1>1, <1>2

(* The end of a handler that stores, or fails to.                               *)
LEMMA UnrecordedType ==
    ASSUME TypeOK, Kept, NEW r \in Requests, Working(r), Unrecorded(r)
    PROVE  RequestType' /\ HandlersFit' /\ suspect' \subseteq Instances
<1>1. RequestType' /\ HandlersFit'
  BY Replied DEF Unrecorded, Working, Answers
<1> QED
  BY <1>1, Locals DEF Unrecorded, TypeOK

LEMMA AnswerHostType ==
    ASSUME TypeOK, NEW err \in BOOLEAN, Answer(TRUE, err), UNCHANGED <<files, units>>
    PROVE  HostType'
BY HostAssumption DEF TypeOK, HostType, Answer, Fault, units

LEMMA SaveInstanceType ==
    ASSUME TypeOK, NEW r \in Requests, SaveInstance(r)
    PROVE  TypeOK'
<1>1. Working(r) /\ Follows(r, "manifest") /\ UNCHANGED <<files, units, plans, docs, envVars>>
  BY DEF SaveInstance, Leave, Working, Follows, Stages
<1>2. PICK err \in BOOLEAN :
         /\ Answer(TRUE, err)
         /\ IF err THEN Unrecorded(r) /\ UNCHANGED instances
            ELSE /\ instances' = [instances EXCEPT ![Inst(r)] = NewRecord(tx[r])]
                 /\ Go(r, "manifest", {}) /\ UNCHANGED <<tx, suspect>>
  BY DEF SaveInstance
<1>3. HostType' /\ edits' \in Nat /\ crashes' \in Nat
  BY <1>1, <1>2, AnswerHostType DEF envVars, TypeOK
<1>4. NewRecord(tx[r]) \in Record
  BY <1>1, NewRecordType
<1>5. StoreType'
  BY <1>1, <1>2, <1>4 DEF TypeOK, StoreType
<1>6. Kept
  BY <1>2, <1>4, NoRecordAssumption DEF Kept, TypeOK, StoreType
<1>7. RequestType' /\ HandlersFit' /\ suspect' \subseteq Instances
  <2>1. CASE Unrecorded(r)
    BY <1>1, <1>6, <2>1, UnrecordedType
  <2>2. CASE Go(r, "manifest", {}) /\ UNCHANGED <<tx, suspect>>
    BY <1>1, <1>6, <2>2, PassedOn DEF TypeOK
  <2> QED BY <1>2, <2>1, <2>2
<1> QED
  BY <1>3, <1>5, <1>7 DEF TypeOK

LEMMA WriteManifestType ==
    ASSUME TypeOK, NEW r \in Requests, WriteManifest(r)
    PROVE  TypeOK'
<1>1. /\ Working(r) /\ Follows(r, "readme")
      /\ UNCHANGED <<files, units, instances, plans, envVars>>
  BY DEF WriteManifest, Leave, Working, Follows, Stages
<1>2. PICK err \in BOOLEAN :
         /\ Answer(TRUE, err)
         /\ IF err THEN Unrecorded(r) /\ UNCHANGED docs
            ELSE /\ docs' = [docs EXCEPT ![Inst(r)].manifest = NewRecord(tx[r])]
                 /\ Go(r, "readme", {}) /\ UNCHANGED <<tx, suspect>>
  BY DEF WriteManifest
<1>3. HostType' /\ edits' \in Nat /\ crashes' \in Nat
  BY <1>1, <1>2, AnswerHostType DEF envVars, TypeOK
<1>4. NewRecord(tx[r]) \in Record
  BY <1>1, NewRecordType
<1>5. StoreType' /\ Kept
  BY <1>1, <1>2, <1>4 DEF TypeOK, StoreType, Kept
<1>6. RequestType' /\ HandlersFit' /\ suspect' \subseteq Instances
  <2>1. CASE Unrecorded(r)
    BY <1>1, <1>5, <2>1, UnrecordedType
  <2>2. CASE Go(r, "readme", {}) /\ UNCHANGED <<tx, suspect>>
    BY <1>1, <1>5, <2>2, PassedOn DEF TypeOK
  <2> QED BY <1>2, <2>1, <2>2
<1> QED
  BY <1>3, <1>5, <1>6 DEF TypeOK

LEMMA WriteReadmeType ==
    ASSUME TypeOK, NEW r \in Requests, WriteReadme(r)
    PROVE  TypeOK'
<1>1. Working(r) /\ UNCHANGED <<files, units, instances, envVars>>
  BY DEF WriteReadme, Leave, Working
<1>2. Kept /\ edits' \in Nat /\ crashes' \in Nat
  BY <1>1 DEF Kept, envVars, TypeOK
<1>3. CASE Answer(TRUE, TRUE) /\ Unrecorded(r) /\ UNCHANGED <<docs, plans>>
  <2>1. HostType'
    BY <1>1, <1>3, AnswerHostType
  <2>2. StoreType'
    BY <1>1, <1>3 DEF TypeOK, StoreType
  <2> QED BY <1>1, <1>2, <1>3, <2>1, <2>2, UnrecordedType DEF TypeOK
<1>4. CASE /\ docs' = [docs EXCEPT ![Inst(r)].readme = NewRecord(tx[r])]
           /\ Reply(r, "succeeded") /\ UNCHANGED suspect
           /\ \E err \in BOOLEAN :
                /\ Answer(TRUE, err)
                /\ plans' = IF err THEN plans ELSE [plans EXCEPT ![tx[r].id] = NoPlan]
  <2>1. PICK err \in BOOLEAN :
           Answer(TRUE, err) /\ plans' = IF err THEN plans ELSE [plans EXCEPT ![tx[r].id] = NoPlan]
    BY <1>4
  <2>2. HostType'
    BY <1>1, <2>1, AnswerHostType
  <2>3. NewRecord(tx[r]) \in Record
    BY <1>1, NewRecordType
  <2>4. plans' \in [PlanIds -> Plan \cup {NoPlan}]
    BY <2>1 DEF TypeOK, StoreType
  <2>5. docs' \in [Instances -> [manifest : Record \cup {NoRecord}, readme : Record \cup {NoRecord}]]
    <3> DEFINE pair == [manifest : Record \cup {NoRecord}, readme : Record \cup {NoRecord}]
               written == [docs[Inst(r)] EXCEPT !.readme = NewRecord(tx[r])]
    <3>1. docs \in [Instances -> pair] /\ docs[Inst(r)] \in pair
      BY <1>1, Locals DEF TypeOK, StoreType
    <3>2. written \in pair
      BY <2>3, <3>1
    <3>3. docs' = [docs EXCEPT ![Inst(r)] = written]
      BY <1>4
    <3> HIDE DEF pair, written
    <3>4. docs' \in [Instances -> pair]
      BY <3>1, <3>2, <3>3
    <3> QED BY <3>4 DEF pair
  <2>6. StoreType'
    BY <1>1, <2>4, <2>5 DEF TypeOK, StoreType
  <2>7. RequestType' /\ HandlersFit'
    BY <1>1, <1>2, <1>4, Replied DEF Working, Answers
  <2> QED BY <1>2, <1>4, <2>2, <2>6, <2>7 DEF TypeOK
<1> QED
  BY <1>3, <1>4 DEF WriteReadme

LEMMA EndRollbackType ==
    ASSUME TypeOK, Kept, NEW r \in Requests, Working(r), NEW failed \in BOOLEAN,
           EndRollback(r, failed)
    PROVE  RequestType' /\ HandlersFit' /\ suspect' \subseteq Instances
<1>1. RequestType' /\ HandlersFit'
  BY Replied DEF EndRollback, Working, Answers
<1> QED
  BY <1>1, Locals DEF EndRollback, TypeOK

LEMMA UndoStopType ==
    ASSUME TypeOK, NEW r \in Requests, UndoStop(r)
    PROVE  TypeOK'
<1>1. Working(r) /\ pc[r] = "undoStop"
  BY DEF UndoStop, VisitBack, Leave, Working
<1>2. StoreSame /\ Follows(r, "undoStop") /\ Follows(r, "undoInstall")
  BY DEF UndoStop, Follows, Stages
<1>3. ASSUME NEW n \in Names, NEW err \in BOOLEAN, Stop(Alive(r), n, err),
             Advance(r, n), RollbackError(r, err)
      PROVE  HostType' /\ RequestType' /\ HandlersFit'
  <2>1. HostType'
    BY <1>1, <1>3, Locals, UnitJobType DEF TypeOK
  <2> QED BY <1>1, <1>2, <1>3, <2>1, Locals, StoreSameType, RolledOn DEF Advance
<1>4. ASSUME Go(r, "undoInstall", tx[r].installed), HostSame, UNCHANGED tx
      PROVE  HostType' /\ RequestType' /\ HandlersFit'
  <2>1. tx[r].installed \in SUBSET Names
    BY <1>1, Locals DEF Handler
  <2> QED BY <1>1, <1>2, <1>4, <2>1, HostSameType, StoreSameType, PassedOn
<1> QED
  BY <1>2, <1>3, <1>4, StoreSameType DEF UndoStop, TypeOK

LEMMA UndoInstallType ==
    ASSUME TypeOK, NEW r \in Requests, UndoInstall(r)
    PROVE  TypeOK'
<1>1. Working(r) /\ pc[r] = "undoInstall" /\ StoreSame
  BY DEF UndoInstall, VisitBack, Leave, Working
<1>2. \A stage \in {"undoInstall", "undoReload", "reinstall"} : Follows(r, stage)
  BY DEF Follows, Stages
<1>3. ASSUME NEW n \in Names, NEW err \in BOOLEAN,
             RemoveQuadlet(Alive(r), n, Op(r) = "install", err),
             Advance(r, n), RollbackError(r, err)
      PROVE  HostType' /\ RequestType' /\ HandlersFit'
  <2>1. HostType'
    BY <1>1, <1>3, Locals, RemoveQuadletType DEF TypeOK
  <2> QED BY <1>1, <1>2, <1>3, <2>1, Locals, StoreSameType, RolledOn DEF Advance
<1>4. ASSUME IF Op(r) = "install" THEN Go(r, "undoReload", {})
                                  ELSE Go(r, "reinstall", NamesOf(tx[r].old)),
             HostSame, UNCHANGED tx
      PROVE  HostType' /\ RequestType' /\ HandlersFit'
  <2>1. CASE Go(r, "undoReload", {})
    BY <1>1, <1>2, <1>4, <2>1, HostSameType, StoreSameType, PassedOn
  <2>2. CASE Go(r, "reinstall", NamesOf(tx[r].old))
    BY <1>1, <1>2, <1>4, <2>2, HostSameType, StoreSameType, PassedOn, NamesOfType
  <2> QED BY <1>4, <2>1, <2>2
<1> QED
  BY <1>1, <1>3, <1>4, StoreSameType DEF UndoInstall, TypeOK

LEMMA ReinstallType ==
    ASSUME TypeOK, NEW r \in Requests, Reinstall(r)
    PROVE  TypeOK'
<1>1. Working(r) /\ pc[r] = "reinstall" /\ StoreSame
  BY DEF Reinstall, Visit, Leave, Working
<1>2. Follows(r, "reinstall") /\ Follows(r, "undoReload")
  BY DEF Follows, Stages
<1>3. ASSUME NEW n \in Names, NEW err \in BOOLEAN,
             InstallQuadlet(Alive(r), n, tx[r].old[n], err),
             Advance(r, n), RollbackError(r, err)
      PROVE  HostType' /\ RequestType' /\ HandlersFit'
  <2>1. tx[r].old[n] \in Contents \cup {Absent}
    BY <1>1, Locals DEF Handler, Sources
  <2>2. HostType'
    BY <1>1, <1>3, <2>1, Locals, InstallQuadletType DEF TypeOK
  <2> QED BY <1>1, <1>2, <1>3, <2>2, Locals, StoreSameType, RolledOn DEF Advance
<1>4. ASSUME Go(r, "undoReload", {}), HostSame, UNCHANGED tx
      PROVE  HostType' /\ RequestType' /\ HandlersFit'
  BY <1>1, <1>2, <1>4, HostSameType, StoreSameType, PassedOn
<1> QED
  BY <1>1, <1>3, <1>4, StoreSameType DEF Reinstall, TypeOK

LEMMA UndoReloadType ==
    ASSUME TypeOK, NEW r \in Requests, UndoReload(r)
    PROVE  TypeOK'
<1>1. Working(r) /\ pc[r] = "undoReload" /\ UNCHANGED <<storeVars, envVars>>
  BY DEF UndoReload, Leave, Working
<1>2. Follows(r, "undoStart") /\ Kept /\ StoreType' /\ edits' \in Nat /\ crashes' \in Nat
  BY <1>1 DEF Follows, Stages, Kept, TypeOK, StoreType, storeVars, envVars
<1>3. PICK err \in BOOLEAN :
         /\ Reload(Alive(r), err)
         /\ IF Op(r) = "install" THEN EndRollback(r, err)
            ELSE /\ Go(r, "undoStart", tx[r].prev.units)
                 /\ RollbackError(r, err) /\ UNCHANGED suspect
  BY DEF UndoReload
<1>4. HostType'
  BY <1>1, <1>3, Locals, ReloadType DEF TypeOK
<1>5. RequestType' /\ HandlersFit' /\ suspect' \subseteq Instances
  <2>1. CASE Op(r) = "install"
    BY <1>1, <1>2, <1>3, <2>1, EndRollbackType
  <2>2. CASE Op(r) # "install"
    <3>1. tx[r].prev.units \in SUBSET Names
      BY <1>1, <2>2, Locals DEF PlanOps, Record
    <3>2. RequestType' /\ HandlersFit'
      BY <1>1, <1>2, <1>3, <2>2, <3>1, RolledOn
    <3> QED BY <1>3, <2>2, <3>2 DEF TypeOK
  <2> QED BY <2>1, <2>2
<1> QED
  BY <1>2, <1>4, <1>5 DEF TypeOK

LEMMA UndoStartType ==
    ASSUME TypeOK, NEW r \in Requests, UndoStart(r)
    PROVE  TypeOK'
<1>1. Working(r) /\ pc[r] = "undoStart" /\ UNCHANGED <<storeVars, envVars>>
  BY DEF UndoStart, Visit, Leave, Working
<1>2. /\ Follows(r, "undoStart") /\ Follows(r, "undoVerify")
      /\ Kept /\ StoreType' /\ edits' \in Nat /\ crashes' \in Nat
  BY <1>1 DEF Follows, Stages, Kept, TypeOK, StoreType, storeVars, envVars
<1>3. ASSUME NEW n \in Names, NEW err \in BOOLEAN,
             IF Op(r) = "remove" THEN Start(Alive(r), n, err) ELSE Restart(Alive(r), n, err),
             RollbackError(r, err),
             IF err THEN Advance(r, n) ELSE Go(r, "undoVerify", todo[r]),
             UNCHANGED suspect
      PROVE  HostType' /\ RequestType' /\ HandlersFit' /\ suspect' \subseteq Instances
  <2>1. HostType'
    BY <1>1, <1>3, Locals, UnitJobType DEF TypeOK
  <2>2. CASE Advance(r, n)
    BY <1>1, <1>2, <1>3, <2>1, <2>2, Locals, RolledOn DEF Advance, TypeOK
  <2>3. CASE Go(r, "undoVerify", todo[r])
    BY <1>1, <1>2, <1>3, <2>1, <2>3, Locals, RolledOn DEF TypeOK
  <2> QED BY <1>3, <2>2, <2>3
<1>4. ASSUME EndRollback(r, FALSE), HostSame
      PROVE  HostType' /\ RequestType' /\ HandlersFit' /\ suspect' \subseteq Instances
  BY <1>1, <1>2, <1>4, HostSameType, EndRollbackType
<1> QED
  BY <1>2, <1>3, <1>4 DEF UndoStart, TypeOK

LEMMA UndoVerifyType ==
    ASSUME TypeOK, NEW r \in Requests, UndoVerify(r)
    PROVE  TypeOK'
<1>1. Working(r) /\ StoreSame /\ Follows(r, "undoStart")
  BY DEF UndoVerify, Visit, Working, Follows, Stages
<1>2. PICK n \in Names, err \in BOOLEAN :
         /\ Verify(Alive(r), n, err)
         /\ RollbackError(r, err) /\ Go(r, "undoStart", todo[r] \ {n})
  BY DEF UndoVerify
<1>3. HostType'
  BY <1>1, <1>2, Locals, ReadType DEF TypeOK
<1> QED
  BY <1>1, <1>2, <1>3, Locals, StoreSameType, RolledOn DEF TypeOK

LEMMA LifecycleStepType ==
    ASSUME TypeOK, NEW r \in Requests, LifecycleStep(r)
    PROVE  TypeOK'
<1>1. pc[r] = "lifecycle" /\ StoreSame
  BY DEF LifecycleStep, Visit, Leave
<1>2. /\ tx[r] \in Handler /\ todo[r] \in SUBSET Names /\ Alive(r) \in BOOLEAN
      /\ Fits("lifecycle", tx[r], instances)
  BY <1>1 DEF TypeOK, RequestType, HandlersFit, Alive, Handler
<1>3. Fits("lifecycle", tx[r], instances')
  BY <1>1, <1>2, StoreSameType
<1>4. ASSUME NEW n \in Names, NEW err \in BOOLEAN,
             Start(Alive(r), n, err) \/ Stop(Alive(r), n, err) \/ Restart(Alive(r), n, err),
             IF err THEN Reply(r, "failed") ELSE Advance(r, n) /\ UNCHANGED tx
      PROVE  HostType' /\ RequestType' /\ HandlersFit'
  <2>1. HostType'
    BY <1>2, <1>4, UnitJobType DEF TypeOK
  <2>2. CASE Reply(r, "failed")
    BY <1>1, <2>1, <2>2, StoreSameType, Replied DEF Answers
  <2>3. CASE Advance(r, n) /\ UNCHANGED tx
    BY <1>1, <1>2, <1>3, <2>1, <2>3, StoreSameType, Stayed DEF Advance, Stages
  <2> QED BY <1>4, <2>2, <2>3
<1>5. ASSUME Reply(r, "succeeded"), HostSame
      PROVE  HostType' /\ RequestType' /\ HandlersFit'
  BY <1>1, <1>5, HostSameType, StoreSameType, Replied DEF Answers
<1> QED
  BY <1>1, <1>4, <1>5, StoreSameType DEF LifecycleStep, TypeOK

--------------------------------------------------------------------------------
(* Plans, the beginning of a handler, and the environment.                      *)

LEMMA BlankType == Blank \in Handler /\ NothingOn \in Sources
BY DEF Blank, Handler, NothingOn, Sources, Answers

LEMMA RenderedType ==
    ASSUME NEW i \in Instances, NEW v \in Versions
    PROVE  Rendered(i, v) \in Sources
BY DEF Rendered, Sources, Contents

LEMMA CreatePlanType ==
    ASSUME TypeOK, NEW id \in PlanIds, NEW op \in Ops, NEW i \in Instances, NEW v \in Versions,
           NEW misread \in BOOLEAN, CreatePlan(id, op, i, v, misread)
    PROVE  TypeOK'
<1> DEFINE compared == op # "install" /\ Live(i)
           p == [op |-> op, inst |-> i,
                 src |-> IF op = "remove" THEN NothingOn ELSE Rendered(i, v),
                 drift |-> compared /\ (misread \/ Drifted(i)), valid |-> TRUE]
<1>1. /\ UNCHANGED <<files, units, requestVars, instances, docs, envVars, suspect>>
      /\ Answer(TRUE, misread) /\ plans' = [plans EXCEPT ![id] = p] /\ op \in PlanOps
  BY DEF CreatePlan
<1>2. HostType'
  BY <1>1, AnswerHostType
<1>3. p \in Plan
  BY <1>1, BlankType, RenderedType DEF Plan
<1> HIDE DEF p
<1>4. StoreType'
  BY <1>1, <1>3 DEF TypeOK, StoreType
<1>5. RequestType' /\ HandlersFit'
  BY <1>1 DEF TypeOK, RequestType, HandlersFit, requestVars, Fits
<1> QED
  BY <1>1, <1>2, <1>4, <1>5 DEF TypeOK, envVars

LEMMA SpoilPlanType ==
    ASSUME TypeOK, NEW id \in PlanIds, SpoilPlan(id)
    PROVE  TypeOK'
<1>1. /\ HostSame /\ UNCHANGED <<requestVars, instances, docs, envVars, suspect>>
      /\ plans' = [plans EXCEPT ![id].valid = FALSE] /\ plans[id] \in Plan
  BY DEF SpoilPlan, Runnable, TypeOK, StoreType
<1>2. [plans[id] EXCEPT !.valid = FALSE] \in Plan
  BY <1>1 DEF Plan
<1>3. StoreType'
  BY <1>1, <1>2 DEF TypeOK, StoreType
<1>4. RequestType' /\ HandlersFit'
  BY <1>1 DEF TypeOK, RequestType, HandlersFit, requestVars, Fits
<1> QED
  BY <1>1, <1>3, <1>4, HostSameType DEF TypeOK, envVars

LEMMA ExecutePlanType ==
    ASSUME TypeOK, NEW r \in Requests, NEW id \in PlanIds, ExecutePlan(r, id)
    PROVE  TypeOK'
<1> DEFINE p == plans[id]
           t == [Blank EXCEPT !.id = id, !.job = p,
                              !.prev = IF p.op = "install" THEN NoRecord ELSE instances[p.inst]]
<1>1. StoreSame /\ HostSame
  BY DEF ExecutePlan
<1>2. p \in Plan /\ p \in Job /\ p.op \in PlanOps /\ p.inst \in Instances
  BY DEF ExecutePlan, TypeOK, StoreType, Plan, Job
<1>3. /\ t \in Handler /\ t.job = p
      /\ t.prev = IF p.op = "install" THEN NoRecord ELSE instances[p.inst]
  <2>1. (IF p.op = "install" THEN NoRecord ELSE instances[p.inst]) \in Record \cup {NoRecord}
    BY <1>2 DEF TypeOK, StoreType
  <2> QED BY <1>2, <2>1, BlankType DEF Handler, Blank
<1>4. CASE Go(r, "done", {}) /\ Keep(r, [t EXCEPT !.answer = "refused"])
  <2> DEFINE u == [t EXCEPT !.answer = "refused"]
  <2>1. u \in Handler /\ u.job = p
    BY <1>3 DEF Handler, Answers
  <2>2. Keep(r, u)
    BY <1>4
  <2>3. Fits("done", u, instances')
    BY <1>2, <2>1 DEF Fits
  <2> HIDE DEF u
  <2> QED BY <1>1, <1>4, <2>1, <2>2, <2>3, HostSameType, StoreSameType, Moved DEF TypeOK, Stages
<1>5. CASE p.op = "install" /\ Go(r, "load", {}) /\ Keep(r, t)
  <2>1. Fits("load", t, instances')
    BY <1>2, <1>3, <1>5 DEF Fits
  <2> HIDE DEF t
  <2> QED BY <1>1, <1>3, <1>5, <2>1, HostSameType, StoreSameType, Moved DEF TypeOK, Stages
<1>6. CASE ~Refuses(p) /\ p.op # "install"
           /\ Go(r, "check", NamesOf(t.prev.src)) /\ Keep(r, t)
  <2>1. instances[p.inst] \in Record /\ t.prev = instances[p.inst]
    BY <1>2, <1>3, <1>6 DEF Refuses, Managed, TypeOK, StoreType
  <2>2. Fits("check", t, instances')
    BY <1>1, <1>2, <1>3, <1>6, <2>1, StoreSameType, NoRecordAssumption DEF Fits, PlanOps
  <2> HIDE DEF t
  <2> QED BY <1>1, <1>3, <1>6, <2>2, HostSameType, StoreSameType, Moved, NamesOfType DEF TypeOK, Stages
<1> QED
  BY <1>4, <1>5, <1>6 DEF ExecutePlan

LEMMA LifecycleType ==
    ASSUME TypeOK, NEW r \in Requests, NEW i \in Instances, NEW action \in Ops,
           Lifecycle(r, i, action)
    PROVE  TypeOK'
<1> DEFINE job == [op |-> action, inst |-> i, src |-> NothingOn, drift |-> FALSE, valid |-> TRUE]
           t == [Blank EXCEPT !.job = job]
<1>1. StoreSame /\ HostSame /\ action \in LifecycleOps
  BY DEF Lifecycle
<1>2. job \in Job /\ job.op = action
  BY <1>1, BlankType DEF Job
<1>3. t \in Handler /\ t.job = job
  BY <1>2, BlankType DEF Handler, Blank
<1>4. CASE Live(i) /\ Go(r, "lifecycle", instances[i].units) /\ Keep(r, t)
  <2>1. instances[i].units \in SUBSET Names
    BY <1>4 DEF Live, Managed, TypeOK, StoreType, Record
  <2>2. Fits("lifecycle", t, instances')
    BY <1>1, <1>2, <1>3 DEF Fits, LifecycleOps
  <2> HIDE DEF t
  <2> QED BY <1>1, <1>3, <1>4, <2>1, <2>2, HostSameType, StoreSameType, Moved DEF TypeOK, Stages
<1>5. CASE Go(r, "done", {}) /\ Keep(r, [t EXCEPT !.answer = "refused"])
  <2> DEFINE u == [t EXCEPT !.answer = "refused"]
  <2>1. u \in Handler /\ u.job = job
    BY <1>3 DEF Handler, Answers
  <2>2. Keep(r, u)
    BY <1>5
  <2>3. Fits("done", u, instances')
    BY <1>2, <2>1 DEF Fits
  <2> HIDE DEF u
  <2> QED BY <1>1, <1>5, <2>1, <2>2, <2>3, HostSameType, StoreSameType, Moved DEF TypeOK, Stages
<1> QED
  BY <1>4, <1>5 DEF Lifecycle

LEMMA AnsweredType ==
    ASSUME TypeOK, NEW r \in Requests, Answered(r)
    PROVE  TypeOK'
<1>1. Go(r, "idle", {}) /\ Keep(r, Blank) /\ HostSame /\ StoreSame
  BY DEF Answered
<1>2. Fits("idle", Blank, instances')
  BY DEF Fits
<1> QED
  BY <1>1, <1>2, BlankType, HostSameType, StoreSameType, Moved DEF TypeOK, Stages

LEMMA HangUpType ==
    ASSUME TypeOK, NEW r \in Requests, HangUp(r)
    PROVE  TypeOK'
<1> DEFINE t == [tx[r] EXCEPT !.alive = FALSE]
<1>1. Keep(r, t) /\ HostSame /\ StoreSame /\ UNCHANGED <<pc, todo>>
  BY DEF HangUp
<1>2. /\ tx[r] \in Handler /\ pc[r] \in Stages /\ todo[r] \in SUBSET Names
      /\ Fits(pc[r], tx[r], instances)
  BY DEF TypeOK, RequestType, HandlersFit
<1>3. t \in Handler /\ t.job = tx[r].job /\ t.prev = tx[r].prev
  BY <1>2 DEF Handler
<1>4. Go(r, pc[r], todo[r])
  BY <1>1 DEF Go, TypeOK, RequestType
<1> HIDE DEF t
<1>5. Fits(pc[r], t, instances')
  BY <1>1, <1>2, <1>3, StoreSameType DEF Fits
<1> QED
  BY <1>1, <1>2, <1>3, <1>4, <1>5, HostSameType, StoreSameType, Moved DEF TypeOK

LEMMA AgentRestartType ==
    ASSUME TypeOK, AgentRestart
    PROVE  TypeOK'
<1>1. /\ HostSame /\ UNCHANGED <<storeVars, edits>> /\ crashes' = crashes + 1
      /\ pc' = [r \in Requests |-> "idle"] /\ todo' = [r \in Requests |-> {}]
      /\ tx' = [r \in Requests |-> Blank]
  BY DEF AgentRestart
<1>2. RequestType' /\ HandlersFit'
  BY <1>1, BlankType DEF RequestType, HandlersFit, Fits, Stages
<1>3. StoreType' /\ edits' \in Nat /\ crashes' \in Nat
  BY <1>1 DEF TypeOK, StoreType, storeVars
<1>4. suspect' \subseteq Instances
  <2>1. ASSUME NEW r \in Requests, Active(r) /\ pc[r] \notin Reading \cup {"lifecycle"}
        PROVE  Inst(r) \in Instances
    BY <2>1, Locals DEF Active, Working
  <2> QED BY <2>1 DEF AgentRestart, TypeOK
<1> QED
  BY <1>1, <1>2, <1>3, <1>4, HostSameType DEF TypeOK

LEMMA AdminEditType ==
    ASSUME TypeOK, NEW n \in Names, NEW c \in {Admin, Absent}, AdminEdit(n, c)
    PROVE  TypeOK'
<1>1. /\ UNCHANGED <<units, faults, requestVars, storeVars, crashes>>
      /\ files' = [files EXCEPT ![n] = c] /\ edits' = edits + 1
  BY DEF AdminEdit
<1>2. HostType'
  BY <1>1 DEF TypeOK, HostType, Sources, Contents, units
<1>3. RequestType' /\ HandlersFit'
  BY <1>1 DEF TypeOK, RequestType, HandlersFit, Fits, requestVars, storeVars
<1>4. StoreType' /\ edits' \in Nat /\ crashes' \in Nat
  BY <1>1 DEF TypeOK, StoreType, storeVars
<1>5. suspect' \subseteq Instances
  BY DEF AdminEdit, TypeOK
<1> QED
  BY <1>2, <1>3, <1>4, <1>5 DEF TypeOK

--------------------------------------------------------------------------------

LEMMA InitType == Init => TypeOK
<1> SUFFICES ASSUME Init PROVE TypeOK
  OBVIOUS
<1>1. HostType
  BY BlankType, HostAssumption DEF Init, HostInit, HostType
<1>2. RequestType /\ HandlersFit
  BY BlankType DEF Init, RequestType, HandlersFit, Fits, Stages
<1>3. StoreType
  BY DEF Init, StoreType
<1> QED
  BY <1>1, <1>2, <1>3 DEF Init, TypeOK

LEMMA StepType ==
    ASSUME TypeOK, NEW r \in Requests, Step(r)
    PROVE  TypeOK'
BY CheckDriftType, LoadType, SnapshotType, StopUnitType, RemoveOldType, InstallNewType,
   ReloadUnitsType, FindUnitsType, StartUnitType, VerifyUnitType, RelistType, CaptureType,
   SaveInstanceType, WriteManifestType, WriteReadmeType, UndoStopType, UndoInstallType,
   ReinstallType, UndoReloadType, UndoStartType, UndoVerifyType, LifecycleStepType
   DEF Step

LEMMA StutterType ==
    ASSUME TypeOK, UNCHANGED vars
    PROVE  TypeOK'
<1>1. HostType'
  BY HostSameType DEF vars, HostSame
<1>2. RequestType' /\ HandlersFit'
  BY DEF vars, requestVars, storeVars, TypeOK, RequestType, HandlersFit, Fits
<1>3. StoreType'
  BY DEF vars, storeVars, TypeOK, StoreType
<1> QED
  BY <1>1, <1>2, <1>3 DEF vars, envVars, TypeOK

LEMMA NextType ==
    ASSUME TypeOK, [Next]_vars
    PROVE  TypeOK'
<1>1. CASE Begin
  BY <1>1, CreatePlanType, SpoilPlanType, ExecutePlanType, LifecycleType DEF Begin
<1>2. CASE \E r \in Requests : Step(r)
  BY <1>2, StepType
<1>3. CASE Environment
  BY <1>3, AnsweredType, HangUpType, AgentRestartType, AdminEditType DEF Environment
<1>4. CASE UNCHANGED vars
  BY <1>4, StutterType
<1> QED
  BY <1>1, <1>2, <1>3, <1>4 DEF Next

(* Every variable keeps its type, and a handler is only ever in a stage that    *)
(* fits its plan and the record it loaded: for any number of requests,          *)
(* instances and names, whatever calls fail, hang up, crash or race.            *)
THEOREM Typed == Spec => []TypeOK
<1>1. Init => TypeOK
  BY InitType
<1>2. TypeOK /\ [Next]_vars => TypeOK'
  BY NextType
<1> QED
  BY <1>1, <1>2, PTL DEF Spec

--------------------------------------------------------------------------------
(* Every step brings a handler closer to its answer.                            *)

LEMMA Ranks ==
    /\ Rank("idle") = 0
    /\ Rank("check") = 1
    /\ Rank("load") = 2
    /\ Rank("snapshot") = 3
    /\ Rank("stop") = 4
    /\ Rank("removeOld") = 5
    /\ Rank("installNew") = 6
    /\ Rank("reload") = 7
    /\ Rank("list") = 8
    /\ Rank("start") = 9
    /\ Rank("relist") = 10
    /\ Rank("capture") = 11
    /\ Rank("save") = 12
    /\ Rank("manifest") = 13
    /\ Rank("readme") = 14
    /\ Rank("undoStop") = 15
    /\ Rank("undoInstall") = 16
    /\ Rank("reinstall") = 17
    /\ Rank("undoReload") = 18
    /\ Rank("undoStart") = 19
    /\ Rank("lifecycle") = 20
    /\ Rank("done") = 21
    /\ Rank("verify") = 9 /\ Rank("undoVerify") = 19
BY DEF Rank

LEMMA GoneOn ==
    ASSUME TypeOK, NEW r \in Requests, NEW stage, NEW S, Go(r, stage, S), Rank(pc[r]) < Rank(stage)
    PROVE  Closer(r)
BY DEF TypeOK, RequestType, Go, Closer

LEMMA Shortened ==
    ASSUME TypeOK, NEW r \in Requests, NEW stage, NEW n \in todo[r], Go(r, stage, todo[r] \ {n}),
           Rank(stage) = Rank(pc[r])
    PROVE  Closer(r)
<1>1. pc'[r] = stage /\ todo'[r] = todo[r] \ {n}
  BY DEF TypeOK, RequestType, Go
<1>2. todo'[r] \subseteq todo[r] /\ todo'[r] # todo[r]
  BY <1>1
<1> QED
  BY <1>1, <1>2 DEF Closer

LEMMA LoopAdvances ==
    ASSUME TypeOK, NEW r \in Requests, NEW n \in todo[r], Advance(r, n)
    PROVE  Closer(r)
BY Shortened DEF Advance

LEMMA VerifiesNext ==
    ASSUME TypeOK, NEW r \in Requests, NEW stage, Go(r, stage, todo[r]),
           \/ pc[r] = "start" /\ stage = "verify"
           \/ pc[r] = "undoStart" /\ stage = "undoVerify"
    PROVE  Closer(r)
<1>1. pc'[r] = stage /\ todo'[r] = todo[r] /\ pc[r] # stage
  BY DEF TypeOK, RequestType, Go
<1> QED
  BY <1>1, Ranks DEF Closer

LEMMA ReplyCloser ==
    ASSUME TypeOK, NEW r \in Requests, NEW answer, Reply(r, answer), Active(r)
    PROVE  Closer(r)
<1>1. Rank(pc[r]) < Rank("done")
  BY Ranks DEF Active, TypeOK, RequestType, Stages
<1> QED
  BY <1>1, GoneOn DEF Reply

LEMMA AbortCloser ==
    ASSUME TypeOK, NEW r \in Requests, NEW t, AbortTo(r, t),
           pc[r] \in {"installNew", "reload", "list", "start", "verify", "relist", "capture"}
    PROVE  Closer(r)
<1>1. PICK stage \in {"undoInstall", "undoStop", "reinstall"} : \E S : Go(r, stage, S)
  BY DEF AbortTo
<1>2. Rank(pc[r]) < Rank(stage)
  BY <1>1, Ranks
<1> QED
  BY <1>1, <1>2, GoneOn

LEMMA EndRollbackCloser ==
    ASSUME TypeOK, NEW r \in Requests, NEW failed, EndRollback(r, failed), Active(r)
    PROVE  Closer(r)
BY ReplyCloser DEF EndRollback

LEMMA ReadingCloser ==
    ASSUME TypeOK, NEW r \in Requests, CheckDrift(r) \/ Load(r) \/ Snapshot(r) \/ StopUnit(r) \/ LifecycleStep(r)
    PROVE  Closer(r)
<1>1. CASE CheckDrift(r)
  BY <1>1, ReplyCloser, LoopAdvances, GoneOn, Ranks DEF CheckDrift, Visit, Leave, First, Active
<1>2. CASE Load(r)
  BY <1>2, ReplyCloser, GoneOn, Ranks DEF Load, Leave, Active
<1>3. CASE Snapshot(r)
  <2>1. pc[r] = "snapshot" /\ Active(r)
    BY <1>3 DEF Snapshot, Visit, Leave, Active
  <2>2. \/ Reply(r, "failed") \/ \E n \in todo[r] : Advance(r, n)
        \/ Go(r, "stop", tx[r].prev.units)
    BY <1>3 DEF Snapshot, Visit, First
  <2> QED BY <2>1, <2>2, ReplyCloser, LoopAdvances, GoneOn, Ranks
<1>4. CASE StopUnit(r)
  BY <1>4, ReplyCloser, LoopAdvances, GoneOn, Ranks DEF StopUnit, Visit, Leave, First, Active
<1>5. CASE LifecycleStep(r)
  BY <1>5, ReplyCloser, LoopAdvances DEF LifecycleStep, Visit, Leave, First, Active
<1> QED
  BY <1>1, <1>2, <1>3, <1>4, <1>5

LEMMA ForwardCloser ==
    ASSUME TypeOK, NEW r \in Requests,
           \/ RemoveOld(r) \/ InstallNew(r) \/ ReloadUnits(r) \/ FindUnits(r) \/ StartUnit(r)
           \/ VerifyUnit(r) \/ Relist(r) \/ Capture(r)
    PROVE  Closer(r)
<1>1. CASE RemoveOld(r)
  <2>1. pc[r] = "removeOld"
    BY <1>1 DEF RemoveOld, Visit, Leave
  <2>2. \/ \E n \in todo[r] : Advance(r, n)
        \/ \E stage \in {"reinstall", "installNew", "reload"}, S \in SUBSET Names : Go(r, stage, S)
    <3>1. tx[r].removed \in SUBSET Names /\ NamesOf(tx[r].job.src) \in SUBSET Names
      BY DEF TypeOK, RequestType, Handler, NamesOf
    <3> QED BY <1>1, <3>1 DEF RemoveOld, Visit, First
  <2> QED BY <2>1, <2>2, LoopAdvances, GoneOn, Ranks
<1>2. CASE InstallNew(r)
  <2>1. pc[r] = "installNew"
    BY <1>2 DEF InstallNew, Visit, Leave
  <2>2. Abort(r) \/ (\E n \in todo[r] : Advance(r, n)) \/ Go(r, "reload", {})
    BY <1>2 DEF InstallNew, Visit, First
  <2> QED BY <2>1, <2>2, LoopAdvances, AbortCloser, GoneOn, Ranks DEF Abort
<1>3. CASE ReloadUnits(r)
  BY <1>3, AbortCloser, GoneOn, Ranks DEF ReloadUnits, Leave, Abort
<1>4. CASE FindUnits(r) \/ Relist(r)
  BY <1>4, AbortCloser, GoneOn, Ranks DEF FindUnits, Relist, ListGenerated, Leave, Abort
<1>5. CASE StartUnit(r)
  <2>1. pc[r] = "start"
    BY <1>5 DEF StartUnit, Visit, Leave
  <2>2. \/ \E n \in Names : AbortTo(r, [tx[r] EXCEPT !.started = @ \cup {n}])
        \/ Abort(r) \/ Go(r, "verify", todo[r]) \/ Go(r, "relist", {})
    BY <1>5 DEF StartUnit
  <2>3. CASE \E n \in Names : AbortTo(r, [tx[r] EXCEPT !.started = @ \cup {n}])
    <3>1. PICK t : AbortTo(r, t)
      BY <2>3
    <3> QED BY <2>1, <3>1, AbortCloser
  <2>4. CASE Abort(r)
    BY <2>1, <2>4, AbortCloser DEF Abort
  <2>5. CASE Go(r, "verify", todo[r]) \/ Go(r, "relist", {})
    BY <2>1, <2>5, VerifiesNext, GoneOn, Ranks
  <2> QED BY <2>2, <2>3, <2>4, <2>5
<1>6. CASE VerifyUnit(r)
  BY <1>6, AbortCloser, Shortened, Ranks DEF VerifyUnit, Visit, First, Abort
<1>7. CASE Capture(r)
  <2>1. pc[r] = "capture"
    BY <1>7 DEF Capture, Visit, Leave
  <2>2. Abort(r) \/ (\E n \in todo[r] : Advance(r, n)) \/ Go(r, "save", {})
    BY <1>7 DEF Capture, Visit, First
  <2> QED BY <2>1, <2>2, LoopAdvances, AbortCloser, GoneOn, Ranks DEF Abort
<1> QED
  BY <1>1, <1>2, <1>3, <1>4, <1>5, <1>6, <1>7

LEMMA SavingCloser ==
    ASSUME TypeOK, NEW r \in Requests, SaveInstance(r) \/ WriteManifest(r) \/ WriteReadme(r)
    PROVE  Closer(r)
<1>1. CASE SaveInstance(r)
  BY <1>1, ReplyCloser, GoneOn, Ranks DEF SaveInstance, Unrecorded, Leave, Active
<1>2. CASE WriteManifest(r)
  BY <1>2, ReplyCloser, GoneOn, Ranks DEF WriteManifest, Unrecorded, Leave, Active
<1>3. CASE WriteReadme(r)
  BY <1>3, ReplyCloser DEF WriteReadme, Unrecorded, Leave, Active
<1> QED
  BY <1>1, <1>2, <1>3

LEMMA UndoCloser ==
    ASSUME TypeOK, NEW r \in Requests,
           \/ UndoStop(r) \/ UndoInstall(r) \/ Reinstall(r) \/ UndoReload(r) \/ UndoStart(r) \/ UndoVerify(r)
    PROVE  Closer(r)
<1>1. CASE UndoStop(r)
  BY <1>1, LoopAdvances, GoneOn, Ranks DEF UndoStop, VisitBack, Leave, Last
<1>2. CASE UndoInstall(r)
  BY <1>2, LoopAdvances, GoneOn, Ranks DEF UndoInstall, VisitBack, Leave, Last
<1>3. CASE Reinstall(r)
  BY <1>3, LoopAdvances, GoneOn, Ranks DEF Reinstall, Visit, Leave, First
<1>4. CASE UndoReload(r)
  BY <1>4, EndRollbackCloser, GoneOn, Ranks DEF UndoReload, Leave, Active
<1>5. CASE UndoStart(r)
  BY <1>5, EndRollbackCloser, LoopAdvances, VerifiesNext DEF UndoStart, Visit, Leave, First, Active
<1>6. CASE UndoVerify(r)
  BY <1>6, Shortened, Ranks DEF UndoVerify, Visit, First
<1> QED
  BY <1>1, <1>2, <1>3, <1>4, <1>5, <1>6

(* No path through a transaction, whatever fails on it, comes back to a stage   *)
(* it has left or stays in a loop: with finitely many names, a handler takes    *)
(* finitely many steps.  What this leaves to TLC is that it always has one.     *)
THEOREM HandlersAdvanceAlways == Spec => HandlersAdvance
<1>1. ASSUME TypeOK, [Next]_vars
      PROVE  [\A r \in Requests : Step(r) => Closer(r)]_vars
  <2> SUFFICES ASSUME NEW r \in Requests, Step(r) PROVE Closer(r)
    OBVIOUS
  <2> QED BY <1>1, ReadingCloser, ForwardCloser, SavingCloser, UndoCloser DEF Step
<1> QED
  BY Typed, <1>1, PTL DEF Spec, HandlersAdvance

================================================================================
