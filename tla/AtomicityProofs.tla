----------------------------- MODULE AtomicityProofs -----------------------------
(* The transactions implement Deployment: every step of the engine is a step of *)
(* an atomic operation or changes nothing a client sees.  What it takes is that *)
(* the recorded baselines are live and that a handler keeps to its plan and to  *)
(* the record of its instance; the modules that extend this one show when they  *)
(* are and when it does.                                                        *)
EXTENDS EngineProofs

(* The stages in which a handler has installed nothing.                         *)
Early == {"check", "load", "snapshot", "stop", "removeOld"}

(* What a handler installs, removes and puts back, and what it is about to      *)
(* record, is what its plan and the record of its instance say.                 *)
Tidy == \A r \in Requests : pc[r] # "idle" =>
    LET t   == tx[r]
        new == NamesOf(t.job.src)
        was == NamesOf(Recorded(Inst(r)))
    IN  /\ pc[r] \in Underway => t.installed \subseteq new
        /\ pc[r] \in Early => t.installed = {}
        /\ pc[r] = "installNew" => todo[r] \subseteq new
        /\ pc[r] = "removeOld" =>
              \A n \in todo[r] : n \in was /\ (files[n] = Absent \/ OwnedBy(files[n], Inst(r)))
        /\ pc[r] = "undoInstall" => \A n \in todo[r] : files[n] \in {Absent, t.job.src[n]}
        /\ pc[r] = "reinstall" => \A n \in todo[r] : n \in was /\ OwnedBy(t.old[n], Inst(r))
        /\ pc[r] = "save" =>
              /\ Op(r) # "remove" => t.seen = t.job.src
              /\ Op(r) # "install" => \A n \in was \ new : ~OwnedBy(files[n], Inst(r))
        /\ Active(r) /\ Op(r) \in {"update", "remove"}
                /\ pc[r] \notin Reading \cup {"stop", "manifest", "readme"}
              => NamesOf(t.prev.src) \subseteq was

Authored(p) == \A n \in NamesOf(p.src) : OwnedBy(p.src[n], p.inst)

(* A removal asks for no source and the others for one of the instance, nobody  *)
(* is answered before the end, and only a rollback collects errors.             *)
Plain(stage, t) ==
    /\ stage # "idle" /\ t.job.op = "remove" => t.job.src = NothingOn
    /\ stage # "idle" => Authored(t.job)
    /\ stage # "done" => t.answer = "none"
    /\ t.rbErr => stage \in UndoStages \cup {"done"}

PlainPlans == \A id \in PlanIds : plans[id] # NoPlan /\ plans[id].op = "remove" => plans[id].src = NothingOn

PlansAuthored == \A id \in PlanIds : plans[id] # NoPlan => Authored(plans[id])

AInv == TypeOK /\ PlainPlans /\ PlansAuthored /\ \A r \in Requests : Plain(pc[r], tx[r])

--------------------------------------------------------------------------------
(* The state of Deployment: D of EngineProperties, part by part.                *)

Mapped == [i \in Instances |-> IF Doubtful(i) THEN NoRecord
                               ELSE IF Busy(i) THEN Recorded(i) ELSE OnHost(i)]
Left == [i \in Instances |-> IF Doubtful(i) THEN {} ELSE LeftBehind(i)]
Phases == [r \in Requests |-> PhaseOf(pc[r], tx[r].rbErr)]
Orders == [r \in Requests |->
              IF pc[r] = "idle" THEN [inst |-> NothingOn, want |-> NothingOn, adds |-> FALSE]
              ELSE [inst |-> Inst(r), want |-> IF Op(r) \in PlanOps THEN tx[r].job.src ELSE NoPlan,
                    adds |-> Op(r) = "install"]]
Told == [r \in Requests |-> tx[r].answer]

(* As long as the baselines are live, what the host has is what is recorded.    *)
Deployed == [i \in Instances |-> IF Doubtful(i) THEN NoRecord ELSE Recorded(i)]

LEMMA HostIsRecord ==
    ASSUME NEW source \in Sources, NEW onDisk,
           \A n \in NamesOf(source) : onDisk[n] = source[n]
    PROVE  [n \in Names |-> IF n \in NamesOf(source) THEN onDisk[n] ELSE Absent] = source
BY DEF Sources, NamesOf

LEMMA NothingIsASource == NothingOn \in Sources /\ NamesOf(NothingOn) = {}
BY DEF NothingOn, Sources, NamesOf

LEMMA MappedIsDeployed ==
    ASSUME TypeOK, BaselineIsLive
    PROVE  Mapped = Deployed
<1> SUFFICES ASSUME NEW i \in Instances \ suspect, ~Busy(i) PROVE OnHost(i) = Recorded(i)
  BY DEF Mapped, Deployed, Doubtful
<1>1. Recorded(i) \in Sources
  BY NothingIsASource DEF TypeOK, StoreType, Record, Recorded, Live, Managed
<1>2. \A n \in NamesOf(Recorded(i)) : files[n] = Recorded(i)[n]
  BY NothingIsASource DEF BaselineIsLive, Recorded
<1> QED
  BY <1>1, <1>2, HostIsRecord DEF OnHost

LEMMA MappedIsDeployedNext ==
    ASSUME TypeOK', BaselineIsLive'
    PROVE  Mapped' = Deployed'
<1> SUFFICES ASSUME NEW i \in Instances, i \notin suspect', ~Busy(i)'
             PROVE  OnHost(i)' = Recorded(i)'
  BY DEF Mapped, Deployed, Doubtful
<1>1. Recorded(i)' \in Sources
  BY NothingIsASource DEF TypeOK, StoreType, Record, Recorded, Live, Managed
<1>2. \A n \in NamesOf(Recorded(i)') : files'[n] = Recorded(i)'[n]
  BY NothingIsASource DEF BaselineIsLive, Recorded
<1>3. OnHost(i)' = [n \in Names |-> IF n \in NamesOf(Recorded(i)') THEN files'[n] ELSE Absent]
  BY DEF OnHost, NamesOf
<1> QED
  BY <1>1, <1>2, <1>3, HostIsRecord

--------------------------------------------------------------------------------
(* What a step of one handler may do.                                           *)

Bystanders(r) ==
    \A q \in Requests \ {r} : pc'[q] = pc[q] /\ todo'[q] = todo[q] /\ tx'[q] = tx[q]

Applied == {"manifest", "readme"}
Late == Applied \cup {"save"}

(* It goes on, forward, into its rollback or inside it,                         *)
Stays(r) ==
    /\ Bystanders(r)
    /\ Active(r) /\ pc'[r] \notin {"idle", "done"} /\ pc[r] # "save"
    /\ pc[r] \in Applied <=> pc'[r] \in Applied
    /\ pc[r] \in UndoStages => pc'[r] \in UndoStages /\ (tx[r].rbErr => tx'[r].rbErr)
    /\ pc[r] \notin UndoStages => tx'[r].rbErr = tx[r].rbErr
    /\ tx'[r].job = tx[r].job /\ tx'[r].answer = tx[r].answer
    /\ UNCHANGED <<instances, suspect>>

Replies(r, answer) ==
    /\ Bystanders(r)
    /\ Active(r) /\ pc'[r] = "done"
    /\ tx'[r].job = tx[r].job /\ tx'[r].answer = answer /\ tx'[r].rbErr = tx[r].rbErr
    /\ UNCHANGED instances

(* gives an answer that can be relied on,                                       *)
Ends(r) ==
    /\ UNCHANGED suspect
    /\ \/ pc[r] = "readme" /\ Replies(r, "succeeded")
       \/ pc[r] = "lifecycle" /\ Replies(r, "succeeded")
       \/ pc[r] \notin Late \cup UndoStages /\ \E answer \in {"refused", "failed"} : Replies(r, answer)
       \/ pc[r] \in UndoStages /\ ~tx[r].rbErr /\ Replies(r, "rolledBack")

(* gives one that leaves its instance suspect,                                  *)
Gives(r) ==
    /\ suspect' = suspect \cup {Inst(r)}
    /\ \/ pc[r] \in Late /\ Replies(r, "failed")
       \/ pc[r] \in UndoStages /\ Replies(r, "rollbackFailed")

(* or saves the record.                                                         *)
Saves(r) ==
    /\ pc[r] = "save" /\ pc'[r] = "manifest" /\ Bystanders(r)
    /\ instances' = [instances EXCEPT ![Inst(r)] = NewRecord(tx[r])]
    /\ UNCHANGED <<tx, suspect, files>>

Ordinary(r) == Stays(r) \/ Ends(r) \/ Gives(r) \/ Saves(r)

LEMMA GoesOn ==
    ASSUME TypeOK, NEW r \in Requests, NEW stage, NEW S, NEW t,
           Go(r, stage, S), Keep(r, t), t.job = tx[r].job, t.answer = tx[r].answer,
           Active(r), stage \notin {"idle", "done"}, pc[r] \in Applied <=> stage \in Applied,
           pc[r] # "save", pc[r] \in UndoStages => stage \in UndoStages /\ (tx[r].rbErr => t.rbErr),
           pc[r] \notin UndoStages => t.rbErr = tx[r].rbErr,
           UNCHANGED <<instances, suspect>>
    PROVE  Stays(r)
BY DEF TypeOK, RequestType, Go, Keep, Stays, Bystanders

LEMMA GoesOnSame ==
    ASSUME TypeOK, NEW r \in Requests, NEW stage, NEW S,
           Go(r, stage, S), UNCHANGED tx,
           Active(r), stage \notin {"idle", "done"}, pc[r] \in Applied <=> stage \in Applied,
           pc[r] # "save", pc[r] \in UndoStages => stage \in UndoStages,
           UNCHANGED <<instances, suspect>>
    PROVE  Stays(r)
BY DEF TypeOK, RequestType, Go, Stays, Bystanders

LEMMA RepliesIs ==
    ASSUME TypeOK, NEW r \in Requests, NEW answer, Reply(r, answer), Active(r), UNCHANGED instances
    PROVE  Replies(r, answer)
<1>1. tx[r] \in Handler
  BY DEF TypeOK, RequestType
<1> QED
  BY <1>1 DEF TypeOK, RequestType, Reply, Go, Keep, Replies, Bystanders, Handler

LEMMA AbortGoesOn ==
    ASSUME TypeOK, NEW r \in Requests, NEW t, AbortTo(r, t), t.job = tx[r].job, t.answer = tx[r].answer,
           t.rbErr = tx[r].rbErr, Active(r), pc[r] \notin Late, UNCHANGED <<instances, suspect>>
    PROVE  Stays(r)
<1>1. PICK stage \in {"undoInstall", "undoStop", "reinstall"} :
         Keep(r, t) /\ \E S : Go(r, stage, S)
  BY DEF AbortTo
<1> QED
  BY <1>1, GoesOn DEF Applied, Late, UndoStages

(* Every update that a stage of the forward path makes of its locals keeps the  *)
(* job, the answer and what the rollback will collect.                          *)
SameJob(r, t) == t.job = tx[r].job /\ t.answer = tx[r].answer /\ t.rbErr = tx[r].rbErr

LEMMA KeepsJob ==
    ASSUME TypeOK, NEW r \in Requests, NEW x
    PROVE  /\ SameJob(r, tx[r])
           /\ SameJob(r, [tx[r] EXCEPT !.prev = x]) /\ SameJob(r, [tx[r] EXCEPT !.old = x])
           /\ SameJob(r, [tx[r] EXCEPT !.removed = x]) /\ SameJob(r, [tx[r] EXCEPT !.installed = x])
           /\ SameJob(r, [tx[r] EXCEPT !.started = x]) /\ SameJob(r, [tx[r] EXCEPT !.listed = x])
           /\ SameJob(r, [tx[r] EXCEPT !.seen = x])
BY DEF TypeOK, RequestType, Handler, SameJob

(* The ways a stage ends, each from the stages that do not end a transaction.   *)
LEMMA PassesOn ==
    ASSUME TypeOK, NEW r \in Requests, NEW stage, NEW S, Go(r, stage, S), UNCHANGED tx,
           Active(r), stage \notin {"idle", "done"}, pc[r] \notin Late, stage \notin Applied,
           pc[r] \in UndoStages => stage \in UndoStages,
           UNCHANGED <<instances, suspect>>
    PROVE  Ordinary(r)
BY GoesOnSame DEF Ordinary, Late

LEMMA PassesOnWith ==
    ASSUME TypeOK, NEW r \in Requests, NEW stage, NEW S, NEW t, Go(r, stage, S), Keep(r, t),
           SameJob(r, t),
           Active(r), stage \notin {"idle", "done"}, pc[r] \notin Late, stage \notin Applied,
           pc[r] \in UndoStages => stage \in UndoStages,
           UNCHANGED <<instances, suspect>>
    PROVE  Ordinary(r)
BY GoesOn DEF Ordinary, Late, SameJob

LEMMA AbortsWith ==
    ASSUME TypeOK, NEW r \in Requests, NEW t, AbortTo(r, t), SameJob(r, t), Active(r), pc[r] \notin Late,
           UNCHANGED <<instances, suspect>>
    PROVE  Ordinary(r)
BY AbortGoesOn DEF Ordinary, SameJob

LEMMA Aborts ==
    ASSUME TypeOK, NEW r \in Requests, Abort(r), Active(r), pc[r] \notin Late,
           UNCHANGED <<instances, suspect>>
    PROVE  Ordinary(r)
BY AbortsWith, KeepsJob DEF Abort

LEMMA EndsCleanly ==
    ASSUME TypeOK, NEW r \in Requests, NEW answer \in {"refused", "failed"},
           Reply(r, answer), Active(r), pc[r] \notin Late \cup UndoStages, UNCHANGED <<instances, suspect>>
    PROVE  Ordinary(r)
BY RepliesIs DEF Ordinary, Ends

LEMMA CollectsError ==
    ASSUME TypeOK, NEW r \in Requests, NEW err, NEW stage \in UndoStages, NEW S,
           Go(r, stage, S), RollbackError(r, err), pc[r] \in UndoStages,
           UNCHANGED <<instances, suspect>>
    PROVE  Ordinary(r)
<1> DEFINE t == [tx[r] EXCEPT !.rbErr = @ \/ err]
<1>1. t.job = tx[r].job /\ t.answer = tx[r].answer /\ (tx[r].rbErr => t.rbErr)
  BY DEF TypeOK, RequestType, Handler
<1>2. Keep(r, t)
  BY DEF RollbackError
<1> HIDE DEF t
<1>3. Active(r) /\ pc[r] \notin Late /\ stage \notin Late \cup {"idle", "done"}
  BY DEF Active, Late, Applied, UndoStages
<1> QED
  BY <1>1, <1>2, <1>3, GoesOn DEF Ordinary, Late

(* The same, when the loop goes on to the next name.                            *)
LEMMA AdvancesSame ==
    ASSUME TypeOK, NEW r \in Requests, NEW n, Advance(r, n), UNCHANGED tx,
           Active(r), pc[r] \notin Late, UNCHANGED <<instances, suspect>>
    PROVE  Ordinary(r)
BY PassesOn DEF Advance, Active, Late

LEMMA AdvancesCollecting ==
    ASSUME TypeOK, NEW r \in Requests, NEW n, NEW err, Advance(r, n), RollbackError(r, err),
           pc[r] \in UndoStages, UNCHANGED <<instances, suspect>>
    PROVE  Ordinary(r)
BY CollectsError DEF Advance

LEMMA StoreQuiet == ASSUME StoreSame PROVE UNCHANGED <<instances, suspect>>
BY DEF StoreSame, storeVars

LEMMA CheckDriftOrdinary == ASSUME TypeOK, NEW r \in Requests, CheckDrift(r) PROVE Ordinary(r)
<1>1. pc[r] = "check" /\ Active(r) /\ UNCHANGED <<instances, suspect>>
  BY StoreQuiet DEF CheckDrift, Visit, Leave, Active
<1>2. \/ Reply(r, "refused")
      \/ \E n \in Names : Advance(r, n) /\ UNCHANGED tx
      \/ Go(r, "load", {}) /\ UNCHANGED tx
  BY DEF CheckDrift
<1> QED
  BY <1>1, <1>2, AdvancesSame, EndsCleanly, PassesOn DEF Applied, Late, UndoStages

LEMMA InstallNewOrdinary == ASSUME TypeOK, NEW r \in Requests, InstallNew(r) PROVE Ordinary(r)
<1>1. pc[r] = "installNew" /\ Active(r) /\ UNCHANGED <<instances, suspect>>
  BY StoreQuiet DEF InstallNew, Visit, Leave, Active
<1>2. CASE \E n \in Names : Advance(r, n) /\ Keep(r, [tx[r] EXCEPT !.installed = @ \cup {n}])
  BY <1>1, <1>2, KeepsJob, PassesOnWith DEF Advance, Applied, Late, UndoStages
<1>3. CASE Abort(r) \/ (Go(r, "reload", {}) /\ UNCHANGED tx)
  BY <1>1, <1>3, Aborts, PassesOn DEF Applied, Late, UndoStages
<1> QED
  BY <1>2, <1>3 DEF InstallNew

LEMMA ReloadUnitsOrdinary == ASSUME TypeOK, NEW r \in Requests, ReloadUnits(r) PROVE Ordinary(r)
<1>1. pc[r] = "reload" /\ Active(r) /\ UNCHANGED <<instances, suspect>>
  BY StoreQuiet DEF ReloadUnits, Leave, Active
<1>2. Abort(r) \/ \E stage \in {"save", "list"} : Go(r, stage, {}) /\ UNCHANGED tx
  BY DEF ReloadUnits
<1>3. CASE \E stage \in {"save", "list"} : Go(r, stage, {}) /\ UNCHANGED tx
  BY <1>1, <1>3, PassesOn DEF Applied, Late, UndoStages
<1> QED
  BY <1>1, <1>2, <1>3, Aborts DEF Applied, Late, UndoStages

LEMMA VerifyUnitOrdinary == ASSUME TypeOK, NEW r \in Requests, VerifyUnit(r) PROVE Ordinary(r)
<1>1. pc[r] = "verify" /\ Active(r) /\ UNCHANGED <<instances, suspect>>
  BY StoreQuiet DEF VerifyUnit, Visit, Active
<1>2. Abort(r) \/ \E n \in Names : Go(r, "start", todo[r] \ {n}) /\ UNCHANGED tx
  BY DEF VerifyUnit
<1>3. CASE \E n \in Names : Go(r, "start", todo[r] \ {n}) /\ UNCHANGED tx
  BY <1>1, <1>3, PassesOn DEF Applied, Late, UndoStages
<1> QED
  BY <1>1, <1>2, <1>3, Aborts DEF Applied, Late, UndoStages

LEMMA CaptureOrdinary == ASSUME TypeOK, NEW r \in Requests, Capture(r) PROVE Ordinary(r)
<1>1. pc[r] = "capture" /\ Active(r) /\ UNCHANGED <<instances, suspect>>
  BY StoreQuiet DEF Capture, Visit, Leave, Active
<1>2. CASE \E n \in Names : Advance(r, n) /\ Keep(r, [tx[r] EXCEPT !.seen[n] = files[n]])
  <2>1. PICK n \in Names : Advance(r, n) /\ Keep(r, [tx[r] EXCEPT !.seen[n] = files[n]])
    BY <1>2
  <2>2. PICK x : Keep(r, [tx[r] EXCEPT !.seen = x])
    BY <2>1
  <2> QED BY <1>1, <2>1, <2>2, KeepsJob, PassesOnWith DEF Advance, Applied, Late, UndoStages
<1>3. CASE Abort(r) \/ (Go(r, "save", {}) /\ UNCHANGED tx)
  BY <1>1, <1>3, Aborts, PassesOn DEF Applied, Late, UndoStages
<1> QED
  BY <1>2, <1>3 DEF Capture

LEMMA ReinstallOrdinary == ASSUME TypeOK, NEW r \in Requests, Reinstall(r) PROVE Ordinary(r)
<1>1. pc[r] = "reinstall" /\ Active(r) /\ UNCHANGED <<instances, suspect>>
  BY StoreQuiet DEF Reinstall, Visit, Leave, Active
<1>2. \/ \E n \in Names, err \in BOOLEAN : Advance(r, n) /\ RollbackError(r, err)
      \/ Go(r, "undoReload", {}) /\ UNCHANGED tx
  BY DEF Reinstall
<1> QED
  BY <1>1, <1>2, AdvancesCollecting, PassesOn DEF Applied, Late, UndoStages

LEMMA LifecycleStepOrdinary == ASSUME TypeOK, NEW r \in Requests, LifecycleStep(r) PROVE Ordinary(r)
<1>1. pc[r] = "lifecycle" /\ Active(r) /\ UNCHANGED <<instances, suspect>>
  BY StoreQuiet DEF LifecycleStep, Visit, Leave, Active
<1>2. \/ Reply(r, "failed") \/ Reply(r, "succeeded")
      \/ \E n \in Names : Advance(r, n) /\ UNCHANGED tx
  BY DEF LifecycleStep
<1>3. CASE Reply(r, "succeeded")
  BY <1>1, <1>3, RepliesIs DEF Ordinary, Ends
<1> QED
  BY <1>1, <1>2, <1>3, AdvancesSame, EndsCleanly DEF Applied, Late, UndoStages

LEMMA LoadOrdinary == ASSUME TypeOK, NEW r \in Requests, Load(r) PROVE Ordinary(r)
<1>1. pc[r] = "load" /\ Active(r) /\ UNCHANGED <<instances, suspect>>
  BY StoreQuiet DEF Load, Leave, Active
<1>2. \/ Reply(r, "failed")
      \/ Go(r, "installNew", NamesOf(tx[r].job.src)) /\ UNCHANGED tx
      \/ \E S, x : Go(r, "snapshot", S) /\ Keep(r, [tx[r] EXCEPT !.prev = x])
  BY DEF Load
<1>3. CASE \E S, x : Go(r, "snapshot", S) /\ Keep(r, [tx[r] EXCEPT !.prev = x])
  BY <1>1, <1>3, KeepsJob, PassesOnWith DEF Applied, Late, UndoStages
<1>4. CASE Go(r, "installNew", NamesOf(tx[r].job.src)) /\ UNCHANGED tx
  BY <1>1, <1>4, PassesOn DEF Applied, Late, UndoStages
<1>5. CASE Reply(r, "failed")
  BY <1>1, <1>5, EndsCleanly DEF Applied, Late, UndoStages
<1> QED
  BY <1>2, <1>3, <1>4, <1>5

LEMMA SnapshotOrdinary == ASSUME TypeOK, NEW r \in Requests, Snapshot(r) PROVE Ordinary(r)
<1>1. pc[r] = "snapshot" /\ Active(r) /\ UNCHANGED <<instances, suspect>>
  BY StoreQuiet DEF Snapshot, Visit, Leave, Active
<1>2. CASE \E n \in Names : Advance(r, n) /\ Keep(r, [tx[r] EXCEPT !.old[n] = files[n]])
  <2>1. PICK n \in Names : Advance(r, n) /\ Keep(r, [tx[r] EXCEPT !.old[n] = files[n]])
    BY <1>2
  <2>2. PICK x : Keep(r, [tx[r] EXCEPT !.old = x])
    BY <2>1
  <2> QED BY <1>1, <2>1, <2>2, KeepsJob, PassesOnWith DEF Advance, Applied, Late, UndoStages
<1>3. CASE Reply(r, "failed") \/ (Go(r, "stop", tx[r].prev.units) /\ UNCHANGED tx)
  BY <1>1, <1>3, EndsCleanly, PassesOn DEF Applied, Late, UndoStages
<1> QED
  BY <1>2, <1>3 DEF Snapshot

LEMMA StopUnitOrdinary == ASSUME TypeOK, NEW r \in Requests, StopUnit(r) PROVE Ordinary(r)
<1>1. pc[r] = "stop" /\ Active(r) /\ UNCHANGED <<instances, suspect>>
  BY StoreQuiet DEF StopUnit, Visit, Leave, Active
<1>2. \/ Reply(r, "failed")
      \/ \E n \in Names : Advance(r, n) /\ UNCHANGED tx
      \/ Go(r, "removeOld", NamesOf(tx[r].prev.src)) /\ UNCHANGED tx
  BY DEF StopUnit
<1> QED
  BY <1>1, <1>2, AdvancesSame, EndsCleanly, PassesOn DEF Applied, Late, UndoStages

LEMMA RemoveOldOrdinary == ASSUME TypeOK, NEW r \in Requests, RemoveOld(r) PROVE Ordinary(r)
<1>1. pc[r] = "removeOld" /\ Active(r) /\ UNCHANGED <<instances, suspect>>
  BY StoreQuiet DEF RemoveOld, Visit, Leave, Active
<1>2. CASE \E n \in Names : Advance(r, n) /\ Keep(r, [tx[r] EXCEPT !.removed = @ \cup {n}])
  BY <1>1, <1>2, KeepsJob, PassesOnWith DEF Advance, Applied, Late, UndoStages
<1>3. CASE \E stage \in {"reinstall", "installNew", "reload"} : \E S : Go(r, stage, S) /\ UNCHANGED tx
  BY <1>1, <1>3, PassesOn DEF Applied, Late, UndoStages
<1> QED
  BY <1>2, <1>3 DEF RemoveOld

LEMMA ListGeneratedOrdinary ==
    ASSUME TypeOK, NEW r \in Requests, NEW stage, NEW next, NEW S, ListGenerated(r, stage, next, S),
           stage \in {"list", "relist"}, next \in {"start", "capture"}
    PROVE  Ordinary(r)
<1>1. pc[r] = stage /\ Active(r) /\ UNCHANGED <<instances, suspect>>
  BY StoreQuiet DEF ListGenerated, Leave, Active
<1>2. Abort(r) \/ (Go(r, next, S) /\ Keep(r, [tx[r] EXCEPT !.listed = NamesOf(files)]))
  BY DEF ListGenerated
<1>3. CASE Go(r, next, S) /\ Keep(r, [tx[r] EXCEPT !.listed = NamesOf(files)])
  BY <1>1, <1>3, KeepsJob, PassesOnWith DEF Applied, Late, UndoStages
<1> QED
  BY <1>1, <1>2, <1>3, Aborts DEF Applied, Late, UndoStages

LEMMA StartUnitOrdinary == ASSUME TypeOK, NEW r \in Requests, StartUnit(r) PROVE Ordinary(r)
<1>1. pc[r] = "start" /\ Active(r) /\ UNCHANGED <<instances, suspect>>
  BY StoreQuiet DEF StartUnit, Visit, Leave, Active
<1>2. CASE \E n \in Names :
              LET t == [tx[r] EXCEPT !.started = @ \cup {n}] IN
              AbortTo(r, t) \/ (Go(r, "verify", todo[r]) /\ Keep(r, t))
  <2>1. PICK n \in Names :
            LET t == [tx[r] EXCEPT !.started = @ \cup {n}] IN
            AbortTo(r, t) \/ (Go(r, "verify", todo[r]) /\ Keep(r, t))
    BY <1>2
  <2> DEFINE t == [tx[r] EXCEPT !.started = @ \cup {n}]
  <2>2. SameJob(r, t)
    BY KeepsJob
  <2> HIDE DEF t
  <2>3. AbortTo(r, t) \/ (Go(r, "verify", todo[r]) /\ Keep(r, t))
    BY <2>1 DEF t
  <2> QED BY <1>1, <2>2, <2>3, AbortsWith, PassesOnWith DEF Applied, Late, UndoStages
<1>3. CASE Abort(r) \/ (Go(r, "relist", {}) /\ UNCHANGED tx)
  BY <1>1, <1>3, Aborts, PassesOn DEF Applied, Late, UndoStages
<1> QED
  BY <1>2, <1>3 DEF StartUnit

LEMMA UndoStopOrdinary == ASSUME TypeOK, NEW r \in Requests, UndoStop(r) PROVE Ordinary(r)
<1>1. pc[r] = "undoStop" /\ Active(r) /\ UNCHANGED <<instances, suspect>>
  BY StoreQuiet DEF UndoStop, VisitBack, Leave, Active
<1>2. \/ \E n \in Names, err \in BOOLEAN : Advance(r, n) /\ RollbackError(r, err)
      \/ Go(r, "undoInstall", tx[r].installed) /\ UNCHANGED tx
  BY DEF UndoStop
<1> QED
  BY <1>1, <1>2, AdvancesCollecting, PassesOn DEF Applied, Late, UndoStages

LEMMA UndoInstallOrdinary == ASSUME TypeOK, NEW r \in Requests, UndoInstall(r) PROVE Ordinary(r)
<1>1. pc[r] = "undoInstall" /\ Active(r) /\ UNCHANGED <<instances, suspect>>
  BY StoreQuiet DEF UndoInstall, VisitBack, Leave, Active
<1>2. \/ \E n \in Names, err \in BOOLEAN : Advance(r, n) /\ RollbackError(r, err)
      \/ \E stage \in {"undoReload", "reinstall"} : \E S : Go(r, stage, S) /\ UNCHANGED tx
  BY DEF UndoInstall
<1> QED
  BY <1>1, <1>2, AdvancesCollecting, PassesOn DEF Applied, Late, UndoStages

LEMMA UndoVerifyOrdinary == ASSUME TypeOK, NEW r \in Requests, UndoVerify(r) PROVE Ordinary(r)
<1>1. pc[r] = "undoVerify" /\ UNCHANGED <<instances, suspect>>
  BY StoreQuiet DEF UndoVerify, Visit
<1>2. \E n \in Names, err \in BOOLEAN : RollbackError(r, err) /\ Go(r, "undoStart", todo[r] \ {n})
  BY DEF UndoVerify
<1> QED
  BY <1>1, <1>2, CollectsError DEF UndoStages

LEMMA UnrecordedGives ==
    ASSUME TypeOK, NEW r \in Requests, Unrecorded(r), pc[r] \in Late, Active(r), UNCHANGED instances
    PROVE  Ordinary(r)
BY RepliesIs DEF Unrecorded, Ordinary, Gives

LEMMA SaveInstanceOrdinary == ASSUME TypeOK, NEW r \in Requests, SaveInstance(r) PROVE Ordinary(r)
<1>1. pc[r] = "save" /\ Active(r) /\ UNCHANGED files
  BY DEF SaveInstance, Leave, Active
<1>2. CASE Unrecorded(r) /\ UNCHANGED instances
  BY <1>1, <1>2, UnrecordedGives DEF Late
<1>3. CASE /\ instances' = [instances EXCEPT ![Inst(r)] = NewRecord(tx[r])]
           /\ Go(r, "manifest", {}) /\ UNCHANGED <<tx, suspect>>
  BY <1>1, <1>3 DEF TypeOK, RequestType, Go, Ordinary, Saves, Bystanders
<1> QED
  BY <1>2, <1>3 DEF SaveInstance

LEMMA WriteManifestOrdinary == ASSUME TypeOK, NEW r \in Requests, WriteManifest(r) PROVE Ordinary(r)
<1>1. pc[r] = "manifest" /\ Active(r) /\ UNCHANGED instances
  BY DEF WriteManifest, Leave, Active
<1>2. CASE Unrecorded(r)
  BY <1>1, <1>2, UnrecordedGives DEF Late, Applied
<1>3. CASE Go(r, "readme", {}) /\ UNCHANGED <<tx, suspect>>
  BY <1>1, <1>3, GoesOnSame DEF Ordinary, Applied, UndoStages
<1> QED
  BY <1>2, <1>3 DEF WriteManifest

LEMMA WriteReadmeOrdinary == ASSUME TypeOK, NEW r \in Requests, WriteReadme(r) PROVE Ordinary(r)
<1>1. pc[r] = "readme" /\ Active(r) /\ UNCHANGED instances
  BY DEF WriteReadme, Leave, Active
<1>2. CASE Unrecorded(r)
  BY <1>1, <1>2, UnrecordedGives DEF Late, Applied
<1>3. CASE Reply(r, "succeeded") /\ UNCHANGED suspect
  BY <1>1, <1>3, RepliesIs DEF Ordinary, Ends
<1> QED
  BY <1>2, <1>3 DEF WriteReadme

LEMMA EndRollbackOrdinary ==
    ASSUME TypeOK, NEW r \in Requests, NEW failed, EndRollback(r, failed),
           pc[r] \in UndoStages, UNCHANGED instances
    PROVE  Ordinary(r)
<1> Active(r)
  BY DEF Active, UndoStages
<1>1. CASE Reply(r, "rollbackFailed") /\ suspect' = suspect \cup {Inst(r)}
  BY <1>1, RepliesIs DEF Ordinary, Gives
<1>2. CASE ~tx[r].rbErr /\ Reply(r, "rolledBack") /\ UNCHANGED suspect
  BY <1>2, RepliesIs DEF Ordinary, Ends
<1> QED
  BY <1>1, <1>2 DEF EndRollback

LEMMA UndoReloadOrdinary == ASSUME TypeOK, NEW r \in Requests, UndoReload(r) PROVE Ordinary(r)
<1>1. pc[r] = "undoReload" /\ UNCHANGED instances
  BY DEF UndoReload, Leave, storeVars
<1>2. PICK err \in BOOLEAN :
         \/ EndRollback(r, err)
         \/ Go(r, "undoStart", tx[r].prev.units) /\ RollbackError(r, err) /\ UNCHANGED suspect
  BY DEF UndoReload
<1>3. CASE Go(r, "undoStart", tx[r].prev.units) /\ RollbackError(r, err) /\ UNCHANGED suspect
  BY <1>1, <1>3, CollectsError DEF UndoStages
<1> QED
  BY <1>1, <1>2, <1>3, EndRollbackOrdinary DEF UndoStages

LEMMA UndoStartOrdinary == ASSUME TypeOK, NEW r \in Requests, UndoStart(r) PROVE Ordinary(r)
<1>1. pc[r] = "undoStart" /\ UNCHANGED instances
  BY DEF UndoStart, Visit, Leave, storeVars
<1>2. CASE \E n \in Names, err \in BOOLEAN :
              /\ RollbackError(r, err) /\ UNCHANGED suspect
              /\ Advance(r, n) \/ Go(r, "undoVerify", todo[r])
  BY <1>1, <1>2, AdvancesCollecting, CollectsError DEF UndoStages
<1>3. CASE EndRollback(r, FALSE)
  BY <1>1, <1>3, EndRollbackOrdinary DEF UndoStages
<1> QED
  BY <1>2, <1>3 DEF UndoStart

LEMMA StepOrdinary == ASSUME TypeOK, NEW r \in Requests, Step(r) PROVE Ordinary(r)
BY CheckDriftOrdinary, LoadOrdinary, SnapshotOrdinary, StopUnitOrdinary, RemoveOldOrdinary,
   InstallNewOrdinary, ReloadUnitsOrdinary, ListGeneratedOrdinary, StartUnitOrdinary,
   VerifyUnitOrdinary, CaptureOrdinary, SaveInstanceOrdinary, WriteManifestOrdinary,
   WriteReadmeOrdinary, UndoStopOrdinary, UndoInstallOrdinary, ReinstallOrdinary,
   UndoReloadOrdinary, UndoStartOrdinary, UndoVerifyOrdinary, LifecycleStepOrdinary
   DEF Step, FindUnits, Relist

--------------------------------------------------------------------------------
(* What a step of one handler does to the files, as LeftBehind sees them.       *)

LEMMA Owners ==
    /\ \A i, j \in Instances : \A c : OwnedBy(c, i) /\ OwnedBy(c, j) => i = j
    /\ \A i \in Instances : ~OwnedBy(Absent, i)
BY EngineAssumption DEF OwnedBy, Contents

(* It leaves the files of the other instances alone,                            *)
Spares(r) ==
    \A j \in Instances \ {Inst(r)}, n \in Names : OwnedBy(files'[n], j) <=> OwnedBy(files[n], j)

(* a file of its own is neither recorded nor in its list before and after it,   *)
Shows(r, n) ==
    OwnedBy(files[n], Inst(r)) /\ n \notin Pending(r) /\ n \notin NamesOf(Recorded(Inst(r)))

Steady(r) == \A n \in Names : Shows(r, n)' <=> Shows(r, n)

(* except for one that was installed when its answer was lost.                  *)
Slips(r) ==
    /\ pc[r] \notin UndoStages /\ pc'[r] \in UndoStages
    /\ \E n \in NamesOf(tx[r].job.src) :
          /\ \A m \in Names \ {n} : Shows(r, m)' <=> Shows(r, m)
          /\ ~Shows(r, n)

Behaves(r) == Spares(r) /\ (pc[r] = "save" \/ tx'[r].rbErr \/ Steady(r) \/ Slips(r))

(* The list of a handler that has these locals.                                 *)
PendingIn(stage, left, t) ==
    IF stage = "undoInstall" THEN left ELSE {n \in t.installed : stage \in Underway}

LEMMA PendingIsIn == \A r \in Requests : Pending(r) = PendingIn(pc[r], todo[r], tx[r])
BY DEF Pending, PendingIn

LEMMA PendingGoes ==
    ASSUME TypeOK, NEW r \in Requests, NEW stage, NEW S, NEW t, Go(r, stage, S), Keep(r, t)
    PROVE  Pending(r)' = PendingIn(stage, S, t)
BY DEF TypeOK, RequestType, Go, Keep, Pending, PendingIn

LEMMA NothingPending ==
    /\ \A stage \in Stages \ (Underway \cup {"undoInstall"}) : \A S, t : PendingIn(stage, S, t) = {}
    /\ \A stage \in Stages : \A t : t.installed = {} => PendingIn(stage, {}, t) = {}
    /\ \A t : PendingIn("undoInstall", {}, t) = {}
    /\ \A stage \in Underway : \A S, t : PendingIn(stage, S, t) = t.installed
BY DEF PendingIn, Underway

(* A step that touches no file and whose list stays is steady.                  *)
LEMMA QuietBehaves ==
    ASSUME TypeOK, NEW r \in Requests, UNCHANGED <<files, instances>>, tx'[r].job = tx[r].job,
           Pending(r)' = Pending(r)
    PROVE  Behaves(r)
<1>1. Inst(r)' = Inst(r) /\ Recorded(Inst(r))' = Recorded(Inst(r))
  BY DEF Inst, Recorded, Live, Managed
<1>2. Steady(r)
  BY <1>1 DEF Steady, Shows
<1> QED
  BY <1>2 DEF Behaves, Spares

LEMMA GoesBehaving ==
    ASSUME TypeOK, NEW r \in Requests, NEW stage, NEW S, NEW t, Go(r, stage, S), Keep(r, t),
           t.job = tx[r].job, UNCHANGED <<files, instances>>,
           PendingIn(stage, S, t) = PendingIn(pc[r], todo[r], tx[r])
    PROVE  Behaves(r)
<1>1. Pending(r)' = Pending(r)
  BY PendingGoes, PendingIsIn
<1>2. tx'[r].job = tx[r].job
  BY DEF Keep, TypeOK, RequestType
<1> QED
  BY <1>1, <1>2, QuietBehaves

LEMMA GoesBehavingSame ==
    ASSUME TypeOK, NEW r \in Requests, NEW stage, NEW S, Go(r, stage, S), UNCHANGED tx,
           UNCHANGED <<files, instances>>,
           PendingIn(stage, S, tx[r]) = PendingIn(pc[r], todo[r], tx[r])
    PROVE  Behaves(r)
<1>1. Keep(r, tx[r])
  BY DEF Keep, TypeOK, RequestType
<1> QED
  BY <1>1, GoesBehaving

LEMMA RepliesBehaving ==
    ASSUME TypeOK, NEW r \in Requests, NEW said, Reply(r, said), UNCHANGED <<files, instances>>,
           PendingIn(pc[r], todo[r], tx[r]) = {} \/ pc[r] = "save"
    PROVE  Behaves(r)
<1>1. PICK t : t = [tx[r] EXCEPT !.answer = said]
  OBVIOUS
<1>2. Go(r, "done", {}) /\ Keep(r, t) /\ t.job = tx[r].job
  BY <1>1 DEF Reply, TypeOK, RequestType, Handler
<1>3. PendingIn("done", {}, t) = {}
  BY DEF PendingIn, Underway
<1>4. CASE pc[r] = "save"
  BY <1>4 DEF Behaves, Spares
<1> QED
  BY <1>2, <1>3, <1>4, GoesBehaving

(* An abort hands on what was installed; a removal has installed nothing.       *)
LEMMA AbortPending ==
    ASSUME AInv, Tidy, NEW r \in Requests, NEW t, AbortTo(r, t), t.job = tx[r].job,
           t.installed = tx[r].installed, pc[r] \in Underway
    PROVE  Pending(r)' = Pending(r)
<1>1. tx[r].installed \subseteq NamesOf(tx[r].job.src)
  BY DEF Tidy, Underway
<1>2. tx[r].job.op = "remove" => tx[r].installed = {}
  BY <1>1, NothingIsASource DEF AInv, Plain, Underway
<1>3. Pending(r) = tx[r].installed
  BY PendingIsIn, NothingPending
<1>4. \/ t.job.op = "install" /\ Go(r, "undoInstall", t.installed)
      \/ t.job.op = "update"  /\ Go(r, "undoStop", t.started)
      \/ t.job.op = "remove"  /\ Go(r, "reinstall", t.removed)
  BY DEF AbortTo
<1>5. TypeOK /\ Keep(r, t)
  BY DEF AInv, AbortTo
<1>6. ASSUME NEW stage, NEW S, Go(r, stage, S) PROVE Pending(r)' = PendingIn(stage, S, t)
  BY <1>5, <1>6, PendingGoes
<1>7. /\ PendingIn("undoInstall", t.installed, t) = t.installed
      /\ PendingIn("undoStop", t.started, t) = t.installed
      /\ PendingIn("reinstall", t.removed, t) = {}
  BY DEF PendingIn, Underway
<1> QED
  BY <1>2, <1>3, <1>4, <1>6, <1>7

LEMMA AbortsBehaving ==
    ASSUME AInv, Tidy, NEW r \in Requests, NEW t, AbortTo(r, t), t.job = tx[r].job,
           t.installed = tx[r].installed, pc[r] \in Underway, UNCHANGED <<files, instances>>
    PROVE  Behaves(r)
<1>1. tx'[r].job = tx[r].job
  BY DEF AbortTo, Keep, AInv, TypeOK, RequestType
<1> QED
  BY <1>1, AbortPending, QuietBehaves DEF AInv

LEMMA AbortsBehavingSame ==
    ASSUME AInv, Tidy, NEW r \in Requests, Abort(r), pc[r] \in Underway, UNCHANGED <<files, instances>>
    PROVE  Behaves(r)
BY AbortsBehaving DEF Abort

(* The stages that have installed nothing yet, or have nothing left to remove.  *)
LEMMA EarlyPending ==
    ASSUME TypeOK, Tidy, NEW r \in Requests, pc[r] \in Early
    PROVE  tx[r].installed = {} /\ PendingIn(pc[r], todo[r], tx[r]) = {}
BY DEF Tidy, Early, PendingIn, Underway

LEMMA StoreKeeps == ASSUME StoreSame PROVE UNCHANGED instances
BY DEF StoreSame, storeVars

LEMMA ReadingBehaves ==
    ASSUME AInv, Tidy, NEW r \in Requests, CheckDrift(r) \/ Load(r) \/ Snapshot(r) \/ StopUnit(r)
    PROVE  Behaves(r)
<1>1. /\ pc[r] \in Early /\ UNCHANGED <<files, instances>> /\ TypeOK
      /\ \/ \E said : Reply(r, said)
         \/ \E stage \in Early \cup {"installNew"} : \E S : Go(r, stage, S) /\ UNCHANGED tx
         \/ \E stage \in Early : \E S, x : Go(r, stage, S) /\ Keep(r, [tx[r] EXCEPT !.prev = x])
         \/ \E stage \in Early : \E S, x : Go(r, stage, S) /\ Keep(r, [tx[r] EXCEPT !.old = x])
  <2>1. CASE CheckDrift(r)
    BY <2>1, StoreKeeps
       DEF CheckDrift, Visit, Leave, Advance, GetQuadlet, HostSame, hostVars, Early, AInv
  <2>2. CASE Load(r)
    BY <2>2, StoreKeeps DEF Load, Leave, Early, AInv
  <2>3. CASE Snapshot(r)
    <3>1. pc[r] = "snapshot" /\ UNCHANGED <<files, instances>>
      BY <2>3, StoreKeeps DEF Snapshot, Visit, Leave, GetQuadlet, HostSame, hostVars
    <3>2. CASE \E n \in Names : Advance(r, n) /\ Keep(r, [tx[r] EXCEPT !.old[n] = files[n]])
      <4>1. PICK n \in Names : Advance(r, n) /\ Keep(r, [tx[r] EXCEPT !.old[n] = files[n]])
        BY <3>2
      <4>2. PICK x : Keep(r, [tx[r] EXCEPT !.old = x])
        BY <4>1
      <4>3. Go(r, "snapshot", todo[r] \ {n})
        BY <3>1, <4>1 DEF Advance
      <4> QED BY <3>1, <4>2, <4>3 DEF Early, AInv
    <3>3. CASE Reply(r, "failed") \/ (Go(r, "stop", tx[r].prev.units) /\ UNCHANGED tx)
      BY <3>1, <3>3 DEF Early, AInv
    <3> QED BY <2>3, <3>2, <3>3 DEF Snapshot
  <2>4. CASE StopUnit(r)
    BY <2>4, StoreKeeps DEF StopUnit, Visit, Leave, Advance, Stop, HostSame, hostVars, Early, AInv
  <2> QED BY <2>1, <2>2, <2>3, <2>4
<1>2. tx[r].installed = {} /\ PendingIn(pc[r], todo[r], tx[r]) = {}
  BY <1>1, EarlyPending
<1>3. CASE \E said : Reply(r, said)
  BY <1>1, <1>2, <1>3, RepliesBehaving
<1>4. ASSUME NEW stage \in Early \cup {"installNew"}, NEW S, NEW t, Go(r, stage, S), Keep(r, t),
             t.job = tx[r].job, t.installed = {}
      PROVE  Behaves(r)
  <2>1. PendingIn(stage, S, t) = {}
    BY <1>4 DEF PendingIn, Early
  <2> QED BY <1>1, <1>2, <1>4, <2>1, GoesBehaving
<1>5. CASE \E stage \in Early \cup {"installNew"} : \E S : Go(r, stage, S) /\ UNCHANGED tx
  <2>1. Keep(r, tx[r])
    BY <1>1, <1>5 DEF Keep, TypeOK, RequestType
  <2> QED BY <1>2, <1>4, <1>5, <2>1
<1>6. CASE \E stage \in Early : \E S, x : Go(r, stage, S) /\ Keep(r, [tx[r] EXCEPT !.prev = x])
  <2>1. \A x : [tx[r] EXCEPT !.prev = x].job = tx[r].job
               /\ [tx[r] EXCEPT !.prev = x].installed = tx[r].installed
    BY <1>1 DEF TypeOK, RequestType, Handler
  <2> QED BY <1>2, <1>4, <1>6, <2>1
<1>7. CASE \E stage \in Early : \E S, x : Go(r, stage, S) /\ Keep(r, [tx[r] EXCEPT !.old = x])
  <2>1. \A x : [tx[r] EXCEPT !.old = x].job = tx[r].job
               /\ [tx[r] EXCEPT !.old = x].installed = tx[r].installed
    BY <1>1 DEF TypeOK, RequestType, Handler
  <2> QED BY <1>2, <1>4, <1>7, <2>1
<1> QED
  BY <1>1, <1>3, <1>5, <1>6, <1>7

(* The forward path between the calls that install and the one that records.    *)
LEMMA ForwardBehaves ==
    ASSUME AInv, Tidy, NEW r \in Requests, pc[r] \in Underway, UNCHANGED <<files, instances>>,
           \/ \E t : AbortTo(r, t) /\ t.job = tx[r].job /\ t.installed = tx[r].installed
           \/ \E stage \in Underway : \E S, t : /\ Go(r, stage, S) /\ Keep(r, t)
                                            /\ t.job = tx[r].job /\ t.installed = tx[r].installed
    PROVE  Behaves(r)
<1>1. TypeOK
  BY DEF AInv
<1>2. ASSUME NEW stage \in Underway, NEW S, NEW t, Go(r, stage, S), Keep(r, t),
             t.job = tx[r].job, t.installed = tx[r].installed
      PROVE  Behaves(r)
  <2>1. PendingIn(stage, S, t) = PendingIn(pc[r], todo[r], tx[r])
    BY <1>2, NothingPending
  <2> QED BY <1>1, <1>2, <2>1, GoesBehaving
<1> QED
  BY <1>2, AbortsBehaving

LEMMA SameInstalled ==
    ASSUME TypeOK, NEW r \in Requests, NEW x
    PROVE  /\ [tx[r] EXCEPT !.started = x].job = tx[r].job
           /\ [tx[r] EXCEPT !.started = x].installed = tx[r].installed
           /\ [tx[r] EXCEPT !.listed = x].job = tx[r].job
           /\ [tx[r] EXCEPT !.listed = x].installed = tx[r].installed
           /\ [tx[r] EXCEPT !.seen = x].job = tx[r].job
           /\ [tx[r] EXCEPT !.seen = x].installed = tx[r].installed
           /\ [tx[r] EXCEPT !.rbErr = x].job = tx[r].job
           /\ [tx[r] EXCEPT !.rbErr = x].installed = tx[r].installed
BY DEF TypeOK, RequestType, Handler

LEMMA KeepSame == ASSUME TypeOK, NEW r \in Requests, UNCHANGED tx PROVE Keep(r, tx[r])
BY DEF Keep, TypeOK, RequestType

LEMMA ReloadUnitsBehaves ==
    ASSUME AInv, Tidy, NEW r \in Requests, ReloadUnits(r) PROVE Behaves(r)
<1>1. pc[r] = "reload" /\ UNCHANGED <<files, instances>>
  BY StoreKeeps DEF ReloadUnits, Leave, Reload
<1>2. Abort(r) \/ \E stage \in {"save", "list"} : Go(r, stage, {}) /\ UNCHANGED tx
  BY DEF ReloadUnits
<1>3. UNCHANGED tx => Keep(r, tx[r])
  BY KeepSame DEF AInv
<1> QED
  BY <1>1, <1>2, <1>3, ForwardBehaves DEF Abort, Underway

LEMMA ListGeneratedBehaves ==
    ASSUME AInv, Tidy, NEW r \in Requests, NEW stage, NEW next, NEW S, ListGenerated(r, stage, next, S),
           stage \in {"list", "relist"}, next \in {"start", "capture"}
    PROVE  Behaves(r)
<1>1. pc[r] = stage /\ UNCHANGED <<files, instances>>
  BY StoreKeeps DEF ListGenerated, Leave, ListQuadlets
<1>2. Abort(r) \/ (Go(r, next, S) /\ Keep(r, [tx[r] EXCEPT !.listed = NamesOf(files)]))
  BY DEF ListGenerated
<1>3. pc[r] \in Underway /\ next \in Underway
  BY <1>1 DEF Underway
<1> QED
  BY <1>1, <1>2, <1>3, SameInstalled, ForwardBehaves DEF Abort, AInv

LEMMA StartUnitBehaves ==
    ASSUME AInv, Tidy, NEW r \in Requests, StartUnit(r) PROVE Behaves(r)
<1>1. pc[r] = "start" /\ UNCHANGED <<files, instances>>
  BY StoreKeeps DEF StartUnit, Visit, Leave, Start, Restart, HostSame, hostVars
<1>2. pc[r] \in Underway /\ {"verify", "relist"} \subseteq Underway
  BY <1>1 DEF Underway
<1>3. CASE \E n \in Names :
              LET t == [tx[r] EXCEPT !.started = @ \cup {n}] IN
              AbortTo(r, t) \/ (Go(r, "verify", todo[r]) /\ Keep(r, t))
  <2>1. PICK n \in Names :
            LET t == [tx[r] EXCEPT !.started = @ \cup {n}] IN
            AbortTo(r, t) \/ (Go(r, "verify", todo[r]) /\ Keep(r, t))
    BY <1>3
  <2> DEFINE t == [tx[r] EXCEPT !.started = @ \cup {n}]
  <2>2. t.job = tx[r].job /\ t.installed = tx[r].installed
    BY SameInstalled DEF AInv
  <2>3. AbortTo(r, t) \/ (Go(r, "verify", todo[r]) /\ Keep(r, t))
    BY <2>1
  <2> HIDE DEF t
  <2> QED BY <1>1, <1>2, <2>2, <2>3, ForwardBehaves
<1>4. CASE Abort(r)
  BY <1>1, <1>2, <1>4, ForwardBehaves DEF Abort
<1>5. CASE Go(r, "relist", {}) /\ UNCHANGED tx
  <2>1. Keep(r, tx[r])
    BY <1>5, KeepSame DEF AInv
  <2> QED BY <1>1, <1>2, <1>5, <2>1, ForwardBehaves
<1> QED
  BY <1>3, <1>4, <1>5 DEF StartUnit

LEMMA VerifyUnitBehaves ==
    ASSUME AInv, Tidy, NEW r \in Requests, VerifyUnit(r) PROVE Behaves(r)
<1>1. pc[r] = "verify" /\ UNCHANGED <<files, instances>>
  BY StoreKeeps DEF VerifyUnit, Visit, Verify
<1>2. Abort(r) \/ \E n \in Names : Go(r, "start", todo[r] \ {n}) /\ UNCHANGED tx
  BY DEF VerifyUnit
<1>3. UNCHANGED tx => Keep(r, tx[r])
  BY KeepSame DEF AInv
<1> QED
  BY <1>1, <1>2, <1>3, ForwardBehaves DEF Abort, Underway

LEMMA CaptureBehaves ==
    ASSUME AInv, Tidy, NEW r \in Requests, Capture(r) PROVE Behaves(r)
<1>1. pc[r] = "capture" /\ UNCHANGED <<files, instances>>
  BY StoreKeeps DEF Capture, Visit, Leave, GetQuadlet, HostSame, hostVars
<1>2. pc[r] \in Underway /\ {"capture", "save"} \subseteq Underway
  BY <1>1 DEF Underway
<1>3. CASE \E n \in Names : Advance(r, n) /\ Keep(r, [tx[r] EXCEPT !.seen[n] = files[n]])
  <2>1. PICK n \in Names : Advance(r, n) /\ Keep(r, [tx[r] EXCEPT !.seen[n] = files[n]])
    BY <1>3
  <2>2. PICK x : Keep(r, [tx[r] EXCEPT !.seen = x])
    BY <2>1
  <2>3. Go(r, "capture", todo[r] \ {n})
    BY <1>1, <2>1 DEF Advance
  <2> DEFINE t == [tx[r] EXCEPT !.seen = x]
  <2>4. t.job = tx[r].job /\ t.installed = tx[r].installed /\ Keep(r, t)
    BY <2>2, SameInstalled DEF AInv
  <2> HIDE DEF t
  <2> QED BY <1>1, <1>2, <2>3, <2>4, ForwardBehaves
<1>4. CASE Abort(r)
  BY <1>1, <1>2, <1>4, ForwardBehaves DEF Abort
<1>5. CASE Go(r, "save", {}) /\ UNCHANGED tx
  <2>1. Keep(r, tx[r])
    BY <1>5, KeepSame DEF AInv
  <2> QED BY <1>1, <1>2, <1>5, <2>1, ForwardBehaves
<1> QED
  BY <1>3, <1>4, <1>5 DEF Capture

(* Recording, and what comes after it, touches no file.                         *)
LEMMA LateBehaves ==
    ASSUME AInv, NEW r \in Requests, SaveInstance(r) \/ WriteManifest(r) \/ WriteReadme(r)
    PROVE  Behaves(r)
<1>1. TypeOK /\ UNCHANGED files
  BY DEF AInv, SaveInstance, WriteManifest, WriteReadme
<1>2. CASE SaveInstance(r)
  BY <1>1, <1>2 DEF SaveInstance, Leave, Behaves, Spares
<1>3. CASE WriteManifest(r) \/ WriteReadme(r)
  <2>1. PendingIn(pc[r], todo[r], tx[r]) = {} /\ UNCHANGED instances
    BY <1>3 DEF WriteManifest, WriteReadme, Leave, PendingIn, Underway
  <2>2. PendingIn("readme", {}, tx[r]) = {}
    BY DEF PendingIn, Underway
  <2>3. (\E said : Reply(r, said)) \/ (Go(r, "readme", {}) /\ UNCHANGED tx)
    BY <1>3 DEF WriteManifest, WriteReadme, Unrecorded
  <2> QED BY <1>1, <2>1, <2>2, <2>3, RepliesBehaving, GoesBehavingSame
<1> QED
  BY <1>2, <1>3

(* The rollback: what it does not touch, and what it puts back.                 *)
LEMMA CollectsBehaving ==
    ASSUME TypeOK, NEW r \in Requests, NEW stage, NEW S, NEW err, Go(r, stage, S), RollbackError(r, err),
           UNCHANGED <<files, instances>>,
           PendingIn(stage, S, tx[r]) = PendingIn(pc[r], todo[r], tx[r])
    PROVE  Behaves(r)
<1> DEFINE t == [tx[r] EXCEPT !.rbErr = @ \/ err]
<1>1. t.job = tx[r].job /\ t.installed = tx[r].installed /\ Keep(r, t)
  BY DEF TypeOK, RequestType, Handler, RollbackError
<1>2. PendingIn(stage, S, t) = PendingIn(stage, S, tx[r])
  BY <1>1 DEF PendingIn
<1> HIDE DEF t
<1> QED
  BY <1>1, <1>2, GoesBehaving

LEMMA UndoStopBehaves == ASSUME AInv, NEW r \in Requests, UndoStop(r) PROVE Behaves(r)
<1>1. pc[r] = "undoStop" /\ UNCHANGED <<files, instances>> /\ TypeOK
  BY StoreKeeps DEF UndoStop, VisitBack, Leave, Stop, HostSame, hostVars, AInv
<1>2. CASE \E n \in Names, err \in BOOLEAN : Advance(r, n) /\ RollbackError(r, err)
  BY <1>1, <1>2, CollectsBehaving DEF Advance, PendingIn
<1>3. CASE Go(r, "undoInstall", tx[r].installed) /\ UNCHANGED tx
  <2>1. PendingIn("undoInstall", tx[r].installed, tx[r]) = PendingIn(pc[r], todo[r], tx[r])
    BY <1>1 DEF PendingIn, Underway
  <2> QED BY <1>1, <1>3, <2>1, GoesBehavingSame
<1> QED
  BY <1>2, <1>3 DEF UndoStop

LEMMA RestartsBehave ==
    ASSUME AInv, NEW r \in Requests, UndoReload(r) \/ UndoStart(r) \/ UndoVerify(r) \/ LifecycleStep(r)
    PROVE  Behaves(r)
<1>1. UNCHANGED <<files, instances>> /\ TypeOK /\ PendingIn(pc[r], todo[r], tx[r]) = {}
  <2>1. UNCHANGED instances
    BY StoreKeeps DEF UndoReload, UndoStart, UndoVerify, LifecycleStep, storeVars
  <2>2. UNCHANGED files
    BY DEF UndoReload, UndoStart, UndoVerify, LifecycleStep, Reload, Restart, Start, Stop, Verify,
           HostSame, hostVars
  <2>3. pc[r] \in {"undoReload", "undoStart", "undoVerify", "lifecycle"}
    BY DEF UndoReload, UndoStart, UndoVerify, LifecycleStep, Visit, Leave
  <2> QED BY <2>1, <2>2, <2>3 DEF AInv, PendingIn, Underway
<1>2. ASSUME NEW stage \in {"undoStart", "undoVerify", "lifecycle"}, NEW S
      PROVE  PendingIn(stage, S, tx[r]) = {}
  BY DEF PendingIn, Underway
<1>3. CASE \E said : Reply(r, said)
  BY <1>1, <1>3, RepliesBehaving
<1>4. CASE \E stage \in {"undoStart", "undoVerify"}, err \in BOOLEAN : \E S :
              Go(r, stage, S) /\ RollbackError(r, err)
  BY <1>1, <1>2, <1>4, CollectsBehaving
<1>5. CASE \E S : Go(r, "lifecycle", S) /\ UNCHANGED tx
  BY <1>1, <1>2, <1>5, GoesBehavingSame
<1>6. CASE UndoReload(r)
  BY <1>3, <1>4, <1>6 DEF UndoReload, EndRollback
<1>7. CASE UndoStart(r)
  <2>1. CASE \E n \in Names, err \in BOOLEAN :
                /\ Visit(r, "undoStart", n) /\ RollbackError(r, err)
                /\ IF err THEN Advance(r, n) ELSE Go(r, "undoVerify", todo[r])
    <3>1. \E stage \in {"undoStart", "undoVerify"}, err \in BOOLEAN : \E S :
              Go(r, stage, S) /\ RollbackError(r, err)
      BY <2>1 DEF Visit, Advance
    <3> QED BY <3>1, <1>4
  <2>2. CASE EndRollback(r, FALSE)
    BY <2>2, <1>3 DEF EndRollback
  <2> QED BY <1>7, <2>1, <2>2 DEF UndoStart
<1>8. CASE UndoVerify(r)
  BY <1>4, <1>8 DEF UndoVerify
<1>9. CASE LifecycleStep(r)
  BY <1>3, <1>5, <1>9 DEF LifecycleStep, Visit, Advance
<1> QED
  BY <1>6, <1>7, <1>8, <1>9

--------------------------------------------------------------------------------
(* The four calls that change a file.                                           *)

(* A file that is put where there was none, or taken where it is one's own.     *)
LEMMA OneFile ==
    ASSUME TypeOK, NEW r \in Requests, NEW n \in Names, NEW c, Inst(r) \in Instances,
           files' \in {files, [files EXCEPT ![n] = c]},
           files[n] = Absent \/ OwnedBy(files[n], Inst(r)),
           c = Absent \/ OwnedBy(c, Inst(r))
    PROVE  /\ Spares(r)
           /\ \A m \in Names \ {n} : files'[m] = files[m]
           /\ files'[n] = files[n] \/ files'[n] = c
<1>1. \A m \in Names \ {n} : files'[m] = files[m]
  BY DEF TypeOK, HostType, Sources
<1>2. files'[n] = files[n] \/ files'[n] = c
  BY DEF TypeOK, HostType, Sources
<1>3. ASSUME NEW j \in Instances \ {Inst(r)}, NEW m \in Names
      PROVE  OwnedBy(files'[m], j) <=> OwnedBy(files[m], j)
  BY <1>1, <1>2, Owners
<1> QED
  BY <1>1, <1>2, <1>3 DEF Spares

LEMMA Actors ==
    ASSUME TypeOK, NEW r \in Requests, pc[r] # "idle"
    PROVE  tx[r].job \in Job /\ Inst(r) \in Instances /\ tx[r].job.src \in Sources
BY DEF TypeOK, HandlersFit, Fits, Inst, Job

(* What a call on n does to the names a client sees: nothing but at n.          *)
LEMMA ShowsElsewhere ==
    ASSUME NEW r \in Requests, NEW n, UNCHANGED instances, tx'[r].job = tx[r].job,
           \A m \in Names \ {n} : files'[m] = files[m] /\ (m \in Pending(r)' <=> m \in Pending(r))
    PROVE  \A m \in Names \ {n} : Shows(r, m)' <=> Shows(r, m)
<1>1. Inst(r)' = Inst(r) /\ Recorded(Inst(r))' = Recorded(Inst(r))
  BY DEF Inst, Recorded, Live, Managed
<1> QED
  BY <1>1 DEF Shows

LEMMA RemoveOldBehaves ==
    ASSUME AInv, Tidy, NEW r \in Requests, RemoveOld(r) PROVE Behaves(r)
<1>1. pc[r] = "removeOld" /\ UNCHANGED instances /\ TypeOK
  BY StoreKeeps DEF RemoveOld, Visit, Leave, AInv
<1>2. tx[r].installed = {} /\ PendingIn(pc[r], todo[r], tx[r]) = {}
  BY <1>1, EarlyPending DEF Early, AInv
<1>3. \A stage \in {"removeOld", "reinstall", "installNew", "reload"} : \A S, t :
        t.installed = {} => PendingIn(stage, S, t) = {}
  BY DEF PendingIn
<1>4. CASE \E stage \in {"installNew", "reload"} : \E S : Go(r, stage, S) /\ UNCHANGED <<files, tx>>
  BY <1>1, <1>2, <1>3, <1>4, GoesBehavingSame
<1>5. ASSUME NEW n \in Names, NEW err \in BOOLEAN, Visit(r, "removeOld", n),
             RemoveQuadlet(Alive(r), n, FALSE, err),
             \/ Go(r, "reinstall", tx[r].removed) /\ UNCHANGED tx
             \/ Advance(r, n) /\ Keep(r, [tx[r] EXCEPT !.removed = @ \cup {n}])
      PROVE  Behaves(r)
  <2>1. n \in todo[r] /\ Inst(r) \in Instances
    BY <1>1, <1>5, Actors DEF Visit, First
  <2>2. n \in NamesOf(Recorded(Inst(r))) /\ (files[n] = Absent \/ OwnedBy(files[n], Inst(r)))
    BY <1>1, <2>1 DEF Tidy
  <2>3. files' \in {files, [files EXCEPT ![n] = Absent]}
    BY <1>5 DEF RemoveQuadlet, Outcome
  <2>4. Spares(r) /\ \A m \in Names \ {n} : files'[m] = files[m]
    BY <1>1, <2>1, <2>2, <2>3, OneFile
  <2>5. tx'[r].job = tx[r].job /\ Pending(r)' = {}
    <3>1. CASE Go(r, "reinstall", tx[r].removed) /\ UNCHANGED tx
      BY <1>1, <1>2, <1>3, <3>1, KeepSame, PendingGoes
    <3>2. CASE Advance(r, n) /\ Keep(r, [tx[r] EXCEPT !.removed = @ \cup {n}])
      <4> DEFINE t == [tx[r] EXCEPT !.removed = @ \cup {n}]
      <4>1. t.job = tx[r].job /\ t.installed = {} /\ Keep(r, t) /\ Go(r, "removeOld", todo[r] \ {n})
        BY <1>1, <1>2, <3>2 DEF TypeOK, RequestType, Handler, Advance
      <4> HIDE DEF t
      <4>2. tx'[r] = t
        BY <1>1, <4>1 DEF Keep, TypeOK, RequestType
      <4> QED BY <1>1, <1>3, <4>1, <4>2, PendingGoes
    <3> QED BY <1>5, <3>1, <3>2
  <2>6. Pending(r) = {}
    BY <1>2, PendingIsIn
  <2>7. \A m \in Names \ {n} : Shows(r, m)' <=> Shows(r, m)
    BY <1>1, <2>4, <2>5, <2>6, ShowsElsewhere
  <2>8. ~Shows(r, n) /\ ~Shows(r, n)'
    <3>1. Inst(r)' = Inst(r) /\ Recorded(Inst(r))' = Recorded(Inst(r))
      BY <1>1, <2>5 DEF Inst, Recorded, Live, Managed
    <3> QED BY <2>2, <3>1 DEF Shows
  <2> QED BY <2>4, <2>7, <2>8 DEF Behaves, Steady
<1>6. CASE \E n \in Names, err \in BOOLEAN :
              /\ Visit(r, "removeOld", n) /\ RemoveQuadlet(Alive(r), n, FALSE, err)
              /\ \/ Go(r, "reinstall", tx[r].removed) /\ UNCHANGED tx
                 \/ Advance(r, n) /\ Keep(r, [tx[r] EXCEPT !.removed = @ \cup {n}])
  BY <1>5, <1>6
<1> QED
  BY <1>4, <1>6 DEF RemoveOld, HostSame, hostVars

LEMMA InstallNewBehaves ==
    ASSUME AInv, Tidy, NEW r \in Requests, InstallNew(r) PROVE Behaves(r)
<1>1. pc[r] = "installNew" /\ UNCHANGED instances /\ TypeOK /\ pc[r] \in Underway
  BY StoreKeeps DEF InstallNew, Visit, Leave, AInv, Underway
<1>2. Pending(r) = tx[r].installed
  BY <1>1, PendingIsIn, NothingPending
<1>3. CASE Go(r, "reload", {}) /\ UNCHANGED <<files, tx>>
  <2>1. Keep(r, tx[r]) /\ "reload" \in Underway
    BY <1>1, <1>3, KeepSame DEF Underway
  <2> QED BY <1>1, <1>3, <2>1, ForwardBehaves
<1>4. ASSUME NEW n \in Names, NEW err \in BOOLEAN, Visit(r, "installNew", n),
             InstallQuadlet(Alive(r), n, tx[r].job.src[n], err),
             IF err THEN Abort(r)
             ELSE Advance(r, n) /\ Keep(r, [tx[r] EXCEPT !.installed = @ \cup {n}])
      PROVE  Behaves(r)
  <2> DEFINE c == tx[r].job.src[n]
  <2>1. Inst(r) \in Instances /\ n \in NamesOf(tx[r].job.src)
    BY <1>1, <1>4, Actors DEF Visit, First, Tidy
  <2>2. OwnedBy(c, Inst(r))
    BY <1>1, <2>1 DEF AInv, Plain, Authored, Inst
  <2>3. files' = files \/ (files[n] = Absent /\ files' = [files EXCEPT ![n] = c])
    BY <1>4 DEF InstallQuadlet, Outcome
  <2>4. ~err => files[n] = Absent /\ files' = [files EXCEPT ![n] = c]
    BY <1>4 DEF InstallQuadlet, Outcome, Answer
  <2> HIDE DEF c
  <2>5. CASE files' = files /\ err
    BY <1>1, <1>4, <2>5, AbortsBehavingSame
  <2>6. CASE files[n] = Absent /\ files' = [files EXCEPT ![n] = c]
    <3>1. Spares(r) /\ \A m \in Names \ {n} : files'[m] = files[m]
      BY <1>1, <2>1, <2>2, <2>6, OneFile
    <3>2. ~Shows(r, n)
      BY <2>1, <2>6, Owners DEF Shows
    <3>3. CASE err
      <4>1. Pending(r)' = Pending(r)
        BY <1>1, <1>4, <3>3, AbortPending DEF Abort
      <4>2. tx'[r].job = tx[r].job /\ pc'[r] \in {"undoInstall", "undoStop", "reinstall"}
        BY <1>1, <1>4, <3>3 DEF Abort, AbortTo, Keep, Go, TypeOK, RequestType
      <4>3. \A m \in Names \ {n} : Shows(r, m)' <=> Shows(r, m)
        BY <1>1, <3>1, <4>1, <4>2, ShowsElsewhere
      <4>4. Slips(r)
        BY <1>1, <2>1, <3>2, <4>2, <4>3 DEF Slips, UndoStages
      <4> QED BY <3>1, <4>4 DEF Behaves
    <3>4. CASE ~err
      <4> DEFINE t == [tx[r] EXCEPT !.installed = @ \cup {n}]
      <4>1. /\ t.job = tx[r].job /\ t.installed = tx[r].installed \cup {n}
            /\ Keep(r, t) /\ Go(r, "installNew", todo[r] \ {n})
        BY <1>1, <1>4, <3>4 DEF TypeOK, RequestType, Handler, Advance
      <4> HIDE DEF t
      <4>2. Pending(r)' = tx[r].installed \cup {n} /\ tx'[r].job = tx[r].job
        <5>1. PendingIn("installNew", todo[r] \ {n}, t) = t.installed
          BY DEF PendingIn, Underway
        <5>2. Pending(r)' = PendingIn("installNew", todo[r] \ {n}, t)
          BY <1>1, <4>1, PendingGoes
        <5> QED BY <1>1, <4>1, <5>1, <5>2 DEF Keep, TypeOK, RequestType
      <4>3. \A m \in Names \ {n} : Shows(r, m)' <=> Shows(r, m)
        BY <1>1, <1>2, <3>1, <4>2, ShowsElsewhere
      <4>4. ~Shows(r, n)'
        BY <4>2 DEF Shows
      <4> QED BY <3>1, <3>2, <4>3, <4>4 DEF Behaves, Steady
    <3> QED BY <3>3, <3>4
  <2> QED BY <2>3, <2>4, <2>5, <2>6
<1> QED
  BY <1>3, <1>4 DEF InstallNew, HostSame, hostVars

LEMMA UndoInstallBehaves ==
    ASSUME AInv, Tidy, NEW r \in Requests, UndoInstall(r) PROVE Behaves(r)
<1>1. pc[r] = "undoInstall" /\ UNCHANGED instances /\ TypeOK
  BY StoreKeeps DEF UndoInstall, VisitBack, Leave, AInv
<1>2. Pending(r) = todo[r]
  BY <1>1, PendingIsIn DEF PendingIn
<1>3. CASE todo[r] = {} /\ \E stage \in {"undoReload", "reinstall"} :
              \E S : Go(r, stage, S) /\ UNCHANGED <<files, tx>>
  <2>1. \A stage \in {"undoReload", "reinstall"} : \A S : PendingIn(stage, S, tx[r]) = {}
    BY DEF PendingIn, Underway
  <2>2. PendingIn(pc[r], todo[r], tx[r]) = {}
    BY <1>2, <1>3, PendingIsIn
  <2> QED BY <1>1, <1>3, <2>1, <2>2, GoesBehavingSame
<1>4. ASSUME NEW n \in Names, NEW err \in BOOLEAN, VisitBack(r, "undoInstall", n),
             RemoveQuadlet(Alive(r), n, Op(r) = "install", err),
             Advance(r, n), RollbackError(r, err)
      PROVE  Behaves(r)
  <2>1. n \in todo[r] /\ Inst(r) \in Instances /\ tx[r].job.src \in Sources
    BY <1>1, <1>4, Actors DEF VisitBack, Last
  <2>2. files[n] = Absent \/ OwnedBy(files[n], Inst(r))
    <3>1. files[n] \in {Absent, tx[r].job.src[n]}
      BY <1>1, <2>1 DEF Tidy
    <3>2. tx[r].job.src[n] # Absent => OwnedBy(tx[r].job.src[n], Inst(r))
      BY <1>1 DEF AInv, Plain, Authored, NamesOf, Inst
    <3> QED BY <3>1, <3>2
  <2>3. files' \in {files, [files EXCEPT ![n] = Absent]}
    BY <1>4 DEF RemoveQuadlet, Outcome
  <2>4. Spares(r) /\ \A m \in Names \ {n} : files'[m] = files[m]
    BY <1>1, <2>1, <2>2, <2>3, OneFile
  <2> DEFINE t == [tx[r] EXCEPT !.rbErr = @ \/ err]
  <2>5. t.job = tx[r].job /\ t.rbErr = (tx[r].rbErr \/ err) /\ Keep(r, t) /\ Go(r, "undoInstall", todo[r] \ {n})
    BY <1>1, <1>4 DEF TypeOK, RequestType, Handler, Advance, RollbackError
  <2> HIDE DEF t
  <2>6. Pending(r)' = todo[r] \ {n} /\ tx'[r] = t
    <3>1. Pending(r)' = PendingIn("undoInstall", todo[r] \ {n}, t)
      BY <1>1, <2>5, PendingGoes
    <3> QED BY <1>1, <2>5, <3>1 DEF Keep, TypeOK, RequestType, PendingIn
  <2>7. \A m \in Names \ {n} : Shows(r, m)' <=> Shows(r, m)
    BY <1>1, <1>2, <2>4, <2>5, <2>6, ShowsElsewhere
  <2>8. CASE err
    BY <2>4, <2>5, <2>6, <2>8 DEF Behaves
  <2>9. CASE ~err
    <3>1. files' = [files EXCEPT ![n] = Absent]
      BY <1>4, <2>9 DEF RemoveQuadlet, Outcome, Answer
    <3>2. files'[n] = Absent
      BY <1>1, <3>1 DEF TypeOK, HostType, Sources
    <3>3. Inst(r)' = Inst(r)
      BY <2>5, <2>6 DEF Inst
    <3>4. ~Shows(r, n)'
      BY <2>1, <3>2, <3>3, Owners DEF Shows
    <3>5. ~Shows(r, n)
      BY <1>2, <2>1 DEF Shows
    <3> QED BY <2>4, <2>7, <3>4, <3>5 DEF Behaves, Steady
  <2> QED BY <2>8, <2>9
<1> QED
  BY <1>3, <1>4 DEF UndoInstall, Leave, HostSame, hostVars

LEMMA ReinstallBehaves ==
    ASSUME AInv, Tidy, NEW r \in Requests, Reinstall(r) PROVE Behaves(r)
<1>1. pc[r] = "reinstall" /\ UNCHANGED instances /\ TypeOK
  BY StoreKeeps DEF Reinstall, Visit, Leave, AInv
<1>2. \A stage \in {"reinstall", "undoReload"} : \A S, t : PendingIn(stage, S, t) = {}
  BY DEF PendingIn, Underway
<1>3. CASE Go(r, "undoReload", {}) /\ UNCHANGED <<files, tx>>
  BY <1>1, <1>2, <1>3, GoesBehavingSame
<1>4. ASSUME NEW n \in Names, NEW err \in BOOLEAN, Visit(r, "reinstall", n),
             InstallQuadlet(Alive(r), n, tx[r].old[n], err), Advance(r, n), RollbackError(r, err)
      PROVE  Behaves(r)
  <2> DEFINE c == tx[r].old[n]
  <2>1. n \in todo[r] /\ Inst(r) \in Instances
    BY <1>1, <1>4, Actors DEF Visit, First
  <2>2. n \in NamesOf(Recorded(Inst(r))) /\ OwnedBy(c, Inst(r))
    BY <1>1, <2>1 DEF Tidy
  <2>3. files' = files \/ (files[n] = Absent /\ files' = [files EXCEPT ![n] = c])
    BY <1>4 DEF InstallQuadlet, Outcome
  <2> HIDE DEF c
  <2>4. Spares(r) /\ \A m \in Names \ {n} : files'[m] = files[m]
    <3>1. CASE files' = files
      BY <3>1 DEF Spares
    <3>2. CASE files[n] = Absent /\ files' = [files EXCEPT ![n] = c]
      BY <1>1, <2>1, <2>2, <3>2, OneFile
    <3> QED BY <2>3, <3>1, <3>2
  <2> DEFINE t == [tx[r] EXCEPT !.rbErr = @ \/ err]
  <2>5. t.job = tx[r].job /\ Keep(r, t) /\ Go(r, "reinstall", todo[r] \ {n})
    BY <1>1, <1>4 DEF TypeOK, RequestType, Handler, Advance, RollbackError
  <2> HIDE DEF t
  <2>6. Pending(r)' = {} /\ Pending(r) = {} /\ tx'[r].job = tx[r].job
    <3>1. Pending(r)' = PendingIn("reinstall", todo[r] \ {n}, t)
      BY <1>1, <2>5, PendingGoes
    <3> QED BY <1>1, <1>2, <2>5, <3>1, PendingIsIn DEF Keep, TypeOK, RequestType
  <2>7. \A m \in Names \ {n} : Shows(r, m)' <=> Shows(r, m)
    BY <1>1, <2>4, <2>6, ShowsElsewhere
  <2>8. ~Shows(r, n) /\ ~Shows(r, n)'
    <3>1. Inst(r)' = Inst(r) /\ Recorded(Inst(r))' = Recorded(Inst(r))
      BY <1>1, <2>6 DEF Inst, Recorded, Live, Managed
    <3> QED BY <2>2, <3>1 DEF Shows
  <2> QED BY <2>4, <2>7, <2>8 DEF Behaves, Steady
<1> QED
  BY <1>3, <1>4 DEF Reinstall, HostSame, hostVars

LEMMA StepBehaves == ASSUME AInv, Tidy, NEW r \in Requests, Step(r) PROVE Behaves(r)
BY ReadingBehaves, RemoveOldBehaves, InstallNewBehaves, ReloadUnitsBehaves, ListGeneratedBehaves,
   StartUnitBehaves, VerifyUnitBehaves, CaptureBehaves, LateBehaves, UndoStopBehaves,
   UndoInstallBehaves, ReinstallBehaves, RestartsBehave
   DEF Step, FindUnits, Relist

--------------------------------------------------------------------------------
(* What is left behind, seen from one handler and from all the others.          *)

Strays(i) ==
    {n \in Names : OwnedBy(files[n], i) /\ n \notin Accounted(i) /\ n \notin NamesOf(Recorded(i))}

Remains == [i \in Instances |-> IF Doubtful(i) THEN {} ELSE Strays(i)]

LEMMA AccountedIs ==
    \A i, n : n \in Accounted(i) <=> \E q \in Requests : Active(q) /\ Inst(q) = i /\ n \in Pending(q)
BY DEF Accounted

LEMMA AccountedIsNext ==
    \A i, n : n \in Accounted(i)' <=>
        \E q \in Requests : Active(q)' /\ Inst(q)' = i /\ n \in Pending(q)'
BY DEF Accounted

LEMMA ReplacedIsRecorded ==
    ASSUME Tidy, NEW i
    PROVE  Replaced(i) \subseteq NamesOf(Recorded(i))
<1> SUFFICES ASSUME NEW r \in Requests, Active(r), Inst(r) = i, Op(r) \in {"update", "remove"},
                    pc[r] \notin Reading \cup {"stop", "manifest", "readme"}
             PROVE  NamesOf(tx[r].prev.src) \subseteq NamesOf(Recorded(i))
  BY DEF Replaced
<1> QED
  BY DEF Tidy, Active

LEMMA ReplacedIsRecordedNext ==
    ASSUME Tidy', NEW i
    PROVE  Replaced(i)' \subseteq NamesOf(Recorded(i)')
<1> SUFFICES ASSUME NEW r \in Requests, Active(r)', Inst(r)' = i, Op(r)' \in {"update", "remove"},
                    pc'[r] \notin Reading \cup {"stop", "manifest", "readme"}
             PROVE  NamesOf(tx'[r].prev.src) \subseteq NamesOf(Recorded(i)')
  BY DEF Replaced, NamesOf
<1>1. NamesOf(tx'[r].prev.src) \subseteq NamesOf(Recorded(Inst(r))')
  BY DEF Tidy, Active, NamesOf
<1>2. Recorded(Inst(r))' = Recorded(i)'
  BY DEF Recorded, Live, Managed
<1> QED
  BY <1>1, <1>2

LEMMA LeftIsRemains == Tidy => Left = Remains
<1> SUFFICES ASSUME Tidy, NEW i \in Instances PROVE LeftBehind(i) = Strays(i)
  BY DEF Left, Remains
<1> QED
  BY ReplacedIsRecorded DEF LeftBehind, Strays

LEMMA LeftIsRemainsNext == Tidy' => Left' = Remains'
<1> SUFFICES ASSUME Tidy', NEW i \in Instances PROVE LeftBehind(i)' = Strays(i)'
  BY DEF Left, Remains
<1>1. NamesOf(Recorded(i))' = NamesOf(Recorded(i)')
  BY DEF NamesOf
<1>2. Replaced(i)' \subseteq NamesOf(Recorded(i))'
  BY <1>1, ReplacedIsRecordedNext
<1> QED
  BY <1>2 DEF LeftBehind, Strays

(* The files that the other handlers about the instance of r have in hand.      *)
InOtherHands(r, n) ==
    \E q \in Requests \ {r} : Active(q) /\ Inst(q) = Inst(r) /\ n \in Pending(q)

LEMMA Idlers ==
    /\ \A q \in Requests : pc[q] \in {"idle", "done"} => Pending(q) = {}
    /\ \A q \in Requests : pc'[q] \in {"idle", "done"} => Pending(q)' = {}
BY DEF Pending, Underway

LEMMA StraysHere ==
    ASSUME NEW r \in Requests, NEW i, Inst(r) = i, NEW n \in Names
    PROVE  n \in Strays(i) <=> Shows(r, n) /\ ~InOtherHands(r, n)
<1>1. n \in Accounted(i) <=> n \in Pending(r) \/ InOtherHands(r, n)
  <2>1. n \in Pending(r) => Active(r)
    BY Idlers DEF Active
  <2> QED BY <2>1, AccountedIs DEF InOtherHands
<1> QED
  BY <1>1 DEF Strays, Shows

LEMMA StraysHereNext ==
    ASSUME NEW r \in Requests, NEW i, Inst(r)' = i, NEW n \in Names
    PROVE  n \in Strays(i)' <=> Shows(r, n)' /\ ~InOtherHands(r, n)'
<1>1. n \in Accounted(i)' <=> n \in Pending(r)' \/ InOtherHands(r, n)'
  <2>1. n \in Pending(r)' => Active(r)'
    BY Idlers DEF Active
  <2> QED BY <2>1, AccountedIsNext DEF InOtherHands
<1>2. Recorded(Inst(r))' = Recorded(i)'
  BY DEF Recorded, Live, Managed
<1>3. n \in NamesOf(Recorded(Inst(r)))' <=> n \in NamesOf(Recorded(i))'
  BY <1>2 DEF NamesOf
<1> QED
  BY <1>1, <1>3 DEF Strays, Shows

LEMMA OtherHandsStay ==
    ASSUME NEW r \in Requests, Bystanders(r), Inst(r)' = Inst(r), NEW n
    PROVE  InOtherHands(r, n)' <=> InOtherHands(r, n)
BY DEF InOtherHands, Bystanders, Active, Inst, Pending

LEMMA StraysSteady ==
    ASSUME NEW r \in Requests, Bystanders(r), tx'[r].job = tx[r].job, Steady(r)
    PROVE  Strays(Inst(r))' = Strays(Inst(r))
<1>1. PICK i : i = Inst(r)
  OBVIOUS
<1>2. Inst(r)' = i
  BY <1>1 DEF Inst
<1>3. \A n \in Names : n \in Strays(i)' <=> n \in Strays(i)
  BY <1>1, <1>2, StraysHere, StraysHereNext, OtherHandsStay DEF Steady
<1>4. Strays(i)' = Strays(i)
  BY <1>3 DEF Strays
<1>5. Strays(Inst(r))' = Strays(i)'
  BY <1>1, <1>2 DEF Strays, Accounted, Recorded, Live, Managed
<1> QED
  BY <1>1, <1>4, <1>5

LEMMA StraysSlip ==
    ASSUME NEW r \in Requests, NEW i, i = Inst(r), Bystanders(r), tx'[r].job = tx[r].job,
           UNCHANGED instances, Slips(r)
    PROVE  \/ Strays(i)' = Strays(i)
           \/ \E n \in NamesOf(tx[r].job.src) \ NamesOf(Recorded(i)) : Strays(i)' = Strays(i) \cup {n}
<1>1. Inst(r)' = i
  BY DEF Inst
<1>2. PICK n \in NamesOf(tx[r].job.src) :
        (\A m \in Names \ {n} : Shows(r, m)' <=> Shows(r, m)) /\ ~Shows(r, n)
  BY DEF Slips
<1>3. \A m \in Names \ {n} : m \in Strays(i)' <=> m \in Strays(i)
  BY <1>1, <1>2, StraysHere, StraysHereNext, OtherHandsStay
<1>4. n \notin Strays(i) /\ n \in Names
  BY <1>1, <1>2, StraysHere DEF NamesOf
<1>5. n \in Strays(i)' => n \notin NamesOf(Recorded(i))
  <2>1. Recorded(i)' = Recorded(i)
    BY DEF Recorded, Live, Managed
  <2> QED BY <2>1 DEF Strays, NamesOf
<1>6. Strays(i) \subseteq Names /\ Strays(i)' \subseteq Names
  BY DEF Strays
<1>7. CASE n \notin Strays(i)'
  BY <1>3, <1>4, <1>6, <1>7
<1>8. CASE n \in Strays(i)'
  BY <1>2, <1>3, <1>4, <1>5, <1>6, <1>8
<1> QED
  BY <1>7, <1>8

LEMMA StraysElsewhere ==
    ASSUME NEW r \in Requests, Bystanders(r), tx'[r].job = tx[r].job, Spares(r),
           NEW j \in Instances \ {Inst(r)}, instances'[j] = instances[j]
    PROVE  Strays(j)' = Strays(j)
<1>1. Inst(r)' = Inst(r) /\ Recorded(j)' = Recorded(j)
  BY DEF Inst, Recorded, Live, Managed
<1>2. \A n : n \in Accounted(j)' <=> n \in Accounted(j)
  <2>1. \A q \in Requests : Inst(q) = j \/ Inst(q)' = j => q # r
    BY <1>1
  <2>2. \A q \in Requests \ {r} : /\ Active(q)' <=> Active(q)
                                 /\ Inst(q)' = Inst(q) /\ Pending(q)' = Pending(q)
    BY DEF Bystanders, Active, Inst, Pending
  <2> QED BY <2>1, <2>2, AccountedIs, AccountedIsNext
<1>3. \A n : n \in NamesOf(Recorded(j))' <=> n \in NamesOf(Recorded(j))
  BY <1>1 DEF NamesOf
<1> QED
  BY <1>2, <1>3 DEF Strays, Spares

--------------------------------------------------------------------------------
(* What a client sees of such a step.                                           *)

LEMMA Phased ==
    /\ \A failed : PhaseOf("idle", failed) = "idle" /\ PhaseOf("done", failed) = "answered"
    /\ \A stage \in Applied : \A failed : PhaseOf(stage, failed) = "applied"
    /\ \A stage \in UndoStages : PhaseOf(stage, TRUE) = "lost" /\ PhaseOf(stage, FALSE) = "failing"
    /\ \A stage \in Stages \ (Applied \cup UndoStages \cup {"idle", "done"}) : \A failed :
          PhaseOf(stage, failed) = "accepted"
BY DEF PhaseOf, Applied, UndoStages

LEMMA PhasesMove ==
    ASSUME NEW r \in Requests, Bystanders(r)
    PROVE  Phases' = [Phases EXCEPT ![r] = PhaseOf(pc'[r], tx'[r].rbErr)]
BY DEF Phases, Bystanders

LEMMA OrdersStay ==
    ASSUME NEW r \in Requests, Bystanders(r), pc[r] # "idle", pc'[r] # "idle", tx'[r].job = tx[r].job
    PROVE  Orders' = Orders
BY DEF Orders, Bystanders, Inst, Op

LEMMA ToldMoves ==
    ASSUME NEW r \in Requests, Bystanders(r)
    PROVE  Told' = [Told EXCEPT ![r] = tx'[r].answer]
BY DEF Told, Bystanders

LEMMA DoubtfulIs ==
    /\ \A i : Doubtful(i) <=> i \in suspect \/ \E q \in Requests : Active(q) /\ Inst(q) = i /\ tx[q].rbErr
    /\ \A i : Doubtful(i)' <=>
          i \in suspect' \/ \E q \in Requests : Active(q)' /\ Inst(q)' = i /\ tx'[q].rbErr
BY DEF Doubtful

(* The doubts a handler raises or leaves about its own instance.                *)
LEMMA DoubtElsewhere ==
    ASSUME NEW r \in Requests, Bystanders(r), tx'[r].job = tx[r].job, NEW i, i # Inst(r),
           i \in suspect' <=> i \in suspect
    PROVE  Doubtful(i)' <=> Doubtful(i)
<1>1. Inst(r)' = Inst(r)
  BY DEF Inst
<1>2. \A q \in Requests \ {r} : /\ Active(q)' <=> Active(q)
                               /\ Inst(q)' = Inst(q) /\ tx'[q].rbErr = tx[q].rbErr
  BY DEF Bystanders, Active, Inst
<1> QED
  BY <1>1, <1>2, DoubtfulIs

LEMMA DoubtSame ==
    ASSUME NEW r \in Requests, Bystanders(r), tx'[r].job = tx[r].job, NEW i, UNCHANGED suspect,
           (Active(r)' /\ tx'[r].rbErr) <=> (Active(r) /\ tx[r].rbErr)
    PROVE  Doubtful(i)' <=> Doubtful(i)
<1>1. Inst(r)' = Inst(r)
  BY DEF Inst
<1>2. \A q \in Requests \ {r} : /\ Active(q)' <=> Active(q)
                               /\ Inst(q)' = Inst(q) /\ tx'[q].rbErr = tx[q].rbErr
  BY DEF Bystanders, Active, Inst
<1> QED
  BY <1>1, <1>2, DoubtfulIs

LEMMA RecordedIsSource ==
    ASSUME TypeOK, NEW i \in Instances PROVE Recorded(i) \in Sources /\ Recorded(i) # NoRecord
<1>1. Recorded(i) \in Sources
  BY NothingIsASource DEF TypeOK, StoreType, Record, Recorded, Live, Managed
<1> QED
  BY <1>1, NoSourceAssumption

LEMMA RecordedSame == ASSUME UNCHANGED instances, NEW i PROVE Recorded(i)' = Recorded(i)
BY DEF Recorded, Live, Managed

(* The state a client sees, before and after.                                   *)
Bridge ==
    /\ Mapped = Deployed /\ Mapped' = Deployed'
    /\ Left = Remains /\ Left' = Remains'

LEMMA DeploymentIs == D!deploymentVars = <<Mapped, Left, Phases, Orders, Told>>
BY DEF D!deploymentVars, Mapped, Left, Phases, Orders, Told

LEMMA DeploymentStays ==
    ASSUME Bridge, Deployed' = Deployed, Remains' = Remains, Phases' = Phases, Orders' = Orders,
           Told' = Told
    PROVE  UNCHANGED D!deploymentVars
BY DEF Bridge, D!deploymentVars, Mapped, Left, Phases, Orders, Told

(* What a client sees stays as it is, but for the instance of the handler.      *)
LEMMA SeenElsewhere ==
    ASSUME NEW r \in Requests, Bystanders(r), tx'[r].job = tx[r].job, Spares(r),
           NEW j \in Instances \ {Inst(r)}, instances'[j] = instances[j],
           j \in suspect' <=> j \in suspect
    PROVE  Deployed'[j] = Deployed[j] /\ Remains'[j] = Remains[j]
<1>1. Doubtful(j)' <=> Doubtful(j)
  BY DoubtElsewhere
<1>2. Strays(j)' = Strays(j) /\ Recorded(j)' = Recorded(j)
  BY StraysElsewhere DEF Recorded, Live, Managed
<1> QED
  BY <1>1, <1>2 DEF Deployed, Remains

LEMMA SeenSame ==
    ASSUME TypeOK, NEW r \in Requests, Inst(r) \in Instances, Bystanders(r), tx'[r].job = tx[r].job,
           Spares(r), Steady(r) \/ Doubtful(Inst(r)), UNCHANGED <<instances, suspect>>,
           (Active(r)' /\ tx'[r].rbErr) <=> (Active(r) /\ tx[r].rbErr)
    PROVE  Deployed' = Deployed /\ Remains' = Remains
<1>1. \A i : Doubtful(i)' <=> Doubtful(i)
  BY DoubtSame
<1>2. Deployed' = Deployed
  BY <1>1, RecordedSame DEF Deployed
<1>3. ASSUME NEW i \in Instances PROVE Remains'[i] = Remains[i]
  <2>1. CASE i # Inst(r)
    BY <2>1, SeenElsewhere
  <2>2. CASE i = Inst(r) /\ Doubtful(i)
    BY <1>1, <2>2 DEF Remains
  <2>3. CASE i = Inst(r) /\ Steady(r)
    <3>1. Strays(Inst(r))' = Strays(Inst(r))
      BY <2>3, StraysSteady
    <3>2. Inst(r)' = Inst(r)
      BY DEF Inst
    <3>3. Strays(i)' = Strays(i)
      BY <2>3, <3>1, <3>2 DEF Strays, Accounted, Recorded, Live, Managed
    <3> QED BY <1>1, <3>3 DEF Remains
  <2> QED BY <2>1, <2>2, <2>3
<1>4. Remains' = Remains
  BY <1>3 DEF Remains
<1> QED
  BY <1>2, <1>4

LEMMA SeenLost ==
    ASSUME TypeOK, NEW r \in Requests, Inst(r) \in Instances, Bystanders(r), tx'[r].job = tx[r].job,
           Spares(r), Doubtful(Inst(r))', UNCHANGED instances,
           \A j \in Instances \ {Inst(r)} : j \in suspect' <=> j \in suspect
    PROVE  /\ Deployed' = [i \in Instances |-> IF i \in {Inst(r)} THEN NoRecord ELSE Deployed[i]]
           /\ Remains' = [i \in Instances |-> IF i \in {Inst(r)} THEN {} ELSE Remains[i]]
<1>1. PICK k \in Instances : k = Inst(r)
  OBVIOUS
<1>2. Inst(r)' = k
  BY <1>1 DEF Inst
<1>3. Doubtful(k)'
  BY <1>2 DEF Doubtful
<1>4. Deployed'[k] = NoRecord /\ Remains'[k] = {}
  BY <1>3 DEF Deployed, Remains
<1>5. \A j \in Instances \ {k} : Deployed'[j] = Deployed[j] /\ Remains'[j] = Remains[j]
  BY <1>1, SeenElsewhere
<1>6. /\ Deployed' = [i \in Instances |-> Deployed'[i]]
      /\ Remains' = [i \in Instances |-> Remains'[i]]
  BY DEF Deployed, Remains
<1> QED
  BY <1>1, <1>4, <1>5, <1>6

LEMMA NoErrorForward ==
    ASSUME AInv, NEW r \in Requests, Active(r), pc[r] \notin UndoStages
    PROVE  tx[r].rbErr = FALSE
BY DEF AInv, Plain, Active, TypeOK, RequestType, Handler

(* Deployment's view of the steps that go on.                                   *)
LEMMA StaysInUndo ==
    ASSUME AInv, AInv', Tidy, Bridge, NEW r \in Requests, Stays(r), Behaves(r), pc[r] \in UndoStages
    PROVE  D!Spoil(r) \/ UNCHANGED D!deploymentVars
<1>1. /\ TypeOK /\ Bystanders(r) /\ tx'[r].job = tx[r].job /\ UNCHANGED <<instances, suspect>>
      /\ Active(r) /\ pc'[r] \in UndoStages /\ (tx[r].rbErr => tx'[r].rbErr)
      /\ tx[r].rbErr \in BOOLEAN /\ tx'[r].rbErr \in BOOLEAN
  BY DEF Stays, AInv, TypeOK, RequestType, Handler
<1>2. Inst(r) \in Instances /\ Active(r)' /\ Spares(r)
  BY <1>1, Actors DEF Active, UndoStages, Behaves
<1>3. Orders' = Orders /\ Told' = Told
  <2>1. Orders' = Orders
    BY <1>1, OrdersStay DEF Active, UndoStages
  <2>2. Told' = Told
    BY ToldMoves DEF Stays, Told
  <2> QED BY <2>1, <2>2
<1>4. CASE tx'[r].rbErr = tx[r].rbErr
  <2>1. Doubtful(Inst(r)) \/ Steady(r)
    <3>1. CASE tx[r].rbErr
      BY <1>1, <3>1, DoubtfulIs
    <3>2. CASE ~tx[r].rbErr
      BY <1>4, <3>2 DEF Behaves, Slips, UndoStages
    <3> QED BY <3>1, <3>2
  <2>2. Deployed' = Deployed /\ Remains' = Remains
    BY <1>1, <1>2, <1>4, <2>1, SeenSame
  <2>3. PhaseOf(pc'[r], tx'[r].rbErr) = PhaseOf(pc[r], tx[r].rbErr)
    BY <1>1, <1>4, Phased
  <2>4. Phases' = Phases
    BY <1>1, <2>3, PhasesMove DEF Phases
  <2> QED BY <1>3, <2>2, <2>4, DeploymentStays
<1>5. CASE ~tx[r].rbErr /\ tx'[r].rbErr
  <2>1. Phases[r] = "failing" /\ Phases' = [Phases EXCEPT ![r] = "lost"]
    BY <1>1, <1>5, Phased, PhasesMove DEF Phases
  <2>2. Doubtful(Inst(r))'
    BY <1>2, <1>5 DEF Doubtful, Active, Inst
  <2>3. /\ Deployed' = [i \in Instances |-> IF i \in {Inst(r)} THEN NoRecord ELSE Deployed[i]]
        /\ Remains' = [i \in Instances |-> IF i \in {Inst(r)} THEN {} ELSE Remains[i]]
    BY <1>1, <1>2, <2>2, SeenLost
  <2>4. Orders[r].inst = Inst(r)
    BY <1>1 DEF Orders, Active
  <2>5. D!Spoil(r)
    BY <1>3, <2>1, <2>3, <2>4
       DEF D!Spoil, D!MoveTo, D!Lose, Bridge, Mapped, Left, Phases, Orders, Told
  <2> QED BY <2>5
<1> QED
  BY <1>1, <1>4, <1>5

LEMMA StaysFails ==
    ASSUME AInv, AInv', Tidy, Bridge, NEW r \in Requests, Stays(r), Behaves(r), pc[r] \notin UndoStages,
           pc'[r] \in UndoStages
    PROVE  D!Fail(r)
<1>1. /\ TypeOK /\ Bystanders(r) /\ tx'[r].job = tx[r].job /\ UNCHANGED <<instances, suspect>>
      /\ Active(r) /\ tx[r].rbErr = FALSE /\ tx'[r].rbErr = FALSE
  BY NoErrorForward DEF Stays, AInv
<1>2. Inst(r) \in Instances /\ Spares(r) /\ pc[r] # "save"
  BY <1>1, Actors DEF Active, Stays, Behaves
<1>3. pc[r] \in Stages \ (Applied \cup UndoStages \cup {"idle", "done"})
  BY DEF Stays, Active, UndoStages, Applied, AInv, TypeOK, RequestType
<1>4. Phases[r] = "accepted" /\ Phases' = [Phases EXCEPT ![r] = "failing"]
  <2>1. PhaseOf(pc[r], FALSE) = "accepted" /\ PhaseOf(pc'[r], FALSE) = "failing"
    BY <1>3, Phased
  <2> QED BY <1>1, <2>1, PhasesMove DEF Phases
<1>5. Orders' = Orders /\ Told' = Told
  <2>1. Orders' = Orders
    BY <1>1, OrdersStay DEF Active, UndoStages
  <2>2. Told' = Told
    BY ToldMoves DEF Stays, Told
  <2> QED BY <2>1, <2>2
<1>6. Orders[r].inst = Inst(r) /\ Orders[r].want = tx[r].job.src /\ Orders[r].want # NoPlan
  <2>1. tx'[r].job.op \in PlanOps
    BY DEF AInv, TypeOK, HandlersFit, Fits, UndoStages
  <2>2. tx[r].job.src # NoPlan
    BY <1>1, Actors, NoSourceAssumption DEF Active
  <2> QED BY <1>1, <2>1, <2>2 DEF Orders, Active, Op
<1>7. \A i : Doubtful(i)' <=> Doubtful(i)
  BY <1>1, DoubtSame
<1>8. Deployed' = Deployed
  BY <1>1, <1>7, RecordedSame DEF Deployed
<1>9. \/ Remains' = Remains
      \/ /\ Deployed[Inst(r)] # NoRecord
         /\ \E n \in NamesOf(tx[r].job.src) \ NamesOf(Deployed[Inst(r)]) :
               Remains' = [Remains EXCEPT ![Inst(r)] = @ \cup {n}]
  <2>1. CASE Steady(r) \/ Doubtful(Inst(r))
    BY <1>1, <1>2, <2>1, SeenSame
  <2>2. CASE Slips(r) /\ ~Doubtful(Inst(r))
    <3>1. PICK i \in Instances : i = Inst(r)
      BY <1>2
    <3>2. Deployed[i] = Recorded(i) /\ Recorded(i) # NoRecord
      BY <1>1, <2>2, <3>1, RecordedIsSource DEF Deployed
    <3>3. \A j \in Instances \ {i} : Remains'[j] = Remains[j]
      BY <1>1, <1>2, <3>1, SeenElsewhere
    <3>4. Remains[i] = Strays(i) /\ Remains'[i] = Strays(i)'
      BY <1>7, <2>2, <3>1 DEF Remains
    <3>5. CASE Strays(i)' = Strays(i)
      <4>1. \A j \in Instances : Remains'[j] = Remains[j]
        BY <3>3, <3>4, <3>5
      <4> QED BY <4>1 DEF Remains
    <3>6. CASE \E n \in NamesOf(tx[r].job.src) \ NamesOf(Recorded(i)) : Strays(i)' = Strays(i) \cup {n}
      <4>1. PICK n \in NamesOf(tx[r].job.src) \ NamesOf(Recorded(i)) : Strays(i)' = Strays(i) \cup {n}
        BY <3>6
      <4>2. \A j \in Instances : Remains'[j] = [Remains EXCEPT ![i] = @ \cup {n}][j]
        BY <3>3, <3>4, <4>1 DEF Remains
      <4>3. Remains' = [Remains EXCEPT ![i] = @ \cup {n}]
        BY <4>2 DEF Remains
      <4> QED BY <3>1, <3>2, <4>1, <4>3
    <3> QED BY <1>1, <2>2, <3>1, <3>5, <3>6, StraysSlip
  <2> QED BY <1>1, <1>2, <2>1, <2>2 DEF Behaves
<1>10. D!Files(tx[r].job.src) = NamesOf(tx[r].job.src)
       /\ D!Files(Deployed[Inst(r)]) = NamesOf(Deployed[Inst(r)])
  BY DEF D!Files, NamesOf
<1>11. \/ Left' = Left
       \/ /\ Mapped[Orders[r].inst] # NoRecord
          /\ \E n \in D!Files(Orders[r].want) \ D!Files(Mapped[Orders[r].inst]) :
                Left' = [Left EXCEPT ![Orders[r].inst] = @ \cup {n}]
  BY <1>6, <1>9, <1>10 DEF Bridge
<1> QED
  BY <1>4, <1>5, <1>6, <1>8, <1>11 DEF D!Fail, D!MoveTo, Bridge, Mapped, Left, Phases, Orders, Told

LEMMA StaysForward ==
    ASSUME AInv, AInv', Tidy, Bridge, NEW r \in Requests, Stays(r), Behaves(r), pc[r] \notin UndoStages,
           pc'[r] \notin UndoStages
    PROVE  UNCHANGED D!deploymentVars
<1>1. /\ TypeOK /\ Bystanders(r) /\ tx'[r].job = tx[r].job /\ UNCHANGED <<instances, suspect>>
      /\ Active(r) /\ tx[r].rbErr = FALSE /\ tx'[r].rbErr = FALSE
  BY NoErrorForward DEF Stays, AInv
<1>2. Inst(r) \in Instances /\ Spares(r) /\ Steady(r)
  BY <1>1, Actors DEF Active, Stays, Behaves, Slips
<1>3. pc[r] \in Stages /\ pc'[r] \in Stages
  BY DEF AInv, TypeOK, RequestType
<1>4. PhaseOf(pc'[r], tx'[r].rbErr) = PhaseOf(pc[r], tx[r].rbErr)
  BY <1>1, <1>3, Phased DEF Stays, Active
<1>5. Phases' = Phases
  BY <1>1, <1>4, PhasesMove DEF Phases
<1>6. Orders' = Orders
  BY <1>1, OrdersStay DEF Stays, Active
<1>7. Told' = Told
  BY ToldMoves DEF Stays, Told
<1>8. Deployed' = Deployed /\ Remains' = Remains
  BY <1>1, <1>2, SeenSame
<1> QED
  BY <1>5, <1>6, <1>7, <1>8, DeploymentStays

LEMMA RepliesShows ==
    ASSUME NEW r \in Requests, NEW said, Replies(r, said)
    PROVE  /\ Phases' = [Phases EXCEPT ![r] = "answered"]
           /\ Told' = [Told EXCEPT ![r] = said]
           /\ Orders' = Orders
BY PhasesMove, Phased, ToldMoves, OrdersStay DEF Replies, Active

LEMMA EndsAnswers ==
    ASSUME AInv, Tidy, Bridge, NEW r \in Requests, Ends(r), Behaves(r)
    PROVE  D!Answer(r)
<1>1. PICK said \in {"succeeded", "refused", "failed", "rolledBack"} :
        /\ Replies(r, said)
        /\ \/ said = "succeeded" /\ pc[r] \in {"readme", "lifecycle"}
           \/ said \in {"refused", "failed"} /\ pc[r] \notin Late \cup UndoStages
           \/ said = "rolledBack" /\ pc[r] \in UndoStages /\ ~tx[r].rbErr
  BY DEF Ends
<1>2. /\ Phases' = [Phases EXCEPT ![r] = "answered"]
      /\ Told' = [Told EXCEPT ![r] = said] /\ Orders' = Orders
  BY <1>1, RepliesShows
<1>3. /\ TypeOK /\ Bystanders(r) /\ tx'[r].job = tx[r].job /\ UNCHANGED <<instances, suspect>>
      /\ Active(r) /\ tx[r].rbErr = FALSE /\ tx'[r].rbErr = FALSE /\ pc'[r] = "done"
  <2>1. /\ TypeOK /\ Bystanders(r) /\ tx'[r].job = tx[r].job /\ UNCHANGED <<instances, suspect>>
        /\ Active(r) /\ tx'[r].rbErr = tx[r].rbErr /\ pc'[r] = "done"
    BY <1>1 DEF Ends, Replies, AInv
  <2>2. tx[r].rbErr \in BOOLEAN
    BY <2>1 DEF TypeOK, RequestType, Handler
  <2>3. pc[r] \notin UndoStages => tx[r].rbErr = FALSE
    BY <2>1, NoErrorForward
  <2>4. pc[r] \in UndoStages => ~tx[r].rbErr
    BY <1>1 DEF Late, Applied, UndoStages
  <2> QED BY <2>1, <2>2, <2>3, <2>4
<1>4. Inst(r) \in Instances /\ Spares(r) /\ Steady(r)
  BY <1>1, <1>3, Actors DEF Active, Behaves, Slips, Late, UndoStages
<1>5. Mapped' = Mapped /\ Left' = Left
  BY <1>3, <1>4, SeenSame DEF Bridge
<1>6. pc[r] \in Stages \ {"idle", "done"}
  BY <1>3 DEF TypeOK, RequestType, Active
<1>7. \/ said = "succeeded" /\ Phases[r] = "applied"
      \/ said = "succeeded" /\ Phases[r] = "accepted" /\ Orders[r].want = NoPlan
      \/ said \in {"refused", "failed"} /\ Phases[r] = "accepted"
      \/ said = "rolledBack" /\ Phases[r] = "failing"
  <2>1. CASE pc[r] = "lifecycle" /\ said = "succeeded"
    <3>1. Op(r) \notin PlanOps
      BY <1>3, <2>1 DEF TypeOK, HandlersFit, Fits, Op, PlanOps, LifecycleOps
    <3>2. Orders[r].want = NoPlan /\ Phases[r] = "accepted"
      BY <2>1, <3>1, <1>6, Phased DEF Orders, Phases, Applied, UndoStages
    <3> QED BY <2>1, <3>2
  <2>2. CASE pc[r] = "readme" /\ said = "succeeded"
    BY <2>2, Phased DEF Phases, Applied
  <2>3. CASE said \in {"refused", "failed"} /\ pc[r] \notin Late \cup UndoStages
    BY <2>3, <1>6, Phased DEF Phases, Late
  <2>4. CASE said = "rolledBack" /\ pc[r] \in UndoStages
    BY <2>4, <1>3, Phased DEF Phases
  <2> QED BY <1>1, <2>1, <2>2, <2>3, <2>4
<1> QED
  BY <1>1, <1>2, <1>5, <1>7 DEF D!Answer, D!MoveTo, D!Say, Mapped, Left, Phases, Orders, Told

LEMMA GivesUp ==
    ASSUME AInv, Bridge, NEW r \in Requests, Gives(r), Behaves(r)
    PROVE  D!GiveUp(r)
<1>1. PICK said \in {"failed", "rollbackFailed"} :
        /\ Replies(r, said)
        /\ \/ said = "failed" /\ pc[r] \in Late
           \/ said = "rollbackFailed" /\ pc[r] \in UndoStages
  BY DEF Gives
<1>2. /\ Phases' = [Phases EXCEPT ![r] = "answered"]
      /\ Told' = [Told EXCEPT ![r] = said] /\ Orders' = Orders
  BY <1>1, RepliesShows
<1>3. /\ TypeOK /\ Bystanders(r) /\ tx'[r].job = tx[r].job /\ UNCHANGED instances
      /\ Active(r) /\ suspect' = suspect \cup {Inst(r)} /\ tx[r].rbErr \in BOOLEAN
  BY <1>1 DEF Gives, Replies, AInv, TypeOK, RequestType, Handler
<1>4. Inst(r) \in Instances /\ Spares(r)
  BY <1>3, Actors DEF Active, Behaves
<1>5. Orders[r].inst = Inst(r)
  BY <1>3 DEF Orders, Active
<1>6. \/ said = "failed" /\ Phases[r] \in {"accepted", "applied"}
      \/ said = "rollbackFailed" /\ Phases[r] \in {"failing", "lost"}
  <2>1. CASE pc[r] \in Late /\ said = "failed"
    <3>1. pc[r] \in Applied \/ pc[r] \in Stages \ (Applied \cup UndoStages \cup {"idle", "done"})
      BY <2>1, <1>3 DEF Late, Applied, UndoStages, TypeOK, RequestType
    <3> QED BY <2>1, <3>1, Phased DEF Phases
  <2>2. CASE pc[r] \in UndoStages /\ said = "rollbackFailed"
    <3>1. tx[r].rbErr = TRUE \/ tx[r].rbErr = FALSE
      BY <1>3
    <3> QED BY <2>2, <3>1, Phased DEF Phases
  <2> QED BY <1>1, <2>1, <2>2
<1>7. Doubtful(Inst(r))'
  BY <1>3 DEF Doubtful, Inst
<1>8. /\ Deployed' = [i \in Instances |-> IF i \in {Inst(r)} THEN NoRecord ELSE Deployed[i]]
      /\ Remains' = [i \in Instances |-> IF i \in {Inst(r)} THEN {} ELSE Remains[i]]
  BY <1>3, <1>4, <1>7, SeenLost
<1> QED
  BY <1>2, <1>5, <1>6, <1>8
     DEF D!GiveUp, D!MoveTo, D!Say, D!Lose, Bridge, Mapped, Left, Phases, Orders, Told

(* The instant: the record is what the handler has installed.                   *)
LEMMA SavedRecord ==
    ASSUME AInv, Tidy, NEW r \in Requests, Saves(r)
    PROVE  Recorded(Inst(r))' = tx[r].job.src /\ Op(r) \in PlanOps
<1>a. tx[r] \in Handler /\ tx[r].job \in Job /\ TypeOK
  BY DEF Saves, AInv, TypeOK, RequestType, HandlersFit, Fits
<1>b. PICK i \in Instances, t \in Handler : i = Inst(r) /\ t = tx[r]
  BY <1>a DEF Inst, Job
<1>1. pc[r] = "save" /\ t.job \in Job /\ Op(r) \in PlanOps /\ t.job.src \in Sources
  BY <1>a, <1>b DEF Saves, TypeOK, HandlersFit, Fits, Op, Job
<1>2. instances' = [instances EXCEPT ![i] = NewRecord(t)]
  BY <1>b DEF Saves
<1>3. NewRecord(t) \in Record /\ NewRecord(t).removed = (Op(r) = "remove")
      /\ (Op(r) # "remove" => NewRecord(t).src = t.job.src)
  <2>1. CASE Op(r) = "remove"
    <3>1. t.prev \in Record /\ NewRecord(t) = [t.prev EXCEPT !.removed = TRUE]
      BY <1>a, <1>1, <1>b, <2>1 DEF TypeOK, HandlersFit, Fits, Op, NewRecord
    <3> QED BY <3>1, <2>1 DEF Record
  <2>2. CASE Op(r) # "remove"
    <3>1. t.seen = t.job.src
      BY <1>1, <1>b, <2>2 DEF Tidy
    <3>2. NewRecord(t) = [src |-> t.job.src, units |-> NamesOf(t.job.src) \cap t.listed, removed |-> FALSE]
      BY <1>b, <2>2, <3>1 DEF NewRecord, Op
    <3>3. NamesOf(t.job.src) \cap t.listed \in SUBSET Names
      BY DEF NamesOf
    <3>4. NewRecord(t) \in Record
      BY <3>2, <3>3, <1>1 DEF Record
    <3>5. NewRecord(t).removed = FALSE /\ NewRecord(t).src = t.job.src
      BY <3>2
    <3> QED BY <3>4, <3>5, <2>2
  <2> QED BY <2>1, <2>2
<1>4. Op(r) = "remove" => t.job.src = NothingOn
  BY <1>1, <1>b DEF AInv, Plain, Op
<1>5. instances'[i] = NewRecord(t) /\ NewRecord(t) # NoRecord
  BY <1>a, <1>2, <1>3, NoRecordAssumption DEF TypeOK, StoreType
<1>6. Recorded(i)' = IF NewRecord(t).removed THEN NothingOn ELSE NewRecord(t).src
  BY <1>5 DEF Recorded, Live, Managed
<1>7. Recorded(Inst(r))' = Recorded(i)'
  BY <1>b DEF Saves, Inst, Recorded, Live, Managed
<1> QED
  BY <1>b, <1>1, <1>3, <1>4, <1>6, <1>7

(* The files of the last source that the new one does not have are left behind: *)
(* there are none, unless an install adds to an instance that is live.          *)
LEMMA SavedStrays ==
    ASSUME AInv, Tidy, NEW r \in Requests, NEW i \in Instances, i = Inst(r), Saves(r)
    PROVE  \E old \in SUBSET NamesOf(Recorded(i)) :
              /\ old # {} => Op(r) = "install"
              /\ Strays(i)' = (Strays(i) \cup old) \ NamesOf(tx[r].job.src)
<1> DEFINE was  == NamesOf(Recorded(i))
           new  == NamesOf(tx[r].job.src)
           hand == {n \in Names : InOtherHands(r, n)}
           old  == {n \in was \ new : OwnedBy(files[n], i) /\ n \notin hand}
<1>1. pc[r] = "save" /\ pc'[r] = "manifest" /\ Bystanders(r) /\ UNCHANGED <<tx, files>>
  BY DEF Saves
<1>2. tx[r].installed \subseteq new
  BY <1>1 DEF Tidy, Underway
<1>3. Pending(r) = tx[r].installed /\ Pending(r)' = {}
  BY <1>1 DEF Pending, Underway
<1>4. Inst(r)' = i /\ Inst(r) = i
  BY <1>1 DEF Inst
<1>5. \A n \in Names : n \in Strays(i) <=>
          OwnedBy(files[n], i) /\ n \notin tx[r].installed /\ n \notin was /\ n \notin hand
  BY <1>3, <1>4, StraysHere DEF Shows
<1>6. \A n \in Names : n \in Strays(i)' <=> OwnedBy(files[n], i) /\ n \notin new /\ n \notin hand
  <2>1. \A n : n \in NamesOf(Recorded(Inst(r)))' <=> n \in new
    BY SavedRecord DEF NamesOf
  <2>2. \A n \in Names : Shows(r, n)' <=> OwnedBy(files[n], i) /\ n \notin new
    BY <1>1, <1>3, <1>4, <2>1 DEF Shows
  <2>3. \A n \in Names : InOtherHands(r, n)' <=> n \in hand
    BY <1>1, <1>4, OtherHandsStay
  <2> HIDE DEF hand, new
  <2> QED BY <1>4, <2>2, <2>3, StraysHereNext
<1>7. old # {} => Op(r) = "install"
  BY <1>1 DEF Tidy
<1>8. Strays(i) \subseteq Names /\ Strays(i)' \subseteq Names /\ was \subseteq Names
  BY DEF Strays, NamesOf
<1>9. ASSUME NEW n \in Names
      PROVE  n \in Strays(i)' <=> n \in (Strays(i) \cup old) \ new
  <2> HIDE DEF was, new, hand
  <2> QED BY <1>2, <1>5, <1>6
<1>10. Strays(i)' = (Strays(i) \cup old) \ new
  <2> HIDE DEF was, new, hand
  <2>1. old \subseteq Names
    BY <1>8
  <2> HIDE DEF old
  <2> QED BY <1>8, <1>9, <2>1
<1>11. old \in SUBSET was
  OBVIOUS
<1> HIDE DEF old, hand
<1> QED
  BY <1>7, <1>10, <1>11

LEMMA SavesApplies ==
    ASSUME AInv, Tidy, Bridge, NEW r \in Requests, Saves(r)
    PROVE  D!Apply(r)
<1>1. PICK i \in Instances : i = Inst(r)
  BY Actors DEF Saves, AInv
<1>2. PICK want \in Sources : want = tx[r].job.src
  BY Actors DEF Saves, AInv
<1>3. /\ TypeOK /\ pc[r] = "save" /\ pc'[r] = "manifest" /\ Bystanders(r)
      /\ UNCHANGED <<tx, files, suspect>> /\ Recorded(i)' = want /\ Op(r) \in PlanOps
      /\ instances' = [instances EXCEPT ![i] = NewRecord(tx[r])] /\ Inst(r)' = i
  <2>1. Recorded(Inst(r))' = Recorded(i)'
    BY <1>1 DEF Saves, Inst, Recorded, Live, Managed
  <2> QED BY <1>1, <1>2, <2>1, SavedRecord DEF Saves, AInv, Inst
<1>4. /\ Phases[r] = "accepted" /\ Orders[r].inst = i /\ Orders[r].want = want
      /\ Orders[r].adds = (Op(r) = "install") /\ want # NoPlan
  <2>1. Phases[r] = "accepted"
    BY <1>3, Phased DEF Phases, Applied, UndoStages, Stages
  <2> QED BY <1>1, <1>2, <1>3, <2>1, NoSourceAssumption DEF Orders
<1>5. Phases' = [Phases EXCEPT ![r] = "applied"] /\ Told' = Told /\ Orders' = Orders
  <2>1. Phases' = [Phases EXCEPT ![r] = "applied"]
    BY <1>3, PhasesMove, Phased DEF Applied
  <2>2. Orders' = Orders
    BY <1>3, OrdersStay
  <2>3. Told' = Told
    BY <1>3 DEF Told
  <2> QED BY <2>1, <2>2, <2>3
<1>6. \A j : Doubtful(j)' <=> Doubtful(j)
  BY <1>3, DoubtSame DEF Active
<1>7. \A j \in Instances \ {i} : Deployed'[j] = Deployed[j] /\ Remains'[j] = Remains[j]
  <2>1. Spares(r)
    BY <1>3 DEF Spares
  <2>2. \A j \in Instances \ {i} : instances'[j] = instances[j]
    BY <1>3 DEF TypeOK, StoreType
  <2> QED BY <1>1, <1>3, <2>1, <2>2, SeenElsewhere
<1>8. CASE Doubtful(i)
  <2>1. Deployed[i] = NoRecord /\ Deployed'[i] = NoRecord /\ Remains[i] = {} /\ Remains'[i] = {}
    BY <1>6, <1>8 DEF Deployed, Remains
  <2>2. Deployed' = Deployed /\ Remains' = Remains
    <3>1. \A j \in Instances : Deployed'[j] = Deployed[j] /\ Remains'[j] = Remains[j]
      BY <1>7, <2>1
    <3> QED BY <3>1 DEF Deployed, Remains
  <2> QED BY <1>4, <1>5, <2>1, <2>2 DEF D!Apply, D!MoveTo, Bridge, Mapped, Left, Phases, Orders, Told
<1>9. CASE ~Doubtful(i)
  <2>1. PICK old \in SUBSET NamesOf(Recorded(i)) :
           /\ old # {} => Op(r) = "install"
           /\ Strays(i)' = (Strays(i) \cup old) \ NamesOf(want)
    BY <1>1, <1>2, SavedStrays
  <2>2. Deployed[i] = Recorded(i) /\ Deployed'[i] = want /\ Recorded(i) # NoRecord
    BY <1>3, <1>6, <1>9, RecordedIsSource DEF Deployed
  <2>3. Remains'[i] = (Remains[i] \cup old) \ NamesOf(want)
    BY <1>6, <1>9, <2>1 DEF Remains
  <2>4. Deployed' = [Deployed EXCEPT ![i] = want]
    <3>1. \A j \in Instances : Deployed'[j] = [Deployed EXCEPT ![i] = want][j]
      BY <1>7, <2>2 DEF Deployed
    <3> QED BY <3>1 DEF Deployed
  <2>5. Remains' = [Remains EXCEPT ![i] = ((@ \ {}) \cup old) \ NamesOf(want)]
    <3>1. \A j \in Instances : Remains'[j] = [Remains EXCEPT ![i] = ((@ \ {}) \cup old) \ NamesOf(want)][j]
      BY <1>7, <2>3 DEF Remains
    <3> QED BY <3>1 DEF Remains
  <2>6. D!Files(want) = NamesOf(want) /\ D!Files(Recorded(i)) = NamesOf(Recorded(i))
    BY DEF D!Files, NamesOf
  <2>7. \E gone \in SUBSET D!Files(Mapped[Orders[r].inst]), cleared \in SUBSET Left[Orders[r].inst] :
           /\ gone # {} => Orders[r].adds
           /\ cleared # {} => ~Orders[r].adds /\ Mapped[Orders[r].inst] = NothingOn
           /\ Left' = [Left EXCEPT ![Orders[r].inst] =
                          ((@ \ cleared) \cup gone) \ D!Files(Orders[r].want)]
    <3>1. old \in SUBSET D!Files(Mapped[Orders[r].inst]) /\ {} \in SUBSET Left[Orders[r].inst]
      BY <1>4, <2>2, <2>6 DEF Bridge
    <3>2. old # {} => Orders[r].adds
      BY <1>4, <2>1
    <3>3. Left' = [Left EXCEPT ![Orders[r].inst] = ((@ \ {}) \cup old) \ D!Files(Orders[r].want)]
      BY <1>4, <2>5, <2>6 DEF Bridge
    <3> QED BY <3>1, <3>2, <3>3
  <2>8. /\ Mapped[Orders[r].inst] # NoRecord
        /\ Mapped' = [Mapped EXCEPT ![Orders[r].inst] = Orders[r].want]
    BY <1>4, <2>2, <2>4 DEF Bridge
  <2> QED BY <1>4, <1>5, <2>7, <2>8 DEF D!Apply, D!MoveTo, Mapped, Left, Phases, Orders, Told
<1> QED
  BY <1>8, <1>9

LEMMA StepImplements ==
    ASSUME AInv, AInv', Tidy, Bridge, NEW r \in Requests, Step(r)
    PROVE  [D!Next]_(D!deploymentVars)
<1>1. Ordinary(r) /\ Behaves(r)
  BY StepOrdinary, StepBehaves DEF AInv
<1>2. CASE Stays(r)
  <2>1. CASE pc[r] \in UndoStages
    BY <1>1, <1>2, <2>1, StaysInUndo DEF D!Next
  <2>2. CASE pc[r] \notin UndoStages /\ pc'[r] \in UndoStages
    BY <1>1, <1>2, <2>2, StaysFails DEF D!Next
  <2>3. CASE pc[r] \notin UndoStages /\ pc'[r] \notin UndoStages
    BY <1>1, <1>2, <2>3, StaysForward
  <2> QED BY <2>1, <2>2, <2>3
<1>3. CASE Ends(r)
  BY <1>1, <1>3, EndsAnswers DEF D!Next
<1>4. CASE Gives(r)
  BY <1>1, <1>4, GivesUp DEF D!Next
<1>5. CASE Saves(r)
  BY <1>5, SavesApplies DEF D!Next
<1> QED
  BY <1>1, <1>2, <1>3, <1>4, <1>5 DEF Ordinary

--------------------------------------------------------------------------------
(* The steps that begin and end an operation, and those of the environment.     *)

(* What of a handler shows in the mapping.                                      *)
Carries(r) == Active(r) /\ (tx[r].rbErr \/ Pending(r) # {})

LEMMA SeenUnmoved ==
    ASSUME UNCHANGED <<files, instances, suspect>>,
           \A r \in Requests :
              \/ ~Carries(r) /\ ~Carries(r)'
              \/ /\ Active(r)' <=> Active(r)
                 /\ Inst(r)' = Inst(r) /\ tx'[r].rbErr = tx[r].rbErr /\ Pending(r)' = Pending(r)
    PROVE  Deployed' = Deployed /\ Remains' = Remains
<1>1. \A i : Recorded(i)' = Recorded(i)
  BY RecordedSame
<1>2. \A i : Doubtful(i)' <=> Doubtful(i)
  BY DoubtfulIs DEF Carries
<1>3. \A i, n : n \in Accounted(i)' <=> n \in Accounted(i)
  BY AccountedIs, AccountedIsNext DEF Carries
<1>4. \A i, n : n \in NamesOf(Recorded(i))' <=> n \in NamesOf(Recorded(i))
  BY <1>1 DEF NamesOf
<1>5. \A i : Strays(i)' = Strays(i)
  BY <1>3, <1>4 DEF Strays
<1> QED
  BY <1>1, <1>2, <1>5 DEF Deployed, Remains

LEMMA IdleCarriesNothing ==
    /\ \A r \in Requests : pc[r] \in {"idle", "done"} => ~Carries(r)
    /\ \A r \in Requests : pc'[r] \in {"idle", "done"} => ~Carries(r)'
BY DEF Carries, Active

(* A request comes in, and is accepted or refused.                              *)
Enters(r) ==
    /\ pc[r] = "idle" /\ Bystanders(r)
    /\ tx'[r].job \in Job /\ Authored(tx'[r].job) /\ ~tx'[r].rbErr
    /\ \/ pc'[r] \in {"check", "load", "lifecycle"} /\ tx'[r].answer = "none"
       \/ pc'[r] = "done" /\ tx'[r].answer = "refused"
    /\ UNCHANGED <<files, instances, suspect>>

LEMMA EntersAsks ==
    ASSUME TypeOK, Bridge, NEW r \in Requests, tx[r].answer = "none", Enters(r)
    PROVE  \E i \in Instances, want \in Sources \cup {NoPlan}, adds \in BOOLEAN : D!Ask(r, i, want, adds)
<1>1. PICK i \in Instances, want \in Sources \cup {NoPlan}, adds \in BOOLEAN :
        /\ i = tx'[r].job.inst
        /\ want = IF tx'[r].job.op \in PlanOps THEN tx'[r].job.src ELSE NoPlan
        /\ adds = (tx'[r].job.op = "install")
  BY DEF Enters, Job
<1>2. Phases[r] = "idle" /\ Mapped' = Mapped /\ Left' = Left
  <2>1. Phases[r] = "idle"
    BY Phased DEF Enters, Phases
  <2>2. ~Carries(r) /\ ~Carries(r)'
    BY DEF Enters, Carries, Active, Pending, Underway
  <2>3. ASSUME NEW q \in Requests \ {r}
        PROVE  /\ Active(q)' <=> Active(q)
               /\ Inst(q)' = Inst(q) /\ tx'[q].rbErr = tx[q].rbErr /\ Pending(q)' = Pending(q)
    BY DEF Enters, Bystanders, Active, Inst, Pending
  <2>4. Deployed' = Deployed /\ Remains' = Remains
    BY <2>2, <2>3, SeenUnmoved DEF Enters
  <2> QED BY <2>1, <2>4 DEF Bridge
<1>3. Orders' = [Orders EXCEPT ![r] = [inst |-> i, want |-> want, adds |-> adds]]
  BY <1>1 DEF Orders, Enters, Bystanders, Inst, Op
<1>4. \/ Phases' = [Phases EXCEPT ![r] = "accepted"] /\ Told' = Told
      \/ Phases' = [Phases EXCEPT ![r] = "answered"] /\ Told' = [Told EXCEPT ![r] = "refused"]
  <2>1. CASE pc'[r] \in {"check", "load", "lifecycle"} /\ tx'[r].answer = "none"
    <3>1. PhaseOf(pc'[r], tx'[r].rbErr) = "accepted"
      BY <2>1, Phased DEF Stages, Applied, UndoStages
    <3>2. Phases' = [Phases EXCEPT ![r] = "accepted"]
      BY <3>1, PhasesMove DEF Enters
    <3>3. Told' = Told
      BY <2>1 DEF Told, Enters, Bystanders
    <3> QED BY <3>2, <3>3
  <2>2. CASE pc'[r] = "done" /\ tx'[r].answer = "refused"
    BY <2>2, PhasesMove, ToldMoves, Phased DEF Enters
  <2> QED BY <2>1, <2>2 DEF Enters
<1>5. D!Ask(r, i, want, adds)
  BY <1>2, <1>3, <1>4 DEF D!Ask, D!MoveTo, D!Say, Mapped, Left, Phases, Orders, Told
<1> QED
  BY <1>1, <1>5

LEMMA ExecutePlanEnters ==
    ASSUME AInv, NEW r \in Requests, NEW id \in PlanIds, ExecutePlan(r, id)
    PROVE  Enters(r)
<1> DEFINE p == plans[id]
           t == [Blank EXCEPT !.id = id, !.job = p,
                              !.prev = IF p.op = "install" THEN NoRecord ELSE instances[p.inst]]
<1>1. p \in Plan /\ pc[r] = "idle" /\ Authored(p) /\ TypeOK
  BY DEF ExecutePlan, AInv, TypeOK, StoreType, PlansAuthored
<1>2. p \in Job
  BY <1>1 DEF Plan, Job
<1>3. /\ t.job = p /\ t.answer = "none" /\ ~t.rbErr
      /\ [t EXCEPT !.answer = "refused"].job = p /\ [t EXCEPT !.answer = "refused"].answer = "refused"
      /\ ~[t EXCEPT !.answer = "refused"].rbErr
  BY DEF Blank
<1>4. \/ (\E S : Go(r, "done", S)) /\ Keep(r, [t EXCEPT !.answer = "refused"])
      \/ \E stage \in {"load", "check"} : (\E S : Go(r, stage, S)) /\ Keep(r, t)
  BY DEF ExecutePlan
<1>5. UNCHANGED <<files, instances, suspect>>
  BY StoreQuiet DEF ExecutePlan, HostSame, hostVars
<1> HIDE DEF t, p
<1> QED
  BY <1>1, <1>2, <1>3, <1>4, <1>5 DEF Enters, Bystanders, Go, Keep, TypeOK, RequestType

LEMMA LifecycleEnters ==
    ASSUME TypeOK, NEW r \in Requests, NEW i \in Instances, NEW action \in Ops, Lifecycle(r, i, action)
    PROVE  Enters(r)
<1> DEFINE t == [Blank EXCEPT !.job = [op |-> action, inst |-> i, src |-> NothingOn,
                                       drift |-> FALSE, valid |-> TRUE]]
<1>1. pc[r] = "idle" /\ action \in LifecycleOps
  BY DEF Lifecycle
<1>2. /\ t.job \in Job /\ [t EXCEPT !.answer = "refused"].job \in Job
      /\ t.job.src = NothingOn /\ [t EXCEPT !.answer = "refused"].job = t.job
      /\ t.answer = "none" /\ [t EXCEPT !.answer = "refused"].answer = "refused"
      /\ ~t.rbErr /\ ~[t EXCEPT !.answer = "refused"].rbErr
  BY <1>1, NothingIsASource DEF Blank, Job
<1>3. \/ (\E S : Go(r, "lifecycle", S)) /\ Keep(r, t)
      \/ (\E S : Go(r, "done", S)) /\ Keep(r, [t EXCEPT !.answer = "refused"])
  BY DEF Lifecycle
<1>4. UNCHANGED <<files, instances, suspect>>
  BY StoreQuiet DEF Lifecycle, HostSame, hostVars
<1>5. Authored(t.job)
  BY <1>2, NothingIsASource DEF Authored
<1> HIDE DEF t
<1> QED
  BY <1>1, <1>2, <1>3, <1>4, <1>5 DEF Enters, Bystanders, Go, Keep, TypeOK, RequestType

(* Nothing a client sees changes.                                               *)
LEMMA UnseenStutters ==
    ASSUME Bridge, UNCHANGED <<files, instances, suspect, pc, todo>>,
           \A r \in Requests : /\ tx'[r].job = tx[r].job /\ tx'[r].answer = tx[r].answer
                               /\ tx'[r].rbErr = tx[r].rbErr /\ tx'[r].installed = tx[r].installed
    PROVE  UNCHANGED D!deploymentVars
<1>1. Phases' = Phases /\ Told' = Told
  BY DEF Phases, Told
<1>2. Orders' = Orders
  BY DEF Orders, Inst, Op
<1>3. Deployed' = Deployed /\ Remains' = Remains
  BY SeenUnmoved DEF Active, Inst, Pending
<1> QED
  BY <1>1, <1>2, <1>3, DeploymentStays

LEMMA BeginImplements ==
    ASSUME AInv, Bridge, Begin
    PROVE  [D!Next]_(D!deploymentVars)
<1>1. ASSUME NEW r \in Requests, Enters(r) PROVE D!Next
  <2>1. tx[r].answer = "none"
    BY <1>1 DEF AInv, Plain, Enters
  <2> QED BY <1>1, <2>1, EntersAsks DEF D!Next, AInv
<1>2. CASE \E r \in Requests, id \in PlanIds : ExecutePlan(r, id)
  BY <1>1, <1>2, ExecutePlanEnters
<1>3. CASE \E r \in Requests, i \in Instances, action \in Ops : Lifecycle(r, i, action)
  BY <1>1, <1>3, LifecycleEnters DEF AInv
<1>4. CASE \E id \in PlanIds, op \in Ops, i \in Instances, v \in Versions, misread \in BOOLEAN :
              CreatePlan(id, op, i, v, misread)
  BY <1>4, UnseenStutters DEF CreatePlan, requestVars
<1>5. CASE \E id \in PlanIds : SpoilPlan(id)
  BY <1>5, UnseenStutters DEF SpoilPlan, requestVars, HostSame, hostVars
<1> QED
  BY <1>2, <1>3, <1>4, <1>5 DEF Begin

LEMMA AnsweredForgets ==
    ASSUME TypeOK, Bridge, NEW r \in Requests, Answered(r)
    PROVE  D!Forget(r)
<1>1. pc[r] = "done" /\ pc'[r] = "idle" /\ tx'[r] = Blank /\ Bystanders(r)
  BY DEF Answered, Go, Keep, Bystanders, TypeOK, RequestType
<1>2. Phases[r] = "answered" /\ Phases' = [Phases EXCEPT ![r] = "idle"]
  BY <1>1, Phased, PhasesMove DEF Phases
<1>3. Told' = [Told EXCEPT ![r] = "none"]
  BY <1>1, ToldMoves DEF Blank
<1>4. Orders' = [Orders EXCEPT ![r] = D!NoOrder]
  BY <1>1 DEF Orders, Bystanders, Inst, Op, D!NoOrder
<1>5. Mapped' = Mapped /\ Left' = Left
  <2>1. UNCHANGED <<files, instances, suspect>>
    BY StoreQuiet DEF Answered, HostSame, hostVars
  <2>2. ~Carries(r) /\ ~Carries(r)'
    BY <1>1, IdleCarriesNothing
  <2>3. ASSUME NEW q \in Requests \ {r}
        PROVE  /\ Active(q)' <=> Active(q)
               /\ Inst(q)' = Inst(q) /\ tx'[q].rbErr = tx[q].rbErr /\ Pending(q)' = Pending(q)
    BY <1>1 DEF Bystanders, Active, Inst, Pending
  <2> QED BY <2>1, <2>2, <2>3, SeenUnmoved DEF Bridge
<1> QED
  BY <1>2, <1>3, <1>4, <1>5 DEF D!Forget, D!MoveTo, D!Say, D!NoOrder, Mapped, Left, Phases, Orders, Told

LEMMA HangUpStutters ==
    ASSUME TypeOK, Bridge, NEW r \in Requests, HangUp(r)
    PROVE  UNCHANGED D!deploymentVars
<1>1. \A q \in Requests : /\ tx'[q].job = tx[q].job /\ tx'[q].answer = tx[q].answer
                          /\ tx'[q].rbErr = tx[q].rbErr /\ tx'[q].installed = tx[q].installed
  BY DEF HangUp, Keep, TypeOK, RequestType, Handler
<1> QED
  BY <1>1, UnseenStutters, StoreQuiet DEF HangUp, HostSame, hostVars

(* A stopped agent leaves what a handler had in hand, but only of an instance   *)
(* that is suspect from then on.                                                *)
LEMMA RestartRestarts ==
    ASSUME AInv, Bridge, AgentRestart
    PROVE  D!Restart
<1> DEFINE cut  == {q \in Requests : Active(q) /\ pc[q] \notin Reading \cup {"lifecycle"}}
           lost == {Inst(r) : r \in cut}
<1>1. Phases' = [r \in Requests |-> "idle"]
  BY Phased DEF AgentRestart, Phases
<1>2. Orders' = [r \in Requests |-> D!NoOrder]
  BY DEF AgentRestart, Orders, D!NoOrder
<1>3. Told' = [r \in Requests |-> "none"]
  BY DEF AgentRestart, Told, Blank
<1>4. cut \in SUBSET {r \in Requests : Phases[r] \notin {"idle", "answered"}}
  <2> SUFFICES ASSUME NEW r \in Requests, Active(r) PROVE Phases[r] \notin {"idle", "answered"}
    OBVIOUS
  <2> QED BY DEF Phases, PhaseOf, Active
<1>5. lost = {Orders[r].inst : r \in cut}
  <2>1. \A r \in cut : Orders[r].inst = Inst(r)
    BY DEF Orders, Active
  <2> QED BY <2>1
<1>6. UNCHANGED <<files, instances>> /\ suspect' = suspect \cup lost
  BY DEF AgentRestart, storeVars, HostSame, hostVars
<1>7. \A q \in Requests : pc'[q] = "idle"
  BY DEF AgentRestart
<1>8. ASSUME NEW r \in Requests, Carries(r) PROVE r \in cut
  <2>1. CASE tx[r].rbErr
    BY <1>8, <2>1 DEF Carries, AInv, Plain, Active, UndoStages, Reading
  <2>2. CASE Pending(r) # {}
    BY <1>8, <2>2 DEF Carries, Pending, Underway, Reading
  <2> QED BY <1>8, <2>1, <2>2 DEF Carries
<1>9. \A i : i \notin lost => \A r \in Requests : ~(Carries(r) /\ Inst(r) = i)
  BY <1>8
<1> HIDE DEF cut
<1>10. \A i : i \in lost => Doubtful(i)'
  BY <1>6 DEF Doubtful
<1>11. ASSUME NEW i \in Instances, i \notin lost
       PROVE  (Doubtful(i)' <=> Doubtful(i)) /\ Strays(i)' = Strays(i)
  <2>1. Doubtful(i) <=> i \in suspect
    BY <1>9, <1>11, DoubtfulIs DEF Carries
  <2>2. Doubtful(i)' <=> i \in suspect
    BY <1>6, <1>7, <1>11, DoubtfulIs DEF Active
  <2>3. \A n : n \notin Accounted(i)
    BY <1>9, <1>11, AccountedIs DEF Carries
  <2>4. \A n : n \notin Accounted(i)'
    BY <1>7, AccountedIsNext DEF Active
  <2>5. \A n : n \in NamesOf(Recorded(i))' <=> n \in NamesOf(Recorded(i))
    BY <1>6, RecordedSame DEF NamesOf
  <2> QED BY <1>6, <2>1, <2>2, <2>3, <2>4, <2>5 DEF Strays
<1>12. \A i : Recorded(i)' = Recorded(i)
  BY <1>6, RecordedSame
<1> HIDE DEF lost
<1>13. /\ Deployed' = [i \in Instances |-> IF i \in lost THEN NoRecord ELSE Deployed[i]]
       /\ Remains' = [i \in Instances |-> IF i \in lost THEN {} ELSE Remains[i]]
  BY <1>10, <1>11, <1>12 DEF Deployed, Remains
<1>14. /\ Mapped' = [i \in Instances |-> IF i \in {Orders[r].inst : r \in cut} THEN NoRecord ELSE Mapped[i]]
       /\ Left' = [i \in Instances |-> IF i \in {Orders[r].inst : r \in cut} THEN {} ELSE Left[i]]
  BY <1>5, <1>13 DEF Bridge
<1> QED
  BY <1>1, <1>2, <1>3, <1>4, <1>14 DEF D!Restart, D!Lose, D!NoOrder, Mapped, Left, Phases, Orders, Told

(* What the administrator writes is nobody's.                                   *)
LEMMA EditEdits ==
    ASSUME TypeOK, Bridge, NEW n \in Names, NEW c \in {Admin, Absent}, AdminEdit(n, c)
    PROVE  D!Edit
<1> DEFINE edited == {i \in Instances : Live(i) /\ instances[i].src[n] # Absent}
<1>1. UNCHANGED <<instances, pc, todo, tx>> /\ suspect' = suspect \cup edited
  BY DEF AdminEdit, requestVars, storeVars
<1>2. Phases' = Phases /\ Orders' = Orders /\ Told' = Told
  BY <1>1 DEF Phases, Orders, Told, Inst, Op
<1>3. edited \in SUBSET Instances
  OBVIOUS
<1> HIDE DEF edited
<1>4. \A i : Doubtful(i)' <=> i \in edited \/ Doubtful(i)
  BY <1>1, DoubtfulIs DEF Active, Inst
<1>5. \A i : Recorded(i)' = Recorded(i)
  BY <1>1, RecordedSame
<1>6. ASSUME NEW i \in Instances PROVE Strays(i)' \subseteq Strays(i)
  <2>1. \A m \in Names \ {n} : files'[m] = files[m]
    BY DEF AdminEdit, TypeOK, HostType, Sources
  <2>2. files'[n] = c
    BY DEF AdminEdit, TypeOK, HostType, Sources
  <2>3. ~OwnedBy(c, i)
    BY Owners, EngineAssumption DEF OwnedBy
  <2>4. \A m : m \in Accounted(i)' <=> m \in Accounted(i)
    BY <1>1, AccountedIs, AccountedIsNext DEF Active, Inst, Pending
  <2>5. \A m : m \in NamesOf(Recorded(i))' <=> m \in NamesOf(Recorded(i))
    BY <1>5 DEF NamesOf
  <2> QED BY <2>1, <2>2, <2>3, <2>4, <2>5 DEF Strays
<1>7. Deployed' = [i \in Instances |-> IF i \in edited THEN NoRecord ELSE Deployed[i]]
  BY <1>4, <1>5 DEF Deployed
<1>8. \A i \in Instances : Remains'[i] \subseteq (IF i \in edited THEN {} ELSE Remains[i])
  BY <1>4, <1>6 DEF Remains
<1>9. Remains' \in [Instances -> SUBSET Names]
  BY DEF Remains, Strays
<1> QED
  BY <1>2, <1>3, <1>7, <1>8, <1>9 DEF D!Edit, Bridge, Mapped, Left, Phases, Orders, Told

LEMMA EnvironmentImplements ==
    ASSUME AInv, Bridge, Environment
    PROVE  [D!Next]_(D!deploymentVars)
<1>1. CASE \E r \in Requests : Answered(r)
  BY <1>1, AnsweredForgets DEF D!Next, AInv
<1>2. CASE \E r \in Requests : HangUp(r)
  BY <1>2, HangUpStutters DEF AInv
<1>3. CASE AgentRestart
  BY <1>3, RestartRestarts DEF D!Next
<1>4. CASE \E n \in Names, c \in {Admin, Absent} : AdminEdit(n, c)
  BY <1>4, EditEdits DEF D!Next, AInv
<1> QED
  BY <1>1, <1>2, <1>3, <1>4 DEF Environment

--------------------------------------------------------------------------------
(* AInv is inductive.                                                           *)

LEMMA InitPlain == Init => AInv
BY InitType DEF Init, AInv, PlainPlans, PlansAuthored, Plain, Blank

LEMMA OrdinaryPlain ==
    ASSUME AInv, NEW r \in Requests, Ordinary(r)
    PROVE  \A q \in Requests : Plain(pc'[q], tx'[q])
<1> SUFFICES ASSUME NEW q \in Requests PROVE Plain(pc'[q], tx'[q])
  OBVIOUS
<1>1. Plain(pc[q], tx[q])
  BY DEF AInv
<1>2. Bystanders(r)
  BY DEF Ordinary, Stays, Ends, Gives, Saves, Replies
<1>3. CASE q # r
  BY <1>1, <1>2, <1>3 DEF Bystanders
<1>4. CASE q = r
  <2>1. pc[r] \notin {"idle", "done"} /\ tx'[r].job = tx[r].job
    BY DEF Ordinary, Stays, Ends, Gives, Saves, Replies, Active
  <2>2. pc'[r] # "done" => tx'[r].answer = tx[r].answer
    BY DEF Ordinary, Stays, Ends, Gives, Saves, Replies
  <2>3. tx'[r].rbErr => pc'[r] \in UndoStages \cup {"done"}
    <3>1. tx[r].rbErr => pc[r] \in UndoStages
      BY <1>1, <1>4, <2>1 DEF Plain
    <3> QED BY <3>1 DEF Ordinary, Stays, Ends, Gives, Saves, Replies, UndoStages
  <2> QED BY <1>1, <1>4, <2>1, <2>2, <2>3 DEF Plain
<1> QED
  BY <1>3, <1>4

LEMMA EntersPlain ==
    ASSUME AInv, NEW r \in Requests, Enters(r), tx'[r].job.op = "remove" => tx'[r].job.src = NothingOn
    PROVE  \A q \in Requests : Plain(pc'[q], tx'[q])
BY DEF AInv, Enters, Bystanders, Plain

(* A plan is consumed by the handler that has run it, and by no other step.     *)
LEMMA StepPlans ==
    ASSUME NEW r \in Requests, Step(r)
    PROVE  plans' = plans \/ plans' = [plans EXCEPT ![tx[r].id] = NoPlan]
<1>1. CASE SaveInstance(r) \/ WriteManifest(r)
  BY <1>1 DEF SaveInstance, WriteManifest
<1>2. CASE WriteReadme(r)
  BY <1>2 DEF WriteReadme
<1>3. CASE UndoReload(r) \/ UndoStart(r)
  BY <1>3 DEF UndoReload, UndoStart, storeVars
<1>4. CASE StoreSame
  BY <1>4 DEF StoreSame, storeVars
<1>5. \/ SaveInstance(r) \/ WriteManifest(r) \/ WriteReadme(r) \/ UndoReload(r) \/ UndoStart(r)
      \/ StoreSame
  BY DEF Step, CheckDrift, Load, Snapshot, StopUnit, RemoveOld, InstallNew, ReloadUnits, FindUnits,
         StartUnit, VerifyUnit, Relist, ListGenerated, Capture, UndoStop, UndoInstall, Reinstall,
         UndoVerify, LifecycleStep
<1> QED
  BY <1>1, <1>2, <1>3, <1>4, <1>5

LEMMA FewerPlansPlain ==
    ASSUME AInv, NEW id, plans' = plans \/ plans' = [plans EXCEPT ![id] = NoPlan]
    PROVE  PlainPlans' /\ PlansAuthored'
<1>1. \A other \in PlanIds : plans'[other] \in {plans[other], NoPlan}
  BY DEF AInv, TypeOK, StoreType
<1>2. PlainPlans'
  BY <1>1 DEF AInv, PlainPlans
<1>3. PlansAuthored'
  BY <1>1 DEF AInv, PlansAuthored, Authored, OwnedBy, NamesOf
<1> QED
  BY <1>2, <1>3

(* A plan that is made asks for a rendered version, or for nothing.             *)
LEMMA CreatePlanPlain ==
    ASSUME AInv, NEW id \in PlanIds, NEW op \in Ops, NEW i \in Instances, NEW v \in Versions,
           NEW misread \in BOOLEAN, CreatePlan(id, op, i, v, misread)
    PROVE  PlainPlans' /\ PlansAuthored'
<1> DEFINE src == IF op = "remove" THEN NothingOn ELSE Rendered(i, v)
<1>1. PICK drift : plans' = [plans EXCEPT ![id] = [op |-> op, inst |-> i, src |-> src,
                                                   drift |-> drift, valid |-> TRUE]]
  BY DEF CreatePlan
<1>2. /\ \A other \in PlanIds \ {id} : plans'[other] = plans[other]
      /\ plans'[id] = [op |-> op, inst |-> i, src |-> src, drift |-> drift, valid |-> TRUE]
  BY <1>1 DEF AInv, TypeOK, StoreType
<1>3. ASSUME NEW n \in Names, src[n] # Absent PROVE OwnedBy(src[n], i)
  BY <1>3 DEF Rendered, NothingOn, OwnedBy
<1>4. op = "remove" => src = NothingOn
  OBVIOUS
<1> HIDE DEF src
<1>5. plans'[id].op = op /\ plans'[id].src = src /\ plans'[id].inst = i
  BY <1>2
<1>6. PlainPlans'
  BY <1>2, <1>4, <1>5 DEF AInv, PlainPlans
<1>7. ASSUME NEW other \in PlanIds, plans'[other] # NoPlan, NEW n \in Names,
             plans'[other].src[n] # Absent
      PROVE  OwnedBy(plans'[other].src[n], plans'[other].inst)
  BY <1>2, <1>3, <1>5, <1>7 DEF AInv, PlansAuthored, Authored, NamesOf
<1>8. PlansAuthored'
  BY <1>7 DEF PlansAuthored, Authored, NamesOf, OwnedBy
<1> QED
  BY <1>6, <1>8

LEMMA SpoilPlanPlain ==
    ASSUME AInv, NEW id \in PlanIds, SpoilPlan(id)
    PROVE  PlainPlans' /\ PlansAuthored'
<1>1. \A other \in PlanIds \ {id} : plans'[other] = plans[other]
  BY DEF SpoilPlan, AInv, TypeOK, StoreType
<1>2. /\ plans[id] # NoPlan /\ plans'[id].op = plans[id].op /\ plans'[id].src = plans[id].src
      /\ plans'[id].inst = plans[id].inst
  BY DEF SpoilPlan, Runnable, AInv, TypeOK, StoreType, Plan
<1>3. PlainPlans'
  BY <1>1, <1>2 DEF AInv, PlainPlans
<1>4. PlansAuthored'
  BY <1>1, <1>2 DEF AInv, PlansAuthored, Authored, NamesOf, OwnedBy
<1> QED
  BY <1>3, <1>4

LEMMA PlansKept == ASSUME AInv, UNCHANGED plans PROVE PlainPlans' /\ PlansAuthored'
BY DEF AInv, PlainPlans, PlansAuthored, Authored, NamesOf, OwnedBy

LEMMA BeginPlain ==
    ASSUME AInv, Begin
    PROVE  PlainPlans' /\ PlansAuthored' /\ \A r \in Requests : Plain(pc'[r], tx'[r])
<1>1. ASSUME NEW r \in Requests, NEW id \in PlanIds, ExecutePlan(r, id)
      PROVE  PlainPlans' /\ PlansAuthored' /\ \A q \in Requests : Plain(pc'[q], tx'[q])
  <2>1. Enters(r)
    BY <1>1, ExecutePlanEnters
  <2>2. tx'[r].job = plans[id] /\ plans[id] # NoPlan
    BY <1>1 DEF ExecutePlan, Keep, Blank, AInv, TypeOK, RequestType
  <2>3. tx'[r].job.op = "remove" => tx'[r].job.src = NothingOn
    BY <2>2 DEF AInv, PlainPlans
  <2>4. plans' = plans
    BY <1>1 DEF ExecutePlan, StoreSame, storeVars
  <2> QED BY <2>1, <2>3, <2>4, EntersPlain, PlansKept
<1>2. ASSUME NEW r \in Requests, NEW i \in Instances, NEW action \in Ops, Lifecycle(r, i, action)
      PROVE  PlainPlans' /\ PlansAuthored' /\ \A q \in Requests : Plain(pc'[q], tx'[q])
  <2>1. Enters(r)
    BY <1>2, LifecycleEnters DEF AInv
  <2>2. tx'[r].job.src = NothingOn
    <3> DEFINE t == [Blank EXCEPT !.job = [op |-> action, inst |-> i, src |-> NothingOn,
                                           drift |-> FALSE, valid |-> TRUE]]
    <3>1. t.job.src = NothingOn /\ [t EXCEPT !.answer = "refused"].job.src = NothingOn
      BY DEF Blank
    <3>2. Keep(r, t) \/ Keep(r, [t EXCEPT !.answer = "refused"])
      BY <1>2 DEF Lifecycle
    <3> HIDE DEF t
    <3> QED BY <3>1, <3>2 DEF Keep, AInv, TypeOK, RequestType
  <2>3. plans' = plans
    BY <1>2 DEF Lifecycle, StoreSame, storeVars
  <2> QED BY <2>1, <2>2, <2>3, EntersPlain, PlansKept
<1>3. ASSUME NEW id \in PlanIds, NEW op \in Ops, NEW i \in Instances, NEW v \in Versions,
             NEW misread \in BOOLEAN, CreatePlan(id, op, i, v, misread)
      PROVE  PlainPlans' /\ PlansAuthored' /\ \A q \in Requests : Plain(pc'[q], tx'[q])
  <2>1. UNCHANGED <<pc, tx>>
    BY <1>3 DEF CreatePlan, requestVars
  <2> QED BY <1>3, <2>1, CreatePlanPlain DEF AInv
<1>4. ASSUME NEW id \in PlanIds, SpoilPlan(id)
      PROVE  PlainPlans' /\ PlansAuthored' /\ \A q \in Requests : Plain(pc'[q], tx'[q])
  <2>1. UNCHANGED <<pc, tx>>
    BY <1>4 DEF SpoilPlan, requestVars
  <2> QED BY <1>4, <2>1, SpoilPlanPlain DEF AInv
<1> QED
  BY <1>1, <1>2, <1>3, <1>4 DEF Begin

LEMMA EnvironmentPlain ==
    ASSUME AInv, Environment
    PROVE  PlainPlans' /\ PlansAuthored' /\ \A r \in Requests : Plain(pc'[r], tx'[r])
<1>1. PlainPlans' /\ PlansAuthored'
  <2>1. plans' = plans
    BY DEF Environment, Answered, HangUp, AgentRestart, AdminEdit, StoreSame, storeVars
  <2> QED BY <2>1, PlansKept
<1>2. ASSUME NEW r \in Requests, Answered(r) PROVE \A q \in Requests : Plain(pc'[q], tx'[q])
  BY <1>2 DEF Answered, Go, Keep, Blank, Plain, AInv, TypeOK, RequestType
<1>3. ASSUME NEW r \in Requests, HangUp(r) PROVE \A q \in Requests : Plain(pc'[q], tx'[q])
  <2>1. UNCHANGED pc
    BY <1>3 DEF HangUp
  <2>2. \A q \in Requests : /\ tx'[q].job = tx[q].job /\ tx'[q].answer = tx[q].answer
                            /\ tx'[q].rbErr = tx[q].rbErr
    BY <1>3 DEF HangUp, Keep, AInv, TypeOK, RequestType, Handler
  <2> QED BY <2>1, <2>2 DEF Plain, AInv
<1>4. ASSUME AgentRestart PROVE \A q \in Requests : Plain(pc'[q], tx'[q])
  BY <1>4 DEF AgentRestart, Blank, Plain
<1>5. ASSUME NEW n, NEW c, AdminEdit(n, c) PROVE \A q \in Requests : Plain(pc'[q], tx'[q])
  BY <1>5 DEF AdminEdit, requestVars, AInv
<1> QED
  BY <1>1, <1>2, <1>3, <1>4, <1>5 DEF Environment

LEMMA NextPlain == AInv /\ [Next]_vars => AInv'
<1> SUFFICES ASSUME AInv, [Next]_vars PROVE AInv'
  OBVIOUS
<1>1. TypeOK'
  BY NextType DEF AInv
<1>2. PlainPlans' /\ PlansAuthored' /\ \A r \in Requests : Plain(pc'[r], tx'[r])
  <2>1. CASE UNCHANGED vars
    <3>1. UNCHANGED <<pc, tx, plans>>
      BY <2>1 DEF vars, requestVars, storeVars
    <3> QED BY <3>1, PlansKept DEF AInv
  <2>2. ASSUME NEW r \in Requests, Step(r)
        PROVE  PlainPlans' /\ PlansAuthored' /\ \A q \in Requests : Plain(pc'[q], tx'[q])
    BY <2>2, StepOrdinary, OrdinaryPlain, StepPlans, FewerPlansPlain DEF AInv
  <2> QED BY <2>1, <2>2, BeginPlain, EnvironmentPlain DEF Next
<1> QED
  BY <1>1, <1>2 DEF AInv

--------------------------------------------------------------------------------

LEMMA InitImplements ==
    ASSUME Init
    PROVE  D!Init
<1>1. \A i \in Instances : Recorded(i) = NothingOn /\ ~Busy(i) /\ ~Doubtful(i)
  BY DEF Init, Recorded, Live, Managed, Busy, Active, Doubtful
<1>2. \A i \in Instances : OnHost(i) = NothingOn
  BY <1>1, NothingIsASource DEF OnHost, NothingOn
<1>3. Mapped = [i \in Instances |-> NothingOn]
  BY <1>1, <1>2 DEF Mapped
<1>4. Left = [i \in Instances |-> {}]
  <2>1. \A i \in Instances : \A n \in Names : ~OwnedBy(files[n], i)
    BY Owners DEF Init, HostInit, NothingOn
  <2>2. \A i \in Instances : Replaced(i) = {}
    BY DEF Init, Replaced, Active
  <2> QED BY <1>1, <2>1, <2>2 DEF Left, LeftBehind
<1>5. Phases = [r \in Requests |-> "idle"] /\ Told = [r \in Requests |-> "none"]
  BY Phased DEF Init, Phases, Told, Blank
<1>6. Orders = [r \in Requests |-> D!NoOrder]
  BY DEF Init, Orders, D!NoOrder
<1> QED
  BY <1>3, <1>4, <1>5, <1>6 DEF D!Init, D!NoOrder, Mapped, Left, Phases, Orders, Told

LEMMA NextImplements ==
    ASSUME AInv, AInv', BaselineIsLive, BaselineIsLive', Tidy, Tidy', [Next]_vars
    PROVE  [D!Next]_(D!deploymentVars)
<1>1. Bridge
  BY MappedIsDeployed, MappedIsDeployedNext, LeftIsRemains, LeftIsRemainsNext DEF Bridge, AInv
<1>2. CASE UNCHANGED vars
  BY <1>1, <1>2, UnseenStutters DEF vars, requestVars, storeVars, hostVars
<1>3. CASE Next
  BY <1>1, <1>3, BeginImplements, StepImplements, EnvironmentImplements DEF Next
<1> QED
  BY <1>2, <1>3

(* A client may take an operation to be atomic, but for one file of a failed    *)
(* one, wherever the recorded baselines are live and a handler touches and      *)
(* records what is in its plan and its record: then every step of a             *)
(* transaction, of a rollback, of the administrator or of a restart is one step *)
(* of Deployment, or changes nothing of what a client is told or finds.         *)
LEMMA OperationsAreAtomicIf ==
    Spec /\ []BaselineIsLive /\ []Tidy => OperationsAreAtomic
<1>1. Init => AInv
  BY InitPlain
<1>2. AInv /\ [Next]_vars => AInv'
  BY NextPlain
<1>3. Init => D!Init
  BY InitImplements
<1>4. AInv /\ AInv' /\ BaselineIsLive /\ BaselineIsLive' /\ Tidy /\ Tidy' /\ [Next]_vars
        => [D!Next]_(D!deploymentVars)
  BY NextImplements
<1> QED
  BY <1>1, <1>2, <1>3, <1>4, PTL DEF Spec, OperationsAreAtomic, D!Spec

================================================================================
