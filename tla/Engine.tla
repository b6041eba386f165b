--------------------------------- MODULE Engine ---------------------------------
(* internal/engine: plans, and the transactions that install, update and remove *)
(* the quadlets of an instance, with their rollbacks.  Every HTTP request runs  *)
(* in a goroutine of its own and the engine takes no lock, so a request is a    *)
(* process r whose steps interleave with those of the others.  A step is one    *)
(* call out of the engine (Podman, systemd, the state store, the documents)     *)
(* with the code around it.                                                     *)
(*                                                                              *)
(* A definition whose name ends in Bug is the one that follows it with one      *)
(* mistake in it.  Nothing uses it: the properties are tested against it.       *)
EXTENDS Host

CONSTANTS
    Requests,       \* goroutines that serve requests
    Instances,      \* instance ids
    Versions,       \* a catalog version with the parameters it is rendered for
    Manifest,       \* the names a version renders
    Catalog,        \* the versions of the application an instance belongs to
    StartNames,     \* the names whose catalog resource says start: true
    Ops,            \* the operations clients ask for
    PlanIds, NoPlan, NoRecord,
    Admin,          \* content an administrator wrote
    MaxEdits,       \* administrator's edits
    MaxCrashes,     \* agent restarts
    ClientsHangUp,  \* whether a client may give up and cancel its request
    AdminMayRace    \* whether the administrator edits while requests run

PlanOps == {"install", "update", "remove"}
LifecycleOps == {"start", "stop", "restart"}

Rendered(i, v) == [n \in Names |-> IF n \in Manifest[v] THEN <<i, v>> ELSE Absent]
Contents == (Instances \X Versions) \cup {Admin}
Sources == [Names -> Contents \cup {Absent}]

ASSUME EngineAssumption ==
    /\ Manifest \in [Versions -> (SUBSET Names) \ {{}}]
    /\ Catalog \in [Instances -> SUBSET Versions]
    /\ StartNames \subseteq Names
    /\ Ops \subseteq PlanOps \cup LifecycleOps
    /\ MaxEdits \in Nat /\ MaxCrashes \in Nat
    /\ ClientsHangUp \in BOOLEAN /\ AdminMayRace \in BOOLEAN
    /\ Admin \notin Instances \X Versions
    /\ Absent \notin Contents

(* model.Plan: what it would write, whether drift was found when it was made,   *)
(* and whether it is neither expired nor altered.  A lifecycle action has no    *)
(* plan; its handler is given one of the same shape.                            *)
Plan == [op : PlanOps, inst : Instances, src : Sources, drift : BOOLEAN, valid : BOOLEAN]
Job == [op : PlanOps \cup LifecycleOps, inst : Instances, src : Sources,
        drift : BOOLEAN, valid : BOOLEAN]

(* model.Instance: the live source of every resource (with its hash), the names *)
(* that had a unit, and whether the instance was removed.                       *)
Record == [src : Sources, units : SUBSET Names, removed : BOOLEAN]

ASSUME NoRecordAssumption == NoRecord \notin Record
ASSUME NoSourceAssumption == {NoRecord, NoPlan} \cap Sources = {}

VARIABLES
    pc,         \* where each request is
    todo,       \* what is left of the loop it is in
    tx,         \* the local variables of its handler
    instances,  \* the state store: instance records
    plans,      \* the state store: plans
    docs,       \* the two generated documents of each instance
    edits, crashes,
    suspect     \* auxiliary: instances of which an operation was ever cut short, or
                \* could not be recorded or undone, or whose files were edited

requestVars == <<pc, todo, tx>>
storeVars == <<instances, plans, docs>>
envVars == <<edits, crashes>>
vars == <<hostVars, requestVars, storeVars, envVars, suspect>>

Stages == {"idle", "check", "load", "snapshot", "stop", "removeOld", "installNew", "reload",
           "list", "start", "verify", "relist", "capture", "save", "manifest", "readme",
           "undoStop", "undoInstall", "reinstall", "undoReload", "undoStart", "undoVerify",
           "lifecycle", "done"}
Reading == {"check", "load", "snapshot"}
Answers == {"none", "succeeded", "refused", "failed", "rolledBack", "rollbackFailed"}

(* A handler's locals: the plan p and its id, the record it loaded, the         *)
(* snapshot old, the lists removedOld, installedNew and started, the generated  *)
(* units in qm, the sources captured, whether the rollback collected errors,    *)
(* whether its context is alive, and what it answered.                          *)
Handler == [id : PlanIds \cup {NoPlan}, job : Job \cup {NoPlan},
            prev : Record \cup {NoRecord}, old : Sources,
            removed : SUBSET Names, installed : SUBSET Names, started : SUBSET Names,
            listed : SUBSET Names, seen : Sources, rbErr : BOOLEAN, alive : BOOLEAN,
            answer : Answers]

Blank == [id |-> NoPlan, job |-> NoPlan, prev |-> NoRecord, old |-> NothingOn,
          removed |-> {}, installed |-> {}, started |-> {}, listed |-> {},
          seen |-> NothingOn, rbErr |-> FALSE, alive |-> TRUE, answer |-> "none"]

Init ==
    /\ HostInit
    /\ pc = [r \in Requests |-> "idle"]
    /\ todo = [r \in Requests |-> {}]
    /\ tx = [r \in Requests |-> Blank]
    /\ instances = [i \in Instances |-> NoRecord]
    /\ plans = [p \in PlanIds |-> NoPlan]
    /\ docs = [i \in Instances |-> [manifest |-> NoRecord, readme |-> NoRecord]]
    /\ edits = 0 /\ crashes = 0
    /\ suspect = {}

--------------------------------------------------------------------------------
(* Control.                                                                     *)

Op(r) == tx[r].job.op
Inst(r) == tx[r].job.inst
Alive(r) == tx[r].alive
Active(r) == pc[r] \notin {"idle", "done"}

(* Loops over sorted names, and the rollbacks that run backwards.               *)
First(n, S) == n \in S /\ \A m \in S : n <= m
Last(n, S) == n \in S /\ \A m \in S : m <= n

Go(r, stage, S) ==
    /\ pc' = [pc EXCEPT ![r] = stage]
    /\ todo' = [todo EXCEPT ![r] = S]

Keep(r, t) == tx' = [tx EXCEPT ![r] = t]

(* Answers what no caller knows when the client is gone.                        *)
ReplyBug(r, answer) ==
    Go(r, "done", {}) /\ Keep(r, [tx[r] EXCEPT !.answer = IF Alive(r) THEN answer ELSE "cancelled"])

Reply(r, answer) == Go(r, "done", {}) /\ Keep(r, [tx[r] EXCEPT !.answer = answer])

(* A step inside the stage, on n; and the step that leaves the stage.           *)
Visit(r, stage, n) == pc[r] = stage /\ First(n, todo[r])
VisitBack(r, stage, n) == pc[r] = stage /\ Last(n, todo[r])
Leave(r, stage) == pc[r] = stage /\ todo[r] = {}
Advance(r, n) == Go(r, pc[r], todo[r] \ {n})

HostSame == UNCHANGED hostVars
StoreSame == UNCHANGED <<storeVars, envVars, suspect>>

(* Removes everything the plan names, not only what this transaction installed. *)
AbortToBug(r, t) ==
    /\ Keep(r, t)
    /\ \/ t.job.op = "install" /\ Go(r, "undoInstall", NamesOf(t.job.src))
       \/ t.job.op = "update"  /\ Go(r, "undoStop", t.started)
       \/ t.job.op = "remove"  /\ Go(r, "reinstall", t.removed)

(* The first failure sends the handler to its rollback, with the sources it had *)
(* removed or installed and the units it had started.                           *)
AbortTo(r, t) ==
    /\ Keep(r, t)
    /\ \/ t.job.op = "install" /\ Go(r, "undoInstall", t.installed)
       \/ t.job.op = "update"  /\ Go(r, "undoStop", t.started)
       \/ t.job.op = "remove"  /\ Go(r, "reinstall", t.removed)

Abort(r) == AbortTo(r, tx[r])

(* Drops the errors of the rollback.                                            *)
EndRollbackBug(r, failed) == Reply(r, "rolledBack") /\ UNCHANGED suspect

(* The end of a rollback: its errors are joined to the cause.                   *)
EndRollback(r, failed) ==
    IF tx[r].rbErr \/ failed
    THEN Reply(r, "rollbackFailed") /\ suspect' = suspect \cup {Inst(r)}
    ELSE Reply(r, "rolledBack") /\ UNCHANGED suspect

(* Remembers only the last call.                                                *)
RollbackErrorBug(r, err) == Keep(r, [tx[r] EXCEPT !.rbErr = err])

RollbackError(r, err) == Keep(r, [tx[r] EXCEPT !.rbErr = @ \/ err])

--------------------------------------------------------------------------------
(* Plans.                                                                       *)

Managed(i) == instances[i] # NoRecord
Live(i) == Managed(i) /\ ~instances[i].removed

Drifted(i) == \E n \in NamesOf(instances[i].src) : files[n] # instances[i].src[n]

Runnable(id) == plans[id] # NoPlan /\ plans[id].valid

(* CreatePlan, one step: everything it reads is read again before it is used,   *)
(* but for the names and contents to install, which depend on no shared state.  *)
(* A live file that cannot be read counts as drift.  An id is used again only   *)
(* when its plan can no longer run (the code draws fresh ones).                 *)
CreatePlan(id, op, i, v, misread) ==
    /\ ~Runnable(id)
    /\ \A r \in Requests : tx[r].id # id
    /\ op \in Ops \cap PlanOps /\ v \in Catalog[i]
    /\ IF op = "install" THEN ~Live(i) ELSE Managed(i)
    /\ LET compared == op # "install" /\ Live(i) IN
       /\ misread => compared
       /\ Answer(TRUE, misread)
       /\ plans' = [plans EXCEPT ![id] =
              [op |-> op, inst |-> i,
               src |-> IF op = "remove" THEN NothingOn ELSE Rendered(i, v),
               drift |-> compared /\ (misread \/ Drifted(i)), valid |-> TRUE]]
    /\ UNCHANGED <<files, units, requestVars, instances, docs, envVars, suspect>>

(* Fifteen minutes pass, or the stored plan no longer matches its digest.  A     *)
(* handler looks only when it begins, so this may wait until none holds the plan.*)
SpoilPlan(id) ==
    /\ Runnable(id)
    /\ \A r \in Requests : tx[r].id # id
    /\ plans' = [plans EXCEPT ![id].valid = FALSE]
    /\ HostSame
    /\ UNCHANGED <<requestVars, instances, docs, envVars, suspect>>

Refuses(p) == ~p.valid \/ p.drift \/ (p.op # "install" /\ ~Managed(p.inst))

ExecutePlan(r, id) ==
    /\ pc[r] = "idle" /\ plans[id] # NoPlan
    /\ LET p == plans[id]
           t == [Blank EXCEPT !.id = id, !.job = p,
                              !.prev = IF p.op = "install" THEN NoRecord ELSE instances[p.inst]]
       IN  \/ /\ Refuses(p)
              /\ Go(r, "done", {}) /\ Keep(r, [t EXCEPT !.answer = "refused"])
           \/ /\ ~Refuses(p) /\ p.op = "install"
              /\ Go(r, "load", {}) /\ Keep(r, t)
           \/ /\ ~Refuses(p) /\ p.op # "install"
              /\ Go(r, "check", NamesOf(t.prev.src)) /\ Keep(r, t)
    /\ HostSame /\ StoreSame

(* Trusts the drift that was computed with the plan.                            *)
MatchesBug(r, n) == TRUE

(* The second drift check, immediately before execution: an unreadable file is  *)
(* drift too.                                                                   *)
Matches(r, n) == files[n] = tx[r].prev.src[n]

CheckDrift(r) ==
    /\ \/ \E n \in Names, err \in BOOLEAN :
              /\ Visit(r, "check", n)
              /\ GetQuadlet(Alive(r), n, err)
              /\ IF err \/ ~Matches(r, n) THEN Reply(r, "refused")
                                          ELSE Advance(r, n) /\ UNCHANGED tx
       \/ Leave(r, "check") /\ Go(r, "load", {}) /\ HostSame /\ UNCHANGED tx
    /\ StoreSame

--------------------------------------------------------------------------------
(* The forward path of install, update and remove.                              *)

(* EnsureDir for every directory (not for a removal), then the record again.    *)
Load(r) ==
    /\ Leave(r, "load")
    /\ \E err \in BOOLEAN :
         /\ Answer(TRUE, err)
         /\ \/ err /\ Reply(r, "failed")
            \/ /\ ~err /\ Op(r) = "install"
               /\ Go(r, "installNew", NamesOf(tx[r].job.src)) /\ UNCHANGED tx
            \/ /\ ~err /\ Op(r) # "install"
               /\ Go(r, "snapshot", NamesOf(instances[Inst(r)].src))
               /\ Keep(r, [tx[r] EXCEPT !.prev = instances[Inst(r)]])
    /\ UNCHANGED <<files, units>> /\ StoreSame

Snapshot(r) ==
    /\ \/ \E n \in Names, err \in BOOLEAN :
              /\ Visit(r, "snapshot", n)
              /\ GetQuadlet(Alive(r), n, err)
              /\ IF err THEN Reply(r, "failed")
                 ELSE Advance(r, n) /\ Keep(r, [tx[r] EXCEPT !.old[n] = files[n]])
       \/ Leave(r, "snapshot") /\ Go(r, "stop", tx[r].prev.units) /\ HostSame /\ UNCHANGED tx
    /\ StoreSame

(* A failed stop returns at once: nothing is undone, nothing says so.           *)
StopUnit(r) ==
    /\ \/ \E n \in Names, err \in BOOLEAN :
              /\ Visit(r, "stop", n)
              /\ Stop(Alive(r), n, err)
              /\ IF err THEN Reply(r, "failed") ELSE Advance(r, n) /\ UNCHANGED tx
       \/ /\ Leave(r, "stop")
          /\ Go(r, "removeOld", NamesOf(tx[r].prev.src)) /\ HostSame /\ UNCHANGED tx
    /\ StoreSame

(* While removing, only what was removed is put back (rollbackRemovedOld).      *)
RemoveOld(r) ==
    /\ \/ \E n \in Names, err \in BOOLEAN :
              /\ Visit(r, "removeOld", n)
              /\ RemoveQuadlet(Alive(r), n, FALSE, err)
              /\ IF err THEN Go(r, "reinstall", tx[r].removed) /\ UNCHANGED tx
                 ELSE Advance(r, n) /\ Keep(r, [tx[r] EXCEPT !.removed = @ \cup {n}])
       \/ /\ Leave(r, "removeOld")
          /\ IF Op(r) = "update" THEN Go(r, "installNew", NamesOf(tx[r].job.src))
                                 ELSE Go(r, "reload", {})
          /\ HostSame /\ UNCHANGED tx
    /\ StoreSame

(* Tracks a source before it is installed, as started does with the units.      *)
InstallNewBug(r) ==
    /\ \/ \E n \in Names, err \in BOOLEAN :
              /\ Visit(r, "installNew", n)
              /\ InstallQuadlet(Alive(r), n, tx[r].job.src[n], err)
              /\ LET t == [tx[r] EXCEPT !.installed = @ \cup {n}] IN
                 IF err THEN AbortTo(r, t) ELSE Advance(r, n) /\ Keep(r, t)
       \/ Leave(r, "installNew") /\ Go(r, "reload", {}) /\ HostSame /\ UNCHANGED tx
    /\ StoreSame

(* Rolls nothing back when a source cannot be installed.                        *)
InstallNewQuitBug(r) ==
    /\ \/ \E n \in Names, err \in BOOLEAN :
              /\ Visit(r, "installNew", n)
              /\ InstallQuadlet(Alive(r), n, tx[r].job.src[n], err)
              /\ IF err THEN Go(r, "undoReload", {}) /\ UNCHANGED tx
                 ELSE Advance(r, n) /\ Keep(r, [tx[r] EXCEPT !.installed = @ \cup {n}])
       \/ Leave(r, "installNew") /\ Go(r, "reload", {}) /\ HostSame /\ UNCHANGED tx
    /\ StoreSame

InstallNew(r) ==
    /\ \/ \E n \in Names, err \in BOOLEAN :
              /\ Visit(r, "installNew", n)
              /\ InstallQuadlet(Alive(r), n, tx[r].job.src[n], err)
              /\ IF err THEN Abort(r)
                 ELSE Advance(r, n) /\ Keep(r, [tx[r] EXCEPT !.installed = @ \cup {n}])
       \/ Leave(r, "installNew") /\ Go(r, "reload", {}) /\ HostSame /\ UNCHANGED tx
    /\ StoreSame

ReloadUnits(r) ==
    /\ Leave(r, "reload")
    /\ \E err \in BOOLEAN :
         /\ Reload(Alive(r), err)
         /\ IF err THEN Abort(r)
            ELSE Go(r, IF Op(r) = "remove" THEN "save" ELSE "list", {}) /\ UNCHANGED tx
    /\ StoreSame

(* quadletMap: the generated units that exist now.                              *)
ListGenerated(r, stage, next, S) ==
    /\ Leave(r, stage)
    /\ \E err \in BOOLEAN :
         /\ ListQuadlets(Alive(r), err)
         /\ IF err THEN Abort(r)
            ELSE Go(r, next, S) /\ Keep(r, [tx[r] EXCEPT !.listed = NamesOf(files)])
    /\ StoreSame

FindUnits(r) == ListGenerated(r, "list", "start", NamesOf(tx[r].job.src) \cap StartNames)

(* An install starts its units, an update restarts them; a unit is tracked      *)
(* before it is restarted, so that the rollback stops it even after an error.   *)
StartUnit(r) ==
    /\ \/ \E n \in Names, err \in BOOLEAN :
              /\ Visit(r, "start", n)
              /\ n \in tx[r].listed
              /\ IF Op(r) = "install" THEN Start(Alive(r), n, err) ELSE Restart(Alive(r), n, err)
              /\ LET t == [tx[r] EXCEPT !.started = @ \cup {n}] IN
                 IF err THEN AbortTo(r, t) ELSE Go(r, "verify", todo[r]) /\ Keep(r, t)
       \/ \E n \in Names :
              Visit(r, "start", n) /\ n \notin tx[r].listed /\ Abort(r) /\ HostSame
       \/ Leave(r, "start") /\ Go(r, "relist", {}) /\ HostSame /\ UNCHANGED tx
    /\ StoreSame

(* Ignores the verification.                                                    *)
VerifyUnitBug(r) ==
    /\ \E n \in Names : Visit(r, "verify", n) /\ Go(r, "start", todo[r] \ {n})
    /\ HostSame /\ StoreSame /\ UNCHANGED tx

VerifyUnit(r) ==
    /\ \E n \in Names, err \in BOOLEAN :
         /\ Visit(r, "verify", n)
         /\ Verify(Alive(r), n, err)
         /\ IF err THEN Abort(r) ELSE Go(r, "start", todo[r] \ {n}) /\ UNCHANGED tx
    /\ StoreSame

(* captureResources: list again, then read every installed source back.         *)
Relist(r) == ListGenerated(r, "relist", "capture", NamesOf(tx[r].job.src))

Capture(r) ==
    /\ \/ \E n \in Names, err \in BOOLEAN :
              /\ Visit(r, "capture", n)
              /\ GetQuadlet(Alive(r), n, err)
              /\ IF err THEN Abort(r)
                 ELSE Advance(r, n) /\ Keep(r, [tx[r] EXCEPT !.seen[n] = files[n]])
       \/ Leave(r, "capture") /\ Go(r, "save", {}) /\ HostSame /\ UNCHANGED tx
    /\ StoreSame

NewRecord(t) ==
    IF t.job.op = "remove" THEN [t.prev EXCEPT !.removed = TRUE]
    ELSE [src |-> t.seen, units |-> NamesOf(t.seen) \cap t.listed, removed |-> FALSE]

(* The host has changed; what fails from here on is reported and not undone.    *)
Unrecorded(r) == Reply(r, "failed") /\ suspect' = suspect \cup {Inst(r)}

(* Ignores the error of the state store.                                        *)
SaveInstanceBug(r) ==
    /\ Leave(r, "save")
    /\ \E err \in BOOLEAN :
         /\ Answer(TRUE, err)
         /\ instances' = IF err THEN instances
                         ELSE [instances EXCEPT ![Inst(r)] = NewRecord(tx[r])]
         /\ Go(r, "manifest", {}) /\ UNCHANGED <<tx, suspect>>
    /\ UNCHANGED <<files, units, plans, docs, envVars>>

SaveInstance(r) ==
    /\ Leave(r, "save")
    /\ \E err \in BOOLEAN :
         /\ Answer(TRUE, err)
         /\ IF err THEN Unrecorded(r) /\ UNCHANGED instances
            ELSE /\ instances' = [instances EXCEPT ![Inst(r)] = NewRecord(tx[r])]
                 /\ Go(r, "manifest", {}) /\ UNCHANGED <<tx, suspect>>
    /\ UNCHANGED <<files, units, plans, docs, envVars>>

(* Leaves the documents of a removed instance alone.                            *)
WriteManifestBug(r) ==
    /\ Leave(r, "manifest") /\ Go(r, "readme", {})
    /\ docs' = IF Op(r) = "remove" THEN docs
               ELSE [docs EXCEPT ![Inst(r)].manifest = NewRecord(tx[r])]
    /\ UNCHANGED <<hostVars, instances, plans, envVars, tx, suspect>>

WriteManifest(r) ==
    /\ Leave(r, "manifest")
    /\ \E err \in BOOLEAN :
         /\ Answer(TRUE, err)
         /\ IF err THEN Unrecorded(r) /\ UNCHANGED docs
            ELSE /\ docs' = [docs EXCEPT ![Inst(r)].manifest = NewRecord(tx[r])]
                 /\ Go(r, "readme", {}) /\ UNCHANGED <<tx, suspect>>
    /\ UNCHANGED <<files, units, instances, plans, envVars>>

(* The last document, the answer, and DeletePlan, whose error is ignored.       *)
WriteReadme(r) ==
    /\ Leave(r, "readme")
    /\ \/ Answer(TRUE, TRUE) /\ Unrecorded(r) /\ UNCHANGED <<docs, plans>>
       \/ /\ docs' = [docs EXCEPT ![Inst(r)].readme = NewRecord(tx[r])]
          /\ Reply(r, "succeeded") /\ UNCHANGED suspect
          /\ \E err \in BOOLEAN :
               /\ Answer(TRUE, err)
               /\ plans' = IF err THEN plans ELSE [plans EXCEPT ![tx[r].id] = NoPlan]
    /\ UNCHANGED <<files, units, instances, envVars>>

--------------------------------------------------------------------------------
(* The rollbacks.  They run under the context of the request, so they fail too  *)
(* once it is cancelled.  An error is collected and the rollback goes on.       *)

UndoStop(r) ==
    /\ \/ \E n \in Names, err \in BOOLEAN :
              /\ VisitBack(r, "undoStop", n)
              /\ Stop(Alive(r), n, err)
              /\ Advance(r, n) /\ RollbackError(r, err)
       \/ /\ Leave(r, "undoStop")
          /\ Go(r, "undoInstall", tx[r].installed) /\ HostSame /\ UNCHANGED tx
    /\ StoreSame

UndoInstall(r) ==
    /\ \/ \E n \in Names, err \in BOOLEAN :
              /\ VisitBack(r, "undoInstall", n)
              /\ RemoveQuadlet(Alive(r), n, Op(r) = "install", err)
              /\ Advance(r, n) /\ RollbackError(r, err)
       \/ /\ Leave(r, "undoInstall")
          /\ IF Op(r) = "install" THEN Go(r, "undoReload", {})
                                  ELSE Go(r, "reinstall", NamesOf(tx[r].old))
          /\ HostSame /\ UNCHANGED tx
    /\ StoreSame

Reinstall(r) ==
    /\ \/ \E n \in Names, err \in BOOLEAN :
              /\ Visit(r, "reinstall", n)
              /\ InstallQuadlet(Alive(r), n, tx[r].old[n], err)
              /\ Advance(r, n) /\ RollbackError(r, err)
       \/ Leave(r, "reinstall") /\ Go(r, "undoReload", {}) /\ HostSame /\ UNCHANGED tx
    /\ StoreSame

(* Restores the sources and restarts without a daemon-reload.                   *)
UndoReloadBug(r) ==
    /\ Leave(r, "undoReload") /\ HostSame
    /\ IF Op(r) = "install" THEN EndRollback(r, FALSE)
       ELSE Go(r, "undoStart", tx[r].prev.units) /\ UNCHANGED <<tx, suspect>>
    /\ UNCHANGED <<storeVars, envVars>>

(* An install has nothing to restart: its rollback ends here.                   *)
UndoReload(r) ==
    /\ Leave(r, "undoReload")
    /\ \E err \in BOOLEAN :
         /\ Reload(Alive(r), err)
         /\ IF Op(r) = "install" THEN EndRollback(r, err)
            ELSE /\ Go(r, "undoStart", tx[r].prev.units)
                 /\ RollbackError(r, err) /\ UNCHANGED suspect
    /\ UNCHANGED <<storeVars, envVars>>

(* Tries a unit again until it starts.                                          *)
UndoStartBug(r) ==
    /\ \/ \E n \in Names, err \in BOOLEAN :
              /\ Visit(r, "undoStart", n)
              /\ Restart(Alive(r), n, err)
              /\ Go(r, IF err THEN "undoStart" ELSE "undoVerify", todo[r])
              /\ UNCHANGED <<tx, suspect>>
       \/ Leave(r, "undoStart") /\ EndRollback(r, FALSE) /\ HostSame
    /\ UNCHANGED <<storeVars, envVars>>

(* restartPrevious, and the loop of rollbackRemove, which starts instead: every *)
(* unit of the previous record, whether or not the catalog starts it.           *)
UndoStart(r) ==
    /\ \/ \E n \in Names, err \in BOOLEAN :
              /\ Visit(r, "undoStart", n)
              /\ IF Op(r) = "remove" THEN Start(Alive(r), n, err) ELSE Restart(Alive(r), n, err)
              /\ RollbackError(r, err)
              /\ IF err THEN Advance(r, n) ELSE Go(r, "undoVerify", todo[r])
              /\ UNCHANGED suspect
       \/ Leave(r, "undoStart") /\ EndRollback(r, FALSE) /\ HostSame
    /\ UNCHANGED <<storeVars, envVars>>

UndoVerify(r) ==
    /\ \E n \in Names, err \in BOOLEAN :
         /\ Visit(r, "undoVerify", n)
         /\ Verify(Alive(r), n, err)
         /\ RollbackError(r, err) /\ Go(r, "undoStart", todo[r] \ {n})
    /\ StoreSame

--------------------------------------------------------------------------------
(* Lifecycle: start, stop or restart the units of an instance.                  *)

Lifecycle(r, i, action) ==
    /\ pc[r] = "idle" /\ action \in Ops \cap LifecycleOps
    /\ LET t == [Blank EXCEPT !.job = [op |-> action, inst |-> i, src |-> NothingOn,
                                       drift |-> FALSE, valid |-> TRUE]]
       IN  IF Live(i) THEN Go(r, "lifecycle", instances[i].units) /\ Keep(r, t)
                      ELSE Go(r, "done", {}) /\ Keep(r, [t EXCEPT !.answer = "refused"])
    /\ HostSame /\ StoreSame

LifecycleStep(r) ==
    /\ \/ \E n \in Names, err \in BOOLEAN :
              /\ Visit(r, "lifecycle", n)
              /\ \/ Op(r) = "start"   /\ Start(Alive(r), n, err)
                 \/ Op(r) = "stop"    /\ Stop(Alive(r), n, err)
                 \/ Op(r) = "restart" /\ Restart(Alive(r), n, err)
              /\ IF err THEN Reply(r, "failed") ELSE Advance(r, n) /\ UNCHANGED tx
       \/ Leave(r, "lifecycle") /\ Reply(r, "succeeded") /\ HostSame
    /\ StoreSame

--------------------------------------------------------------------------------
(* Clients, the administrator and the agent's process.                          *)

(* The answer has gone out and the goroutine ends.                              *)
Answered(r) ==
    /\ pc[r] = "done"
    /\ Go(r, "idle", {}) /\ Keep(r, Blank)
    /\ HostSame /\ StoreSame

(* The web client gives up after 20 seconds: the request's context is cancelled *)
(* and every call made under it from now on fails.                              *)
HangUp(r) ==
    /\ ClientsHangUp /\ Active(r) /\ Alive(r)
    /\ Keep(r, [tx[r] EXCEPT !.alive = FALSE])
    /\ HostSame /\ StoreSame /\ UNCHANGED <<pc, todo>>

(* The agent is killed, or stops without waiting for its handlers, and comes    *)
(* back: nothing at start-up looks for work that was cut short.                 *)
AgentRestart ==
    /\ crashes < MaxCrashes /\ crashes' = crashes + 1
    /\ \E r \in Requests : Active(r)
    /\ pc' = [r \in Requests |-> "idle"]
    /\ todo' = [r \in Requests |-> {}]
    /\ tx' = [r \in Requests |-> Blank]
    /\ suspect' = suspect \cup
           {Inst(r) : r \in {q \in Requests : Active(q) /\ pc[q] \notin Reading \cup {"lifecycle"}}}
    /\ HostSame /\ UNCHANGED <<storeVars, edits>>

AdminEdit(n, c) ==
    /\ edits < MaxEdits /\ edits' = edits + 1
    /\ AdminMayRace \/ \A r \in Requests : pc[r] = "idle"
    /\ c \in {Admin, Absent} /\ files[n] # c
    /\ files' = [files EXCEPT ![n] = c]
    /\ suspect' = suspect \cup {i \in Instances : Live(i) /\ instances[i].src[n] # Absent}
    /\ UNCHANGED <<units, faults, requestVars, storeVars, crashes>>

Begin ==
    \/ \E id \in PlanIds, op \in Ops, i \in Instances, v \in Versions, misread \in BOOLEAN :
           CreatePlan(id, op, i, v, misread)
    \/ \E id \in PlanIds : SpoilPlan(id)
    \/ \E r \in Requests, id \in PlanIds : ExecutePlan(r, id)
    \/ \E r \in Requests, i \in Instances, action \in Ops : Lifecycle(r, i, action)

Step(r) ==
    \/ CheckDrift(r) \/ Load(r) \/ Snapshot(r) \/ StopUnit(r) \/ RemoveOld(r)
    \/ InstallNew(r) \/ ReloadUnits(r) \/ FindUnits(r) \/ StartUnit(r) \/ VerifyUnit(r)
    \/ Relist(r) \/ Capture(r) \/ SaveInstance(r) \/ WriteManifest(r) \/ WriteReadme(r)
    \/ UndoStop(r) \/ UndoInstall(r) \/ Reinstall(r) \/ UndoReload(r)
    \/ UndoStart(r) \/ UndoVerify(r) \/ LifecycleStep(r)

Environment ==
    \/ \E r \in Requests : Answered(r) \/ HangUp(r)
    \/ AgentRestart
    \/ \E n \in Names, c \in {Admin, Absent} : AdminEdit(n, c)

Next == Begin \/ (\E r \in Requests : Step(r)) \/ Environment

Spec == Init /\ [][Next]_vars

================================================================================
