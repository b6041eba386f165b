---------------------------- MODULE EngineProperties ----------------------------
(* What the transactions of internal/engine promise.                            *)
EXTENDS Engine

HostType ==
    /\ files \in Sources /\ loaded \in Sources /\ running \in Sources
    /\ faults \in 0 .. MaxFaults

RequestType ==
    /\ pc \in [Requests -> Stages]
    /\ todo \in [Requests -> SUBSET Names]
    /\ tx \in [Requests -> Handler]

StoreType ==
    /\ instances \in [Instances -> Record \cup {NoRecord}]
    /\ plans \in [PlanIds -> Plan \cup {NoPlan}]
    /\ docs \in [Instances -> [manifest : Record \cup {NoRecord}, readme : Record \cup {NoRecord}]]

(* A handler that works on an existing instance has loaded its record, and the  *)
(* record is never deleted; only an update or a removal reaches the stages that *)
(* handle previous sources.                                                     *)
Fits(stage, t, records) ==
    /\ stage # "idle" => t.job \in Job
    /\ stage \notin {"idle", "done", "lifecycle"} => t.job.op \in PlanOps
    /\ stage \in {"check", "snapshot", "stop", "removeOld"} => t.job.op \in {"update", "remove"}
    /\ stage = "lifecycle" => t.job.op \in LifecycleOps
    /\ stage \notin {"idle", "done"} /\ t.job.op \in {"update", "remove"} =>
          t.prev \in Record /\ records[t.job.inst] # NoRecord

HandlersFit == \A r \in Requests : Fits(pc[r], tx[r], instances)

(* Every variable keeps its type: the state of the host, of the handlers and of *)
(* the store that the handlers of internal/engine may leave.                    *)
TypeOK ==
    /\ HostType /\ RequestType /\ StoreType /\ HandlersFit
    /\ edits \in Nat /\ crashes \in Nat
    /\ suspect \subseteq Instances

--------------------------------------------------------------------------------

OwnedBy(c, i) == c \in {i} \X Versions

Busy(i) == \E r \in Requests : Active(r) /\ Inst(r) = i /\ Op(r) \in PlanOps

Ended(r, answer) == pc[r] = "done" /\ tx[r].answer = answer

(* An install or update answers "succeeded" only when every name of the plan is *)
(* on disk, loaded, recorded and (if it starts) running with the new content,   *)
(* and no name the new version dropped is left, on disk or running; a removal,  *)
(* only when nothing of the instance is left (upsert, remove: success is        *)
(* answered after reload, start, verification and recording).  An install after *)
(* a failure that could not be undone only knows that the units are active.     *)
SuccessIsFaithful ==
    \A r \in Requests :
        Ended(r, "succeeded") /\ Op(r) \in PlanOps =>
            LET want == tx[r].job.src
                was  == IF Op(r) = "install" THEN NothingOn ELSE tx[r].prev.src
                rec  == instances[Inst(r)]
            IN  /\ rec.removed = (Op(r) = "remove")
                /\ Op(r) # "remove" => rec.src = want
                /\ \A n \in NamesOf(want) :
                      /\ files[n] = want[n] /\ loaded[n] = want[n]
                      /\ n \in StartNames =>
                            IF Op(r) = "install" /\ Inst(r) \in suspect THEN running[n] # Absent
                                                  ELSE running[n] = want[n]
                /\ \A n \in NamesOf(was) \ NamesOf(want) :
                      files[n] = Absent /\ loaded[n] = Absent /\ running[n] = Absent

(* A failed update or removal whose answer does not say "rollback failed" has   *)
(* brought every previous source back, on disk and loaded, and every unit of    *)
(* the previous record runs its previous definition (rollbackRemovedOld,        *)
(* rollbackUpdatedSources, rollbackRemove), whatever failed and at which call.  *)
RollbackRestores ==
    \A r \in Requests :
        Ended(r, "rolledBack") /\ Op(r) \in {"update", "remove"} =>
            LET was == tx[r].prev IN
            \A n \in NamesOf(was.src) :
                /\ files[n] = was.src[n] /\ loaded[n] = was.src[n]
                /\ n \in was.units => running[n] = was.src[n]

(* The recorded baseline of a live instance is what is on disk, so that the     *)
(* next drift check does not blame the administrator: the record is wrong only  *)
(* while a transaction runs, or after an end that left the instance suspect.    *)
BaselineIsLive ==
    \A i \in Instances \ suspect :
        Live(i) /\ ~Busy(i) =>
            \A n \in NamesOf(instances[i].src) : files[n] = instances[i].src[n]

(* A unit that runs runs the file on disk: no handler ends, and none fails      *)
(* cleanly, leaving a process whose quadlet was removed or replaced under it.   *)
UnitsRunTheirFiles ==
    (\A r \in Requests : ~Active(r)) =>
        \A i \in Instances \ suspect, n \in Names :
            OwnedBy(running[n], i) => files[n] = running[n]

(* The two generated documents tell what the record tells, once the last        *)
(* transaction has ended well (docsgen.Write after SaveInstance).               *)
DocsFollowRecord ==
    \A i \in Instances \ suspect :
        ~Busy(i) => docs[i] = [manifest |-> instances[i], readme |-> instances[i]]

(* No step of the engine removes or replaces a file that its own instance did   *)
(* not author: neither the administrator's nor another instance's of the same   *)
(* application, whose quadlets have the same names.  Only the administrator may.*)
ForeignUntouched ==
    [][\A n \in Names :
          files[n] # Absent /\ files'[n] # files[n] =>
              \/ edits' # edits
              \/ \E r \in Requests : Active(r) /\ OwnedBy(files[n], Inst(r))]_vars

(* While only installs run, an installed instance keeps its files, whatever     *)
(* other installs do at the same time (a plan submitted twice, another instance *)
(* with the same names, a rollback that removes with force).                    *)
InstallKeepsBaseline ==
    \A i \in Instances \ suspect :
        Live(i) => \A n \in NamesOf(instances[i].src) : files[n] = instances[i].src[n]

(* The files a handler has installed and may still remove: it believes they are *)
(* its own.                                                                     *)
Holds(r) ==
    IF pc[r] = "undoInstall" THEN todo[r]
    ELSE {n \in tx[r].installed : pc[r] \notin Reading \cup {"idle", "done", "undoReload"}}

(* While only installs run, what a handler holds is on disk with the content it *)
(* installed, and no two handlers hold the same file: a rollback removes with   *)
(* force only what its own transaction put there.                               *)
OneInstaller ==
    \A r \in Requests :
        /\ \A n \in Holds(r) : files[n] = tx[r].job.src[n]
        /\ \A q \in Requests \ {r} : Holds(r) \cap Holds(q) = {}

(* Every request is answered, however many calls fail on the way: no stage of   *)
(* the forward path or of a rollback waits for another, and every loop ends.    *)
EveryRequestEnds == \A r \in Requests : Active(r) ~> ~Active(r)

(* How far a handler is: its stages in the order in which it can pass them, the *)
(* forward path first and then the rollbacks, whichever it enters.              *)
Rank(stage) ==
    CASE stage = "idle" -> 0
      [] stage = "check" -> 1
      [] stage = "load" -> 2
      [] stage = "snapshot" -> 3
      [] stage = "stop" -> 4
      [] stage = "removeOld" -> 5
      [] stage = "installNew" -> 6
      [] stage = "reload" -> 7
      [] stage = "list" -> 8
      [] stage \in {"start", "verify"} -> 9
      [] stage = "relist" -> 10
      [] stage = "capture" -> 11
      [] stage = "save" -> 12
      [] stage = "manifest" -> 13
      [] stage = "readme" -> 14
      [] stage = "undoStop" -> 15
      [] stage = "undoInstall" -> 16
      [] stage = "reinstall" -> 17
      [] stage = "undoReload" -> 18
      [] stage \in {"undoStart", "undoVerify"} -> 19
      [] stage = "lifecycle" -> 20
      [] stage = "done" -> 21

(* It reaches a later stage, it shortens its loop, or it goes on to verify what *)
(* it has just started.                                                         *)
Closer(r) ==
    \/ Rank(pc[r]) < Rank(pc'[r])
    \/ /\ Rank(pc'[r]) = Rank(pc[r])
       /\ \/ todo'[r] \subseteq todo[r] /\ todo'[r] # todo[r]
          \/ pc[r] \in {"start", "undoStart"} /\ pc'[r] # pc[r] /\ todo'[r] = todo[r]

(* Nothing a handler does, and no failure it meets, makes it go back or round   *)
(* in circles: a rollback does not resume the forward path, is entered once,    *)
(* and does not try a call again, so that a request comes to an end after a     *)
(* number of calls that its plan and its record bound.                          *)
HandlersAdvance == [][\A r \in Requests : Step(r) => Closer(r)]_vars

(* The mapping to Deployment.  A source is what the record says of an instance  *)
(* while a transaction runs, and what the host has under the recorded names     *)
(* afterwards.                                                                  *)
Recorded(i) == IF Live(i) THEN instances[i].src ELSE NothingOn

OnHost(i) == [n \in Names |-> IF n \in NamesOf(Recorded(i)) THEN files[n] ELSE Absent]

(* The names a handler has installed, and will record or remove.                *)
Underway == {"installNew", "reload", "list", "start", "verify", "relist", "capture", "save",
             "undoStop"}

Pending(r) ==
    IF pc[r] = "undoInstall" THEN todo[r]
    ELSE {n \in tx[r].installed : pc[r] \in Underway}

Accounted(i) == UNION {Pending(r) : r \in {q \in Requests : Active(q) /\ Inst(q) = i}}

(* The names of a record that a handler replaces.                               *)
Replaced(i) ==
    UNION {NamesOf(tx[r].prev.src) :
               r \in {q \in Requests : /\ Active(q) /\ Inst(q) = i /\ Op(q) \in {"update", "remove"}
                                      /\ pc[q] \notin Reading \cup {"stop", "manifest", "readme"}}}

(* Every other file of the instance is left behind: one of an install whose     *)
(* answer was lost is in no list, and no rollback looks for it.  An update of a *)
(* removed instance replaces such files when they are as recorded, and until it *)
(* has they count.                                                              *)
LeftBehind(i) ==
    (({n \in Names : OwnedBy(files[n], i)} \ Accounted(i)) \cup Replaced(i)) \ NamesOf(Recorded(i))

(* A rollback met an error, or has ended with one.                              *)
Doubtful(i) ==
    i \in suspect \/ \E r \in Requests : Active(r) /\ Inst(r) = i /\ tx[r].rbErr

UndoStages == {"undoStop", "undoInstall", "reinstall", "undoReload", "undoStart", "undoVerify"}

PhaseOf(stage, failed) ==
    CASE stage = "idle" -> "idle"
      [] stage = "done" -> "answered"
      [] stage \in {"manifest", "readme"} -> "applied"
      [] stage \in UndoStages -> IF failed THEN "lost" ELSE "failing"
      [] OTHER -> "accepted"

D == INSTANCE Deployment WITH
        NoSource <- NothingOn, Same <- NoPlan, Unknown <- NoRecord,
        deployed <- [i \in Instances |-> IF Doubtful(i) THEN NoRecord
                                         ELSE IF Busy(i) THEN Recorded(i) ELSE OnHost(i)],
        left <- [i \in Instances |-> IF Doubtful(i) THEN {} ELSE LeftBehind(i)],
        phase <- [r \in Requests |-> PhaseOf(pc[r], tx[r].rbErr)],
        order <- [r \in Requests |->
                     IF pc[r] = "idle" THEN [inst |-> NothingOn, want |-> NothingOn, adds |-> FALSE]
                     ELSE [inst |-> Inst(r), want |-> IF Op(r) \in PlanOps THEN tx[r].job.src ELSE NoPlan,
                           adds |-> Op(r) = "install"]],
        answer <- [r \in Requests |-> tx[r].answer]

(* A client may take an operation to be atomic, but for one file: the sources   *)
(* of an instance change at one instant (SaveInstance) if the answer is         *)
(* "succeeded", and not at all if it is a clean failure.  A clean failure may   *)
(* leave one file, and only one, that Podman installed without saying so        *)
(* (transaction.go:96-99 and 165-168 track a source after it is installed), and *)
(* under none of the recorded names.  More is left only by an install that was  *)
(* planned before its instance was there, or where nothing can be said of the   *)
(* instance: the agent stopped in the middle, the administrator edited, or the  *)
(* answer was that the operation could not be recorded or not be undone.        *)
OperationsAreAtomic == D!Spec

--------------------------------------------------------------------------------
(* What the documents say and the code does not do; each has a run that shows   *)
(* the step where it goes wrong.                                                *)

ServiceAsBefore(r) ==
    LET was == tx[r].prev IN
    \A n \in was.units : files[n] = was.src[n] /\ running[n] = was.src[n]

(* README.md: if any stage fails, restore the source and return the previous    *)
(* service to its working state.  Of an update that fails and does not say that *)
(* its rollback failed (the start of update: a failed stop returns at once).    *)
FailedUpdateRestoresService ==
    \A r \in Requests :
        /\ Ended(r, "failed") \/ Ended(r, "rolledBack")
        /\ Op(r) = "update" /\ Inst(r) \notin suspect
        => ServiceAsBefore(r)

(* The same, of an update that was rolled back because its client gave up, on a *)
(* host where nothing fails (the rollback runs under the cancelled context).    *)
CancelledUpdateRestoresService ==
    \A r \in Requests :
        Ended(r, "rollbackFailed") /\ Op(r) = "update" /\ faults = 0 => ServiceAsBefore(r)

================================================================================
