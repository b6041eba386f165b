------------------------------ MODULE OrderlyProofs ------------------------------
(* What the transactions promise, for any number of requests and instances, as  *)
(* long as two requests do not overlap that are about one instance or about two *)
(* with quadlets of the same name.                                              *)
EXTENDS OwnershipProofs, AtomicityProofs

(* What clients must respect: the next request about an instance waits for the  *)
(* answer to the last about it or one that shares a quadlet name with it, and   *)
(* only what is not installed is installed, only what is installed is updated   *)
(* or removed.                                                                  *)
Orderly ==
    /\ \A p, q \in Requests :
          pc[p] # "idle" /\ pc[q] # "idle" /\ p # q =>
              Inst(p) # Inst(q) /\ Family(Inst(p)) \cap Family(Inst(q)) = {}
    /\ \A r \in Requests :
          pc[r] \in {"check", "load"} => (Op(r) = "install" <=> ~Live(Inst(r)))

(* An instance that has its quadlet names for itself; all of them.              *)
Private(i) == \A j \in Instances \ {i} : Family(i) \cap Family(j) = {}

OwnNames == \A i \in Instances : Private(i)

(* What a handler replaces, what it installs, and what of that it starts.       *)
Previous(t) == IF t.job.op = "install" THEN {} ELSE NamesOf(t.prev.src)
New(t) == NamesOf(t.job.src)
Starts(t) == New(t) \cap StartNames

Out(S, source) == \A n \in S : source[n] = Absent

(* The names a loop has yet to reach, but for the one it is at.                 *)
Later(left) == {n \in left : \E m \in left : m < n}

(* A unit that was started and was not found dead.                              *)
Up(n, t, fresh, active) ==
    IF t.job.op = "install" /\ ~fresh THEN active[n] # Absent ELSE active[n] = t.job.src[n]

Reloaded == {"list", "start", "verify", "relist", "capture"} \cup Saving

(* The locals of a handler: what it has read, removed and started.              *)
Knows(stage, left, t) ==
    LET was == Previous(t) IN
    /\ t.job.op = "remove" => t.job.src = NothingOn
    /\ stage \in {"check", "load"} => t.old = NothingOn
    /\ stage \in {"check", "load", "snapshot", "stop"} => t.removed = {}
    /\ stage \in {"snapshot", "stop", "reinstall", "undoStart", "undoVerify"} => left \subseteq was
    /\ stage = "snapshot" =>
          t.old = [n \in Names |-> IF n \in was \ left THEN t.prev.src[n] ELSE Absent]
    /\ /\ stage \in {"stop", "removeOld", "installNew", "undoStop", "undoInstall", "reinstall"} \cup Forward
       /\ t.job.op # "install"
       => t.old = t.prev.src
    /\ stage = "removeOld" => t.removed = was \ left
    /\ stage = "reload" /\ t.job.op = "remove" => t.removed = was
    /\ stage \in {"start", "verify"} => left \subseteq Starts(t)
    /\ stage \in Before \cup {"installNew", "reload", "list"} => t.started = {}
    /\ stage \in Forward \cup Saving => t.started \subseteq Starts(t)
    /\ stage = "start" => t.started \cap left = {}
    /\ stage = "verify" => t.started \cap Later(left) = {}
    /\ stage \in {"undoStop", "undoInstall"} => t.job.op # "remove"
    /\ stage = "undoStop" => left \subseteq New(t)

(* The forward path: what was stopped is stopped, what was removed is gone.     *)
TakesDown(stage, left, t, onDisk, read, active) ==
    LET was == Previous(t) IN
    /\ stage = "stop" => Out(was \ left, active)
    /\ stage = "removeOld" => Out(was \ left, onDisk)
    /\ stage \in {"removeOld", "installNew", "reload", "list"} => Out(was, active)
    /\ stage \in {"installNew", "reload"} => Out(was \ New(t), onDisk)
    /\ stage \in Reloaded =>
          /\ Out(was \ New(t), onDisk) /\ Out(was \ New(t), read) /\ Out(was \ New(t), active)

(* What was reloaded is loaded, what was started is up.                         *)
BringsUp(stage, left, t, onDisk, read, active, fresh) ==
    /\ stage \in Reloaded =>
          \A n \in New(t) : onDisk[n] = t.job.src[n] /\ read[n] = t.job.src[n]
    /\ stage = "start" => \A n \in Starts(t) \ left : Up(n, t, fresh, active)
    /\ stage = "verify" =>
          \A n \in Starts(t) \ Later(left) :
              Up(n, t, fresh, active) \/ (n \in left /\ active[n] = Absent)
    /\ stage \in {"relist", "capture"} \cup Saving =>
          \A n \in Starts(t) : Up(n, t, fresh, active)

(* A rollback that has met no error: every previous source is back or missing,  *)
(* then loaded or missing, and then each unit that was restarted is neither.    *)
Restores(stage, left, t, onDisk, read, active) ==
    LET was == Previous(t)
        Back(S) == \A n \in S : onDisk[n] \in {t.prev.src[n], Absent}
    IN
    /\ t.job.op = "remove" =>
          /\ stage \in {"reinstall", "undoReload"} => Out(was, active)
          /\ stage = "undoStart" => Out(left, active)
          /\ stage = "undoVerify" => Out(Later(left), active)
    /\ ~t.rbErr =>
          /\ stage = "reinstall" => Back(was \ left)
          /\ stage \in {"undoReload", "undoStart", "undoVerify"} => Back(was)
          /\ stage \in {"undoStart", "undoVerify"} => \A n \in was : read[n] = onDisk[n]
          /\ stage = "undoStart" =>
                \A n \in was \ left : onDisk[n] = t.prev.src[n] /\ active[n] = t.prev.src[n]
          /\ stage = "undoVerify" =>
                \A n \in was \ Later(left) :
                    /\ onDisk[n] = t.prev.src[n]
                    /\ active[n] = t.prev.src[n] \/ (n \in left /\ active[n] = Absent)

(* Which units of an instance that is not suspect may run.                      *)
Runs(stage, left, t, active) ==
    LET Only(S) == \A n \in Family(t.job.inst) : active[n] # Absent => n \in S IN
    /\ stage \in {"removeOld", "installNew", "reload", "list"} => Only({})
    /\ stage \in {"start", "verify", "relist", "capture"} \cup Saving => Only(t.started)
    /\ ~t.rbErr =>
          /\ stage \in {"undoStop", "undoInstall"} => Only(left)
          /\ stage \in {"reinstall", "undoReload"} => Only({})
          /\ stage \in {"undoStart", "undoVerify"} => Only(Previous(t))

(* The answers that can be relied on (SuccessIsFaithful, RollbackRestores).     *)
Delivered(t, onDisk, read, active, fresh, record) ==
    /\ t.answer \in {"succeeded", "rolledBack"} /\ t.job.op \in PlanOps =>
          Previous(t) \subseteq Family(t.job.inst)
    /\ t.answer = "succeeded" /\ t.job.op \in PlanOps =>
          /\ record.removed = (t.job.op = "remove")
          /\ t.job.op # "remove" => record.src = t.job.src
          /\ \A n \in New(t) :
                /\ onDisk[n] = t.job.src[n] /\ read[n] = t.job.src[n]
                /\ n \in StartNames => Up(n, t, fresh, active)
          /\ \A n \in Previous(t) \ New(t) :
                onDisk[n] = Absent /\ read[n] = Absent /\ active[n] = Absent
    /\ t.answer = "rolledBack" /\ t.job.op \in {"update", "remove"} =>
          \A n \in Previous(t) :
              /\ onDisk[n] = t.prev.src[n] /\ read[n] = t.prev.src[n]
              /\ active[n] = t.prev.src[n]

Fresh(i, marked) == i \notin marked /\ Private(i)

(* The handler is about an instance in the state its operation is for.          *)
Fitting(stage, left, t, record) ==
    /\ stage \notin {"idle", "done", "lifecycle", "manifest", "readme"} =>
          (t.job.op = "install" <=> record = NoRecord \/ record.removed)
    /\ stage = "lifecycle" =>
          record # NoRecord /\ ~record.removed /\ left \subseteq NamesOf(record.src)

Keeping(stage, left, t, onDisk, read, active, fresh, record) ==
    stage # "idle" =>
        /\ Knows(stage, left, t)
        /\ Fitting(stage, left, t, record)
        /\ TakesDown(stage, left, t, onDisk, read, active)
        /\ BringsUp(stage, left, t, onDisk, read, active, fresh)
        /\ Restores(stage, left, t, onDisk, read, active)
        /\ fresh => Runs(stage, left, t, active)
        /\ stage = "done" => Delivered(t, onDisk, read, active, fresh, record)

Keeps(r) ==
    Keeping(pc[r], todo[r], tx[r], files, loaded, running, Fresh(Inst(r), suspect), instances[Inst(r)])

(* An instance at rest: no handler is past its last failed stop.                *)
Calm == {"idle", "check", "load", "snapshot", "stop", "lifecycle", "done"}

Baseline(i) ==
    Live(i) => \A n \in NamesOf(instances[i].src) :
                   files[n] = instances[i].src[n] /\ loaded[n] = instances[i].src[n]

RunsBaseline(i) ==
    Private(i) =>
        \A n \in Family(i) : running[n] # Absent => Live(i) /\ running[n] = instances[i].src[n]

AtRest(i) ==
    i \notin suspect /\ (\A r \in Requests : pc[r] \notin Calm => Inst(r) # i) =>
        Baseline(i) /\ RunsBaseline(i)

RecordsWhole == \A i \in Instances : Managed(i) => instances[i].units = NamesOf(instances[i].src)

Placed(source) == \A n \in Names, i \in Instances : OwnedBy(source[n], i) => n \in Family(i)

Served == \A r \in Requests : Keeps(r)

SInv ==
    /\ OInv /\ DInv /\ RecordsWhole /\ PlainPlans
    /\ Placed(files) /\ Placed(loaded) /\ Placed(running)
    /\ Served /\ \A i \in Instances : AtRest(i)

--------------------------------------------------------------------------------
(* What one call may change, name by name.                                      *)

LEMMA QuadletRemoved ==
    ASSUME TypeOK, NEW alive \in BOOLEAN, NEW n \in Names, NEW force \in BOOLEAN,
           NEW err \in BOOLEAN, RemoveQuadlet(alive, n, force, err)
    PROVE  /\ \A m \in Names \ {n} : files'[m] = files[m] /\ running'[m] = running[m]
           /\ files'[n] \in {files[n], Absent} /\ running'[n] \in {running[n], Absent}
           /\ ~err => files'[n] = Absent /\ running'[n] = Absent
           /\ loaded' = loaded
<1>1. files \in [Names -> Contents \cup {Absent}] /\ running \in [Names -> Contents \cup {Absent}]
  BY DEF TypeOK, HostType, Sources
<1>2. running' = running \/ running' = [running EXCEPT ![n] = Absent]
  BY DEF RemoveQuadlet, Outcome
<1>3. files' = files \/ files' = [files EXCEPT ![n] = Absent]
  BY DEF RemoveQuadlet, Outcome
<1>4. ~err => running' = [running EXCEPT ![n] = Absent] /\ files' = [files EXCEPT ![n] = Absent]
  BY DEF RemoveQuadlet, Outcome, Answer
<1>5. loaded' = loaded
  BY DEF RemoveQuadlet
<1> QED
  BY <1>1, <1>2, <1>3, <1>4, <1>5

LEMMA QuadletInstalled ==
    ASSUME TypeOK, NEW alive \in BOOLEAN, NEW n \in Names, NEW c,
           NEW err \in BOOLEAN, InstallQuadlet(alive, n, c, err)
    PROVE  /\ \A m \in Names \ {n} : files'[m] = files[m]
           /\ files'[n] \in {files[n], c} /\ UNCHANGED <<loaded, running>>
           /\ ~err => files'[n] = c
<1>1. files' = files \/ files' = [files EXCEPT ![n] = c]
  BY DEF InstallQuadlet, Outcome
<1>2. ~err => files' = [files EXCEPT ![n] = c]
  BY DEF InstallQuadlet, Outcome, Answer
<1> QED
  BY <1>1, <1>2 DEF TypeOK, HostType, Sources, InstallQuadlet, units

LEMMA UnitStarted ==
    ASSUME TypeOK, NEW alive \in BOOLEAN, NEW n \in Names, NEW err \in BOOLEAN,
           Start(alive, n, err)
    PROVE  /\ \A m \in Names \ {n} : running'[m] = running[m]
           /\ running'[n] = running[n] \/ (running[n] = Absent /\ running'[n] = loaded[n])
           /\ ~err => (loaded[n] # Absent \/ running[n] # Absent)
           /\ ~err /\ running[n] = Absent => running'[n] \in {loaded[n], Absent}
           /\ UNCHANGED <<files, loaded>>
<1> DEFINE up == [running EXCEPT ![n] = IF @ = Absent THEN loaded[n] ELSE @]
<1>1. running \in [Names -> Contents \cup {Absent}]
  BY DEF TypeOK, HostType, Sources
<1>2. \/ Answer(alive /\ Known(n), err) /\ running' \in Outcome(Known(n), err, running, {up})
      \/ /\ Known(n) /\ running[n] = Absent /\ ~err
         /\ running' = [running EXCEPT ![n] = Absent]
  BY DEF Start, Dies
<1>3. running' \in {running, up, [running EXCEPT ![n] = Absent]}
  BY <1>2 DEF Outcome
<1>4. running' = [running EXCEPT ![n] = Absent] => running' = up \/ running[n] = Absent \/ running' = running
  BY <1>1, <1>2 DEF Outcome
<1>5. ~err => Known(n)
  BY <1>2 DEF Answer
<1> QED
  BY <1>1, <1>3, <1>4, <1>5 DEF Start, Known

LEMMA UnitRestarted ==
    ASSUME TypeOK, NEW alive \in BOOLEAN, NEW n \in Names, NEW err \in BOOLEAN,
           Restart(alive, n, err)
    PROVE  /\ \A m \in Names \ {n} : running'[m] = running[m]
           /\ running'[n] \in {running[n], Absent, loaded[n]}
           /\ ~err => loaded[n] # Absent /\ running'[n] \in {loaded[n], Absent}
           /\ UNCHANGED <<files, loaded>>
<1> DEFINE down == [running EXCEPT ![n] = Absent]
           up == [running EXCEPT ![n] = loaded[n]]
<1>1. running \in [Names -> Contents \cup {Absent}]
  BY DEF TypeOK, HostType, Sources
<1>2. running' \in {running, up, down}
  BY DEF Restart, Outcome, Dies
<1>3. ~err => loaded[n] # Absent /\ running' \in {up, down}
  BY DEF Restart, Outcome, Dies, Answer
<1> QED
  BY <1>1, <1>2, <1>3 DEF Restart

LEMMA UnitStopped ==
    ASSUME TypeOK, NEW alive \in BOOLEAN, NEW n \in Names, NEW err \in BOOLEAN,
           Stop(alive, n, err)
    PROVE  /\ \A m \in Names \ {n} : running'[m] = running[m]
           /\ running'[n] \in {running[n], Absent}
           /\ ~err => running'[n] = Absent
           /\ UNCHANGED <<files, loaded>>
<1>1. running \in [Names -> Contents \cup {Absent}]
  BY DEF TypeOK, HostType, Sources
<1>2. running' \in {running, [running EXCEPT ![n] = Absent]}
  BY DEF Stop, Outcome
<1>3. ~err => running' = [running EXCEPT ![n] = Absent]
  BY DEF Stop, Outcome, Answer
<1> QED
  BY <1>1, <1>2, <1>3 DEF Stop

LEMMA UnitsReloaded ==
    ASSUME TypeOK, NEW alive \in BOOLEAN, NEW err \in BOOLEAN, Reload(alive, err)
    PROVE  loaded' \in {loaded, files} /\ (~err => loaded' = files) /\ UNCHANGED <<files, running>>
BY DEF Reload, Outcome, Answer

--------------------------------------------------------------------------------
(* A handler does not depend on the names of other instances, nor on whether    *)
(* systemd has read again what is on disk.                                      *)
LEMMA KeepingElsewhere ==
    ASSUME NEW stage, NEW left, NEW t, NEW onDisk, NEW read, NEW active, NEW fresh, NEW record,
           NEW onDisk2, NEW read2, NEW active2,
           Keeping(stage, left, t, onDisk, read, active, fresh, record),
           stage # "idle" => New(t) \subseteq Family(t.job.inst),
           stage \notin {"idle", "done", "lifecycle"} => Previous(t) \subseteq Family(t.job.inst),
           \A n \in Family(t.job.inst) :
               /\ onDisk2[n] = onDisk[n] /\ active2[n] = active[n]
               /\ read2[n] \in {read[n], onDisk[n]}
    PROVE  Keeping(stage, left, t, onDisk2, read2, active2, fresh, record)
<1> DEFINE F == Family(t.job.inst)
           was == Previous(t)
<1>1. SUFFICES ASSUME stage # "idle"
               PROVE  Keeping(stage, left, t, onDisk2, read2, active2, fresh, record)
  BY DEF Keeping
<1>2. /\ Knows(stage, left, t) /\ Fitting(stage, left, t, record)
      /\ TakesDown(stage, left, t, onDisk, read, active)
      /\ BringsUp(stage, left, t, onDisk, read, active, fresh)
      /\ Restores(stage, left, t, onDisk, read, active)
      /\ fresh => Runs(stage, left, t, active)
      /\ stage = "done" => Delivered(t, onDisk, read, active, fresh, record)
  BY <1>1 DEF Keeping
<1>3. New(t) \subseteq F /\ Starts(t) \subseteq F
  BY <1>1 DEF Starts
<1> DEFINE Same(m) == onDisk2[m] = onDisk[m] /\ active2[m] = active[m] /\ read2[m] \in {read[m], onDisk[m]}
<1>4. \A m \in F : Same(m)
  OBVIOUS
<1>5. TakesDown(stage, left, t, onDisk2, read2, active2)
  <2>1. CASE stage \in {"stop", "removeOld", "installNew", "reload", "list"} \cup Reloaded
    <3>1. was \subseteq F
      BY <1>1, <2>1 DEF Reloaded, Saving
    <3>2. \A m \in was : Same(m)
      BY <1>4, <3>1
    <3> HIDE DEF F, was
    <3> QED BY <1>2, <3>2 DEF TakesDown, Out, was
  <2>2. CASE stage \notin {"stop", "removeOld", "installNew", "reload", "list"} \cup Reloaded
    BY <2>2 DEF TakesDown
  <2> QED BY <2>1, <2>2
<1>6. BringsUp(stage, left, t, onDisk2, read2, active2, fresh)
  <2>1. \A m \in New(t) \cup Starts(t) : Same(m)
    BY <1>3, <1>4
  <2> HIDE DEF F, was
  <2> QED BY <1>2, <2>1 DEF BringsUp, Up
<1>7. Restores(stage, left, t, onDisk2, read2, active2)
  <2>1. CASE stage \in {"reinstall", "undoReload", "undoStart", "undoVerify"}
    <3>1. was \subseteq F
      BY <1>1, <2>1
    <3>2. \A m \in was : Same(m)
      BY <1>4, <3>1
    <3>3. /\ stage \in {"undoStart", "undoVerify"} => left \subseteq was
          /\ Later(left) \subseteq left
      BY <1>2 DEF Knows, Later
    <3> HIDE DEF F, was
    <3> QED BY <1>2, <3>2, <3>3 DEF Restores, Out, was
  <2>2. CASE stage \notin {"reinstall", "undoReload", "undoStart", "undoVerify"}
    BY <2>2 DEF Restores
  <2> QED BY <2>1, <2>2
<1>8. fresh => Runs(stage, left, t, active2)
  BY <1>2, <1>4 DEF Runs
<1>9. stage = "done" => Delivered(t, onDisk2, read2, active2, fresh, record)
  <2> SUFFICES ASSUME stage = "done" PROVE Delivered(t, onDisk2, read2, active2, fresh, record)
    OBVIOUS
  <2>1. t.answer \in {"succeeded", "rolledBack"} /\ t.job.op \in PlanOps => \A m \in was : Same(m)
    BY <1>2, <1>4 DEF Delivered
  <2>2. \A m \in New(t) : Same(m)
    BY <1>3, <1>4
  <2> HIDE DEF F, was
  <2> QED BY <1>2, <2>1, <2>2 DEF Delivered, Up, was, PlanOps
<1> QED
  BY <1>2, <1>5, <1>6, <1>7, <1>8, <1>9 DEF Keeping

LEMMA KeepsOf ==
    ASSUME SInv, NEW r \in Requests
    PROVE  /\ OInv /\ TypeOK /\ Keeps(r)
           /\ files \in Sources /\ loaded \in Sources /\ running \in Sources
           /\ todo[r] \in SUBSET Names /\ tx[r] \in Handler
           /\ pc[r] # "idle" => New(tx[r]) \subseteq Family(Inst(r))
           /\ pc[r] \notin {"idle", "done", "lifecycle"} => Previous(tx[r]) \subseteq Family(Inst(r))
<1>1. /\ OInv /\ TypeOK /\ Keeps(r) /\ Claim(pc[r], todo[r], tx[r], files, instances)
      /\ files \in Sources /\ loaded \in Sources /\ running \in Sources
      /\ todo[r] \in SUBSET Names /\ tx[r] \in Handler
  BY ClaimOf DEF SInv, OInv, TypeOK, HostType, RequestType, Served
<1>2. pc[r] # "idle" => New(tx[r]) \subseteq Family(Inst(r))
  BY <1>1 DEF Claim, Progress, Owns, New, Inst
<1>3. pc[r] \notin {"idle", "done", "lifecycle"} => Previous(tx[r]) \subseteq Family(Inst(r))
  BY <1>1 DEF Claim, Progress, Owns, Previous, Inst
<1> QED
  BY <1>1, <1>2, <1>3

(* A step that is about instance i: it touches no other name, record or mark.   *)
Within(i) ==
    /\ \A n \in Names :
          /\ n \notin Family(i) => files'[n] = files[n] /\ running'[n] = running[n]
          /\ loaded'[n] \in {loaded[n], files[n]}
    /\ \A j \in Instances \ {i} :
          instances'[j] = instances[j] /\ (j \in suspect' <=> j \in suspect)

LEMMA FamilyNames == \A i \in Instances : Family(i) \subseteq Names
BY EngineAssumption DEF Family

LEMMA KeptElsewhere ==
    ASSUME SInv, NEW i \in Instances, Within(i), NEW q \in Requests,
           pc'[q] = pc[q], todo'[q] = todo[q], tx'[q] = tx[q],
           pc[q] # "idle" => Inst(q) \in Instances \ {i} /\ Family(Inst(q)) \cap Family(i) = {}
    PROVE  Keeps(q)'
<1>1. CASE pc[q] = "idle"
  BY <1>1 DEF Keeps, Keeping
<1>2. CASE pc[q] # "idle"
  <2> DEFINE j == tx[q].job.inst
  <2>1. j \in Instances /\ j # i /\ Family(j) \cap Family(i) = {}
    BY <1>2 DEF Inst
  <2>2. Family(j) \subseteq Names
    BY <2>1, FamilyNames
  <2>3. \A n \in Family(j) :
           files'[n] = files[n] /\ running'[n] = running[n] /\ loaded'[n] \in {loaded[n], files[n]}
    BY <2>1, <2>2 DEF Within
  <2>4. Keeping(pc[q], todo[q], tx[q], files, loaded, running, Fresh(j, suspect), instances[j])
    BY KeepsOf DEF Keeps, Inst
  <2>5. Keeping(pc[q], todo[q], tx[q], files', loaded', running', Fresh(j, suspect), instances[j])
    BY <1>2, <2>3, <2>4, KeepsOf, KeepingElsewhere DEF Inst
  <2>6. Fresh(j, suspect') = Fresh(j, suspect) /\ instances'[j] = instances[j]
    BY <2>1 DEF Within, Fresh
  <2> HIDE DEF j
  <2>7. Keeping(pc[q], todo[q], tx[q], files', loaded', running', Fresh(j, suspect'), instances'[j])
    BY <2>5, <2>6
  <2> QED BY <2>7 DEF Keeps, Inst, j, Fresh
<1> QED
  BY <1>1, <1>2

LEMMA RestElsewhere ==
    ASSUME SInv, NEW i \in Instances, Within(i), NEW j \in Instances \ {i},
           \A n \in Names : files'[n] # files[n] => files[n] = Absent \/ OwnedBy(files[n], i),
           \A r \in Requests : pc[r] \notin Calm /\ Inst(r) = j =>
               pc'[r] = pc[r] /\ Inst(r)' = Inst(r)
    PROVE  AtRest(j)'
<1>1. SUFFICES ASSUME j \notin suspect', \A r \in Requests : pc'[r] \notin Calm => Inst(r)' # j
               PROVE  Baseline(j)' /\ RunsBaseline(j)'
  BY DEF AtRest
<1>2. Baseline(j) /\ RunsBaseline(j)
  BY <1>1 DEF SInv, AtRest, Within
<1>3. instances'[j] = instances[j] /\ (Live(j)' <=> Live(j))
  BY DEF Within, Live, Managed
<1>4. Baseline(j)'
  <2>1. SUFFICES ASSUME Live(j), NEW n \in NamesOf(instances[j].src)
                 PROVE  files'[n] = instances[j].src[n] /\ loaded'[n] = instances[j].src[n]
    BY <1>3 DEF Baseline
  <2>2. n \in Names /\ files[n] = instances[j].src[n] /\ loaded[n] = instances[j].src[n]
    BY <1>2, <2>1 DEF Baseline, NamesOf
  <2>3. OwnedBy(files[n], j)
    BY <2>1, <2>2 DEF SInv, OInv, RecordsOwned, Live, Owns
  <2>4. files[n] # Absent /\ ~OwnedBy(files[n], i)
    BY <2>3, EngineAssumption DEF OwnedBy, Contents
  <2> QED BY <2>2, <2>4 DEF Within
<1>5. RunsBaseline(j)'
  <2>1. Private(j) => \A n \in Family(j) : running'[n] = running[n]
    BY FamilyNames DEF Private, Within
  <2> QED BY <1>2, <1>3, <2>1 DEF RunsBaseline
<1> QED
  BY <1>4, <1>5

(* What a step must do for its own instance.                                    *)
Serves(r) == Keeps(r)' /\ AtRest(Inst(r))' /\ Inst(r)' = Inst(r)

(* A step that touches nothing.                                                 *)
LEMMA Untouched ==
    ASSUME SInv, NEW r \in Requests, Others(r), Keeps(r)',
           UNCHANGED <<files, loaded, running, instances, suspect>>,
           pc'[r] \in Calm <=> pc[r] \in Calm, pc[r] \notin Calm => Inst(r)' = Inst(r)
    PROVE  Served' /\ \A i \in Instances : AtRest(i)'
<1>1. ASSUME NEW q \in Requests, q # r PROVE Keeps(q)'
  <2>1. Keeps(q)
    BY DEF SInv, Served
  <2>2. pc'[q] = pc[q] /\ todo'[q] = todo[q] /\ tx'[q] = tx[q]
    BY <1>1 DEF Others
  <2> QED BY <2>1, <2>2 DEF Keeps, Inst, Fresh
<1>2. ASSUME NEW i \in Instances PROVE AtRest(i)'
  <2>1. SUFFICES ASSUME i \notin suspect, \A q \in Requests : pc'[q] \notin Calm => Inst(q)' # i
                 PROVE  Baseline(i) /\ RunsBaseline(i)
    BY DEF AtRest, Fresh, Baseline, RunsBaseline, Live, Managed
  <2>2. ASSUME NEW q \in Requests, pc[q] \notin Calm PROVE Inst(q) # i
    <3>1. CASE q = r
      BY <2>1, <2>2, <3>1
    <3>2. CASE q # r
      BY <2>1, <2>2, <3>2 DEF Others, Inst
    <3> QED BY <3>1, <3>2
  <2> QED BY <2>1, <2>2 DEF SInv, AtRest, Fresh
<1> QED
  BY <1>1, <1>2 DEF Served

--------------------------------------------------------------------------------
(* What the steps of a handler touch.                                           *)

Handling == {"stop", "removeOld", "installNew", "start", "undoStop", "undoInstall", "reinstall",
             "undoStart", "lifecycle"}

LEMMA TodoWithin ==
    ASSUME SInv, NEW r \in Requests, pc[r] \in Handling
    PROVE  todo[r] \subseteq Family(Inst(r))
<1>1. /\ Knows(pc[r], todo[r], tx[r]) /\ Fitting(pc[r], todo[r], tx[r], instances[Inst(r)])
      /\ Progress(pc[r], todo[r], tx[r]) /\ New(tx[r]) \subseteq Family(Inst(r))
  BY KeepsOf, ClaimOf DEF Keeps, Keeping, Claim, Handling
<1>2. CASE pc[r] = "lifecycle"
  <2>1. Inst(r) \in Instances
    BY <1>2 DEF SInv, OInv, TypeOK, HandlersFit, Fits, Inst, Job
  <2>2. Owns(Inst(r), instances[Inst(r)].src)
    BY <1>1, <1>2, <2>1 DEF SInv, OInv, RecordsOwned, Fitting, Managed
  <2> QED BY <1>1, <1>2, <2>2 DEF Fitting, Owns
<1>3. CASE pc[r] \in {"installNew", "undoInstall", "start", "undoStop"}
  <2>1. todo[r] \subseteq New(tx[r])
    BY <1>1, <1>3 DEF Knows, Progress, Starts, New
  <2> QED BY <1>1, <2>1
<1>4. CASE pc[r] \in {"stop", "removeOld", "reinstall", "undoStart"}
  <2>1. Previous(tx[r]) \subseteq Family(Inst(r))
    BY <1>4, KeepsOf
  <2>2. pc[r] = "removeOld" => tx[r].job.op # "install"
    BY DEF SInv, OInv, TypeOK, HandlersFit, Fits
  <2>3. todo[r] \subseteq Previous(tx[r])
    BY <1>1, <1>4, <2>2 DEF Knows, Progress, Previous
  <2> QED BY <2>1, <2>3
<1> QED
  BY <1>2, <1>3, <1>4 DEF Handling

(* The locals of a rollback are those of the record.                            *)
LEMMA OldIs ==
    ASSUME SInv, NEW r \in Requests, pc[r] = "reinstall"
    PROVE  \A n \in todo[r] : tx[r].job.op # "install" /\ tx[r].old = tx[r].prev.src
<1>1. Knows("reinstall", todo[r], tx[r])
  BY KeepsOf DEF Keeps, Keeping
<1> QED
  BY <1>1 DEF Knows, Previous

Effects(r) ==
    \A n \in Names :
        /\ files'[n] # files[n] =>
              /\ n \in Family(Inst(r))
              /\ \/ files'[n] = Absent \/ files'[n] = tx[r].job.src[n]
                 \/ /\ pc[r] \notin {"idle", "done", "lifecycle"} /\ tx[r].job.op # "install"
                    /\ files'[n] = tx[r].prev.src[n]
        /\ loaded'[n] \in {loaded[n], files[n]}
        /\ running'[n] # running[n] => n \in Family(Inst(r)) /\ running'[n] \in {Absent, loaded[n]}

LEMMA NoEffects ==
    ASSUME NEW r \in Requests, UNCHANGED <<files, loaded, running>> PROVE Effects(r)
BY DEF Effects

LEMMA OnlyRuns ==
    ASSUME NEW r \in Requests, NEW n \in Family(Inst(r)), UNCHANGED <<files, loaded>>,
           \A m \in Names \ {n} : running'[m] = running[m],
           running'[n] \in {running[n], loaded[n], Absent}
    PROVE  Effects(r)
BY DEF Effects

LEMMA StepEffects ==
    ASSUME SInv, NEW r \in Requests, Step(r)
    PROVE  Effects(r)
<1>1. TypeOK /\ Alive(r) \in BOOLEAN
  BY KeepsOf DEF Handler, Alive
<1>2. \A n \in todo[r] : pc[r] \in Handling => n \in Family(Inst(r))
  BY TodoWithin
<1>3. CASE \/ CheckDrift(r) \/ Load(r) \/ Snapshot(r) \/ FindUnits(r) \/ VerifyUnit(r)
           \/ Relist(r) \/ Capture(r) \/ SaveInstance(r) \/ WriteManifest(r) \/ WriteReadme(r)
           \/ UndoVerify(r)
  <2>1. UNCHANGED <<files, loaded, running>>
    BY <1>3 DEF CheckDrift, Load, Snapshot, FindUnits, VerifyUnit, Relist, Capture, SaveInstance,
                WriteManifest, WriteReadme, UndoVerify, ListGenerated, GetQuadlet, ListQuadlets,
                Verify, HostSame, hostVars, units
  <2> QED BY <2>1, NoEffects
<1>4. CASE ReloadUnits(r) \/ UndoReload(r)
  <2>1. \E err \in BOOLEAN : Reload(Alive(r), err)
    BY <1>4 DEF ReloadUnits, UndoReload
  <2>2. loaded' \in {loaded, files} /\ UNCHANGED <<files, running>>
    BY <1>1, <2>1, UnitsReloaded
  <2> QED BY <2>2 DEF Effects
<1>5. CASE StopUnit(r) \/ UndoStop(r)
  <2>1. \/ \E n \in todo[r], err \in BOOLEAN : n \in Names /\ Stop(Alive(r), n, err)
        \/ HostSame
    BY <1>5 DEF StopUnit, UndoStop, Visit, VisitBack, First, Last
  <2>2. pc[r] \in Handling
    BY <1>5 DEF StopUnit, UndoStop, Visit, VisitBack, Leave, Handling
  <2> QED BY <1>1, <1>2, <2>1, <2>2, UnitStopped, NoEffects, OnlyRuns DEF HostSame, hostVars
<1>6. CASE StartUnit(r) \/ UndoStart(r) \/ LifecycleStep(r)
  <2>1. \/ \E n \in todo[r], err \in BOOLEAN :
               n \in Names /\ (Start(Alive(r), n, err) \/ Restart(Alive(r), n, err) \/ Stop(Alive(r), n, err))
        \/ HostSame
    BY <1>6 DEF StartUnit, UndoStart, LifecycleStep, Visit, First
  <2>2. pc[r] \in Handling
    BY <1>6 DEF StartUnit, UndoStart, LifecycleStep, Visit, Leave, Handling
  <2>3. CASE HostSame
    BY <2>3, NoEffects DEF HostSame, hostVars
  <2>4. ASSUME NEW n \in todo[r], NEW err \in BOOLEAN, n \in Names,
               Start(Alive(r), n, err) \/ Restart(Alive(r), n, err) \/ Stop(Alive(r), n, err)
        PROVE  Effects(r)
    <3>1. /\ \A m \in Names \ {n} : running'[m] = running[m]
          /\ running'[n] \in {running[n], loaded[n], Absent}
          /\ UNCHANGED <<files, loaded>>
      BY <1>1, <2>4, UnitStarted, UnitRestarted, UnitStopped
    <3> QED BY <1>2, <2>2, <3>1, OnlyRuns
  <2> QED BY <2>1, <2>3, <2>4
<1>7. CASE RemoveOld(r) \/ UndoInstall(r)
  <2>1. \/ \E n \in todo[r], err, force \in BOOLEAN : n \in Names /\ RemoveQuadlet(Alive(r), n, force, err)
        \/ HostSame
    BY <1>7 DEF RemoveOld, UndoInstall, Visit, VisitBack, First, Last
  <2>2. pc[r] \in Handling
    BY <1>7 DEF RemoveOld, UndoInstall, Visit, VisitBack, Leave, Handling
  <2>3. CASE HostSame
    BY <2>3, NoEffects DEF HostSame, hostVars
  <2>4. ASSUME NEW n \in todo[r], NEW err \in BOOLEAN, NEW force \in BOOLEAN, n \in Names,
               RemoveQuadlet(Alive(r), n, force, err)
        PROVE  Effects(r)
    BY <1>1, <1>2, <2>2, <2>4, QuadletRemoved DEF Effects
  <2> QED BY <2>1, <2>3, <2>4
<1>8. CASE InstallNew(r) \/ Reinstall(r)
  <2>1. \/ \E n \in todo[r], err \in BOOLEAN :
               /\ n \in Names
               /\ \/ pc[r] = "installNew" /\ InstallQuadlet(Alive(r), n, tx[r].job.src[n], err)
                  \/ pc[r] = "reinstall" /\ InstallQuadlet(Alive(r), n, tx[r].old[n], err)
        \/ HostSame
    BY <1>8 DEF InstallNew, Reinstall, Visit, First
  <2>2. CASE HostSame
    BY <2>2, NoEffects DEF HostSame, hostVars
  <2>3. ASSUME NEW n \in todo[r], NEW err \in BOOLEAN, n \in Names, pc[r] = "installNew",
               InstallQuadlet(Alive(r), n, tx[r].job.src[n], err)
        PROVE  Effects(r)
    BY <1>1, <1>2, <2>3, QuadletInstalled DEF Effects, Handling
  <2>4. ASSUME NEW n \in todo[r], NEW err \in BOOLEAN, n \in Names, pc[r] = "reinstall",
               InstallQuadlet(Alive(r), n, tx[r].old[n], err)
        PROVE  Effects(r)
    <3>1. tx[r].job.op # "install" /\ tx[r].old = tx[r].prev.src
      BY <2>4, OldIs
    <3> QED BY <1>1, <1>2, <2>4, <3>1, QuadletInstalled DEF Effects, Handling
  <2> QED BY <2>1, <2>2, <2>3, <2>4
<1> QED
  BY <1>3, <1>4, <1>5, <1>6, <1>7, <1>8 DEF Step

(* Where a source of an instance is, there it may be.                           *)
LEMMA OwnedPlaced ==
    ASSUME NEW i \in Instances, NEW source, Owns(i, source)
    PROVE  Placed(source)
<1>1. \A n \in Names, j \in Instances : OwnedBy(source[n], j) => n \in NamesOf(source)
  BY EngineAssumption DEF OwnedBy, NamesOf, Contents
<1>2. \A c, j : j \in Instances /\ OwnedBy(c, i) /\ OwnedBy(c, j) => i = j
  BY DEF OwnedBy
<1> QED
  BY <1>1, <1>2 DEF Owns, Placed

LEMMA StepPlaced ==
    ASSUME SInv, NEW r \in Requests, Step(r)
    PROVE  Placed(files)' /\ Placed(loaded)' /\ Placed(running)'
<1>1. pc[r] # "idle" /\ Effects(r)
  BY StepEffects
     DEF Step, CheckDrift, Load, Snapshot, StopUnit, RemoveOld, InstallNew, ReloadUnits, FindUnits,
         StartUnit, VerifyUnit, Relist, Capture, SaveInstance, WriteManifest, WriteReadme, UndoStop,
         UndoInstall, Reinstall, UndoReload, UndoStart, UndoVerify, LifecycleStep, ListGenerated,
         Visit, VisitBack, Leave
<1>2. Inst(r) \in Instances /\ Owns(Inst(r), tx[r].job.src)
  BY <1>1, ClaimOf DEF SInv, OInv, TypeOK, HandlersFit, Fits, Inst, Job, Claim, Progress
<1>3. pc[r] \notin {"idle", "done", "lifecycle"} /\ tx[r].job.op # "install" => Owns(Inst(r), tx[r].prev.src)
  BY ClaimOf DEF SInv, Claim, Progress, Inst
<1>4. /\ Placed(tx[r].job.src)
      /\ pc[r] \notin {"idle", "done", "lifecycle"} /\ tx[r].job.op # "install" => Placed(tx[r].prev.src)
  BY <1>2, <1>3, OwnedPlaced
<1>5. \A j \in Instances : ~OwnedBy(Absent, j)
  BY EngineAssumption DEF OwnedBy, Contents
<1>6. Placed(files) /\ Placed(loaded) /\ Placed(running)
  BY DEF SInv
<1>7. Placed(files)'
  <2> SUFFICES ASSUME NEW n \in Names, NEW i \in Instances, OwnedBy(files'[n], i) PROVE n \in Family(i)
    BY DEF Placed
  <2>1. CASE files'[n] = files[n]
    BY <1>6, <2>1 DEF Placed
  <2>2. CASE files'[n] # files[n]
    BY <1>1, <1>4, <1>5, <2>2 DEF Placed, Effects
  <2> QED BY <2>1, <2>2
<1>8. Placed(loaded)'
  BY <1>1, <1>6 DEF Placed, Effects
<1>9. Placed(running)'
  <2> SUFFICES ASSUME NEW n \in Names, NEW i \in Instances, OwnedBy(running'[n], i) PROVE n \in Family(i)
    BY DEF Placed
  <2> QED BY <1>1, <1>5, <1>6 DEF Placed, Effects
<1> QED
  BY <1>7, <1>8, <1>9

LEMMA StepStarts ==
    ASSUME NEW r \in Requests, Step(r)
    PROVE  pc[r] \notin {"idle", "done"}
BY DEF Step, CheckDrift, Load, Snapshot, StopUnit, RemoveOld, InstallNew, ReloadUnits, FindUnits,
       StartUnit, VerifyUnit, Relist, Capture, SaveInstance, WriteManifest, WriteReadme, UndoStop,
       UndoInstall, Reinstall, UndoReload, UndoStart, UndoVerify, LifecycleStep, ListGenerated,
       Visit, VisitBack, Leave

LEMMA StepSuspects ==
    ASSUME NEW r \in Requests, Step(r)
    PROVE  suspect' = suspect \/ suspect' = suspect \cup {Inst(r)}
<1>1. CASE \/ CheckDrift(r) \/ Load(r) \/ Snapshot(r) \/ StopUnit(r) \/ RemoveOld(r)
           \/ InstallNew(r) \/ ReloadUnits(r) \/ FindUnits(r) \/ StartUnit(r) \/ VerifyUnit(r)
           \/ Relist(r) \/ Capture(r) \/ UndoStop(r) \/ UndoInstall(r) \/ Reinstall(r)
           \/ UndoVerify(r) \/ LifecycleStep(r)
  <2>1. StoreSame
    BY <1>1 DEF CheckDrift, Load, Snapshot, StopUnit, RemoveOld, InstallNew, ReloadUnits, FindUnits,
                StartUnit, VerifyUnit, Relist, Capture, UndoStop, UndoInstall, Reinstall,
                UndoVerify, LifecycleStep, ListGenerated
  <2> QED BY <2>1 DEF StoreSame
<1>2. CASE SaveInstance(r) \/ WriteManifest(r) \/ WriteReadme(r)
  BY <1>2 DEF SaveInstance, WriteManifest, WriteReadme, Unrecorded
<1>3. CASE UndoReload(r) \/ UndoStart(r)
  BY <1>3 DEF UndoReload, UndoStart, EndRollback
<1> QED
  BY <1>1, <1>2, <1>3 DEF Step

LEMMA StepInst ==
    ASSUME SInv, NEW r \in Requests, Step(r)
    PROVE  pc[r] # "idle" /\ Inst(r) \in Instances
BY StepStarts DEF SInv, OInv, TypeOK, HandlersFit, Fits, Inst, Job

LEMMA StepWithin ==
    ASSUME SInv, NEW r \in Requests, Step(r)
    PROVE  Within(Inst(r))
<1>1. Effects(r)
  BY StepEffects
<1>2. OwnRecord(r)
  BY StepMine DEF SInv, Mine
<1>3. \A j \in Instances \ {Inst(r)} : j \in suspect' <=> j \in suspect
  BY StepSuspects
<1>4. \A j \in Instances \ {Inst(r)} : instances'[j] = instances[j]
  BY <1>2 DEF OwnRecord
<1>5. \A n \in Names :
         /\ n \notin Family(Inst(r)) => files'[n] = files[n] /\ running'[n] = running[n]
         /\ loaded'[n] \in {loaded[n], files[n]}
  BY <1>1 DEF Effects
<1> QED
  BY <1>3, <1>4, <1>5 DEF Within

(* What is recorded of an instance has a unit for every source.                 *)
LEMMA NewRecordWhole ==
    ASSUME SInv, NEW r \in Requests, pc[r] = "save"
    PROVE  NewRecord(tx[r]).units = NamesOf(NewRecord(tx[r]).src)
<1>1. /\ tx[r] \in Handler /\ Op(r) \in PlanOps /\ Inst(r) \in Instances
      /\ Progress("save", todo[r], tx[r])
      /\ Op(r) # "install" => tx[r].prev = instances[Inst(r)] /\ tx[r].prev \in Record
  <2>1. OInv /\ Working(r) /\ pc[r] \notin {"idle", "done", "lifecycle", "manifest", "readme"}
    BY DEF SInv, Working
  <2>2. Op(r) # "install" => tx[r].prev = instances[Inst(r)]
    BY <2>1, ClaimOf DEF Claim, Op, Inst
  <2> QED BY <2>1, <2>2, ActorOf, Locals DEF Transacting, PlanOps
<1>2. CASE Op(r) = "remove"
  <2>1. tx[r].prev.units = NamesOf(tx[r].prev.src)
    BY <1>1, <1>2, NoRecordAssumption DEF SInv, RecordsWhole, Managed
  <2> QED BY <1>1, <1>2, <2>1 DEF NewRecord, Op, Record
<1>3. CASE Op(r) # "remove"
  <2>1. tx[r].seen = tx[r].job.src /\ NamesOf(tx[r].job.src) \subseteq tx[r].listed
    BY <1>1, <1>3 DEF Progress, Saving, Op
  <2> QED BY <1>3, <2>1 DEF NewRecord, Op
<1> QED
  BY <1>2, <1>3

LEMMA StepWhole ==
    ASSUME SInv, NEW r \in Requests, Step(r)
    PROVE  RecordsWhole' /\ PlainPlans'
<1>1. CASE SaveInstance(r)
  <2>1. pc[r] = "save" /\ UNCHANGED plans
    BY <1>1 DEF SaveInstance, Leave
  <2>2. PlainPlans'
    BY <2>1 DEF SInv, PlainPlans
  <2>3. CASE UNCHANGED instances
    BY <2>2, <2>3 DEF SInv, RecordsWhole, Managed
  <2>4. CASE instances' = [instances EXCEPT ![Inst(r)] = NewRecord(tx[r])]
    <3>1. \A i \in Instances : instances'[i] = instances[i]
                               \/ (i = Inst(r) /\ instances'[i] = NewRecord(tx[r]))
      BY <2>4, KeepsOf DEF TypeOK, StoreType
    <3>2. RecordsWhole'
      BY <2>1, <3>1, NewRecordWhole DEF SInv, RecordsWhole, Managed
    <3> QED BY <2>2, <3>2
  <2> QED BY <1>1, <2>3, <2>4 DEF SaveInstance
<1>2. CASE WriteReadme(r)
  <2>1. UNCHANGED instances
    BY <1>2 DEF WriteReadme
  <2>2. plans' = plans \/ plans' = [plans EXCEPT ![tx[r].id] = NoPlan]
    BY <1>2 DEF WriteReadme
  <2>3. \A id \in PlanIds : plans'[id] # NoPlan => plans'[id] = plans[id]
    BY <2>2, KeepsOf DEF TypeOK, StoreType
  <2> QED BY <2>1, <2>3 DEF SInv, RecordsWhole, Managed, PlainPlans
<1>3. CASE ~SaveInstance(r) /\ ~WriteReadme(r)
  <2>1. UNCHANGED <<instances, plans>>
    <3>1. CASE WriteManifest(r) \/ UndoReload(r) \/ UndoStart(r)
      BY <3>1 DEF WriteManifest, UndoReload, UndoStart, storeVars
    <3>2. CASE ~WriteManifest(r) /\ ~UndoReload(r) /\ ~UndoStart(r)
      <4>1. StoreSame
        BY <1>3, <3>2
           DEF Step, CheckDrift, Load, Snapshot, StopUnit, RemoveOld, InstallNew, ReloadUnits, FindUnits,
               StartUnit, VerifyUnit, Relist, Capture, UndoStop, UndoInstall, Reinstall,
               UndoVerify, LifecycleStep, ListGenerated
      <4> QED BY <4>1 DEF StoreSame, storeVars
    <3> QED BY <3>1, <3>2
  <2> QED BY <2>1 DEF SInv, RecordsWhole, Managed, PlainPlans
<1> QED
  BY <1>1, <1>2, <1>3

--------------------------------------------------------------------------------
(* One lemma per action: what a handler knows and promises stays true of it,    *)
(* and of its instance once it is at rest.                                      *)

LEMMA Acting ==
    ASSUME SInv, NEW r \in Requests, Working(r)
    PROVE  /\ OInv /\ TypeOK /\ tx[r] \in Handler /\ tx[r].job \in Job /\ Op(r) \in PlanOps
           /\ Inst(r) \in Instances /\ Alive(r) \in BOOLEAN /\ todo[r] \in SUBSET Names
           /\ Op(r) = tx[r].job.op /\ Inst(r) = tx[r].job.inst
           /\ Progress(pc[r], todo[r], tx[r])
           /\ Claim(pc[r], todo[r], tx[r], files, instances)
           /\ Keeping(pc[r], todo[r], tx[r], files, loaded, running, Fresh(Inst(r), suspect),
                      instances[Inst(r)])
           /\ New(tx[r]) \subseteq Family(Inst(r)) /\ Previous(tx[r]) \subseteq Family(Inst(r))
           /\ files \in Sources /\ loaded \in Sources /\ running \in Sources
           /\ tx[r].job.src \in Sources
           /\ Op(r) # "install" => tx[r].prev \in Record
BY KeepsOf, ActorOf, Locals DEF Working, Keeps, Fresh, PlanOps, Transacting

LEMMA RestNow ==
    ASSUME SInv, Orderly, NEW r \in Requests, pc[r] \in Calm \ {"idle"}, Inst(r) \in Instances,
           Inst(r) \notin suspect
    PROVE  Baseline(Inst(r)) /\ RunsBaseline(Inst(r))
<1>1. \A q \in Requests : pc[q] \notin Calm => Inst(q) # Inst(r)
  BY DEF Orderly, Calm
<1> QED
  BY <1>1 DEF SInv, AtRest, Fresh

LEMMA Handed ==
    ASSUME SInv, NEW r \in Requests, pc[r] # "idle", NEW stage, NEW S, NEW t,
           Go(r, stage, S), Keep(r, t), t.job = tx[r].job,
           Keeping(stage, S, t, files', loaded', running', Fresh(Inst(r), suspect'), instances'[Inst(r)])
    PROVE  Keeps(r)' /\ pc'[r] = stage /\ Inst(r)' = Inst(r)
<1>1. pc'[r] = stage /\ todo'[r] = S /\ tx'[r] = t
  BY Moves, KeepsOf
<1>2. Inst(r)' = Inst(r)
  BY <1>1 DEF Inst
<1>3. Keeping(pc'[r], todo'[r], tx'[r], files', loaded', running', Fresh(Inst(r), suspect'), instances'[Inst(r)])
  BY <1>1
<1> QED
  BY <1>1, <1>2, <1>3 DEF Keeps, Fresh

LEMMA HandedOn ==
    ASSUME SInv, NEW r \in Requests, pc[r] # "idle", NEW stage, stage \notin Calm, NEW S, NEW t,
           Go(r, stage, S), Keep(r, t), t.job = tx[r].job,
           Keeping(stage, S, t, files', loaded', running', Fresh(Inst(r), suspect'), instances'[Inst(r)])
    PROVE  Serves(r)
<1>1. Keeps(r)' /\ pc'[r] = stage /\ Inst(r)' = Inst(r)
  BY Handed
<1>2. AtRest(Inst(r))'
  BY <1>1 DEF AtRest
<1> QED
  BY <1>1, <1>2 DEF Serves

LEMMA HandedCalmly ==
    ASSUME SInv, Orderly, NEW r \in Requests, pc[r] \in Calm \ {"idle"}, Inst(r) \in Instances,
           NEW stage, NEW S, NEW t,
           Go(r, stage, S), Keep(r, t), t.job = tx[r].job,
           Keeping(stage, S, t, files', loaded', running', Fresh(Inst(r), suspect'), instances'[Inst(r)]),
           UNCHANGED <<files, loaded, instances, suspect>>,
           Inst(r) \notin suspect => RunsBaseline(Inst(r))'
    PROVE  Serves(r)
<1>1. Keeps(r)' /\ pc'[r] = stage /\ Inst(r)' = Inst(r)
  BY Handed
<1>2. Inst(r) \notin suspect => Baseline(Inst(r))'
  BY <1>1, RestNow DEF Baseline, Live, Managed
<1>3. AtRest(Inst(r))'
  BY <1>1, <1>2 DEF AtRest, Fresh
<1> QED
  BY <1>1, <1>3 DEF Serves

LEMMA RunsAsBefore ==
    ASSUME SInv, Orderly, NEW r \in Requests, pc[r] \in Calm \ {"idle"}, Inst(r) \in Instances,
           UNCHANGED <<instances, tx>>,
           \A n \in Family(Inst(r)) : running'[n] \in {running[n], Absent}
    PROVE  Inst(r) \notin suspect => RunsBaseline(Inst(r))'
<1> SUFFICES ASSUME Inst(r) \notin suspect PROVE RunsBaseline(Inst(r))'
  OBVIOUS
<1>1. RunsBaseline(Inst(r))
  BY RestNow
<1> QED
  BY <1>1 DEF RunsBaseline, Live, Managed, Inst

(* A failure, and the other answers nothing can be concluded from.              *)
LEMMA FailedKeeps ==
    ASSUME SInv, NEW r \in Requests, pc[r] # "idle",
           NEW x \in Answers \ {"succeeded", "rolledBack"}, Reply(r, x)
    PROVE  Keeps(r)' /\ pc'[r] = "done" /\ Inst(r)' = Inst(r)
<1> DEFINE t == [tx[r] EXCEPT !.answer = x]
<1>1. t.job = tx[r].job /\ t.answer = x
  BY KeepsOf DEF Handler
<1>2. Go(r, "done", {}) /\ Keep(r, t)
  BY DEF Reply
<1> HIDE DEF t
<1>3. t.job.op = "remove" => t.job.src = NothingOn
  <2>1. Knows(pc[r], todo[r], tx[r])
    BY KeepsOf DEF Keeps, Keeping
  <2> QED BY <1>1, <2>1 DEF Knows
<1>4. Knows("done", {}, t) /\ Fitting("done", {}, t, instances'[Inst(r)])
  BY <1>3 DEF Knows, Fitting, Before, Forward, Saving
<1>5. /\ TakesDown("done", {}, t, files', loaded', running')
      /\ BringsUp("done", {}, t, files', loaded', running', Fresh(Inst(r), suspect'))
      /\ Restores("done", {}, t, files', loaded', running')
      /\ Runs("done", {}, t, running')
  BY DEF TakesDown, BringsUp, Restores, Runs, Reloaded, Saving
<1>6. Delivered(t, files', loaded', running', Fresh(Inst(r), suspect'), instances'[Inst(r)])
  BY <1>1 DEF Delivered
<1>7. Keeping("done", {}, t, files', loaded', running', Fresh(Inst(r), suspect'), instances'[Inst(r)])
  BY <1>4, <1>5, <1>6 DEF Keeping
<1> QED
  BY <1>1, <1>2, <1>7, Handed

LEMMA FailedServes ==
    ASSUME SInv, Orderly, NEW r \in Requests, pc[r] \in Calm \ {"idle"}, Inst(r) \in Instances,
           NEW x \in Answers \ {"succeeded", "rolledBack"}, Reply(r, x),
           UNCHANGED <<files, loaded, instances, suspect>>,
           \A n \in Family(Inst(r)) : running'[n] \in {running[n], Absent}
    PROVE  Serves(r)
<1>1. Keeps(r)' /\ pc'[r] = "done" /\ Inst(r)' = Inst(r)
  BY FailedKeeps DEF Calm
<1>2. Inst(r) \notin suspect => Baseline(Inst(r)) /\ RunsBaseline(Inst(r))
  BY RestNow
<1>3. Inst(r) \notin suspect => Baseline(Inst(r))' /\ RunsBaseline(Inst(r))'
  BY <1>1, <1>2 DEF Baseline, RunsBaseline, Live, Managed
<1>4. AtRest(Inst(r))'
  BY <1>1, <1>3 DEF AtRest, Fresh
<1> QED
  BY <1>1, <1>4 DEF Serves

LEMMA UnrecordedServes ==
    ASSUME SInv, NEW r \in Requests, pc[r] # "idle", Unrecorded(r)
    PROVE  Serves(r)
<1>1. Keeps(r)' /\ Inst(r)' = Inst(r)
  BY FailedKeeps DEF Unrecorded, Answers
<1>2. AtRest(Inst(r))'
  BY <1>1 DEF AtRest, Fresh, Unrecorded
<1> QED
  BY <1>1, <1>2 DEF Serves

(* The first failure.                                                           *)
LEMMA AbortServes ==
    ASSUME SInv, NEW r \in Requests, pc[r] \in {"installNew"} \cup Forward, NEW t \in Handler,
           t.job = tx[r].job, t.prev = tx[r].prev, t.old = tx[r].old, t.removed = tx[r].removed,
           t.installed = tx[r].installed, t.started \subseteq Starts(tx[r]),
           pc[r] = "installNew" => t.started = {},
           AbortTo(r, t), UNCHANGED <<instances, suspect>>,
           Op(r) = "remove" => Out(Previous(tx[r]), running'),
           Fresh(Inst(r), suspect) =>
               \A n \in Family(Inst(r)) : running'[n] # Absent => n \in t.started
    PROVE  Serves(r)
<1>1. Working(r) /\ pc[r] \notin {"idle", "done", "lifecycle", "manifest", "readme"}
  BY DEF Working, Forward
<1> DEFINE fresh == Fresh(Inst(r), suspect)
           record == instances[Inst(r)]
           Keeping2(stage, S) == Keeping(stage, S, t, files', loaded', running', fresh, record)
<1>2. /\ Op(r) \in PlanOps /\ Op(r) = tx[r].job.op /\ Inst(r) = tx[r].job.inst
      /\ Progress(pc[r], todo[r], tx[r]) /\ Knows(pc[r], todo[r], tx[r])
      /\ Fitting(pc[r], todo[r], tx[r], record)
  BY <1>1, Acting DEF Keeping
<1>3. /\ Previous(t) = Previous(tx[r]) /\ New(t) = New(tx[r]) /\ Starts(t) = Starts(tx[r])
  BY DEF Previous, New, Starts
<1>4. /\ Op(r) = "remove" => pc[r] = "reload" /\ t.removed = Previous(t)
      /\ Op(r) # "remove" => t.started \subseteq t.installed
      /\ Op(r) # "install" => t.old = t.prev.src
      /\ Op(r) = "remove" => t.job.src = NothingOn
      /\ Op(r) = "install" <=> record = NoRecord \/ record.removed
  BY <1>1, <1>2, <1>3 DEF Progress, Knows, Fitting, Forward, Starts, New
<1>5. CASE Op(r) = "install"
  <2>1. Go(r, "undoInstall", t.installed) /\ Keep(r, t)
    BY <1>2, <1>5 DEF AbortTo
  <2>2. Keeping2("undoInstall", t.installed)
    BY <1>2, <1>4, <1>5
       DEF Keeping, Knows, Fitting, TakesDown, BringsUp, Restores, Runs, Reloaded, Before, Forward, Saving
  <2> QED BY <1>1, <2>1, <2>2, HandedOn DEF Calm
<1>6. CASE Op(r) = "update"
  <2>1. Go(r, "undoStop", t.started) /\ Keep(r, t)
    BY <1>2, <1>6 DEF AbortTo
  <2>2. Keeping2("undoStop", t.started)
    BY <1>2, <1>3, <1>4, <1>6
       DEF Keeping, Knows, Fitting, TakesDown, BringsUp, Restores, Runs, Reloaded, Before, Forward, Saving, Starts
  <2> QED BY <1>1, <2>1, <2>2, HandedOn DEF Calm
<1>7. CASE Op(r) = "remove"
  <2>1. Go(r, "reinstall", t.removed) /\ Keep(r, t)
    BY <1>2, <1>7 DEF AbortTo
  <2>2. t.started = {}
    BY <1>2, <1>4, <1>7 DEF Starts, New, NamesOf, NothingOn
  <2>3. Keeping2("reinstall", t.removed)
    BY <1>2, <1>3, <1>4, <1>7, <2>2
       DEF Keeping, Knows, Fitting, TakesDown, BringsUp, Restores, Runs, Reloaded, Before, Forward, Saving
  <2> QED BY <1>1, <2>1, <2>3, HandedOn DEF Calm
<1> QED
  BY <1>2, <1>5, <1>6, <1>7 DEF PlanOps

LEMMA CheckDriftServes ==
    ASSUME SInv, Orderly, NEW r \in Requests, CheckDrift(r)
    PROVE  Serves(r)
<1>1. /\ Working(r) /\ pc[r] = "check" /\ pc[r] \in Calm \ {"idle"}
      /\ UNCHANGED <<files, loaded, running, instances, suspect>>
  BY DEF CheckDrift, Visit, Leave, Working, GetQuadlet, HostSame, hostVars, units, StoreSame, storeVars, Calm
<1>2. TypeOK /\ Inst(r) \in Instances
  BY <1>1, Acting
<1>3. CASE Reply(r, "refused")
  BY <1>1, <1>2, <1>3, FailedServes DEF Answers
<1>4. ASSUME NEW stage \in {"check", "load"}, NEW S, Go(r, stage, S), UNCHANGED tx PROVE Serves(r)
  <2>1. Keep(r, tx[r])
    BY <1>2, <1>4, KeptLocals
  <2>2. Keeping("check", todo[r], tx[r], files, loaded, running, Fresh(Inst(r), suspect), instances[Inst(r)])
    BY <1>1, Acting
  <2>3. Keeping(stage, S, tx[r], files, loaded, running, Fresh(Inst(r), suspect), instances[Inst(r)])
    BY <2>2 DEF Keeping, Knows, Fitting, TakesDown, BringsUp, Restores, Runs, Reloaded, Before, Forward, Saving
  <2>4. Inst(r) \notin suspect => RunsBaseline(Inst(r))'
    BY <1>1, <1>2, <1>4, RunsAsBefore
  <2> QED BY <1>1, <1>2, <1>4, <2>1, <2>3, <2>4, HandedCalmly
<1>5. \/ Reply(r, "refused")
      \/ \E n : Advance(r, n) /\ UNCHANGED tx
      \/ Go(r, "load", {}) /\ UNCHANGED tx
  BY DEF CheckDrift
<1> QED
  BY <1>1, <1>3, <1>4, <1>5 DEF Advance

LEMMA LoadServes ==
    ASSUME SInv, Orderly, NEW r \in Requests, Load(r)
    PROVE  Serves(r)
<1>1. /\ Working(r) /\ pc[r] = "load" /\ pc[r] \in Calm \ {"idle"}
      /\ UNCHANGED <<files, loaded, running, instances, suspect>>
  BY DEF Load, Leave, Working, units, StoreSame, storeVars, Calm
<1> DEFINE fresh == Fresh(Inst(r), suspect)
           record == instances[Inst(r)]
<1>2. /\ TypeOK /\ Inst(r) \in Instances /\ Op(r) = tx[r].job.op /\ tx[r] \in Handler
      /\ Keeping("load", todo[r], tx[r], files, loaded, running, fresh, record)
      /\ Claim("load", todo[r], tx[r], files, instances) /\ Inst(r) = tx[r].job.inst
  BY <1>1, Acting
<1>3. CASE Reply(r, "failed")
  BY <1>1, <1>2, <1>3, FailedServes DEF Answers
<1>4. CASE Op(r) = "install" /\ Go(r, "installNew", NamesOf(tx[r].job.src)) /\ UNCHANGED tx
  <2>1. Keep(r, tx[r])
    BY <1>2, <1>4, KeptLocals
  <2>2. ~Live(Inst(r))
    BY <1>2, <1>4 DEF Keeping, Fitting, Live, Managed
  <2>3. fresh => \A n \in Family(Inst(r)) : running[n] = Absent
    BY <1>1, <1>2, <2>2, RestNow DEF RunsBaseline, Fresh
  <2>4. Keeping("installNew", NamesOf(tx[r].job.src), tx[r], files, loaded, running, fresh, record)
    BY <1>2, <1>4, <2>3
       DEF Keeping, Knows, Fitting, TakesDown, BringsUp, Restores, Runs, Reloaded, Before, Forward, Saving,
           Previous, Out
  <2> QED BY <1>1, <1>4, <2>1, <2>4, HandedOn DEF Calm
<1>5. CASE /\ Op(r) # "install"
           /\ Go(r, "snapshot", NamesOf(instances[Inst(r)].src))
           /\ Keep(r, [tx[r] EXCEPT !.prev = instances[Inst(r)]])
  <2>1. tx[r].prev = instances[Inst(r)]
    BY <1>2, <1>5 DEF Claim
  <2>2. [tx[r] EXCEPT !.prev = instances[Inst(r)]] = tx[r]
    BY <1>2, <2>1 DEF Handler
  <2>3. Keep(r, tx[r]) /\ UNCHANGED tx
    BY <1>2, <1>5, <2>2 DEF Keep, TypeOK, RequestType
  <2>4. Go(r, "snapshot", Previous(tx[r]))
    BY <1>2, <1>5, <2>1 DEF Previous
  <2>5. Keeping("snapshot", Previous(tx[r]), tx[r], files, loaded, running, fresh, record)
    BY <1>2, <1>5
       DEF Keeping, Knows, Fitting, TakesDown, BringsUp, Restores, Runs, Reloaded, Before, Forward, Saving,
           NothingOn
  <2>6. Inst(r) \notin suspect => RunsBaseline(Inst(r))'
    BY <1>1, <1>2, <2>3, RunsAsBefore
  <2> QED BY <1>1, <1>2, <2>3, <2>4, <2>5, <2>6, HandedCalmly
<1> QED
  BY <1>3, <1>4, <1>5 DEF Load

LEMMA SnapshotServes ==
    ASSUME SInv, Orderly, NEW r \in Requests, Snapshot(r)
    PROVE  Serves(r)
<1>1. /\ Working(r) /\ pc[r] = "snapshot" /\ pc[r] \in Calm \ {"idle"}
      /\ UNCHANGED <<files, loaded, running, instances, suspect>>
  BY DEF Snapshot, Visit, Leave, Working, GetQuadlet, HostSame, hostVars, units, StoreSame, storeVars, Calm
<1> DEFINE fresh == Fresh(Inst(r), suspect)
           record == instances[Inst(r)]
           was == Previous(tx[r])
<1>2. /\ TypeOK /\ Inst(r) \in Instances /\ Op(r) = tx[r].job.op /\ tx[r] \in Handler
      /\ Keeping("snapshot", todo[r], tx[r], files, loaded, running, fresh, record)
      /\ Claim("snapshot", todo[r], tx[r], files, instances) /\ Inst(r) = tx[r].job.inst
      /\ Op(r) # "install" /\ tx[r].prev \in Record /\ tx[r].prev = record
      /\ was = NamesOf(tx[r].prev.src)
  <2>1. Op(r) # "install"
    BY <1>1, Locals, KeepsOf DEF Fits, Op
  <2> QED BY <1>1, <2>1, Acting DEF Claim, Previous, Op
<1>3. CASE Reply(r, "failed")
  BY <1>1, <1>2, <1>3, FailedServes DEF Answers
<1>4. ASSUME NEW n \in todo[r], n \in Names, Advance(r, n), Keep(r, [tx[r] EXCEPT !.old[n] = files[n]])
      PROVE  Serves(r)
  <2> DEFINE t == [tx[r] EXCEPT !.old[n] = files[n]]
             left == todo[r] \ {n}
  <2>1. t.job = tx[r].job /\ t.prev = tx[r].prev /\ t.removed = tx[r].removed /\ t.started = tx[r].started
        /\ t.old = [tx[r].old EXCEPT ![n] = files[n]]
    BY <1>2 DEF Handler
  <2>2. Go(r, "snapshot", left) /\ Keep(r, t)
    BY <1>1, <1>4 DEF Advance
  <2> HIDE DEF t
  <2>3. Knows("snapshot", todo[r], tx[r])
    BY <1>2 DEF Keeping
  <2>4. n \in was /\ files[n] = tx[r].prev.src[n]
    <3>1. n \in was
      BY <2>3 DEF Knows
    <3>2. n \in Compared("snapshot", todo[r], tx[r])
      BY <1>2, <1>4, <3>1 DEF Compared, Before
    <3> QED BY <1>2, <3>1, <3>2 DEF Claim
  <2>5. t.old = [m \in Names |-> IF m \in was \ left THEN tx[r].prev.src[m] ELSE Absent]
    <3>1. tx[r].old = [m \in Names |-> IF m \in was \ todo[r] THEN tx[r].prev.src[m] ELSE Absent]
      BY <2>3 DEF Knows
    <3> HIDE DEF was
    <3> QED BY <1>4, <2>1, <2>4, <3>1
  <2>6. Keeping("snapshot", left, t, files, loaded, running, fresh, record)
    <3>1. Knows("snapshot", left, t)
      BY <2>1, <2>3, <2>5 DEF Knows, Before, Forward, Saving, Previous
    <3>2. Fitting("snapshot", left, t, record)
      BY <1>2, <2>1 DEF Keeping, Fitting
    <3> QED BY <3>1, <3>2 DEF Keeping, TakesDown, BringsUp, Restores, Runs, Reloaded, Saving
  <2>7. Inst(r) \notin suspect => RunsBaseline(Inst(r))'
    <3>1. Inst(r)' = Inst(r)
      BY <1>2, <2>1, <2>2, Moves DEF Inst
    <3> QED BY <1>1, <1>2, <3>1, RestNow DEF RunsBaseline, Live, Managed
  <2> QED BY <1>1, <1>2, <2>1, <2>2, <2>6, <2>7, HandedCalmly
<1>5. CASE todo[r] = {} /\ Go(r, "stop", tx[r].prev.units) /\ UNCHANGED tx
  <2>1. Keep(r, tx[r])
    BY <1>2, <1>5, KeptLocals
  <2>2. tx[r].prev.units = was
    BY <1>2, NoRecordAssumption DEF SInv, RecordsWhole, Managed
  <2>3. tx[r].old = tx[r].prev.src
    <3>1. tx[r].old = [m \in Names |-> IF m \in was THEN tx[r].prev.src[m] ELSE Absent]
      BY <1>2, <1>5 DEF Keeping, Knows
    <3>2. tx[r].prev.src \in Sources
      BY <1>2 DEF Record
    <3>3. \A m \in Names : m \notin was => tx[r].prev.src[m] = Absent
      BY <1>2 DEF NamesOf
    <3> HIDE DEF was
    <3> QED BY <3>1, <3>2, <3>3 DEF Sources
  <2>4. Keeping("stop", was, tx[r], files, loaded, running, fresh, record)
    <3>1. Knows("stop", was, tx[r])
      BY <1>2, <2>3 DEF Keeping, Knows, Before, Forward, Saving
    <3>2. Fitting("stop", was, tx[r], record)
      BY <1>2 DEF Keeping, Fitting
    <3>3. TakesDown("stop", was, tx[r], files, loaded, running)
      BY DEF TakesDown, Out, Reloaded, Saving
    <3> QED BY <3>1, <3>2, <3>3 DEF Keeping, BringsUp, Restores, Runs, Reloaded, Saving
  <2>5. Inst(r) \notin suspect => RunsBaseline(Inst(r))'
    BY <1>1, <1>2, <1>5, RunsAsBefore
  <2> QED BY <1>1, <1>2, <1>5, <2>1, <2>2, <2>4, <2>5, HandedCalmly
<1> QED
  BY <1>3, <1>4, <1>5 DEF Snapshot, Visit, First, Leave

LEMMA StopUnitServes ==
    ASSUME SInv, Orderly, NEW r \in Requests, StopUnit(r)
    PROVE  Serves(r)
<1>1. /\ Working(r) /\ pc[r] = "stop" /\ pc[r] \in Calm \ {"idle"}
      /\ UNCHANGED <<files, loaded, instances, suspect>>
  BY DEF StopUnit, Visit, Leave, Working, Stop, HostSame, hostVars, StoreSame, storeVars, Calm
<1> DEFINE fresh == Fresh(Inst(r), suspect)
           record == instances[Inst(r)]
           was == Previous(tx[r])
<1>2. /\ TypeOK /\ Inst(r) \in Instances /\ Op(r) = tx[r].job.op /\ tx[r] \in Handler
      /\ Keeping("stop", todo[r], tx[r], files, loaded, running, fresh, record)
      /\ Claim("stop", todo[r], tx[r], files, instances) /\ Inst(r) = tx[r].job.inst
      /\ Op(r) # "install" /\ tx[r].prev = record
      /\ was = NamesOf(tx[r].prev.src) /\ was \subseteq Names /\ Alive(r) \in BOOLEAN
  <2>1. Op(r) # "install"
    BY <1>1, Locals, KeepsOf DEF Fits, Op
  <2> QED BY <1>1, <2>1, Acting DEF Claim, Previous, Op, NamesOf
<1>3. Knows("stop", todo[r], tx[r]) /\ TakesDown("stop", todo[r], tx[r], files, loaded, running)
      /\ Fitting("stop", todo[r], tx[r], record)
  BY <1>2 DEF Keeping
<1>4. ASSUME NEW n \in todo[r], n \in Names, NEW err \in BOOLEAN, Stop(Alive(r), n, err),
             IF err THEN Reply(r, "failed") ELSE Advance(r, n) /\ UNCHANGED tx
      PROVE  Serves(r)
  <2>1. /\ \A m \in Names \ {n} : running'[m] = running[m]
        /\ running'[n] \in {running[n], Absent}
        /\ ~err => running'[n] = Absent
    BY <1>2, <1>4, UnitStopped
  <2>2. \A m \in Family(Inst(r)) : running'[m] \in {running[m], Absent}
    BY <1>2, <2>1, FamilyNames
  <2>3. CASE Reply(r, "failed")
    BY <1>1, <1>2, <2>2, <2>3, FailedServes DEF Answers
  <2>4. CASE ~err /\ Advance(r, n) /\ UNCHANGED tx
    <3> DEFINE left == todo[r] \ {n}
    <3>1. Keep(r, tx[r]) /\ Go(r, "stop", left)
      BY <1>1, <1>2, <2>4, KeptLocals DEF Advance
    <3>2. Knows("stop", left, tx[r])
      BY <1>3 DEF Knows, Before, Forward, Saving
    <3>3. TakesDown("stop", left, tx[r], files, loaded, running')
      <4>1. Out(was \ left, running')
        BY <1>2, <1>3, <2>1, <2>4 DEF TakesDown, Out
      <4> QED BY <4>1 DEF TakesDown, Reloaded, Saving
    <3>4. Keeping("stop", left, tx[r], files, loaded, running', fresh, record)
      BY <1>3, <3>2, <3>3 DEF Keeping, Fitting, BringsUp, Restores, Runs, Reloaded, Saving
    <3>5. Inst(r) \notin suspect => RunsBaseline(Inst(r))'
      BY <1>1, <1>2, <2>2, <2>4, RunsAsBefore
    <3> QED BY <1>1, <1>2, <3>1, <3>4, <3>5, HandedCalmly
  <2> QED BY <1>4, <2>3, <2>4
<1>5. ASSUME todo[r] = {}, Go(r, "removeOld", NamesOf(tx[r].prev.src)), UNCHANGED <<tx, running>>
      PROVE  Serves(r)
  <2>1. Keep(r, tx[r])
    BY <1>2, <1>5, KeptLocals
  <2>2. Out(was, running)
    BY <1>3, <1>5 DEF TakesDown, Out
  <2>3. fresh => \A n \in Family(Inst(r)) : running[n] = Absent
    <3>1. SUFFICES ASSUME fresh, NEW n \in Family(Inst(r)), running[n] # Absent PROVE FALSE
      OBVIOUS
    <3>2. Live(Inst(r)) /\ running[n] = record.src[n] /\ n \in Names
      BY <1>1, <1>2, <3>1, RestNow, FamilyNames DEF RunsBaseline, Fresh
    <3> QED BY <1>2, <2>2, <3>1, <3>2 DEF Out, NamesOf
  <2>4. Knows("removeOld", was, tx[r])
    BY <1>3 DEF Knows, Before, Forward, Saving
  <2>5. Fitting("removeOld", was, tx[r], record)
    BY <1>3 DEF Fitting
  <2>6. TakesDown("removeOld", was, tx[r], files, loaded, running)
    BY <2>2 DEF TakesDown, Out, Reloaded, Saving
  <2>7. Keeping("removeOld", was, tx[r], files, loaded, running, fresh, record)
    BY <1>2, <2>3, <2>4, <2>5, <2>6 DEF Keeping, BringsUp, Restores, Runs, Reloaded, Saving
  <2> QED BY <1>1, <1>2, <1>5, <2>1, <2>7, HandedOn DEF Calm
<1> QED
  BY <1>4, <1>5 DEF StopUnit, Visit, First, Leave, HostSame, hostVars

LEMMA RemoveOldServes ==
    ASSUME SInv, NEW r \in Requests, RemoveOld(r)
    PROVE  Serves(r)
<1>1. Working(r) /\ pc[r] = "removeOld" /\ UNCHANGED <<loaded, instances, suspect>>
  BY DEF RemoveOld, Visit, Leave, Working, RemoveQuadlet, HostSame, hostVars, StoreSame, storeVars
<1> DEFINE fresh == Fresh(Inst(r), suspect)
           record == instances[Inst(r)]
           was == Previous(tx[r])
<1>2. /\ TypeOK /\ Inst(r) \in Instances /\ Op(r) = tx[r].job.op /\ tx[r] \in Handler
      /\ Keeping("removeOld", todo[r], tx[r], files, loaded, running, fresh, record)
      /\ Claim("removeOld", todo[r], tx[r], files, instances) /\ Inst(r) = tx[r].job.inst
      /\ Op(r) \in {"update", "remove"}
      /\ was = NamesOf(tx[r].prev.src) /\ was \subseteq Names /\ Alive(r) \in BOOLEAN
      /\ Family(Inst(r)) \subseteq Names
  <2>1. Op(r) \in {"update", "remove"}
    BY <1>1, Locals, KeepsOf DEF Fits, Op
  <2> QED BY <1>1, <2>1, Acting, FamilyNames DEF Previous, Op, NamesOf
<1>3. /\ Knows("removeOld", todo[r], tx[r]) /\ Fitting("removeOld", todo[r], tx[r], record)
      /\ TakesDown("removeOld", todo[r], tx[r], files, loaded, running)
      /\ fresh => Runs("removeOld", todo[r], tx[r], running)
  BY <1>2 DEF Keeping
<1>4. /\ Out(was, running) /\ Out(was \ todo[r], files)
      /\ fresh => \A n \in Family(Inst(r)) : running[n] = Absent
  BY <1>2, <1>3 DEF TakesDown, Runs, Out
<1>5. ASSUME NEW n \in todo[r], n \in Names, NEW err \in BOOLEAN,
             RemoveQuadlet(Alive(r), n, FALSE, err),
             IF err THEN Go(r, "reinstall", tx[r].removed) /\ UNCHANGED tx
             ELSE Advance(r, n) /\ Keep(r, [tx[r] EXCEPT !.removed = @ \cup {n}])
      PROVE  Serves(r)
  <2>1. /\ \A m \in Names \ {n} : files'[m] = files[m] /\ running'[m] = running[m]
        /\ files'[n] \in {files[n], Absent} /\ running'[n] \in {running[n], Absent}
        /\ ~err => files'[n] = Absent /\ running'[n] = Absent
    BY <1>2, <1>5, QuadletRemoved
  <2>2. n \in was
    BY <1>1, <1>2 DEF Claim, Progress
  <2>3. Out(was, running') /\ (fresh => \A m \in Family(Inst(r)) : running'[m] = Absent)
    BY <1>2, <1>4, <2>1 DEF Out
  <2>4. CASE Go(r, "reinstall", tx[r].removed) /\ UNCHANGED tx
    <3>1. Keep(r, tx[r]) /\ tx[r].removed = was \ todo[r]
      BY <1>2, <1>3, <2>4, KeptLocals DEF Knows
    <3>2. \A m \in was \ tx[r].removed : files'[m] \in {tx[r].prev.src[m], Absent}
      <4>1. \A m \in was : m \in todo[r] => files[m] = tx[r].prev.src[m]
        BY <1>2 DEF Claim, Compared, Before
      <4> QED BY <1>2, <2>1, <3>1, <4>1
    <3>3. Knows("reinstall", tx[r].removed, tx[r]) /\ Fitting("reinstall", tx[r].removed, tx[r], record)
      BY <1>3, <3>1 DEF Knows, Fitting, Before, Forward, Saving
    <3>4. Restores("reinstall", tx[r].removed, tx[r], files', loaded, running')
      BY <2>3, <3>2 DEF Restores
    <3>5. fresh => Runs("reinstall", tx[r].removed, tx[r], running')
      BY <1>2, <2>3 DEF Runs, Saving
    <3>6. Keeping("reinstall", tx[r].removed, tx[r], files', loaded, running', fresh, record)
      BY <3>3, <3>4, <3>5 DEF Keeping, TakesDown, BringsUp, Reloaded, Saving
    <3> QED BY <1>1, <2>4, <3>1, <3>6, HandedOn DEF Calm
  <2>5. CASE ~err /\ Advance(r, n) /\ Keep(r, [tx[r] EXCEPT !.removed = @ \cup {n}])
    <3> DEFINE t == [tx[r] EXCEPT !.removed = @ \cup {n}]
               left == todo[r] \ {n}
    <3>1. /\ t.job = tx[r].job /\ t.prev = tx[r].prev /\ t.old = tx[r].old
          /\ t.started = tx[r].started /\ t.removed = tx[r].removed \cup {n}
      BY <1>2 DEF Handler
    <3>2. Keep(r, t) /\ Go(r, "removeOld", left)
      BY <1>1, <2>5 DEF Advance
    <3> HIDE DEF t
    <3>3. t.removed = was \ left
      BY <1>3, <1>5, <2>2, <3>1 DEF Knows
    <3>4. Previous(t) = was
      BY <3>1 DEF Previous
    <3>5. Knows("removeOld", left, t) /\ Fitting("removeOld", left, t, record)
      BY <1>3, <3>1, <3>3, <3>4 DEF Knows, Fitting, Before, Forward, Saving
    <3>6. Out(was \ left, files')
      BY <1>2, <1>4, <2>1, <2>5 DEF Out
    <3>7. TakesDown("removeOld", left, t, files', loaded, running')
      BY <2>3, <3>4, <3>6 DEF TakesDown, Reloaded, Saving
    <3>8. fresh => Runs("removeOld", left, t, running')
      BY <1>2, <2>3, <3>1 DEF Runs, Saving
    <3>9. Keeping("removeOld", left, t, files', loaded, running', fresh, record)
      BY <3>5, <3>7, <3>8 DEF Keeping, BringsUp, Restores, Reloaded, Saving
    <3> QED BY <1>1, <3>1, <3>2, <3>9, HandedOn DEF Calm
  <2> QED BY <1>5, <2>4, <2>5
<1>6. ASSUME todo[r] = {}, UNCHANGED <<tx, files, running>>,
             IF Op(r) = "update" THEN Go(r, "installNew", NamesOf(tx[r].job.src))
                                 ELSE Go(r, "reload", {})
      PROVE  Serves(r)
  <2>1. Keep(r, tx[r])
    BY <1>2, <1>6, KeptLocals
  <2>2. ASSUME NEW stage, stage = "reload" \/ (stage = "installNew" /\ Op(r) # "remove"), NEW S
        PROVE  Keeping(stage, S, tx[r], files, loaded, running, fresh, record)
    <3>1. Knows(stage, S, tx[r]) /\ Fitting(stage, S, tx[r], record)
      BY <1>2, <1>3, <1>6, <2>2 DEF Knows, Fitting, Before, Forward, Saving
    <3>2. Out(was \ New(tx[r]), files)
      BY <1>4, <1>6 DEF Out
    <3>3. TakesDown(stage, S, tx[r], files, loaded, running)
      BY <1>4, <2>2, <3>2 DEF TakesDown, Reloaded, Saving
    <3>4. fresh => Runs(stage, S, tx[r], running)
      BY <1>2, <1>4, <2>2 DEF Runs, Saving
    <3> QED BY <2>2, <3>1, <3>3, <3>4 DEF Keeping, BringsUp, Restores, Reloaded, Saving
  <2> QED BY <1>1, <1>2, <1>6, <2>1, <2>2, HandedOn DEF Calm
<1> QED
  BY <1>5, <1>6 DEF RemoveOld, Visit, First, Leave, HostSame, hostVars

LEMMA InstallNewServes ==
    ASSUME SInv, NEW r \in Requests, InstallNew(r)
    PROVE  Serves(r)
<1>1. Working(r) /\ pc[r] = "installNew" /\ UNCHANGED <<loaded, running, instances, suspect>>
  BY DEF InstallNew, Visit, Leave, Working, InstallQuadlet, units, HostSame, hostVars, StoreSame, storeVars
<1> DEFINE fresh == Fresh(Inst(r), suspect)
           record == instances[Inst(r)]
           was == Previous(tx[r])
<1>2. /\ TypeOK /\ Inst(r) \in Instances /\ Op(r) = tx[r].job.op /\ tx[r] \in Handler
      /\ Keeping("installNew", todo[r], tx[r], files, loaded, running, fresh, record)
      /\ Progress("installNew", todo[r], tx[r]) /\ Inst(r) = tx[r].job.inst
      /\ Alive(r) \in BOOLEAN /\ Family(Inst(r)) \subseteq Names /\ was \subseteq Names
      /\ Op(r) # "remove"
  <2>1. Progress("installNew", todo[r], tx[r]) => tx[r].job.op # "remove"
    BY DEF Progress
  <2>2. was \subseteq Names
    BY DEF Previous, NamesOf
  <2> QED BY <1>1, <2>1, <2>2, Acting, FamilyNames
<1>3. /\ Knows("installNew", todo[r], tx[r]) /\ Fitting("installNew", todo[r], tx[r], record)
      /\ TakesDown("installNew", todo[r], tx[r], files, loaded, running)
      /\ fresh => Runs("installNew", todo[r], tx[r], running)
  BY <1>2 DEF Keeping
<1>4. /\ Out(was, running) /\ Out(was \ New(tx[r]), files) /\ tx[r].started = {}
      /\ fresh => \A n \in Family(Inst(r)) : running[n] = Absent
  BY <1>2, <1>3 DEF TakesDown, Runs, Out, Knows
<1>5. ASSUME NEW n \in todo[r], n \in Names, NEW err \in BOOLEAN,
             InstallQuadlet(Alive(r), n, tx[r].job.src[n], err),
             IF err THEN Abort(r)
             ELSE Advance(r, n) /\ Keep(r, [tx[r] EXCEPT !.installed = @ \cup {n}])
      PROVE  Serves(r)
  <2>1. CASE Abort(r)
    BY <1>1, <1>2, <1>4, <2>1, AbortServes DEF Abort
  <2>2. CASE ~err /\ Advance(r, n) /\ Keep(r, [tx[r] EXCEPT !.installed = @ \cup {n}])
    <3> DEFINE t == [tx[r] EXCEPT !.installed = @ \cup {n}]
               left == todo[r] \ {n}
    <3>1. /\ t.job = tx[r].job /\ t.prev = tx[r].prev /\ t.old = tx[r].old
          /\ t.started = tx[r].started /\ t.removed = tx[r].removed
      BY <1>2 DEF Handler
    <3>2. Keep(r, t) /\ Go(r, "installNew", left)
      BY <1>1, <2>2 DEF Advance
    <3> HIDE DEF t
    <3>3. Previous(t) = was /\ New(t) = New(tx[r])
      BY <3>1 DEF Previous, New
    <3>4. Knows("installNew", left, t) /\ Fitting("installNew", left, t, record)
      BY <1>3, <3>1, <3>3 DEF Knows, Fitting, Before, Forward, Saving
    <3>5. Out(was \ New(tx[r]), files')
      <4>1. n \in New(tx[r])
        BY <1>2 DEF Progress, New
      <4>2. \A m \in Names \ {n} : files'[m] = files[m]
        BY <1>2, <1>5, QuadletInstalled
      <4> QED BY <1>2, <1>4, <4>1, <4>2 DEF Out
    <3>6. TakesDown("installNew", left, t, files', loaded, running)
      BY <1>4, <3>3, <3>5 DEF TakesDown, Reloaded, Saving
    <3>7. fresh => Runs("installNew", left, t, running)
      BY <1>2, <1>4, <3>1 DEF Runs, Saving
    <3>8. Keeping("installNew", left, t, files', loaded, running, fresh, record)
      BY <3>4, <3>6, <3>7 DEF Keeping, BringsUp, Restores, Reloaded, Saving
    <3> QED BY <1>1, <3>1, <3>2, <3>8, HandedOn DEF Calm
  <2> QED BY <1>5, <2>1, <2>2
<1>6. ASSUME Go(r, "reload", {}), UNCHANGED <<tx, files>>
      PROVE  Serves(r)
  <2>1. Keep(r, tx[r])
    BY <1>2, <1>6, KeptLocals
  <2>2. Knows("reload", {}, tx[r]) /\ Fitting("reload", {}, tx[r], record)
    BY <1>2, <1>3 DEF Knows, Fitting, Before, Forward, Saving
  <2>3. TakesDown("reload", {}, tx[r], files, loaded, running)
    BY <1>4 DEF TakesDown, Reloaded, Saving
  <2>4. fresh => Runs("reload", {}, tx[r], running)
    BY <1>2, <1>4 DEF Runs, Saving
  <2>5. Keeping("reload", {}, tx[r], files, loaded, running, fresh, record)
    BY <2>2, <2>3, <2>4 DEF Keeping, BringsUp, Restores, Reloaded, Saving
  <2> QED BY <1>1, <1>6, <2>1, <2>5, HandedOn DEF Calm
<1> QED
  BY <1>5, <1>6 DEF InstallNew, Visit, First, HostSame, hostVars

LEMMA ReloadUnitsServes ==
    ASSUME SInv, NEW r \in Requests, ReloadUnits(r)
    PROVE  Serves(r)
<1>1. Working(r) /\ pc[r] = "reload" /\ UNCHANGED <<files, running, instances, suspect>>
  BY DEF ReloadUnits, Leave, Working, Reload, StoreSame, storeVars
<1> DEFINE fresh == Fresh(Inst(r), suspect)
           record == instances[Inst(r)]
           was == Previous(tx[r])
<1>2. /\ TypeOK /\ Inst(r) \in Instances /\ Op(r) = tx[r].job.op /\ tx[r] \in Handler
      /\ Keeping("reload", todo[r], tx[r], files, loaded, running, fresh, record)
      /\ Progress("reload", todo[r], tx[r]) /\ Claim("reload", todo[r], tx[r], files, instances)
      /\ Inst(r) = tx[r].job.inst /\ Alive(r) \in BOOLEAN /\ Family(Inst(r)) \subseteq Names
  BY <1>1, Acting, FamilyNames
<1>3. /\ Knows("reload", todo[r], tx[r]) /\ Fitting("reload", todo[r], tx[r], record)
      /\ TakesDown("reload", todo[r], tx[r], files, loaded, running)
      /\ fresh => Runs("reload", todo[r], tx[r], running)
  BY <1>2 DEF Keeping
<1>4. /\ Out(was, running) /\ Out(was \ New(tx[r]), files) /\ tx[r].started = {}
      /\ fresh => \A n \in Family(Inst(r)) : running[n] = Absent
  BY <1>2, <1>3 DEF TakesDown, Runs, Knows, Forward
<1>5. CASE Abort(r)
  BY <1>1, <1>2, <1>4, <1>5, AbortServes DEF Abort, Forward
<1>6. ASSUME loaded' = files, Go(r, IF Op(r) = "remove" THEN "save" ELSE "list", {}), UNCHANGED tx
      PROVE  Serves(r)
  <2>1. Keep(r, tx[r])
    BY <1>2, <1>6, KeptLocals
  <2>2. \A n \in New(tx[r]) : files[n] = tx[r].job.src[n]
    <3>1. Op(r) # "remove" => tx[r].installed = New(tx[r])
      BY <1>2 DEF Progress, New, Forward
    <3>2. Op(r) = "remove" => New(tx[r]) = {}
      BY <1>2, <1>3 DEF Knows, New, NamesOf, NothingOn
    <3>3. \A n \in tx[r].installed : files[n] = tx[r].job.src[n]
      BY <1>2 DEF Claim, Installed, Forward
    <3> QED BY <3>1, <3>2, <3>3
  <2>3. /\ Out(was \ New(tx[r]), files) /\ Out(was \ New(tx[r]), loaded')
        /\ Out(was \ New(tx[r]), running)
    BY <1>4, <1>6 DEF Out
  <2>4. CASE Op(r) = "remove" /\ Go(r, "save", {})
    <3>1. Starts(tx[r]) = {}
      BY <1>2, <1>3, <2>4 DEF Knows, Starts, New, NamesOf, NothingOn
    <3>2. Knows("save", {}, tx[r]) /\ Fitting("save", {}, tx[r], record)
      BY <1>3, <1>4 DEF Knows, Fitting, Before, Forward, Saving
    <3>3. TakesDown("save", {}, tx[r], files, loaded', running)
      BY <2>3 DEF TakesDown, Reloaded, Saving
    <3>4. BringsUp("save", {}, tx[r], files, loaded', running, fresh)
      BY <1>6, <2>2, <3>1 DEF BringsUp, Reloaded, Saving
    <3>5. fresh => Runs("save", {}, tx[r], running)
      BY <1>2, <1>4 DEF Runs, Saving
    <3>6. Keeping("save", {}, tx[r], files, loaded', running, fresh, record)
      BY <3>2, <3>3, <3>4, <3>5 DEF Keeping, Restores
    <3> QED BY <1>1, <2>1, <2>4, <3>6, HandedOn DEF Calm
  <2>5. CASE Op(r) # "remove" /\ Go(r, "list", {})
    <3>1. Knows("list", {}, tx[r]) /\ Fitting("list", {}, tx[r], record)
      BY <1>3, <1>4 DEF Knows, Fitting, Before, Forward, Saving
    <3>2. TakesDown("list", {}, tx[r], files, loaded', running)
      BY <1>4, <2>3 DEF TakesDown, Reloaded, Saving
    <3>3. BringsUp("list", {}, tx[r], files, loaded', running, fresh)
      BY <1>6, <2>2 DEF BringsUp, Reloaded, Saving
    <3>4. fresh => Runs("list", {}, tx[r], running)
      BY <1>2, <1>4 DEF Runs, Saving
    <3>5. Keeping("list", {}, tx[r], files, loaded', running, fresh, record)
      BY <3>1, <3>2, <3>3, <3>4 DEF Keeping, Restores
    <3> QED BY <1>1, <2>1, <2>5, <3>5, HandedOn DEF Calm
  <2> QED BY <1>6, <2>4, <2>5
<1> QED
  BY <1>2, <1>5, <1>6, UnitsReloaded DEF ReloadUnits

(* From the reload on, nothing but the units of a handler changes.              *)
LEMMA ReloadedFacts ==
    ASSUME SInv, NEW r \in Requests, pc[r] \in {"list", "start", "verify", "relist", "capture"}
    PROVE  /\ Working(r) /\ TypeOK /\ Inst(r) \in Instances /\ Op(r) = tx[r].job.op
           /\ tx[r] \in Handler /\ Inst(r) = tx[r].job.inst /\ Alive(r) \in BOOLEAN
           /\ todo[r] \in SUBSET Names /\ Family(Inst(r)) \subseteq Names
           /\ Op(r) # "remove"
           /\ New(tx[r]) \subseteq Family(Inst(r)) /\ Starts(tx[r]) \subseteq New(tx[r])
           /\ Knows(pc[r], todo[r], tx[r]) /\ Fitting(pc[r], todo[r], tx[r], instances[Inst(r)])
           /\ TakesDown(pc[r], todo[r], tx[r], files, loaded, running)
           /\ BringsUp(pc[r], todo[r], tx[r], files, loaded, running, Fresh(Inst(r), suspect))
           /\ Fresh(Inst(r), suspect) => Runs(pc[r], todo[r], tx[r], running)
           /\ Previous(tx[r]) \subseteq Names
<1>1. Working(r)
  BY DEF Working
<1>2. Progress(pc[r], todo[r], tx[r]) => tx[r].job.op # "remove"
  BY DEF Progress, Forward
<1>3. Starts(tx[r]) \subseteq New(tx[r]) /\ Previous(tx[r]) \subseteq Names
  BY DEF Starts, Previous, NamesOf
<1>4. /\ Knows(pc[r], todo[r], tx[r]) /\ Fitting(pc[r], todo[r], tx[r], instances[Inst(r)])
      /\ TakesDown(pc[r], todo[r], tx[r], files, loaded, running)
      /\ BringsUp(pc[r], todo[r], tx[r], files, loaded, running, Fresh(Inst(r), suspect))
      /\ Fresh(Inst(r), suspect) => Runs(pc[r], todo[r], tx[r], running)
  BY <1>1, Acting DEF Keeping, Working
<1> QED
  BY <1>1, <1>2, <1>3, <1>4, Acting, FamilyNames

(* What makes a handler's state right from the first listing to the record.     *)
LEMMA ReloadedKeeping ==
    ASSUME NEW stage \in {"list", "start", "verify", "relist", "capture", "save"}, NEW left, NEW t,
           t.job.op # "remove", NEW onDisk, NEW read, NEW active, NEW fresh, NEW record,
           t.job.op # "install" => t.old = t.prev.src,
           t.started \subseteq Starts(t),
           t.job.op = "install" <=> record = NoRecord \/ record.removed,
           stage = "list" => t.started = {} /\ Out(Previous(t), active),
           stage \in {"start", "verify"} => left \subseteq Starts(t),
           stage = "start" => t.started \cap left = {},
           stage = "verify" => t.started \cap Later(left) = {},
           \A n \in Previous(t) \ New(t) :
               onDisk[n] = Absent /\ read[n] = Absent /\ active[n] = Absent,
           \A n \in New(t) : onDisk[n] = t.job.src[n] /\ read[n] = t.job.src[n],
           stage = "start" => \A n \in Starts(t) \ left : Up(n, t, fresh, active),
           stage = "verify" =>
               \A n \in Starts(t) \ Later(left) :
                   Up(n, t, fresh, active) \/ (n \in left /\ active[n] = Absent),
           stage \in {"relist", "capture", "save"} => \A n \in Starts(t) : Up(n, t, fresh, active),
           fresh => \A n \in Family(t.job.inst) : active[n] # Absent => n \in t.started
    PROVE  Keeping(stage, left, t, onDisk, read, active, fresh, record)
<1>1. Knows(stage, left, t) /\ Fitting(stage, left, t, record)
  BY DEF Knows, Fitting, Before, Forward, Saving
<1>2. TakesDown(stage, left, t, onDisk, read, active)
  BY DEF TakesDown, Out, Reloaded, Saving
<1>3. BringsUp(stage, left, t, onDisk, read, active, fresh)
  BY DEF BringsUp, Reloaded, Saving
<1>4. fresh => Runs(stage, left, t, active)
  BY DEF Runs, Saving
<1> QED
  BY <1>1, <1>2, <1>3, <1>4 DEF Keeping, Restores

LEMMA ReloadedPlainly ==
    ASSUME SInv, NEW r \in Requests, pc[r] \in {"list", "start", "verify", "relist", "capture"}
    PROVE  /\ tx[r].job.op # "install" => tx[r].old = tx[r].prev.src
           /\ tx[r].started \subseteq Starts(tx[r])
           /\ tx[r].job.op = "install" <=> instances[Inst(r)] = NoRecord \/ instances[Inst(r)].removed
           /\ \A n \in Previous(tx[r]) \ New(tx[r]) :
                 files[n] = Absent /\ loaded[n] = Absent /\ running[n] = Absent
           /\ \A n \in New(tx[r]) : files[n] = tx[r].job.src[n] /\ loaded[n] = tx[r].job.src[n]
           /\ Fresh(Inst(r), suspect) =>
                 \A n \in Family(Inst(r)) : running[n] # Absent => n \in tx[r].started
           /\ pc[r] \in {"start", "verify"} => todo[r] \subseteq Starts(tx[r])
<1>1. /\ Knows(pc[r], todo[r], tx[r]) /\ Fitting(pc[r], todo[r], tx[r], instances[Inst(r)])
      /\ TakesDown(pc[r], todo[r], tx[r], files, loaded, running)
      /\ BringsUp(pc[r], todo[r], tx[r], files, loaded, running, Fresh(Inst(r), suspect))
      /\ Fresh(Inst(r), suspect) => Runs(pc[r], todo[r], tx[r], running)
      /\ Inst(r) = tx[r].job.inst
  BY ReloadedFacts
<1>2. /\ tx[r].job.op # "install" => tx[r].old = tx[r].prev.src
      /\ tx[r].started \subseteq Starts(tx[r])
      /\ pc[r] \in {"start", "verify"} => todo[r] \subseteq Starts(tx[r])
      /\ pc[r] = "list" => tx[r].started = {}
  BY <1>1 DEF Knows, Forward, Before
<1>3. tx[r].job.op = "install" <=> instances[Inst(r)] = NoRecord \/ instances[Inst(r)].removed
  BY <1>1 DEF Fitting
<1>4. \A n \in Previous(tx[r]) \ New(tx[r]) :
         files[n] = Absent /\ loaded[n] = Absent /\ running[n] = Absent
  BY <1>1 DEF TakesDown, Reloaded, Out
<1>5. \A n \in New(tx[r]) : files[n] = tx[r].job.src[n] /\ loaded[n] = tx[r].job.src[n]
  BY <1>1 DEF BringsUp, Reloaded
<1>6. Fresh(Inst(r), suspect) =>
         \A n \in Family(Inst(r)) : running[n] # Absent => n \in tx[r].started
  BY <1>1, <1>2 DEF Runs
<1> QED
  BY <1>2, <1>3, <1>4, <1>5, <1>6

(* A listing, and the reading of what was installed: the units stay as they are. *)
LEMMA ReadingServes ==
    ASSUME SInv, NEW r \in Requests, pc[r] \in {"list", "start", "verify", "relist", "capture"},
           UNCHANGED <<files, loaded, running, instances, suspect>>,
           NEW stage \in {"start", "relist", "capture", "save"}, NEW S, NEW t \in Handler, Go(r, stage, S), Keep(r, t),
           t.job = tx[r].job, t.prev = tx[r].prev, t.old = tx[r].old, t.started = tx[r].started,
           stage = "start" => S \subseteq Starts(tx[r]) /\ tx[r].started \cap S = {},
           LET up == IF stage = "start" THEN Starts(tx[r]) \ S ELSE Starts(tx[r])
           IN  \A n \in up : Up(n, tx[r], Fresh(Inst(r), suspect), running)
    PROVE  Serves(r)
<1> DEFINE fresh == Fresh(Inst(r), suspect)
           record == instances[Inst(r)]
<1>1. /\ Working(r) /\ Inst(r) = tx[r].job.inst /\ tx[r].job.op # "remove"
  BY ReloadedFacts
<1>2. /\ Previous(t) = Previous(tx[r]) /\ New(t) = New(tx[r]) /\ Starts(t) = Starts(tx[r])
      /\ \A n : Up(n, t, fresh, running) <=> Up(n, tx[r], fresh, running)
  BY DEF Previous, New, Starts, Up
<1>3. Keeping(stage, S, t, files, loaded, running, fresh, record)
  <2>1. /\ t.job.op # "install" => t.old = t.prev.src
        /\ t.started \subseteq Starts(t)
        /\ t.job.op = "install" <=> record = NoRecord \/ record.removed
        /\ \A n \in Previous(t) \ New(t) : files[n] = Absent /\ loaded[n] = Absent /\ running[n] = Absent
        /\ \A n \in New(t) : files[n] = t.job.src[n] /\ loaded[n] = t.job.src[n]
        /\ fresh => \A n \in Family(t.job.inst) : running[n] # Absent => n \in t.started
    BY <1>1, <1>2, ReloadedPlainly
  <2>2. /\ stage = "start" => S \subseteq Starts(t) /\ t.started \cap S = {}
        /\ stage = "start" => \A n \in Starts(t) \ S : Up(n, t, fresh, running)
        /\ stage # "start" => \A n \in Starts(t) : Up(n, t, fresh, running)
    BY <1>2
  <2>3. t.job.op # "remove"
    BY <1>1
  <2> HIDE DEF fresh, record
  <2> QED BY <2>1, <2>2, <2>3, ReloadedKeeping
<1> QED
  BY <1>1, <1>3, HandedOn DEF Calm, Working

LEMMA ReloadedAbort ==
    ASSUME SInv, NEW r \in Requests, pc[r] \in {"list", "start", "verify", "relist", "capture"},
           UNCHANGED <<running, instances, suspect>>, Abort(r)
    PROVE  Serves(r)
<1>1. /\ tx[r] \in Handler /\ Op(r) # "remove" /\ Op(r) = tx[r].job.op
      /\ tx[r].started \subseteq Starts(tx[r])
      /\ Fresh(Inst(r), suspect) =>
            \A n \in Family(Inst(r)) : running[n] # Absent => n \in tx[r].started
  BY ReloadedFacts, ReloadedPlainly
<1> QED
  BY <1>1, AbortServes DEF Abort, Forward

LEMMA FindUnitsServes ==
    ASSUME SInv, NEW r \in Requests, FindUnits(r)
    PROVE  Serves(r)
<1>1. pc[r] = "list" /\ UNCHANGED <<files, loaded, running, instances, suspect>>
  BY DEF FindUnits, ListGenerated, Leave, ListQuadlets, units, StoreSame, storeVars
<1>2. tx[r] \in Handler /\ tx[r].started = {}
  BY <1>1, ReloadedFacts DEF Knows
<1>3. CASE Abort(r)
  BY <1>1, <1>3, ReloadedAbort
<1>4. CASE /\ Go(r, "start", NamesOf(tx[r].job.src) \cap StartNames)
           /\ Keep(r, [tx[r] EXCEPT !.listed = NamesOf(files)])
  <2> DEFINE t == [tx[r] EXCEPT !.listed = NamesOf(files)]
  <2>1. /\ t.job = tx[r].job /\ t.prev = tx[r].prev /\ t.old = tx[r].old
        /\ t.started = tx[r].started /\ t \in Handler
    BY <1>2, NamesOfType DEF Handler
  <2>2. Go(r, "start", Starts(tx[r])) /\ Keep(r, t)
    BY <1>4 DEF Starts, New
  <2> HIDE DEF t
  <2> QED BY <1>1, <1>2, <2>1, <2>2, ReadingServes
<1> QED
  BY <1>3, <1>4 DEF FindUnits, ListGenerated

LEMMA StartUnitServes ==
    ASSUME SInv, NEW r \in Requests, StartUnit(r)
    PROVE  Serves(r)
<1>1. pc[r] = "start" /\ UNCHANGED <<files, loaded, instances, suspect>>
  BY DEF StartUnit, Visit, Leave, Start, Restart, HostSame, hostVars, StoreSame, storeVars
<1> DEFINE fresh == Fresh(Inst(r), suspect)
           record == instances[Inst(r)]
<1>2. /\ Working(r) /\ TypeOK /\ tx[r] \in Handler /\ Alive(r) \in BOOLEAN
      /\ Op(r) = tx[r].job.op /\ Inst(r) = tx[r].job.inst /\ Op(r) # "remove"
      /\ New(tx[r]) \subseteq Family(Inst(r)) /\ Starts(tx[r]) \subseteq New(tx[r])
      /\ Family(Inst(r)) \subseteq Names
      /\ todo[r] \subseteq Starts(tx[r]) /\ tx[r].started \subseteq Starts(tx[r])
      /\ tx[r].started \cap todo[r] = {}
      /\ \A n \in Starts(tx[r]) \ todo[r] : Up(n, tx[r], fresh, running)
  BY <1>1, ReloadedFacts, ReloadedPlainly DEF Knows, BringsUp
<1>3. CASE Abort(r) /\ HostSame
  BY <1>1, <1>3, ReloadedAbort DEF HostSame, hostVars
<1>4. CASE todo[r] = {} /\ Go(r, "relist", {}) /\ HostSame /\ UNCHANGED tx
  <2>1. Keep(r, tx[r]) /\ UNCHANGED running
    BY <1>2, <1>4, KeptLocals DEF HostSame, hostVars
  <2> QED BY <1>1, <1>2, <1>4, <2>1, ReadingServes
<1>5. ASSUME NEW n \in Names, NEW err \in BOOLEAN, First(n, todo[r]),
             IF Op(r) = "install" THEN Start(Alive(r), n, err) ELSE Restart(Alive(r), n, err),
             LET t == [tx[r] EXCEPT !.started = @ \cup {n}] IN
             IF err THEN AbortTo(r, t) ELSE Go(r, "verify", todo[r]) /\ Keep(r, t)
      PROVE  Serves(r)
  <2> DEFINE t == [tx[r] EXCEPT !.started = @ \cup {n}]
  <2>1. /\ t.job = tx[r].job /\ t.prev = tx[r].prev /\ t.old = tx[r].old /\ t.removed = tx[r].removed
        /\ t.installed = tx[r].installed /\ t.started = tx[r].started \cup {n} /\ t \in Handler
    BY <1>2 DEF Handler
  <2>2. /\ n \in todo[r] /\ n \in Starts(tx[r]) /\ n \in New(tx[r]) /\ n \in Family(Inst(r))
        /\ t.started \subseteq Starts(tx[r])
    BY <1>2, <1>5, <2>1 DEF First
  <2>3. /\ \A m \in Names \ {n} : running'[m] = running[m]
        /\ UNCHANGED <<files, loaded>>
    BY <1>2, <1>5, UnitStarted, UnitRestarted
  <2>4. fresh => \A m \in Family(Inst(r)) : running'[m] # Absent => m \in t.started
    BY <1>1, <1>2, <2>1, <2>3, ReloadedPlainly
  <2>5. CASE err /\ AbortTo(r, t)
    <3> HIDE DEF t
    <3> QED BY <1>1, <1>2, <2>1, <2>2, <2>4, <2>5, AbortServes DEF Forward
  <2>6. CASE ~err /\ Go(r, "verify", todo[r]) /\ Keep(r, t)
    <3> HIDE DEF t
    <3>1. loaded[n] = tx[r].job.src[n] /\ tx[r].job.src[n] # Absent
      BY <1>1, <2>2, ReloadedPlainly DEF New, NamesOf
    <3>2. Up(n, t, fresh, running') \/ running'[n] = Absent
      <4>1. CASE Op(r) = "install" /\ fresh
        <5>1. running[n] = Absent
          BY <1>1, <1>2, <2>2, <4>1, ReloadedPlainly
        <5> QED BY <1>2, <1>5, <2>1, <2>6, <3>1, <4>1, <5>1, UnitStarted DEF Up
      <4>2. CASE Op(r) = "install" /\ ~fresh
        BY <1>2, <2>1, <4>2 DEF Up
      <4>3. CASE Op(r) # "install"
        <5>1. running'[n] \in {loaded[n], Absent}
          BY <1>2, <1>5, <2>6, <4>3, UnitRestarted
        <5> QED BY <1>2, <2>1, <3>1, <4>3, <5>1 DEF Up
      <4> QED BY <4>1, <4>2, <4>3
    <3>3. Later(todo[r]) = todo[r] \ {n}
      <4>1. \A m \in todo[r] : m \in Nat /\ n <= m
        BY <1>2, <1>5, HostAssumption DEF First
      <4>2. n \in Nat
        BY HostAssumption
      <4> QED BY <2>2, <4>1, <4>2 DEF Later
    <3>4. /\ Previous(t) = Previous(tx[r]) /\ New(t) = New(tx[r]) /\ Starts(t) = Starts(tx[r])
      BY <2>1 DEF Previous, New, Starts
    <3>5. \A m \in Starts(t) \ Later(todo[r]) :
             Up(m, t, fresh, running') \/ (m \in todo[r] /\ running'[m] = Absent)
      <4> SUFFICES ASSUME NEW m \in Starts(t) \ Later(todo[r])
                   PROVE  Up(m, t, fresh, running') \/ (m \in todo[r] /\ running'[m] = Absent)
        OBVIOUS
      <4>1. CASE m = n
        BY <2>2, <3>2, <4>1
      <4>2. CASE m # n
        <5>1. m \in Starts(tx[r]) \ todo[r] /\ m \in Names
          BY <1>2, <3>3, <3>4, <4>2
        <5>2. Up(m, tx[r], fresh, running) /\ running'[m] = running[m]
          BY <1>2, <2>3, <4>2, <5>1
        <5> QED BY <2>1, <5>2 DEF Up
      <4> QED BY <4>1, <4>2
    <3>6. \A m \in Previous(t) \ New(t) : running'[m] = Absent
      BY <1>1, <2>2, <2>3, <3>4, ReloadedPlainly, ReloadedFacts
    <3>7. t.started \cap Later(todo[r]) = {}
      BY <1>2, <2>1, <3>3
    <3>8. Keeping("verify", todo[r], t, files', loaded', running', fresh, record)
      <4>1. /\ t.job.op # "install" => t.old = t.prev.src
            /\ t.job.op = "install" <=> record = NoRecord \/ record.removed
            /\ \A m \in Previous(t) \ New(t) :
                  files'[m] = Absent /\ loaded'[m] = Absent /\ running'[m] = Absent
            /\ \A m \in New(t) : files'[m] = t.job.src[m] /\ loaded'[m] = t.job.src[m]
        BY <1>1, <2>1, <2>3, <3>4, <3>6, ReloadedPlainly
      <4>2. /\ t.started \subseteq Starts(t) /\ todo[r] \subseteq Starts(t) /\ t.job.op # "remove"
            /\ fresh => \A m \in Family(t.job.inst) : running'[m] # Absent => m \in t.started
        BY <1>2, <2>1, <2>2, <2>4, <3>4
      <4> HIDE DEF fresh, record
      <4> QED BY <3>5, <3>7, <4>1, <4>2, ReloadedKeeping
    <3> QED BY <1>1, <1>2, <2>1, <2>6, <3>8, HandedOn DEF Calm
  <2> QED BY <1>5, <2>5, <2>6
<1> QED
  BY <1>3, <1>4, <1>5 DEF StartUnit, Visit, Leave

LEMMA VerifyUnitServes ==
    ASSUME SInv, NEW r \in Requests, VerifyUnit(r)
    PROVE  Serves(r)
<1>1. pc[r] = "verify" /\ UNCHANGED <<files, loaded, running, instances, suspect>>
  BY DEF VerifyUnit, Visit, Verify, units, StoreSame, storeVars
<1> DEFINE fresh == Fresh(Inst(r), suspect)
<1>2. /\ tx[r] \in Handler /\ TypeOK
      /\ todo[r] \subseteq Starts(tx[r]) /\ todo[r] \in SUBSET Names
      /\ tx[r].started \cap Later(todo[r]) = {}
      /\ \A n \in Starts(tx[r]) \ Later(todo[r]) :
            Up(n, tx[r], fresh, running) \/ (n \in todo[r] /\ running[n] = Absent)
  BY <1>1, ReloadedFacts, ReloadedPlainly DEF Knows, BringsUp
<1>3. CASE Abort(r)
  BY <1>1, <1>3, ReloadedAbort
<1>4. ASSUME NEW n \in Names, First(n, todo[r]), running[n] # Absent,
             Go(r, "start", todo[r] \ {n}), UNCHANGED tx
      PROVE  Serves(r)
  <2>1. Later(todo[r]) = todo[r] \ {n}
    <3>1. \A m \in todo[r] : m \in Nat /\ n <= m
      BY <1>2, <1>4, HostAssumption DEF First
    <3>2. n \in Nat /\ n \in todo[r]
      BY <1>4, HostAssumption DEF First
    <3> QED BY <3>1, <3>2 DEF Later
  <2>2. \A m \in Starts(tx[r]) \ (todo[r] \ {n}) : Up(m, tx[r], fresh, running)
    BY <1>2, <1>4, <2>1 DEF First
  <2>3. Keep(r, tx[r]) /\ todo[r] \ {n} \subseteq Starts(tx[r])
    BY <1>2, <1>4, KeptLocals
  <2> QED BY <1>1, <1>2, <1>4, <2>1, <2>2, <2>3, ReadingServes
<1>5. PICK n \in Names, err \in BOOLEAN :
         /\ First(n, todo[r]) /\ Verify(Alive(r), n, err)
         /\ IF err THEN Abort(r) ELSE Go(r, "start", todo[r] \ {n}) /\ UNCHANGED tx
  BY DEF VerifyUnit, Visit
<1>6. ~err => running[n] # Absent
  BY <1>5 DEF Verify, Answer
<1> QED
  BY <1>3, <1>4, <1>5, <1>6

LEMMA RelistServes ==
    ASSUME SInv, NEW r \in Requests, Relist(r)
    PROVE  Serves(r)
<1>1. pc[r] = "relist" /\ UNCHANGED <<files, loaded, running, instances, suspect>>
  BY DEF Relist, ListGenerated, Leave, ListQuadlets, units, StoreSame, storeVars
<1>2. tx[r] \in Handler /\ \A n \in Starts(tx[r]) : Up(n, tx[r], Fresh(Inst(r), suspect), running)
  BY <1>1, ReloadedFacts DEF BringsUp
<1>3. CASE Abort(r)
  BY <1>1, <1>3, ReloadedAbort
<1>4. CASE /\ Go(r, "capture", NamesOf(tx[r].job.src))
           /\ Keep(r, [tx[r] EXCEPT !.listed = NamesOf(files)])
  <2> DEFINE t == [tx[r] EXCEPT !.listed = NamesOf(files)]
  <2>1. /\ t.job = tx[r].job /\ t.prev = tx[r].prev /\ t.old = tx[r].old
        /\ t.started = tx[r].started /\ t \in Handler
    BY <1>2, NamesOfType DEF Handler
  <2>2. Go(r, "capture", NamesOf(tx[r].job.src)) /\ Keep(r, t)
    BY <1>4
  <2> HIDE DEF t
  <2> QED BY <1>1, <1>2, <2>1, <2>2, ReadingServes
<1> QED
  BY <1>3, <1>4 DEF Relist, ListGenerated

LEMMA CaptureServes ==
    ASSUME SInv, NEW r \in Requests, Capture(r)
    PROVE  Serves(r)
<1>1. pc[r] = "capture" /\ UNCHANGED <<files, loaded, running, instances, suspect>>
  BY DEF Capture, Visit, Leave, GetQuadlet, HostSame, hostVars, units, StoreSame, storeVars
<1>2. /\ tx[r] \in Handler /\ TypeOK
      /\ \A n \in Starts(tx[r]) : Up(n, tx[r], Fresh(Inst(r), suspect), running)
  BY <1>1, ReloadedFacts DEF BringsUp
<1>3. CASE Abort(r)
  BY <1>1, <1>3, ReloadedAbort
<1>4. ASSUME NEW n \in Names, Advance(r, n), Keep(r, [tx[r] EXCEPT !.seen[n] = files[n]])
      PROVE  Serves(r)
  <2> DEFINE t == [tx[r] EXCEPT !.seen[n] = files[n]]
  <2>1. /\ t.job = tx[r].job /\ t.prev = tx[r].prev /\ t.old = tx[r].old
        /\ t.started = tx[r].started
    BY <1>2 DEF Handler
  <2>2. [tx[r].seen EXCEPT ![n] = files[n]] \in Sources
    BY <1>2 DEF TypeOK, HostType, Handler, Sources
  <2>3. t \in Handler
    BY <1>2, <2>2 DEF Handler
  <2>4. Go(r, "capture", todo[r] \ {n}) /\ Keep(r, t)
    BY <1>1, <1>4 DEF Advance
  <2> HIDE DEF t
  <2> QED BY <1>1, <1>2, <2>1, <2>3, <2>4, ReadingServes
<1>5. CASE Go(r, "save", {}) /\ UNCHANGED tx
  <2>1. Keep(r, tx[r])
    BY <1>2, <1>5, KeptLocals
  <2> QED BY <1>1, <1>2, <1>5, <2>1, ReadingServes
<1> QED
  BY <1>3, <1>4, <1>5 DEF Capture

(* Recording and documenting change nothing on the host.                        *)
LEMMA SavingKeeping ==
    ASSUME NEW stage \in Saving, NEW next \in {"manifest", "readme"}, NEW left, NEW t,
           NEW onDisk, NEW read, NEW active, NEW fresh, NEW record, NEW record2,
           Keeping(stage, left, t, onDisk, read, active, fresh, record)
    PROVE  Keeping(next, {}, t, onDisk, read, active, fresh, record2)
<1>1. /\ Knows(stage, left, t) /\ TakesDown(stage, left, t, onDisk, read, active)
      /\ BringsUp(stage, left, t, onDisk, read, active, fresh)
      /\ fresh => Runs(stage, left, t, active)
  BY DEF Keeping, Saving
<1>2. Knows(next, {}, t) /\ Fitting(next, {}, t, record2)
  BY <1>1 DEF Knows, Fitting, Before, Forward, Saving
<1>3. TakesDown(next, {}, t, onDisk, read, active)
  BY <1>1 DEF TakesDown, Reloaded, Saving
<1>4. BringsUp(next, {}, t, onDisk, read, active, fresh)
  BY <1>1 DEF BringsUp, Reloaded, Saving
<1>5. fresh => Runs(next, {}, t, active)
  BY <1>1 DEF Runs, Saving
<1> QED
  BY <1>2, <1>3, <1>4, <1>5 DEF Keeping, Restores

LEMMA SaveInstanceServes ==
    ASSUME SInv, NEW r \in Requests, SaveInstance(r)
    PROVE  Serves(r)
<1>1. /\ Working(r) /\ pc[r] = "save" /\ pc[r] \in Saving /\ UNCHANGED <<files, loaded, running>>
  BY DEF SaveInstance, Leave, Working, Saving, units
<1>2. CASE Unrecorded(r)
  BY <1>1, <1>2, UnrecordedServes
<1>3. CASE Go(r, "manifest", {}) /\ UNCHANGED <<tx, suspect>>
  <2>1. /\ TypeOK /\ Keep(r, tx[r])
        /\ Keeping("save", todo[r], tx[r], files, loaded, running, Fresh(Inst(r), suspect), instances[Inst(r)])
    BY <1>1, <1>3, Acting, KeptLocals
  <2>2. Keeping("manifest", {}, tx[r], files, loaded, running, Fresh(Inst(r), suspect), instances'[Inst(r)])
    BY <1>1, <2>1, SavingKeeping
  <2> QED BY <1>1, <1>3, <2>1, <2>2, HandedOn DEF Calm
<1> QED
  BY <1>2, <1>3 DEF SaveInstance

LEMMA WriteManifestServes ==
    ASSUME SInv, NEW r \in Requests, WriteManifest(r)
    PROVE  Serves(r)
<1>1. /\ Working(r) /\ pc[r] = "manifest" /\ pc[r] \in Saving
      /\ UNCHANGED <<files, loaded, running, instances>>
  BY DEF WriteManifest, Leave, Working, Saving, units
<1>2. CASE Unrecorded(r)
  BY <1>1, <1>2, UnrecordedServes
<1>3. CASE Go(r, "readme", {}) /\ UNCHANGED <<tx, suspect>>
  <2>1. /\ TypeOK /\ Keep(r, tx[r])
        /\ Keeping("manifest", todo[r], tx[r], files, loaded, running, Fresh(Inst(r), suspect), instances[Inst(r)])
    BY <1>1, <1>3, Acting, KeptLocals
  <2>2. Keeping("readme", {}, tx[r], files, loaded, running, Fresh(Inst(r), suspect), instances[Inst(r)])
    BY <1>1, <2>1, SavingKeeping
  <2> QED BY <1>1, <1>3, <2>1, <2>2, HandedOn DEF Calm
<1> QED
  BY <1>2, <1>3 DEF WriteManifest

LEMMA WriteReadmeServes ==
    ASSUME SInv, NEW r \in Requests, WriteReadme(r)
    PROVE  Serves(r)
<1>1. Working(r) /\ pc[r] = "readme" /\ UNCHANGED <<files, loaded, running, instances>>
  BY DEF WriteReadme, Leave, Working, units
<1>2. CASE Unrecorded(r)
  BY <1>1, <1>2, UnrecordedServes
<1>3. CASE Reply(r, "succeeded") /\ UNCHANGED suspect
  <2> DEFINE t == [tx[r] EXCEPT !.answer = "succeeded"]
             fresh == Fresh(Inst(r), suspect)
             record == instances[Inst(r)]
  <2>1. /\ TypeOK /\ tx[r] \in Handler /\ Inst(r) \in Instances /\ Inst(r) = tx[r].job.inst
        /\ Op(r) = tx[r].job.op /\ Progress("readme", todo[r], tx[r])
        /\ Keeping("readme", todo[r], tx[r], files, loaded, running, fresh, record)
        /\ Previous(tx[r]) \subseteq Family(Inst(r))
        /\ Op(r) # "install" => tx[r].prev \in Record
    BY <1>1, Acting
  <2>2. /\ t.job = tx[r].job /\ t.prev = tx[r].prev /\ t.answer = "succeeded"
    BY <2>1 DEF Handler
  <2>3. Go(r, "done", {}) /\ Keep(r, t)
    BY <1>3 DEF Reply
  <2> HIDE DEF t
  <2>4. Previous(t) = Previous(tx[r]) /\ New(t) = New(tx[r]) /\ Starts(t) = Starts(tx[r])
    BY <2>2 DEF Previous, New, Starts
  <2>5. record = NewRecord(tx[r])
    BY <1>1 DEF SInv, DInv, Documents, Documenting
  <2>6. /\ record.removed = (tx[r].job.op = "remove")
        /\ tx[r].job.op # "remove" => record.src = tx[r].job.src /\ record # NoRecord
        /\ tx[r].job.op = "remove" => New(tx[r]) = {} /\ tx[r].job.src = NothingOn
    <3>1. CASE Op(r) = "remove"
      <4>1. record = [tx[r].prev EXCEPT !.removed = TRUE]
        BY <2>5, <3>1 DEF NewRecord, Op
      <4>2. record.removed = TRUE
        BY <2>1, <3>1, <4>1 DEF Record
      <4>3. tx[r].job.src = NothingOn
        BY <2>1, <3>1 DEF Keeping, Knows
      <4> QED BY <2>1, <3>1, <4>2, <4>3 DEF New, NamesOf, NothingOn
    <3>2. CASE Op(r) # "remove"
      <4>1. record = [src |-> tx[r].seen, units |-> NamesOf(tx[r].seen) \cap tx[r].listed, removed |-> FALSE]
        BY <2>5, <3>2 DEF NewRecord, Op
      <4>2. tx[r].seen = tx[r].job.src
        BY <2>1, <3>2 DEF Progress, Saving
      <4>3. tx[r].seen \in Sources /\ record \in Record
        BY <2>1, <4>1, NamesOfType DEF Handler, Record
      <4>4. record.removed = FALSE /\ record.src = tx[r].job.src
        BY <4>1, <4>2
      <4>5. record # NoRecord /\ tx[r].job.op # "remove"
        BY <2>1, <3>2, <4>3, NoRecordAssumption
      <4> HIDE DEF record
      <4> QED BY <4>4, <4>5
    <3> QED BY <3>1, <3>2
  <2>7. /\ \A n \in New(tx[r]) : files[n] = tx[r].job.src[n] /\ loaded[n] = tx[r].job.src[n]
        /\ \A n \in Starts(tx[r]) : Up(n, tx[r], fresh, running)
        /\ \A n \in Previous(tx[r]) \ New(tx[r]) :
              files[n] = Absent /\ loaded[n] = Absent /\ running[n] = Absent
        /\ fresh => \A n \in Family(Inst(r)) : running[n] # Absent => n \in Starts(tx[r])
    <3>1. /\ Knows("readme", todo[r], tx[r]) /\ TakesDown("readme", todo[r], tx[r], files, loaded, running)
          /\ BringsUp("readme", todo[r], tx[r], files, loaded, running, fresh)
          /\ fresh => Runs("readme", todo[r], tx[r], running)
      BY <2>1 DEF Keeping
    <3>2. \A n \in New(tx[r]) : files[n] = tx[r].job.src[n] /\ loaded[n] = tx[r].job.src[n]
      BY <3>1 DEF BringsUp, Reloaded, Saving
    <3>3. \A n \in Starts(tx[r]) : Up(n, tx[r], fresh, running)
      BY <3>1 DEF BringsUp, Saving
    <3>4. \A n \in Previous(tx[r]) \ New(tx[r]) :
              files[n] = Absent /\ loaded[n] = Absent /\ running[n] = Absent
      BY <3>1 DEF TakesDown, Out, Reloaded, Saving
    <3>5. fresh => \A n \in Family(Inst(r)) : running[n] # Absent => n \in Starts(tx[r])
      BY <2>1, <3>1 DEF Runs, Knows, Saving
    <3> QED BY <3>2, <3>3, <3>4, <3>5
  <2>8. Delivered(t, files, loaded, running, fresh, record)
    <3>1. \A n \in New(t) : n \in StartNames => Up(n, t, fresh, running)
      BY <2>2, <2>4, <2>7 DEF Starts, Up
    <3>2. Previous(tx[r]) \subseteq Family(tx[r].job.inst)
      <4>1. Previous(tx[r]) \subseteq Family(Inst(r)) /\ Inst(r) = tx[r].job.inst
        BY <2>1
      <4> QED BY <4>1
    <3>3. Previous(t) \subseteq Family(t.job.inst)
      BY <2>2, <2>4, <3>2
    <3> HIDE DEF fresh, record
    <3> QED BY <2>2, <2>4, <2>6, <2>7, <3>1, <3>3 DEF Delivered
  <2>9. Keeping("done", {}, t, files, loaded, running, fresh, record)
    <3>1. Knows("done", {}, t) /\ Fitting("done", {}, t, record)
      BY <2>2, <2>6 DEF Knows, Fitting, Before, Forward, Saving
    <3> QED BY <2>8, <3>1 DEF Keeping, TakesDown, BringsUp, Restores, Runs, Reloaded, Saving
  <2>10. Keeps(r)' /\ Inst(r)' = Inst(r)
    BY <1>1, <1>3, <2>2, <2>3, <2>9, Handed
  <2>11. Inst(r) \notin suspect => Baseline(Inst(r)) /\ RunsBaseline(Inst(r))
    <3>1. CASE tx[r].job.op = "remove"
      BY <2>6, <2>7, <3>1 DEF Baseline, RunsBaseline, Live, Starts, Fresh
    <3>2. CASE tx[r].job.op # "remove"
      <4>1. Live(Inst(r)) /\ record.src = tx[r].job.src
        BY <2>6, <3>2 DEF Live, Managed
      <4>2. Baseline(Inst(r))
        BY <2>7, <4>1 DEF Baseline, New
      <4>3. fresh => \A n \in Starts(tx[r]) : running[n] = tx[r].job.src[n]
        BY <2>7 DEF Up
      <4>4. fresh => \A n \in Family(Inst(r)) : running[n] # Absent => running[n] = record.src[n]
        BY <2>7, <4>1, <4>3
      <4> QED BY <4>1, <4>2, <4>4 DEF RunsBaseline, Fresh
    <3> QED BY <3>1, <3>2
  <2>12. AtRest(Inst(r))'
    BY <1>1, <1>3, <2>10, <2>11 DEF AtRest, Baseline, RunsBaseline, Live, Managed
  <2> QED BY <2>10, <2>12 DEF Serves
<1> QED
  BY <1>2, <1>3 DEF WriteReadme

--------------------------------------------------------------------------------
(* The rollbacks.                                                               *)

LEMMA RollbackErrorIs ==
    ASSUME TypeOK, NEW r \in Requests, NEW err \in BOOLEAN, RollbackError(r, err)
    PROVE  \E t : /\ Keep(r, t) /\ t.job = tx[r].job /\ t.prev = tx[r].prev /\ t.old = tx[r].old
                  /\ t.removed = tx[r].removed /\ t.installed = tx[r].installed
                  /\ t.started = tx[r].started /\ t.rbErr = (tx[r].rbErr \/ err)
<1> DEFINE t == [tx[r] EXCEPT !.rbErr = @ \/ err]
<1>1. /\ t.job = tx[r].job /\ t.prev = tx[r].prev /\ t.old = tx[r].old
      /\ t.removed = tx[r].removed /\ t.installed = tx[r].installed
      /\ t.started = tx[r].started /\ t.rbErr = (tx[r].rbErr \/ err)
  BY DEF TypeOK, RequestType, Handler
<1>2. Keep(r, t)
  BY DEF RollbackError
<1> QED
  BY <1>1, <1>2

LEMMA UndoFacts ==
    ASSUME SInv, NEW r \in Requests, pc[r] \in UndoStages
    PROVE  /\ Working(r) /\ TypeOK /\ Inst(r) \in Instances /\ Op(r) = tx[r].job.op
           /\ tx[r] \in Handler /\ Inst(r) = tx[r].job.inst /\ Alive(r) \in BOOLEAN
           /\ todo[r] \in SUBSET Names /\ Family(Inst(r)) \subseteq Names
           /\ Op(r) \in PlanOps
           /\ New(tx[r]) \subseteq Family(Inst(r)) /\ Previous(tx[r]) \subseteq Family(Inst(r))
           /\ tx[r].job.op = "remove" => tx[r].job.src = NothingOn
           /\ tx[r].job.op = "install" <=> instances[Inst(r)] = NoRecord \/ instances[Inst(r)].removed
           /\ Knows(pc[r], todo[r], tx[r])
           /\ Restores(pc[r], todo[r], tx[r], files, loaded, running)
           /\ Fresh(Inst(r), suspect) => Runs(pc[r], todo[r], tx[r], running)
           /\ tx[r].job.op # "install" => tx[r].prev = instances[Inst(r)]
           /\ tx[r].job.op # "install" => tx[r].prev.units = Previous(tx[r])
<1>1. Working(r) /\ pc[r] \notin {"idle", "done", "lifecycle", "manifest", "readme"}
  BY DEF UndoStages, Working
<1>2. /\ Knows(pc[r], todo[r], tx[r]) /\ Fitting(pc[r], todo[r], tx[r], instances[Inst(r)])
      /\ Restores(pc[r], todo[r], tx[r], files, loaded, running)
      /\ Fresh(Inst(r), suspect) => Runs(pc[r], todo[r], tx[r], running)
  BY <1>1, Acting DEF Keeping
<1>3. tx[r].job.op # "install" => tx[r].prev = instances[Inst(r)]
  BY <1>1, Acting DEF Claim
<1>4. tx[r].job.op # "install" => tx[r].prev.units = Previous(tx[r])
  BY <1>1, <1>3, Acting, NoRecordAssumption DEF SInv, RecordsWhole, Managed, Previous
<1>5. /\ tx[r].job.op = "remove" => tx[r].job.src = NothingOn
      /\ tx[r].job.op = "install" <=> instances[Inst(r)] = NoRecord \/ instances[Inst(r)].removed
  BY <1>1, <1>2 DEF Knows, Fitting
<1> QED
  BY <1>1, <1>2, <1>3, <1>4, <1>5, Acting, FamilyNames

(* What makes a handler's state right in a stage of its rollback.               *)
LEMMA UndoKeeping ==
    ASSUME NEW stage \in UndoStages, NEW left, NEW t,
           NEW onDisk, NEW read, NEW active, NEW fresh, NEW record,
           t.job.op = "remove" => t.job.src = NothingOn,
           t.job.op = "install" <=> record = NoRecord \/ record.removed,
           Knows(stage, left, t), Restores(stage, left, t, onDisk, read, active),
           fresh => Runs(stage, left, t, active)
    PROVE  Keeping(stage, left, t, onDisk, read, active, fresh, record)
<1>1. Fitting(stage, left, t, record)
  BY DEF Fitting, UndoStages
<1>2. TakesDown(stage, left, t, onDisk, read, active) /\ BringsUp(stage, left, t, onDisk, read, active, fresh)
  BY DEF TakesDown, BringsUp, UndoStages, Reloaded, Saving
<1>3. stage # "done"
  BY DEF UndoStages
<1> QED
  BY <1>1, <1>2, <1>3 DEF Keeping

LEMMA UndoneServes ==
    ASSUME SInv, NEW r \in Requests, pc[r] \in UndoStages, UNCHANGED <<instances, suspect>>,
           NEW stage \in UndoStages, NEW left, NEW t, Go(r, stage, left), Keep(r, t),
           t.job = tx[r].job,
           Knows(stage, left, t), Restores(stage, left, t, files', loaded', running'),
           Fresh(Inst(r), suspect) => Runs(stage, left, t, running')
    PROVE  Serves(r)
<1>1. /\ t.job.op = "remove" => t.job.src = NothingOn
      /\ t.job.op = "install" <=> instances[Inst(r)] = NoRecord \/ instances[Inst(r)].removed
      /\ pc[r] # "idle" /\ stage \notin Calm
  BY UndoFacts DEF UndoStages, Calm
<1>2. Keeping(stage, left, t, files', loaded', running', Fresh(Inst(r), suspect), instances[Inst(r)])
  BY <1>1, UndoKeeping
<1> QED
  BY <1>1, <1>2, HandedOn

LEMMA UndoStopServes ==
    ASSUME SInv, NEW r \in Requests, UndoStop(r)
    PROVE  Serves(r)
<1>1. /\ pc[r] = "undoStop" /\ pc[r] \in UndoStages
      /\ UNCHANGED <<files, loaded, instances, suspect>>
  BY DEF UndoStop, VisitBack, Leave, Stop, HostSame, hostVars, StoreSame, storeVars, UndoStages
<1> DEFINE fresh == Fresh(Inst(r), suspect)
<1>2. /\ TypeOK /\ Inst(r) = tx[r].job.inst /\ Alive(r) \in BOOLEAN /\ Family(Inst(r)) \subseteq Names
      /\ tx[r].job.op # "remove" /\ todo[r] \subseteq New(tx[r])
      /\ tx[r].job.op # "install" => tx[r].old = tx[r].prev.src
      /\ fresh /\ ~tx[r].rbErr => \A n \in Family(Inst(r)) : running[n] # Absent => n \in todo[r]
  BY <1>1, UndoFacts DEF Knows, Runs
<1>3. ASSUME NEW n \in todo[r], n \in Names, NEW err \in BOOLEAN, Stop(Alive(r), n, err),
             Advance(r, n), RollbackError(r, err)
      PROVE  Serves(r)
  <2>1. PICK t : /\ Keep(r, t) /\ t.job = tx[r].job /\ t.prev = tx[r].prev /\ t.old = tx[r].old
                 /\ t.rbErr = (tx[r].rbErr \/ err)
    BY <1>2, <1>3, RollbackErrorIs
  <2>2. Go(r, "undoStop", todo[r] \ {n})
    BY <1>1, <1>3 DEF Advance
  <2>3. /\ \A m \in Names \ {n} : running'[m] = running[m]
        /\ ~err => running'[n] = Absent
    BY <1>2, <1>3, UnitStopped
  <2>4. Knows("undoStop", todo[r] \ {n}, t)
    BY <1>2, <2>1 DEF Knows, Before, Forward, Saving, New, Previous
  <2>5. Restores("undoStop", todo[r] \ {n}, t, files', loaded', running')
    BY DEF Restores
  <2>6. fresh => Runs("undoStop", todo[r] \ {n}, t, running')
    BY <1>2, <2>1, <2>3 DEF Runs, Saving
  <2> QED BY <1>1, <2>1, <2>2, <2>4, <2>5, <2>6, UndoneServes
<1>4. ASSUME todo[r] = {}, Go(r, "undoInstall", tx[r].installed), UNCHANGED <<tx, running>>
      PROVE  Serves(r)
  <2>1. Keep(r, tx[r])
    BY <1>2, <1>4, KeptLocals
  <2>2. Knows("undoInstall", tx[r].installed, tx[r])
    BY <1>2 DEF Knows, Before, Forward, Saving
  <2>3. Restores("undoInstall", tx[r].installed, tx[r], files', loaded', running')
    BY DEF Restores
  <2>4. fresh => Runs("undoInstall", tx[r].installed, tx[r], running')
    BY <1>2, <1>4 DEF Runs, Saving
  <2> QED BY <1>1, <1>4, <2>1, <2>2, <2>3, <2>4, UndoneServes DEF UndoStages
<1> QED
  BY <1>3, <1>4 DEF UndoStop, VisitBack, Last, Leave, HostSame, hostVars

LEMMA UndoInstallServes ==
    ASSUME SInv, NEW r \in Requests, UndoInstall(r)
    PROVE  Serves(r)
<1>1. /\ pc[r] = "undoInstall" /\ pc[r] \in UndoStages
      /\ UNCHANGED <<loaded, instances, suspect>>
  BY DEF UndoInstall, VisitBack, Leave, RemoveQuadlet, HostSame, hostVars, StoreSame, storeVars, UndoStages
<1> DEFINE fresh == Fresh(Inst(r), suspect)
<1>2. /\ TypeOK /\ Inst(r) = tx[r].job.inst /\ Alive(r) \in BOOLEAN /\ Family(Inst(r)) \subseteq Names
      /\ tx[r].job.op # "remove" /\ Op(r) = tx[r].job.op
      /\ tx[r].job.op # "install" => tx[r].old = tx[r].prev.src
      /\ fresh /\ ~tx[r].rbErr => \A n \in Family(Inst(r)) : running[n] # Absent => n \in todo[r]
  BY <1>1, UndoFacts DEF Knows, Runs
<1>3. ASSUME NEW n \in todo[r], n \in Names, NEW err \in BOOLEAN, NEW force \in BOOLEAN,
             RemoveQuadlet(Alive(r), n, force, err), Advance(r, n), RollbackError(r, err)
      PROVE  Serves(r)
  <2>1. PICK t : /\ Keep(r, t) /\ t.job = tx[r].job /\ t.prev = tx[r].prev /\ t.old = tx[r].old
                 /\ t.rbErr = (tx[r].rbErr \/ err)
    BY <1>2, <1>3, RollbackErrorIs
  <2>2. Go(r, "undoInstall", todo[r] \ {n})
    BY <1>1, <1>3 DEF Advance
  <2>3. /\ \A m \in Names \ {n} : running'[m] = running[m]
        /\ ~err => running'[n] = Absent
    BY <1>2, <1>3, QuadletRemoved
  <2>4. Knows("undoInstall", todo[r] \ {n}, t)
    BY <1>2, <2>1 DEF Knows, Before, Forward, Saving
  <2>5. Restores("undoInstall", todo[r] \ {n}, t, files', loaded', running')
    BY DEF Restores
  <2>6. fresh => Runs("undoInstall", todo[r] \ {n}, t, running')
    BY <1>2, <2>1, <2>3 DEF Runs, Saving
  <2> QED BY <1>1, <2>1, <2>2, <2>4, <2>5, <2>6, UndoneServes
<1>4. ASSUME todo[r] = {}, UNCHANGED <<tx, files, running>>,
             IF Op(r) = "install" THEN Go(r, "undoReload", {})
                                  ELSE Go(r, "reinstall", NamesOf(tx[r].old))
      PROVE  Serves(r)
  <2>1. Keep(r, tx[r])
    BY <1>2, <1>4, KeptLocals
  <2>2. CASE Op(r) = "install" /\ Go(r, "undoReload", {})
    <3>1. Knows("undoReload", {}, tx[r])
      BY <1>2, <2>2 DEF Knows, Before, Forward, Saving
    <3>2. Restores("undoReload", {}, tx[r], files', loaded', running')
      BY <1>2, <2>2 DEF Restores, Previous
    <3>3. fresh => Runs("undoReload", {}, tx[r], running')
      BY <1>2, <1>4 DEF Runs, Saving
    <3> QED BY <1>1, <2>1, <2>2, <3>1, <3>2, <3>3, UndoneServes DEF UndoStages
  <2>3. CASE Op(r) # "install" /\ Go(r, "reinstall", NamesOf(tx[r].old))
    <3> DEFINE left == NamesOf(tx[r].old)
    <3>1. left = Previous(tx[r])
      BY <1>2, <2>3 DEF Previous
    <3> HIDE DEF left
    <3>2. Knows("reinstall", left, tx[r])
      BY <1>2, <2>3, <3>1 DEF Knows, Before, Forward, Saving
    <3>3. Restores("reinstall", left, tx[r], files', loaded', running')
      BY <1>2, <2>3, <3>1 DEF Restores
    <3>4. fresh => Runs("reinstall", left, tx[r], running')
      BY <1>2, <1>4 DEF Runs, Saving
    <3> QED BY <1>1, <2>1, <2>3, <3>2, <3>3, <3>4, UndoneServes DEF UndoStages, left
  <2> QED BY <1>4, <2>2, <2>3
<1> QED
  BY <1>3, <1>4 DEF UndoInstall, VisitBack, Last, Leave, HostSame, hostVars

LEMMA ReinstallServes ==
    ASSUME SInv, NEW r \in Requests, Reinstall(r)
    PROVE  Serves(r)
<1>1. /\ pc[r] = "reinstall" /\ pc[r] \in UndoStages
      /\ UNCHANGED <<loaded, running, instances, suspect>>
  BY DEF Reinstall, Visit, Leave, InstallQuadlet, units, HostSame, hostVars, StoreSame, storeVars, UndoStages
<1> DEFINE fresh == Fresh(Inst(r), suspect)
           was == Previous(tx[r])
<1>2. /\ TypeOK /\ Inst(r) = tx[r].job.inst /\ Alive(r) \in BOOLEAN /\ Family(Inst(r)) \subseteq Names
      /\ todo[r] \subseteq was /\ was \subseteq Names
      /\ tx[r].job.op # "install" => tx[r].old = tx[r].prev.src
      /\ tx[r].job.op = "remove" => tx[r].job.src = NothingOn /\ Out(was, running)
      /\ ~tx[r].rbErr => \A n \in was \ todo[r] : files[n] \in {tx[r].prev.src[n], Absent}
      /\ fresh /\ ~tx[r].rbErr => \A n \in Family(Inst(r)) : running[n] = Absent
  <2>1. was \subseteq Names
    BY DEF Previous, NamesOf
  <2>2. /\ Knows("reinstall", todo[r], tx[r])
        /\ Restores("reinstall", todo[r], tx[r], files, loaded, running)
        /\ fresh => Runs("reinstall", todo[r], tx[r], running)
        /\ Inst(r) = tx[r].job.inst
    BY <1>1, UndoFacts
  <2>3. todo[r] \subseteq was /\ (tx[r].job.op # "install" => tx[r].old = tx[r].prev.src)
    BY <2>2 DEF Knows
  <2>4. /\ tx[r].job.op = "remove" => Out(was, running)
        /\ ~tx[r].rbErr => \A n \in was \ todo[r] : files[n] \in {tx[r].prev.src[n], Absent}
    BY <2>2 DEF Restores
  <2>5. fresh /\ ~tx[r].rbErr => \A n \in Family(Inst(r)) : running[n] = Absent
    BY <2>2 DEF Runs
  <2> HIDE DEF was
  <2> QED BY <1>1, <2>1, <2>3, <2>4, <2>5, UndoFacts
<1>3. ASSUME NEW n \in todo[r], n \in Names, NEW err \in BOOLEAN,
             InstallQuadlet(Alive(r), n, tx[r].old[n], err), Advance(r, n), RollbackError(r, err)
      PROVE  Serves(r)
  <2> DEFINE left == todo[r] \ {n}
  <2>1. PICK t : /\ Keep(r, t) /\ t.job = tx[r].job /\ t.prev = tx[r].prev /\ t.old = tx[r].old
                 /\ t.rbErr = (tx[r].rbErr \/ err)
    BY <1>2, <1>3, RollbackErrorIs
  <2>2. Go(r, "reinstall", left) /\ Previous(t) = was
    BY <1>1, <1>3, <2>1 DEF Advance, Previous
  <2>3. /\ \A m \in Names \ {n} : files'[m] = files[m]
        /\ ~err => files'[n] = tx[r].prev.src[n]
    BY <1>1, <1>2, <1>3, OldIs, QuadletInstalled
  <2> HIDE DEF was
  <2>4. Knows("reinstall", left, t)
    BY <1>2, <2>1, <2>2 DEF Knows, Before, Forward, Saving
  <2>5. Restores("reinstall", left, t, files', loaded', running')
    BY <1>1, <1>2, <2>1, <2>2, <2>3 DEF Restores
  <2>6. fresh => Runs("reinstall", left, t, running')
    BY <1>1, <1>2, <2>1 DEF Runs, Saving
  <2> QED BY <1>1, <2>1, <2>2, <2>4, <2>5, <2>6, UndoneServes
<1>4. ASSUME todo[r] = {}, Go(r, "undoReload", {}), UNCHANGED <<tx, files>>
      PROVE  Serves(r)
  <2>1. Keep(r, tx[r])
    BY <1>2, <1>4, KeptLocals
  <2>2. Knows("undoReload", {}, tx[r])
    BY <1>2 DEF Knows, Before, Forward, Saving
  <2>3. Restores("undoReload", {}, tx[r], files', loaded', running')
    BY <1>1, <1>2, <1>4 DEF Restores
  <2>4. fresh => Runs("undoReload", {}, tx[r], running')
    BY <1>1, <1>2 DEF Runs, Saving
  <2> QED BY <1>1, <1>4, <2>1, <2>2, <2>3, <2>4, UndoneServes DEF UndoStages
<1> QED
  BY <1>3, <1>4 DEF Reinstall, Visit, First, Leave, HostSame, hostVars

(* The end of a rollback that met no error, and of one that did.                *)
LEMMA EndRollbackServes ==
    ASSUME SInv, NEW r \in Requests, pc[r] \in UndoStages, NEW failed \in BOOLEAN,
           EndRollback(r, failed), UNCHANGED <<files, running, instances>>,
           ~tx[r].rbErr /\ ~failed =>
               /\ \A n \in Previous(tx[r]) :
                     files[n] = tx[r].prev.src[n] /\ loaded'[n] = tx[r].prev.src[n]
                     /\ running[n] = tx[r].prev.src[n]
               /\ Fresh(Inst(r), suspect) =>
                     \A n \in Family(Inst(r)) : running[n] # Absent => n \in Previous(tx[r])
    PROVE  Serves(r)
<1>1. pc[r] # "idle"
  BY DEF UndoStages
<1> DEFINE fresh == Fresh(Inst(r), suspect)
           record == instances[Inst(r)]
<1>2. /\ tx[r] \in Handler /\ Inst(r) \in Instances /\ Inst(r) = tx[r].job.inst
      /\ Previous(tx[r]) \subseteq Family(Inst(r))
      /\ tx[r].job.op = "remove" => tx[r].job.src = NothingOn
      /\ tx[r].job.op = "install" <=> record = NoRecord \/ record.removed
      /\ tx[r].job.op # "install" => tx[r].prev = record
  BY UndoFacts
<1>3. CASE tx[r].rbErr \/ failed
  <2>1. Reply(r, "rollbackFailed") /\ suspect' = suspect \cup {Inst(r)}
    BY <1>3 DEF EndRollback
  <2>2. Keeps(r)' /\ Inst(r)' = Inst(r)
    BY <1>1, <2>1, FailedKeeps DEF Answers
  <2>3. AtRest(Inst(r))'
    BY <2>1, <2>2 DEF AtRest, Fresh
  <2> QED BY <2>2, <2>3 DEF Serves
<1>4. CASE ~(tx[r].rbErr \/ failed)
  <2> DEFINE t == [tx[r] EXCEPT !.answer = "rolledBack"]
  <2>1. t.job = tx[r].job /\ t.prev = tx[r].prev /\ t.answer = "rolledBack"
    BY <1>2 DEF Handler
  <2>2. Go(r, "done", {}) /\ Keep(r, t) /\ UNCHANGED suspect
    BY <1>4 DEF EndRollback, Reply
  <2> HIDE DEF t
  <2>3. Previous(t) = Previous(tx[r])
    BY <2>1 DEF Previous
  <2>4. Delivered(t, files, loaded', running, fresh, record)
    BY <1>2, <1>4, <2>1, <2>3 DEF Delivered
  <2>5. Keeping("done", {}, t, files, loaded', running, fresh, record)
    <3>1. Knows("done", {}, t) /\ Fitting("done", {}, t, record)
      BY <1>2, <2>1 DEF Knows, Fitting, Before, Forward, Saving
    <3> QED BY <2>4, <3>1 DEF Keeping, TakesDown, BringsUp, Restores, Runs, Reloaded, Saving
  <2>6. Keeps(r)' /\ Inst(r)' = Inst(r)
    BY <1>1, <2>1, <2>2, <2>5, Handed
  <2>7. Live(Inst(r)) => tx[r].job.op # "install" /\ Previous(tx[r]) = NamesOf(record.src)
    BY <1>2 DEF Live, Managed, Previous
  <2>8. /\ Live(Inst(r)) => \A n \in NamesOf(record.src) :
                files[n] = record.src[n] /\ loaded'[n] = record.src[n]
        /\ fresh => \A n \in Family(Inst(r)) : running[n] # Absent =>
                Live(Inst(r)) /\ running[n] = record.src[n]
    <3>1. CASE Live(Inst(r))
      <4>1. tx[r].prev = record
        BY <1>2, <2>7, <3>1
      <4> HIDE DEF fresh, record
      <4> QED BY <1>4, <2>7, <3>1, <4>1 DEF fresh
    <3>2. CASE ~Live(Inst(r))
      <4>1. Previous(tx[r]) = {}
        BY <1>2, <3>2 DEF Live, Managed, Previous
      <4> QED BY <1>4, <3>2, <4>1
    <3> QED BY <3>1, <3>2
  <2>9. AtRest(Inst(r))'
    BY <2>2, <2>6, <2>8 DEF AtRest, Fresh, Baseline, RunsBaseline, Live, Managed
  <2> QED BY <2>6, <2>9 DEF Serves
<1> QED
  BY <1>3, <1>4

LEMMA UndoReloadServes ==
    ASSUME SInv, NEW r \in Requests, UndoReload(r)
    PROVE  Serves(r)
<1>1. /\ pc[r] = "undoReload" /\ pc[r] \in UndoStages
      /\ UNCHANGED <<files, running, instances>>
  BY DEF UndoReload, Leave, Reload, storeVars, UndoStages
<1> DEFINE fresh == Fresh(Inst(r), suspect)
           was == Previous(tx[r])
<1>2. /\ TypeOK /\ Inst(r) = tx[r].job.inst /\ Op(r) = tx[r].job.op /\ Alive(r) \in BOOLEAN
      /\ was \subseteq Names
      /\ tx[r].job.op # "install" => tx[r].prev.units = was
      /\ tx[r].job.op = "remove" => tx[r].job.src = NothingOn /\ Out(was, running)
      /\ ~tx[r].rbErr => \A n \in was : files[n] \in {tx[r].prev.src[n], Absent}
      /\ fresh /\ ~tx[r].rbErr => \A n \in Family(Inst(r)) : running[n] = Absent
  <2>1. was \subseteq Names
    BY DEF Previous, NamesOf
  <2> HIDE DEF was
  <2> QED BY <1>1, <2>1, UndoFacts DEF Runs, Restores, was
<1>3. PICK err \in BOOLEAN :
         /\ Reload(Alive(r), err)
         /\ IF Op(r) = "install" THEN EndRollback(r, err)
            ELSE /\ Go(r, "undoStart", tx[r].prev.units)
                 /\ RollbackError(r, err) /\ UNCHANGED suspect
  BY DEF UndoReload
<1>4. CASE Op(r) = "install"
  <2>1. was = {}
    BY <1>2, <1>4 DEF Previous
  <2> QED BY <1>1, <1>2, <1>3, <1>4, <2>1, EndRollbackServes
<1>5. CASE Op(r) # "install"
  <2>1. PICK t : /\ Keep(r, t) /\ t.job = tx[r].job /\ t.prev = tx[r].prev /\ t.old = tx[r].old
                 /\ t.rbErr = (tx[r].rbErr \/ err)
    BY <1>2, <1>3, <1>5, RollbackErrorIs
  <2>2. Go(r, "undoStart", was) /\ UNCHANGED suspect /\ Previous(t) = was
    <3>1. Previous(t) = was
      BY <2>1 DEF Previous
    <3>2. tx[r].prev.units = was
      BY <1>2, <1>5
    <3> HIDE DEF was
    <3> QED BY <1>3, <1>5, <3>1, <3>2
  <2>3. ~err => loaded' = files
    BY <1>2, <1>3, UnitsReloaded
  <2> HIDE DEF was
  <2>4. Knows("undoStart", was, t)
    BY <1>2, <2>1, <2>2 DEF Knows, Before, Forward, Saving
  <2>5. Restores("undoStart", was, t, files', loaded', running')
    BY <1>1, <1>2, <2>1, <2>2, <2>3 DEF Restores
  <2>6. fresh => Runs("undoStart", was, t, running')
    BY <1>1, <1>2, <2>1 DEF Runs, Saving
  <2> QED BY <1>1, <2>1, <2>2, <2>4, <2>5, <2>6, UndoneServes DEF UndoStages
<1> QED
  BY <1>4, <1>5

LEMMA LaterThanFirst ==
    ASSUME NEW S \in SUBSET Names, NEW n \in Names, First(n, S)
    PROVE  n \in S /\ Later(S) = S \ {n}
<1>1. \A m \in S : m \in Nat /\ n <= m
  BY HostAssumption DEF First
<1>2. n \in Nat /\ n \in S
  BY HostAssumption DEF First
<1>3. \A m \in S : (\E k \in S : k < m) <=> m # n
  BY <1>1, <1>2
<1> QED
  BY <1>2, <1>3 DEF Later

LEMMA UndoStartServes ==
    ASSUME SInv, NEW r \in Requests, UndoStart(r)
    PROVE  Serves(r)
<1>1. /\ pc[r] = "undoStart" /\ pc[r] \in UndoStages
      /\ UNCHANGED <<files, loaded, instances>>
  BY DEF UndoStart, Visit, Leave, Start, Restart, HostSame, hostVars, storeVars, UndoStages
<1> DEFINE fresh == Fresh(Inst(r), suspect)
           was == Previous(tx[r])
<1>2. /\ TypeOK /\ Inst(r) = tx[r].job.inst /\ Op(r) = tx[r].job.op /\ Alive(r) \in BOOLEAN
      /\ was \subseteq Names /\ todo[r] \subseteq was /\ todo[r] \in SUBSET Names
      /\ Family(Inst(r)) \subseteq Names
      /\ tx[r].job.op = "remove" => tx[r].job.src = NothingOn /\ Out(todo[r], running)
      /\ ~tx[r].rbErr =>
            /\ \A n \in was : files[n] \in {tx[r].prev.src[n], Absent} /\ loaded[n] = files[n]
            /\ \A n \in was \ todo[r] : files[n] = tx[r].prev.src[n] /\ running[n] = tx[r].prev.src[n]
      /\ fresh /\ ~tx[r].rbErr => \A n \in Family(Inst(r)) : running[n] # Absent => n \in was
  <2>1. was \subseteq Names
    BY DEF Previous, NamesOf
  <2>2. /\ Knows("undoStart", todo[r], tx[r])
        /\ Restores("undoStart", todo[r], tx[r], files, loaded, running)
        /\ fresh => Runs("undoStart", todo[r], tx[r], running)
        /\ Inst(r) = tx[r].job.inst
    BY <1>1, UndoFacts
  <2>3. todo[r] \subseteq was
    BY <2>2 DEF Knows
  <2>4. /\ tx[r].job.op = "remove" => Out(todo[r], running)
        /\ ~tx[r].rbErr =>
            /\ \A n \in was : files[n] \in {tx[r].prev.src[n], Absent} /\ loaded[n] = files[n]
            /\ \A n \in was \ todo[r] : files[n] = tx[r].prev.src[n] /\ running[n] = tx[r].prev.src[n]
    BY <2>2 DEF Restores
  <2>5. fresh /\ ~tx[r].rbErr => \A n \in Family(Inst(r)) : running[n] # Absent => n \in was
    BY <2>2 DEF Runs
  <2> HIDE DEF was
  <2> QED BY <1>1, <2>1, <2>3, <2>4, <2>5, UndoFacts
<1>3. ASSUME NEW n \in Names, NEW err \in BOOLEAN, First(n, todo[r]),
             IF Op(r) = "remove" THEN Start(Alive(r), n, err) ELSE Restart(Alive(r), n, err),
             RollbackError(r, err), UNCHANGED suspect,
             IF err THEN Advance(r, n) ELSE Go(r, "undoVerify", todo[r])
      PROVE  Serves(r)
  <2>1. PICK t : /\ Keep(r, t) /\ t.job = tx[r].job /\ t.prev = tx[r].prev /\ t.old = tx[r].old
                 /\ t.rbErr = (tx[r].rbErr \/ err)
    BY <1>2, <1>3, RollbackErrorIs
  <2>2. n \in todo[r] /\ n \in was /\ Later(todo[r]) = todo[r] \ {n} /\ Previous(t) = was
    BY <1>2, <1>3, <2>1, LaterThanFirst DEF Previous
  <2>3. \A m \in Names \ {n} : running'[m] = running[m]
    BY <1>2, <1>3, UnitStarted, UnitRestarted
  <2>4. ~err => loaded[n] # Absent /\ running'[n] \in {loaded[n], Absent}
    <3>1. CASE Op(r) = "remove"
      <4>1. running[n] = Absent
        BY <1>2, <2>2, <3>1 DEF Out
      <4> QED BY <1>2, <1>3, <3>1, <4>1, UnitStarted
    <3>2. CASE Op(r) # "remove"
      BY <1>2, <1>3, <3>2, UnitRestarted
    <3> QED BY <3>1, <3>2
  <2> HIDE DEF was
  <2>5. tx[r].job.op = "remove" => Out(todo[r] \ {n}, running')
    BY <1>2, <2>3 DEF Out
  <2>6. CASE err /\ Go(r, "undoStart", todo[r] \ {n})
    <3>1. Knows("undoStart", todo[r] \ {n}, t)
      BY <1>2, <2>1, <2>2 DEF Knows, Before, Forward, Saving
    <3>2. Restores("undoStart", todo[r] \ {n}, t, files', loaded', running')
      BY <2>1, <2>5, <2>6 DEF Restores
    <3>3. fresh => Runs("undoStart", todo[r] \ {n}, t, running')
      BY <2>1, <2>6 DEF Runs, Saving
    <3> QED BY <1>1, <1>3, <2>1, <2>6, <3>1, <3>2, <3>3, UndoneServes
  <2>7. CASE ~err /\ Go(r, "undoVerify", todo[r])
    <3>1. Knows("undoVerify", todo[r], t)
      BY <1>2, <2>1, <2>2 DEF Knows, Before, Forward, Saving
    <3>2. ~t.rbErr => \A m \in was \ Later(todo[r]) :
                         /\ files'[m] = t.prev.src[m]
                         /\ running'[m] = t.prev.src[m] \/ (m \in todo[r] /\ running'[m] = Absent)
      <4> SUFFICES ASSUME ~t.rbErr, NEW m \in was \ Later(todo[r])
                   PROVE  /\ files'[m] = t.prev.src[m]
                          /\ running'[m] = t.prev.src[m] \/ (m \in todo[r] /\ running'[m] = Absent)
        OBVIOUS
      <4>1. CASE m = n
        BY <1>1, <1>2, <2>1, <2>2, <2>4, <2>7, <4>1
      <4>2. CASE m # n
        BY <1>1, <1>2, <2>1, <2>2, <2>3, <4>2
      <4> QED BY <4>1, <4>2
    <3>3. Restores("undoVerify", todo[r], t, files', loaded', running')
      BY <1>1, <1>2, <2>1, <2>2, <2>5, <3>2 DEF Restores
    <3>4. fresh => Runs("undoVerify", todo[r], t, running')
      BY <1>2, <2>1, <2>2, <2>3 DEF Runs, Saving
    <3> QED BY <1>1, <1>3, <2>1, <2>7, <3>1, <3>3, <3>4, UndoneServes DEF UndoStages
  <2> QED BY <1>1, <1>3, <2>6, <2>7 DEF Advance
<1>4. ASSUME todo[r] = {}, EndRollback(r, FALSE), UNCHANGED running
      PROVE  Serves(r)
  BY <1>1, <1>2, <1>4, EndRollbackServes
<1> QED
  BY <1>3, <1>4 DEF UndoStart, Visit, Leave, HostSame, hostVars

LEMMA UndoVerifyServes ==
    ASSUME SInv, NEW r \in Requests, UndoVerify(r)
    PROVE  Serves(r)
<1>1. /\ pc[r] = "undoVerify" /\ pc[r] \in UndoStages
      /\ UNCHANGED <<files, loaded, running, instances, suspect>>
  BY DEF UndoVerify, Visit, Verify, units, StoreSame, storeVars, UndoStages
<1> DEFINE fresh == Fresh(Inst(r), suspect)
           was == Previous(tx[r])
<1>2. /\ TypeOK /\ Inst(r) = tx[r].job.inst /\ Alive(r) \in BOOLEAN
      /\ todo[r] \subseteq was /\ todo[r] \in SUBSET Names
      /\ tx[r].job.op = "remove" => tx[r].job.src = NothingOn /\ Out(Later(todo[r]), running)
      /\ ~tx[r].rbErr =>
            /\ \A n \in was : files[n] \in {tx[r].prev.src[n], Absent} /\ loaded[n] = files[n]
            /\ \A n \in was \ Later(todo[r]) :
                  /\ files[n] = tx[r].prev.src[n]
                  /\ running[n] = tx[r].prev.src[n] \/ (n \in todo[r] /\ running[n] = Absent)
      /\ fresh /\ ~tx[r].rbErr => \A n \in Family(Inst(r)) : running[n] # Absent => n \in was
  <2>2. /\ Knows("undoVerify", todo[r], tx[r])
        /\ Restores("undoVerify", todo[r], tx[r], files, loaded, running)
        /\ fresh => Runs("undoVerify", todo[r], tx[r], running)
        /\ Inst(r) = tx[r].job.inst
    BY <1>1, UndoFacts
  <2>3. todo[r] \subseteq was
    BY <2>2 DEF Knows
  <2>4. /\ tx[r].job.op = "remove" => Out(Later(todo[r]), running)
        /\ ~tx[r].rbErr =>
            /\ \A n \in was : files[n] \in {tx[r].prev.src[n], Absent} /\ loaded[n] = files[n]
            /\ \A n \in was \ Later(todo[r]) :
                  /\ files[n] = tx[r].prev.src[n]
                  /\ running[n] = tx[r].prev.src[n] \/ (n \in todo[r] /\ running[n] = Absent)
    BY <2>2 DEF Restores
  <2>5. fresh /\ ~tx[r].rbErr => \A n \in Family(Inst(r)) : running[n] # Absent => n \in was
    BY <2>2 DEF Runs
  <2> HIDE DEF was
  <2> QED BY <1>1, <2>3, <2>4, <2>5, UndoFacts
<1>3. PICK n \in Names, err \in BOOLEAN :
         /\ First(n, todo[r]) /\ Verify(Alive(r), n, err)
         /\ RollbackError(r, err) /\ Go(r, "undoStart", todo[r] \ {n})
  BY DEF UndoVerify, Visit
<1>4. ~err => running[n] # Absent
  BY <1>3 DEF Verify, Answer
<1>5. PICK t : /\ Keep(r, t) /\ t.job = tx[r].job /\ t.prev = tx[r].prev /\ t.old = tx[r].old
               /\ t.rbErr = (tx[r].rbErr \/ err)
  BY <1>2, <1>3, RollbackErrorIs
<1>6. n \in todo[r] /\ Later(todo[r]) = todo[r] \ {n} /\ Previous(t) = was
  BY <1>2, <1>3, <1>5, LaterThanFirst DEF Previous
<1> HIDE DEF was
<1>7. Knows("undoStart", todo[r] \ {n}, t)
  BY <1>2, <1>5, <1>6 DEF Knows, Before, Forward, Saving
<1>8. ~t.rbErr => \A m \in was \ (todo[r] \ {n}) :
                     files'[m] = t.prev.src[m] /\ running'[m] = t.prev.src[m]
  <2> SUFFICES ASSUME ~t.rbErr, NEW m \in was \ (todo[r] \ {n})
               PROVE  files'[m] = t.prev.src[m] /\ running'[m] = t.prev.src[m]
    OBVIOUS
  <2>1. CASE m = n
    BY <1>1, <1>2, <1>4, <1>5, <1>6, <2>1
  <2>2. CASE m # n
    BY <1>1, <1>2, <1>5, <1>6, <2>2
  <2> QED BY <2>1, <2>2
<1>9. Restores("undoStart", todo[r] \ {n}, t, files', loaded', running')
  BY <1>1, <1>2, <1>5, <1>6, <1>8 DEF Restores
<1>10. fresh => Runs("undoStart", todo[r] \ {n}, t, running')
  BY <1>1, <1>2, <1>5, <1>6 DEF Runs, Saving
<1> QED
  BY <1>1, <1>3, <1>5, <1>7, <1>9, <1>10, UndoneServes DEF UndoStages

(* A lifecycle request starts nothing but what the record says.                 *)
LEMMA LifecycleStepServes ==
    ASSUME SInv, Orderly, NEW r \in Requests, LifecycleStep(r)
    PROVE  Serves(r)
<1>1. /\ pc[r] = "lifecycle" /\ pc[r] \in Calm \ {"idle"}
      /\ UNCHANGED <<files, loaded, instances, suspect>>
  BY DEF LifecycleStep, Visit, Leave, Start, Stop, Restart, HostSame, hostVars, StoreSame, storeVars, Calm
<1> DEFINE i == Inst(r)
           record == instances[i]
<1>2. /\ TypeOK /\ tx[r] \in Handler /\ tx[r].job.op \in LifecycleOps /\ Alive(r) \in BOOLEAN
      /\ Inst(r) \in Instances /\ Inst(r) = tx[r].job.inst
      /\ Live(i) /\ todo[r] \subseteq NamesOf(record.src)
  <2>1. Fitting("lifecycle", todo[r], tx[r], record)
    BY <1>1, KeepsOf DEF Keeps, Keeping
  <2>2. Live(i) /\ todo[r] \subseteq NamesOf(record.src)
    BY <2>1 DEF Fitting, Live, Managed
  <2>3. tx[r].job.op \in LifecycleOps /\ Inst(r) \in Instances /\ Inst(r) = tx[r].job.inst
    BY <1>1, KeepsOf DEF TypeOK, HandlersFit, Fits, Inst, Job
  <2> QED BY <2>2, <2>3, KeepsOf DEF Handler, Alive
<1>3. ASSUME NEW stage, NEW left, NEW t, Go(r, stage, left), Keep(r, t), t.job = tx[r].job,
             Keeping(stage, left, t, files', loaded', running', Fresh(i, suspect'), instances'[i]),
             \A n \in Family(i) : running'[n] \in {running[n], Absent} \/
                                  (n \in todo[r] /\ running'[n] = loaded[n])
      PROVE  Serves(r)
  <2>1. Inst(r)' = i
    BY <1>1, <1>3, Handed
  <2>2. i \notin suspect => RunsBaseline(i)'
    <3>1. SUFFICES ASSUME i \notin suspect PROVE RunsBaseline(i)'
      OBVIOUS
    <3>2. Baseline(i) /\ RunsBaseline(i)
      BY <1>1, <1>2, <3>1, RestNow
    <3>3. Live(i)' /\ instances'[i] = record
      BY <1>1, <1>2, <2>1 DEF Live, Managed
    <3>4. ASSUME Private(i), NEW n \in Family(i), running'[n] # Absent PROVE running'[n] = record.src[n]
      <4>1. CASE running'[n] = running[n]
        BY <3>2, <3>4, <4>1 DEF RunsBaseline
      <4>2. CASE n \in todo[r] /\ running'[n] = loaded[n]
        BY <1>2, <3>2, <4>2 DEF Baseline
      <4> QED BY <1>3, <3>4, <4>1, <4>2
    <3> QED BY <2>1, <3>3, <3>4 DEF RunsBaseline, Live, Managed
  <2> QED BY <1>1, <1>2, <1>3, <2>1, <2>2, HandedCalmly
<1>4. ASSUME NEW x, Reply(r, x),
             \A n \in Family(i) : running'[n] \in {running[n], Absent} \/
                                  (n \in todo[r] /\ running'[n] = loaded[n])
      PROVE  Serves(r)
  <2> DEFINE t == [tx[r] EXCEPT !.answer = x]
  <2>1. t.job = tx[r].job
    BY <1>2 DEF Handler
  <2>2. Go(r, "done", {}) /\ Keep(r, t)
    BY <1>4 DEF Reply
  <2> HIDE DEF t
  <2>3. t.job.op \notin PlanOps
    BY <1>2, <2>1 DEF LifecycleOps, PlanOps
  <2>4. Keeping("done", {}, t, files', loaded', running', Fresh(i, suspect'), instances'[i])
    <3>1. Knows("done", {}, t) /\ Fitting("done", {}, t, instances'[i])
      BY <2>3 DEF PlanOps, Knows, Fitting, Before, Forward, Saving
    <3>2. Delivered(t, files', loaded', running', Fresh(i, suspect'), instances'[i])
      BY <2>3 DEF Delivered, PlanOps
    <3> QED BY <3>1, <3>2 DEF Keeping, TakesDown, BringsUp, Restores, Runs, Reloaded, Saving
  <2> QED BY <1>3, <1>4, <2>1, <2>2, <2>4
<1>5. ASSUME NEW n \in todo[r], NEW err \in BOOLEAN, n \in Names,
             Start(Alive(r), n, err) \/ Stop(Alive(r), n, err) \/ Restart(Alive(r), n, err),
             IF err THEN Reply(r, "failed") ELSE Advance(r, n) /\ UNCHANGED tx
      PROVE  Serves(r)
  <2>1. /\ \A m \in Names \ {n} : running'[m] = running[m]
        /\ running'[n] \in {running[n], loaded[n], Absent}
    BY <1>2, <1>5, UnitStarted, UnitRestarted, UnitStopped
  <2>2. \A m \in Family(i) : running'[m] \in {running[m], Absent} \/
                             (m \in todo[r] /\ running'[m] = loaded[m])
    BY <1>2, <2>1, FamilyNames
  <2>3. CASE Advance(r, n) /\ UNCHANGED tx
    <3>1. Keep(r, tx[r]) /\ Go(r, "lifecycle", todo[r] \ {n})
      BY <1>1, <1>2, <2>3, KeptLocals DEF Advance
    <3>2. Keeping("lifecycle", todo[r], tx[r], files, loaded, running, Fresh(i, suspect), record)
      BY <1>1, KeepsOf DEF Keeps, Fresh
    <3>3. Keeping("lifecycle", todo[r] \ {n}, tx[r], files', loaded', running', Fresh(i, suspect'), instances'[i])
      <4>1. Knows("lifecycle", todo[r] \ {n}, tx[r])
        BY <3>2 DEF Keeping, Knows, Before, Forward, Saving
      <4>2. Fitting("lifecycle", todo[r] \ {n}, tx[r], instances'[i])
        BY <1>1, <3>2 DEF Keeping, Fitting
      <4> QED BY <4>1, <4>2 DEF Keeping, TakesDown, BringsUp, Restores, Runs, Reloaded, Saving
    <3> QED BY <1>3, <2>2, <3>1, <3>3
  <2>4. CASE Reply(r, "failed")
    BY <1>4, <2>2, <2>4
  <2> QED BY <1>5, <2>3, <2>4
<1>6. CASE Reply(r, "succeeded") /\ UNCHANGED running
  BY <1>4, <1>6
<1> QED
  BY <1>5, <1>6 DEF LifecycleStep, Visit, First, HostSame, hostVars

LEMMA StepServes ==
    ASSUME SInv, Orderly, NEW r \in Requests, Step(r)
    PROVE  Serves(r)
BY CheckDriftServes, LoadServes, SnapshotServes, StopUnitServes, RemoveOldServes, InstallNewServes,
   ReloadUnitsServes, FindUnitsServes, StartUnitServes, VerifyUnitServes, RelistServes, CaptureServes,
   SaveInstanceServes, WriteManifestServes, WriteReadmeServes, UndoStopServes, UndoInstallServes,
   ReinstallServes, UndoReloadServes, UndoStartServes, UndoVerifyServes, LifecycleStepServes
   DEF Step

--------------------------------------------------------------------------------
(* The steps together.                                                          *)

LEMMA OrderlyIsOnePer == Orderly => OnePerInstance
BY DEF Orderly, OnePerInstance, Transacting, Active

Standing ==
    /\ RecordsWhole /\ PlainPlans
    /\ Placed(files) /\ Placed(loaded) /\ Placed(running)
    /\ Served /\ \A i \in Instances : AtRest(i)

LEMMA StepStands ==
    ASSUME SInv, Orderly, NEW r \in Requests, Step(r)
    PROVE  Standing'
<1>1. /\ Keeps(r)' /\ AtRest(Inst(r))' /\ Inst(r)' = Inst(r)
      /\ Within(Inst(r)) /\ pc[r] # "idle" /\ Inst(r) \in Instances /\ Others(r) /\ OwnFiles(r)
  BY StepServes, StepWithin, StepInst, StepMine DEF Serves, SInv, Mine
<1>2. ASSUME NEW q \in Requests, q # r PROVE Keeps(q)'
  <2>1. pc'[q] = pc[q] /\ todo'[q] = todo[q] /\ tx'[q] = tx[q]
    BY <1>1, <1>2 DEF Others
  <2>2. pc[q] # "idle" =>
            Inst(q) \in Instances \ {Inst(r)} /\ Family(Inst(q)) \cap Family(Inst(r)) = {}
    <3> SUFFICES ASSUME pc[q] # "idle"
                 PROVE  Inst(q) \in Instances \ {Inst(r)} /\ Family(Inst(q)) \cap Family(Inst(r)) = {}
      OBVIOUS
    <3>1. Inst(q) # Inst(r) /\ Family(Inst(q)) \cap Family(Inst(r)) = {}
      BY <1>1, <1>2 DEF Orderly
    <3>2. Inst(q) \in Instances
      BY KeepsOf DEF TypeOK, HandlersFit, Fits, Inst, Job
    <3> QED BY <3>1, <3>2
  <2> QED BY <1>1, <2>1, <2>2, KeptElsewhere
<1>3. ASSUME NEW j \in Instances PROVE AtRest(j)'
  <2>1. CASE j = Inst(r)
    <3>1. SUFFICES ASSUME j \notin suspect', \A q \in Requests : pc'[q] \notin Calm => Inst(q)' # j
                   PROVE  Baseline(j)' /\ RunsBaseline(j)'
      BY DEF AtRest, Fresh
    <3>2. Inst(r)' = j
      BY <1>1, <2>1
    <3>3. Baseline(Inst(r))' /\ RunsBaseline(Inst(r))'
      BY <1>1, <3>1, <3>2 DEF AtRest, Fresh
    <3> QED BY <3>2, <3>3 DEF Baseline, RunsBaseline, Live, Managed
  <2>2. CASE j # Inst(r)
    <3>1. \A q \in Requests : pc[q] \notin Calm /\ Inst(q) = j => pc'[q] = pc[q] /\ Inst(q)' = Inst(q)
      BY <1>1, <2>2 DEF Others, Inst
    <3>2. \A n \in Names : files'[n] # files[n] => files[n] = Absent \/ OwnedBy(files[n], Inst(r))
      BY <1>1 DEF OwnFiles
    <3> QED BY <1>1, <2>2, <3>1, <3>2, RestElsewhere
  <2> QED BY <2>1, <2>2
<1>4. Served'
  BY <1>1, <1>2 DEF Served
<1> QED
  BY <1>3, <1>4, StepPlaced, StepWhole DEF Standing

LEMMA Unmoved ==
    ASSUME SInv, UNCHANGED <<files, loaded, running, pc, todo, tx, instances, suspect>>,
           PlainPlans'
    PROVE  Standing'
<1>1. RecordsWhole' /\ Placed(files)' /\ Placed(loaded)' /\ Placed(running)'
  BY DEF SInv, RecordsWhole, Managed, Placed
<1>2. Served'
  BY DEF SInv, Served, Keeps, Inst, Fresh
<1>3. \A i \in Instances : AtRest(i)'
  BY DEF SInv, AtRest, Baseline, RunsBaseline, Live, Managed, Inst, Fresh
<1> QED
  BY <1>1, <1>2, <1>3 DEF Standing

LEMMA Begun ==
    ASSUME SInv, NEW r \in Requests, Others(r), Keeps(r)', HostSame, StoreSame,
           pc'[r] \in Calm <=> pc[r] \in Calm, pc[r] \notin Calm => Inst(r)' = Inst(r)
    PROVE  Standing'
<1>1. UNCHANGED <<files, loaded, running, instances, plans, suspect>>
  BY DEF HostSame, hostVars, StoreSame, storeVars
<1>2. Served' /\ \A i \in Instances : AtRest(i)'
  BY <1>1, Untouched
<1>3. RecordsWhole' /\ PlainPlans' /\ Placed(files)' /\ Placed(loaded)' /\ Placed(running)'
  BY <1>1 DEF SInv, RecordsWhole, PlainPlans, Managed, Placed
<1> QED
  BY <1>2, <1>3 DEF Standing

LEMMA PlansStand ==
    ASSUME SInv, NEW id \in PlanIds,
           SpoilPlan(id) \/ \E op \in Ops, i \in Instances, v \in Versions, misread \in BOOLEAN :
                                CreatePlan(id, op, i, v, misread)
    PROVE  Standing'
<1>1. UNCHANGED <<files, loaded, running, pc, todo, tx, instances, suspect>>
  BY DEF SpoilPlan, CreatePlan, HostSame, hostVars, units, requestVars
<1>2. \A k \in PlanIds \ {id} : plans'[k] = plans[k]
  BY KeepsOf DEF SpoilPlan, CreatePlan, SInv, OInv, TypeOK, StoreType
<1>3. plans'[id] # NoPlan /\ plans'[id].op = "remove" => plans'[id].src = NothingOn
  <2>1. CASE SpoilPlan(id)
    <3>1. plans[id] \in Plan /\ plans'[id] = [plans[id] EXCEPT !.valid = FALSE]
      BY <2>1 DEF SpoilPlan, Runnable, SInv, OInv, TypeOK, StoreType
    <3>2. plans[id] # NoPlan
      BY <2>1 DEF SpoilPlan, Runnable
    <3>3. plans'[id].op = plans[id].op /\ plans'[id].src = plans[id].src
      BY <3>1 DEF Plan
    <3> QED BY <3>2, <3>3 DEF SInv, PlainPlans
  <2>2. ASSUME NEW op \in Ops, NEW i \in Instances, NEW v \in Versions, NEW misread \in BOOLEAN,
               CreatePlan(id, op, i, v, misread)
        PROVE  plans'[id].op = "remove" => plans'[id].src = NothingOn
    BY <2>2 DEF CreatePlan, SInv, OInv, TypeOK, StoreType
  <2> QED BY <2>1, <2>2
<1>4. PlainPlans'
  BY <1>2, <1>3 DEF SInv, PlainPlans
<1> QED
  BY <1>1, <1>4, Unmoved

(* Only what Orderly allows is begun.                                           *)
LEMMA ExecutePlanStands ==
    ASSUME SInv, Orderly', NEW r \in Requests, NEW id \in PlanIds, ExecutePlan(r, id)
    PROVE  Standing'
<1> DEFINE p == plans[id]
           prev == IF p.op = "install" THEN NoRecord ELSE instances[p.inst]
           t == [Blank EXCEPT !.id = id, !.job = p, !.prev = prev]
<1>1. /\ HostSame /\ StoreSame /\ pc[r] = "idle" /\ p \in Plan /\ TypeOK /\ Others(r)
      /\ p.op = "remove" => p.src = NothingOn
      /\ UNCHANGED <<files, loaded, running, instances, suspect>>
  BY ExecutePlanMine
     DEF ExecutePlan, HostSame, hostVars, StoreSame, storeVars, SInv, OInv, TypeOK, StoreType,
         PlainPlans, Mine
<1>2. t.job = p /\ t.old = NothingOn /\ t.removed = {} /\ t.started = {}
  BY DEF Blank
<1>3. \/ Go(r, "done", {}) /\ Keep(r, [t EXCEPT !.answer = "refused"])
      \/ Go(r, "load", {}) /\ Keep(r, t)
      \/ Go(r, "check", NamesOf(prev.src)) /\ Keep(r, t)
  BY DEF ExecutePlan, Blank
<1>4. CASE Go(r, "done", {}) /\ Keep(r, [t EXCEPT !.answer = "refused"])
  <2> DEFINE u == [t EXCEPT !.answer = "refused"]
  <2>1. u.job = p /\ u.answer = "refused"
    BY DEF Blank
  <2>2. pc'[r] = "done" /\ todo'[r] = {} /\ tx'[r] = u
    BY <1>1, <1>4, Moves
  <2> HIDE DEF u, p, t
  <2>3. Knows("done", {}, u) /\ Fitting("done", {}, u, instances'[u.job.inst])
    BY <1>1, <2>1 DEF Knows, Fitting, Before, Forward, Saving
  <2>4. \A fresh, record : Delivered(u, files', loaded', running', fresh, record)
    BY <2>1 DEF Delivered
  <2>5. Keeps(r)'
    BY <2>2, <2>3, <2>4
       DEF Keeps, Inst, Keeping, TakesDown, BringsUp, Restores, Runs, Reloaded, Saving
  <2> QED BY <1>1, <2>2, <2>5, Begun DEF Calm
<1>5. ASSUME NEW stage \in {"load", "check"}, NEW S, Go(r, stage, S), Keep(r, t) PROVE Standing'
  <2>1. pc'[r] = stage /\ todo'[r] = S /\ tx'[r] = t
    BY <1>1, <1>5, Moves
  <2> HIDE DEF t, p
  <2>2. Op(r)' = t.job.op /\ Inst(r)' = t.job.inst
    BY <2>1 DEF Op, Inst
  <2>3. t.job.op = "install" <=> instances'[t.job.inst] = NoRecord \/ instances'[t.job.inst].removed
    BY <1>5, <2>1, <2>2 DEF Orderly, Live, Managed
  <2>4. Knows(stage, S, t) /\ Fitting(stage, S, t, instances'[t.job.inst])
    BY <1>1, <1>2, <1>5, <2>3 DEF Knows, Fitting, Before, Forward, Saving
  <2>5. Keeps(r)'
    BY <1>5, <2>1, <2>4
       DEF Keeps, Inst, Keeping, TakesDown, BringsUp, Restores, Runs, Reloaded, Saving
  <2> QED BY <1>1, <1>5, <2>1, <2>5, Begun DEF Calm
<1> QED
  BY <1>3, <1>4, <1>5

LEMMA LifecycleStands ==
    ASSUME SInv, NEW r \in Requests, NEW i \in Instances, NEW action \in Ops, Lifecycle(r, i, action)
    PROVE  Standing'
<1> DEFINE job == [op |-> action, inst |-> i, src |-> NothingOn, drift |-> FALSE, valid |-> TRUE]
           t == [Blank EXCEPT !.job = job]
<1>1. /\ HostSame /\ StoreSame /\ pc[r] = "idle" /\ TypeOK /\ Others(r)
      /\ action \in LifecycleOps /\ UNCHANGED instances
  BY LifecycleMine DEF Lifecycle, StoreSame, storeVars, SInv, OInv, Mine
<1>2. ASSUME NEW stage \in {"lifecycle", "done"}, NEW S, NEW u, Go(r, stage, S), Keep(r, u),
             u.job = job,
             stage = "lifecycle" => Live(i) /\ S = instances[i].units
      PROVE  Standing'
  <2>1. pc'[r] = stage /\ todo'[r] = S /\ tx'[r] = u
    BY <1>1, <1>2, Moves
  <2>2. u.job.op \notin PlanOps /\ u.job.inst = i
    BY <1>1, <1>2 DEF PlanOps, LifecycleOps
  <2>3. Knows(stage, S, u)
    BY <1>2, <2>2 DEF Knows, PlanOps, Before, Forward, Saving
  <2>4. Fitting(stage, S, u, instances'[i])
    BY <1>1, <1>2 DEF Fitting, SInv, RecordsWhole, Live, Managed
  <2>5. \A fresh, record : Delivered(u, files', loaded', running', fresh, record)
    BY <2>2 DEF Delivered, PlanOps
  <2>6. Keeps(r)'
    BY <1>2, <2>1, <2>2, <2>3, <2>4, <2>5
       DEF Keeps, Inst, Keeping, TakesDown, BringsUp, Restores, Runs, Reloaded, Saving
  <2> QED BY <1>1, <1>2, <2>1, <2>6, Begun DEF Calm
<1>3. \/ Live(i) /\ Go(r, "lifecycle", instances[i].units) /\ Keep(r, t)
      \/ Go(r, "done", {}) /\ Keep(r, [t EXCEPT !.answer = "refused"])
  BY DEF Lifecycle
<1>4. t.job = job /\ [t EXCEPT !.answer = "refused"].job = job
  BY DEF Blank
<1> HIDE DEF t, job
<1> QED
  BY <1>2, <1>3, <1>4

LEMMA AnsweredStands ==
    ASSUME SInv, NEW r \in Requests, Answered(r)
    PROVE  Standing'
<1>1. Go(r, "idle", {}) /\ Keep(r, Blank) /\ HostSame /\ StoreSame /\ pc[r] = "done"
  BY DEF Answered
<1>2. Others(r) /\ pc'[r] = "idle"
  BY <1>1, KeepsOf, Moves
<1>3. Keeps(r)'
  BY <1>2 DEF Keeps, Keeping
<1> QED
  BY <1>1, <1>2, <1>3, Begun DEF Calm

LEMMA HangUpStands ==
    ASSUME SInv, NEW r \in Requests, HangUp(r)
    PROVE  Standing'
<1> DEFINE t == [tx[r] EXCEPT !.alive = FALSE]
<1>1. Keep(r, t) /\ HostSame /\ StoreSame /\ Others(r) /\ UNCHANGED <<pc, todo>>
  BY HangUpMine DEF HangUp, SInv, Mine
<1>2. /\ t.job = tx[r].job /\ t.prev = tx[r].prev /\ t.old = tx[r].old
      /\ t.removed = tx[r].removed /\ t.started = tx[r].started
      /\ t.rbErr = tx[r].rbErr /\ t.answer = tx[r].answer
  BY KeepsOf DEF Handler
<1>3. tx'[r] = t
  BY <1>1, KeepsOf DEF Keep, TypeOK, RequestType
<1> HIDE DEF t
<1>4. Previous(t) = Previous(tx[r]) /\ New(t) = New(tx[r]) /\ Starts(t) = Starts(tx[r])
  BY <1>2 DEF Previous, New, Starts
<1>5. \A stage, left : Knows(stage, left, tx[r]) => Knows(stage, left, t)
  BY <1>2, <1>4 DEF Knows
<1>6. \A stage, left, record : Fitting(stage, left, tx[r], record) => Fitting(stage, left, t, record)
  BY <1>2 DEF Fitting
<1>7. \A stage, left, onDisk, read, active :
         TakesDown(stage, left, tx[r], onDisk, read, active) =>
             TakesDown(stage, left, t, onDisk, read, active)
  BY <1>4 DEF TakesDown
<1>8. \A n, fresh, active : Up(n, tx[r], fresh, active) <=> Up(n, t, fresh, active)
  BY <1>2 DEF Up
<1>9. \A stage, left, onDisk, read, active, fresh :
         BringsUp(stage, left, tx[r], onDisk, read, active, fresh) =>
             BringsUp(stage, left, t, onDisk, read, active, fresh)
  BY <1>2, <1>4, <1>8 DEF BringsUp
<1>10. \A stage, left, onDisk, read, active :
         Restores(stage, left, tx[r], onDisk, read, active) =>
             Restores(stage, left, t, onDisk, read, active)
  BY <1>2, <1>4 DEF Restores
<1>11. \A stage, left, active : Runs(stage, left, tx[r], active) => Runs(stage, left, t, active)
  BY <1>2, <1>4 DEF Runs
<1>12. \A onDisk, read, active, fresh, record :
         Delivered(tx[r], onDisk, read, active, fresh, record) =>
             Delivered(t, onDisk, read, active, fresh, record)
  BY <1>2, <1>4, <1>8 DEF Delivered
<1>13. Keeping(pc[r], todo[r], t, files, loaded, running, Fresh(Inst(r), suspect), instances[Inst(r)])
  <2>1. Keeping(pc[r], todo[r], tx[r], files, loaded, running, Fresh(Inst(r), suspect), instances[Inst(r)])
    BY KeepsOf DEF Keeps
  <2> QED BY <1>5, <1>6, <1>7, <1>9, <1>10, <1>11, <1>12, <2>1 DEF Keeping
<1>14. UNCHANGED <<files, loaded, running, instances, suspect>> /\ Inst(r)' = Inst(r)
  BY <1>1, <1>2, <1>3 DEF HostSame, hostVars, StoreSame, storeVars, Inst
<1>15. Keeps(r)'
  BY <1>1, <1>3, <1>13, <1>14 DEF Keeps, Fresh
<1> QED
  BY <1>1, <1>14, <1>15, Begun

(* A crash leaves what was begun and not only read suspect.                     *)
LEMMA AgentRestartStands ==
    ASSUME SInv, AgentRestart
    PROVE  Standing'
<1>1. /\ UNCHANGED <<files, loaded, running, instances, plans>>
      /\ \A r \in Requests : pc'[r] = "idle"
      /\ suspect' = suspect \cup
           {Inst(r) : r \in {q \in Requests : Active(q) /\ pc[q] \notin Reading \cup {"lifecycle"}}}
  BY DEF AgentRestart, HostSame, hostVars, storeVars
<1>2. RecordsWhole' /\ PlainPlans' /\ Placed(files)' /\ Placed(loaded)' /\ Placed(running)'
  BY <1>1 DEF SInv, RecordsWhole, PlainPlans, Managed, Placed
<1>3. Served'
  BY <1>1 DEF Served, Keeps, Keeping
<1>4. ASSUME NEW i \in Instances PROVE AtRest(i)'
  <2>1. SUFFICES ASSUME i \notin suspect' PROVE Baseline(i)' /\ RunsBaseline(i)'
    BY DEF AtRest, Fresh
  <2>2. \A r \in Requests : pc[r] \notin Calm => Active(r) /\ pc[r] \notin Reading \cup {"lifecycle"}
    BY DEF Calm, Active, Reading
  <2>3. i \notin suspect /\ \A r \in Requests : pc[r] \notin Calm => Inst(r) # i
    BY <1>1, <2>1, <2>2
  <2>4. Baseline(i) /\ RunsBaseline(i)
    BY <2>3 DEF SInv, AtRest, Fresh
  <2> QED BY <1>1, <2>4 DEF Baseline, RunsBaseline, Live, Managed
<1> QED
  BY <1>2, <1>3, <1>4 DEF Standing

LEMMA AdminEditStands ==
    ASSUME SInv, AdminMayRace = FALSE, NEW n \in Names, NEW c \in {Admin, Absent}, AdminEdit(n, c)
    PROVE  Standing'
<1>1. /\ UNCHANGED <<loaded, running, pc, todo, tx, instances, plans>>
      /\ \A r \in Requests : pc[r] = "idle"
      /\ files' = [files EXCEPT ![n] = c]
      /\ suspect' = suspect \cup {i \in Instances : Live(i) /\ instances[i].src[n] # Absent}
  BY DEF AdminEdit, units, requestVars, storeVars
<1>2. \A m \in Names : files'[m] = files[m] \/ (m = n /\ files'[m] = c)
  BY <1>1, KeepsOf DEF SInv, OInv, TypeOK, HostType, Sources
<1>3. \A j \in Instances : ~OwnedBy(c, j)
  BY EngineAssumption DEF OwnedBy, Contents
<1>4. RecordsWhole' /\ PlainPlans' /\ Placed(files)' /\ Placed(loaded)' /\ Placed(running)'
  BY <1>1, <1>2, <1>3 DEF SInv, RecordsWhole, PlainPlans, Managed, Placed
<1>5. Served'
  BY <1>1 DEF Served, Keeps, Keeping
<1>6. ASSUME NEW i \in Instances PROVE AtRest(i)'
  <2>1. SUFFICES ASSUME i \notin suspect' PROVE Baseline(i)' /\ RunsBaseline(i)'
    BY DEF AtRest, Fresh
  <2>2. i \notin suspect /\ (Live(i) => instances[i].src[n] = Absent)
    BY <1>1, <2>1
  <2>3. Baseline(i) /\ RunsBaseline(i)
    BY <1>1, <2>2 DEF SInv, AtRest, Fresh, Calm
  <2> QED BY <1>1, <1>2, <2>2, <2>3 DEF Baseline, RunsBaseline, Live, Managed, NamesOf
<1> QED
  BY <1>4, <1>5, <1>6 DEF Standing

LEMMA InitS == Init => SInv
<1> SUFFICES ASSUME Init PROVE SInv
  OBVIOUS
<1>1. \A i \in Instances : ~OwnedBy(Absent, i)
  BY EngineAssumption DEF OwnedBy, Contents
<1>2. /\ files = NothingOn /\ loaded = NothingOn /\ running = NothingOn
      /\ \A r \in Requests : pc[r] = "idle"
      /\ \A i \in Instances : instances[i] = NoRecord
      /\ \A id \in PlanIds : plans[id] = NoPlan
  BY DEF Init, HostInit
<1>3. RecordsWhole /\ PlainPlans
  BY <1>2 DEF RecordsWhole, PlainPlans, Managed
<1>4. Placed(files) /\ Placed(loaded) /\ Placed(running)
  BY <1>1, <1>2 DEF Placed, NothingOn
<1>5. Served
  BY <1>2 DEF Served, Keeps, Keeping
<1>6. \A i \in Instances : AtRest(i)
  BY <1>2, FamilyNames DEF AtRest, Baseline, RunsBaseline, Live, Managed, NothingOn
<1> QED
  BY <1>3, <1>4, <1>5, <1>6, InitOwned, InitDocs DEF SInv

LEMMA NextS ==
    ASSUME SInv, Orderly, Orderly', AdminMayRace = FALSE, [Next]_vars
    PROVE  SInv'
<1>1. OInv' /\ DInv'
  BY OrderlyIsOnePer, NextOwned, NextDocs DEF SInv
<1>2. Standing'
  <2>1. CASE Begin
    BY <2>1, PlansStand, ExecutePlanStands, LifecycleStands DEF Begin
  <2>2. CASE \E r \in Requests : Step(r)
    BY <2>2, StepStands
  <2>3. CASE Environment
    BY <2>3, AnsweredStands, HangUpStands, AgentRestartStands, AdminEditStands DEF Environment
  <2>4. CASE UNCHANGED vars
    <3>1. UNCHANGED <<files, loaded, running, pc, todo, tx, instances, plans, suspect>>
      BY <2>4 DEF vars, hostVars, requestVars, storeVars
    <3> QED BY <3>1, Unmoved DEF SInv, PlainPlans
  <2> QED BY <2>1, <2>2, <2>3, <2>4 DEF Next
<1> QED
  BY <1>1, <1>2 DEF SInv, Standing

LEMMA AlwaysS ==
    ASSUME AdminMayRace = FALSE
    PROVE  Spec /\ []Orderly => []SInv
<1>1. Init => SInv
  BY InitS
<1>2. SInv /\ Orderly /\ Orderly' /\ [Next]_vars => SInv'
  BY NextS
<1> QED
  BY <1>1, <1>2, PTL DEF Spec

--------------------------------------------------------------------------------

LEMMA RestingWhenIdle ==
    ASSUME SInv, NEW i \in Instances \ suspect, ~Busy(i)
    PROVE  Baseline(i) /\ RunsBaseline(i)
<1>1. ASSUME NEW r \in Requests, pc[r] \notin Calm PROVE Inst(r) # i
  <2>1. Working(r) /\ Active(r)
    BY <1>1 DEF Calm, Working, Active
  <2>2. Op(r) \in PlanOps
    BY <2>1, Acting
  <2> QED BY <2>1, <2>2 DEF Busy
<1> QED
  BY <1>1 DEF SInv, AtRest, Fresh

(* The record of a live instance that is not suspect and not being transacted   *)
(* is what is on disk, for any number of requests, instances, versions, names,  *)
(* faults, crashes and edits.  Two installs of the same instance, or an install *)
(* of a plan made before the instance existed, would break it: the engine       *)
(* checks a plan's preconditions when the plan is made and, for an install, not *)
(* again.  Instances with common names do not, one request at a time.           *)
THEOREM BaselineIsLiveAlways ==
    ASSUME AdminMayRace = FALSE
    PROVE  Spec /\ []Orderly => []BaselineIsLive
<1>1. Spec /\ []Orderly => []SInv
  BY AlwaysS
<1>2. SInv => BaselineIsLive
  BY RestingWhenIdle DEF BaselineIsLive, Baseline
<1> QED
  BY <1>1, <1>2, PTL

(* When all requests are answered, a unit that runs for an instance that is not *)
(* suspect runs the file on disk: no path through a transaction, a clean        *)
(* failure or a rollback leaves a process behind whose quadlet is gone.  With   *)
(* common names it may: a rollback of one instance whose reload failed starts   *)
(* what is still loaded of another.                                             *)
THEOREM UnitsRunTheirFilesAlways ==
    ASSUME OwnNames, AdminMayRace = FALSE
    PROVE  Spec /\ []Orderly => []UnitsRunTheirFiles
<1>1. Spec /\ []Orderly => []SInv
  BY AlwaysS
<1>2. SInv => UnitsRunTheirFiles
  <2> SUFFICES ASSUME SInv, \A r \in Requests : ~Active(r), NEW i \in Instances \ suspect,
                      NEW n \in Names, OwnedBy(running[n], i)
               PROVE  files[n] = running[n]
    BY DEF UnitsRunTheirFiles
  <2>1. Baseline(i) /\ RunsBaseline(i)
    BY RestingWhenIdle DEF Busy
  <2>2. n \in Family(i) /\ running[n] # Absent
    BY EngineAssumption DEF SInv, Placed, OwnedBy, Contents
  <2>3. Live(i) /\ running[n] = instances[i].src[n]
    BY <2>1, <2>2 DEF RunsBaseline, OwnNames
  <2> QED BY <2>1, <2>2, <2>3 DEF Baseline, NamesOf
<1> QED
  BY <1>1, <1>2, PTL

(* A rollback that does not report an error has restored every source, on disk  *)
(* and loaded, and every unit of the previous record runs it: whichever call of *)
(* an update or a removal failed, and whether or not the failed call had taken  *)
(* effect.                                                                      *)
THEOREM RollbackRestoresAlways ==
    ASSUME AdminMayRace = FALSE
    PROVE  Spec /\ []Orderly => []RollbackRestores
<1>1. Spec /\ []Orderly => []SInv
  BY AlwaysS
<1>2. SInv => RollbackRestores
  <2> SUFFICES ASSUME SInv, NEW r \in Requests, Ended(r, "rolledBack"), Op(r) \in {"update", "remove"},
                      NEW n \in NamesOf(tx[r].prev.src)
               PROVE  files[n] = tx[r].prev.src[n] /\ loaded[n] = tx[r].prev.src[n]
                      /\ running[n] = tx[r].prev.src[n]
    BY DEF RollbackRestores
  <2>1. Delivered(tx[r], files, loaded, running, Fresh(Inst(r), suspect), instances[Inst(r)])
    BY KeepsOf DEF Ended, Keeps, Keeping
  <2>2. tx[r].answer = "rolledBack" /\ tx[r].job.op \in {"update", "remove"}
    BY DEF Ended, Op
  <2>3. n \in Previous(tx[r])
    BY <2>2 DEF Previous
  <2> QED BY <2>1, <2>2, <2>3 DEF Delivered
<1> QED
  BY <1>1, <1>2, PTL

(* A transaction that answers "succeeded" has delivered what its plan said: the *)
(* new sources on disk, loaded and recorded, the units that start running them, *)
(* and nothing left of what the new version dropped.  With common names a unit  *)
(* that another instance left running would be taken for a started one.         *)
THEOREM SuccessIsFaithfulAlways ==
    ASSUME OwnNames, AdminMayRace = FALSE
    PROVE  Spec /\ []Orderly => []SuccessIsFaithful
<1>1. Spec /\ []Orderly => []SInv
  BY AlwaysS
<1>2. SInv => SuccessIsFaithful
  <2> SUFFICES ASSUME SInv, NEW r \in Requests, Ended(r, "succeeded"), Op(r) \in PlanOps
               PROVE  LET want == tx[r].job.src
                          was  == IF Op(r) = "install" THEN NothingOn ELSE tx[r].prev.src
                          rec  == instances[Inst(r)]
                      IN  /\ rec.removed = (Op(r) = "remove")
                          /\ Op(r) # "remove" => rec.src = want
                          /\ \A n \in NamesOf(want) :
                                /\ files[n] = want[n] /\ loaded[n] = want[n]
                                /\ n \in StartNames =>
                                      IF Op(r) = "install" /\ Inst(r) \in suspect THEN running[n] # Absent
                                                            ELSE running[n] = want[n]
                          /\ \A n \in NamesOf(was) \ NamesOf(want) :
                                files[n] = Absent /\ loaded[n] = Absent /\ running[n] = Absent
    BY DEF SuccessIsFaithful
  <2> DEFINE was == IF Op(r) = "install" THEN NothingOn ELSE tx[r].prev.src
             record == instances[Inst(r)]
             fresh == Fresh(Inst(r), suspect)
  <2>1. Delivered(tx[r], files, loaded, running, fresh, record)
    BY KeepsOf DEF Ended, Keeps, Keeping
  <2>2. tx[r].answer = "succeeded" /\ tx[r].job.op = Op(r)
    BY DEF Ended, Op
  <2>3. NamesOf(was) = Previous(tx[r])
    BY <2>2 DEF Previous, NamesOf, NothingOn
  <2> HIDE DEF was, record, fresh
  <2>4. /\ record.removed = (Op(r) = "remove")
        /\ Op(r) # "remove" => record.src = tx[r].job.src
        /\ \A n \in NamesOf(tx[r].job.src) :
              /\ files[n] = tx[r].job.src[n] /\ loaded[n] = tx[r].job.src[n]
              /\ n \in StartNames => Up(n, tx[r], fresh, running)
        /\ \A n \in NamesOf(was) \ NamesOf(tx[r].job.src) :
              files[n] = Absent /\ loaded[n] = Absent /\ running[n] = Absent
    BY <2>1, <2>2, <2>3 DEF Delivered, New
  <2>5. ASSUME NEW n, Up(n, tx[r], fresh, running)
        PROVE  IF Op(r) = "install" /\ Inst(r) \in suspect THEN running[n] # Absent
                                                            ELSE running[n] = tx[r].job.src[n]
    <3>1. Private(Inst(r))
      BY KeepsOf DEF Ended, TypeOK, HandlersFit, Fits, Inst, Job, OwnNames
    <3>2. fresh <=> Inst(r) \notin suspect
      BY <3>1 DEF fresh, Fresh
    <3> QED BY <2>2, <2>5, <3>2 DEF Up
  <2> QED BY <2>4, <2>5 DEF was, record
<1> QED
  BY <1>1, <1>2, PTL

(* A handler keeps to its plan and to the record of its instance: what it       *)
(* removes, puts back and saves is what it has compared, read and installed.    *)
LEMMA SIsTidy ==
    ASSUME SInv
    PROVE  Tidy
<1> SUFFICES ASSUME NEW r \in Requests, pc[r] # "idle"
             PROVE  LET t   == tx[r]
                        new == NamesOf(t.job.src)
                        was == NamesOf(Recorded(Inst(r)))
                    IN  /\ pc[r] \in Underway => t.installed \subseteq new
                        /\ pc[r] \in Early => t.installed = {}
                        /\ pc[r] = "installNew" => todo[r] \subseteq new
                        /\ pc[r] = "removeOld" =>
                              \A n \in todo[r] : n \in was /\ (files[n] = Absent \/ OwnedBy(files[n], Inst(r)))
                        /\ pc[r] = "undoInstall" => \A n \in todo[r] : files[n] \in {Absent, t.job.src[n]}
                        /\ pc[r] = "reinstall" => \A n \in todo[r] : n \in was /\ OwnedBy(t.old[n], Inst(r))
                        /\ pc[r] = "save" =>
                              /\ Op(r) # "remove" => t.seen = t.job.src
                              /\ Op(r) # "install" => \A n \in was \ new : ~OwnedBy(files[n], Inst(r))
                        /\ Active(r) /\ Op(r) \in {"update", "remove"}
                                /\ pc[r] \notin Reading \cup {"stop", "manifest", "readme"}
                              => NamesOf(t.prev.src) \subseteq was
  BY DEF Tidy
<1> DEFINE t == tx[r]
           i == Inst(r)
           was == NamesOf(Recorded(i))
<1>1. /\ Progress(pc[r], todo[r], t) /\ Claim(pc[r], todo[r], t, files, instances)
      /\ Keeps(r) /\ Op(r) = t.job.op /\ i = t.job.inst /\ TypeOK
  BY KeepsOf, ClaimOf DEF Claim, Op, Inst
<1>2. t.installed \subseteq NamesOf(t.job.src) /\ (pc[r] \in Early => t.installed = {})
  BY <1>1 DEF Progress, Early, Before
<1>3. pc[r] = "installNew" => todo[r] \subseteq NamesOf(t.job.src)
  BY <1>1 DEF Progress
<1>4. pc[r] = "undoInstall" => \A n \in todo[r] : files[n] \in {Absent, t.job.src[n]}
  BY <1>1 DEF Progress, Claim, Installed
(* What it replaces is the record of its instance, which is live.               *)
<1>5. ASSUME pc[r] \notin {"done", "lifecycle", "manifest", "readme"}, Op(r) # "install"
      PROVE  /\ t.prev.src = Recorded(i) /\ Previous(t) = was /\ Owns(i, t.prev.src)
             /\ NamesOf(t.prev.src) = was
  <2>1. Working(r)
    BY <1>5 DEF Working
  <2>2. instances[i] \in Record /\ Op(r) \in PlanOps
    BY <1>1, <1>5, <2>1, Locals DEF PlanOps
  <2>3. t.prev = instances[i] /\ Owns(i, t.prev.src)
    BY <1>1, <1>5 DEF Claim, Progress
  <2>4. ~(instances[i] = NoRecord \/ instances[i].removed)
    BY <1>1, <1>5 DEF Keeps, Keeping, Fitting
  <2>5. Recorded(i) = instances[i].src
    BY <2>2, <2>4 DEF Recorded, Live, Managed
  <2> QED BY <1>1, <1>5, <2>3, <2>5 DEF Previous
<1>6. ASSUME pc[r] = "removeOld"
      PROVE  \A n \in todo[r] : n \in was /\ OwnedBy(files[n], i)
  <2>1. Op(r) # "install"
    BY <1>1, <1>6 DEF TypeOK, HandlersFit, Fits
  <2>2. todo[r] \subseteq NamesOf(t.prev.src)
    BY <1>1, <1>6 DEF Progress
  <2>3. \A n \in todo[r] : n \in Compared(pc[r], todo[r], t)
    BY <1>1, <1>6, <2>1, <2>2 DEF Compared, Before, NamesOf
  <2>4. \A n \in todo[r] : files[n] = t.prev.src[n]
    BY <1>1, <2>3 DEF Claim
  <2> QED BY <1>5, <1>6, <2>1, <2>2, <2>4 DEF Owns
<1>7. ASSUME pc[r] = "reinstall"
      PROVE  \A n \in todo[r] : n \in was /\ OwnedBy(t.old[n], i)
  <2>1. Knows(pc[r], todo[r], t)
    BY <1>1 DEF Keeps, Keeping
  <2>2. todo[r] \subseteq Previous(t)
    BY <1>7, <2>1 DEF Knows
  <2>3. CASE Op(r) = "install"
    BY <1>1, <2>2, <2>3 DEF Previous
  <2>4. CASE Op(r) # "install"
    <3>1. t.old = t.prev.src
      BY <1>1, <1>7, <2>1, <2>4 DEF Knows
    <3> QED BY <1>5, <1>7, <2>2, <2>4, <3>1 DEF Owns
  <2> QED BY <2>3, <2>4
<1>8. ASSUME pc[r] = "save"
      PROVE  /\ Op(r) # "remove" => t.seen = t.job.src
             /\ Op(r) # "install" => \A n \in was \ NamesOf(t.job.src) : ~OwnedBy(files[n], i)
  <2>1. Op(r) # "remove" => t.seen = t.job.src
    BY <1>1, <1>8 DEF Progress, Saving
  <2>2. Out(Previous(t) \ New(t), files)
    BY <1>1, <1>8 DEF Keeps, Keeping, TakesDown, Reloaded, Saving
  <2>3. i \in Instances
    BY <1>8, Acting DEF Working
  <2>4. ~OwnedBy(Absent, i)
    BY <2>3, EngineAssumption DEF OwnedBy, Contents
  <2> QED BY <1>5, <1>8, <2>1, <2>2, <2>4 DEF Out, New
<1>9. ASSUME Active(r), Op(r) \in {"update", "remove"},
             pc[r] \notin Reading \cup {"stop", "manifest", "readme"}
      PROVE  NamesOf(t.prev.src) \subseteq was
  <2>1. pc[r] \notin {"done", "lifecycle", "manifest", "readme"}
    BY <1>1, <1>9 DEF Active, TypeOK, HandlersFit, Fits, LifecycleOps
  <2> QED BY <1>5, <1>9, <2>1
<1> QED
  BY <1>2, <1>3, <1>4, <1>6, <1>7, <1>8, <1>9

(* A client may take an operation to be atomic, but for one file: installs,     *)
(* updates and removals, their rollbacks, the restarts of the agent and the     *)
(* administrator's edits implement Deployment, where an operation takes effect  *)
(* at one instant or not at all, a failed one may leave behind one file that    *)
(* Podman installed without saying so, and only an instance left suspect may be *)
(* in any other state.                                                          *)
THEOREM OperationsAreAtomicAlways ==
    ASSUME AdminMayRace = FALSE
    PROVE  Spec /\ []Orderly => OperationsAreAtomic
<1>1. Spec /\ []Orderly => []SInv
  BY AlwaysS
<1>2. SInv => BaselineIsLive
  BY RestingWhenIdle DEF BaselineIsLive, Baseline
<1>3. SInv => Tidy
  BY SIsTidy
<1> QED
  BY <1>1, <1>2, <1>3, OperationsAreAtomicIf, PTL

================================================================================
