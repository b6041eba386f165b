----------------------------- MODULE OwnershipProofs -----------------------------
(* The engine takes no lock and knows no owner of a file; what keeps it from    *)
(* touching what is not its own is that it compares a file before it removes    *)
(* it, and that Podman refuses to install over one.  As long as no two          *)
(* transactions are about the same instance this is enough, although other      *)
(* instances may have quadlets of the same names.                               *)
EXTENDS EngineProofs

Transacting(r) == Active(r) /\ Op(r) \in PlanOps

(* What clients must respect: an instance is installed, updated or removed by   *)
(* one request at a time.                                                       *)
OnePerInstance ==
    \A p, q \in Requests : Transacting(p) /\ Transacting(q) /\ Inst(p) = Inst(q) => p = q

Before == {"check", "load", "snapshot", "stop", "removeOld"}
Forward == {"reload", "list", "start", "verify", "relist", "capture"}
Saving == {"save", "manifest", "readme"}

(* The names an instance may have quadlets of: what a version of its            *)
(* application renders.                                                         *)
Family(i) == UNION {Manifest[v] : v \in Catalog[i]}

Owns(i, source) == \A n \in NamesOf(source) : n \in Family(i) /\ OwnedBy(source[n], i)

(* The previous files a handler found as recorded and has not removed yet.      *)
Compared(stage, left, t) ==
    {n \in Names :
        /\ stage \in Before /\ t.job.op # "install"
        /\ n \in NamesOf(t.prev.src)
        /\ stage = "check" => n \notin left
        /\ stage = "removeOld" => n \in left}

(* The files it installed and may still remove.                                 *)
Installed(stage, left, t) ==
    {n \in t.installed :
        \/ stage \in {"installNew", "save", "undoStop"} \cup Forward
        \/ stage = "undoInstall" /\ n \in left}

(* How far a handler is: what it wants and what it replaces are its instance's, *)
(* it installed what its loop has passed, and read back what it installed.      *)
Progress(stage, left, t) ==
    LET names == NamesOf(t.job.src) IN
    /\ Owns(t.job.inst, t.job.src) /\ t.installed \subseteq names
    /\ stage \notin {"done", "lifecycle"} /\ t.job.op # "install" => Owns(t.job.inst, t.prev.src)
    /\ stage \in Before => t.installed = {}
    /\ stage = "check" => t.job.op # "install"
    /\ stage \in {"installNew"} \cup (Forward \ {"reload"}) => t.job.op # "remove"
    /\ stage = "removeOld" => left \subseteq NamesOf(t.prev.src)
    /\ stage \in {"installNew", "capture"} => left \subseteq names
    /\ stage = "undoInstall" => left \subseteq t.installed
    /\ stage = "installNew" => t.installed = names \ left
    /\ stage \in Forward \cup Saving /\ t.job.op # "remove" => t.installed = names
    /\ stage \in Before \cup {"installNew"} \cup (Forward \ {"capture"}) => t.seen = NothingOn
    /\ stage = "capture" =>
          t.seen = [n \in Names |-> IF n \in left THEN Absent ELSE t.job.src[n]]
    /\ stage \in Saving /\ t.job.op # "remove" => t.seen = t.job.src
    /\ stage \in {"capture"} \cup Saving /\ t.job.op # "remove" => names \subseteq t.listed

(* What is on disk because of a handler, and the record it replaces.            *)
Claim(stage, left, t, onDisk, records) ==
    stage # "idle" =>
        /\ Progress(stage, left, t)
        /\ \A n \in Compared(stage, left, t) : onDisk[n] = t.prev.src[n]
        /\ \A n \in Installed(stage, left, t) : onDisk[n] = t.job.src[n]
        /\ stage \notin {"done", "lifecycle", "manifest", "readme"} /\ t.job.op # "install" =>
              t.prev = records[t.job.inst]

RecordsOwned == \A i \in Instances : Managed(i) => Owns(i, instances[i].src)

PlansOwned == \A id \in PlanIds : plans[id] # NoPlan => Owns(plans[id].inst, plans[id].src)

Claims == \A r \in Requests : Claim(pc[r], todo[r], tx[r], files, instances)

OInv == TypeOK /\ RecordsOwned /\ PlansOwned /\ Claims

--------------------------------------------------------------------------------
(* A step of a handler that changes only what is its own.                       *)

Others(r) ==
    \A q \in Requests \ {r} : pc'[q] = pc[q] /\ todo'[q] = todo[q] /\ tx'[q] = tx[q]

OwnFiles(r) ==
    \A n \in Names : files'[n] # files[n] =>
        files[n] = Absent \/ (Transacting(r) /\ OwnedBy(files[n], Inst(r)))

OwnRecord(r) ==
    \A i \in Instances : instances'[i] # instances[i] => Transacting(r) /\ i = Inst(r)

Mine(r) ==
    /\ Others(r) /\ OwnFiles(r) /\ OwnRecord(r)
    /\ RecordsOwned' /\ PlansOwned'
    /\ Claim(pc'[r], todo'[r], tx'[r], files', instances')

LEMMA Moves ==
    ASSUME TypeOK, NEW r \in Requests, NEW stage, NEW S, NEW t, Go(r, stage, S), Keep(r, t)
    PROVE  Others(r) /\ pc'[r] = stage /\ todo'[r] = S /\ tx'[r] = t
BY DEF TypeOK, RequestType, Go, Keep, Others

LEMMA KeptLocals ==
    ASSUME TypeOK, NEW r \in Requests, UNCHANGED tx PROVE Keep(r, tx[r])
BY DEF TypeOK, RequestType, Keep

LEMMA ClaimOf ==
    ASSUME OInv, NEW r \in Requests PROVE Claim(pc[r], todo[r], tx[r], files, instances)
BY DEF OInv, Claims

LEMMA StoreOwned ==
    ASSUME OInv, StoreSame
    PROVE  RecordsOwned' /\ PlansOwned' /\ UNCHANGED <<instances, plans, docs, suspect>>
BY DEF OInv, StoreSame, storeVars, RecordsOwned, PlansOwned, Managed

(* A handler moves on and nothing else changes that matters here.               *)
LEMMA QuietMine ==
    ASSUME OInv, NEW r \in Requests, NEW stage, NEW S, NEW t, Go(r, stage, S), Keep(r, t),
           UNCHANGED files, StoreSame, Claim(stage, S, t, files, instances)
    PROVE  Mine(r)
<1>1. TypeOK
  BY DEF OInv
<1> QED
  BY <1>1, Moves, StoreOwned DEF Mine, OwnFiles, OwnRecord

(* Its end claims nothing.                                                      *)
LEMMA ReplyClaims ==
    ASSUME OInv, NEW r \in Requests, pc[r] # "idle", NEW x, Reply(r, x)
    PROVE  /\ Others(r)
           /\ Claim(pc'[r], todo'[r], tx'[r], files', instances')
<1> DEFINE t == [tx[r] EXCEPT !.answer = x]
<1>1. tx[r] \in Handler /\ Progress(pc[r], todo[r], tx[r])
  BY ClaimOf DEF OInv, TypeOK, RequestType, Claim
<1>2. t.job = tx[r].job /\ t.installed = tx[r].installed
  BY <1>1 DEF Handler
<1>3. Go(r, "done", {}) /\ Keep(r, t)
  BY DEF Reply
<1> HIDE DEF t
<1>4. Progress("done", {}, t)
  BY <1>1, <1>2 DEF Progress, Before, Forward, Saving
<1>5. Compared("done", {}, t) = {} /\ Installed("done", {}, t) = {}
  BY DEF Compared, Installed, Before, Forward
<1>6. Claim("done", {}, t, files', instances')
  BY <1>4, <1>5 DEF Claim
<1> QED
  BY <1>3, <1>6, Moves DEF OInv

LEMMA ReplyMine ==
    ASSUME OInv, NEW r \in Requests, pc[r] # "idle", NEW x, Reply(r, x),
           UNCHANGED files, StoreSame
    PROVE  Mine(r)
BY ReplyClaims, StoreOwned DEF Mine, OwnFiles, OwnRecord

(* The first failure: the rollback claims what the forward path installed.      *)
LEMMA AbortClaims ==
    ASSUME OInv, NEW r \in Requests, pc[r] \in {"installNew"} \cup Forward,
           NEW t \in Handler, t.job = tx[r].job, t.prev = tx[r].prev,
           t.installed = tx[r].installed, AbortTo(r, t), UNCHANGED instances,
           \A n \in tx[r].installed : files'[n] = tx[r].job.src[n]
    PROVE  Others(r) /\ Claim(pc'[r], todo'[r], tx'[r], files', instances')
<1>1. /\ tx[r] \in Handler /\ Progress(pc[r], todo[r], tx[r]) /\ tx[r].job \in Job
      /\ tx[r].job.op # "install" => tx[r].prev = instances[tx[r].job.inst]
  BY ClaimOf, Locals DEF OInv, TypeOK, RequestType, Claim, Forward, Working
<1>2. \A stage \in {"undoInstall", "undoStop", "reinstall"}, left \in SUBSET Names :
         (stage = "undoInstall" => left = t.installed) => Progress(stage, left, t)
  BY <1>1 DEF Progress, Before, Forward, Saving
<1>3. \A stage \in {"undoInstall", "undoStop", "reinstall"}, left \in SUBSET Names :
         /\ Compared(stage, left, t) = {}
         /\ Installed(stage, left, t) \subseteq tx[r].installed
  BY DEF Compared, Installed, Before
<1>4. \A stage \in {"undoInstall", "undoStop", "reinstall"}, left \in SUBSET Names :
         (stage = "undoInstall" => left = t.installed) =>
             Claim(stage, left, t, files', instances')
  BY <1>1, <1>2, <1>3 DEF Claim
<1>5. t.installed \in SUBSET Names /\ t.started \in SUBSET Names /\ t.removed \in SUBSET Names
  BY DEF Handler
<1>6. \E stage \in {"undoInstall", "undoStop", "reinstall"}, left \in SUBSET Names :
         /\ Go(r, stage, left)
         /\ stage = "undoInstall" => left = t.installed
  BY <1>5 DEF AbortTo
<1>7. Keep(r, t)
  BY DEF AbortTo
<1> QED
  BY <1>4, <1>6, <1>7, Moves DEF OInv

LEMMA AbortMine ==
    ASSUME OInv, NEW r \in Requests, pc[r] \in {"installNew"} \cup Forward,
           NEW t \in Handler, t.job = tx[r].job, t.prev = tx[r].prev,
           t.installed = tx[r].installed, AbortTo(r, t), UNCHANGED files, StoreSame
    PROVE  Mine(r)
<1>1. \A n \in tx[r].installed : files'[n] = tx[r].job.src[n]
  BY ClaimOf DEF Claim, Installed, Forward
<1>2. UNCHANGED instances
  BY StoreOwned
<1> QED
  BY <1>1, <1>2, AbortClaims, StoreOwned DEF Mine, OwnFiles, OwnRecord

--------------------------------------------------------------------------------
(* One lemma per action.                                                        *)

LEMMA ActorOf ==
    ASSUME OInv, NEW r \in Requests, Working(r)
    PROVE  /\ TypeOK /\ tx[r] \in Handler /\ tx[r].job \in Job /\ Transacting(r)
           /\ Inst(r) \in Instances /\ Alive(r) \in BOOLEAN
           /\ pc[r] \in Stages /\ todo[r] \in SUBSET Names
           /\ Progress(pc[r], todo[r], tx[r])
           /\ Claim(pc[r], todo[r], tx[r], files, instances)
           /\ Op(r) = tx[r].job.op /\ Inst(r) = tx[r].job.inst
BY ClaimOf, Locals DEF OInv, Claim, Working, Transacting, Active, Op, Inst

(* Until it installs, a handler claims no more than it has compared.            *)
LEMMA BeforeClaims ==
    ASSUME OInv, NEW r \in Requests, pc[r] \in Before, NEW stage \in Before, NEW S, NEW t,
           stage = "check" => pc[r] = "check",
           stage = "removeOld" => S \subseteq NamesOf(t.prev.src),
           t.job = tx[r].job, t.prev = tx[r].prev, t.installed = tx[r].installed,
           t.seen = tx[r].seen,
           Compared(stage, S, t) \subseteq Compared(pc[r], todo[r], tx[r])
    PROVE  Claim(stage, S, t, files, instances)
<1>1. Working(r) /\ pc[r] # "idle" /\ pc[r] \notin {"done", "lifecycle", "manifest", "readme"}
  BY DEF Before, Working
<1>2. Claim(pc[r], todo[r], tx[r], files, instances)
  BY ClaimOf
<1>3. t.installed = {} /\ t.seen = NothingOn
  BY <1>1, <1>2 DEF Claim, Progress
<1>4. Progress(stage, S, t)
  <2>1. stage \notin {"installNew", "done", "lifecycle"} \cup Forward \cup Saving
    BY DEF Before, Forward, Saving
  <2>2. /\ Owns(t.job.inst, t.job.src)
        /\ t.job.op # "install" => Owns(t.job.inst, t.prev.src)
        /\ stage = "check" => t.job.op # "install"
    BY <1>1, <1>2 DEF Claim, Progress
  <2> QED BY <1>3, <2>1, <2>2 DEF Progress, Before, Forward, Saving
<1>5. Installed(stage, S, t) = {}
  BY <1>3 DEF Installed
<1>6. \A n \in Compared(stage, S, t) : files[n] = t.prev.src[n]
  BY <1>1, <1>2 DEF Claim
<1> QED
  BY <1>1, <1>2, <1>4, <1>5, <1>6 DEF Claim

LEMMA CheckDriftMine ==
    ASSUME OInv, NEW r \in Requests, CheckDrift(r)
    PROVE  Mine(r)
<1>1. Working(r) /\ pc[r] = "check" /\ StoreSame /\ UNCHANGED files
  BY DEF CheckDrift, Visit, Leave, Working, GetQuadlet, HostSame, hostVars
<1>2. CASE Reply(r, "refused")
  BY <1>1, <1>2, ReplyMine DEF Working
<1>3. ASSUME NEW n \in Names, Matches(r, n), Advance(r, n), UNCHANGED tx PROVE Mine(r)
  <2>1. Go(r, "check", todo[r] \ {n}) /\ Keep(r, tx[r])
    BY <1>1, <1>3, KeptLocals DEF Advance, OInv
  <2>2. Compared("check", todo[r] \ {n}, tx[r]) \subseteq Compared("check", todo[r], tx[r]) \cup {n}
    BY DEF Compared
  <2>3. Progress("check", todo[r] \ {n}, tx[r]) /\ Installed("check", todo[r] \ {n}, tx[r]) = {}
    BY <1>1, ActorOf DEF Progress, Installed, Forward, Before, Saving
  <2>4. \A m \in Compared("check", todo[r] \ {n}, tx[r]) : files[m] = tx[r].prev.src[m]
    BY <1>1, <1>3, <2>2, ActorOf DEF Claim, Matches
  <2>5. Claim("check", todo[r] \ {n}, tx[r], files, instances)
    BY <1>1, <2>3, <2>4, ActorOf DEF Claim
  <2> QED BY <1>1, <2>1, <2>5, QuietMine
<1>4. ASSUME Leave(r, "check"), Go(r, "load", {}), UNCHANGED tx PROVE Mine(r)
  <2>1. Keep(r, tx[r])
    BY <1>4, KeptLocals DEF OInv
  <2>2. Compared("load", {}, tx[r]) \subseteq Compared("check", todo[r], tx[r])
    BY <1>4 DEF Compared, Leave, Before
  <2>3. Claim("load", {}, tx[r], files, instances)
    BY <1>1, <2>2, BeforeClaims DEF Before
  <2> QED BY <1>1, <1>4, <2>1, <2>3, QuietMine
<1> QED
  BY <1>2, <1>3, <1>4 DEF CheckDrift

LEMMA LoadMine ==
    ASSUME OInv, NEW r \in Requests, Load(r)
    PROVE  Mine(r)
<1>1. Working(r) /\ pc[r] = "load" /\ StoreSame /\ UNCHANGED files
  BY DEF Load, Leave, Working
<1>2. CASE Reply(r, "failed")
  BY <1>1, <1>2, ReplyMine DEF Working
<1>3. CASE Op(r) = "install" /\ Go(r, "installNew", NamesOf(tx[r].job.src)) /\ UNCHANGED tx
  <2>1. Keep(r, tx[r])
    BY <1>3, KeptLocals DEF OInv
  <2>2. Claim("installNew", NamesOf(tx[r].job.src), tx[r], files, instances)
    BY <1>1, <1>3, ActorOf DEF Claim, Progress, Compared, Installed, Forward, Before, Saving
  <2> QED BY <1>1, <1>3, <2>1, <2>2, QuietMine
<1>4. CASE /\ Op(r) # "install"
           /\ Go(r, "snapshot", NamesOf(instances[Inst(r)].src))
           /\ Keep(r, [tx[r] EXCEPT !.prev = instances[Inst(r)]])
  <2> DEFINE t == [tx[r] EXCEPT !.prev = instances[Inst(r)]]
  <2>1. tx[r].prev = instances[Inst(r)]
    BY <1>1, <1>4, ActorOf DEF Claim
  <2>2. t = tx[r]
    BY <1>1, <2>1, ActorOf DEF Handler
  <2>3. Keep(r, tx[r])
    BY <1>4, <2>2
  <2>4. Compared("snapshot", NamesOf(instances[Inst(r)].src), tx[r])
            = Compared("load", todo[r], tx[r])
    BY <1>1 DEF Compared, Before
  <2>5. Claim("snapshot", NamesOf(instances[Inst(r)].src), tx[r], files, instances)
    BY <1>1, <2>4, BeforeClaims DEF Before
  <2> QED BY <1>1, <1>4, <2>3, <2>5, QuietMine
<1> QED
  BY <1>2, <1>3, <1>4 DEF Load

LEMMA SnapshotMine ==
    ASSUME OInv, NEW r \in Requests, Snapshot(r)
    PROVE  Mine(r)
<1>1. Working(r) /\ pc[r] = "snapshot" /\ StoreSame /\ UNCHANGED files
  BY DEF Snapshot, Visit, Leave, Working, GetQuadlet, HostSame, hostVars
<1>2. CASE Reply(r, "failed")
  BY <1>1, <1>2, ReplyMine DEF Working
<1>3. ASSUME NEW n \in Names, Advance(r, n), Keep(r, [tx[r] EXCEPT !.old[n] = files[n]])
      PROVE  Mine(r)
  <2> DEFINE t == [tx[r] EXCEPT !.old[n] = files[n]]
  <2>1. t.job = tx[r].job /\ t.prev = tx[r].prev /\ t.installed = tx[r].installed /\ t.seen = tx[r].seen
    BY <1>1, ActorOf DEF Handler
  <2>2. Go(r, "snapshot", todo[r] \ {n}) /\ Keep(r, t)
    BY <1>1, <1>3 DEF Advance
  <2> HIDE DEF t
  <2>3. Compared("snapshot", todo[r] \ {n}, t) = Compared("snapshot", todo[r], tx[r])
    BY <2>1 DEF Compared
  <2>4. Claim("snapshot", todo[r] \ {n}, t, files, instances)
    BY <1>1, <2>1, <2>3, BeforeClaims DEF Before
  <2> QED BY <1>1, <2>2, <2>4, QuietMine
<1>4. ASSUME Go(r, "stop", tx[r].prev.units), UNCHANGED tx PROVE Mine(r)
  <2>1. Keep(r, tx[r])
    BY <1>4, KeptLocals DEF OInv
  <2>2. Compared("stop", tx[r].prev.units, tx[r]) = Compared("snapshot", todo[r], tx[r])
    BY DEF Compared, Before
  <2>3. Claim("stop", tx[r].prev.units, tx[r], files, instances)
    BY <1>1, <2>2, BeforeClaims DEF Before
  <2> QED BY <1>1, <1>4, <2>1, <2>3, QuietMine
<1> QED
  BY <1>2, <1>3, <1>4 DEF Snapshot

LEMMA StopUnitMine ==
    ASSUME OInv, NEW r \in Requests, StopUnit(r)
    PROVE  Mine(r)
<1>1. Working(r) /\ pc[r] = "stop" /\ StoreSame /\ UNCHANGED files
  BY DEF StopUnit, Visit, Leave, Working, Stop, HostSame, hostVars
<1>2. CASE Reply(r, "failed")
  BY <1>1, <1>2, ReplyMine DEF Working
<1>3. ASSUME NEW n \in Names, Advance(r, n), UNCHANGED tx PROVE Mine(r)
  <2>1. Go(r, "stop", todo[r] \ {n}) /\ Keep(r, tx[r])
    BY <1>1, <1>3, KeptLocals DEF Advance, OInv
  <2>2. Compared("stop", todo[r] \ {n}, tx[r]) = Compared("stop", todo[r], tx[r])
    BY DEF Compared
  <2>3. Claim("stop", todo[r] \ {n}, tx[r], files, instances)
    BY <1>1, <2>2, BeforeClaims DEF Before
  <2> QED BY <1>1, <2>1, <2>3, QuietMine
<1>4. ASSUME Go(r, "removeOld", NamesOf(tx[r].prev.src)), UNCHANGED tx PROVE Mine(r)
  <2>1. Keep(r, tx[r])
    BY <1>4, KeptLocals DEF OInv
  <2>2. Compared("removeOld", NamesOf(tx[r].prev.src), tx[r]) = Compared("stop", todo[r], tx[r])
    BY DEF Compared, Before
  <2>3. Claim("removeOld", NamesOf(tx[r].prev.src), tx[r], files, instances)
    BY <1>1, <2>2, BeforeClaims DEF Before
  <2> QED BY <1>1, <1>4, <2>1, <2>3, QuietMine
<1> QED
  BY <1>2, <1>3, <1>4 DEF StopUnit

(* What removing or installing one quadlet does to the files.                   *)
LEMMA RemovedFile ==
    ASSUME TypeOK, NEW alive \in BOOLEAN, NEW n \in Names, NEW force \in BOOLEAN,
           NEW err \in BOOLEAN, RemoveQuadlet(alive, n, force, err)
    PROVE  \A m \in Names \ {n} : files'[m] = files[m]
BY DEF TypeOK, HostType, Sources, RemoveQuadlet, Outcome

LEMMA InstalledFile ==
    ASSUME TypeOK, NEW alive \in BOOLEAN, NEW n \in Names, NEW c,
           NEW err \in BOOLEAN, InstallQuadlet(alive, n, c, err)
    PROVE  /\ \A m \in Names : files'[m] # files[m] => m = n /\ files[n] = Absent
           /\ ~err => files[n] = Absent /\ files'[n] = c
<1>1. ~err => files[n] = Absent
  BY DEF InstallQuadlet, Answer
<1>2. files' = files \/ files' = [files EXCEPT ![n] = c]
  BY DEF InstallQuadlet, Outcome
<1>3. files[n] = Absent \/ files' = files
  BY DEF InstallQuadlet, Outcome
<1>4. ~err => files' = [files EXCEPT ![n] = c]
  BY <1>1 DEF InstallQuadlet, Outcome, Answer
<1> QED
  BY <1>1, <1>2, <1>3, <1>4 DEF TypeOK, HostType, Sources

Undo == {"undoStop", "undoInstall", "reinstall", "undoReload", "undoStart", "undoVerify"}

(* A rollback claims no more than before it.                                    *)
LEMMA UndoClaims ==
    ASSUME OInv, NEW r \in Requests, Working(r), pc[r] \notin Saving, NEW stage \in Undo, NEW S, NEW t,
           stage = "undoInstall" => S \subseteq t.installed,
           t.job = tx[r].job, t.prev = tx[r].prev, t.installed = tx[r].installed,
           UNCHANGED instances,
           \A n \in Installed(stage, S, t) :
               n \in Installed(pc[r], todo[r], tx[r]) /\ files'[n] = files[n]
    PROVE  Claim(stage, S, t, files', instances')
<1>1. Claim(pc[r], todo[r], tx[r], files, instances)
  BY ClaimOf
<1>2. pc[r] # "idle" /\ pc[r] \notin {"done", "lifecycle", "manifest", "readme"}
  BY DEF Working, Saving
<1>3. /\ stage \notin {"idle", "done", "lifecycle", "installNew"} \cup Before \cup Forward \cup Saving
  BY DEF Undo, Before, Forward, Saving
<1>4. Progress(stage, S, t)
  <2>1. /\ Owns(t.job.inst, t.job.src) /\ t.installed \subseteq NamesOf(t.job.src)
        /\ t.job.op # "install" => Owns(t.job.inst, t.prev.src)
    BY <1>1, <1>2 DEF Claim, Progress
  <2> QED BY <1>3, <2>1 DEF Progress, Before, Forward, Saving
<1>5. Compared(stage, S, t) = {}
  BY <1>3 DEF Compared
<1>6. \A n \in Installed(stage, S, t) : files'[n] = t.job.src[n]
  BY <1>1, <1>2 DEF Claim
<1>7. t.job.op # "install" => t.prev = instances'[t.job.inst]
  BY <1>1, <1>2 DEF Claim
<1> QED
  BY <1>4, <1>5, <1>6, <1>7 DEF Claim

LEMMA RemoveOldMine ==
    ASSUME OInv, NEW r \in Requests, RemoveOld(r)
    PROVE  Mine(r)
<1>1. /\ Working(r) /\ pc[r] = "removeOld" /\ StoreSame /\ pc[r] \in Before
      /\ Op(r) # "install" /\ pc[r] \notin Saving /\ UNCHANGED instances
  BY Locals, StoreOwned
     DEF RemoveOld, Visit, Leave, Working, Before, Saving, OInv, Fits, Op
<1>2. /\ TypeOK /\ Transacting(r) /\ Alive(r) \in BOOLEAN /\ tx[r] \in Handler
      /\ Claim(pc[r], todo[r], tx[r], files, instances) /\ Progress(pc[r], todo[r], tx[r])
  BY <1>1, ActorOf
<1>3. \A n \in todo[r] : OwnedBy(tx[r].prev.src[n], Inst(r)) /\ files[n] = tx[r].prev.src[n]
  <2>1. todo[r] \subseteq NamesOf(tx[r].prev.src) /\ Owns(Inst(r), tx[r].prev.src)
    BY <1>1, <1>2 DEF Progress, Op, Inst
  <2>2. todo[r] \subseteq Compared("removeOld", todo[r], tx[r])
    BY <1>1, <2>1 DEF Compared, Before, Op, NamesOf
  <2> QED BY <1>1, <1>2, <2>1, <2>2 DEF Claim, Owns
<1>4. ASSUME NEW n \in Names, n \in todo[r], NEW err \in BOOLEAN,
             RemoveQuadlet(Alive(r), n, FALSE, err),
             IF err THEN Go(r, "reinstall", tx[r].removed) /\ UNCHANGED tx
             ELSE Advance(r, n) /\ Keep(r, [tx[r] EXCEPT !.removed = @ \cup {n}])
      PROVE  Mine(r)
  <2>1. \A m \in Names \ {n} : files'[m] = files[m]
    BY <1>2, <1>4, RemovedFile
  <2>2. OwnFiles(r)
    BY <1>2, <1>3, <1>4, <2>1 DEF OwnFiles
  <2>3. CASE Go(r, "reinstall", tx[r].removed) /\ UNCHANGED tx
    <3>1. Keep(r, tx[r]) /\ Installed("reinstall", tx[r].removed, tx[r]) = {}
      BY <1>2, <2>3, KeptLocals DEF Installed, Forward
    <3>2. Claim("reinstall", tx[r].removed, tx[r], files', instances')
      BY <1>1, <3>1, UndoClaims DEF Undo
    <3> QED BY <1>1, <1>2, <2>2, <2>3, <3>1, <3>2, Moves, StoreOwned DEF Mine, OwnRecord
  <2>4. CASE Advance(r, n) /\ Keep(r, [tx[r] EXCEPT !.removed = @ \cup {n}])
    <3> DEFINE t == [tx[r] EXCEPT !.removed = @ \cup {n}]
    <3>1. t.job = tx[r].job /\ t.prev = tx[r].prev /\ t.installed = tx[r].installed /\ t.seen = tx[r].seen
      BY <1>2 DEF Handler
    <3>2. Go(r, "removeOld", todo[r] \ {n}) /\ Keep(r, t)
      BY <1>1, <2>4 DEF Advance
    <3> HIDE DEF t
    <3>3. /\ Compared("removeOld", todo[r] \ {n}, t) \subseteq Compared("removeOld", todo[r], tx[r])
          /\ n \notin Compared("removeOld", todo[r] \ {n}, t)
          /\ Installed("removeOld", todo[r] \ {n}, t) = {}
      BY <3>1 DEF Compared, Installed, Forward
    <3>4. Claim("removeOld", todo[r] \ {n}, t, files, instances)
      <4>1. todo[r] \ {n} \subseteq NamesOf(t.prev.src)
        BY <1>1, <1>2, <3>1 DEF Progress
      <4> QED BY <1>1, <3>1, <3>3, <4>1, BeforeClaims
    <3>5. Claim("removeOld", todo[r] \ {n}, t, files', instances')
      <4>1. \A m \in Compared("removeOld", todo[r] \ {n}, t) : files'[m] = t.prev.src[m]
        BY <2>1, <3>3, <3>4 DEF Claim, Compared
      <4> QED BY <1>1, <3>3, <3>4, <4>1 DEF Claim
    <3> QED BY <1>1, <1>2, <2>2, <3>2, <3>5, Moves, StoreOwned DEF Mine, OwnRecord
  <2> QED BY <1>4, <2>3, <2>4
<1>5. ASSUME IF Op(r) = "update" THEN Go(r, "installNew", NamesOf(tx[r].job.src))
                                 ELSE Go(r, "reload", {}),
             UNCHANGED <<files, tx>>
      PROVE  Mine(r)
  <2>1. Keep(r, tx[r])
    BY <1>2, <1>5, KeptLocals
  <2>2. tx[r].installed = {} /\ tx[r].seen = NothingOn
    BY <1>1, <1>2 DEF Progress
  <2>3. CASE Op(r) = "update" /\ Go(r, "installNew", NamesOf(tx[r].job.src))
    <3>1. Progress("installNew", NamesOf(tx[r].job.src), tx[r])
      BY <1>1, <1>2, <2>2, <2>3 DEF Progress, Before, Forward, Saving, Op
    <3>2. Claim("installNew", NamesOf(tx[r].job.src), tx[r], files, instances)
      BY <1>1, <1>2, <2>2, <3>1 DEF Claim, Compared, Installed, Before
    <3> QED BY <1>1, <1>5, <2>1, <2>3, <3>2, QuietMine
  <2>4. CASE Op(r) = "remove" /\ Go(r, "reload", {})
    <3>1. Progress("reload", {}, tx[r])
      BY <1>1, <1>2, <2>2, <2>4 DEF Progress, Before, Forward, Saving, Op
    <3>2. Claim("reload", {}, tx[r], files, instances)
      BY <1>1, <1>2, <2>2, <3>1 DEF Claim, Compared, Installed, Before
    <3> QED BY <1>1, <1>5, <2>1, <2>4, <3>2, QuietMine
  <2> QED BY <1>1, <1>2, <1>5, <2>3, <2>4 DEF PlanOps, Transacting
<1> QED
  BY <1>4, <1>5 DEF RemoveOld, Visit, First, HostSame, hostVars

(* From the reload to the second listing, what is installed stays.              *)
LEMMA ForwardClaims ==
    ASSUME OInv, NEW r \in Requests, pc[r] \in Forward \ {"capture"},
           NEW stage \in Forward \ {"capture"}, NEW S, NEW t,
           t.job.op = "remove" => stage = "reload",
           t.job = tx[r].job, t.prev = tx[r].prev, t.installed = tx[r].installed,
           t.seen = tx[r].seen
    PROVE  Claim(stage, S, t, files, instances)
<1>1. Claim(pc[r], todo[r], tx[r], files, instances) /\ Progress(pc[r], todo[r], tx[r])
  BY ClaimOf DEF Claim, Forward
<1>2. /\ stage \notin {"idle", "done", "lifecycle", "installNew", "undoInstall", "capture"} \cup Before \cup Saving
      /\ pc[r] \notin {"idle", "done", "lifecycle", "installNew", "capture"} \cup Before \cup Saving
  BY DEF Forward, Before, Saving
<1>3. /\ Owns(t.job.inst, t.job.src) /\ t.installed \subseteq NamesOf(t.job.src)
      /\ t.job.op # "install" => Owns(t.job.inst, t.prev.src)
      /\ t.job.op # "remove" => t.installed = NamesOf(t.job.src)
      /\ t.seen = NothingOn
  BY <1>1, <1>2 DEF Progress
<1>4. Progress(stage, S, t)
  BY <1>2, <1>3 DEF Progress, Before, Forward, Saving
<1>5. Compared(stage, S, t) = {} /\ Installed(stage, S, t) = t.installed
      /\ Installed(pc[r], todo[r], tx[r]) = t.installed
  BY <1>2 DEF Compared, Installed
<1>6. /\ \A n \in t.installed : files[n] = t.job.src[n]
      /\ t.job.op # "install" => t.prev = instances[t.job.inst]
  BY <1>1, <1>2, <1>5 DEF Claim, Saving
<1> QED
  BY <1>4, <1>5, <1>6 DEF Claim

LEMMA InstallNewMine ==
    ASSUME OInv, NEW r \in Requests, InstallNew(r)
    PROVE  Mine(r)
<1>1. Working(r) /\ pc[r] = "installNew" /\ StoreSame /\ UNCHANGED instances
  BY StoreOwned DEF InstallNew, Visit, Leave, Working
<1>2. /\ TypeOK /\ Transacting(r) /\ Alive(r) \in BOOLEAN /\ tx[r] \in Handler
      /\ Claim(pc[r], todo[r], tx[r], files, instances) /\ Progress(pc[r], todo[r], tx[r])
  BY <1>1, ActorOf
<1>3. /\ tx[r].installed = NamesOf(tx[r].job.src) \ todo[r]
      /\ todo[r] \subseteq NamesOf(tx[r].job.src) /\ tx[r].seen = NothingOn
      /\ tx[r].job.op # "remove" /\ Owns(tx[r].job.inst, tx[r].job.src)
      /\ tx[r].job.op # "install" => Owns(tx[r].job.inst, tx[r].prev.src)
      /\ tx[r].job.op # "install" => tx[r].prev = instances[tx[r].job.inst]
      /\ \A n \in tx[r].installed : files[n] = tx[r].job.src[n]
  BY <1>1, <1>2 DEF Progress, Claim, Installed
<1>4. ASSUME NEW n \in Names, n \in todo[r], NEW err \in BOOLEAN,
             InstallQuadlet(Alive(r), n, tx[r].job.src[n], err),
             IF err THEN Abort(r)
             ELSE Advance(r, n) /\ Keep(r, [tx[r] EXCEPT !.installed = @ \cup {n}])
      PROVE  Mine(r)
  <2>1. /\ \A m \in Names : files'[m] # files[m] => m = n /\ files[n] = Absent
        /\ ~err => files[n] = Absent /\ files'[n] = tx[r].job.src[n]
    BY <1>2, <1>4, InstalledFile
  <2>2. OwnFiles(r) /\ OwnRecord(r)
    BY <1>1, <2>1 DEF OwnFiles, OwnRecord
  <2>3. \A m \in tx[r].installed : files'[m] = tx[r].job.src[m]
    BY <1>2, <1>3, <1>4, <2>1 DEF NamesOf
  <2>4. CASE Abort(r)
    BY <1>1, <1>2, <2>2, <2>3, <2>4, AbortClaims, StoreOwned DEF Abort, Mine
  <2>5. CASE ~err /\ Advance(r, n) /\ Keep(r, [tx[r] EXCEPT !.installed = @ \cup {n}])
    <3> DEFINE t == [tx[r] EXCEPT !.installed = @ \cup {n}]
    <3>1. t.job = tx[r].job /\ t.prev = tx[r].prev /\ t.seen = tx[r].seen
          /\ t.installed = tx[r].installed \cup {n}
      BY <1>2 DEF Handler
    <3>2. Go(r, "installNew", todo[r] \ {n}) /\ Keep(r, t)
      BY <1>1, <2>5 DEF Advance
    <3> HIDE DEF t
    <3>3. Progress("installNew", todo[r] \ {n}, t)
      BY <1>3, <1>4, <3>1 DEF Progress, Before, Forward, Saving
    <3>4. \A m \in t.installed : files'[m] = t.job.src[m]
      BY <2>1, <2>3, <2>5, <3>1
    <3>5. Claim("installNew", todo[r] \ {n}, t, files', instances')
      BY <1>1, <1>3, <3>1, <3>3, <3>4 DEF Claim, Compared, Installed, Before
    <3> QED BY <1>1, <1>2, <2>2, <3>2, <3>5, Moves, StoreOwned DEF Mine
  <2> QED BY <1>4, <2>4, <2>5
<1>5. ASSUME todo[r] = {}, Go(r, "reload", {}), UNCHANGED <<files, tx>>
      PROVE  Mine(r)
  <2>1. Keep(r, tx[r])
    BY <1>2, <1>5, KeptLocals
  <2>2. Progress("reload", {}, tx[r])
    BY <1>3, <1>5 DEF Progress, Before, Forward, Saving
  <2>3. Claim("reload", {}, tx[r], files, instances)
    BY <1>3, <2>2 DEF Claim, Compared, Installed, Before
  <2> QED BY <1>1, <1>5, <2>1, <2>3, QuietMine
<1> QED
  BY <1>4, <1>5 DEF InstallNew, Visit, First, Leave, HostSame, hostVars

LEMMA ReloadUnitsMine ==
    ASSUME OInv, NEW r \in Requests, ReloadUnits(r)
    PROVE  Mine(r)
<1>1. /\ Working(r) /\ pc[r] = "reload" /\ StoreSame /\ UNCHANGED files
      /\ pc[r] \in {"installNew"} \cup Forward /\ pc[r] \in Forward \ {"capture"}
  BY DEF ReloadUnits, Leave, Working, Reload, Forward
<1>2. tx[r] \in Handler /\ Transacting(r) /\ TypeOK
  BY <1>1, ActorOf
<1>3. CASE Abort(r)
  BY <1>1, <1>2, <1>3, AbortMine DEF Abort
<1>4. CASE Go(r, IF Op(r) = "remove" THEN "save" ELSE "list", {}) /\ UNCHANGED tx
  <2>1. Keep(r, tx[r])
    BY <1>2, <1>4, KeptLocals
  <2>2. CASE Op(r) = "remove" /\ Go(r, "save", {})
    <3>1. Claim(pc[r], todo[r], tx[r], files, instances) /\ Progress(pc[r], todo[r], tx[r])
      BY <1>1, ActorOf
    <3>2. Progress("save", {}, tx[r])
      BY <1>1, <2>2, <3>1 DEF Progress, Before, Forward, Saving, Op
    <3>3. Compared("save", {}, tx[r]) = {}
          /\ Installed("save", {}, tx[r]) = Installed(pc[r], todo[r], tx[r])
      BY <1>1 DEF Compared, Installed, Before
    <3>4. Claim("save", {}, tx[r], files, instances)
      BY <1>1, <3>1, <3>2, <3>3 DEF Claim
    <3> QED BY <1>1, <2>1, <2>2, <3>4, QuietMine
  <2>3. CASE Op(r) # "remove" /\ Go(r, "list", {})
    <3>1. Claim("list", {}, tx[r], files, instances)
      BY <1>1, <2>3, ForwardClaims DEF Forward, Op
    <3> QED BY <1>1, <2>1, <2>3, <3>1, QuietMine
  <2> QED BY <1>4, <2>2, <2>3
<1> QED
  BY <1>3, <1>4 DEF ReloadUnits

LEMMA FindUnitsMine ==
    ASSUME OInv, NEW r \in Requests, FindUnits(r)
    PROVE  Mine(r)
<1>1. /\ Working(r) /\ pc[r] = "list" /\ StoreSame /\ UNCHANGED files
      /\ pc[r] \in {"installNew"} \cup Forward /\ pc[r] \in Forward \ {"capture"}
  BY DEF FindUnits, ListGenerated, Leave, Working, ListQuadlets, Forward
<1>2. tx[r] \in Handler /\ Transacting(r) /\ TypeOK /\ tx[r].job.op # "remove"
  BY <1>1, ActorOf DEF Progress
<1>3. CASE Abort(r)
  BY <1>1, <1>2, <1>3, AbortMine DEF Abort
<1>4. CASE /\ Go(r, "start", NamesOf(tx[r].job.src) \cap StartNames)
           /\ Keep(r, [tx[r] EXCEPT !.listed = NamesOf(files)])
  <2> DEFINE t == [tx[r] EXCEPT !.listed = NamesOf(files)]
  <2>1. t.job = tx[r].job /\ t.prev = tx[r].prev /\ t.installed = tx[r].installed /\ t.seen = tx[r].seen
    BY <1>2 DEF Handler
  <2>2. Keep(r, t)
    BY <1>4
  <2> HIDE DEF t
  <2>3. \A S : Claim("start", S, t, files, instances)
    BY <1>1, <1>2, <2>1, ForwardClaims DEF Forward
  <2> QED BY <1>1, <1>4, <2>2, <2>3, QuietMine
<1> QED
  BY <1>3, <1>4 DEF FindUnits, ListGenerated

LEMMA StartUnitMine ==
    ASSUME OInv, NEW r \in Requests, StartUnit(r)
    PROVE  Mine(r)
<1>1. /\ Working(r) /\ pc[r] = "start" /\ StoreSame /\ UNCHANGED files
      /\ pc[r] \in {"installNew"} \cup Forward /\ pc[r] \in Forward \ {"capture"}
  BY DEF StartUnit, Visit, Leave, Working, Start, Restart, HostSame, hostVars, Forward
<1>2. tx[r] \in Handler /\ Transacting(r) /\ TypeOK /\ tx[r].job.op # "remove"
  BY <1>1, ActorOf DEF Progress, Forward
<1>3. ASSUME NEW n \in Names, NEW err \in BOOLEAN,
             LET t == [tx[r] EXCEPT !.started = @ \cup {n}] IN
             IF err THEN AbortTo(r, t) ELSE Go(r, "verify", todo[r]) /\ Keep(r, t)
      PROVE  Mine(r)
  <2> DEFINE t == [tx[r] EXCEPT !.started = @ \cup {n}]
  <2>1. t.job = tx[r].job /\ t.prev = tx[r].prev /\ t.installed = tx[r].installed /\ t.seen = tx[r].seen
    BY <1>2 DEF Handler
  <2>2. t \in Handler
    BY <1>2 DEF Handler
  <2>3. AbortTo(r, t) \/ (Go(r, "verify", todo[r]) /\ Keep(r, t))
    BY <1>3
  <2> HIDE DEF t
  <2>4. CASE AbortTo(r, t)
    BY <1>1, <2>1, <2>2, <2>4, AbortMine
  <2>5. CASE Go(r, "verify", todo[r]) /\ Keep(r, t)
    <3>1. Claim("verify", todo[r], t, files, instances)
      BY <1>1, <1>2, <2>1, ForwardClaims DEF Forward
    <3> QED BY <1>1, <2>5, <3>1, QuietMine
  <2> QED BY <2>3, <2>4, <2>5
<1>4. CASE Abort(r)
  BY <1>1, <1>2, <1>4, AbortMine DEF Abort
<1>5. CASE Go(r, "relist", {}) /\ UNCHANGED tx
  <2>1. Keep(r, tx[r]) /\ Claim("relist", {}, tx[r], files, instances)
    BY <1>1, <1>2, <1>5, KeptLocals, ForwardClaims DEF Forward
  <2> QED BY <1>1, <1>5, <2>1, QuietMine
<1> QED
  BY <1>3, <1>4, <1>5 DEF StartUnit

LEMMA VerifyUnitMine ==
    ASSUME OInv, NEW r \in Requests, VerifyUnit(r)
    PROVE  Mine(r)
<1>1. /\ Working(r) /\ pc[r] = "verify" /\ StoreSame /\ UNCHANGED files
      /\ pc[r] \in {"installNew"} \cup Forward /\ pc[r] \in Forward \ {"capture"}
  BY DEF VerifyUnit, Visit, Working, Verify, Forward
<1>2. tx[r] \in Handler /\ Transacting(r) /\ TypeOK /\ tx[r].job.op # "remove"
  BY <1>1, ActorOf DEF Progress, Forward
<1>3. CASE Abort(r)
  BY <1>1, <1>2, <1>3, AbortMine DEF Abort
<1>4. ASSUME NEW n \in Names, Go(r, "start", todo[r] \ {n}), UNCHANGED tx PROVE Mine(r)
  <2>1. Keep(r, tx[r])
    BY <1>2, <1>4, KeptLocals
  <2>2. \A S : Claim("start", S, tx[r], files, instances)
    BY <1>1, <1>2, ForwardClaims DEF Forward
  <2> QED BY <1>1, <1>4, <2>1, <2>2, QuietMine
<1> QED
  BY <1>3, <1>4 DEF VerifyUnit

(* The second listing finds every file that was installed.                      *)
LEMMA RelistMine ==
    ASSUME OInv, NEW r \in Requests, Relist(r)
    PROVE  Mine(r)
<1>1. /\ Working(r) /\ pc[r] = "relist" /\ StoreSame /\ UNCHANGED files
      /\ pc[r] \in {"installNew"} \cup Forward
  BY DEF Relist, ListGenerated, Leave, Working, ListQuadlets, Forward
<1>2. /\ TypeOK /\ tx[r] \in Handler
      /\ Claim(pc[r], todo[r], tx[r], files, instances) /\ Progress(pc[r], todo[r], tx[r])
  BY <1>1, ActorOf
<1>3. /\ tx[r].installed = NamesOf(tx[r].job.src) /\ tx[r].seen = NothingOn
      /\ tx[r].job.op # "remove" /\ Owns(tx[r].job.inst, tx[r].job.src)
      /\ tx[r].job.op # "install" => Owns(tx[r].job.inst, tx[r].prev.src)
      /\ tx[r].job.op # "install" => tx[r].prev = instances[tx[r].job.inst]
      /\ \A n \in tx[r].installed : files[n] = tx[r].job.src[n]
  BY <1>1, <1>2 DEF Progress, Claim, Installed, Before, Forward, Saving
<1>4. CASE Abort(r)
  BY <1>1, <1>2, <1>4, AbortMine DEF Abort
<1>5. CASE /\ Go(r, "capture", NamesOf(tx[r].job.src))
           /\ Keep(r, [tx[r] EXCEPT !.listed = NamesOf(files)])
  <2> DEFINE t == [tx[r] EXCEPT !.listed = NamesOf(files)]
             left == NamesOf(tx[r].job.src)
  <2>1. t.job = tx[r].job /\ t.prev = tx[r].prev /\ t.installed = tx[r].installed /\ t.seen = tx[r].seen
        /\ t.listed = NamesOf(files)
    BY <1>2 DEF Handler
  <2>2. Keep(r, t)
    BY <1>5
  <2> HIDE DEF t
  <2>3. t.seen = [n \in Names |-> IF n \in left THEN Absent ELSE t.job.src[n]]
    BY <1>3, <2>1 DEF NothingOn, NamesOf
  <2>4. left \subseteq t.listed
    BY <1>3, <2>1 DEF NamesOf
  <2>5. Progress("capture", left, t)
    BY <1>3, <2>1, <2>3, <2>4 DEF Progress, Before, Forward, Saving
  <2>6. Claim("capture", left, t, files, instances)
    BY <1>3, <2>1, <2>5 DEF Claim, Compared, Installed, Before
  <2> QED BY <1>1, <1>5, <2>2, <2>6, QuietMine
<1> QED
  BY <1>4, <1>5 DEF Relist, ListGenerated

LEMMA CaptureMine ==
    ASSUME OInv, NEW r \in Requests, Capture(r)
    PROVE  Mine(r)
<1>1. /\ Working(r) /\ pc[r] = "capture" /\ StoreSame /\ UNCHANGED files
      /\ pc[r] \in {"installNew"} \cup Forward
  BY DEF Capture, Visit, Leave, Working, GetQuadlet, HostSame, hostVars, Forward
<1>2. /\ TypeOK /\ tx[r] \in Handler /\ tx[r].job.src \in Sources
      /\ Claim(pc[r], todo[r], tx[r], files, instances) /\ Progress(pc[r], todo[r], tx[r])
  BY <1>1, ActorOf, Locals
<1>3. /\ tx[r].installed = NamesOf(tx[r].job.src) /\ todo[r] \subseteq NamesOf(tx[r].job.src)
      /\ tx[r].job.op # "remove" /\ Owns(tx[r].job.inst, tx[r].job.src)
      /\ tx[r].job.op # "install" => Owns(tx[r].job.inst, tx[r].prev.src)
      /\ tx[r].job.op # "install" => tx[r].prev = instances[tx[r].job.inst]
      /\ NamesOf(tx[r].job.src) \subseteq tx[r].listed
      /\ \A n \in tx[r].installed : files[n] = tx[r].job.src[n]
  BY <1>1, <1>2 DEF Progress, Claim, Installed, Before, Forward, Saving
<1>7. tx[r].seen = [n \in Names |-> IF n \in todo[r] THEN Absent ELSE tx[r].job.src[n]]
  BY <1>1, <1>2 DEF Progress
<1>4. CASE Abort(r)
  BY <1>1, <1>2, <1>4, AbortMine DEF Abort
<1>5. ASSUME NEW n \in todo[r], Advance(r, n), Keep(r, [tx[r] EXCEPT !.seen[n] = files[n]])
      PROVE  Mine(r)
  <2> DEFINE t == [tx[r] EXCEPT !.seen[n] = files[n]]
  <2>1. t.job = tx[r].job /\ t.prev = tx[r].prev /\ t.installed = tx[r].installed
        /\ t.listed = tx[r].listed /\ t.seen = [tx[r].seen EXCEPT ![n] = files[n]]
    BY <1>2 DEF Handler
  <2>2. Go(r, "capture", todo[r] \ {n}) /\ Keep(r, t)
    BY <1>1, <1>5 DEF Advance
  <2> HIDE DEF t
  <2>3. n \in Names /\ files[n] = tx[r].job.src[n]
    BY <1>3 DEF NamesOf
  <2> DEFINE left == todo[r] \ {n}
  <2>4. t.seen = [m \in Names |-> IF m \in left THEN Absent ELSE t.job.src[m]]
    <3> DEFINE want == [m \in Names |-> IF m \in left THEN Absent ELSE t.job.src[m]]
    <3>1. t.seen \in [Names -> Contents \cup {Absent}]
      BY <1>2, <2>1, <2>3 DEF Handler, Sources
    <3>2. ASSUME NEW m \in Names PROVE t.seen[m] = want[m]
      <4>1. CASE m = n
        BY <1>2, <2>1, <2>3, <4>1 DEF Handler, Sources
      <4>2. CASE m # n
        <5>1. t.seen[m] = tx[r].seen[m]
          BY <1>2, <2>1, <4>2 DEF Handler, Sources
        <5>2. tx[r].seen[m] = want[m]
          BY <1>7, <2>1, <4>2
        <5> QED BY <5>1, <5>2
      <4> QED BY <4>1, <4>2
    <3> QED BY <3>1, <3>2
  <2>5. left \subseteq NamesOf(t.job.src)
    BY <1>3, <2>1
  <2>6. Go(r, "capture", left)
    BY <2>2
  <2> HIDE DEF left
  <2>7. Progress("capture", left, t)
    BY <1>3, <2>1, <2>4, <2>5 DEF Progress, Before, Forward, Saving
  <2>8. Claim("capture", left, t, files, instances)
    BY <1>3, <2>1, <2>7 DEF Claim, Compared, Installed, Before
  <2> QED BY <1>1, <2>2, <2>6, <2>8, QuietMine
<1>6. ASSUME todo[r] = {}, Go(r, "save", {}), UNCHANGED tx
      PROVE  Mine(r)
  <2>1. Keep(r, tx[r])
    BY <1>2, <1>6, KeptLocals
  <2>2. tx[r].seen = tx[r].job.src
    BY <1>2, <1>6, <1>7 DEF Sources
  <2>3. Progress("save", {}, tx[r])
    BY <1>3, <2>2 DEF Progress, Before, Forward, Saving
  <2>4. Claim("save", {}, tx[r], files, instances)
    BY <1>3, <2>3 DEF Claim, Compared, Installed, Before
  <2> QED BY <1>1, <1>6, <2>1, <2>4, QuietMine
<1> QED
  BY <1>4, <1>5, <1>6 DEF Capture, Visit, First, Leave

(* Recording and documenting: the record becomes what the transaction wanted,   *)
(* which its own instance authored.                                             *)
LEMMA SavedClaims ==
    ASSUME OInv, NEW r \in Requests, pc[r] \in Saving, NEW stage \in {"manifest", "readme"},
           NEW onDisk, NEW records
    PROVE  Claim(stage, {}, tx[r], onDisk, records)
<1>1. Progress(pc[r], todo[r], tx[r]) /\ pc[r] \notin {"done", "lifecycle"}
  BY ClaimOf DEF Claim, Saving
<1>2. Progress(stage, {}, tx[r])
  BY <1>1 DEF Progress, Before, Forward, Saving
<1>3. Compared(stage, {}, tx[r]) = {} /\ Installed(stage, {}, tx[r]) = {}
  BY DEF Compared, Installed, Before, Forward
<1> QED
  BY <1>2, <1>3 DEF Claim

LEMMA NewRecordOwned ==
    ASSUME OInv, NEW r \in Requests, pc[r] \in Saving
    PROVE  NewRecord(tx[r]) \in Record /\ Owns(Inst(r), NewRecord(tx[r]).src)
<1>1. Working(r) /\ pc[r] \notin {"idle", "done", "lifecycle"}
  BY DEF Saving, Working
<1>2. /\ tx[r] \in Handler /\ Op(r) \in PlanOps /\ Progress(pc[r], todo[r], tx[r])
      /\ Op(r) \in {"update", "remove"} => tx[r].prev \in Record
  BY <1>1, Locals, ActorOf DEF OInv
<1>3. CASE Op(r) = "remove"
  <2>1. NewRecord(tx[r]) = [tx[r].prev EXCEPT !.removed = TRUE] /\ tx[r].prev \in Record
    BY <1>2, <1>3 DEF NewRecord, Op
  <2>2. Owns(Inst(r), tx[r].prev.src)
    BY <1>1, <1>2, <1>3 DEF Progress, Op, Inst
  <2> QED BY <2>1, <2>2 DEF Record
<1>4. CASE Op(r) # "remove"
  <2>1. NewRecord(tx[r]) = [src |-> tx[r].seen, units |-> NamesOf(tx[r].seen) \cap tx[r].listed,
                            removed |-> FALSE]
    BY <1>4 DEF NewRecord, Op
  <2>2. tx[r].seen \in Sources /\ NamesOf(tx[r].seen) \cap tx[r].listed \in SUBSET Names
    BY <1>2, NamesOfType DEF Handler
  <2>3. Owns(Inst(r), tx[r].seen)
    BY <1>2, <1>4 DEF Progress, Op, Inst
  <2> QED BY <2>1, <2>2, <2>3 DEF Record
<1> QED
  BY <1>3, <1>4

LEMMA SaveInstanceMine ==
    ASSUME OInv, NEW r \in Requests, SaveInstance(r)
    PROVE  Mine(r)
<1>1. /\ Working(r) /\ pc[r] = "save" /\ pc[r] \in Saving
      /\ UNCHANGED <<files, units, plans, docs, envVars>>
  BY DEF SaveInstance, Leave, Working, Saving
<1>2. TypeOK /\ Transacting(r) /\ PlansOwned'
  BY <1>1, ActorOf DEF OInv, PlansOwned
<1>3. CASE Unrecorded(r) /\ UNCHANGED instances
  <2>1. /\ Others(r)
        /\ Claim(pc'[r], todo'[r], tx'[r], files', instances')
    BY <1>1, <1>3, ReplyClaims DEF Unrecorded
  <2>2. RecordsOwned'
    BY <1>3 DEF OInv, RecordsOwned, Managed
  <2> QED BY <1>1, <1>2, <1>3, <2>1, <2>2 DEF Mine, OwnFiles, OwnRecord
<1>4. CASE /\ instances' = [instances EXCEPT ![Inst(r)] = NewRecord(tx[r])]
           /\ Go(r, "manifest", {}) /\ UNCHANGED tx
  <2>1. Keep(r, tx[r]) /\ Claim("manifest", {}, tx[r], files', instances')
    BY <1>1, <1>2, <1>4, KeptLocals, SavedClaims
  <2>2. Others(r) /\ Claim(pc'[r], todo'[r], tx'[r], files', instances')
    BY <1>2, <1>4, <2>1, Moves
  <2>3. \A i \in Instances :
           instances'[i] = IF i = Inst(r) THEN NewRecord(tx[r]) ELSE instances[i]
    BY <1>2, <1>4 DEF TypeOK, StoreType
  <2>4. RecordsOwned'
    BY <1>1, <2>3, NewRecordOwned DEF OInv, RecordsOwned, Managed
  <2>5. OwnRecord(r)
    BY <1>2, <2>3 DEF OwnRecord
  <2> QED BY <1>1, <1>2, <2>2, <2>4, <2>5 DEF Mine, OwnFiles
<1> QED
  BY <1>3, <1>4 DEF SaveInstance

LEMMA WriteManifestMine ==
    ASSUME OInv, NEW r \in Requests, WriteManifest(r)
    PROVE  Mine(r)
<1>1. /\ Working(r) /\ pc[r] = "manifest" /\ pc[r] \in Saving
      /\ UNCHANGED <<files, units, instances, plans, envVars>>
  BY DEF WriteManifest, Leave, Working, Saving
<1>2. TypeOK /\ PlansOwned' /\ RecordsOwned'
  BY <1>1 DEF OInv, PlansOwned, RecordsOwned, Managed
<1>3. CASE Unrecorded(r)
  BY <1>1, <1>2, <1>3, ReplyClaims DEF Unrecorded, Mine, OwnFiles, OwnRecord
<1>4. CASE Go(r, "readme", {}) /\ UNCHANGED tx
  <2>1. Keep(r, tx[r]) /\ Claim("readme", {}, tx[r], files', instances')
    BY <1>1, <1>2, <1>4, KeptLocals, SavedClaims
  <2> QED BY <1>1, <1>2, <1>4, <2>1, Moves DEF Mine, OwnFiles, OwnRecord
<1> QED
  BY <1>3, <1>4 DEF WriteManifest

LEMMA WriteReadmeMine ==
    ASSUME OInv, NEW r \in Requests, WriteReadme(r)
    PROVE  Mine(r)
<1>1. Working(r) /\ pc[r] = "readme" /\ UNCHANGED <<files, units, instances, envVars>>
  BY DEF WriteReadme, Leave, Working
<1>2. tx[r] \in Handler /\ RecordsOwned'
  BY <1>1, ActorOf DEF OInv, RecordsOwned, Managed
<1>3. PlansOwned'
  <2>1. plans' = plans \/ \E err \in BOOLEAN : plans' = [plans EXCEPT ![tx[r].id] = NoPlan]
    BY DEF WriteReadme
  <2> QED BY <2>1 DEF OInv, TypeOK, StoreType, PlansOwned
<1>4. \E x : Reply(r, x)
  BY DEF WriteReadme, Unrecorded
<1> QED
  BY <1>1, <1>2, <1>3, <1>4, ReplyClaims DEF Working, Mine, OwnFiles, OwnRecord

(* A step of a rollback that leaves the files alone.                            *)
LEMMA UndoQuietMine ==
    ASSUME OInv, NEW r \in Requests, Working(r), pc[r] \notin Saving, NEW stage \in Undo, NEW S,
           NEW t, stage = "undoInstall" => S \subseteq t.installed,
           t.job = tx[r].job, t.prev = tx[r].prev, t.installed = tx[r].installed,
           Installed(stage, S, t) \subseteq Installed(pc[r], todo[r], tx[r]),
           Go(r, stage, S), Keep(r, t), UNCHANGED files, StoreSame
    PROVE  Mine(r)
<1>1. Claim(stage, S, t, files', instances')
  BY StoreOwned, UndoClaims
<1>2. UNCHANGED instances
  BY StoreOwned
<1> QED
  BY <1>1, <1>2, QuietMine

LEMMA RollbackErrorKeeps ==
    ASSUME TypeOK, NEW r \in Requests, NEW err, RollbackError(r, err)
    PROVE  \E t : /\ Keep(r, t) /\ t.job = tx[r].job /\ t.prev = tx[r].prev
                  /\ t.installed = tx[r].installed
<1> DEFINE t == [tx[r] EXCEPT !.rbErr = @ \/ err]
<1>1. t.job = tx[r].job /\ t.prev = tx[r].prev /\ t.installed = tx[r].installed
  BY DEF TypeOK, RequestType, Handler
<1>2. Keep(r, t)
  BY DEF RollbackError
<1> QED
  BY <1>1, <1>2

LEMMA UndoStopMine ==
    ASSUME OInv, NEW r \in Requests, UndoStop(r)
    PROVE  Mine(r)
<1>1. Working(r) /\ pc[r] = "undoStop" /\ StoreSame /\ UNCHANGED files /\ pc[r] \notin Saving
  BY DEF UndoStop, VisitBack, Leave, Working, Stop, HostSame, hostVars, Saving
<1>2. TypeOK
  BY DEF OInv
<1>3. ASSUME NEW n \in Names, NEW err \in BOOLEAN, Advance(r, n), RollbackError(r, err)
      PROVE  Mine(r)
  <2>1. PICK t : /\ Keep(r, t) /\ t.job = tx[r].job /\ t.prev = tx[r].prev
                 /\ t.installed = tx[r].installed
    BY <1>2, <1>3, RollbackErrorKeeps
  <2>2. Go(r, "undoStop", todo[r] \ {n})
    BY <1>1, <1>3 DEF Advance
  <2>3. Installed("undoStop", todo[r] \ {n}, t) \subseteq Installed(pc[r], todo[r], tx[r])
    BY <1>1, <2>1 DEF Installed
  <2> QED BY <1>1, <2>1, <2>2, <2>3, UndoQuietMine DEF Undo
<1>4. CASE Go(r, "undoInstall", tx[r].installed) /\ UNCHANGED tx
  <2>1. Keep(r, tx[r])
    BY <1>2, <1>4, KeptLocals
  <2>2. Installed("undoInstall", tx[r].installed, tx[r]) \subseteq Installed(pc[r], todo[r], tx[r])
    BY <1>1 DEF Installed
  <2> QED BY <1>1, <1>4, <2>1, <2>2, UndoQuietMine DEF Undo
<1> QED
  BY <1>3, <1>4 DEF UndoStop

(* The forced removal of the rollback removes what this handler installed.      *)
LEMMA UndoInstallMine ==
    ASSUME OInv, NEW r \in Requests, UndoInstall(r)
    PROVE  Mine(r)
<1>1. /\ Working(r) /\ pc[r] = "undoInstall" /\ StoreSame /\ pc[r] \notin Saving
      /\ UNCHANGED instances
  BY StoreOwned DEF UndoInstall, VisitBack, Leave, Working, Saving
<1>2. /\ TypeOK /\ Transacting(r) /\ Alive(r) \in BOOLEAN /\ Op(r) \in PlanOps
      /\ todo[r] \subseteq tx[r].installed
      /\ Claim(pc[r], todo[r], tx[r], files, instances)
      /\ Progress(pc[r], todo[r], tx[r])
  BY <1>1, ActorOf DEF Progress, Transacting
<1>3. \A n \in todo[r] : OwnedBy(files[n], Inst(r))
  <2>1. tx[r].installed \subseteq NamesOf(tx[r].job.src) /\ Owns(Inst(r), tx[r].job.src)
    BY <1>2 DEF Progress, Inst
  <2>2. \A n \in todo[r] : files[n] = tx[r].job.src[n]
    BY <1>1, <1>2 DEF Claim, Installed
  <2> QED BY <1>2, <2>1, <2>2 DEF Owns
<1>4. ASSUME NEW n \in Names, n \in todo[r], NEW err \in BOOLEAN,
             RemoveQuadlet(Alive(r), n, Op(r) = "install", err), Advance(r, n), RollbackError(r, err)
      PROVE  Mine(r)
  <2>1. \A m \in Names \ {n} : files'[m] = files[m]
    BY <1>2, <1>4, RemovedFile
  <2>2. OwnFiles(r) /\ OwnRecord(r)
    BY <1>1, <1>2, <1>3, <1>4, <2>1 DEF OwnFiles, OwnRecord
  <2>3. PICK t : /\ Keep(r, t) /\ t.job = tx[r].job /\ t.prev = tx[r].prev
                 /\ t.installed = tx[r].installed
    BY <1>2, <1>4, RollbackErrorKeeps
  <2>4. Go(r, "undoInstall", todo[r] \ {n})
    BY <1>1, <1>4 DEF Advance
  <2>5. \A m \in Installed("undoInstall", todo[r] \ {n}, t) :
           m \in Installed(pc[r], todo[r], tx[r]) /\ files'[m] = files[m]
    <3>1. tx[r].installed \subseteq Names
      BY <1>2 DEF Progress, NamesOf
    <3> QED BY <1>1, <2>1, <2>3, <3>1 DEF Installed, Forward
  <2>6. Claim("undoInstall", todo[r] \ {n}, t, files', instances')
    <3>1. todo[r] \ {n} \subseteq t.installed
      BY <1>2, <2>3
    <3> QED BY <1>1, <2>3, <2>5, <3>1, UndoClaims DEF Undo
  <2> QED BY <1>1, <1>2, <2>2, <2>3, <2>4, <2>6, Moves, StoreOwned DEF Mine
<1>5. ASSUME IF Op(r) = "install" THEN Go(r, "undoReload", {})
                                  ELSE Go(r, "reinstall", NamesOf(tx[r].old)),
             UNCHANGED <<files, tx>>
      PROVE  Mine(r)
  <2>1. Keep(r, tx[r])
    BY <1>2, <1>5, KeptLocals
  <2>2. \A S : /\ Installed("undoReload", S, tx[r]) = {}
               /\ Installed("reinstall", S, tx[r]) = {}
    BY DEF Installed, Forward
  <2>3. CASE Go(r, "undoReload", {})
    BY <1>1, <1>5, <2>1, <2>2, <2>3, UndoQuietMine DEF Undo
  <2>4. CASE Go(r, "reinstall", NamesOf(tx[r].old))
    BY <1>1, <1>5, <2>1, <2>2, <2>4, UndoQuietMine DEF Undo
  <2> QED BY <1>5, <2>3, <2>4
<1> QED
  BY <1>4, <1>5 DEF UndoInstall, VisitBack, Last, HostSame, hostVars

(* The previous sources come back only where nothing is.                        *)
LEMMA ReinstallMine ==
    ASSUME OInv, NEW r \in Requests, Reinstall(r)
    PROVE  Mine(r)
<1>1. /\ Working(r) /\ pc[r] = "reinstall" /\ StoreSame /\ pc[r] \notin Saving
      /\ UNCHANGED instances
  BY StoreOwned DEF Reinstall, Visit, Leave, Working, Saving
<1>2. TypeOK /\ Alive(r) \in BOOLEAN
  BY <1>1, ActorOf
<1>3. \A S, t : Installed("reinstall", S, t) = {} /\ Installed("undoReload", S, t) = {}
  BY DEF Installed, Forward
<1>4. ASSUME NEW n \in Names, NEW err \in BOOLEAN,
             InstallQuadlet(Alive(r), n, tx[r].old[n], err), Advance(r, n), RollbackError(r, err)
      PROVE  Mine(r)
  <2>1. OwnFiles(r) /\ OwnRecord(r)
    BY <1>1, <1>2, <1>4, InstalledFile DEF OwnFiles, OwnRecord
  <2>2. PICK t : /\ Keep(r, t) /\ t.job = tx[r].job /\ t.prev = tx[r].prev
                 /\ t.installed = tx[r].installed
    BY <1>2, <1>4, RollbackErrorKeeps
  <2>3. Go(r, "reinstall", todo[r] \ {n})
    BY <1>1, <1>4 DEF Advance
  <2>4. Claim("reinstall", todo[r] \ {n}, t, files', instances')
    BY <1>1, <1>3, <2>2, UndoClaims DEF Undo
  <2> QED BY <1>1, <1>2, <2>1, <2>2, <2>3, <2>4, Moves, StoreOwned DEF Mine
<1>5. CASE Go(r, "undoReload", {}) /\ UNCHANGED <<files, tx>>
  <2>1. Keep(r, tx[r])
    BY <1>2, <1>5, KeptLocals
  <2> QED BY <1>1, <1>3, <1>5, <2>1, UndoQuietMine DEF Undo
<1> QED
  BY <1>4, <1>5 DEF Reinstall, HostSame, hostVars

(* The end of a rollback may say that the instance is suspect, no more.         *)
LEMMA StoreKept ==
    ASSUME OInv, UNCHANGED <<storeVars, envVars>>
    PROVE  RecordsOwned' /\ PlansOwned' /\ UNCHANGED instances
BY DEF OInv, storeVars, RecordsOwned, PlansOwned, Managed

LEMMA RestartClaims ==
    ASSUME OInv, NEW r \in Requests, Working(r), pc[r] \notin Saving,
           NEW stage \in {"undoStart", "undoVerify"}, NEW S, Go(r, stage, S),
           NEW err, RollbackError(r, err), UNCHANGED <<files, storeVars, envVars>>
    PROVE  Mine(r)
<1>1. PICK t : /\ Keep(r, t) /\ t.job = tx[r].job /\ t.prev = tx[r].prev
               /\ t.installed = tx[r].installed
  BY RollbackErrorKeeps DEF OInv
<1>2. Installed(stage, S, t) = {}
  BY DEF Installed, Forward
<1>3. Claim(stage, S, t, files', instances')
  BY <1>1, <1>2, UndoClaims, StoreKept DEF Undo
<1> QED
  BY <1>1, <1>3, Moves, StoreKept DEF OInv, Mine, OwnFiles, OwnRecord

LEMMA EndRollbackMine ==
    ASSUME OInv, NEW r \in Requests, pc[r] # "idle", NEW failed, EndRollback(r, failed),
           UNCHANGED <<files, storeVars, envVars>>
    PROVE  Mine(r)
<1>1. \E x : Reply(r, x)
  BY DEF EndRollback
<1> QED
  BY <1>1, ReplyClaims, StoreKept DEF Mine, OwnFiles, OwnRecord

LEMMA UndoReloadMine ==
    ASSUME OInv, NEW r \in Requests, UndoReload(r)
    PROVE  Mine(r)
<1>1. Working(r) /\ pc[r] = "undoReload" /\ pc[r] \notin Saving
      /\ UNCHANGED <<files, storeVars, envVars>>
  BY DEF UndoReload, Leave, Working, Saving, Reload
<1>2. PICK err \in BOOLEAN :
         IF Op(r) = "install" THEN EndRollback(r, err)
         ELSE /\ Go(r, "undoStart", tx[r].prev.units)
              /\ RollbackError(r, err) /\ UNCHANGED suspect
  BY DEF UndoReload
<1> QED
  BY <1>1, <1>2, RestartClaims, EndRollbackMine

LEMMA UndoStartMine ==
    ASSUME OInv, NEW r \in Requests, UndoStart(r)
    PROVE  Mine(r)
<1>1. Working(r) /\ pc[r] = "undoStart" /\ pc[r] \notin Saving
      /\ UNCHANGED <<files, storeVars, envVars>>
  BY DEF UndoStart, Visit, Leave, Working, Saving, Start, Restart, HostSame, hostVars
<1>2. ASSUME NEW n \in Names, NEW err \in BOOLEAN, RollbackError(r, err),
             IF err THEN Advance(r, n) ELSE Go(r, "undoVerify", todo[r])
      PROVE  Mine(r)
  <2>1. Go(r, "undoStart", todo[r] \ {n}) \/ Go(r, "undoVerify", todo[r])
    BY <1>1, <1>2 DEF Advance
  <2> QED BY <1>1, <1>2, <2>1, RestartClaims
<1>3. CASE EndRollback(r, FALSE)
  BY <1>1, <1>3, EndRollbackMine
<1> QED
  BY <1>2, <1>3 DEF UndoStart

LEMMA UndoVerifyMine ==
    ASSUME OInv, NEW r \in Requests, UndoVerify(r)
    PROVE  Mine(r)
<1>1. Working(r) /\ pc[r] = "undoVerify" /\ pc[r] \notin Saving
      /\ UNCHANGED <<files, storeVars, envVars>>
  BY DEF UndoVerify, Visit, Working, Saving, Verify, StoreSame
<1>2. PICK n \in Names, err \in BOOLEAN :
         RollbackError(r, err) /\ Go(r, "undoStart", todo[r] \ {n})
  BY DEF UndoVerify
<1> QED
  BY <1>1, <1>2, RestartClaims

LEMMA LifecycleStepMine ==
    ASSUME OInv, NEW r \in Requests, LifecycleStep(r)
    PROVE  Mine(r)
<1>1. pc[r] = "lifecycle" /\ StoreSame /\ UNCHANGED files /\ TypeOK
  BY DEF LifecycleStep, Visit, Leave, Start, Stop, Restart, HostSame, hostVars, OInv
<1>2. CASE \E x : Reply(r, x)
  BY <1>1, <1>2, ReplyMine
<1>3. ASSUME NEW n \in Names, Advance(r, n), UNCHANGED tx PROVE Mine(r)
  <2>1. Keep(r, tx[r]) /\ Go(r, "lifecycle", todo[r] \ {n})
    BY <1>1, <1>3, KeptLocals DEF Advance
  <2>2. Progress("lifecycle", todo[r], tx[r])
    BY <1>1, ClaimOf DEF Claim
  <2>3. Progress("lifecycle", todo[r] \ {n}, tx[r])
    BY <2>2 DEF Progress, Before, Forward, Saving
  <2>4. Claim("lifecycle", todo[r] \ {n}, tx[r], files, instances)
    BY <2>3 DEF Claim, Compared, Installed, Before, Forward
  <2> QED BY <1>1, <2>1, <2>4, QuietMine
<1> QED
  BY <1>2, <1>3 DEF LifecycleStep

LEMMA StepMine ==
    ASSUME OInv, NEW r \in Requests, Step(r)
    PROVE  Mine(r)
BY CheckDriftMine, LoadMine, SnapshotMine, StopUnitMine, RemoveOldMine, InstallNewMine,
   ReloadUnitsMine, FindUnitsMine, StartUnitMine, VerifyUnitMine, RelistMine, CaptureMine,
   SaveInstanceMine, WriteManifestMine, WriteReadmeMine, UndoStopMine, UndoInstallMine,
   ReinstallMine, UndoReloadMine, UndoStartMine, UndoVerifyMine, LifecycleStepMine
   DEF Step

--------------------------------------------------------------------------------
(* Plans, the beginning and the end of a handler, and the environment.          *)

LEMMA RenderedOwned ==
    ASSUME NEW i \in Instances, NEW v \in Catalog[i]
    PROVE  Owns(i, Rendered(i, v)) /\ Owns(i, NothingOn)
<1>1. v \in Versions /\ Manifest[v] \subseteq Family(i)
  BY EngineAssumption DEF Family
<1> QED
  BY <1>1 DEF Owns, OwnedBy, Rendered, NamesOf, NothingOn

LEMMA SameRequestsClaims ==
    ASSUME OInv, UNCHANGED <<files, requestVars, instances>>
    PROVE  RecordsOwned' /\ Claims'
BY DEF OInv, requestVars, RecordsOwned, Managed, Claims, Claim

LEMMA CreatePlanOwned ==
    ASSUME OInv, NEW id \in PlanIds, NEW op \in Ops, NEW i \in Instances, NEW v \in Versions,
           NEW misread \in BOOLEAN, CreatePlan(id, op, i, v, misread)
    PROVE  RecordsOwned' /\ PlansOwned' /\ Claims'
<1> DEFINE p == [op |-> op, inst |-> i,
                 src |-> IF op = "remove" THEN NothingOn ELSE Rendered(i, v),
                 drift |-> op # "install" /\ Live(i) /\ (misread \/ Drifted(i)), valid |-> TRUE]
<1>1. plans' = [plans EXCEPT ![id] = p] /\ UNCHANGED <<files, requestVars, instances>>
  BY DEF CreatePlan
<1>2. Owns(p.inst, p.src)
  <2>1. v \in Catalog[i] /\ Owns(i, NothingOn)
    BY DEF CreatePlan, Owns, NamesOf, NothingOn
  <2> QED BY <2>1, RenderedOwned
<1> HIDE DEF p
<1>3. PlansOwned'
  BY <1>1, <1>2 DEF OInv, TypeOK, StoreType, PlansOwned
<1> QED
  BY <1>1, <1>3, SameRequestsClaims

LEMMA SpoilPlanOwned ==
    ASSUME OInv, NEW id \in PlanIds, SpoilPlan(id)
    PROVE  RecordsOwned' /\ PlansOwned' /\ Claims'
<1>1. /\ plans' = [plans EXCEPT ![id].valid = FALSE] /\ plans[id] \in Plan
      /\ UNCHANGED <<files, requestVars, instances>>
  BY DEF SpoilPlan, HostSame, hostVars, OInv, TypeOK, StoreType, Runnable
<1>2. \A j \in PlanIds : plans'[j] # NoPlan =>
         plans[j] # NoPlan /\ plans'[j].inst = plans[j].inst /\ plans'[j].src = plans[j].src
  <2>1. plans[id] # NoPlan
    BY DEF SpoilPlan, Runnable
  <2> QED BY <1>1, <2>1 DEF OInv, TypeOK, StoreType, Plan
<1>3. PlansOwned'
  BY <1>2 DEF OInv, PlansOwned
<1> QED
  BY <1>1, <1>3, SameRequestsClaims

LEMMA ExecutePlanMine ==
    ASSUME OInv, NEW r \in Requests, NEW id \in PlanIds, ExecutePlan(r, id)
    PROVE  Mine(r)
<1> DEFINE p == plans[id]
           prev == IF p.op = "install" THEN NoRecord ELSE instances[p.inst]
           t == [Blank EXCEPT !.id = id, !.job = p, !.prev = prev]
<1>1. /\ StoreSame /\ UNCHANGED files /\ pc[r] = "idle" /\ p \in Plan /\ TypeOK
      /\ Owns(p.inst, p.src)
  BY DEF ExecutePlan, HostSame, hostVars, OInv, TypeOK, StoreType, PlansOwned
<1>2. t.job = p /\ t.prev = prev /\ t.installed = {} /\ t.seen = NothingOn
  BY DEF Blank
<1>3. \/ Go(r, "done", {}) /\ Keep(r, [t EXCEPT !.answer = "refused"])
      \/ p.op = "install" /\ Go(r, "load", {}) /\ Keep(r, t)
      \/ p.op # "install" /\ Managed(p.inst) /\ Go(r, "check", NamesOf(prev.src)) /\ Keep(r, t)
  BY <1>1 DEF ExecutePlan, Refuses, Blank
<1>4. CASE Go(r, "done", {}) /\ Keep(r, [t EXCEPT !.answer = "refused"])
  <2> DEFINE u == [t EXCEPT !.answer = "refused"]
  <2>1. u.job = p /\ u.installed = {}
    BY DEF Blank
  <2>2. Keep(r, u)
    BY <1>4
  <2> HIDE DEF u, p
  <2>3. Claim("done", {}, u, files, instances)
    BY <1>1, <2>1 DEF Claim, Progress, Compared, Installed, Before, Forward, Saving
  <2> QED BY <1>1, <1>4, <2>2, <2>3, QuietMine
<1>5. CASE p.op = "install" /\ Go(r, "load", {}) /\ Keep(r, t)
  <2> HIDE DEF t, p
  <2>1. Progress("load", {}, t)
    BY <1>1, <1>2, <1>5 DEF Progress, Before, Forward, Saving
  <2>2. Claim("load", {}, t, files, instances)
    BY <1>2, <1>5, <2>1 DEF Claim, Compared, Installed
  <2> QED BY <1>1, <1>5, <2>2, QuietMine
<1>6. CASE p.op # "install" /\ Managed(p.inst) /\ Go(r, "check", NamesOf(prev.src)) /\ Keep(r, t)
  <2>1. prev = instances[p.inst] /\ Owns(p.inst, prev.src)
    BY <1>1, <1>6 DEF OInv, RecordsOwned, Plan
  <2> HIDE DEF t, p, prev
  <2>2. Progress("check", NamesOf(prev.src), t)
    BY <1>1, <1>2, <1>6, <2>1 DEF Progress, Before, Forward, Saving
  <2>3. Claim("check", NamesOf(prev.src), t, files, instances)
    BY <1>2, <2>1, <2>2 DEF Claim, Compared, Installed
  <2> QED BY <1>1, <1>6, <2>3, QuietMine
<1> QED
  BY <1>3, <1>4, <1>5, <1>6

LEMMA LifecycleMine ==
    ASSUME OInv, NEW r \in Requests, NEW i \in Instances, NEW action \in Ops,
           Lifecycle(r, i, action)
    PROVE  Mine(r)
<1> DEFINE job == [op |-> action, inst |-> i, src |-> NothingOn, drift |-> FALSE, valid |-> TRUE]
           t == [Blank EXCEPT !.job = job]
<1>1. StoreSame /\ UNCHANGED files
  BY DEF Lifecycle, HostSame, hostVars
<1>2. \E S, x : \/ Go(r, "lifecycle", S) /\ Keep(r, t)
                \/ Go(r, "done", {}) /\ Keep(r, [t EXCEPT !.answer = x])
  BY DEF Lifecycle
<1>3. \A u : u.job = job /\ u.installed = {} =>
         \A S : Claim("lifecycle", S, u, files, instances) /\ Claim("done", S, u, files, instances)
  <2> SUFFICES ASSUME NEW u, u.job = job, u.installed = {}, NEW S, NEW stage \in {"lifecycle", "done"}
               PROVE  Claim(stage, S, u, files, instances)
    OBVIOUS
  <2>1. Owns(u.job.inst, u.job.src)
    <3>1. u.job.src = NothingOn /\ NamesOf(NothingOn) = {}
      BY DEF NamesOf, NothingOn
    <3> QED BY <3>1 DEF Owns
  <2>2. Progress(stage, S, u)
    BY <2>1 DEF Progress, Before, Forward, Saving
  <2>3. Compared(stage, S, u) = {} /\ Installed(stage, S, u) = {}
    BY DEF Compared, Installed, Before
  <2> QED BY <2>2, <2>3 DEF Claim
<1>4. t.job = job /\ t.installed = {}
  BY DEF Blank
<1>5. \A x : [t EXCEPT !.answer = x].job = job /\ [t EXCEPT !.answer = x].installed = {}
  BY DEF Blank
<1> HIDE DEF t, job
<1> QED
  BY <1>1, <1>2, <1>3, <1>4, <1>5, QuietMine

LEMMA AnsweredMine ==
    ASSUME OInv, NEW r \in Requests, Answered(r)
    PROVE  Mine(r)
<1>1. Go(r, "idle", {}) /\ Keep(r, Blank) /\ StoreSame /\ UNCHANGED files
  BY DEF Answered, HostSame, hostVars
<1>2. Claim("idle", {}, Blank, files, instances)
  BY DEF Claim
<1> QED
  BY <1>1, <1>2, QuietMine

LEMMA HangUpMine ==
    ASSUME OInv, NEW r \in Requests, HangUp(r)
    PROVE  Mine(r)
<1> DEFINE t == [tx[r] EXCEPT !.alive = FALSE]
<1>1. Keep(r, t) /\ StoreSame /\ UNCHANGED <<files, pc, todo>>
  BY DEF HangUp, HostSame, hostVars
<1>2. t.job = tx[r].job /\ t.prev = tx[r].prev /\ t.installed = tx[r].installed
      /\ t.seen = tx[r].seen /\ t.listed = tx[r].listed
  BY DEF OInv, TypeOK, RequestType, Handler
<1>3. Go(r, pc[r], todo[r])
  BY <1>1 DEF Go, OInv, TypeOK, RequestType
<1> HIDE DEF t
<1>4. Claim(pc[r], todo[r], t, files, instances)
  <2>1. Claim(pc[r], todo[r], tx[r], files, instances)
    BY ClaimOf
  <2>2. Progress(pc[r], todo[r], tx[r]) => Progress(pc[r], todo[r], t)
    BY <1>2 DEF Progress
  <2>3. /\ Compared(pc[r], todo[r], t) = Compared(pc[r], todo[r], tx[r])
        /\ Installed(pc[r], todo[r], t) = Installed(pc[r], todo[r], tx[r])
    BY <1>2 DEF Compared, Installed
  <2> QED BY <1>2, <2>1, <2>2, <2>3 DEF Claim
<1> QED
  BY <1>1, <1>3, <1>4, QuietMine

LEMMA AgentRestartOwned ==
    ASSUME OInv, AgentRestart
    PROVE  RecordsOwned' /\ PlansOwned' /\ Claims'
<1>1. UNCHANGED <<instances, plans>> /\ pc' = [r \in Requests |-> "idle"]
  BY DEF AgentRestart, storeVars
<1> QED
  BY <1>1 DEF OInv, RecordsOwned, PlansOwned, Managed, Claims, Claim

LEMMA AdminEditOwned ==
    ASSUME OInv, AdminMayRace = FALSE, NEW n \in Names, NEW c \in {Admin, Absent}, AdminEdit(n, c)
    PROVE  RecordsOwned' /\ PlansOwned' /\ Claims'
<1>1. UNCHANGED <<instances, plans, pc>> /\ \A r \in Requests : pc[r] = "idle"
  BY DEF AdminEdit, storeVars, requestVars
<1> QED
  BY <1>1 DEF OInv, RecordsOwned, PlansOwned, Managed, Claims, Claim

--------------------------------------------------------------------------------
(* A step that changes only what is its own respects the claims of the others,  *)
(* as long as they are about other instances.                                   *)
LEMMA MineKeeps ==
    ASSUME OInv, OnePerInstance, NEW r \in Requests, Mine(r)
    PROVE  RecordsOwned' /\ PlansOwned' /\ Claims'
<1>1. ASSUME NEW q \in Requests \ {r}
      PROVE  Claim(pc[q], todo[q], tx[q], files', instances')
  <2>1. Claim(pc[q], todo[q], tx[q], files, instances)
    BY ClaimOf
  <2>2. CASE pc[q] = "idle"
    BY <2>2 DEF Claim
  <2>3. CASE pc[q] \in {"done", "lifecycle"}
    BY <2>1, <2>3 DEF Claim, Compared, Installed, Before, Forward
  <2>4. CASE Working(q)
    <3>1. /\ TypeOK /\ Transacting(q) /\ Inst(q) \in Instances /\ Progress(pc[q], todo[q], tx[q])
          /\ pc[q] \notin {"idle", "done", "lifecycle"}
      BY <2>4, ActorOf DEF Working
    <3>2. Transacting(r) => Inst(r) # Inst(q)
      BY <3>1 DEF OnePerInstance
    <3>3. ASSUME NEW n \in Names, OwnedBy(files[n], Inst(q)) PROVE files'[n] = files[n]
      <4>1. files[n] # Absent
        BY <3>1, <3>3, EngineAssumption DEF OwnedBy, Contents
      <4>2. Transacting(r) => ~OwnedBy(files[n], Inst(r))
        BY <3>2, <3>3 DEF OwnedBy
      <4> QED BY <4>1, <4>2 DEF Mine, OwnFiles
    <3>4. ASSUME NEW n \in Compared(pc[q], todo[q], tx[q]) PROVE files'[n] = tx[q].prev.src[n]
      <4>1. n \in Names /\ n \in NamesOf(tx[q].prev.src) /\ tx[q].job.op # "install"
        BY DEF Compared
      <4>2. files[n] = tx[q].prev.src[n] /\ OwnedBy(files[n], Inst(q))
        BY <2>1, <3>1, <4>1 DEF Claim, Progress, Owns, Inst
      <4> QED BY <3>3, <4>1, <4>2
    <3>5. ASSUME NEW n \in Installed(pc[q], todo[q], tx[q]) PROVE files'[n] = tx[q].job.src[n]
      <4>1. n \in Names /\ n \in NamesOf(tx[q].job.src)
        BY <3>1 DEF Installed, Progress, NamesOf
      <4>2. files[n] = tx[q].job.src[n] /\ OwnedBy(files[n], Inst(q))
        BY <2>1, <3>1, <4>1 DEF Claim, Progress, Owns, Inst
      <4> QED BY <3>3, <4>1, <4>2
    <3>6. instances'[Inst(q)] = instances[Inst(q)]
      BY <3>1, <3>2 DEF Mine, OwnRecord
    <3> QED BY <2>1, <3>4, <3>5, <3>6 DEF Claim, Inst
  <2> QED BY <2>2, <2>3, <2>4 DEF Working
<1>2. \A q \in Requests : Claim(pc'[q], todo'[q], tx'[q], files', instances')
  <2> SUFFICES ASSUME NEW q \in Requests PROVE Claim(pc'[q], todo'[q], tx'[q], files', instances')
    OBVIOUS
  <2>1. CASE q = r
    BY <2>1 DEF Mine
  <2>2. CASE q # r
    BY <1>1, <2>2 DEF Mine, Others
  <2> QED BY <2>1, <2>2
<1> QED
  BY <1>2 DEF Mine, Claims

LEMMA InitOwned == Init => OInv
<1> SUFFICES ASSUME Init PROVE OInv
  OBVIOUS
<1>1. RecordsOwned /\ PlansOwned /\ Claims
  BY DEF Init, RecordsOwned, PlansOwned, Managed, Claims, Claim
<1> QED
  BY <1>1, InitType DEF OInv

LEMMA NextOwned ==
    ASSUME OInv, OnePerInstance, AdminMayRace = FALSE, [Next]_vars
    PROVE  OInv'
<1>1. CASE Begin
  BY <1>1, CreatePlanOwned, SpoilPlanOwned, ExecutePlanMine, LifecycleMine, MineKeeps, NextType
     DEF Begin, Next, OInv
<1>2. CASE \E r \in Requests : Step(r)
  BY <1>2, StepMine, MineKeeps, NextType DEF Next, OInv
<1>3. CASE Environment
  BY <1>3, AnsweredMine, HangUpMine, AgentRestartOwned, AdminEditOwned, MineKeeps, NextType
     DEF Environment, Next, OInv
<1>4. CASE UNCHANGED vars
  <2>1. UNCHANGED <<files, requestVars, instances, plans>>
    BY <1>4 DEF vars, hostVars, storeVars
  <2> QED BY <1>4, <2>1, SameRequestsClaims, NextType DEF OInv, PlansOwned
<1> QED
  BY <1>1, <1>2, <1>3, <1>4 DEF Next

Touches ==
    \A n \in Names :
        files[n] # Absent /\ files'[n] # files[n] =>
            \/ edits' # edits
            \/ \E r \in Requests : Active(r) /\ OwnedBy(files[n], Inst(r))

LEMMA NextTouches ==
    ASSUME OInv, [Next]_vars
    PROVE  [Touches]_vars
<1>1. ASSUME NEW r \in Requests, Mine(r) PROVE Touches
  BY <1>1 DEF Mine, OwnFiles, Transacting, Touches
<1>2. CASE Begin
  BY <1>1, <1>2, ExecutePlanMine, LifecycleMine
     DEF Begin, CreatePlan, SpoilPlan, HostSame, hostVars, Touches
<1>3. CASE \E r \in Requests : Step(r)
  BY <1>1, <1>3, StepMine
<1>4. CASE Environment
  <2>1. CASE \E r \in Requests : Answered(r) \/ HangUp(r)
    BY <1>1, <2>1, AnsweredMine, HangUpMine
  <2>2. CASE AgentRestart
    BY <2>2 DEF AgentRestart, HostSame, hostVars, Touches
  <2>3. CASE \E n \in Names, c \in {Admin, Absent} : AdminEdit(n, c)
    <3>1. edits' # edits
      BY <2>3 DEF AdminEdit, OInv, TypeOK
    <3> QED BY <3>1 DEF Touches
  <2> QED BY <1>4, <2>1, <2>2, <2>3 DEF Environment
<1>5. CASE UNCHANGED vars
  BY <1>5
<1> QED
  BY <1>2, <1>3, <1>4, <1>5 DEF Next

(* The engine never removes or replaces a file another instance or the          *)
(* administrator wrote, although names are shared, rollbacks remove by name and *)
(* calls fail or are cut short at any point: whatever the number of requests,   *)
(* instances, versions and names, as long as no two requests transact the same  *)
(* instance and nobody edits a file between its comparison and its removal.     *)
THEOREM ForeignUntouchedAlways ==
    ASSUME AdminMayRace = FALSE
    PROVE  Spec /\ []OnePerInstance => ForeignUntouched
<1>1. Init => OInv
  BY InitOwned
<1>2. OInv /\ OnePerInstance /\ [Next]_vars => OInv'
  BY NextOwned
<1>3. OInv /\ [Next]_vars => [Touches]_vars
  BY NextTouches
<1> QED
  BY <1>1, <1>2, <1>3, PTL DEF Spec, ForeignUntouched, Touches

--------------------------------------------------------------------------------
(* The generated documents.  Between SaveInstance and the second document the   *)
(* handler still knows what the record says, and under OnePerInstance no other  *)
(* handler writes it meanwhile.                                                 *)

Documenting == {"manifest", "readme"}

Follow(i) ==
    i \notin suspect /\ (\A r \in Requests : pc[r] \in Documenting => Inst(r) # i) =>
        docs[i] = [manifest |-> instances[i], readme |-> instances[i]]

Documents(r) ==
    pc[r] \in Documenting =>
        /\ instances[Inst(r)] = NewRecord(tx[r])
        /\ pc[r] = "readme" => docs[Inst(r)].manifest = NewRecord(tx[r])

DInv == TypeOK /\ (\A i \in Instances : Follow(i)) /\ (\A r \in Requests : Documents(r))

(* A step of a handler outside the three calls that record.                     *)
Passes(r) ==
    /\ pc[r] \notin Documenting
    /\ \E stage \in Stages \ Documenting : \E S : Go(r, stage, S)
    /\ \E t : Keep(r, t)
    /\ UNCHANGED <<instances, docs>> /\ suspect \subseteq suspect'

LEMMA AbortPasses ==
    ASSUME NEW r \in Requests, NEW t, AbortTo(r, t)
    PROVE  /\ \E stage \in Stages \ Documenting : \E S : Go(r, stage, S)
           /\ \E u : Keep(r, u)
BY DEF AbortTo, Documenting, Stages

LEMMA ReplyPasses ==
    ASSUME NEW r \in Requests, NEW x, Reply(r, x)
    PROVE  /\ \E stage \in Stages \ Documenting : \E S : Go(r, stage, S)
           /\ \E u : Keep(r, u)
BY DEF Reply, Documenting, Stages

LEMMA StorePasses ==
    ASSUME StoreSame PROVE UNCHANGED <<instances, docs>> /\ suspect \subseteq suspect'
BY DEF StoreSame, storeVars

LEMMA ForwardPasses ==
    ASSUME TypeOK, NEW r \in Requests,
           \/ CheckDrift(r) \/ Load(r) \/ Snapshot(r) \/ StopUnit(r) \/ RemoveOld(r)
           \/ InstallNew(r) \/ ReloadUnits(r) \/ FindUnits(r) \/ StartUnit(r) \/ VerifyUnit(r)
           \/ Relist(r) \/ Capture(r)
    PROVE  Passes(r)
<1>1. UNCHANGED tx => \E t : Keep(r, t)
  BY KeptLocals
<1>2. StoreSame
  BY DEF CheckDrift, Load, Snapshot, StopUnit, RemoveOld, InstallNew, ReloadUnits, FindUnits,
         StartUnit, VerifyUnit, Relist, ListGenerated, Capture
<1>3. CASE CheckDrift(r)
  BY <1>1, <1>2, <1>3, ReplyPasses, StorePasses
     DEF CheckDrift, Visit, Leave, Advance, Documenting, Stages, Passes
<1>4. CASE Load(r)
  BY <1>1, <1>2, <1>4, ReplyPasses, StorePasses DEF Load, Leave, Documenting, Stages, Passes
<1>5. CASE Snapshot(r)
  BY <1>1, <1>2, <1>5, ReplyPasses, StorePasses
     DEF Snapshot, Visit, Leave, Advance, Documenting, Stages, Passes
<1>6. CASE StopUnit(r)
  BY <1>1, <1>2, <1>6, ReplyPasses, StorePasses
     DEF StopUnit, Visit, Leave, Advance, Documenting, Stages, Passes
<1>7. CASE RemoveOld(r)
  BY <1>1, <1>2, <1>7, StorePasses
     DEF RemoveOld, Visit, Leave, Advance, Documenting, Stages, Passes
<1>8. CASE InstallNew(r)
  BY <1>1, <1>2, <1>8, AbortPasses, StorePasses
     DEF InstallNew, Abort, Visit, Leave, Advance, Documenting, Stages, Passes
<1>9. CASE ReloadUnits(r)
  BY <1>1, <1>2, <1>9, AbortPasses, StorePasses
     DEF ReloadUnits, Abort, Leave, Documenting, Stages, Passes
<1>10. CASE FindUnits(r)
  BY <1>1, <1>2, <1>10, AbortPasses, StorePasses
     DEF FindUnits, ListGenerated, Abort, Leave, Documenting, Stages, Passes
<1>11. CASE StartUnit(r)
  BY <1>1, <1>2, <1>11, AbortPasses, StorePasses
     DEF StartUnit, Abort, Visit, Leave, Documenting, Stages, Passes
<1>12. CASE VerifyUnit(r)
  BY <1>1, <1>2, <1>12, AbortPasses, StorePasses
     DEF VerifyUnit, Abort, Visit, Documenting, Stages, Passes
<1>13. CASE Relist(r)
  BY <1>1, <1>2, <1>13, AbortPasses, StorePasses
     DEF Relist, ListGenerated, Abort, Leave, Documenting, Stages, Passes
<1>14. CASE Capture(r)
  BY <1>1, <1>2, <1>14, AbortPasses, StorePasses
     DEF Capture, Abort, Visit, Leave, Advance, Documenting, Stages, Passes
<1> QED
  BY <1>3, <1>4, <1>5, <1>6, <1>7, <1>8, <1>9, <1>10, <1>11, <1>12, <1>13, <1>14

LEMMA BackwardPasses ==
    ASSUME TypeOK, NEW r \in Requests,
           \/ UndoStop(r) \/ UndoInstall(r) \/ Reinstall(r) \/ UndoReload(r)
           \/ UndoStart(r) \/ UndoVerify(r) \/ LifecycleStep(r)
    PROVE  Passes(r)
<1>1. UNCHANGED tx => \E t : Keep(r, t)
  BY KeptLocals
<1>2. \A err : RollbackError(r, err) => \E t : Keep(r, t)
  BY DEF RollbackError
<1>3. StoreSame \/ UNCHANGED <<storeVars, envVars>>
  BY DEF UndoStop, UndoInstall, Reinstall, UndoReload, UndoStart, UndoVerify, LifecycleStep
<1>4. UNCHANGED <<instances, docs>>
  BY <1>3 DEF StoreSame, storeVars
<1>5. ASSUME NEW failed, EndRollback(r, failed)
      PROVE  /\ \E stage \in Stages \ Documenting : \E S : Go(r, stage, S)
             /\ \E u : Keep(r, u)
             /\ suspect \subseteq suspect'
  BY <1>5, ReplyPasses DEF EndRollback
<1>6. CASE UndoStop(r)
  BY <1>1, <1>2, <1>6, StorePasses
     DEF UndoStop, VisitBack, Leave, Advance, Documenting, Stages, Passes
<1>7. CASE UndoInstall(r)
  BY <1>1, <1>2, <1>7, StorePasses
     DEF UndoInstall, VisitBack, Leave, Advance, Documenting, Stages, Passes
<1>8. CASE Reinstall(r)
  BY <1>1, <1>2, <1>8, StorePasses
     DEF Reinstall, Visit, Leave, Advance, Documenting, Stages, Passes
<1>9. CASE UndoReload(r)
  BY <1>2, <1>4, <1>5, <1>9 DEF UndoReload, Leave, Documenting, Stages, Passes
<1>10. CASE UndoStart(r)
  BY <1>2, <1>4, <1>5, <1>10 DEF UndoStart, Visit, Leave, Advance, Documenting, Stages, Passes
<1>11. CASE UndoVerify(r)
  BY <1>2, <1>11, StorePasses DEF UndoVerify, Visit, Documenting, Stages, Passes
<1>12. CASE LifecycleStep(r)
  BY <1>1, <1>12, ReplyPasses, StorePasses
     DEF LifecycleStep, Visit, Leave, Advance, Documenting, Stages, Passes
<1> QED
  BY <1>6, <1>7, <1>8, <1>9, <1>10, <1>11, <1>12

Written == (\A i \in Instances : Follow(i)) /\ (\A r \in Requests : Documents(r))

(* Nothing is recorded or written, and the handlers that document go on.        *)
LEMMA DocsFrame ==
    ASSUME DInv, UNCHANGED <<instances, docs>>, suspect \subseteq suspect',
           \A q \in Requests :
               \/ pc[q] \notin Documenting /\ pc'[q] \notin Documenting
               \/ /\ pc'[q] = pc[q] /\ Inst(q)' = Inst(q)
                  /\ NewRecord(tx'[q]) = NewRecord(tx[q])
    PROVE  Written'
<1>1. ASSUME NEW i \in Instances PROVE Follow(i)'
  BY DEF DInv, Follow
<1>2. ASSUME NEW q \in Requests PROVE Documents(q)'
  <2>1. CASE pc'[q] \notin Documenting
    BY <2>1 DEF Documents
  <2>2. CASE pc'[q] = pc[q] /\ Inst(q)' = Inst(q) /\ NewRecord(tx'[q]) = NewRecord(tx[q])
    BY <2>2 DEF DInv, Documents
  <2> QED BY <2>1, <2>2
<1> QED
  BY <1>1, <1>2 DEF Written

LEMMA OthersDocs ==
    ASSUME TypeOK, NEW r \in Requests, NEW stage, NEW S, Go(r, stage, S), NEW t, Keep(r, t)
    PROVE  /\ pc'[r] = stage /\ tx'[r] = t
           /\ \A q \in Requests \ {r} :
                 pc'[q] = pc[q] /\ tx'[q] = tx[q] /\ Inst(q)' = Inst(q)
BY Moves DEF Others, Inst

LEMMA PassesDocs ==
    ASSUME DInv, NEW r \in Requests, Passes(r)
    PROVE  Written'
<1>1. PICK stage \in Stages \ Documenting : \E S : Go(r, stage, S)
  BY DEF Passes
<1>2. PICK t : Keep(r, t)
  BY DEF Passes
<1> QED
  BY <1>1, <1>2, OthersDocs, DocsFrame DEF Passes, DInv

(* No other handler documents the instance that one is recording.               *)
LEMMA OnlyRecorder ==
    ASSUME TypeOK, OnePerInstance, NEW r \in Requests, pc[r] \in Saving,
           NEW q \in Requests, pc[q] \in Documenting, q # r
    PROVE  Inst(q) # Inst(r)
<1>1. Working(r) /\ Working(q)
  BY DEF Saving, Documenting, Working
<1>2. Transacting(r) /\ Transacting(q)
  BY <1>1, Locals DEF Transacting, Active, Working
<1> QED
  BY <1>2 DEF OnePerInstance

LEMMA UnrecordedDocs ==
    ASSUME DInv, NEW r \in Requests, Unrecorded(r), UNCHANGED <<instances, docs>>
    PROVE  Written'
<1> DEFINE t == [tx[r] EXCEPT !.answer = "failed"]
<1>1. /\ Go(r, "done", {}) /\ Keep(r, t) /\ suspect' = suspect \cup {Inst(r)}
  BY DEF Unrecorded, Reply
<1> HIDE DEF t
<1>2. /\ pc'[r] = "done"
      /\ \A q \in Requests \ {r} : pc'[q] = pc[q] /\ tx'[q] = tx[q] /\ Inst(q)' = Inst(q)
  BY <1>1, OthersDocs DEF DInv
<1>3. ASSUME NEW i \in Instances PROVE Follow(i)'
  BY <1>1, <1>2 DEF DInv, Follow
<1>4. ASSUME NEW q \in Requests PROVE Documents(q)'
  <2>1. CASE q = r
    BY <1>2, <2>1 DEF Documents, Documenting
  <2>2. CASE q # r
    BY <1>2, <2>2 DEF DInv, Documents
  <2> QED BY <2>1, <2>2
<1> QED
  BY <1>3, <1>4 DEF Written

LEMMA SaveInstanceDocs ==
    ASSUME DInv, OnePerInstance, NEW r \in Requests, SaveInstance(r)
    PROVE  Written'
<1>1. /\ pc[r] = "save" /\ Working(r) /\ pc[r] \in Saving /\ UNCHANGED docs /\ TypeOK
      /\ pc[r] \notin Documenting
  BY DEF SaveInstance, Leave, Working, Saving, Documenting, DInv
<1>2. CASE Unrecorded(r) /\ UNCHANGED instances
  BY <1>1, <1>2, UnrecordedDocs
<1>3. CASE /\ instances' = [instances EXCEPT ![Inst(r)] = NewRecord(tx[r])]
           /\ Go(r, "manifest", {}) /\ UNCHANGED <<tx, suspect>>
  <2>1. /\ pc'[r] = "manifest" /\ tx'[r] = tx[r] /\ Inst(r)' = Inst(r)
        /\ \A q \in Requests \ {r} : pc'[q] = pc[q] /\ tx'[q] = tx[q] /\ Inst(q)' = Inst(q)
    BY <1>1, <1>3, KeptLocals, OthersDocs DEF Inst
  <2>2. \A i \in Instances :
           instances'[i] = IF i = Inst(r) THEN NewRecord(tx[r]) ELSE instances[i]
    BY <1>1, <1>3 DEF TypeOK, StoreType
  <2>3. ASSUME NEW i \in Instances PROVE Follow(i)'
    <3>1. CASE i = Inst(r)
      BY <2>1, <3>1 DEF Follow, Documenting
    <3>2. CASE i # Inst(r)
      BY <1>1, <1>3, <2>1, <2>2, <3>2 DEF DInv, Follow
    <3> QED BY <3>1, <3>2
  <2>4. ASSUME NEW q \in Requests PROVE Documents(q)'
    <3>1. CASE q = r
      BY <1>1, <2>1, <2>2, <3>1, Locals DEF Documents
    <3>2. CASE q # r /\ pc[q] \in Documenting
      <4>1. Inst(q) # Inst(r) /\ Working(q)
        BY <1>1, <3>2, OnlyRecorder DEF Documenting, Working
      <4>2. instances'[Inst(q)] = instances[Inst(q)]
        BY <1>1, <2>2, <4>1, Locals
      <4> QED BY <1>1, <2>1, <3>2, <4>2 DEF DInv, Documents
    <3>3. CASE q # r /\ pc[q] \notin Documenting
      BY <2>1, <3>3 DEF Documents
    <3> QED BY <3>1, <3>2, <3>3
  <2> QED BY <2>3, <2>4 DEF Written
<1> QED
  BY <1>2, <1>3 DEF SaveInstance

(* Writing one document of the instance that was recorded.                      *)
LEMMA WriteManifestDocs ==
    ASSUME DInv, OnePerInstance, NEW r \in Requests, WriteManifest(r)
    PROVE  Written'
<1>1. /\ pc[r] = "manifest" /\ Working(r) /\ pc[r] \in Saving /\ UNCHANGED instances /\ TypeOK
      /\ pc[r] \in Documenting
  BY DEF WriteManifest, Leave, Working, Saving, Documenting, DInv
<1>2. CASE Unrecorded(r) /\ UNCHANGED docs
  BY <1>1, <1>2, UnrecordedDocs
<1>3. CASE /\ docs' = [docs EXCEPT ![Inst(r)].manifest = NewRecord(tx[r])]
           /\ Go(r, "readme", {}) /\ UNCHANGED <<tx, suspect>>
  <2>1. /\ pc'[r] = "readme" /\ tx'[r] = tx[r] /\ Inst(r)' = Inst(r)
        /\ \A q \in Requests \ {r} : pc'[q] = pc[q] /\ tx'[q] = tx[q] /\ Inst(q)' = Inst(q)
    BY <1>1, <1>3, KeptLocals, OthersDocs DEF Inst
  <2>2. /\ \A i \in Instances \ {Inst(r)} : docs'[i] = docs[i]
        /\ docs'[Inst(r)].manifest = NewRecord(tx[r])
    BY <1>1, <1>3, Locals DEF TypeOK, StoreType
  <2>3. ASSUME NEW i \in Instances PROVE Follow(i)'
    <3>1. CASE i = Inst(r)
      BY <2>1, <3>1 DEF Follow, Documenting
    <3>2. CASE i # Inst(r)
      BY <1>1, <1>3, <2>1, <2>2, <3>2 DEF DInv, Follow
    <3> QED BY <3>1, <3>2
  <2>4. ASSUME NEW q \in Requests PROVE Documents(q)'
    <3>1. CASE q = r
      BY <1>1, <2>1, <2>2, <3>1 DEF DInv, Documents
    <3>2. CASE q # r /\ pc[q] \in Documenting
      <4>1. Inst(q) # Inst(r) /\ Working(q)
        BY <1>1, <3>2, OnlyRecorder DEF Documenting, Working
      <4>2. docs'[Inst(q)] = docs[Inst(q)]
        BY <1>1, <2>2, <4>1, Locals
      <4> QED BY <1>1, <2>1, <3>2, <4>2 DEF DInv, Documents
    <3>3. CASE q # r /\ pc[q] \notin Documenting
      BY <2>1, <3>3 DEF Documents
    <3> QED BY <3>1, <3>2, <3>3
  <2> QED BY <2>3, <2>4 DEF Written
<1> QED
  BY <1>2, <1>3 DEF WriteManifest

LEMMA WriteReadmeDocs ==
    ASSUME DInv, OnePerInstance, NEW r \in Requests, WriteReadme(r)
    PROVE  Written'
<1>1. /\ pc[r] = "readme" /\ Working(r) /\ pc[r] \in Saving /\ UNCHANGED instances /\ TypeOK
      /\ pc[r] \in Documenting
  BY DEF WriteReadme, Leave, Working, Saving, Documenting, DInv
<1>2. CASE Unrecorded(r) /\ UNCHANGED docs
  BY <1>1, <1>2, UnrecordedDocs
<1>3. CASE /\ docs' = [docs EXCEPT ![Inst(r)].readme = NewRecord(tx[r])]
           /\ Reply(r, "succeeded") /\ UNCHANGED suspect
  <2>1. /\ pc'[r] = "done"
        /\ \A q \in Requests \ {r} : pc'[q] = pc[q] /\ tx'[q] = tx[q] /\ Inst(q)' = Inst(q)
    BY <1>1, <1>3, OthersDocs DEF Reply
  <2>2. \A i \in Instances \ {Inst(r)} : docs'[i] = docs[i]
    BY <1>1, <1>3 DEF TypeOK, StoreType
  <2>3. docs'[Inst(r)] = [manifest |-> instances[Inst(r)], readme |-> instances[Inst(r)]]
    <3>1. docs[Inst(r)] \in [manifest : Record \cup {NoRecord}, readme : Record \cup {NoRecord}]
      BY <1>1, Locals DEF TypeOK, StoreType
    <3>2. docs'[Inst(r)] = [docs[Inst(r)] EXCEPT !.readme = NewRecord(tx[r])]
      BY <1>1, <1>3, Locals DEF TypeOK, StoreType
    <3>3. instances[Inst(r)] = NewRecord(tx[r]) /\ docs[Inst(r)].manifest = NewRecord(tx[r])
      BY <1>1 DEF DInv, Documents
    <3> QED BY <3>1, <3>2, <3>3
  <2>4. ASSUME NEW i \in Instances PROVE Follow(i)'
    <3>1. CASE i = Inst(r)
      BY <1>1, <2>3, <3>1 DEF Follow
    <3>2. CASE i # Inst(r)
      BY <1>1, <1>3, <2>1, <2>2, <3>2 DEF DInv, Follow
    <3> QED BY <3>1, <3>2
  <2>5. ASSUME NEW q \in Requests PROVE Documents(q)'
    <3>1. CASE q = r
      BY <2>1, <3>1 DEF Documents, Documenting
    <3>2. CASE q # r /\ pc[q] \in Documenting
      <4>1. Inst(q) # Inst(r) /\ Working(q)
        BY <1>1, <3>2, OnlyRecorder DEF Documenting, Working
      <4>2. docs'[Inst(q)] = docs[Inst(q)]
        BY <1>1, <2>2, <4>1, Locals
      <4> QED BY <1>1, <2>1, <3>2, <4>2 DEF DInv, Documents
    <3>3. CASE q # r /\ pc[q] \notin Documenting
      BY <2>1, <3>3 DEF Documents
    <3> QED BY <3>1, <3>2, <3>3
  <2> QED BY <2>4, <2>5 DEF Written
<1> QED
  BY <1>2, <1>3 DEF WriteReadme

LEMMA StepDocs ==
    ASSUME DInv, OnePerInstance, NEW r \in Requests, Step(r)
    PROVE  Written'
BY ForwardPasses, BackwardPasses, PassesDocs, SaveInstanceDocs, WriteManifestDocs, WriteReadmeDocs
   DEF Step, DInv

LEMMA BeginDocs ==
    ASSUME DInv, Begin
    PROVE  Written'
<1>1. UNCHANGED <<instances, docs, suspect>>
  BY DEF Begin, CreatePlan, SpoilPlan, ExecutePlan, Lifecycle, StoreSame, storeVars
<1>2. CASE UNCHANGED requestVars
  BY <1>1, <1>2, DocsFrame DEF requestVars, Inst
<1>3. ASSUME NEW r \in Requests, pc[r] = "idle",
             NEW stage \in Stages \ Documenting, NEW S, Go(r, stage, S), NEW t, Keep(r, t)
      PROVE  Written'
  <2>1. pc[r] \notin Documenting
    BY <1>3 DEF Documenting
  <2> QED BY <1>1, <1>3, <2>1, PassesDocs DEF Passes
<1>4. ASSUME NEW r \in Requests, NEW id \in PlanIds, ExecutePlan(r, id) PROVE Written'
  <2>1. /\ pc[r] = "idle"
        /\ \E stage \in {"done", "load", "check"} : \E S : Go(r, stage, S)
        /\ \E t : Keep(r, t)
    BY <1>4 DEF ExecutePlan
  <2> QED BY <1>3, <2>1 DEF Stages, Documenting
<1>5. ASSUME NEW r \in Requests, NEW i \in Instances, NEW action \in Ops, Lifecycle(r, i, action)
      PROVE  Written'
  <2>1. /\ pc[r] = "idle"
        /\ \E stage \in {"done", "lifecycle"} : \E S : Go(r, stage, S)
        /\ \E t : Keep(r, t)
    BY <1>5 DEF Lifecycle
  <2> QED BY <1>3, <2>1 DEF Stages, Documenting
<1> QED
  BY <1>2, <1>4, <1>5 DEF Begin, CreatePlan, SpoilPlan

(* A crash between the record and the documents leaves them apart, and says so. *)
LEMMA AgentRestartDocs ==
    ASSUME DInv, AgentRestart
    PROVE  Written'
<1>1. /\ UNCHANGED <<instances, docs>> /\ \A r \in Requests : pc'[r] = "idle"
      /\ suspect' = suspect \cup
           {Inst(r) : r \in {q \in Requests : Active(q) /\ pc[q] \notin Reading \cup {"lifecycle"}}}
  BY DEF AgentRestart, storeVars
<1>2. \A r \in Requests : pc[r] \in Documenting =>
         Active(r) /\ pc[r] \notin Reading \cup {"lifecycle"}
  BY DEF Documenting, Active, Reading
<1>3. ASSUME NEW i \in Instances, i \notin suspect'
      PROVE  docs[i] = [manifest |-> instances[i], readme |-> instances[i]]
  <2>1. i \notin suspect /\ \A r \in Requests : pc[r] \in Documenting => Inst(r) # i
    BY <1>1, <1>2, <1>3
  <2> QED BY <2>1 DEF DInv, Follow
<1>4. \A i \in Instances : Follow(i)'
  BY <1>1, <1>3 DEF Follow
<1>5. \A r \in Requests : Documents(r)'
  BY <1>1 DEF Documents, Documenting
<1> QED
  BY <1>4, <1>5 DEF Written

LEMMA EnvironmentDocs ==
    ASSUME DInv, Environment
    PROVE  Written'
<1>1. ASSUME NEW r \in Requests, Answered(r) PROVE Written'
  <2>1. pc[r] \notin Documenting /\ Go(r, "idle", {}) /\ Keep(r, Blank) /\ StoreSame
    BY <1>1 DEF Answered, Documenting
  <2>2. Passes(r)
    BY <2>1, StorePasses DEF Passes, Stages, Documenting
  <2> QED BY <2>2, PassesDocs
<1>2. ASSUME NEW r \in Requests, HangUp(r) PROVE Written'
  <2> DEFINE t == [tx[r] EXCEPT !.alive = FALSE]
  <2>1. UNCHANGED <<pc, instances, docs, suspect>> /\ tx' = [tx EXCEPT ![r] = t]
    BY <1>2 DEF HangUp, StoreSame, storeVars, Keep
  <2>2. tx[r] \in Handler
    BY DEF DInv, TypeOK, RequestType
  <2>3. t.job = tx[r].job /\ t.prev = tx[r].prev /\ t.seen = tx[r].seen /\ t.listed = tx[r].listed
    BY <2>2 DEF Handler
  <2>4. NewRecord(t) = NewRecord(tx[r])
    BY <2>3 DEF NewRecord
  <2> HIDE DEF t
  <2>5. \A q \in Requests : Inst(q)' = Inst(q) /\ NewRecord(tx'[q]) = NewRecord(tx[q])
    <3> SUFFICES ASSUME NEW q \in Requests
                 PROVE  Inst(q)' = Inst(q) /\ NewRecord(tx'[q]) = NewRecord(tx[q])
      OBVIOUS
    <3>1. CASE q = r
      BY <2>1, <2>3, <2>4, <3>1 DEF DInv, TypeOK, RequestType, Inst
    <3>2. CASE q # r
      BY <2>1, <3>2 DEF DInv, TypeOK, RequestType, Inst
    <3> QED BY <3>1, <3>2
  <2> QED BY <2>1, <2>5, DocsFrame
<1>3. CASE \E n \in Names, c \in {Admin, Absent} : AdminEdit(n, c)
  <2>1. UNCHANGED <<pc, tx, instances, docs>> /\ suspect \subseteq suspect'
    BY <1>3 DEF AdminEdit, requestVars, storeVars
  <2> QED BY <2>1, DocsFrame DEF Inst
<1> QED
  BY <1>1, <1>2, <1>3, AgentRestartDocs DEF Environment

LEMMA InitDocs == Init => DInv
<1> SUFFICES ASSUME Init PROVE DInv
  OBVIOUS
<1>1. (\A i \in Instances : Follow(i)) /\ (\A r \in Requests : Documents(r))
  BY DEF Init, Follow, Documents, Documenting
<1> QED
  BY <1>1, InitType DEF DInv

LEMMA NextDocs ==
    ASSUME DInv, OnePerInstance, [Next]_vars
    PROVE  DInv'
<1>1. CASE UNCHANGED vars
  <2>1. UNCHANGED <<pc, tx, instances, docs, suspect>>
    BY <1>1 DEF vars, requestVars, storeVars
  <2> QED BY <1>1, <2>1, DocsFrame, NextType DEF Written, DInv, Inst
<1>2. CASE Next
  BY <1>2, BeginDocs, StepDocs, EnvironmentDocs, NextType DEF Next, Written, DInv
<1> QED
  BY <1>1, <1>2

(* While an instance is not being transacted, its two generated documents say   *)
(* what its record says, unless an end that said so left it suspect: for any    *)
(* number of requests about other instances, faults, restarts and edits.  Two   *)
(* transactions of one instance may interleave their three writes.              *)
THEOREM DocsFollowRecordAlways == Spec /\ []OnePerInstance => []DocsFollowRecord
<1>1. Init => DInv
  BY InitDocs
<1>2. DInv /\ OnePerInstance /\ [Next]_vars => DInv'
  BY NextDocs
<1>3. DInv => DocsFollowRecord
  <2> SUFFICES ASSUME DInv, NEW i \in Instances \ suspect, ~Busy(i)
               PROVE  docs[i] = [manifest |-> instances[i], readme |-> instances[i]]
    BY DEF DocsFollowRecord
  <2>1. ASSUME NEW r \in Requests, pc[r] \in Documenting PROVE Inst(r) # i
    <3>1. Working(r) /\ Active(r)
      BY <2>1 DEF Documenting, Working, Active
    <3>2. Op(r) \in PlanOps
      BY <3>1, Locals DEF DInv
    <3> QED BY <3>1, <3>2 DEF Busy
  <2> QED BY <2>1 DEF DInv, Follow
<1> QED
  BY <1>1, <1>2, <1>3, PTL DEF Spec

================================================================================
