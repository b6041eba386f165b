------------------------------ MODULE InstallProofs ------------------------------
(* While clients only install (and start, stop and restart) and the             *)
(* administrator does not edit under a running request, any number of installs, *)
(* of any instances with any names, are isolated from one another although the  *)
(* engine takes no lock: Podman's refusal to install over an existing file is   *)
(* what makes a name the property of one transaction.                           *)
EXTENDS AtomicityProofs

OnlyInstalls == Ops \cap PlanOps \subseteq {"install"} /\ AdminMayRace = FALSE

Forward == {"reload", "list", "start", "verify", "relist", "capture"}
Saving == {"save", "manifest", "readme"}
InstallStages == {"idle", "done", "lifecycle", "load", "installNew", "undoInstall", "undoReload"}
                     \cup Forward \cup Saving

(* A handler in a stage of an install has installed what its loop has passed,   *)
(* and has read back what it installed.                                         *)
Installing(stage, left, t) ==
    LET names == NamesOf(t.job.src) IN
    /\ stage \in InstallStages
    /\ stage \notin {"idle", "done", "lifecycle"} => t.job.op = "install"
    /\ stage \in {"load", "lifecycle"} => t.installed = {}
    /\ stage = "installNew" => t.installed = names \ left /\ left \subseteq names
    /\ stage \in Forward \cup Saving => t.installed = names
    /\ stage \in {"capture", "undoInstall"} => left \subseteq names
    /\ stage \in {"load", "installNew"} \cup (Forward \ {"capture"}) => t.seen = NothingOn
    /\ stage = "capture" =>
          t.seen = [n \in Names |-> IF n \in left THEN Absent ELSE t.job.src[n]]
    /\ stage \in Saving => t.seen = t.job.src

InstallsOnly ==
    /\ \A id \in PlanIds : plans[id] # NoPlan => plans[id].op = "install"
    /\ \A r \in Requests : Installing(pc[r], todo[r], tx[r])

(* What a record names is on disk, and no handler that may still roll back      *)
(* believes it is its own.                                                      *)
RecordedIsSafe ==
    \A i \in Instances \ suspect : Live(i) =>
        \A n \in NamesOf(instances[i].src) :
            /\ files[n] = instances[i].src[n]
            /\ \A r \in Requests : n \in Holds(r) => pc[r] \in {"manifest", "readme"}

IInv == TypeOK /\ InstallsOnly /\ OneInstaller /\ RecordedIsSafe

--------------------------------------------------------------------------------
(* The steps of one handler that leave the files and the records alone.         *)

Held(stage, left, t) ==
    IF stage = "undoInstall" THEN left
    ELSE {n \in t.installed : stage \notin Reading \cup {"idle", "done", "undoReload"}}

LEMMA HoldsHeld == \A r \in Requests : Holds(r) = Held(pc[r], todo[r], tx[r])
BY DEF Holds, Held

LEMMA HeldNamed ==
    ASSUME NEW stage, NEW left, NEW t, Installing(stage, left, t)
    PROVE  Held(stage, left, t) \subseteq NamesOf(t.job.src)
BY DEF Held, Installing, InstallStages, Forward, Saving, Reading

LEMMA MovedOnly ==
    ASSUME TypeOK, NEW r \in Requests, NEW stage, NEW S, NEW t, Go(r, stage, S), Keep(r, t)
    PROVE  /\ pc'[r] = stage /\ todo'[r] = S /\ tx'[r] = t
           /\ Holds(r)' = Held(stage, S, t)
           /\ \A q \in Requests \ {r} :
                 /\ pc'[q] = pc[q] /\ todo'[q] = todo[q] /\ tx'[q] = tx[q]
                 /\ Holds(q)' = Holds(q)
<1>1. pc'[r] = stage /\ todo'[r] = S /\ tx'[r] = t
  BY DEF TypeOK, RequestType, Go, Keep
<1>2. \A q \in Requests \ {r} : pc'[q] = pc[q] /\ todo'[q] = todo[q] /\ tx'[q] = tx[q]
  BY DEF TypeOK, RequestType, Go, Keep
<1> QED
  BY <1>1, <1>2 DEF Holds, Held

LEMMA Unmoved ==
    ASSUME TypeOK, NEW r \in Requests, UNCHANGED tx PROVE Keep(r, tx[r])
BY DEF TypeOK, RequestType, Keep

PlansInstall == \A id \in PlanIds : plans[id] # NoPlan => plans[id].op = "install"

LEMMA StillInstalling ==
    ASSUME IInv, NEW r \in Requests, NEW stage, NEW S, NEW t, Go(r, stage, S), Keep(r, t),
           PlansInstall', Installing(stage, S, t)
    PROVE  InstallsOnly'
<1>0. /\ pc'[r] = stage /\ todo'[r] = S /\ tx'[r] = t
      /\ \A q \in Requests \ {r} : pc'[q] = pc[q] /\ todo'[q] = todo[q] /\ tx'[q] = tx[q]
  BY DEF IInv, TypeOK, RequestType, Go, Keep
<1>1. \A q \in Requests : Installing(pc'[q], todo'[q], tx'[q])
  <2> SUFFICES ASSUME NEW q \in Requests PROVE Installing(pc'[q], todo'[q], tx'[q])
    OBVIOUS
  <2>1. CASE q = r
    BY <1>0, <2>1
  <2>2. CASE q # r
    BY <1>0, <2>2 DEF IInv, InstallsOnly
  <2> QED BY <2>1, <2>2
<1> QED
  BY <1>1 DEF InstallsOnly, PlansInstall

LEMMA QuietStep ==
    ASSUME IInv, NEW r \in Requests, NEW stage, NEW S, NEW t, Go(r, stage, S), Keep(r, t),
           UNCHANGED <<files, instances>>, suspect \subseteq suspect', PlansInstall',
           Installing(stage, S, t),
           Held(stage, S, t) \subseteq Holds(r),
           Held(stage, S, t) # {} =>
               /\ t.job = tx[r].job
               /\ pc[r] \in {"manifest", "readme"} => stage \in {"manifest", "readme"}
    PROVE  InstallsOnly' /\ OneInstaller' /\ RecordedIsSafe'
<1>1. InstallsOnly'
  BY StillInstalling
<1>2. /\ pc'[r] = stage /\ tx'[r] = t /\ Holds(r)' = Held(stage, S, t)
      /\ \A q \in Requests \ {r} : pc'[q] = pc[q] /\ tx'[q] = tx[q] /\ Holds(q)' = Holds(q)
  BY MovedOnly DEF IInv
<1>3. \A q \in Requests :
         /\ Holds(q)' \subseteq Holds(q)
         /\ Holds(q)' # {} => tx'[q].job = tx[q].job
         /\ Holds(q)' # {} /\ pc[q] \in {"manifest", "readme"} => pc'[q] \in {"manifest", "readme"}
  BY <1>2
<1>4. OneInstaller'
  <2>1. \A q \in Requests : \A n \in Holds(q)' : files'[n] = tx'[q].job.src[n]
    BY <1>3 DEF IInv, OneInstaller
  <2>2. \A q, p \in Requests : p # q => Holds(q)' \cap Holds(p)' = {}
    BY <1>3 DEF IInv, OneInstaller
  <2> QED BY <2>1, <2>2 DEF OneInstaller
<1>5. RecordedIsSafe'
  <2> SUFFICES ASSUME NEW i \in Instances, i \notin suspect', Live(i)',
                      NEW n \in NamesOf(instances[i].src)'
               PROVE  /\ files'[n] = instances'[i].src[n]
                      /\ \A q \in Requests : n \in Holds(q)' => pc'[q] \in {"manifest", "readme"}
    BY DEF RecordedIsSafe
  <2>1. i \notin suspect /\ Live(i) /\ n \in NamesOf(instances[i].src)
    BY DEF Live, Managed, NamesOf
  <2>2. /\ files[n] = instances[i].src[n]
        /\ \A q \in Requests : n \in Holds(q) => pc[q] \in {"manifest", "readme"}
    BY <2>1 DEF IInv, RecordedIsSafe
  <2> QED BY <1>3, <2>2
<1> QED
  BY <1>1, <1>4, <1>5

Isolated == InstallsOnly /\ OneInstaller /\ RecordedIsSafe

LEMMA QuietStore ==
    ASSUME IInv, StoreSame
    PROVE  PlansInstall' /\ UNCHANGED <<instances, plans>> /\ suspect \subseteq suspect'
BY DEF StoreSame, storeVars, IInv, InstallsOnly, PlansInstall

LEMMA ReplyQuiet ==
    ASSUME IInv, NEW r \in Requests, NEW x, Reply(r, x), UNCHANGED <<files, instances>>,
           suspect \subseteq suspect', PlansInstall'
    PROVE  Isolated'
<1> DEFINE t == [tx[r] EXCEPT !.answer = x]
<1>1. Go(r, "done", {}) /\ Keep(r, t)
  BY DEF Reply
<1> HIDE DEF t
<1>2. Installing("done", {}, t) /\ Held("done", {}, t) = {}
  BY DEF Installing, InstallStages, Forward, Saving, Held
<1> QED
  BY <1>1, <1>2, QuietStep DEF Isolated

(* The install goes on to its rollback, which holds what was installed.         *)
LEMMA AbortHolds ==
    ASSUME IInv, NEW r \in Requests, pc[r] \in Forward \cup {"installNew"},
           NEW t, t.job = tx[r].job, t.installed = tx[r].installed, AbortTo(r, t)
    PROVE  /\ Go(r, "undoInstall", t.installed) /\ Keep(r, t)
           /\ Installing("undoInstall", t.installed, t)
           /\ Held("undoInstall", t.installed, t) = tx[r].installed
           /\ Holds(r) = tx[r].installed
<1>1. Installing(pc[r], todo[r], tx[r])
  BY DEF IInv, InstallsOnly
<1>2. t.job.op = "install" /\ t.installed \subseteq NamesOf(t.job.src)
  BY <1>1 DEF Installing, Forward, Saving
<1>3. Go(r, "undoInstall", t.installed) /\ Keep(r, t)
  BY <1>2 DEF AbortTo
<1>4. Installing("undoInstall", t.installed, t)
  BY <1>2 DEF Installing, InstallStages, Forward, Saving
<1>5. Holds(r) = tx[r].installed
  BY DEF Holds, Forward, Reading
<1> QED
  BY <1>3, <1>4, <1>5 DEF Held

LEMMA AbortQuiet ==
    ASSUME IInv, NEW r \in Requests, pc[r] \in Forward \cup {"installNew"},
           NEW t, t.job = tx[r].job, t.installed = tx[r].installed, AbortTo(r, t),
           UNCHANGED files, StoreSame
    PROVE  Isolated'
<1>1. pc[r] \notin {"manifest", "readme"}
  BY DEF Forward
<1> QED
  BY <1>1, AbortHolds, QuietStore, QuietStep DEF Isolated

LEMMA ForwardQuiet ==
    ASSUME IInv, NEW r \in Requests, NEW stage, NEW S, NEW t, Go(r, stage, S), Keep(r, t),
           UNCHANGED files, StoreSame, Installing(stage, S, t),
           pc[r] \in Forward \cup {"installNew"}, stage \in Forward \cup Saving,
           t.job = tx[r].job, t.installed = tx[r].installed
    PROVE  Isolated'
<1>1. pc[r] \notin {"manifest", "readme"}
  BY DEF Forward
<1>2. Held(stage, S, t) \subseteq Holds(r)
  BY DEF Held, Holds, Forward, Reading, Saving
<1> QED
  BY <1>1, <1>2, QuietStore, QuietStep DEF Isolated

(* A file that is not there is nobody's.                                        *)
Unnamed(n) == \A i \in Instances \ suspect : Live(i) => n \notin NamesOf(instances[i].src)

LEMMA FreeName ==
    ASSUME IInv, NEW n \in Names, files[n] = Absent
    PROVE  Unnamed(n) /\ \A q \in Requests : n \notin Holds(q)
<1>1. Unnamed(n)
  BY DEF IInv, RecordedIsSafe, Unnamed, NamesOf
<1>2. ASSUME NEW q \in Requests, n \in Holds(q) PROVE FALSE
  <2>1. Installing(pc[q], todo[q], tx[q]) /\ n \in Held(pc[q], todo[q], tx[q])
    BY <1>2, HoldsHeld DEF IInv, InstallsOnly
  <2>2. tx[q].job.src[n] # Absent
    BY <2>1, HeldNamed DEF NamesOf
  <2> QED BY <1>2, <2>2 DEF IInv, OneInstaller
<1> QED
  BY <1>1, <1>2

(* A step of r that changes the file n and nobody else's.                       *)
LEMMA FileStep ==
    ASSUME IInv, NEW r \in Requests, NEW stage, NEW S, NEW t, Go(r, stage, S), Keep(r, t),
           StoreSame, Installing(stage, S, t), stage \notin {"manifest", "readme"},
           pc[r] \notin {"manifest", "readme"}, t.job = tx[r].job,
           NEW n \in Names, \A m \in Names \ {n} : files'[m] = files[m],
           Unnamed(n), \A q \in Requests \ {r} : n \notin Holds(q),
           Held(stage, S, t) \subseteq Holds(r) \cup {n},
           n \in Held(stage, S, t) => files'[n] = t.job.src[n]
    PROVE  Isolated'
<1>1. InstallsOnly' /\ UNCHANGED <<instances, suspect>>
  BY StillInstalling, QuietStore DEF StoreSame
<1>2. /\ pc'[r] = stage /\ tx'[r] = t /\ Holds(r)' = Held(stage, S, t)
      /\ \A q \in Requests \ {r} : pc'[q] = pc[q] /\ tx'[q] = tx[q] /\ Holds(q)' = Holds(q)
  BY MovedOnly DEF IInv
<1>3. \A q \in Requests : Holds(q) \subseteq Names
  <2> SUFFICES ASSUME NEW q \in Requests PROVE Holds(q) \subseteq Names
    OBVIOUS
  <2>1. Installing(pc[q], todo[q], tx[q])
    BY DEF IInv, InstallsOnly
  <2> QED BY <2>1, HoldsHeld, HeldNamed, NamesOfType
<1>4. OneInstaller'
  <2>1. \A q \in Requests : \A m \in Holds(q)' : files'[m] = tx'[q].job.src[m]
    <3> SUFFICES ASSUME NEW q \in Requests, NEW m \in Holds(q)'
                 PROVE  files'[m] = tx'[q].job.src[m]
      OBVIOUS
    <3>1. CASE m = n
      BY <1>2, <3>1
    <3>2. CASE m # n
      <4>1. m \in Holds(q) /\ m \in Names /\ tx'[q].job = tx[q].job
        BY <1>2, <1>3, <3>2
      <4> QED BY <3>2, <4>1 DEF IInv, OneInstaller
    <3> QED BY <3>1, <3>2
  <2>2. \A q, p \in Requests : p # q => Holds(q)' \cap Holds(p)' = {}
    <3>1. \A q, p \in Requests : p # q => Holds(q) \cap Holds(p) = {}
      BY DEF IInv, OneInstaller
    <3> QED BY <1>2, <3>1
  <2> QED BY <2>1, <2>2 DEF OneInstaller
<1>5. RecordedIsSafe'
  <2> SUFFICES ASSUME NEW i \in Instances, i \notin suspect', Live(i)',
                      NEW m \in NamesOf(instances[i].src)'
               PROVE  /\ files'[m] = instances'[i].src[m]
                      /\ \A q \in Requests : m \in Holds(q)' => pc'[q] \in {"manifest", "readme"}
    BY DEF RecordedIsSafe
  <2>1. i \notin suspect /\ Live(i) /\ m \in NamesOf(instances[i].src)
    BY <1>1 DEF Live, Managed, NamesOf
  <2>2. /\ files[m] = instances[i].src[m]
        /\ \A q \in Requests : m \in Holds(q) => pc[q] \in {"manifest", "readme"}
    BY <2>1 DEF IInv, RecordedIsSafe
  <2>3. m # n /\ m \in Names
    BY <2>1 DEF Unnamed, NamesOf
  <2> QED BY <1>1, <1>2, <2>2, <2>3
<1> QED
  BY <1>1, <1>4, <1>5 DEF Isolated

--------------------------------------------------------------------------------
(* One lemma per action that an install or a lifecycle action can take.         *)

LEMMA LoadIsolated ==
    ASSUME IInv, NEW r \in Requests, Load(r)
    PROVE  Isolated'
<1>1. pc[r] = "load" /\ StoreSame /\ UNCHANGED files /\ Installing(pc[r], todo[r], tx[r])
  BY DEF Load, Leave, IInv, InstallsOnly
<1>2. Op(r) = "install" /\ tx[r].installed = {} /\ tx[r].seen = NothingOn
  BY <1>1 DEF Installing, Op
<1>3. CASE Reply(r, "failed")
  BY <1>1, <1>3, QuietStore, ReplyQuiet
<1>4. CASE Go(r, "installNew", NamesOf(tx[r].job.src)) /\ UNCHANGED tx
  <2>1. Installing("installNew", NamesOf(tx[r].job.src), tx[r])
    BY <1>2 DEF Installing, InstallStages, Forward, Saving, Op
  <2>2. Held("installNew", NamesOf(tx[r].job.src), tx[r]) = {}
    BY <1>2 DEF Held
  <2>3. Keep(r, tx[r])
    BY <1>4, Unmoved DEF IInv
  <2> QED BY <1>1, <1>4, <2>1, <2>2, <2>3, QuietStore, QuietStep DEF Isolated
<1> QED
  BY <1>2, <1>3, <1>4 DEF Load

LEMMA InstallNewIsolated ==
    ASSUME IInv, NEW r \in Requests, InstallNew(r)
    PROVE  Isolated'
<1>1. /\ pc[r] = "installNew" /\ StoreSame /\ Installing("installNew", todo[r], tx[r])
      /\ tx[r] \in Handler
  BY DEF InstallNew, Visit, Leave, IInv, InstallsOnly, TypeOK, RequestType
<1>2. ASSUME NEW n \in Names, NEW err \in BOOLEAN, Visit(r, "installNew", n),
             InstallQuadlet(Alive(r), n, tx[r].job.src[n], err),
             IF err THEN Abort(r)
             ELSE Advance(r, n) /\ Keep(r, [tx[r] EXCEPT !.installed = @ \cup {n}])
      PROVE  Isolated'
  <2> DEFINE t == [tx[r] EXCEPT !.installed = @ \cup {n}]
             new == [files EXCEPT ![n] = tx[r].job.src[n]]
  <2>1. \/ files[n] = Absent /\ err /\ files' \in {files, new}
        \/ files[n] = Absent /\ ~err /\ files' = new
        \/ err /\ files' = files
    BY <1>2 DEF InstallQuadlet, Answer, Outcome
  <2>2. CASE err /\ files' = files
    BY <1>1, <1>2, <2>2, AbortQuiet DEF Abort
  <2>3. CASE files[n] = Absent /\ err /\ files' \in {files, new}
    <3>1. AbortTo(r, tx[r])
      BY <1>2, <2>3 DEF Abort
    <3>2. \A m \in Names \ {n} : files'[m] = files[m]
      BY <2>3 DEF IInv, TypeOK, HostType, Sources
    <3>3. n \notin tx[r].installed
      BY <1>1, <1>2 DEF Installing, Visit, First
    <3>4. Unnamed(n) /\ \A q \in Requests : n \notin Holds(q)
      BY <2>3, FreeName
    <3> HIDE DEF new, t
    <3>5. /\ Go(r, "undoInstall", tx[r].installed) /\ Keep(r, tx[r])
          /\ Installing("undoInstall", tx[r].installed, tx[r])
          /\ Held("undoInstall", tx[r].installed, tx[r]) = tx[r].installed
          /\ Holds(r) = tx[r].installed
      BY <1>1, <3>1, AbortHolds
    <3> QED BY <1>1, <3>2, <3>3, <3>4, <3>5, FileStep
  <2>4. CASE files[n] = Absent /\ ~err /\ files' = new
    <3>1. Go(r, "installNew", todo[r] \ {n}) /\ Keep(r, t)
      BY <1>1, <1>2, <2>4 DEF Advance
    <3>2. t.job = tx[r].job /\ t.installed = tx[r].installed \cup {n} /\ t.seen = tx[r].seen
      BY <1>1 DEF Handler
    <3>3. n \in todo[r]
      BY <1>2 DEF Visit, First
    <3>4. /\ \A m \in Names \ {n} : files'[m] = files[m]
          /\ files'[n] = tx[r].job.src[n]
      BY <2>4 DEF IInv, TypeOK, HostType, Sources
    <3>5. Unnamed(n) /\ \A q \in Requests : n \notin Holds(q)
      BY <2>4, FreeName
    <3> HIDE DEF new, t
    <3>6. Installing("installNew", todo[r] \ {n}, t)
      BY <1>1, <3>2, <3>3 DEF Installing, Forward, Saving
    <3>7. Held("installNew", todo[r] \ {n}, t) \subseteq Holds(r) \cup {n}
      BY <1>1, <3>2 DEF Held, Holds, Reading
    <3> QED BY <1>1, <3>1, <3>2, <3>4, <3>5, <3>6, <3>7, FileStep
  <2> QED BY <2>1, <2>2, <2>3, <2>4
<1>3. ASSUME Leave(r, "installNew"), Go(r, "reload", {}), HostSame, UNCHANGED tx
      PROVE  Isolated'
  <2>1. Installing("reload", {}, tx[r])
    BY <1>1, <1>3 DEF Installing, Leave, InstallStages, Forward, Saving
  <2>2. Keep(r, tx[r]) /\ UNCHANGED files
    BY <1>3, Unmoved DEF IInv, HostSame, hostVars
  <2> QED BY <1>1, <1>3, <2>1, <2>2, ForwardQuiet DEF Forward
<1> QED
  BY <1>2, <1>3 DEF InstallNew

LEMMA ReloadUnitsIsolated ==
    ASSUME IInv, NEW r \in Requests, ReloadUnits(r)
    PROVE  Isolated'
<1>1. /\ pc[r] = "reload" /\ StoreSame /\ UNCHANGED files
      /\ Installing(pc[r], todo[r], tx[r]) /\ Op(r) = "install"
  BY DEF ReloadUnits, Leave, Reload, IInv, InstallsOnly, Installing, Op
<1>2. CASE Abort(r)
  BY <1>1, <1>2, AbortQuiet DEF Abort, Forward
<1>3. CASE Go(r, "list", {}) /\ UNCHANGED tx
  <2>1. Installing("list", {}, tx[r])
    BY <1>1 DEF Installing, InstallStages, Forward, Saving
  <2>2. Keep(r, tx[r])
    BY <1>3, Unmoved DEF IInv
  <2> QED BY <1>1, <1>3, <2>1, <2>2, ForwardQuiet DEF Forward
<1> QED
  BY <1>1, <1>2, <1>3 DEF ReloadUnits

LEMMA ListGeneratedIsolated ==
    ASSUME IInv, NEW r \in Requests, NEW stage, NEW next, NEW S, ListGenerated(r, stage, next, S),
           \/ stage = "list" /\ next = "start"
           \/ stage = "relist" /\ next = "capture" /\ S = NamesOf(tx[r].job.src)
    PROVE  Isolated'
<1>1. /\ pc[r] = stage /\ StoreSame /\ UNCHANGED files /\ tx[r] \in Handler
      /\ Installing(pc[r], todo[r], tx[r])
  BY DEF ListGenerated, Leave, ListQuadlets, IInv, InstallsOnly, TypeOK, RequestType
<1>2. CASE Abort(r)
  BY <1>1, <1>2, AbortQuiet DEF Abort, Forward
<1>3. CASE Go(r, next, S) /\ Keep(r, [tx[r] EXCEPT !.listed = NamesOf(files)])
  <2> DEFINE t == [tx[r] EXCEPT !.listed = NamesOf(files)]
  <2>1. t.job = tx[r].job /\ t.installed = tx[r].installed /\ t.seen = tx[r].seen /\ Keep(r, t)
    BY <1>1, <1>3 DEF Handler
  <2> HIDE DEF t
  <2>2. t.job.op = "install" /\ t.installed = NamesOf(t.job.src) /\ t.seen = NothingOn
    BY <1>1, <2>1 DEF Installing, Forward, Saving
  <2>3. CASE next = "start"
    <3>1. Installing("start", S, t)
      BY <2>2 DEF Installing, InstallStages, Forward, Saving
    <3> QED BY <1>1, <1>3, <2>1, <2>3, <3>1, ForwardQuiet DEF Forward
  <2>4. CASE next = "capture" /\ S = NamesOf(tx[r].job.src)
    <3>1. t.seen = [n \in Names |-> IF n \in S THEN Absent ELSE t.job.src[n]]
      BY <2>1, <2>2, <2>4 DEF NothingOn, NamesOf
    <3>2. Installing("capture", S, t)
      BY <2>1, <2>2, <2>4, <3>1 DEF Installing, InstallStages, Forward, Saving
    <3> QED BY <1>1, <1>3, <2>1, <2>4, <3>2, ForwardQuiet DEF Forward
  <2> QED BY <2>3, <2>4
<1> QED
  BY <1>2, <1>3 DEF ListGenerated

LEMMA StartUnitIsolated ==
    ASSUME IInv, NEW r \in Requests, StartUnit(r)
    PROVE  Isolated'
<1>1. /\ pc[r] = "start" /\ StoreSame /\ UNCHANGED files /\ tx[r] \in Handler
      /\ Installing(pc[r], todo[r], tx[r])
  BY DEF StartUnit, Visit, Leave, Start, Restart, HostSame, hostVars, IInv, InstallsOnly,
         TypeOK, RequestType
<1>2. ASSUME NEW n \in Names, NEW err \in BOOLEAN,
             LET t == [tx[r] EXCEPT !.started = @ \cup {n}] IN
             IF err THEN AbortTo(r, t) ELSE Go(r, "verify", todo[r]) /\ Keep(r, t)
      PROVE  Isolated'
  <2> DEFINE t == [tx[r] EXCEPT !.started = @ \cup {n}]
  <2>1. t.job = tx[r].job /\ t.installed = tx[r].installed /\ t.seen = tx[r].seen
    BY <1>1 DEF Handler
  <2>2. AbortTo(r, t) \/ (Go(r, "verify", todo[r]) /\ Keep(r, t))
    BY <1>2
  <2> HIDE DEF t
  <2>3. CASE AbortTo(r, t)
    BY <1>1, <2>1, <2>3, AbortQuiet DEF Forward
  <2>4. CASE Go(r, "verify", todo[r]) /\ Keep(r, t)
    <3>1. Installing("verify", todo[r], t)
      BY <1>1, <2>1 DEF Installing, InstallStages, Forward, Saving
    <3> QED BY <1>1, <2>1, <2>4, <3>1, ForwardQuiet DEF Forward
  <2> QED BY <2>2, <2>3, <2>4
<1>3. CASE Abort(r)
  BY <1>1, <1>3, AbortQuiet DEF Abort, Forward
<1>4. CASE Go(r, "relist", {}) /\ UNCHANGED tx
  <2>1. Installing("relist", {}, tx[r])
    BY <1>1 DEF Installing, InstallStages, Forward, Saving
  <2>2. Keep(r, tx[r])
    BY <1>4, Unmoved DEF IInv
  <2> QED BY <1>1, <1>4, <2>1, <2>2, ForwardQuiet DEF Forward
<1> QED
  BY <1>2, <1>3, <1>4 DEF StartUnit

LEMMA VerifyUnitIsolated ==
    ASSUME IInv, NEW r \in Requests, VerifyUnit(r)
    PROVE  Isolated'
<1>1. pc[r] = "verify" /\ StoreSame /\ UNCHANGED files /\ Installing(pc[r], todo[r], tx[r])
  BY DEF VerifyUnit, Visit, Verify, IInv, InstallsOnly
<1>2. CASE Abort(r)
  BY <1>1, <1>2, AbortQuiet DEF Abort, Forward
<1>3. ASSUME NEW n \in Names, Go(r, "start", todo[r] \ {n}), UNCHANGED tx PROVE Isolated'
  <2>1. Installing("start", todo[r] \ {n}, tx[r])
    BY <1>1 DEF Installing, InstallStages, Forward, Saving
  <2>2. Keep(r, tx[r])
    BY <1>3, Unmoved DEF IInv
  <2> QED BY <1>1, <1>3, <2>1, <2>2, ForwardQuiet DEF Forward
<1> QED
  BY <1>2, <1>3 DEF VerifyUnit

LEMMA CaptureIsolated ==
    ASSUME IInv, NEW r \in Requests, Capture(r)
    PROVE  Isolated'
<1>1. /\ pc[r] = "capture" /\ StoreSame /\ tx[r] \in Handler
      /\ Installing("capture", todo[r], tx[r])
  BY DEF Capture, Visit, Leave, IInv, InstallsOnly, TypeOK, RequestType
<1>2. UNCHANGED files
  BY DEF Capture, GetQuadlet, HostSame, hostVars
<1>3. Holds(r) = NamesOf(tx[r].job.src)
  BY <1>1 DEF Holds, Installing, Reading, Forward
<1>4. ASSUME NEW n \in Names, NEW err \in BOOLEAN, Visit(r, "capture", n),
             IF err THEN Abort(r)
             ELSE Advance(r, n) /\ Keep(r, [tx[r] EXCEPT !.seen[n] = files[n]])
      PROVE  Isolated'
  <2> DEFINE t == [tx[r] EXCEPT !.seen[n] = files[n]]
  <2>1. CASE Abort(r)
    BY <1>1, <1>2, <2>1, AbortQuiet DEF Abort, Forward
  <2>2. CASE Advance(r, n) /\ Keep(r, t)
    <3>1. n \in todo[r] /\ n \in Holds(r)
      BY <1>1, <1>3, <1>4 DEF Visit, First, Installing
    <3>2. files[n] = tx[r].job.src[n]
      BY <3>1 DEF IInv, OneInstaller
    <3>3. /\ t.job = tx[r].job /\ t.installed = tx[r].installed
          /\ t.seen = [tx[r].seen EXCEPT ![n] = files[n]]
      BY <1>1 DEF Handler
    <3>4. tx[r].seen = [m \in Names |-> IF m \in todo[r] THEN Absent ELSE tx[r].job.src[m]]
      BY <1>1 DEF Installing
    <3>5. Keep(r, t) /\ Go(r, "capture", todo[r] \ {n})
      BY <1>1, <2>2 DEF Advance
    <3> HIDE DEF t
    <3>6. t.seen = [m \in Names |-> IF m \in todo[r] \ {n} THEN Absent ELSE t.job.src[m]]
      <4>1. t.seen = [m \in Names |-> IF m = n THEN files[n] ELSE tx[r].seen[m]]
        BY <3>3, <3>4
      <4>2. ASSUME NEW m \in Names
            PROVE  (IF m = n THEN files[n] ELSE tx[r].seen[m])
                     = IF m \in todo[r] \ {n} THEN Absent ELSE t.job.src[m]
        BY <3>2, <3>3, <3>4
      <4> QED BY <4>1, <4>2
    <3>7. Installing("capture", todo[r] \ {n}, t)
      BY <1>1, <3>3, <3>6 DEF Installing, InstallStages, Forward, Saving
    <3> QED BY <1>1, <1>2, <3>3, <3>5, <3>7, ForwardQuiet DEF Forward
  <2> QED BY <1>4, <2>1, <2>2
<1>5. ASSUME Leave(r, "capture"), Go(r, "save", {}), UNCHANGED tx PROVE Isolated'
  <2>1. tx[r].job.src \in Sources
    BY <1>1, Locals DEF IInv, Working
  <2>2. tx[r].seen = tx[r].job.src
    BY <1>1, <1>5, <2>1 DEF Installing, Leave, Sources
  <2>3. Installing("save", {}, tx[r])
    BY <1>1, <2>2 DEF Installing, InstallStages, Forward, Saving
  <2>4. Keep(r, tx[r])
    BY <1>5, Unmoved DEF IInv
  <2> QED BY <1>1, <1>2, <1>5, <2>3, <2>4, ForwardQuiet DEF Forward, Saving
<1> QED
  BY <1>4, <1>5 DEF Capture

LEMMA UnrecordedIsolated ==
    ASSUME IInv, NEW r \in Requests, Unrecorded(r), UNCHANGED <<files, instances, plans>>
    PROVE  Isolated'
<1>1. suspect \subseteq suspect' /\ PlansInstall'
  BY DEF Unrecorded, PlansInstall, IInv, InstallsOnly
<1> QED
  BY <1>1, ReplyQuiet DEF Unrecorded

(* The record is written while its names are held: what it says is on disk, and *)
(* the handler that wrote it no longer rolls back.                              *)
LEMMA SaveInstanceIsolated ==
    ASSUME IInv, NEW r \in Requests, SaveInstance(r)
    PROVE  Isolated'
<1>1. /\ pc[r] = "save" /\ UNCHANGED <<files, plans>>
      /\ Installing("save", todo[r], tx[r])
  BY DEF SaveInstance, Leave, IInv, InstallsOnly
<1>2. CASE Unrecorded(r) /\ UNCHANGED instances
  BY <1>1, <1>2, UnrecordedIsolated
<1>3. CASE /\ instances' = [instances EXCEPT ![Inst(r)] = NewRecord(tx[r])]
           /\ Go(r, "manifest", {}) /\ UNCHANGED <<tx, suspect>>
  <2> DEFINE src == tx[r].job.src
             names == NamesOf(src)
  <2>1. Op(r) = "install" /\ tx[r].seen = src /\ tx[r].installed = names
    BY <1>1 DEF Installing, Saving, Forward, Op
  <2>2. NewRecord(tx[r]).src = src
    BY <2>1 DEF NewRecord, Op
  <2>3. Installing("manifest", {}, tx[r]) /\ Keep(r, tx[r])
    BY <1>1, <1>3, Unmoved DEF Installing, InstallStages, Forward, Saving, IInv
  <2>4. Holds(r) = names
    BY <1>1, <2>1 DEF Holds, Reading
  <2>5. Held("manifest", {}, tx[r]) = names
    BY <2>1 DEF Held, Reading
  <2>6. /\ pc'[r] = "manifest" /\ Holds(r)' = names
        /\ \A q \in Requests \ {r} : pc'[q] = pc[q] /\ Holds(q)' = Holds(q)
    BY <1>3, <2>3, <2>5, MovedOnly DEF IInv
  <2>7. InstallsOnly'
    BY <1>1, <1>3, <2>3, StillInstalling DEF PlansInstall, IInv, InstallsOnly
  <2>8. OneInstaller'
    BY <1>1, <1>3, <2>4, <2>6 DEF IInv, OneInstaller
  <2>9. RecordedIsSafe'
    <3> SUFFICES ASSUME NEW i \in Instances, i \notin suspect', Live(i)',
                        NEW m \in NamesOf(instances[i].src)'
                 PROVE  /\ files'[m] = instances'[i].src[m]
                        /\ \A q \in Requests : m \in Holds(q)' => pc'[q] \in {"manifest", "readme"}
      BY DEF RecordedIsSafe
    <3>1. CASE i = Inst(r)
      <4>1. instances'[i].src = src
        BY <1>3, <2>2, <3>1 DEF IInv, TypeOK, StoreType
      <4>2. m \in names
        BY <4>1 DEF NamesOf
      <4>3. files[m] = src[m]
        BY <2>4, <4>2 DEF IInv, OneInstaller
      <4>4. \A q \in Requests \ {r} : m \notin Holds(q)
        BY <2>4, <4>2 DEF IInv, OneInstaller
      <4> QED BY <1>1, <2>6, <4>1, <4>3, <4>4
    <3>2. CASE i # Inst(r)
      <4>1. instances'[i] = instances[i]
        BY <1>3, <3>2 DEF IInv, TypeOK, StoreType
      <4>2. i \notin suspect /\ Live(i) /\ m \in NamesOf(instances[i].src)
        BY <1>3, <4>1 DEF Live, Managed, NamesOf
      <4>3. /\ files[m] = instances[i].src[m]
            /\ \A q \in Requests : m \in Holds(q) => pc[q] \in {"manifest", "readme"}
        BY <4>2 DEF IInv, RecordedIsSafe
      <4> QED BY <1>1, <2>4, <2>6, <4>1, <4>3
    <3> QED BY <3>1, <3>2
  <2> QED BY <2>7, <2>8, <2>9 DEF Isolated
<1> QED
  BY <1>2, <1>3 DEF SaveInstance

LEMMA WriteManifestIsolated ==
    ASSUME IInv, NEW r \in Requests, WriteManifest(r)
    PROVE  Isolated'
<1>1. /\ pc[r] = "manifest" /\ UNCHANGED <<files, instances, plans>>
      /\ Installing("manifest", todo[r], tx[r])
  BY DEF WriteManifest, Leave, IInv, InstallsOnly
<1>2. CASE Unrecorded(r)
  BY <1>1, <1>2, UnrecordedIsolated
<1>3. CASE Go(r, "readme", {}) /\ UNCHANGED <<tx, suspect>>
  <2>1. Installing("readme", {}, tx[r]) /\ Keep(r, tx[r])
    BY <1>1, <1>3, Unmoved DEF Installing, InstallStages, Forward, Saving, IInv
  <2>2. Held("readme", {}, tx[r]) \subseteq Holds(r)
    BY <1>1 DEF Held, Holds, Reading
  <2>3. PlansInstall' /\ suspect \subseteq suspect'
    BY <1>1, <1>3 DEF PlansInstall, IInv, InstallsOnly
  <2> QED BY <1>1, <1>3, <2>1, <2>2, <2>3, QuietStep DEF Isolated
<1> QED
  BY <1>2, <1>3 DEF WriteManifest

LEMMA WriteReadmeIsolated ==
    ASSUME IInv, NEW r \in Requests, WriteReadme(r)
    PROVE  Isolated'
<1>1. UNCHANGED <<files, instances>>
  BY DEF WriteReadme
<1>2. CASE Unrecorded(r) /\ UNCHANGED plans
  BY <1>1, <1>2, UnrecordedIsolated
<1>3. CASE /\ Reply(r, "succeeded") /\ UNCHANGED suspect
           /\ plans' = plans \/ plans' = [plans EXCEPT ![tx[r].id] = NoPlan]
  <2>1. PlansInstall'
    BY <1>3 DEF PlansInstall, IInv, InstallsOnly, TypeOK, StoreType
  <2> QED BY <1>1, <1>3, <2>1, ReplyQuiet
<1> QED
  BY <1>2, <1>3 DEF WriteReadme

(* The rollback removes with force, and only what it holds.                     *)
LEMMA UndoInstallIsolated ==
    ASSUME IInv, NEW r \in Requests, UndoInstall(r)
    PROVE  Isolated'
<1>1. /\ pc[r] = "undoInstall" /\ StoreSame /\ tx[r] \in Handler
      /\ Installing("undoInstall", todo[r], tx[r]) /\ Op(r) = "install"
  BY DEF UndoInstall, VisitBack, Leave, IInv, InstallsOnly, TypeOK, RequestType, Installing, Op
<1>2. ASSUME NEW n \in Names, NEW err \in BOOLEAN, VisitBack(r, "undoInstall", n),
             RemoveQuadlet(Alive(r), n, Op(r) = "install", err),
             Advance(r, n), RollbackError(r, err)
      PROVE  Isolated'
  <2> DEFINE t == [tx[r] EXCEPT !.rbErr = @ \/ err]
  <2>1. /\ Go(r, "undoInstall", todo[r] \ {n}) /\ Keep(r, t)
        /\ t.job = tx[r].job
    BY <1>1, <1>2 DEF Advance, RollbackError, Handler
  <2> HIDE DEF t
  <2>2. n \in Holds(r)
    BY <1>1, <1>2 DEF VisitBack, Last, Holds
  <2>3. \A q \in Requests \ {r} : n \notin Holds(q)
    BY <2>2 DEF IInv, OneInstaller
  <2>4. Unnamed(n)
    BY <1>1, <2>2 DEF Unnamed, IInv, RecordedIsSafe
  <2>5. \A m \in Names \ {n} : files'[m] = files[m]
    BY <1>2 DEF RemoveQuadlet, Outcome, IInv, TypeOK, HostType, Sources
  <2>6. Installing("undoInstall", todo[r] \ {n}, t)
    BY <1>1, <2>1 DEF Installing, InstallStages, Forward, Saving
  <2>7. Held("undoInstall", todo[r] \ {n}, t) = Holds(r) \ {n}
    BY <1>1 DEF Held, Holds
  <2> QED BY <1>1, <2>1, <2>3, <2>4, <2>5, <2>6, <2>7, FileStep
<1>3. ASSUME Go(r, "undoReload", {}), HostSame, UNCHANGED tx PROVE Isolated'
  <2>1. Installing("undoReload", {}, tx[r]) /\ Keep(r, tx[r])
    BY <1>1, <1>3, Unmoved DEF Installing, InstallStages, Forward, Saving, IInv
  <2>2. Held("undoReload", {}, tx[r]) = {} /\ UNCHANGED files
    BY <1>3 DEF Held, HostSame, hostVars
  <2> QED BY <1>1, <1>3, <2>1, <2>2, QuietStore, QuietStep DEF Isolated
<1> QED
  BY <1>1, <1>2, <1>3 DEF UndoInstall

LEMMA UndoReloadIsolated ==
    ASSUME IInv, NEW r \in Requests, UndoReload(r)
    PROVE  Isolated'
<1>1. /\ UNCHANGED <<files, instances, plans>> /\ Op(r) = "install"
  BY DEF UndoReload, Leave, Reload, storeVars, IInv, InstallsOnly, Installing, Op
<1>2. PICK err \in BOOLEAN : EndRollback(r, err)
  BY <1>1 DEF UndoReload
<1>3. suspect \subseteq suspect' /\ PlansInstall'
  BY <1>1, <1>2 DEF EndRollback, PlansInstall, IInv, InstallsOnly
<1> QED
  BY <1>1, <1>2, <1>3, ReplyQuiet DEF EndRollback

LEMMA LifecycleStepIsolated ==
    ASSUME IInv, NEW r \in Requests, LifecycleStep(r)
    PROVE  Isolated'
<1>1. /\ pc[r] = "lifecycle" /\ StoreSame /\ Installing("lifecycle", todo[r], tx[r])
  BY DEF LifecycleStep, Visit, Leave, IInv, InstallsOnly
<1>2. UNCHANGED files
  BY DEF LifecycleStep, Start, Stop, Restart, HostSame, hostVars
<1>3. ASSUME NEW x, Reply(r, x) PROVE Isolated'
  BY <1>1, <1>2, <1>3, QuietStore, ReplyQuiet
<1>4. ASSUME NEW n, Advance(r, n), UNCHANGED tx PROVE Isolated'
  <2>1. Go(r, "lifecycle", todo[r] \ {n}) /\ Keep(r, tx[r])
    BY <1>1, <1>4, Unmoved DEF Advance, IInv
  <2>2. Installing("lifecycle", todo[r] \ {n}, tx[r])
    BY <1>1 DEF Installing, InstallStages, Forward, Saving
  <2>3. Held("lifecycle", todo[r] \ {n}, tx[r]) = {}
    BY <1>1 DEF Held, Installing
  <2> QED BY <1>1, <1>2, <2>1, <2>2, <2>3, QuietStore, QuietStep DEF Isolated
<1> QED
  BY <1>3, <1>4 DEF LifecycleStep

--------------------------------------------------------------------------------
(* Plans, the beginning of a handler, and the environment.                      *)

(* A step that moves no handler and no file.                                    *)
LEMMA HandlersSame ==
    ASSUME IInv, UNCHANGED <<files, requestVars, instances>>, suspect \subseteq suspect',
           PlansInstall'
    PROVE  Isolated'
<1>1. InstallsOnly' /\ OneInstaller'
  BY DEF InstallsOnly, PlansInstall, IInv, OneInstaller, Holds, requestVars
<1>2. RecordedIsSafe'
  BY DEF IInv, RecordedIsSafe, Holds, requestVars, Live, Managed
<1> QED
  BY <1>1, <1>2 DEF Isolated

(* A handler that begins, or ends, holds nothing.                               *)
LEMMA BeginsEmpty ==
    ASSUME IInv, NEW r \in Requests, NEW stage \in {"idle", "done", "load", "lifecycle"},
           NEW S, NEW t, Go(r, stage, S), Keep(r, t), HostSame, StoreSame,
           stage = "load" => t.job.op = "install",
           t.installed = {}, t.seen = NothingOn
    PROVE  Isolated'
<1>1. Installing(stage, S, t) /\ Held(stage, S, t) = {}
  BY DEF Installing, InstallStages, Forward, Saving, Held
<1> QED
  BY <1>1, QuietStore, QuietStep DEF Isolated, HostSame, hostVars

LEMMA BeginIsolated ==
    ASSUME IInv, OnlyInstalls, Begin
    PROVE  Isolated'
<1>1. ASSUME NEW id \in PlanIds, NEW op \in Ops, NEW i \in Instances, NEW v \in Versions,
             NEW misread \in BOOLEAN, CreatePlan(id, op, i, v, misread)
      PROVE  Isolated'
  <2>1. op = "install"
    BY <1>1 DEF CreatePlan, OnlyInstalls
  <2>2. PlansInstall'
    BY <1>1, <2>1 DEF CreatePlan, PlansInstall, IInv, InstallsOnly, TypeOK, StoreType
  <2> QED BY <1>1, <2>2, HandlersSame DEF CreatePlan
<1>2. ASSUME NEW id \in PlanIds, SpoilPlan(id) PROVE Isolated'
  <2>1. plans[id] \in Plan /\ plans[id].op = "install" /\ plans' = [plans EXCEPT ![id].valid = FALSE]
    BY <1>2 DEF SpoilPlan, Runnable, IInv, InstallsOnly, TypeOK, StoreType
  <2>2. PlansInstall'
    BY <2>1 DEF PlansInstall, IInv, InstallsOnly, TypeOK, StoreType, Plan
  <2> QED BY <1>2, <2>2, HandlersSame DEF SpoilPlan, HostSame, hostVars
<1>3. ASSUME NEW r \in Requests, NEW id \in PlanIds, ExecutePlan(r, id) PROVE Isolated'
  <2> DEFINE p == plans[id]
             t == [Blank EXCEPT !.id = id, !.job = p,
                       !.prev = IF p.op = "install" THEN NoRecord ELSE instances[p.inst]]
             u == [t EXCEPT !.answer = "refused"]
  <2>1. p.op = "install" /\ HostSame /\ StoreSame
    BY <1>3 DEF ExecutePlan, IInv, InstallsOnly
  <2>2. /\ t.job = p /\ t.installed = {} /\ t.seen = NothingOn
        /\ u.installed = {} /\ u.seen = NothingOn
    BY DEF Blank
  <2>3. \/ Go(r, "done", {}) /\ Keep(r, u)
        \/ Go(r, "load", {}) /\ Keep(r, t)
    BY <1>3, <2>1 DEF ExecutePlan
  <2> HIDE DEF t, u
  <2> QED BY <2>1, <2>2, <2>3, BeginsEmpty
<1>4. ASSUME NEW r \in Requests, NEW i \in Instances, NEW action \in Ops, Lifecycle(r, i, action)
      PROVE  Isolated'
  <2> DEFINE t == [Blank EXCEPT !.job = [op |-> action, inst |-> i, src |-> NothingOn,
                                         drift |-> FALSE, valid |-> TRUE]]
             u == [t EXCEPT !.answer = "refused"]
  <2>1. HostSame /\ StoreSame
    BY <1>4 DEF Lifecycle
  <2>2. /\ t.installed = {} /\ t.seen = NothingOn
        /\ u.installed = {} /\ u.seen = NothingOn
    BY DEF Blank
  <2>3. \/ Go(r, "done", {}) /\ Keep(r, u)
        \/ Go(r, "lifecycle", instances[i].units) /\ Keep(r, t)
    BY <1>4 DEF Lifecycle
  <2> HIDE DEF t, u
  <2> QED BY <2>1, <2>2, <2>3, BeginsEmpty
<1> QED
  BY <1>1, <1>2, <1>3, <1>4 DEF Begin

LEMMA StepIsolated ==
    ASSUME IInv, NEW r \in Requests, Step(r)
    PROVE  Isolated'
<1>1. pc[r] \in InstallStages
  BY DEF IInv, InstallsOnly, Installing
<1>2. ~(\/ CheckDrift(r) \/ Snapshot(r) \/ StopUnit(r) \/ RemoveOld(r) \/ UndoStop(r)
        \/ Reinstall(r) \/ UndoStart(r) \/ UndoVerify(r))
  BY <1>1 DEF InstallStages, Forward, Saving, CheckDrift, Snapshot, StopUnit, RemoveOld, UndoStop,
     Reinstall, UndoStart, UndoVerify, Visit, VisitBack, Leave
<1>3. FindUnits(r) \/ Relist(r) => Isolated'
  BY ListGeneratedIsolated DEF FindUnits, Relist
<1> QED
  BY <1>2, <1>3, LoadIsolated, InstallNewIsolated, ReloadUnitsIsolated, StartUnitIsolated,
     VerifyUnitIsolated, CaptureIsolated, SaveInstanceIsolated, WriteManifestIsolated,
     WriteReadmeIsolated, UndoInstallIsolated, UndoReloadIsolated, LifecycleStepIsolated
     DEF Step

LEMMA EnvironmentIsolated ==
    ASSUME IInv, OnlyInstalls, Environment
    PROVE  Isolated'
<1>1. ASSUME NEW r \in Requests, Answered(r) PROVE Isolated'
  <2>1. Go(r, "idle", {}) /\ Keep(r, Blank) /\ HostSame /\ StoreSame
    BY <1>1 DEF Answered
  <2> QED BY <2>1, BeginsEmpty DEF Blank
<1>2. ASSUME NEW r \in Requests, HangUp(r) PROVE Isolated'
  <2> DEFINE t == [tx[r] EXCEPT !.alive = FALSE]
  <2>1. Keep(r, t) /\ HostSame /\ StoreSame /\ UNCHANGED <<pc, todo>> /\ tx[r] \in Handler
    BY <1>2 DEF HangUp, IInv, TypeOK, RequestType
  <2>2. t.job = tx[r].job /\ t.installed = tx[r].installed /\ t.seen = tx[r].seen
    BY <2>1 DEF Handler
  <2>3. Go(r, pc[r], todo[r])
    BY <2>1 DEF Go, IInv, TypeOK, RequestType
  <2> HIDE DEF t
  <2>4. Installing(pc[r], todo[r], tx[r])
    BY DEF IInv, InstallsOnly
  <2>5. Installing(pc[r], todo[r], t)
    BY <2>2, <2>4 DEF Installing
  <2>6. Held(pc[r], todo[r], t) = Holds(r)
    BY <2>2 DEF Held, Holds
  <2> QED BY <2>1, <2>2, <2>3, <2>5, <2>6, QuietStore, QuietStep DEF Isolated, HostSame, hostVars
<1>3. CASE AgentRestart
  <2>1. /\ pc' = [r \in Requests |-> "idle"] /\ todo' = [r \in Requests |-> {}]
        /\ tx' = [r \in Requests |-> Blank]
        /\ UNCHANGED <<files, instances, plans>> /\ suspect \subseteq suspect'
    BY <1>3 DEF AgentRestart, HostSame, hostVars, storeVars
  <2>2. \A r \in Requests : Holds(r)' = {}
    BY <2>1 DEF Holds
  <2>3. InstallsOnly'
    BY <2>1 DEF IInv, InstallsOnly, Installing, InstallStages, Forward, Saving
  <2>4. OneInstaller' /\ RecordedIsSafe'
    BY <2>1, <2>2 DEF OneInstaller, RecordedIsSafe, IInv, Live, Managed
  <2> QED BY <2>3, <2>4 DEF Isolated
<1>4. ASSUME NEW n \in Names, NEW c \in {Admin, Absent}, AdminEdit(n, c) PROVE Isolated'
  <2>1. /\ files' = [files EXCEPT ![n] = c] /\ UNCHANGED <<requestVars, storeVars>>
        /\ suspect' = suspect \cup {i \in Instances : Live(i) /\ instances[i].src[n] # Absent}
        /\ \A r \in Requests : pc[r] = "idle"
    BY <1>4 DEF AdminEdit, OnlyInstalls
  <2>2. \A r \in Requests : Holds(r)' = {}
    BY <2>1 DEF Holds, requestVars
  <2>3. InstallsOnly'
    BY <2>1 DEF IInv, InstallsOnly, requestVars, storeVars
  <2>4. OneInstaller'
    BY <2>2 DEF OneInstaller
  <2>5. RecordedIsSafe'
    <3> SUFFICES ASSUME NEW i \in Instances, i \notin suspect', Live(i)',
                        NEW m \in NamesOf(instances[i].src)'
                 PROVE  files'[m] = instances'[i].src[m]
      BY <2>2 DEF RecordedIsSafe
    <3>1. i \notin suspect /\ Live(i) /\ m \in NamesOf(instances[i].src) /\ m # n /\ m \in Names
      BY <2>1 DEF Live, Managed, NamesOf, storeVars
    <3>2. files[m] = instances[i].src[m]
      BY <3>1 DEF IInv, RecordedIsSafe
    <3> QED BY <2>1, <3>1, <3>2 DEF storeVars, IInv, TypeOK, HostType, Sources
  <2> QED BY <2>3, <2>4, <2>5 DEF Isolated
<1> QED
  BY <1>1, <1>2, <1>3, <1>4 DEF Environment

--------------------------------------------------------------------------------

LEMMA InitIsolated == Init => IInv
<1> SUFFICES ASSUME Init PROVE IInv
  OBVIOUS
<1>1. \A r \in Requests : Holds(r) = {}
  BY DEF Init, Holds
<1>2. InstallsOnly
  BY DEF Init, InstallsOnly, Installing, InstallStages, Forward, Saving
<1>3. OneInstaller /\ RecordedIsSafe
  BY <1>1 DEF Init, OneInstaller, RecordedIsSafe, Live, Managed
<1> QED
  BY <1>2, <1>3, InitType DEF IInv

LEMMA NextIsolated ==
    ASSUME OnlyInstalls, IInv, [Next]_vars
    PROVE  IInv'
<1>1. TypeOK'
  BY NextType DEF IInv
<1>2. CASE Begin
  BY <1>1, <1>2, BeginIsolated DEF Isolated, IInv
<1>3. CASE \E r \in Requests : Step(r)
  BY <1>1, <1>3, StepIsolated DEF Isolated, IInv
<1>4. CASE Environment
  BY <1>1, <1>4, EnvironmentIsolated DEF Isolated, IInv
<1>5. CASE UNCHANGED vars
  <2>1. /\ UNCHANGED <<files, requestVars, instances>> /\ suspect \subseteq suspect'
        /\ PlansInstall'
    BY <1>5 DEF vars, hostVars, storeVars, PlansInstall, IInv, InstallsOnly
  <2> QED BY <1>1, <2>1, HandlersSame DEF Isolated, IInv
<1> QED
  BY <1>2, <1>3, <1>4, <1>5 DEF Next

(* Concurrent installs: a rollback removes, with force, only what its own       *)
(* transaction put there; no two handlers ever believe a file to be theirs.     *)
THEOREM OneInstallerAlways ==
    ASSUME OnlyInstalls
    PROVE  Spec => []OneInstaller
<1>1. Init => IInv
  BY InitIsolated
<1>2. IInv /\ [Next]_vars => IInv'
  BY NextIsolated
<1>3. IInv => OneInstaller
  BY DEF IInv
<1> QED
  BY <1>1, <1>2, <1>3, PTL DEF Spec

(* Concurrent installs: once an instance is recorded, its files stay as they    *)
(* were recorded, whatever the other installs, their rollbacks and the          *)
(* lifecycle actions do, for any number of requests, instances and names.       *)
THEOREM InstallsKeepBaselines ==
    ASSUME OnlyInstalls
    PROVE  Spec => []InstallKeepsBaseline
<1>1. Init => IInv
  BY InitIsolated
<1>2. IInv /\ [Next]_vars => IInv'
  BY NextIsolated
<1>3. IInv => InstallKeepsBaseline
  BY DEF IInv, RecordedIsSafe, InstallKeepsBaseline
<1> QED
  BY <1>1, <1>2, <1>3, PTL DEF Spec

(* A handler keeps to its plan: what it removes is its own or gone, and what it *)
(* saves is what it installed.                                                  *)
LEMMA InstallsAreTidy ==
    ASSUME IInv
    PROVE  Tidy
<1> SUFFICES ASSUME NEW r \in Requests, pc[r] # "idle"
             PROVE  LET t   == tx[r]
                        new == NamesOf(t.job.src)
                    IN  /\ pc[r] \in Underway => t.installed \subseteq new
                        /\ pc[r] \in Early => t.installed = {}
                        /\ pc[r] = "installNew" => todo[r] \subseteq new
                        /\ pc[r] = "undoInstall" => \A n \in todo[r] : files[n] \in {Absent, t.job.src[n]}
                        /\ pc[r] = "save" => t.seen = t.job.src /\ Op(r) = "install"
                        /\ pc[r] \notin {"removeOld", "reinstall"}
                        /\ Active(r) => Op(r) \notin {"update", "remove"}
  BY DEF Tidy
<1>1. Installing(pc[r], todo[r], tx[r]) /\ Op(r) = tx[r].job.op
  BY DEF IInv, InstallsOnly, Op
<1>2. pc[r] = "undoInstall" => \A n \in todo[r] : files[n] = tx[r].job.src[n]
  BY DEF IInv, OneInstaller, Holds
<1>3. Active(r) => Op(r) \notin {"update", "remove"}
  BY <1>1 DEF Installing, Active, IInv, TypeOK, HandlersFit, Fits, LifecycleOps
<1> QED
  BY <1>1, <1>2, <1>3 DEF Installing, InstallStages, Forward, Saving, Underway, Early

(* Concurrent installs: a client may take each of them to be atomic, but for    *)
(* one file, however they interleave and whatever fails, is cancelled or cut    *)
(* short by a restart: it takes effect when its record is saved, or not at all, *)
(* and then leaves no more than the one file that Podman installed without      *)
(* saying so.                                                                   *)
THEOREM InstallsAreAtomic ==
    ASSUME OnlyInstalls
    PROVE  Spec => OperationsAreAtomic
<1>1. Init => IInv
  BY InitIsolated
<1>2. IInv /\ [Next]_vars => IInv'
  BY NextIsolated
<1>3. IInv => BaselineIsLive
  BY DEF IInv, RecordedIsSafe, BaselineIsLive
<1>4. IInv => Tidy
  BY InstallsAreTidy
<1> QED
  BY <1>1, <1>2, <1>3, <1>4, OperationsAreAtomicIf, PTL DEF Spec

================================================================================
