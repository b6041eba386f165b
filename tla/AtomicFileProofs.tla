---------------------------- MODULE AtomicFileProofs ----------------------------
(* AtomicFile implements Register, for any number of writers, faults, crashes   *)
(* and versions.  One inductive invariant serves the three theorems.            *)
EXTENDS AtomicFile, TLAPS

Unwritten(w) == stage[w] \in {"create", "write", "sync", "rename"}

(* A writer has a version to write; what is about to be renamed was written and *)
(* synced.                                                                      *)
Prepared ==
    \A w \in Writers :
        /\ stage[w] # "idle" => request[w] \in Values
        /\ stage[w] \in {"write", "sync", "rename"} => temp[w].value = request[w]
        /\ stage[w] \in {"sync", "rename"} => temp[w].whole
        /\ stage[w] = "rename" => temp[w].synced

(* A version that is not in place yet is nobody else's.                         *)
Distinct ==
    \A w \in Writers : Unwritten(w) =>
        /\ request[w] \notin Contents(onDisk)
        /\ \A u \in Writers : request[w] \notin behind[u]
        /\ \A u \in Writers : Unwritten(u) /\ u # w => request[u] # request[w]

(* What a writer left behind does not come back once the directory is synced.   *)
Settled ==
    \A w \in Writers :
        /\ stage[w] # "idle" => answer[w] = "none"
        /\ stage[w] = "syncDir" => file.value \notin behind[w]
        /\ stage[w] = "saved" \/ answer[w] = "saved" =>
              behind[w] \cap Contents(onDisk) = {}

IInv == TypeOK /\ FileIsWhole /\ file \in onDisk /\ Prepared

(* For the state store, which syncs the directory.                              *)
DInv == IInv /\ Distinct /\ Settled

--------------------------------------------------------------------------------

(* The contents of a set of files, one file at a time.                          *)
LEMMA ContentsOfOne == ASSUME NEW f PROVE Contents({f}) = {f.value}
  BY DEF Contents

LEMMA ContentsOfMore ==
    ASSUME NEW S, NEW f PROVE Contents(S \cup {f}) = Contents(S) \cup {f.value}
  BY DEF Contents

(* A system call on a temporary file keeps the invariant when the file it       *)
(* leaves is fit for the next stage.                                            *)
LEMMA OnTempKeepsIInv ==
    ASSUME IInv, NEW w \in Writers, NEW from \in Stages, NEW to \in Stages, NEW t \in File,
           from # "idle", OnTemp(w, from, t, to),
           to \in {"write", "sync", "rename"} => t.value = request[w],
           to \in {"sync", "rename"} => t.whole,
           to = "rename" => t.synced
    PROVE  IInv'
  <1> USE FileAssumption DEF IInv
  <1>1. TypeOK'
    BY DEF TypeOK, OnTemp, Fault, Goto, Stages
  <1>2. FileIsWhole' /\ (file \in onDisk)'
    BY DEF OnTemp, FileIsWhole
  <1>3. Prepared'
    BY DEF TypeOK, OnTemp, Fault, Goto, Prepared
  <1> QED BY <1>1, <1>2, <1>3

LEMMA InitIInv == Init => IInv
  BY FileAssumption DEF Init, IInv, TypeOK, FileIsWhole, Prepared, File, NoFile, Stages

LEMMA NextIInv == IInv /\ [Next]_vars => IInv'
  <1> SUFFICES ASSUME IInv, [Next]_vars PROVE IInv'
    OBVIOUS
  <1> USE FileAssumption
  <1>1. ASSUME NEW w \in Writers, NEW v \in Values, Save(w, v) PROVE IInv'
    BY <1>1 DEF Save, Goto, IInv, TypeOK, FileIsWhole, Prepared, Stages
  <1>2. ASSUME NEW w \in Writers, Create(w) PROVE IInv'
    <2> DEFINE t == [value |-> request[w], whole |-> FALSE, synced |-> FALSE]
    <2>1. t \in File
      BY DEF IInv, TypeOK, File
    <2>2. OnTemp(w, "create", t, "write")
      BY <1>2 DEF Create
    <2> QED BY <2>1, <2>2, OnTempKeepsIInv DEF Stages
  <1>3. ASSUME NEW w \in Writers, WriteTemp(w) PROVE IInv'
    <2> DEFINE t == [temp[w] EXCEPT !.whole = TRUE]
    <2>1. t \in File
      BY DEF IInv, TypeOK, File
    <2>2. OnTemp(w, "write", t, "sync") /\ stage[w] = "write"
      BY <1>3 DEF WriteTemp, OnTemp
    <2>3. t.value = request[w] /\ t.whole
      BY <2>2 DEF IInv, TypeOK, File, Prepared
    <2> QED BY <2>1, <2>2, <2>3, OnTempKeepsIInv DEF Stages
  <1>4. ASSUME NEW w \in Writers, SyncTemp(w) PROVE IInv'
    <2> DEFINE t == [temp[w] EXCEPT !.synced = TRUE]
    <2>1. t \in File
      BY DEF IInv, TypeOK, File
    <2>2. OnTemp(w, "sync", t, "rename") /\ stage[w] = "sync"
      BY <1>4 DEF SyncTemp, OnTemp
    <2>3. t.value = request[w] /\ t.whole /\ t.synced
      BY <2>2 DEF IInv, TypeOK, File, Prepared
    <2> QED BY <2>1, <2>2, <2>3, OnTempKeepsIInv DEF Stages
  <1>5. ASSUME NEW w \in Writers, Rename(w) PROVE IInv'
    <2>1. temp[w] \in File /\ NoFile \in File
      BY DEF IInv, TypeOK, File, NoFile
    <2>2. temp[w].whole /\ temp[w].synced
      BY <1>5 DEF Rename, IInv, Prepared
    <2>3. Contents(onDisk) \subseteq Values \cup {Nothing}
      BY DEF IInv, TypeOK, File, Contents
    <2>4. TypeOK'
      BY <1>5, <2>1, <2>3 DEF Rename, Fault, Goto, IInv, TypeOK, Stages
    <2>5. FileIsWhole' /\ (file \in onDisk)'
      BY <1>5, <2>2 DEF Rename, IInv, FileIsWhole
    <2>6. Prepared'
      BY <1>5 DEF Rename, Goto, IInv, TypeOK, Prepared
    <2> QED BY <2>4, <2>5, <2>6 DEF IInv
  <1>6. ASSUME NEW w \in Writers, SyncDir(w) PROVE IInv'
    BY <1>6 DEF SyncDir, Fault, Goto, IInv, TypeOK, FileIsWhole, Prepared, Stages
  <1>7. ASSUME NEW w \in Writers, Finish(w) PROVE IInv'
    BY <1>7 DEF Finish, Goto, IInv, TypeOK, FileIsWhole, Prepared, Stages, File, NoFile
  <1>8. CASE Kill
    BY <1>8 DEF Kill, Stopped, IInv, TypeOK, FileIsWhole, Prepared, Stages, File, NoFile
  <1>9. CASE PowerLoss
    <2>1. PICK f \in onDisk, whole \in BOOLEAN :
             /\ f.synced => whole = f.whole
             /\ file' = [f EXCEPT !.whole = whole, !.synced = TRUE]
             /\ onDisk' = {file'}
      BY <1>9 DEF PowerLoss
    <2>2. f \in File /\ f.whole /\ f.synced
      BY DEF IInv, TypeOK, FileIsWhole
    <2>3. file' \in File /\ file'.whole /\ file'.synced
      BY <2>1, <2>2 DEF File
    <2>4. TypeOK'
      BY <1>9, <2>1, <2>3 DEF PowerLoss, Stopped, IInv, TypeOK, Stages, File, NoFile
    <2>5. Prepared'
      BY <1>9 DEF PowerLoss, Stopped, Prepared
    <2> QED BY <2>1, <2>3, <2>4, <2>5 DEF IInv, FileIsWhole
  <1>10. CASE Writeback
    BY <1>10 DEF Writeback, IInv, TypeOK, FileIsWhole, Prepared
  <1>11. CASE UNCHANGED vars
    BY <1>11 DEF vars, IInv, TypeOK, FileIsWhole, Prepared
  <1> QED BY <1>1, <1>2, <1>3, <1>4, <1>5, <1>6, <1>7, <1>8, <1>9, <1>10, <1>11 DEF Next

(* No reader of the file ever meets half a record, whatever fails and whenever  *)
(* the machine stops (readJSON, after atomicJSON or the generator's atomic).    *)
THEOREM WholeAlways == Spec => []FileIsWhole
  <1>1. IInv => FileIsWhole
    BY DEF IInv
  <1> QED BY InitIInv, NextIInv, <1>1, PTL DEF Spec

--------------------------------------------------------------------------------

(* Every system call is a step of the register or leaves it as it is.           *)
LEMMA InitIsRegister == Init => R!Init
  <1> SUFFICES ASSUME Init PROVE R!Init
    OBVIOUS
  <1>1. file.value = Nothing /\ Contents(onDisk) = {Nothing}
    BY DEF Init, NoFile, Contents
  <1>2. [w \in Writers |-> PhaseOf(stage[w])] = [w \in Writers |-> "idle"]
    BY DEF Init, PhaseOf
  <1> QED BY <1>1, <1>2 DEF Init, R!Init

Phases == [w \in Writers |-> PhaseOf(stage[w])]

(* A writer that moves on moves only its own phase.                             *)
LEMMA PhaseMoves ==
    ASSUME TypeOK, NEW w \in Writers, NEW s \in Stages, Goto(w, s)
    PROVE  Phases' = [Phases EXCEPT ![w] = PhaseOf(s)]
  BY DEF TypeOK, Goto, Phases

(* One that stays in its phase leaves the register alone.                       *)
LEMMA SamePhase ==
    ASSUME TypeOK, NEW w \in Writers, NEW s \in Stages, Goto(w, s),
           PhaseOf(stage[w]) = PhaseOf(s)
    PROVE  Phases' = Phases
  BY PhaseMoves DEF Phases

LEMMA OnTempIsRegister ==
    ASSUME IInv, NEW w \in Writers, NEW from \in Stages, NEW to \in Stages, NEW t,
           OnTemp(w, from, t, to), PhaseOf(from) = "asked", PhaseOf(to) = "asked"
    PROVE  UNCHANGED R!registerVars
  <1>1. PhaseOf("failed") = "asked" /\ "failed" \in Stages
    BY DEF PhaseOf, Stages
  <1>2. Phases' = Phases
    BY <1>1, SamePhase DEF OnTemp, IInv
  <1> QED BY <1>2 DEF OnTemp, R!registerVars, Phases, Contents

LEMMA NextIsRegister == IInv /\ [Next]_vars => [R!Next]_R!registerVars
  <1> SUFFICES ASSUME IInv, [Next]_vars PROVE [R!Next]_R!registerVars
    OBVIOUS
  <1>t. TypeOK
    BY DEF IInv
  <1>p. /\ PhaseOf("idle") = "idle" /\ PhaseOf("create") = "asked"
        /\ PhaseOf("write") = "asked" /\ PhaseOf("sync") = "asked"
        /\ PhaseOf("rename") = "asked" /\ PhaseOf("failed") = "asked"
        /\ PhaseOf("syncDir") = "written" /\ PhaseOf("saved") = "written"
    BY DEF PhaseOf
  <1>1. ASSUME NEW w \in Writers, NEW v \in Values, Save(w, v) PROVE R!Ask(w, v)
    <2>1. Phases' = [Phases EXCEPT ![w] = "asked"] /\ Phases[w] = "idle"
      BY <1>1, <1>t, <1>p, PhaseMoves DEF Save, Stages, Phases
    <2> QED BY <1>1, <2>1 DEF Save, R!Ask, Phases, Contents
  <1>2. ASSUME NEW w \in Writers, Create(w) \/ WriteTemp(w) \/ SyncTemp(w)
        PROVE  UNCHANGED R!registerVars
    BY <1>2, <1>p, OnTempIsRegister DEF Create, WriteTemp, SyncTemp, Stages
  <1>3. ASSUME NEW w \in Writers, Rename(w) PROVE R!TakeEffect(w) \/ UNCHANGED R!registerVars
    <2>1. CASE Goto(w, "failed") /\ UNCHANGED <<file, onDisk, temp, behind>>
      <3>1. Phases' = Phases
        BY <1>3, <2>1, <1>t, <1>p, SamePhase DEF Rename, Stages
      <3> QED BY <1>3, <2>1, <3>1 DEF Rename, R!registerVars, Phases, Contents
    <2>2. CASE /\ file' = temp[w] /\ onDisk' = onDisk \cup {temp[w]}
               /\ Goto(w, IF SyncsDirectory THEN "syncDir" ELSE "saved")
      <3>1. Phases' = [Phases EXCEPT ![w] = "written"] /\ Phases[w] = "asked"
        BY <1>3, <2>2, <1>t, <1>p, PhaseMoves DEF Rename, Stages, Phases
      <3>2. temp[w].value = request[w]
        BY <1>3 DEF Rename, IInv, Prepared
      <3>3. Contents(onDisk)' = Contents(onDisk) \cup {request[w]}
        BY <2>2, <3>2, ContentsOfMore DEF Contents
      <3> QED BY <1>3, <2>2, <3>1, <3>2, <3>3 DEF Rename, R!TakeEffect, Phases
    <2> QED BY <1>3, <2>1, <2>2 DEF Rename
  <1>4. ASSUME NEW w \in Writers, SyncDir(w) PROVE R!Flush \/ UNCHANGED R!registerVars
    <2>1. Phases' = Phases
      BY <1>4, <1>t, <1>p, SamePhase DEF SyncDir, Stages
    <2>2. CASE onDisk' = {file}
      <3>1. Contents(onDisk)' = {file.value}
        BY <2>2, ContentsOfOne DEF Contents
      <3> QED BY <1>4, <2>1, <3>1 DEF SyncDir, R!Flush, Phases
    <2>3. CASE UNCHANGED onDisk
      BY <1>4, <2>1, <2>3 DEF SyncDir, R!registerVars, Phases, Contents
    <2> QED BY <1>4, <2>2, <2>3 DEF SyncDir
  <1>5. ASSUME NEW w \in Writers, Finish(w) PROVE R!Finish(w)
    <2>1. Phases' = [Phases EXCEPT ![w] = "idle"]
      BY <1>5, <1>t, <1>p, PhaseMoves DEF Finish, Stages
    <2>2. CASE stage[w] = "saved"
      <3>1. Phases[w] = "written"
        BY <2>2, <1>p DEF Phases
      <3> QED BY <1>5, <2>1, <2>2, <3>1 DEF Finish, R!Finish, Phases, Contents
    <2>3. CASE stage[w] = "failed"
      <3>1. Phases[w] = "asked"
        BY <2>3, <1>p DEF Phases
      <3> QED BY <1>5, <2>1, <2>3, <3>1 DEF Finish, R!Finish, Phases, Contents
    <2> QED BY <1>5, <2>2, <2>3 DEF Finish
  <1>6. ASSUME Stopped PROVE Phases' = [w \in Writers |-> "idle"]
    BY <1>6, <1>p DEF Stopped, Phases
  <1>7. CASE Kill
    BY <1>6, <1>7 DEF Kill, Stopped, R!Next, R!Kill, Phases, Contents
  <1>8. CASE PowerLoss
    <2>1. PICK f \in onDisk, whole \in BOOLEAN :
             /\ file' = [f EXCEPT !.whole = whole, !.synced = TRUE]
             /\ onDisk' = {file'}
      BY <1>8 DEF PowerLoss
    <2>2. file'.value = f.value
      BY <2>1 DEF IInv, TypeOK, File
    <2>3. file'.value \in Contents(onDisk) /\ Contents(onDisk)' = {file'.value}
      BY <2>1, <2>2, ContentsOfOne DEF Contents
    <2> QED BY <1>6, <1>8, <2>3 DEF PowerLoss, Stopped, R!Next, R!PowerLoss, Phases
  <1>9. CASE Writeback
    <2>1. Contents(onDisk)' = {file.value}
      BY <1>9, ContentsOfOne DEF Writeback, Contents
    <2> QED BY <1>9, <2>1 DEF Writeback, R!Flush, R!Next
  <1>10. CASE UNCHANGED vars
    BY <1>10 DEF vars, R!registerVars, Contents
  <1> QED BY <1>1, <1>2, <1>3, <1>4, <1>5, <1>7, <1>8, <1>9, <1>10 DEF Next, R!Next

(* atomicJSON and the generator's atomic implement the register that the engine *)
(* takes a record or a document for: a failed save changes nothing, a           *)
(* successful one takes effect at one instant.                                  *)
THEOREM ImplementsRegister == Spec => IsRegister
  BY InitIInv, NextIInv, InitIsRegister, NextIsRegister, PTL DEF Spec, IsRegister, R!Spec

--------------------------------------------------------------------------------

LEMMA InitDInv == Init => DInv
  BY InitIInv DEF Init, DInv, Distinct, Settled, Unwritten

LEMMA NextDInv == ASSUME SyncsDirectory PROVE DInv /\ [Next]_vars => DInv'
  <1> SUFFICES ASSUME DInv, [Next]_vars PROVE DInv'
    OBVIOUS
  <1>i. IInv /\ IInv' /\ TypeOK /\ file \in onDisk /\ Distinct /\ Settled
    BY NextIInv DEF DInv, IInv
  <1>1. ASSUME NEW w \in Writers, NEW v \in Values, Save(w, v) PROVE (Distinct /\ Settled)'
    <2>1. v \notin Contents(onDisk) /\ v # file.value
      BY <1>1 DEF Save, Fresh, Contents
    <2>2. Contents(onDisk)' = Contents(onDisk)
      BY <1>1 DEF Save, Contents
    <2>3. Distinct'
      BY <1>1, <1>i, <2>1, <2>2 DEF Save, Fresh, Goto, TypeOK, Distinct, Unwritten
    <2>4. Settled'
      BY <1>1, <1>i, <2>1, <2>2 DEF Save, Goto, TypeOK, Settled
    <2> QED BY <2>3, <2>4
  <1>2. ASSUME NEW w \in Writers, Create(w) \/ WriteTemp(w) \/ SyncTemp(w)
        PROVE  (Distinct /\ Settled)'
    <2>1. /\ UNCHANGED <<file, onDisk, request, answer, behind>>
          /\ stage[w] \in {"create", "write", "sync"}
          /\ \E s \in {"write", "sync", "rename", "failed"} : Goto(w, s)
      BY <1>2 DEF Create, WriteTemp, SyncTemp, OnTemp
    <2>2. Contents(onDisk)' = Contents(onDisk)
      BY <2>1 DEF Contents
    <2>3. Distinct'
      BY <1>i, <2>1, <2>2 DEF Goto, TypeOK, Distinct, Unwritten
    <2>4. Settled'
      BY <1>i, <2>1, <2>2 DEF Goto, TypeOK, Settled
    <2> QED BY <2>3, <2>4
  <1>3. ASSUME NEW w \in Writers, Rename(w) PROVE (Distinct /\ Settled)'
    <2>1. CASE Goto(w, "failed") /\ UNCHANGED <<file, onDisk, temp, behind>>
      <3>1. Contents(onDisk)' = Contents(onDisk)
        BY <2>1 DEF Contents
      <3>2. Distinct'
        BY <1>3, <1>i, <2>1, <3>1 DEF Rename, Goto, TypeOK, Distinct, Unwritten
      <3>3. Settled'
        BY <1>3, <1>i, <2>1, <3>1 DEF Rename, Goto, TypeOK, Settled
      <3> QED BY <3>2, <3>3
    <2>2. CASE /\ file' = temp[w] /\ onDisk' = onDisk \cup {temp[w]}
               /\ behind' = [behind EXCEPT ![w] = Contents(onDisk)]
               /\ Goto(w, "syncDir")
      <3>1. temp[w].value = request[w] /\ Unwritten(w)
        BY <1>3, <1>i DEF Rename, IInv, Prepared, Unwritten
      <3>2. Contents(onDisk)' = Contents(onDisk) \cup {request[w]}
        BY <2>2, <3>1, ContentsOfMore DEF Contents
      <3>3. /\ request[w] \notin Contents(onDisk)
            /\ \A u \in Writers : request[w] \notin behind[u]
        BY <1>i, <3>1 DEF Distinct
      <3>4. Distinct'
        <4> SUFFICES ASSUME NEW x \in Writers, Unwritten(x)'
                     PROVE  /\ request[x] \notin Contents(onDisk)'
                            /\ \A u \in Writers : request[x] \notin behind'[u]
                            /\ \A u \in Writers : Unwritten(u)' /\ u # x => request[u] # request[x]
          BY <1>3 DEF Rename, Distinct
        <4>1. x # w /\ Unwritten(x)
          BY <1>i, <2>2 DEF Goto, TypeOK, Unwritten
        <4>2. \A u \in Writers : Unwritten(u)' => Unwritten(u)
          BY <1>i, <2>2, <3>1 DEF Goto, TypeOK, Unwritten
        <4>3. /\ request[x] \notin Contents(onDisk) /\ request[x] # request[w]
              /\ \A u \in Writers : request[x] \notin behind[u]
              /\ \A u \in Writers : Unwritten(u) /\ u # x => request[u] # request[x]
          BY <1>i, <3>1, <4>1 DEF Distinct
        <4>4. \A u \in Writers : behind'[u] \in {behind[u], Contents(onDisk)}
          BY <1>i, <2>2 DEF TypeOK
        <4> QED BY <3>2, <4>2, <4>3, <4>4
      <3>5. Settled'
        <4> SUFFICES ASSUME NEW x \in Writers
                     PROVE  /\ stage'[x] # "idle" => answer[x] = "none"
                            /\ stage'[x] = "syncDir" => file'.value \notin behind'[x]
                            /\ stage'[x] = "saved" \/ answer[x] = "saved" =>
                                  behind'[x] \cap Contents(onDisk)' = {}
          BY <1>3 DEF Rename, Settled
        <4>0. stage[w] = "rename" /\ file'.value = request[w]
          BY <1>3, <2>2, <3>1 DEF Rename
        <4>1. CASE x = w
          <5>1. stage'[x] = "syncDir" /\ behind'[x] = Contents(onDisk)
            BY <1>i, <2>2, <4>1 DEF Goto, TypeOK
          <5>2. answer[x] = "none"
            BY <1>i, <4>0, <4>1 DEF Settled
          <5> QED BY <3>3, <4>0, <5>1, <5>2
        <4>2. CASE x # w
          <5>1. stage'[x] = stage[x] /\ behind'[x] = behind[x]
            BY <1>i, <2>2, <4>2 DEF Goto, TypeOK
          <5>2. request[w] \notin behind[x]
            BY <3>3
          <5>3. /\ stage[x] # "idle" => answer[x] = "none"
                /\ stage[x] = "saved" \/ answer[x] = "saved" =>
                      behind[x] \cap Contents(onDisk) = {}
            BY <1>i DEF Settled
          <5> QED BY <3>2, <4>0, <5>1, <5>2, <5>3
        <4> QED BY <4>1, <4>2
      <3> QED BY <3>4, <3>5
    <2> QED BY <1>3, <2>1, <2>2 DEF Rename
  <1>4. ASSUME NEW w \in Writers, SyncDir(w) PROVE (Distinct /\ Settled)'
    <2>1. CASE onDisk' = {file} /\ UNCHANGED <<behind, faults>>
      <3>1. Contents(onDisk)' = {file.value} /\ file.value \in Contents(onDisk)
        BY <1>i, <2>1, ContentsOfOne DEF Contents
      <3>2. Distinct'
        BY <1>4, <1>i, <2>1, <3>1 DEF SyncDir, Goto, TypeOK, Distinct, Unwritten
      <3>3. Settled'
        BY <1>4, <1>i, <2>1, <3>1 DEF SyncDir, Goto, TypeOK, Settled
      <3> QED BY <3>2, <3>3
    <2>2. CASE behind' = [behind EXCEPT ![w] = {}] /\ UNCHANGED onDisk
      <3>1. Contents(onDisk)' = Contents(onDisk)
        BY <2>2 DEF Contents
      <3>2. Distinct'
        BY <1>4, <1>i, <2>2, <3>1 DEF SyncDir, Goto, TypeOK, Distinct, Unwritten
      <3>3. Settled'
        BY <1>4, <1>i, <2>2, <3>1 DEF SyncDir, Goto, TypeOK, Settled
      <3> QED BY <3>2, <3>3
    <2> QED BY <1>4, <2>1, <2>2 DEF SyncDir
  <1>5. ASSUME NEW w \in Writers, Finish(w) PROVE (Distinct /\ Settled)'
    <2>1. Contents(onDisk)' = Contents(onDisk)
      BY <1>5 DEF Finish, Contents
    <2>2. Distinct'
      BY <1>5, <1>i, <2>1 DEF Finish, Goto, TypeOK, Distinct, Unwritten
    <2>3. Settled'
      BY <1>5, <1>i, <2>1 DEF Finish, Goto, TypeOK, Settled
    <2> QED BY <2>2, <2>3
  <1>6. ASSUME Kill \/ PowerLoss PROVE (Distinct /\ Settled)'
    <2>1. Stopped
      BY <1>6 DEF Kill, PowerLoss
    <2>2. Contents(onDisk)' \subseteq Contents(onDisk)
      <3>1. CASE Kill
        BY <3>1 DEF Kill, Contents
      <3>2. CASE PowerLoss
        <4>1. PICK f \in onDisk, whole \in BOOLEAN :
                 /\ file' = [f EXCEPT !.whole = whole, !.synced = TRUE]
                 /\ onDisk' = {file'}
          BY <3>2 DEF PowerLoss
        <4>2. file'.value = f.value
          BY <1>i, <4>1 DEF TypeOK, File
        <4> QED BY <4>1, <4>2 DEF Contents
      <3> QED BY <1>6, <3>1, <3>2
    <2>3. Distinct'
      BY <2>1 DEF Stopped, Distinct, Unwritten
    <2>4. Settled'
      BY <1>i, <2>1, <2>2 DEF Stopped, Settled
    <2> QED BY <2>3, <2>4
  <1>7. CASE Writeback
    <2>1. Contents(onDisk)' \subseteq Contents(onDisk)
      BY <1>7, <1>i DEF Writeback, Contents
    <2>2. Distinct' /\ Settled'
      BY <1>7, <1>i, <2>1 DEF Writeback, Distinct, Settled, Unwritten
    <2> QED BY <2>2, <1>i DEF DInv
  <1>8. CASE UNCHANGED vars
    <2>1. Contents(onDisk)' = Contents(onDisk)
      BY <1>8 DEF vars, Contents
    <2> QED BY <1>8, <1>i, <2>1 DEF vars, DInv, Distinct, Settled, Unwritten
  <1> QED BY <1>i, <1>1, <1>2, <1>3, <1>4, <1>5, <1>6, <1>7, <1>8 DEF Next, DInv

(* The state store syncs the directory: when SaveInstance has answered nil and  *)
(* that sync did not fail unnoticed, a power loss brings no earlier record back.*)
THEOREM DurableAlways == ASSUME SyncsDirectory PROVE Spec => []DurableOnceAnswered
  <1>1. DInv => DurableOnceAnswered
    BY DEF DInv, Settled, DurableOnceAnswered
  <1> QED BY InitDInv, NextDInv, <1>1, PTL DEF Spec

--------------------------------------------------------------------------------

(* The versions a reader may meet, now or later: those the name may lead to and *)
(* those that are being written.  Only the call of a save adds one.             *)
Exposed == Contents(onDisk \cup {file}) \cup {request[w] : w \in {u \in Writers : stage[u] # "idle"}}

LEMMA SaveExposes ==
    ASSUME TypeOK, NEW w \in Writers, \E v \in Values : Save(w, v)
    PROVE  Exposed' \subseteq Exposed \cup {request'[w]}
  <1>1. PICK v \in Values : Save(w, v)
    OBVIOUS
  <1>2. Contents(onDisk \cup {file})' = Contents(onDisk \cup {file})
    BY <1>1 DEF Save, Contents
  <1>3. ASSUME NEW u \in Writers, stage'[u] # "idle"
        PROVE  u = w \/ (stage[u] # "idle" /\ request'[u] = request[u])
    BY <1>1, <1>3 DEF Save, Goto, TypeOK
  <1> QED BY <1>2, <1>3 DEF Exposed

(* Writers that stay where they are, or go to "idle", expose what they did.     *)
LEMMA RequestsStay ==
    ASSUME \A u \in Writers : stage'[u] # "idle" => stage[u] # "idle",
           UNCHANGED request,
           NEW c \in Exposed', c \notin Contents(onDisk \cup {file})'
    PROVE  c \in Exposed
  BY DEF Exposed

LEMMA StepsExposeNothing ==
    ASSUME IInv,
           \/ \E w \in Writers :
                 \/ Create(w) \/ WriteTemp(w) \/ SyncTemp(w)
                 \/ Rename(w) \/ SyncDir(w) \/ Finish(w)
           \/ Kill \/ PowerLoss \/ Writeback
    PROVE  Exposed' \subseteq Exposed
  <1> SUFFICES ASSUME NEW c \in Exposed' PROVE c \in Exposed
    OBVIOUS
  <1>t. TypeOK /\ file \in onDisk
    BY DEF IInv
  <1>1. /\ \A u \in Writers : stage'[u] # "idle" => stage[u] # "idle"
        /\ UNCHANGED request
    <2>1. ASSUME NEW w \in Writers, Create(w) \/ WriteTemp(w) \/ SyncTemp(w)
          PROVE  (\A u \in Writers : stage'[u] # "idle" => stage[u] # "idle") /\ UNCHANGED request
      BY <2>1, <1>t DEF Create, WriteTemp, SyncTemp, OnTemp, Goto, TypeOK
    <2>2. ASSUME NEW w \in Writers, Rename(w) \/ SyncDir(w) \/ Finish(w)
          PROVE  (\A u \in Writers : stage'[u] # "idle" => stage[u] # "idle") /\ UNCHANGED request
      BY <2>2, <1>t DEF Rename, SyncDir, Finish, Goto, TypeOK
    <2>3. CASE Kill \/ PowerLoss
      BY <2>3 DEF Kill, PowerLoss, Stopped
    <2>4. CASE Writeback
      BY <2>4 DEF Writeback
    <2> QED BY <2>1, <2>2, <2>3, <2>4
  <1>2. CASE c \notin Contents(onDisk \cup {file})'
    BY <1>1, <1>2, RequestsStay
  <1>3. CASE c \in Contents(onDisk \cup {file})'
    <2>1. ASSUME NEW w \in Writers, Create(w) \/ WriteTemp(w) \/ SyncTemp(w) \/ Finish(w)
          PROVE  c \in Exposed
      BY <2>1, <1>3 DEF Create, WriteTemp, SyncTemp, Finish, OnTemp, Exposed, Contents
    <2>2. ASSUME NEW w \in Writers, Rename(w) PROVE c \in Exposed
      <3>1. temp[w].value = request[w] /\ stage[w] # "idle"
        BY <2>2 DEF Rename, IInv, Prepared
      <3>2. c \in Contents(onDisk \cup {file}) \/ c = temp[w].value
        BY <2>2, <1>3 DEF Rename, Contents
      <3> QED BY <3>1, <3>2 DEF Exposed
    <2>3. ASSUME NEW w \in Writers, SyncDir(w) PROVE c \in Exposed
      BY <2>3, <1>3 DEF SyncDir, Exposed, Contents
    <2>4. CASE Kill \/ Writeback
      BY <2>4, <1>3 DEF Kill, Writeback, Exposed, Contents
    <2>5. CASE PowerLoss
      <3>1. PICK f \in onDisk, whole \in BOOLEAN :
               /\ file' = [f EXCEPT !.whole = whole, !.synced = TRUE]
               /\ onDisk' = {file'}
        BY <2>5 DEF PowerLoss
      <3>2. file'.value = f.value
        BY <1>t, <3>1 DEF TypeOK, File
      <3>3. c = f.value
        BY <1>3, <3>1, <3>2 DEF Contents
      <3> QED BY <3>1, <3>3 DEF Exposed, Contents
    <2> QED BY <2>1, <2>2, <2>3, <2>4, <2>5
  <1> QED BY <1>2, <1>3

================================================================================
