----------------------------- MODULE RecoveryProofs -----------------------------
(* The record and its documents, for any number of handlers, records, faults    *)
(* and crashes.  Each of the three files is an AtomicFile of its own, and what  *)
(* AtomicFileProofs proves of one file is used three times: a step of Recovery  *)
(* is a step of each file, or leaves it alone.                                  *)
EXTENDS Recovery, TLAPS

RecordFile == INSTANCE AtomicFileProofs WITH SyncsDirectory <- TRUE,
    file <- recFile, onDisk <- recDisk, temp <- recTemp, stage <- recStage,
    request <- recRequest, answer <- recAnswer, behind <- recBehind

ManifestFile == INSTANCE AtomicFileProofs WITH SyncsDirectory <- FALSE,
    file <- manFile, onDisk <- manDisk, temp <- manTemp, stage <- manStage,
    request <- manRequest, answer <- manAnswer, behind <- manBehind

ReadmeFile == INSTANCE AtomicFileProofs WITH SyncsDirectory <- FALSE,
    file <- docFile, onDisk <- docDisk, temp <- docTemp, stage <- docStage,
    request <- docRequest, answer <- docAnswer, behind <- docBehind

--------------------------------------------------------------------------------

(* What AtomicFileProofs assumes of the constants holds of those of each file.  *)
LEMMA FilesAssumed ==
    RecordFile!FileAssumption /\ ManifestFile!FileAssumption /\ ReadmeFile!FileAssumption
  BY RecoveryAssumption DEF RecordFile!FileAssumption, ManifestFile!FileAssumption,
     ReadmeFile!FileAssumption

(* The files of Recovery are those that AtomicFileProofs is instantiated for.   *)
LEMMA RecordSame ==
    /\ \A w \in Writers :
          /\ \A v : Record!Save(w, v) <=> RecordFile!Save(w, v)
          /\ Record!Create(w) <=> RecordFile!Create(w)
          /\ Record!WriteTemp(w) <=> RecordFile!WriteTemp(w)
          /\ Record!SyncTemp(w) <=> RecordFile!SyncTemp(w)
          /\ Record!Rename(w) <=> RecordFile!Rename(w)
          /\ Record!SyncDir(w) <=> RecordFile!SyncDir(w)
          /\ Record!Finish(w) <=> RecordFile!Finish(w)
    /\ Record!Kill <=> RecordFile!Kill
    /\ Record!PowerLoss <=> RecordFile!PowerLoss
    /\ Record!Writeback <=> RecordFile!Writeback
  BY DEF Record!Save, Record!Fresh, Record!Create, Record!WriteTemp, Record!SyncTemp,
     Record!Rename, Record!SyncDir, Record!Finish, Record!Kill, Record!PowerLoss,
     Record!Writeback, Record!Stopped, Record!OnTemp, Record!Fault, Record!Goto,
     Record!Contents, Record!NoFile, RecordFile!Save, RecordFile!Fresh,
     RecordFile!Create, RecordFile!WriteTemp, RecordFile!SyncTemp,
     RecordFile!Rename, RecordFile!SyncDir, RecordFile!Finish, RecordFile!Kill,
     RecordFile!PowerLoss, RecordFile!Writeback, RecordFile!Stopped,
     RecordFile!OnTemp, RecordFile!Fault, RecordFile!Goto, RecordFile!Contents,
     RecordFile!NoFile

LEMMA ManifestSame ==
    /\ \A w \in Writers :
          /\ \A v : Manifest!Save(w, v) <=> ManifestFile!Save(w, v)
          /\ Manifest!Create(w) <=> ManifestFile!Create(w)
          /\ Manifest!WriteTemp(w) <=> ManifestFile!WriteTemp(w)
          /\ Manifest!SyncTemp(w) <=> ManifestFile!SyncTemp(w)
          /\ Manifest!Rename(w) <=> ManifestFile!Rename(w)
          /\ Manifest!SyncDir(w) <=> ManifestFile!SyncDir(w)
          /\ Manifest!Finish(w) <=> ManifestFile!Finish(w)
    /\ Manifest!Kill <=> ManifestFile!Kill
    /\ Manifest!PowerLoss <=> ManifestFile!PowerLoss
    /\ Manifest!Writeback <=> ManifestFile!Writeback
  BY DEF Manifest!Save, Manifest!Fresh, Manifest!Create, Manifest!WriteTemp,
     Manifest!SyncTemp, Manifest!Rename, Manifest!SyncDir, Manifest!Finish,
     Manifest!Kill, Manifest!PowerLoss, Manifest!Writeback, Manifest!Stopped,
     Manifest!OnTemp, Manifest!Fault, Manifest!Goto, Manifest!Contents,
     Manifest!NoFile, ManifestFile!Save, ManifestFile!Fresh, ManifestFile!Create,
     ManifestFile!WriteTemp, ManifestFile!SyncTemp, ManifestFile!Rename,
     ManifestFile!SyncDir, ManifestFile!Finish, ManifestFile!Kill,
     ManifestFile!PowerLoss, ManifestFile!Writeback, ManifestFile!Stopped,
     ManifestFile!OnTemp, ManifestFile!Fault, ManifestFile!Goto,
     ManifestFile!Contents, ManifestFile!NoFile

LEMMA ReadmeSame ==
    /\ \A w \in Writers :
          /\ \A v : Readme!Save(w, v) <=> ReadmeFile!Save(w, v)
          /\ Readme!Create(w) <=> ReadmeFile!Create(w)
          /\ Readme!WriteTemp(w) <=> ReadmeFile!WriteTemp(w)
          /\ Readme!SyncTemp(w) <=> ReadmeFile!SyncTemp(w)
          /\ Readme!Rename(w) <=> ReadmeFile!Rename(w)
          /\ Readme!SyncDir(w) <=> ReadmeFile!SyncDir(w)
          /\ Readme!Finish(w) <=> ReadmeFile!Finish(w)
    /\ Readme!Kill <=> ReadmeFile!Kill
    /\ Readme!PowerLoss <=> ReadmeFile!PowerLoss
    /\ Readme!Writeback <=> ReadmeFile!Writeback
  BY DEF Readme!Save, Readme!Fresh, Readme!Create, Readme!WriteTemp, Readme!SyncTemp,
     Readme!Rename, Readme!SyncDir, Readme!Finish, Readme!Kill, Readme!PowerLoss,
     Readme!Writeback, Readme!Stopped, Readme!OnTemp, Readme!Fault, Readme!Goto,
     Readme!Contents, Readme!NoFile, ReadmeFile!Save, ReadmeFile!Fresh,
     ReadmeFile!Create, ReadmeFile!WriteTemp, ReadmeFile!SyncTemp,
     ReadmeFile!Rename, ReadmeFile!SyncDir, ReadmeFile!Finish, ReadmeFile!Kill,
     ReadmeFile!PowerLoss, ReadmeFile!Writeback, ReadmeFile!Stopped,
     ReadmeFile!OnTemp, ReadmeFile!Fault, ReadmeFile!Goto, ReadmeFile!Contents,
     ReadmeFile!NoFile

--------------------------------------------------------------------------------

FilesInv == RecordFile!IInv /\ ManifestFile!IInv /\ ReadmeFile!IInv

Bounded == faults \in 0 .. MaxFaults /\ crashes \in 0 .. MaxCrashes

(* A step of Recovery is a step of each of its files, or leaves it alone.       *)
LEMMA StepsAreOfFiles ==
    ASSUME FilesInv, Next
    PROVE  /\ RecordFile!Next \/ UNCHANGED recVars
           /\ ManifestFile!Next \/ UNCHANGED manVars
           /\ ReadmeFile!Next \/ UNCHANGED docVars
           /\ RecordFile!Next \/ ManifestFile!Next \/ ReadmeFile!Next
  <1>1. ASSUME NEW w \in Writers, NEW v \in Values, SaveInstance(w, v)
        PROVE  RecordFile!Next /\ UNCHANGED manVars /\ UNCHANGED docVars
    BY <1>1, RecordSame DEF SaveInstance, RecordFile!Next
  <1>2. ASSUME NEW w \in Writers, RecordStep(w)
        PROVE  RecordFile!Next /\ UNCHANGED manVars /\ UNCHANGED docVars
    BY <1>2, RecordSame DEF RecordStep, RecordFile!Next
  <1>3. ASSUME NEW w \in Writers, RecordSaved(w)
        PROVE  RecordFile!Next /\ (ManifestFile!Next \/ UNCHANGED manVars) /\ UNCHANGED docVars
    <2>1. RecordFile!Finish(w) /\ UNCHANGED docVars
      BY <1>3, RecordSame DEF RecordSaved
    <2>2. CASE recStage[w] = "saved"
      <3>1. recRequest[w] \in Values
        BY <2>2 DEF FilesInv, RecordFile!IInv, RecordFile!Prepared
      <3>2. ManifestFile!Save(w, recRequest[w])
        BY <1>3, <2>2, ManifestSame DEF RecordSaved
      <3> QED BY <2>1, <3>1, <3>2 DEF RecordFile!Next, ManifestFile!Next
    <2>3. CASE recStage[w] # "saved"
      BY <1>3, <2>1, <2>3 DEF RecordSaved, RecordFile!Next
    <2> QED BY <2>2, <2>3
  <1>4. ASSUME NEW w \in Writers, ManifestStep(w)
        PROVE  ManifestFile!Next /\ UNCHANGED recVars /\ UNCHANGED docVars
    BY <1>4, ManifestSame DEF ManifestStep, ManifestFile!Next
  <1>5. ASSUME NEW w \in Writers, ManifestSaved(w)
        PROVE  ManifestFile!Next /\ (ReadmeFile!Next \/ UNCHANGED docVars) /\ UNCHANGED recVars
    <2>1. ManifestFile!Finish(w) /\ UNCHANGED recVars
      BY <1>5, ManifestSame DEF ManifestSaved
    <2>2. CASE manStage[w] = "saved"
      <3>1. manRequest[w] \in Values
        BY <2>2 DEF FilesInv, ManifestFile!IInv, ManifestFile!Prepared
      <3>2. ReadmeFile!Save(w, manRequest[w])
        BY <1>5, <2>2, ReadmeSame DEF ManifestSaved
      <3> QED BY <2>1, <3>1, <3>2 DEF ManifestFile!Next, ReadmeFile!Next
    <2>3. CASE manStage[w] # "saved"
      BY <1>5, <2>1, <2>3 DEF ManifestSaved, ManifestFile!Next
    <2> QED BY <2>2, <2>3
  <1>6. ASSUME NEW w \in Writers, ReadmeStep(w)
        PROVE  ReadmeFile!Next /\ UNCHANGED recVars /\ UNCHANGED manVars
    BY <1>6, ReadmeSame DEF ReadmeStep, ReadmeFile!Next
  <1>7. CASE Kill \/ PowerLoss
    BY <1>7, RecordSame, ManifestSame, ReadmeSame
       DEF Kill, PowerLoss, RecordFile!Next, ManifestFile!Next, ReadmeFile!Next
  <1>8. CASE Writeback
    BY <1>8, RecordSame, ManifestSame, ReadmeSame
       DEF Writeback, RecordFile!Next, ManifestFile!Next, ReadmeFile!Next
  <1> QED BY <1>1, <1>2, <1>3, <1>4, <1>5, <1>6, <1>7, <1>8 DEF Next

(* A file that a step leaves alone keeps its invariant, which tells of the      *)
(* faults and crashes only that they are bounded.                               *)
LEMMA RecordAlone ==
    ASSUME RecordFile!IInv, UNCHANGED recVars, Bounded' PROVE RecordFile!IInv'
  BY DEF recVars, Bounded, RecordFile!IInv, RecordFile!TypeOK, RecordFile!FileIsWhole,
     RecordFile!Prepared

LEMMA ManifestAlone ==
    ASSUME ManifestFile!IInv, UNCHANGED manVars, Bounded' PROVE ManifestFile!IInv'
  BY DEF manVars, Bounded, ManifestFile!IInv, ManifestFile!TypeOK, ManifestFile!FileIsWhole,
     ManifestFile!Prepared

LEMMA ReadmeAlone ==
    ASSUME ReadmeFile!IInv, UNCHANGED docVars, Bounded' PROVE ReadmeFile!IInv'
  BY DEF docVars, Bounded, ReadmeFile!IInv, ReadmeFile!TypeOK, ReadmeFile!FileIsWhole,
     ReadmeFile!Prepared

LEMMA InitFiles == Init => RecordFile!Init /\ ManifestFile!Init /\ ReadmeFile!Init
  BY DEF Init, Record!Init, Manifest!Init, Readme!Init, Record!NoFile, Manifest!NoFile,
     Readme!NoFile, RecordFile!Init, ManifestFile!Init, ReadmeFile!Init,
     RecordFile!NoFile, ManifestFile!NoFile, ReadmeFile!NoFile

LEMMA InitFilesInv == Init => FilesInv
  BY InitFiles, FilesAssumed, RecordFile!InitIInv, ManifestFile!InitIInv, ReadmeFile!InitIInv
     DEF FilesInv

LEMMA NextFilesInv == FilesInv /\ [Next]_vars => FilesInv'
  <1> SUFFICES ASSUME FilesInv, [Next]_vars PROVE FilesInv'
    OBVIOUS
  <1>1. CASE Next
    <2>1. RecordFile!Next => RecordFile!IInv'
      BY FilesAssumed, RecordFile!NextIInv DEF FilesInv
    <2>2. ManifestFile!Next => ManifestFile!IInv'
      BY FilesAssumed, ManifestFile!NextIInv DEF FilesInv
    <2>3. ReadmeFile!Next => ReadmeFile!IInv'
      BY FilesAssumed, ReadmeFile!NextIInv DEF FilesInv
    <2>4. RecordFile!IInv' \/ ManifestFile!IInv' \/ ReadmeFile!IInv' => Bounded'
      BY DEF Bounded, RecordFile!IInv, ManifestFile!IInv, ReadmeFile!IInv,
         RecordFile!TypeOK, ManifestFile!TypeOK, ReadmeFile!TypeOK
    <2>5. Bounded'
      BY <1>1, <2>1, <2>2, <2>3, <2>4, StepsAreOfFiles
    <2> QED BY <1>1, <2>1, <2>2, <2>3, <2>5, StepsAreOfFiles, RecordAlone, ManifestAlone,
               ReadmeAlone DEF FilesInv
  <1>2. CASE UNCHANGED vars
    <2>1. UNCHANGED recVars /\ UNCHANGED manVars /\ UNCHANGED docVars /\ Bounded'
      BY <1>2 DEF vars, FilesInv, Bounded, RecordFile!IInv, RecordFile!TypeOK
    <2> QED BY <2>1, RecordAlone, ManifestAlone, ReadmeAlone DEF FilesInv
  <1> QED BY <1>1, <1>2

(* No reader of the record or of a document ever meets a torn file, whatever    *)
(* fails and whenever the machine stops (SaveInstance, then docsgen.Write).     *)
THEOREM FilesAreWhole == Spec => []FileIsWhole
  <1>1. FilesInv => FileIsWhole
    BY DEF FilesInv, FileIsWhole, RecordFile!IInv, ManifestFile!IInv, ReadmeFile!IInv,
       RecordFile!FileIsWhole, ManifestFile!FileIsWhole, ReadmeFile!FileIsWhole,
       Record!FileIsWhole, Manifest!FileIsWhole, Readme!FileIsWhole
  <1> QED BY InitFilesInv, NextFilesInv, <1>1, PTL DEF Spec

--------------------------------------------------------------------------------

(* A step of a document is a step of the register that AtomicFileProofs shows a *)
(* file to implement, and a step of another file leaves that register alone.    *)
LEMMA ManifestIsRegister ==
    /\ Init => Manifest!R!Init
    /\ FilesInv /\ [Next]_vars => [Manifest!R!Next]_(Manifest!R!registerVars)
  <1>1. Init => Manifest!R!Init
    <2>1. ManifestFile!R!Init => Manifest!R!Init
      BY DEF ManifestFile!R!Init, Manifest!R!Init, ManifestFile!PhaseOf, Manifest!PhaseOf,
         ManifestFile!Contents, Manifest!Contents
    <2> QED BY <2>1, InitFiles, FilesAssumed, ManifestFile!InitIsRegister
  <1>2. ManifestFile!R!Next => Manifest!R!Next
    BY DEF ManifestFile!R!Next, Manifest!R!Next, ManifestFile!R!Ask, Manifest!R!Ask,
       ManifestFile!R!TakeEffect, Manifest!R!TakeEffect, ManifestFile!R!Finish,
       Manifest!R!Finish, ManifestFile!R!Flush, Manifest!R!Flush, ManifestFile!R!Kill,
       Manifest!R!Kill, ManifestFile!R!PowerLoss, Manifest!R!PowerLoss,
       ManifestFile!PhaseOf, Manifest!PhaseOf, ManifestFile!Contents, Manifest!Contents
  <1>3. UNCHANGED ManifestFile!R!registerVars => UNCHANGED Manifest!R!registerVars
    BY DEF ManifestFile!R!registerVars, Manifest!R!registerVars,
       ManifestFile!PhaseOf, Manifest!PhaseOf, ManifestFile!Contents, Manifest!Contents
  <1>4. UNCHANGED manVars => UNCHANGED Manifest!R!registerVars
    BY DEF manVars, Manifest!R!registerVars, Manifest!PhaseOf, Manifest!Contents
  <1>5. UNCHANGED vars => UNCHANGED manVars
    BY DEF vars
  <1>6. FilesInv /\ ManifestFile!Next => [ManifestFile!R!Next]_(ManifestFile!R!registerVars)
    BY FilesAssumed, ManifestFile!NextIsRegister DEF FilesInv
  <1> QED BY <1>1, <1>2, <1>3, <1>4, <1>5, <1>6, StepsAreOfFiles

LEMMA ReadmeIsRegister ==
    /\ Init => Readme!R!Init
    /\ FilesInv /\ [Next]_vars => [Readme!R!Next]_(Readme!R!registerVars)
  <1>1. Init => Readme!R!Init
    <2>1. ReadmeFile!R!Init => Readme!R!Init
      BY DEF ReadmeFile!R!Init, Readme!R!Init, ReadmeFile!PhaseOf, Readme!PhaseOf,
         ReadmeFile!Contents, Readme!Contents
    <2> QED BY <2>1, InitFiles, FilesAssumed, ReadmeFile!InitIsRegister
  <1>2. ReadmeFile!R!Next => Readme!R!Next
    BY DEF ReadmeFile!R!Next, Readme!R!Next, ReadmeFile!R!Ask, Readme!R!Ask,
       ReadmeFile!R!TakeEffect, Readme!R!TakeEffect, ReadmeFile!R!Finish,
       Readme!R!Finish, ReadmeFile!R!Flush, Readme!R!Flush, ReadmeFile!R!Kill,
       Readme!R!Kill, ReadmeFile!R!PowerLoss, Readme!R!PowerLoss,
       ReadmeFile!PhaseOf, Readme!PhaseOf, ReadmeFile!Contents, Readme!Contents
  <1>3. UNCHANGED ReadmeFile!R!registerVars => UNCHANGED Readme!R!registerVars
    BY DEF ReadmeFile!R!registerVars, Readme!R!registerVars,
       ReadmeFile!PhaseOf, Readme!PhaseOf, ReadmeFile!Contents, Readme!Contents
  <1>4. UNCHANGED docVars => UNCHANGED Readme!R!registerVars
    BY DEF docVars, Readme!R!registerVars, Readme!PhaseOf, Readme!Contents
  <1>5. UNCHANGED vars => UNCHANGED docVars
    BY DEF vars
  <1>6. FilesInv /\ ReadmeFile!Next => [ReadmeFile!R!Next]_(ReadmeFile!R!registerVars)
    BY FilesAssumed, ReadmeFile!NextIsRegister DEF FilesInv
  <1> QED BY <1>1, <1>2, <1>3, <1>4, <1>5, <1>6, StepsAreOfFiles

(* The engine may take the manifest and the readme for registers: a failed save *)
(* changes nothing, a successful one takes effect at one instant (the           *)
(* generator's atomic), whatever the other files do and however the process     *)
(* ends.                                                                        *)
THEOREM DocumentsAreRegisters == Spec => IsRegister
  <1>1. Spec => Manifest!R!Spec
    BY InitFilesInv, NextFilesInv, ManifestIsRegister, PTL DEF Spec, Manifest!R!Spec
  <1>2. Spec => Readme!R!Spec
    BY InitFilesInv, NextFilesInv, ReadmeIsRegister, PTL DEF Spec, Readme!R!Spec
  <1> QED BY <1>1, <1>2 DEF IsRegister, Manifest!IsRegister, Readme!IsRegister

--------------------------------------------------------------------------------

(* What a document shows, or is being made to show, had reached the disk as a   *)
(* record; so had a record whose save has been answered to its handler.         *)
Backed ==
    /\ ManifestFile!Exposed \subseteq durable /\ ReadmeFile!Exposed \subseteq durable
    /\ \A w \in Writers : recStage[w] = "saved" => recRequest[w] \in durable

RInv == FilesInv /\ Backed

LEMMA ManifestUnexposed == UNCHANGED manVars => ManifestFile!Exposed' = ManifestFile!Exposed
  BY DEF manVars, ManifestFile!Exposed, ManifestFile!Contents

LEMMA ReadmeUnexposed == UNCHANGED docVars => ReadmeFile!Exposed' = ReadmeFile!Exposed
  BY DEF docVars, ReadmeFile!Exposed, ReadmeFile!Contents

LEMMA InitRInv == Init => RInv
  <1> SUFFICES ASSUME Init PROVE RInv
    OBVIOUS
  <1>1. RecordFile!Init /\ ManifestFile!Init /\ ReadmeFile!Init /\ durable = {Nothing}
    BY InitFiles DEF Init
  <1>2. ManifestFile!Exposed \subseteq {Nothing}
    BY <1>1 DEF ManifestFile!Init, ManifestFile!NoFile, ManifestFile!Exposed, ManifestFile!Contents
  <1>3. ReadmeFile!Exposed \subseteq {Nothing}
    BY <1>1 DEF ReadmeFile!Init, ReadmeFile!NoFile, ReadmeFile!Exposed, ReadmeFile!Contents
  <1>4. \A w \in Writers : recStage[w] # "saved"
    BY <1>1 DEF RecordFile!Init
  <1> QED BY <1>1, <1>2, <1>3, <1>4, InitFilesInv DEF RInv, Backed

(* A new record takes the place of none that a document shows or will show.     *)
LEMMA SaveKeepsBacked ==
    ASSUME RInv, NEW w \in Writers, NEW v \in Values, SaveInstance(w, v)
    PROVE  Backed'
  <1>t. RecordFile!TypeOK
    BY DEF RInv, FilesInv, RecordFile!IInv
  <1>1. /\ UNCHANGED manVars /\ UNCHANGED docVars /\ durable' = durable \ {v}
        /\ RecordFile!Save(w, v)
        /\ manStage[w] = "idle" /\ docStage[w] = "idle"
    BY RecordSame DEF SaveInstance, Idle
  <1>2. v \notin ManifestFile!Exposed
    BY <1>1 DEF SaveInstance, Manifest!Fresh, Manifest!Contents, ManifestFile!Exposed,
       ManifestFile!Contents
  <1>3. v \notin ReadmeFile!Exposed
    BY <1>1 DEF SaveInstance, Readme!Fresh, Readme!Contents, ReadmeFile!Exposed,
       ReadmeFile!Contents
  <1>4. ASSUME NEW u \in Writers, recStage'[u] = "saved" PROVE recRequest'[u] \in durable'
    <2>1. u # w /\ recStage[u] = "saved" /\ recRequest'[u] = recRequest[u]
      BY <1>1, <1>4, <1>t DEF RecordFile!Save, RecordFile!Goto, RecordFile!TypeOK
    <2>2. recRequest[u] # v
      BY <1>1, <2>1 DEF RecordFile!Save, RecordFile!Fresh
    <2> QED BY <1>1, <2>1, <2>2 DEF RInv, Backed
  <1> QED BY <1>1, <1>2, <1>3, <1>4, ManifestUnexposed, ReadmeUnexposed DEF RInv, Backed

(* A record is answered only when its directory is synced, or when the sync     *)
(* failed unnoticed.                                                            *)
LEMMA RecordKeepsBacked ==
    ASSUME RInv, NEW w \in Writers, RecordStep(w)
    PROVE  Backed'
  <1>t. RecordFile!TypeOK
    BY DEF RInv, FilesInv, RecordFile!IInv
  <1>1. UNCHANGED manVars /\ UNCHANGED docVars /\ durable' = durable \cup Settled
    BY DEF RecordStep
  <1>2. ASSUME NEW u \in Writers, recStage'[u] = "saved" PROVE recRequest'[u] \in durable'
    <2>1. CASE Record!SyncDir(w)
      <3>1. RecordFile!SyncDir(w)
        BY <2>1, RecordSame
      <3>2. CASE u = w
        <4>1. recStage[w] = "syncDir" /\ (recDisk' = {recFile'} \/ faults' # faults)
          BY <3>1, <1>t DEF RecordFile!SyncDir, RecordFile!Fault, RecordFile!TypeOK
        <4>2. recRequest[w] \in Settled
          BY <1>2, <3>2, <4>1 DEF Settled
        <4> QED BY <1>1, <3>1, <3>2, <4>2 DEF RecordFile!SyncDir
      <3>3. CASE u # w
        BY <1>1, <1>2, <1>t, <3>1, <3>3
           DEF RInv, Backed, RecordFile!SyncDir, RecordFile!Goto, RecordFile!TypeOK
      <3> QED BY <3>2, <3>3
    <2>2. CASE Record!Create(w) \/ Record!WriteTemp(w) \/ Record!SyncTemp(w) \/ Record!Rename(w)
      <3>1. recStage[u] = "saved" /\ recRequest'[u] = recRequest[u]
        BY <1>2, <1>t, <2>2, RecordSame
           DEF RecordFile!Create, RecordFile!WriteTemp, RecordFile!SyncTemp, RecordFile!OnTemp,
               RecordFile!Rename, RecordFile!Goto, RecordFile!TypeOK
      <3> QED BY <1>1, <3>1 DEF RInv, Backed
    <2> QED BY <2>1, <2>2 DEF RecordStep
  <1> QED BY <1>1, <1>2, ManifestUnexposed, ReadmeUnexposed DEF RInv, Backed

(* The manifest is written from a record that was answered.                     *)
LEMMA RecordSavedKeepsBacked ==
    ASSUME RInv, NEW w \in Writers, RecordSaved(w)
    PROVE  Backed'
  <1>t. RecordFile!TypeOK /\ ManifestFile!TypeOK
    BY DEF RInv, FilesInv, RecordFile!IInv, ManifestFile!IInv
  <1>1. RecordFile!Finish(w) /\ UNCHANGED docVars /\ UNCHANGED durable
    BY RecordSame DEF RecordSaved
  <1>2. \A u \in Writers : recStage'[u] = "saved" => recRequest'[u] \in durable'
    BY <1>1, <1>t DEF RInv, Backed, RecordFile!Finish, RecordFile!Goto, RecordFile!TypeOK
  <1>3. ManifestFile!Exposed' \subseteq durable'
    <2>1. CASE recStage[w] = "saved"
      <3>1. recRequest[w] \in Values
        BY <2>1 DEF RInv, FilesInv, RecordFile!IInv, RecordFile!Prepared
      <3>2. ManifestFile!Save(w, recRequest[w])
        BY <2>1, ManifestSame DEF RecordSaved
      <3>3. \E v \in Values : ManifestFile!Save(w, v)
        BY <3>1, <3>2
      <3>4. ManifestFile!Exposed' \subseteq ManifestFile!Exposed \cup {manRequest'[w]}
        BY <1>t, <3>3, FilesAssumed, ManifestFile!SaveExposes
      <3>5. manRequest'[w] = recRequest[w]
        BY <1>t, <3>2 DEF ManifestFile!Save, ManifestFile!TypeOK
      <3> QED BY <1>1, <2>1, <3>4, <3>5 DEF RInv, Backed
    <2>2. CASE recStage[w] # "saved"
      BY <1>1, <2>2, ManifestUnexposed DEF RecordSaved, RInv, Backed
    <2> QED BY <2>1, <2>2
  <1> QED BY <1>1, <1>2, <1>3, ReadmeUnexposed DEF RInv, Backed

(* The readme, from the record that the manifest was written from.              *)
LEMMA ManifestSavedKeepsBacked ==
    ASSUME RInv, NEW w \in Writers, ManifestSaved(w)
    PROVE  Backed'
  <1>t. ManifestFile!IInv /\ ReadmeFile!TypeOK
    BY DEF RInv, FilesInv, ReadmeFile!IInv
  <1>1. ManifestFile!Finish(w) /\ UNCHANGED recVars /\ UNCHANGED durable
    BY ManifestSame DEF ManifestSaved
  <1>2. ManifestFile!Exposed' \subseteq ManifestFile!Exposed
    BY <1>1, <1>t, FilesAssumed, ManifestFile!StepsExposeNothing
  <1>3. ReadmeFile!Exposed' \subseteq durable'
    <2>1. CASE manStage[w] = "saved"
      <3>1. manRequest[w] \in Values
        BY <1>t, <2>1 DEF ManifestFile!IInv, ManifestFile!Prepared
      <3>2. ReadmeFile!Save(w, manRequest[w])
        BY <2>1, ReadmeSame DEF ManifestSaved
      <3>3. \E v \in Values : ReadmeFile!Save(w, v)
        BY <3>1, <3>2
      <3>4. ReadmeFile!Exposed' \subseteq ReadmeFile!Exposed \cup {docRequest'[w]}
        BY <1>t, <3>3, FilesAssumed, ReadmeFile!SaveExposes
      <3>5. docRequest'[w] = manRequest[w]
        BY <1>t, <3>2 DEF ReadmeFile!Save, ReadmeFile!TypeOK
      <3>6. manRequest[w] \in ManifestFile!Exposed
        BY <2>1 DEF ManifestFile!Exposed
      <3> QED BY <1>1, <3>4, <3>5, <3>6 DEF RInv, Backed
    <2>2. CASE manStage[w] # "saved"
      BY <1>1, <2>2, ReadmeUnexposed DEF ManifestSaved, RInv, Backed
    <2> QED BY <2>1, <2>2
  <1> QED BY <1>1, <1>2, <1>3 DEF RInv, Backed, recVars

LEMMA NextRInv == RInv /\ [Next]_vars => RInv'
  <1> SUFFICES ASSUME RInv, [Next]_vars PROVE RInv'
    OBVIOUS
  <1>i. FilesInv /\ ManifestFile!IInv /\ ReadmeFile!IInv
    BY DEF RInv, FilesInv
  <1>1. ASSUME NEW w \in Writers, ManifestStep(w) PROVE Backed'
    <2>1. ManifestFile!Exposed' \subseteq ManifestFile!Exposed
      BY <1>1, <1>i, FilesAssumed, ManifestSame, ManifestFile!StepsExposeNothing DEF ManifestStep
    <2>2. ReadmeFile!Exposed' = ReadmeFile!Exposed
      BY <1>1, ReadmeUnexposed DEF ManifestStep
    <2> QED BY <1>1, <2>1, <2>2 DEF ManifestStep, RInv, Backed, recVars
  <1>2. ASSUME NEW w \in Writers, ReadmeStep(w) PROVE Backed'
    <2>1. ReadmeFile!Exposed' \subseteq ReadmeFile!Exposed
      BY <1>2, <1>i, FilesAssumed, ReadmeSame, ReadmeFile!StepsExposeNothing DEF ReadmeStep
    <2>2. ManifestFile!Exposed' = ManifestFile!Exposed
      BY <1>2, ManifestUnexposed DEF ReadmeStep
    <2> QED BY <1>2, <2>1, <2>2 DEF ReadmeStep, RInv, Backed, recVars
  <1>3. ASSUME Kill \/ PowerLoss PROVE Backed'
    <2>1. /\ ManifestFile!Exposed' \subseteq ManifestFile!Exposed
          /\ ReadmeFile!Exposed' \subseteq ReadmeFile!Exposed
      BY <1>3, <1>i, FilesAssumed, ManifestSame, ReadmeSame,
         ManifestFile!StepsExposeNothing, ReadmeFile!StepsExposeNothing DEF Kill, PowerLoss
    <2>2. \A u \in Writers : recStage'[u] = "idle"
      BY <1>3 DEF Kill, PowerLoss, Record!Kill, Record!PowerLoss, Record!Stopped
    <2> QED BY <1>3, <2>1, <2>2 DEF Kill, PowerLoss, RInv, Backed
  <1>4. ASSUME Writeback PROVE Backed'
    <2>1. CASE Record!Writeback /\ durable' = durable \cup Settled /\ UNCHANGED <<manVars, docVars>>
      BY <2>1, ManifestUnexposed, ReadmeUnexposed DEF Record!Writeback, RInv, Backed
    <2>2. CASE Manifest!Writeback /\ UNCHANGED <<recVars, docVars, durable>>
      <3>1. ManifestFile!Exposed' \subseteq ManifestFile!Exposed
        BY <2>2, <1>i, FilesAssumed, ManifestSame, ManifestFile!StepsExposeNothing
      <3> QED BY <2>2, <3>1, ReadmeUnexposed DEF RInv, Backed, recVars
    <2>3. CASE Readme!Writeback /\ UNCHANGED <<recVars, manVars, durable>>
      <3>1. ReadmeFile!Exposed' \subseteq ReadmeFile!Exposed
        BY <2>3, <1>i, FilesAssumed, ReadmeSame, ReadmeFile!StepsExposeNothing
      <3> QED BY <2>3, <3>1, ManifestUnexposed DEF RInv, Backed, recVars
    <2> QED BY <1>4, <2>1, <2>2, <2>3 DEF Writeback
  <1>5. ASSUME UNCHANGED vars PROVE Backed'
    BY <1>5, ManifestUnexposed, ReadmeUnexposed DEF vars, RInv, Backed, recVars
  <1>6. Backed'
    BY <1>1, <1>2, <1>3, <1>4, <1>5, SaveKeepsBacked, RecordKeepsBacked,
       RecordSavedKeepsBacked, ManifestSavedKeepsBacked DEF Next
  <1> QED BY <1>i, <1>6, NextFilesInv DEF RInv

(* No document ever describes a record that is lost, however many handlers end  *)
(* transactions on the instance at once and whenever the machine stops          *)
(* (SaveInstance fsyncs the directory of the records before docs.Write begins). *)
THEOREM DocumentsAreRecordedAlways == Spec => []DocumentsAreRecorded
  <1>1. RInv => DocumentsAreRecorded
    BY DEF RInv, Backed, DocumentsAreRecorded, Manifest!Contents, Readme!Contents,
       ManifestFile!Exposed, ReadmeFile!Exposed, ManifestFile!Contents, ReadmeFile!Contents
  <1> QED BY InitRInv, NextRInv, <1>1, PTL DEF Spec

================================================================================
