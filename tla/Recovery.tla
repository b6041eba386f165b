-------------------------------- MODULE Recovery --------------------------------
(* What a transaction leaves on disk to recover from: the record of an instance *)
(* (internal/state) and the two documents generated from it (internal/docsgen). *)
(* A handler saves the record, then writes the manifest, then the readme, and   *)
(* stops at the first error.  The three are files of AtomicFile in two          *)
(* directories, of which only the first is fsynced; kills and power losses hit  *)
(* all of them at once.                                                         *)
EXTENDS Naturals

CONSTANTS
    Writers,        \* handlers that end a transaction on the instance
    Values,         \* the records they write
    Nothing,
    MaxFaults, MaxCrashes

ASSUME RecoveryAssumption ==
    Nothing \notin Values /\ MaxFaults \in Nat /\ MaxCrashes \in Nat

VARIABLES
    recFile, recDisk, recTemp, recStage, recRequest, recAnswer, recBehind,
    manFile, manDisk, manTemp, manStage, manRequest, manAnswer, manBehind,
    docFile, docDisk, docTemp, docStage, docRequest, docAnswer, docBehind,
    faults, crashes,
    durable         \* auxiliary: the records that reached the disk for good, or
                    \* that nobody knows not to have

recVars == <<recFile, recDisk, recTemp, recStage, recRequest, recAnswer, recBehind>>
manVars == <<manFile, manDisk, manTemp, manStage, manRequest, manAnswer, manBehind>>
docVars == <<docFile, docDisk, docTemp, docStage, docRequest, docAnswer, docBehind>>
vars == <<recVars, manVars, docVars, faults, crashes, durable>>

Record == INSTANCE AtomicFile WITH SyncsDirectory <- TRUE,
    file <- recFile, onDisk <- recDisk, temp <- recTemp, stage <- recStage,
    request <- recRequest, answer <- recAnswer, behind <- recBehind

Manifest == INSTANCE AtomicFile WITH SyncsDirectory <- FALSE,
    file <- manFile, onDisk <- manDisk, temp <- manTemp, stage <- manStage,
    request <- manRequest, answer <- manAnswer, behind <- manBehind

Readme == INSTANCE AtomicFile WITH SyncsDirectory <- FALSE,
    file <- docFile, onDisk <- docDisk, temp <- docTemp, stage <- docStage,
    request <- docRequest, answer <- docAnswer, behind <- docBehind

Init == Record!Init /\ Manifest!Init /\ Readme!Init /\ durable = {Nothing}

Idle(w) == recStage[w] = "idle" /\ manStage[w] = "idle" /\ docStage[w] = "idle"

(* The end of a transaction on the host: SaveInstance is called.                *)
SaveInstance(w, v) ==
    /\ Idle(w) /\ Manifest!Fresh(w, v) /\ Readme!Fresh(w, v)
    /\ Record!Save(w, v)
    /\ durable' = durable \ {v}
    /\ UNCHANGED <<manVars, docVars>>

(* What a step makes durable: the record a power loss will find, and one that   *)
(* is answered when its directory is synced, or when the sync failed unnoticed. *)
Settled ==
    LET answered == {recRequest[w] : w \in {u \in Writers : recStage[u] = "syncDir" /\ recStage'[u] = "saved"}}
    IN  (IF recDisk' = {recFile'} THEN {recFile'.value} ELSE {})
            \cup (IF recDisk' = {recFile'} \/ faults' # faults THEN answered ELSE {})

RecordStep(w) ==
    /\ \/ Record!Create(w) \/ Record!WriteTemp(w) \/ Record!SyncTemp(w)
       \/ Record!Rename(w) \/ Record!SyncDir(w)
    /\ durable' = durable \cup Settled
    /\ UNCHANGED <<manVars, docVars>>

(* Goes on although the record could not be saved.                              *)
RecordSavedBug(w) ==
    /\ Record!Finish(w)
    /\ Manifest!Save(w, recRequest[w])
    /\ UNCHANGED <<docVars, durable>>

(* SaveInstance returns: docs.Write is called, or the error ends the handler.   *)
RecordSaved(w) ==
    /\ Record!Finish(w)
    /\ IF recStage[w] = "saved" THEN Manifest!Save(w, recRequest[w]) ELSE UNCHANGED manVars
    /\ UNCHANGED <<docVars, durable>>

ManifestStep(w) ==
    /\ Manifest!Create(w) \/ Manifest!WriteTemp(w) \/ Manifest!SyncTemp(w) \/ Manifest!Rename(w)
    /\ UNCHANGED <<recVars, docVars, durable>>

ManifestSaved(w) ==
    /\ Manifest!Finish(w)
    /\ IF manStage[w] = "saved" THEN Readme!Save(w, manRequest[w]) ELSE UNCHANGED docVars
    /\ UNCHANGED <<recVars, durable>>

ReadmeStep(w) ==
    /\ \/ Readme!Create(w) \/ Readme!WriteTemp(w) \/ Readme!SyncTemp(w)
       \/ Readme!Rename(w) \/ Readme!Finish(w)
    /\ UNCHANGED <<recVars, manVars, durable>>

(* One stop of the process, or of the machine, for all three files.             *)
Kill == Record!Kill /\ Manifest!Kill /\ Readme!Kill /\ UNCHANGED durable

PowerLoss ==
    /\ Record!PowerLoss /\ Manifest!PowerLoss /\ Readme!PowerLoss
    /\ UNCHANGED durable

(* The two directories are written back in any order.                           *)
Writeback ==
    \/ Record!Writeback /\ durable' = durable \cup Settled /\ UNCHANGED <<manVars, docVars>>
    \/ Manifest!Writeback /\ UNCHANGED <<recVars, docVars, durable>>
    \/ Readme!Writeback /\ UNCHANGED <<recVars, manVars, durable>>

Next ==
    \/ \E w \in Writers :
          \/ \E v \in Values : SaveInstance(w, v)
          \/ RecordStep(w) \/ RecordSaved(w)
          \/ ManifestStep(w) \/ ManifestSaved(w)
          \/ ReadmeStep(w)
    \/ Kill \/ PowerLoss \/ Writeback

Spec == Init /\ [][Next]_vars

--------------------------------------------------------------------------------

(* Every record and every document is whole, whatever fails and whenever the    *)
(* machine stops (atomicJSON and the generator's atomic: Sync before Rename).   *)
FileIsWhole == Record!FileIsWhole /\ Manifest!FileIsWhole /\ Readme!FileIsWhole

(* No document ever describes a record that is lost: what the name of a         *)
(* document may lead to, after a power loss too, is a record that had reached   *)
(* the disk for good before (SaveInstance fsyncs its directory before           *)
(* docs.Write begins), or whose fsync failed without anybody knowing.           *)
DocumentsAreRecorded ==
    Manifest!Contents(manDisk \cup {manFile}) \cup Readme!Contents(docDisk \cup {docFile})
        \subseteq durable

(* The engine may take each document for a register, although their directory   *)
(* is not fsynced and a handler may fail or be stopped anywhere between the     *)
(* first call for the record and the last for the readme.                       *)
IsRegister == Manifest!IsRegister /\ Readme!IsRegister

================================================================================
