------------------------------- MODULE AtomicFile -------------------------------
(* atomicJSON of internal/state and atomic of internal/docsgen: one file,       *)
(* written through a temporary file in the same directory and renamed into      *)
(* place.  Two handlers may write the same file.  The process may be killed     *)
(* and the machine may lose power between any two system calls.                 *)
(*                                                                              *)
(* The file system is external: a rename is atomic and seen at once, but after  *)
(* a power loss the name may still lead to any file it led to since the last    *)
(* fsync of the directory, and a file that was not fsynced may be torn.         *)
EXTENDS Naturals

CONSTANTS
    Writers,            \* goroutines that write this file
    Values,             \* the versions they write, every write its own
    Nothing,            \* the value of a file that does not exist
    SyncsDirectory,     \* whether the directory is fsynced: state does, docsgen does not
    MaxFaults,          \* system calls that fail
    MaxCrashes          \* kills and power losses

ASSUME FileAssumption ==
    Nothing \notin Values /\ SyncsDirectory \in BOOLEAN /\ MaxFaults \in Nat /\ MaxCrashes \in Nat

VARIABLES
    file,               \* the file the name leads to
    onDisk,             \* the files it may lead to after a power loss
    temp,               \* the temporary file of each writer
    stage, request,     \* where a writer is, and the version it writes
    answer,             \* its last answer
    behind,             \* auxiliary: the versions a saved one must not fall back to
    faults, crashes

vars == <<file, onDisk, temp, stage, request, answer, behind, faults, crashes>>

File == [value : Values \cup {Nothing}, whole : BOOLEAN, synced : BOOLEAN]
NoFile == [value |-> Nothing, whole |-> TRUE, synced |-> TRUE]
Contents(fs) == {f.value : f \in fs}

Stages == {"idle", "create", "write", "sync", "rename", "syncDir", "saved", "failed"}

Init ==
    /\ file = NoFile /\ onDisk = {NoFile}
    /\ temp = [w \in Writers |-> NoFile]
    /\ stage = [w \in Writers |-> "idle"]
    /\ request = [w \in Writers |-> Nothing]
    /\ answer = [w \in Writers |-> "none"]
    /\ behind = [w \in Writers |-> {}]
    /\ faults = 0 /\ crashes = 0

Fault == faults < MaxFaults /\ faults' = faults + 1

Goto(w, s) == stage' = [stage EXCEPT ![w] = s]

(* A system call on the temporary file: it fails and the writer gives up, or    *)
(* it leaves the temporary file t.                                              *)
OnTemp(w, from, t, to) ==
    /\ stage[w] = from
    /\ \/ Fault /\ Goto(w, "failed") /\ UNCHANGED temp
       \/ Goto(w, to) /\ temp' = [temp EXCEPT ![w] = t] /\ UNCHANGED faults
    /\ UNCHANGED <<file, onDisk, request, answer, behind, crashes>>

(* A version of its own.  Its name is one that no file and no other writer has  *)
(* any more, so that Values bounds only the versions there are at one time.     *)
Fresh(w, v) ==
    /\ v \notin Contents(onDisk \cup {file})
    /\ \A u \in Writers \ {w} : stage[u] # "idle" => request[u] # v

Save(w, v) ==
    /\ stage[w] = "idle" /\ Fresh(w, v) /\ Goto(w, "create")
    /\ request' = [request EXCEPT ![w] = v]
    /\ answer' = [answer EXCEPT ![w] = "none"]
    /\ behind' = [u \in Writers |-> IF u = w THEN {} ELSE behind[u] \ {v}]
    /\ UNCHANGED <<file, onDisk, temp, faults, crashes>>

(* Opens the file itself, which empties it, instead of a temporary one.         *)
CreateBug(w) ==
    /\ stage[w] = "create" /\ Goto(w, "write")
    /\ file' = [value |-> request[w], whole |-> FALSE, synced |-> FALSE]
    /\ onDisk' = onDisk \cup {file'}
    /\ temp' = [temp EXCEPT ![w] = file']
    /\ UNCHANGED <<request, answer, behind, faults, crashes>>

(* MkdirAll and CreateTemp, whose random name nobody else has.                  *)
Create(w) ==
    OnTemp(w, "create", [value |-> request[w], whole |-> FALSE, synced |-> FALSE], "write")

(* Ignores a short write.                                                       *)
WriteTempBug(w) == \E whole \in BOOLEAN : OnTemp(w, "write", [temp[w] EXCEPT !.whole = whole], "sync")

(* Chmod and Write: a write that fails leaves a part of the content.            *)
WriteTemp(w) == OnTemp(w, "write", [temp[w] EXCEPT !.whole = TRUE], "sync")

(* Renames what may still be in memory only.                                    *)
SyncTempBug(w) == OnTemp(w, "sync", temp[w], "rename")

SyncTemp(w) == OnTemp(w, "sync", [temp[w] EXCEPT !.synced = TRUE], "rename")

(* Close and Rename.                                                            *)
Rename(w) ==
    /\ stage[w] = "rename"
    /\ \/ Fault /\ Goto(w, "failed") /\ UNCHANGED <<file, onDisk, temp, behind>>
       \/ /\ file' = temp[w] /\ onDisk' = onDisk \cup {temp[w]}
          /\ temp' = [temp EXCEPT ![w] = NoFile]
          /\ behind' = [behind EXCEPT ![w] = Contents(onDisk)]
          /\ Goto(w, IF SyncsDirectory THEN "syncDir" ELSE "saved")
          /\ UNCHANGED faults
    /\ UNCHANGED <<request, answer, crashes>>

(* Leaves the directory to the journal.                                         *)
SyncDirBug(w) ==
    /\ stage[w] = "syncDir" /\ Goto(w, "saved")
    /\ UNCHANGED <<file, onDisk, temp, request, answer, behind, faults, crashes>>

(* Open and Sync of the directory, whose errors are ignored.                    *)
SyncDir(w) ==
    /\ stage[w] = "syncDir" /\ Goto(w, "saved")
    /\ \/ onDisk' = {file} /\ UNCHANGED <<behind, faults>>
       \/ Fault /\ behind' = [behind EXCEPT ![w] = {}] /\ UNCHANGED onDisk
    /\ UNCHANGED <<file, temp, request, answer, crashes>>

(* Drops the error that the deferred removal follows.                           *)
FinishBug(w) ==
    /\ stage[w] \in {"saved", "failed"} /\ Goto(w, "idle")
    /\ answer' = [answer EXCEPT ![w] = "saved"]
    /\ temp' = [temp EXCEPT ![w] = NoFile]
    /\ UNCHANGED <<file, onDisk, request, behind, faults, crashes>>

(* The deferred Remove, whose error is ignored too (nothing uses the name       *)
(* again), and the answer.                                                      *)
Finish(w) ==
    /\ stage[w] \in {"saved", "failed"} /\ Goto(w, "idle")
    /\ answer' = [answer EXCEPT ![w] = stage[w]]
    /\ temp' = [temp EXCEPT ![w] = NoFile]
    /\ UNCHANGED <<file, onDisk, request, behind, faults, crashes>>

(* The writers are gone; a temporary file that is left is never looked at.      *)
Stopped ==
    /\ crashes < MaxCrashes /\ crashes' = crashes + 1
    /\ stage' = [w \in Writers |-> "idle"]
    /\ temp' = [w \in Writers |-> NoFile]
    /\ UNCHANGED <<request, answer, behind, faults>>

Kill == Stopped /\ UNCHANGED <<file, onDisk>>

PowerLoss ==
    /\ Stopped
    /\ \E f \in onDisk, whole \in BOOLEAN :
          /\ f.synced => whole = f.whole
          /\ file' = [f EXCEPT !.whole = whole, !.synced = TRUE]
          /\ onDisk' = {file'}

(* The file system writes its journal back without being asked.                 *)
Writeback ==
    /\ onDisk # {file} /\ onDisk' = {file}
    /\ UNCHANGED <<file, temp, stage, request, answer, behind, faults, crashes>>

Next ==
    \/ \E w \in Writers :
          \/ \E v \in Values : Save(w, v)
          \/ Create(w) \/ WriteTemp(w) \/ SyncTemp(w) \/ Rename(w) \/ SyncDir(w) \/ Finish(w)
    \/ Kill \/ PowerLoss \/ Writeback

Spec == Init /\ [][Next]_vars

--------------------------------------------------------------------------------

(* Every variable keeps its type through the system calls of atomicJSON.        *)
TypeOK ==
    /\ file \in File /\ onDisk \subseteq File /\ temp \in [Writers -> File]
    /\ stage \in [Writers -> Stages] /\ request \in [Writers -> Values \cup {Nothing}]
    /\ answer \in [Writers -> {"none", "saved", "failed"}]
    /\ behind \in [Writers -> SUBSET (Values \cup {Nothing})]
    /\ faults \in 0 .. MaxFaults /\ crashes \in 0 .. MaxCrashes

(* readJSON never meets half a record: the file is whole whatever fails or      *)
(* crashes, and stays so after a power loss (atomicJSON: Sync before Rename).   *)
FileIsWhole == \A f \in onDisk \cup {file} : f.whole /\ f.synced

(* When SaveInstance has answered nil, and the sync of the directory did not    *)
(* fail without anybody knowing, no power loss brings an earlier record back.   *)
DurableOnceAnswered ==
    \A w \in Writers : answer[w] = "saved" => behind[w] \cap Contents(onDisk) = {}

(* The engine may take the file for a register: a failed save changes nothing,  *)
(* a successful one takes effect at once and entirely, two of them in one order *)
(* for all readers.                                                             *)
PhaseOf(s) ==
    CASE s = "idle" -> "idle"
      [] s \in {"syncDir", "saved"} -> "written"
      [] OTHER -> "asked"

R == INSTANCE Register WITH
        value <- file.value,
        atRisk <- Contents(onDisk),
        phase <- [w \in Writers |-> PhaseOf(stage[w])]

IsRegister == R!Spec

================================================================================
