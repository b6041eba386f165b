---------------------------------- MODULE Host ----------------------------------
(* The host under the agent: Podman's directory of quadlet files and systemd,   *)
(* seen through the calls of internal/podman and internal/systemd.  Neither is  *)
(* under src/; what a call may do is read from how the two clients use it.      *)
(*                                                                              *)
(* A quadlet and the unit generated from it are one name.  A call takes the     *)
(* caller's context (alive: not cancelled) and says through err whether it      *)
(* returned an error.  A call that can fail may also fail for no reason the     *)
(* model knows, at the price of one of MaxFaults faults, and then it may or     *)
(* may not have taken effect: the answer was lost, or the job timed out.        *)
EXTENDS Naturals

CONSTANTS
    Names,      \* the quadlet names, numbered in the order the code visits them
    Absent,     \* no file, no loaded definition, no running unit
    MaxFaults   \* how many calls may fail although they could have succeeded

ASSUME HostAssumption == Names \subseteq Nat /\ MaxFaults \in Nat

VARIABLES
    files,      \* the quadlet files: name -> content
    loaded,     \* what systemd read at the last daemon-reload: name -> content
    running,    \* the definition an active unit was started from
    faults      \* faults spent so far

hostVars == <<files, loaded, running, faults>>
units == <<loaded, running>>

NamesOf(source) == {n \in Names : source[n] # Absent}

NothingOn == [n \in Names |-> Absent]

HostInit ==
    /\ files = NothingOn
    /\ loaded = NothingOn
    /\ running = NothingOn
    /\ faults = 0

--------------------------------------------------------------------------------

Fault == faults < MaxFaults /\ faults' = faults + 1

(* The answer of a call that succeeds exactly when possible, but for faults.    *)
Answer(possible, err) ==
    \/ err = ~possible /\ UNCHANGED faults
    \/ possible /\ err /\ Fault

(* What a call may leave: nothing changes if it was impossible, anything up to  *)
(* its effect may have happened if it failed, its effect has if it succeeded.   *)
Outcome(possible, err, before, after) ==
    IF possible THEN after \cup (IF err THEN {before} ELSE {}) ELSE {before}

(* Podman.  A request whose context is cancelled is not sent (podman.go:431).   *)

(* A normal install, never a replace: refused when the name is taken.           *)
InstallQuadlet(alive, n, content, err) ==
    LET possible == alive /\ files[n] = Absent IN
    /\ Answer(possible, err)
    /\ files' \in Outcome(possible, err, files, {[files EXCEPT ![n] = content]})
    /\ UNCHANGED units

(* Without force, refused while the unit runs; with force the unit is stopped   *)
(* first.  systemd keeps the loaded definition until the next reload.           *)
RemoveQuadlet(alive, n, force, err) ==
    LET possible == alive /\ files[n] # Absent /\ (force \/ running[n] = Absent)
        stopped  == [running EXCEPT ![n] = Absent]
    IN  /\ Answer(possible, err)
        /\ running' \in Outcome(possible, err, running, {stopped})
        /\ files' \in Outcome(possible /\ running' = stopped, err, files,
                             {[files EXCEPT ![n] = Absent]})
        /\ UNCHANGED loaded

GetQuadlet(alive, n, err) ==
    Answer(alive /\ files[n] # Absent, err) /\ UNCHANGED <<files, units>>

ListQuadlets(alive, err) ==
    Answer(alive, err) /\ UNCHANGED <<files, units>>

(* systemd.  A cancelled context makes the call fail, but the message may have  *)
(* reached systemd (systemd.go:32: the job's channel races ctx.Done).           *)

Reload(alive, err) ==
    /\ Answer(alive, err)
    /\ loaded' \in Outcome(TRUE, err, loaded, {files})
    /\ UNCHANGED <<files, running>>

Known(n) == loaded[n] # Absent \/ running[n] # Absent

(* A unit may come up and die at once: the job is done, the unit is not active. *)
Dies(alive, n, err) ==
    /\ alive /\ ~err /\ Fault
    /\ running' = [running EXCEPT ![n] = Absent]

(* Starting a running unit does nothing: it keeps the definition it runs.       *)
Start(alive, n, err) ==
    LET up == [running EXCEPT ![n] = IF @ = Absent THEN loaded[n] ELSE @] IN
    /\ \/ /\ Answer(alive /\ Known(n), err)
          /\ running' \in Outcome(Known(n), err, running, {up})
       \/ Known(n) /\ running[n] = Absent /\ Dies(alive, n, err)
    /\ UNCHANGED <<files, loaded>>

Stop(alive, n, err) ==
    /\ Answer(alive /\ Known(n), err)
    /\ running' \in Outcome(Known(n), err, running, {[running EXCEPT ![n] = Absent]})
    /\ UNCHANGED <<files, loaded>>

(* A restart needs a loaded definition; one that fails may leave the unit as it *)
(* was, stopped, or restarted.                                                  *)
Restart(alive, n, err) ==
    LET possible == loaded[n] # Absent
        down     == [running EXCEPT ![n] = Absent]
        up       == [running EXCEPT ![n] = loaded[n]]
    IN  /\ \/ /\ Answer(alive /\ possible, err)
              /\ running' \in Outcome(possible, err, running, {up} \cup IF err THEN {down} ELSE {})
           \/ possible /\ Dies(alive, n, err)
        /\ UNCHANGED <<files, loaded>>

(* verifyUnitActive: an error unless systemd answers and the unit is active.    *)
Verify(alive, n, err) ==
    Answer(alive /\ running[n] # Absent, err) /\ UNCHANGED <<files, units>>

================================================================================
