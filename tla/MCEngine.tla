-------------------------------- MODULE MCEngine --------------------------------
(* Small instances of Engine for TLC.                                           *)
EXTENDS EngineProperties, TLC

CONSTANTS r1, r2, a, b, p1, p2

(* Version 1 renders names 1 and 2; version 2 drops 1 and adds 3; only 2 and 3  *)
(* start: a name is kept, one is dropped, one is new, one has no start.         *)
MCNames == 1 .. 3
MCManifest == 1 :> {1, 2} @@ 2 :> {2, 3}

(* Two versions of the same single name, and of the same two names.             *)
MCOneName == 1 .. 1
MCTwoNames == 1 .. 2
MCSameName == 1 :> {1} @@ 2 :> {1}
MCSameNames == 1 :> {1, 2} @@ 2 :> {1, 2}
MCOneVersion == 1 :> {1, 2}
MCShrinking == 1 :> {1, 2} @@ 2 :> {2}

(* Every instance is of the same application.                                   *)
MCCatalog == [i \in Instances |-> Versions]

RequestSymmetry == Permutations({r1, r2}) \cup Permutations({p1, p2})

(* Two instances of one application are alike.                                  *)
InstallSymmetry == RequestSymmetry \cup Permutations({a, b})

(* Fairness: every step of a request is a call that answers or times out, so    *)
(* the goroutine goes on.                                                       *)
FairSpec == Spec /\ \A r \in Requests : WF_vars(Step(r))

================================================================================
