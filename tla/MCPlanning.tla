------------------------------- MODULE MCPlanning -------------------------------
(* A small catalog, small configurations and the inputs of clients for TLC.     *)
EXTENDS PlanningProperties, TLC

CONSTANTS a, r1, r2, A, B, x, y, dataPath, webPort

(* Podman with the Quadlet API but below the floor, at the floor with a suffix, *)
(* and later: 5.8.0, 5.8.2-rc1 and 6.1.2.                                       *)
Old == <<5, 8, 0>>
Candidate == <<5, 8, 2, Dash, Junk>>
Late == <<6, 1, 2>>
MCReports == {Old, Candidate, Late}
MCSize == Old :> 5 @@ Candidate :> 9 @@ Late :> 5

(* The candidate loses its suffix; behind the others there are bytes that are   *)
(* no digits, or digits.                                                        *)
MCTorn == Old :> {<<5, 8, Junk>>, <<5, 8, 77>>} @@ Candidate :> {<<5, 8, 2>>} @@ Late :> {<<6, 1, Junk>>}

Path(default) == [name |-> dataPath, type |-> "path", required |-> TRUE, default |-> default]
Port(required, default) == [name |-> webPort, type |-> "port", required |-> required, default |-> default]
Data == [root |-> "data", input |-> dataPath, intent |-> "private", readOnly |-> FALSE]
Media == [root |-> "media", input |-> dataPath, intent |-> "readonly-media", readOnly |-> TRUE]

(* Three editions of an application: a port that may be left out; a port that   *)
(* is required, with a default that is none, a second directory and a later     *)
(* Podman, given as two numbers; and one that names an input it does not have.  *)
First == [inputs |-> {Path(<<A>>), Port(FALSE, None)}, directories |-> {Data},
          minPodmanVersion |-> <<LetterV, 5, 8, 0>>]
Second == [inputs |-> {Path(<<A>>), Port(TRUE, <<0>>)}, directories |-> {Data, Media},
           minPodmanVersion |-> <<6, 1>>]
Broke == [First EXCEPT !.inputs = {Port(FALSE, None)}]

MCEditions == "1" :> First @@ "2" :> Second @@ "3" :> Broke
MCCatalogs == {x :> e @@ y :> NoApp : e \in {"1", "2", "3"}}

DataRoot == [id |-> "data", host |-> <<Empty, B>>, agent |-> <<Empty, A>>]
MediaRoot == [id |-> "media", host |-> <<Empty, B>>, agent |-> <<Empty, B>>]
MCConfigurations == {{DataRoot}, {DataRoot, MediaRoot}}

MCDecimals == {0, 80, 70000}

MCComponents == {Empty, Dot, DotDot, LineBreak, Nul, Long, A, B} \cup MCDecimals

(* Every path of up to two components and some of three, and every kind of port.*)
Ways == {Empty, Dot, DotDot, A}
Paths == {<<c>> : c \in Ways} \cup {<<c, e>> : c \in Ways, e \in Ways}
            \cup {<<A, DotDot, A>>, <<DotDot, A, B>>, <<A, Dot, A>>, <<A, LineBreak>>}
Ports == {None, <<80>>, <<70000>>}

MCBodies == {NoBody} \cup {dataPath :> t : t \in Paths} \cup {webPort :> t : t \in Ports}
              \cup {dataPath :> <<A, A>> @@ webPort :> <<80>>, y :> <<A>>}

(* What is left to store, when the words are stored in one order.               *)
InOrder == {{}, {"size"}, {"data", "size"}, {"apiSize", "data", "size"}, Words}

(* The two things to explore are not multiplied: how requests race for the      *)
(* version while Podman changes, on a host where nothing was planned yet, and   *)
(* what one request after another plans under the last Podman, when no other    *)
(* request can see in which order the words are stored. In the races no root is *)
(* missing, and the other request leaves once it is answered, unless nothing is *)
(* stored yet: what it could still store, it stores when it asks late.          *)
RaceOrPlans ==
    \/ /\ \A r \in Requests \ Planners : stage[r] = "idle"
       /\ podman = Late /\ reported \subseteq {podman}
       /\ \A r \in Planners : words[r] \in InOrder
    \/ /\ \A r \in Planners : plan[r] = NoPlan
       /\ \A i \in Instances : instances[i] = NoRecord
       /\ \A r \in Requests \ Planners : stage[r] = "answered" => cache = Unset
       /\ catalog[x] = "2" => MediaRoot \in roots

(* The second root matters only to the edition that uses it.                    *)
RootsMatter == catalog[x] = "1" => roots = {DataRoot}

================================================================================
