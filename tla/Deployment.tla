------------------------------- MODULE Deployment -------------------------------
(* What a client of the agent may take an operation to be: almost atomic.  An   *)
(* instance is deployed as one source, or nothing can be said of it.  An        *)
(* operation takes effect at one instant between the request and the answer,    *)
(* when it is answered "succeeded"; it takes no effect when the answer is that  *)
(* it was refused, failed or was rolled back, except that one file that it      *)
(* asked for may be left on the host, under a name that nothing deployed uses.  *)
CONSTANTS
    Requests, Instances,
    Names, Absent,  \* a source gives each file its content, or none
    Sources,        \* what an instance may be deployed as
    NoSource,       \* what it is deployed as before it is installed, or removed
    Same,           \* what a lifecycle action asks for: no other source
    Unknown         \* the answer said so, the agent stopped in the middle, or the
                    \* administrator edited a file

VARIABLES
    deployed,       \* instance -> Sources or Unknown
    left,           \* the files of it that are on the host and not deployed
    phase,          \* of each request: idle, accepted, applied or answered; or
                    \* failing, and lost when it cannot be undone
    order,          \* the instance it is about, the source it asks for, and
                    \* whether that comes in addition to what is deployed
    answer

deploymentVars == <<deployed, left, phase, order, answer>>

NoOrder == [inst |-> NoSource, want |-> NoSource, adds |-> FALSE]

Files(source) == {n \in Names : source[n] # Absent}

Init ==
    /\ deployed = [i \in Instances |-> NoSource]
    /\ left = [i \in Instances |-> {}]
    /\ phase = [r \in Requests |-> "idle"]
    /\ order = [r \in Requests |-> NoOrder]
    /\ answer = [r \in Requests |-> "none"]

MoveTo(r, p) == phase' = [phase EXCEPT ![r] = p]
Say(r, a) == answer' = [answer EXCEPT ![r] = a]

(* Nothing can be said of an instance any more.                                 *)
Lose(lost) ==
    /\ deployed' = [i \in Instances |-> IF i \in lost THEN Unknown ELSE deployed[i]]
    /\ left' = [i \in Instances |-> IF i \in lost THEN {} ELSE left[i]]

Ask(r, i, want, adds) ==
    /\ phase[r] = "idle"
    /\ order' = [order EXCEPT ![r] = [inst |-> i, want |-> want, adds |-> adds]]
    /\ \/ MoveTo(r, "accepted") /\ UNCHANGED answer
       \/ MoveTo(r, "answered") /\ Say(r, "refused")
    /\ UNCHANGED <<deployed, left>>

(* The instant.  What is added to a deployed source (by a plan that was made    *)
(* before that was deployed) may leave the files of that source behind; what    *)
(* replaces a source that is not deployed any more may clear files left behind. *)
Apply(r) ==
    LET i    == order[r].inst
        want == order[r].want
    IN  /\ phase[r] = "accepted" /\ want # Same /\ MoveTo(r, "applied")
        /\ IF deployed[i] = Unknown THEN UNCHANGED <<deployed, left>>
           ELSE /\ deployed' = [deployed EXCEPT ![i] = want]
                /\ \E old \in SUBSET Files(deployed[i]), cleared \in SUBSET left[i] :
                      /\ old # {} => order[r].adds
                      /\ cleared # {} => ~order[r].adds /\ deployed[i] = NoSource
                      /\ left' = [left EXCEPT ![i] = ((@ \ cleared) \cup old) \ Files(want)]
        /\ UNCHANGED <<order, answer>>

(* It will not take effect; it may leave one file that it asked for.            *)
Fail(r) ==
    LET i == order[r].inst IN
    /\ phase[r] = "accepted" /\ order[r].want # Same /\ MoveTo(r, "failing")
    /\ \/ UNCHANGED left
       \/ /\ deployed[i] # Unknown
          /\ \E n \in Files(order[r].want) \ Files(deployed[i]) :
                left' = [left EXCEPT ![i] = @ \cup {n}]
    /\ UNCHANGED <<deployed, order, answer>>

(* An answer that can be relied on.                                             *)
Answer(r) ==
    /\ \/ phase[r] = "applied" /\ Say(r, "succeeded")
       \/ phase[r] = "accepted" /\ order[r].want = Same /\ Say(r, "succeeded")
       \/ phase[r] = "accepted" /\ \E a \in {"refused", "failed"} : Say(r, a)
       \/ phase[r] = "failing" /\ Say(r, "rolledBack")
    /\ MoveTo(r, "answered")
    /\ UNCHANGED <<deployed, left, order>>

(* What it changed cannot be undone, and then the answer says so.               *)
Spoil(r) ==
    /\ phase[r] = "failing" /\ MoveTo(r, "lost")
    /\ Lose({order[r].inst})
    /\ UNCHANGED <<order, answer>>

(* The operation could not be recorded, or not be undone.                       *)
GiveUp(r) ==
    /\ \/ phase[r] \in {"accepted", "applied"} /\ Say(r, "failed")
       \/ phase[r] \in {"failing", "lost"} /\ Say(r, "rollbackFailed")
    /\ MoveTo(r, "answered")
    /\ Lose({order[r].inst})
    /\ UNCHANGED order

Forget(r) ==
    /\ phase[r] = "answered" /\ MoveTo(r, "idle") /\ Say(r, "none")
    /\ order' = [order EXCEPT ![r] = NoOrder]
    /\ UNCHANGED <<deployed, left>>

(* The agent stops: nobody is answered, and an instance that a request was      *)
(* about may be left half done.                                                 *)
Restart ==
    /\ phase' = [r \in Requests |-> "idle"]
    /\ order' = [r \in Requests |-> NoOrder]
    /\ answer' = [r \in Requests |-> "none"]
    /\ \E cut \in SUBSET {r \in Requests : phase[r] \notin {"idle", "answered"}} :
          Lose({order[r].inst : r \in cut})

(* The administrator edits a file: one that any number of instances are         *)
(* deployed with, or that they left behind.                                     *)
Edit ==
    /\ UNCHANGED <<phase, order, answer>>
    /\ \E edited \in SUBSET Instances :
          /\ deployed' = [i \in Instances |-> IF i \in edited THEN Unknown ELSE deployed[i]]
          /\ \A i \in Instances : left'[i] \subseteq (IF i \in edited THEN {} ELSE left[i])
    /\ left' \in [Instances -> SUBSET Names]

Next ==
    \/ Edit \/ Restart
    \/ \E r \in Requests, i \in Instances, want \in Sources \cup {Same}, adds \in BOOLEAN :
           Ask(r, i, want, adds)
    \/ \E r \in Requests : Apply(r) \/ Fail(r) \/ Answer(r) \/ Spoil(r) \/ GiveUp(r) \/ Forget(r)

Spec == Init /\ [][Next]_deploymentVars

================================================================================
