-------------------------------- MODULE Register --------------------------------
(* What the engine takes a file of the state store or of the documents to be: a *)
(* register.  A write takes effect at one instant between the call and a        *)
(* "saved" answer, and not at all when the answer is "failed".  A power loss    *)
(* brings back a value that was not yet made durable.                           *)
CONSTANTS Writers, Values, Nothing

VARIABLES
    value,      \* what a reader gets
    atRisk,     \* what it may be after a power loss
    phase,      \* of each writer: idle, asked, or written
    request,    \* the value it writes
    answer      \* its last answer

Init ==
    /\ value = Nothing /\ atRisk = {Nothing}
    /\ phase = [w \in Writers |-> "idle"]
    /\ request = [w \in Writers |-> Nothing]
    /\ answer = [w \in Writers |-> "none"]

Ask(w, v) ==
    /\ phase[w] = "idle"
    /\ phase' = [phase EXCEPT ![w] = "asked"]
    /\ request' = [request EXCEPT ![w] = v]
    /\ answer' = [answer EXCEPT ![w] = "none"]
    /\ UNCHANGED <<value, atRisk>>

TakeEffect(w) ==
    /\ phase[w] = "asked" /\ phase' = [phase EXCEPT ![w] = "written"]
    /\ value' = request[w] /\ atRisk' = atRisk \cup {request[w]}
    /\ UNCHANGED <<request, answer>>

Flush ==
    /\ atRisk' = {value}
    /\ UNCHANGED <<value, phase, request, answer>>

Finish(w) ==
    /\ \/ phase[w] = "written" /\ answer' = [answer EXCEPT ![w] = "saved"]
       \/ phase[w] = "asked" /\ answer' = [answer EXCEPT ![w] = "failed"]
    /\ phase' = [phase EXCEPT ![w] = "idle"]
    /\ UNCHANGED <<value, atRisk, request>>

(* The process ends; a writer that had not answered never will.                 *)
Kill ==
    /\ phase' = [w \in Writers |-> "idle"]
    /\ UNCHANGED <<value, atRisk, request, answer>>

PowerLoss ==
    /\ value' \in atRisk /\ atRisk' = {value'}
    /\ phase' = [w \in Writers |-> "idle"]
    /\ UNCHANGED <<request, answer>>

Next ==
    \/ \E w \in Writers :
          \/ \E v \in Values : Ask(w, v)
          \/ TakeEffect(w) \/ Finish(w)
    \/ Flush \/ Kill \/ PowerLoss

registerVars == <<value, atRisk, phase, request, answer>>

Spec == Init /\ [][Next]_registerVars

================================================================================
