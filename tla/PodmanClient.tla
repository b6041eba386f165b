------------------------------ MODULE PodmanClient ------------------------------
(* internal/podman: how a request learns which Podman it talks to.  One client  *)
(* is shared by the goroutines of all requests, and keeps the libpod API        *)
(* version and the engine version it was told first in two fields that are      *)
(* written without a lock and never again, once one is set.  A Go string is two *)
(* words, the data and the size; the words of the two strings reach another     *)
(* goroutine in any order, and those of two requests that both store mix.       *)
EXTENDS Versions

CONSTANTS
    Requests,
    Reports,        \* the version texts Podman may report
    Size,           \* the bytes of each
    Torn,           \* what its bytes may read as, cut to the size of another or
                    \* with the memory behind them
    Nil

ASSUME ReportsAssumption == Reports \subseteq Text /\ Nil \notin Text
ASSUME SizeAssumption ==
    /\ Size \in [Reports -> Nat] /\ \A text \in Reports : Size[text] = 0 <=> text = <<>>
    /\ Torn \in [Reports -> SUBSET Text]

VARIABLES
    podman,         \* the version of the Podman that runs now
    cache,          \* the words of libpodAPI and engineVersion
    stage,          \* where each request is
    told,           \* vr.Version, a local variable of each request
    words,          \* what it has not yet stored of the two fields
    listed,         \* whether Podman listed its quadlets for it
    reported,       \* auxiliary: what Podman answered since the agent started
    raced           \* auxiliary: the request read the fields while one stored them

cacheVars == <<cache, words, reported, raced>>
clientVars == <<podman, stage, told, listed, cacheVars>>

Words == {"apiData", "apiSize", "data", "size"}

(* No field is set: an empty string has no data and no size.                    *)
Unset == [apiData |-> FALSE, apiSize |-> FALSE, data |-> Nil, size |-> 0]

ClientInit ==
    /\ podman \in Reports
    /\ cache = Unset
    /\ stage = [r \in Requests |-> "idle"]
    /\ told = [r \in Requests |-> <<>>]
    /\ words = [r \in Requests |-> {}]
    /\ listed = [r \in Requests |-> FALSE]
    /\ reported = {}
    /\ raced = [r \in Requests |-> FALSE]

Go(r, s) == stage' = [stage EXCEPT ![r] = s]
Tell(r, text) == told' = [told EXCEPT ![r] = text]

(* What the two words of a string make: the data when it has its own size.      *)
Read(data, size) ==
    IF size = 0 THEN {<<>>} ELSE IF size = Size[data] THEN {data} ELSE Torn[data]

Storing(r) == stage[r] = "store"

(* Takes the data for the text whether or not its size is there.                *)
EnsureVersionBug(r) ==
    /\ stage[r] = "ensure" /\ cache.apiSize
    /\ Go(r, "list") /\ Tell(r, cache.data)
    /\ raced' = [raced EXCEPT ![r] = \E q \in Requests : Storing(q)]
    /\ UNCHANGED <<podman, cache, words, listed, reported>>

(* ensureVersion, when libpodAPI is set, returns what engineVersion holds: ""   *)
(* while its size is missing, and the data of one version with the size of      *)
(* another if two requests stored different ones.  A size without data is a nil *)
(* dereference in the first use of the text; the server recovers, and the       *)
(* request ends without an answer.                                              *)
EnsureVersion(r) ==
    /\ stage[r] = "ensure" /\ cache.apiSize
    /\ IF cache.size # 0 /\ cache.data = Nil THEN Go(r, "broken") /\ UNCHANGED told
       ELSE Go(r, "list") /\ \E text \in Read(cache.data, cache.size) : Tell(r, text)
    /\ raced' = [raced EXCEPT ![r] = \E q \in Requests : Storing(q)]
    /\ UNCHANGED <<podman, cache, words, listed, reported>>

(* Otherwise GET /version.                                                      *)
AskVersion(r) ==
    /\ stage[r] = "ensure" /\ ~cache.apiSize
    /\ \/ Go(r, "store") /\ Tell(r, podman)
          /\ words' = [words EXCEPT ![r] = Words]
          /\ reported' = reported \cup {podman}
       \/ Go(r, "broken") /\ UNCHANGED <<told, words, reported>>
    /\ UNCHANGED <<podman, cache, listed, raced>>

(* c.libpodAPI, c.engineVersion = libpodAPI, vr.Version, word by word.          *)
StoreWord(r, w) ==
    /\ Storing(r) /\ w \in words[r]
    /\ cache' = [cache EXCEPT ![w] =
                    CASE w = "data" -> told[r] [] w = "size" -> Size[told[r]] [] OTHER -> TRUE]
    /\ words' = [words EXCEPT ![r] = @ \ {w}]
    /\ IF words[r] = {w} THEN Go(r, "list") ELSE UNCHANGED stage
    /\ UNCHANGED <<podman, told, listed, reported, raced>>

(* DiscoverCapabilities: the path is made of libpodAPI, and any failure of the  *)
(* list means that there are no quadlet capabilities.                           *)
ListQuadlets(r) ==
    /\ stage[r] = "list"
    /\ IF ~cache.apiData THEN Go(r, "broken") /\ UNCHANGED listed
       ELSE Go(r, "decide") /\ \E ok \in BOOLEAN : listed' = [listed EXCEPT ![r] = ok]
    /\ UNCHANGED <<podman, told, cacheVars>>

Discover(r) ==
    EnsureVersion(r) \/ AskVersion(r) \/ (\E w \in Words : StoreWord(r, w)) \/ ListQuadlets(r)

(* Podman is upgraded, or the host goes back to an older image, under the agent.*)
PodmanChanges ==
    /\ podman' \in Reports /\ podman' # podman
    /\ UNCHANGED <<stage, told, listed, cacheVars>>

(* A new process of the agent has no cache, and the requests are gone.          *)
ClientRestart ==
    /\ cache' = Unset
    /\ stage' = [r \in Requests |-> "idle"]
    /\ told' = [r \in Requests |-> <<>>]
    /\ words' = [r \in Requests |-> {}]
    /\ listed' = [r \in Requests |-> FALSE]
    /\ reported' = {}
    /\ raced' = [r \in Requests |-> FALSE]
    /\ UNCHANGED podman

================================================================================
