-------------------------------- MODULE Planning --------------------------------
(* Engine.CreatePlan as a request sees it: the record is read, then Podman is   *)
(* asked, then parameters and directories are resolved and the plan is saved;   *)
(* in between, other requests plan and execute.  Of ExecutePlan only what the   *)
(* next plan sees is kept: the record it saves (its steps are in Engine).       *)
EXTENDS PodmanClient, Parameters

CONSTANTS
    Planners,       \* the requests that plan; the others ask for the capabilities
    Instances,
    AppIds,         \* the ids of applications
    Editions,       \* catalog version -> application
    Catalogs,       \* what the catalog may hold: application id -> catalog version
    NoApp,          \* what it holds of an id it does not know
    Configurations, \* the approved roots an administrator may configure
    Bodies,         \* the parameters that clients send
    NoRecord, NoPlan

CatalogVersions == DOMAIN Editions

ASSUME PlanningAssumption ==
    /\ Planners \subseteq Requests
    /\ Catalogs \subseteq [AppIds -> CatalogVersions \cup {NoApp}]
    /\ NoApp \notin AppIds \cup CatalogVersions

ASSUME InputsAssumption ==
    /\ \A v \in CatalogVersions :
          /\ Editions[v].minPodmanVersion \in Text
          /\ \A in \in Editions[v].inputs : in.default \in Value
    /\ \A config \in Configurations : \A r \in config : r.host \in Value /\ r.agent \in Value
    /\ \A body \in Bodies : \A n \in DOMAIN body : body[n] \in Value

VARIABLES
    catalog,        \* loaded when the agent starts
    roots,          \* read when the agent starts
    instances,      \* the records of the state store
    job,            \* the request, and the record it read
    answer,
    plan            \* the last plan each planner saved, or none; auxiliary in it:
                    \* whether the client named no parameters (keeps), and whether
                    \* the record is the one it was made from (fresh)

planVars == <<catalog, roots, instances, job, answer, plan>>
vars == <<clientVars, planVars>>

Operations == {"install", "update", "remove"}

NoBody == [n \in {} |-> None]
NoJob == [op |-> "none", inst |-> NoRecord, app |-> NoApp, old |-> NoRecord]

(* main: an agent whose configuration or catalog is not valid does not start.   *)
Starts(cat, config) ==
    ValidConfiguration(config) /\ \A x \in AppIds : cat[x] # NoApp => ValidApplication(Editions[cat[x]])

Init ==
    /\ ClientInit
    /\ catalog \in Catalogs /\ roots \in Configurations /\ Starts(catalog, roots)
    /\ instances = [i \in Instances |-> NoRecord]
    /\ job = [r \in Requests |-> NoJob]
    /\ answer = [r \in Requests |-> "none"]
    /\ plan = [r \in Planners |-> NoPlan]

Live(rec) == rec # NoRecord /\ ~rec.removed

Answer(r, a) == Go(r, "answered") /\ answer' = [answer EXCEPT ![r] = a]

AskPodman(r) == Discover(r) /\ UNCHANGED planVars

(* The connection was closed without an answer, or the answer is an error.      *)
Broken(r) ==
    /\ stage[r] = "broken" /\ Answer(r, "failed")
    /\ UNCHANGED <<podman, told, listed, cacheVars, catalog, roots, instances, job, plan>>

(* Engine.Capabilities.                                                         *)
Capabilities(r) ==
    /\ r \notin Planners
    /\ \/ stage[r] = "idle" /\ Go(r, "ensure") /\ UNCHANGED answer
       \/ stage[r] = "decide" /\ Answer(r, "reported")
    /\ UNCHANGED <<podman, told, listed, cacheVars, catalog, roots, instances, job, plan>>

--------------------------------------------------------------------------------
(* CreatePlan.                                                                  *)

(* Up to the catalog: x is the application the client names, or NoApp.          *)
AppOf(x, old) == IF x = NoApp /\ old # NoRecord THEN old.app ELSE x

Startable(op, x, old) ==
    /\ IF op = "install" THEN ~Live(old) ELSE old # NoRecord
    /\ old # NoRecord => AppOf(x, old) = old.app
    /\ AppOf(x, old) \in AppIds /\ catalog[AppOf(x, old)] # NoApp

BeginPlan(r, op, i, x) ==
    /\ stage[r] = "idle"
    /\ LET old == instances[i] IN
       IF Startable(op, x, old)
       THEN /\ Go(r, "ensure")
            /\ job' = [job EXCEPT ![r] =
                  [op |-> op, inst |-> i, app |-> AppOf(x, old), old |-> old]]
            /\ UNCHANGED answer
       ELSE Answer(r, "refused") /\ UNCHANGED job
    /\ UNCHANGED <<podman, told, listed, cacheVars, catalog, roots, instances, plan>>

(* Takes the catalog's defaults when the client sends nothing.                  *)
SuppliedBug(r, body) == body

Supplied(r, body) ==
    IF job[r].op # "install" /\ DOMAIN body = {} THEN job[r].old.params ELSE body

App(r) == Editions[catalog[job[r].app]]

ParametersOf(r, body) == Resolved(App(r), Supplied(r, body))

(* A removal takes the directories from the record; they are left out here.     *)
Placeable(r, params) ==
    job[r].op = "remove" \/ DirectoriesResolve(App(r), params, roots)

DirectoriesOf(r, params) ==
    IF job[r].op = "remove" THEN {} ELSE Directories(App(r), params, roots)

(* The checks, in the order of the code; "planned" if the plan can be saved.    *)
Verdict(r, body) ==
    IF ~IsSupportedVersion(told[r]) THEN "unsupported"
    ELSE IF ~(listed[r] /\ HasQuadletAPI(told[r])) THEN "incapable"
    ELSE IF ~VersionAtLeast(told[r], App(r).minPodmanVersion) THEN "unsupported"
    ELSE IF Accepts(App(r), Supplied(r, body)) /\ Placeable(r, ParametersOf(r, body)) THEN "planned"
    ELSE "refused"

NewPlan(r, body) ==
    LET params == ParametersOf(r, body) IN
    [op |-> job[r].op, inst |-> job[r].inst, app |-> job[r].app,
     edition |-> catalog[job[r].app], params |-> params, dirs |-> DirectoriesOf(r, params),
     keeps |-> DOMAIN body = {}, fresh |-> instances[job[r].inst] = job[r].old]

(* The model looks at the body of the request where the code looks at it first. *)
Decide(r, body) ==
    /\ stage[r] = "decide"
    /\ LET verdict == Verdict(r, body) IN
       \/ verdict # "planned" /\ Answer(r, verdict) /\ UNCHANGED plan
       \/ verdict = "planned" /\ Answer(r, "failed") /\ UNCHANGED plan
       \/ /\ verdict = "planned" /\ Answer(r, "planned")
          /\ plan' = [plan EXCEPT ![r] = NewPlan(r, body)]
    /\ UNCHANGED <<podman, told, listed, cacheVars, catalog, roots, instances, job>>

CreatePlan(r) ==
    \/ \E op \in Operations, i \in Instances, x \in AppIds \cup {NoApp} : BeginPlan(r, op, i, x)
    \/ \E body \in Bodies : Decide(r, body)

Forget(r) ==
    /\ stage[r] = "answered" /\ Go(r, "idle")
    /\ job' = [job EXCEPT ![r] = NoJob]
    /\ answer' = [answer EXCEPT ![r] = "none"]
    /\ told' = [told EXCEPT ![r] = <<>>]
    /\ listed' = [listed EXCEPT ![r] = FALSE]
    /\ raced' = [raced EXCEPT ![r] = FALSE]
    /\ UNCHANGED <<podman, cache, words, reported, catalog, roots, instances, plan>>

--------------------------------------------------------------------------------

(* EnsureDir, for each directory of the plan below a root of today.             *)
Ensured(p) == \A d \in p.dirs : (\E r \in roots : r.id = d.root) /\ Resolves(d.rel)

(* ExecutePlan with success: install and update save what was planned, remove   *)
(* marks the record; the plan may be kept, for its deletion may fail.           *)
ExecutePlan(r) ==
    /\ plan[r] # NoPlan
    /\ LET p == plan[r]
           old == instances[p.inst]
           new == IF p.op = "remove" THEN [old EXCEPT !.removed = TRUE]
                  ELSE [app |-> p.app, removed |-> FALSE, params |-> p.params,
                        edition |-> p.edition]
       IN  /\ p.op # "install" => old # NoRecord
           /\ p.op # "remove" => Ensured(p)
           /\ instances' = [instances EXCEPT ![p.inst] = new]
           /\ \E kept \in BOOLEAN :
                plan' = [q \in Planners |->
                    IF q = r /\ ~kept THEN NoPlan
                    ELSE IF plan[q] # NoPlan /\ plan[q].inst = p.inst THEN [plan[q] EXCEPT !.fresh = FALSE]
                    ELSE plan[q]]
    /\ UNCHANGED <<clientVars, catalog, roots, job, answer>>

(* The agent starts again, perhaps with another image (the catalog is part of   *)
(* it) and another configuration.                                               *)
Restart ==
    /\ ClientRestart
    /\ catalog' \in Catalogs /\ roots' \in Configurations /\ Starts(catalog', roots')
    /\ job' = [r \in Requests |-> NoJob]
    /\ answer' = [r \in Requests |-> "none"]
    /\ UNCHANGED <<instances, plan>>

Next ==
    \/ \E r \in Requests : AskPodman(r) \/ Broken(r) \/ Capabilities(r) \/ Forget(r)
    \/ \E r \in Planners : CreatePlan(r) \/ ExecutePlan(r)
    \/ PodmanChanges /\ UNCHANGED planVars
    \/ Restart

Spec == Init /\ [][Next]_vars

================================================================================
