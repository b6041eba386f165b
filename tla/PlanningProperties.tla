--------------------------- MODULE PlanningProperties ---------------------------
(* What the plans of internal/engine promise.                                   *)
EXTENDS Planning

Stages == {"idle", "ensure", "store", "list", "decide", "broken", "answered"}
Answers == {"none", "planned", "unsupported", "incapable", "refused", "failed", "reported"}

(* Every variable keeps its type; the words that are stored are of versions     *)
(* that were reported, if not of the same one (ensureVersion, CreatePlan,       *)
(* ExecutePlan).                                                                *)
TypeOK ==
    /\ podman \in Reports /\ reported \subseteq Reports
    /\ cache \in [apiData : BOOLEAN, apiSize : BOOLEAN, data : reported \cup {Nil},
                 size : {Size[text] : text \in reported} \cup {0}]
    /\ stage \in [Requests -> Stages] /\ answer \in [Requests -> Answers]
    /\ told \in [Requests -> Text]
    /\ words \in [Requests -> SUBSET Words]
    /\ listed \in [Requests -> BOOLEAN] /\ raced \in [Requests -> BOOLEAN]
    /\ catalog \in Catalogs /\ roots \in Configurations

--------------------------------------------------------------------------------

(* The order of versions, stated at the first part in which they differ.        *)
Reaches(text, minimum) ==
    /\ Parses(text) /\ Parses(minimum)
    /\ LET v == Numbers(text)
           w == Numbers(minimum)
       IN  \A k \in 1 .. 3 : (\A j \in 1 .. k - 1 : v[j] = w[j]) => v[k] >= w[k]

Enough(text, app) ==
    Reaches(text, SupportedMinimumVersion) /\ Reaches(text, app.minPodmanVersion)

(* The request was answered with a plan that was not executed yet.              *)
Planned(r) == answer[r] = "planned" /\ plan[r] # NoPlan

(* No two versions of different sizes were reported to this agent.  Only the    *)
(* requests that overlap the first store ask for one, so two were reported only *)
(* if Podman was changed between two such requests.                             *)
OneSize == \A x, y \in reported : Size[x] = Size[y]

(* A plan is made only for a version at the product's floor and at the          *)
(* application's; and it is one that Podman reported to this agent, whatever    *)
(* other requests store in the shared fields meanwhile, unless versions of      *)
(* different sizes were (CreatePlan's checks of DiscoverCapabilities).  Then it *)
(* may be one that nobody reported, and the agent keeps it as long as it runs.  *)
PlansAreSupported ==
    \A r \in Planners :
        Planned(r) => Enough(told[r], App(r)) /\ (OneSize => told[r] \in reported)

(* A request is refused for the version of Podman only if this agent was told   *)
(* a version that is too low, at any time since it started, or if the request   *)
(* read the fields in the middle of their first store, or if versions of        *)
(* different sizes were stored: but for those, the race never outlives the      *)
(* store.                                                                       *)
RefusalsAreFounded ==
    \A r \in Requests :
        answer[r] = "unsupported" /\ ~raced[r] /\ OneSize =>
            \E text \in reported : ~Enough(text, App(r))

(* The directories of a plan are strictly below an approved root, on the host   *)
(* and in the agent, at the same place: no prefix of the way down leads to the  *)
(* root or above it (validateInput and paths.Resolve between them).             *)
Depth(way) ==
    Cardinality({i \in DOMAIN way : way[i] \notin {Empty, Dot, DotDot}})
        - Cardinality({i \in DOMAIN way : way[i] = DotDot})

Below(path, root) ==
    /\ IsPrefix(root, path) /\ path # root
    /\ \A k \in Len(root) + 1 .. Len(path) : Depth(SubSeq(path, Len(root) + 1, k)) > 0

PlansStayBelowRoots ==
    \A r \in Planners :
        Planned(r) =>
            \A dir \in plan[r].dirs : \E root \in roots :
                /\ root.id = dir.root
                /\ Below(dir.host, root.host) /\ Below(dir.agent, root.agent)
                /\ SubSeq(dir.host, Len(root.host) + 1, Len(dir.host))
                     = SubSeq(dir.agent, Len(root.agent) + 1, Len(dir.agent))

(* What was installed can be updated and removed with the parameters it was     *)
(* installed with: as long as the catalog has the same edition and no typed     *)
(* parameter is blank, ResolveParameters accepts what it once returned and      *)
(* returns it again.                                                            *)
Blank(rec) == \E in \in Editions[rec.edition].inputs : in.type # "string" /\ rec.params[in.name] = None

StoredParametersResolve ==
    \A i \in Instances :
        LET rec == instances[i] IN
        /\ Live(rec) /\ catalog[rec.app] = rec.edition /\ ~Blank(rec)
        => /\ Accepts(Editions[rec.edition], rec.params)
           /\ Resolved(Editions[rec.edition], rec.params) = rec.params

(* An update that does not name parameters keeps those the instance has, unless *)
(* the record was replaced between its planning and its execution; an edition   *)
(* of the application may only add inputs.                                      *)
UpdatesKeepParameters ==
    [][\A r \in Planners :
          LET p == plan[r] IN
          ExecutePlan(r) /\ p.op = "update" /\ p.keeps /\ p.fresh =>
              LET was == instances[p.inst].params IN
              \A n \in DOMAIN was : instances'[p.inst].params[n] = was[n]]_vars

(* README.md: mutations are refused below the supported floor.                  *)
MutationsAreSupported ==
    [][instances' # instances => IsSupportedVersion(podman)]_vars

================================================================================
