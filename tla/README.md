# Home Server Deployer in TLA+

Home Server Deployer installs, updates and removes Podman Quadlets of curated
applications. An unprivileged web server talks to an agent over a Unix socket;
the agent drives Podman's REST API and systemd's D-Bus interface and keeps
records of what it installed. This directory models how the agent plans, how it
carries plans out and what it stores, checks that with TLC and proves its safety
properties with TLAPS, some of them under stated conditions (section 5).

## 1. Inventory

| Component | State | Operations | Talks to |
|---|---|---|---|
| Engine: plans (`internal/engine/engine.go`) | none of its own | CreatePlan, detectDrift, render, resolveDirs; read-only: Capabilities, Catalog, Instances, Discover | Podman, catalog, state store, paths, security |
| Engine: transactions (`internal/engine/transaction.go`) | the locals of each running handler; no lock | ExecutePlan, upsert, install, update, remove, five rollbacks, Lifecycle; read-only: Status, Logs, Documentation, BackupContract | Podman, systemd, state store, documents |
| Podman client (`internal/podman`) | the API version and the engine version it was told first, stored without a lock | List, Get, Install, RemoveQuadlet; ListContainers, Logs, DiscoverCapabilities; version comparison | Podman's socket |
| systemd client (`internal/systemd`) | a D-Bus connection | Reload, Start, Stop, Restart (jobs of at most 30 s), Status | systemd |
| State store (`internal/state`) | one JSON file per instance and per plan | Save, Get, List, Delete, each save through a temporary file | file system |
| Documents (`internal/docsgen`) | `manifest.json` and `README.md` of each instance | Write (both, one after the other), Read | file system |
| Agent API (`internal/api`) | none | routes, decodes, maps errors to status codes; one goroutine per request | engine |
| Agent process (`cmd/deployer-agent`) | none | start, serve, shut down within 10 s | all of the above |
| Web (`internal/web`, `cmd/deployer-web`) | a CSRF token | pages; an agent client that gives up after 20 s | agent API |
| Catalog (`internal/catalog`) | the applications, loaded when the agent starts | Validate, ResolveParameters, Get, Template | file system |
| Paths (`internal/paths`) | none | Resolve, EnsureDir below approved roots | file system |
| Configuration, security backend, backup contract, data model | none | validation, a table, types | - |
| The host (external) | quadlet files, loaded definitions, running units | what Podman and systemd do | the administrator edits it too |

What is hard here, and what would make each part right:

* **A transaction is a sequence of calls that may each fail, before or after
  they took effect.** The answer must say what the host looks like: "succeeded"
  only when everything is in place, a failure without "rollback failed" only
  when everything was put back.
* **Handlers run concurrently without a lock**, on the same instance or on
  instances whose quadlets have the same names. A rollback may remove only what
  its own transaction installed; a record must describe what is on disk.
* **Time passes between planning, the drift check and the change.** The files
  of the administrator and of other instances must survive.
* **The context is the request's.** When the client gives up, the calls of the
  rollback fail too. The agent may also be killed anywhere, and nothing at
  start-up looks for work that was cut short.
* **The record, the two documents and the host are four things** that change
  one after the other and must agree in the end.
* **Persistence**: a reader must see one complete record, and an answered save
  must survive a power loss; a document must not outlive the record it
  describes.
* **A plan is made from things read at different times**: the record, then the
  version of Podman (asked once per process, in two fields that requests share
  without a lock), then the catalog and the roots of this start of the agent.
  It is carried out later, perhaps by another process, against another Podman.
* **Parameters go round**: what a client supplied is stored, and supplied again
  by the next update. What was accepted once must be accepted again.
* **A path is judged twice**, by two rules that are not the same, before it is
  joined to an approved root.

`PROJECT.json` lists these hazards at the lines where they bite, with the
properties that cover them.

## 2. Modules

| Module | What it is |
|---|---|
| `Host` | Podman's quadlet files and systemd's units, as the two clients see them: one action per call |
| `Engine` | plans, transactions, rollbacks, lifecycle, the state store and documents as registers, clients, the administrator, restarts of the agent; extends `Host` |
| `EngineProperties` | what the engine promises, and the mapping to `Deployment` |
| `MCEngine` | small instances, symmetry, fairness |
| `EngineProofs` | type correctness of `Engine`, and that handlers advance, proved |
| `AtomicityProofs` | the refinement of `Deployment`, step by step, where baselines are live and handlers keep to their plan and record; extends `EngineProofs` |
| `InstallProofs` | safety and atomicity of concurrent installs, proved; extends `AtomicityProofs` |
| `OwnershipProofs` | whose files a handler may touch, and what the documents tell, proved; extends `EngineProofs` |
| `OrderlyProofs` | success, rollback, baselines, units and atomicity for clients that take turns, proved; extends `OwnershipProofs` and `AtomicityProofs` |
| `Deployment` | abstract: what a client may take an operation to be, all or nothing but for one file |
| `Register` | an abstract register with answers and power losses |
| `AtomicFile` | the system calls of `atomicJSON` and of the generator's `atomic`; implements `Register` |
| `MCAtomicFile` | symmetry for its runs |
| `AtomicFileProofs` | the refinement, wholeness and durability, proved |
| `Recovery` | three instances of `AtomicFile`: a record and its two documents, saved one after the other, over kills and power losses |
| `RecoveryProofs` | its three properties, proved on three instances of `AtomicFileProofs` |
| `MCRecovery` | symmetry for its run |
| `Versions` | parsing and comparing the versions of Podman; pure |
| `Parameters` | what the catalog and the configuration must be, ResolveParameters, Resolve, resolveDirs; pure |
| `PodmanClient` | ensureVersion and DiscoverCapabilities: the shared version, stored word by word; extends `Versions` |
| `Planning` | CreatePlan as a request sees it, and what executions leave for the next plan; extends `PodmanClient` and `Parameters` |
| `PlanningProperties` | what plans promise |
| `MCPlanning` | a small catalog, configurations, inputs of clients |
| `PlanningProofs` | the invariants of planning and its action property, proved |

### How Engine corresponds to the code

A request `r` has `pc[r]` (the stage of its handler), `todo[r]` (what is left
of the loop it is in) and `tx[r]` (the handler's local variables: the plan, the
record it loaded as `prev`, the snapshot `old`, `removed`, `installed`,
`started`, the listed units, the sources read back, whether the rollback
collected an error, whether the context is alive, the answer). One step is one
call out of the engine with the code around it:

| Stage | Code |
|---|---|
| `check` | ExecutePlan's second detectDrift |
| `load` | EnsureDir and GetInstance at the head of upsert, GetInstance in remove |
| `snapshot`, `stop`, `removeOld` | the first loops of update and remove |
| `installNew`, `reload`, `list`, `start`, `verify` | the rest of install and update |
| `relist`, `capture` | captureResources |
| `save`, `manifest`, `readme` | SaveInstance, docs.Write, then DeletePlan and the answer |
| `undoStop`, `undoInstall`, `reinstall`, `undoReload`, `undoStart`, `undoVerify` | the rollbacks |
| `lifecycle` | Lifecycle |

The five rollbacks are entry points into one chain of stages: rollbackInstall
enters at `undoInstall` and ends after `undoReload`; rollbackRemovedOld and
rollbackRemove enter at `reinstall`; rollbackUpdatedSources enters at
`undoStop`. rollbackRemove starts units where restartPrevious restarts them.

`suspect` is an auxiliary variable. An instance is put in it when one of its
operations was cut short by a restart of the agent, changed the host but could
not be recorded, could not be undone, or when the administrator changed one of
its files. Properties that the code cannot keep after that are stated for the
other instances; without it they would say nothing about the cases where the
code does promise something. It is not reset.

### How Planning corresponds to the code

A request `r` has `stage[r]`, `told[r]` (`vr.Version`), `listed[r]` (whether
the quadlets could be listed), `job[r]` (its locals: operation, instance,
application, and the record it read as `old`) and `answer[r]`.

| Action | Code |
|---|---|
| `BeginPlan` | CreatePlan up to DiscoverCapabilities: GetInstance, the checks on it, the catalog |
| `EnsureVersion`, `AskVersion`, `StoreWord` | ensureVersion: the stored version; GET /version; `c.libpodAPI, c.engineVersion = ...` |
| `ListQuadlets` | the rest of DiscoverCapabilities |
| `Decide` | the rest of CreatePlan: versions, capabilities, ResolveParameters, resolveDirs, SavePlan |
| `Capabilities` | Engine.Capabilities, another caller of DiscoverCapabilities |
| `ExecutePlan` | what a successful ExecutePlan leaves: the record, and the plan if it could not be deleted |
| `Restart` | main: configuration and catalog are loaded and must be valid, the client is new |
| `PodmanChanges` | Podman is upgraded or downgraded (external) |

A Go string is two words, data and size. Two strings are stored without a lock,
so `StoreWord` stores four words in any order, and `EnsureVersion` may find some
of them: no size of the first string (it asks again), a size of the first and
none of the second (it goes on with an empty version), or a size without data
(a nil dereference: the server recovers, the request ends without an answer).
Two requests that were told different versions, because Podman was changed
between them, may also leave the data of one with the size of the other. What
that reads as (`Read`) is any text of `Torn`, a constant: the version cut short,
or with whatever bytes lie behind it. As the fields are never written again once
the first has a size, such a text stays for the life of the process
(`podman.go:104`, `71-74`). `told`, `reported` and `raced` let the properties
say which of these happened. What PlansAreSupported and RefusalsAreFounded say
of *reported* versions is stated for agents to which all reports had one size
(`OneSize`); that a plan is never made for a text below a floor holds without.

### Deployment, and how Engine implements it

`Deployment` says: an instance is deployed as one source, and may have other
files `left` on the host; an operation takes effect at one instant between the
request and the answer if it is answered "succeeded" (`Apply`), and if it is
answered that it was refused, failed or rolled back, then not at all, except
that one file it asked for may be left, under a name that is not deployed
(`Fail`); an instance may become unknown only when the answer says so, the agent
stopped in the middle, or the administrator edited a file.

The exception is what the code does: a source is added to `installed` after
Podman answered (`transaction.go:96-99`, `165-168`), so one that was installed
while the answer was lost is in no list, and the rollback ends cleanly without
it. The transaction ends at that call, so it is one file. It stays until a later
operation asks for its name, and is refused by Podman then, or until an update
of the removed instance whose record names it replaces it. A second exception is
an install that was planned before its instance was there: the engine does not
look again, so it adds its source to the one that is deployed, and the names it
does not share are left (`order.adds`).

The mapping in `EngineProperties` takes as the instant the save of the record;
for the source of an instance, what its record names while a transaction runs
(`Recorded`) and what the host has under those names otherwise (`OnHost`); for
what is left, every other file on the host that is of the instance, under any
name, but for those a running transaction has installed and will record or
remove (`LeftBehind`); and for an unknown one an instance that is `suspect` or
whose rollback has met an error (`Doubtful`). `OperationsAreAtomic` is
`Deployment`'s specification under that mapping.

### The mistakes the properties are tested against

`Reply`, `VerifyUnit` and others are preceded by a definition of the same name
ending in `Bug`. Nothing in the specification uses those: each is the definition
with one plausible mistake, and a property is of use only if it fails when the
mistake is put in.

### Abstractions

* A quadlet file and the unit generated from it are one name, and names are
  numbers, so units are visited in the order of the files. A file that Podman
  lists without a unit name (`transaction.go:113`, `:185`, `:546`) does not
  occur; the code treats it like one that is not listed.
* The content of a file is the pair of the instance and a *version*, which
  stands for a catalog version together with parameters (`Rendered`). The
  catalog is loaded once by the code; several versions stand for restarts with
  another catalog and for other parameters.
* CreatePlan is one step. What it reads of the shared state is read again by
  ExecutePlan, except for what it renders, which depends on no shared state.
* A call that was cancelled while in flight is a call whose answer was lost,
  followed by the cancellation. A systemd job that times out after 30 s is a
  call that failed and may have taken effect.
* A plan id is drawn at random by the code; the model uses one again once its
  plan can no longer run.
* Hashes are the contents themselves.
* Read-only operations and the checks on names and ids are left out.
* An agent restart leaves systemd and Podman as they are. A power loss is only
  in `AtomicFile` and `Recovery`.

Of planning:

* A version text is the sequence of its numbers and of what is not a number;
  a path is the sequence of its components. Sizes of texts (`Size`) and what
  torn ones read as (`Torn`) are constants, any that satisfy `SizeAssumption`.
* The parameters of a request are looked at when they are needed, in `Decide`.
* The plan of a removal takes its directories from the record; they are left
  out, for the removal does not use them.
* An execution is one step and only its success is kept: `Engine` has the steps.
* That the directories which are created do not lead out through a link is the
  kernel's part (openat2) and is left out.

`AtomicFile` assumes what `os.CreateTemp` provides, a name nobody else has, and
of the file system that a rename is atomic, that it is durable after an fsync
of the directory, and that a file that was not fsynced may be torn by a power
loss. Temporary files left by a crash are not tracked: nothing reads them. The
directory itself is taken to be durable: the parents that `MkdirAll` may have to
create (`state.go:104`) are never synced, and a power loss right after the first
start could take them with everything in them.

## 3. Runs

| Run | Instance | What it shows |
|---|---|---|
| `faults` | 1 request, 1 instance, 3 names, 2 versions, all six operations, 2 faults; fair | SuccessIsFaithful, RollbackRestores, UnitsRunTheirFiles, DocsFollowRecord, EveryRequestEnds, HandlersAdvance |
| `cuts` | 1 request, 1 instance, 2 names, 1 fault, 1 edit, 1 restart, hang-ups | TypeOK and the safety properties when work is cut short; refinement of Deployment, with what a lost answer leaves |
| `neighbours` | 1 request, 2 instances with the same names, 1 fault, 1 edit, hang-ups | a transaction leaves the files of others alone |
| `installs` | 2 requests, 2 instances with the same names, 1 fault, hang-ups, installs only | a forced removal in a rollback hits only what the transaction installed; refinement of Deployment, with what a failed install leaves |
| `store_file` | 2 writers, 4 versions, 2 faults, 2 crashes | FileIsWhole, DurableOnceAnswered, refinement of Register |
| `docs_file` | 1 handler, 4 records, 1 fault, 2 crashes; a record and its two documents | FileIsWhole, DocumentsAreRecorded, each document refines Register |
| `planning` | 2 requests (1 plans), 1 instance, 3 editions of an application, 3 versions of Podman, 2 configurations, 27 sets of parameters | PlansAreSupported, RefusalsAreFounded, PlansStayBelowRoots, StoredParametersResolve, UpdatesKeepParameters |
| `stop_failure`, `hang_up`, `concurrent_updates`, `admin_race` | 1 or 2 names | four disagreements with the documentation, section 4 |
| `podman_downgrade` | 1 request | a fifth |

**Bounds.** `MaxFaults` is the number of calls that fail although they could
have succeeded, whether or not they took effect. Two are needed for a failure
and a second one inside the rollback of the first. In `faults` the versions
render {1, 2} and {2, 3}, and only 2 and 3 start: one name is kept, one
dropped, one new and one without a start, so every loop of update and of its
rollback does something on one name and nothing on another. Two names are the
least for a loop to fail in the middle. `MaxEdits` and `MaxCrashes` bound the
administrator and the agent's restarts; one of each is enough to come between
any two steps of a transaction, and later requests start from what it left.
Requests and plans are not bounded: they repeat forever in all runs. In
`AtomicFile` a version's name is used again only when no file and no other
writer has it, so saves are unbounded too. `docs_file` has one handler, so it
shows nothing of two that write the documents at the same time: with two, six
files' worth of steps interleave and the run does not end in time. Two writers
of one file are in `store_file`, and any number of handlers that save a record
and its documents in `RecoveryProofs`.

In `planning` the versions are one below the floor that has the Quadlet API,
the floor with a suffix, and a later one. The second is longer than the others,
so two first stores may leave it cut short or one of the others with bytes
behind it, which read as digits, and then as a later version, or not. The
editions differ
in a required input, a default, a second directory and the Podman they need, the
last given as two numbers; the paths are all of up to two components out of an
empty one, `.`, `..` and a name, and some of three. One planner is enough for
what follows from one plan to the next, and the other request is enough to race
with it. Two constraints of the run keep the two apart: `RaceOrPlans` lets
requests race while Podman changes only where nothing has been planned or
recorded yet; from there on one request plans after another, under the last
Podman and with the words of the version stored in one order. In the
races no root is missing, and a request that only asks for the version leaves
when it is answered, unless nothing is stored yet; what it might still store, it
stores in another behaviour by asking later.
`RootsMatter` keeps the second root out where no edition uses it. The theorems
of `PlanningProofs` have neither constraint, nor any of these bounds.

Requests, plan ids, the two instances of `installs`, writers and versions of
`AtomicFile` are interchangeable;
symmetry is used for them, and only in runs without liveness. Deadlock is
checked in all runs: a client can always ask for something.

**Fairness** (`FairSpec`, used for EveryRequestEnds): weak fairness of each
request's next step. The goroutine of a request runs on as long as its calls
return; systemd jobs return after 30 seconds at the latest, file operations
return, and calls to Podman and the reload return or are ended by the client's
20-second timeout. A client without a timeout whose call to Podman never
returns is outside this assumption. Nothing is assumed of clients,
administrator, hang-ups or restarts.

## 4. What the checks found

Each of these runs ends in a counterexample, and each quotes the sentence it
contradicts in `PROJECT.json`.

1. **stop_failure.** update and remove return at once when a stop fails
   (`transaction.go:151`, `:345`). In the run the first stop is answered with an
   error although the unit did stop, the unit stays down and the error does not
   say so; after a later stop that fails, the units stopped before it stay down
   in the same way. README.md:81 promises a return to the previous working state
   "if any stage fails".
2. **hang_up.** A rollback runs under the context of the request that failed.
   In the run the client gives up when all units are stopped; the first removal
   fails because the context is cancelled, and so do the reload and the restarts
   of rollbackRemovedOld (`transaction.go:158`, `:237`), on a host where nothing
   is broken. The other rollbacks, rollbackUpdatedSources (`:259`) among them,
   are given the same context.
3. **concurrent_updates.** Two updates of one instance interleave; the older
   record is saved last and does not describe the host, against
   docs/security-model.md:31. Every later plan then reports drift.
4. **admin_race.** The last drift check comes before the snapshot and the
   stops; a file edited after it is removed, against docs/alpha0.md:21.
5. **podman_downgrade.** ExecutePlan does not look at the version of Podman, and
   CreatePlan looks at the one the client stored at the agent's first request.
   After a host went back to an older image under a running agent, or between a
   plan and its execution, mutations are not refused below the floor, against
   README.md:71.

Seen while modelling, not contradicting a sentence of the documentation:

* An install uses Start, which does nothing to a unit that still runs. After an
  operation that was cut short it can answer "succeeded" with the unit still on
  an older definition; SuccessIsFaithful says so in its last conjunct.
* A removed instance keeps its record, so update and remove plans can be made
  for it (`engine.go:122`), with no drift check when planning. The second drift
  check refuses them, because the files are gone, unless the same content is
  there again.
* An install of a name not in the previous version whose answer was lost is
  not in `installedNew`. The rollback then answers cleanly and leaves the new
  file, as does the rollback of an install. RollbackRestores is about the
  previous names only; OperationsAreAtomic allows that one file and no more.
* Only updates and removals look at the record again before they run
  (`transaction.go:33`). Of two install plans made while an instance was absent,
  the second is stopped by Podman's refusal to install over a file. If the two
  were made from editions that have no name in common, it succeeds, and the
  units of the first are in no record.
* A removal of a file whose answer was lost is not put back by the rollback and
  not counted as an error; the rollback only notices when it restarts the unit.
  Another instance that installs a quadlet of the same name in between, or a
  lifecycle request for the same instance, can make that restart succeed.
* The documents are renamed without a sync of their directory, so after a power
  loss they may be older than the record. They are never newer than what was
  saved for good (DocumentsAreRecorded), unless the sync of the record's
  directory failed, which nobody is told.
* After Podman is upgraded, plans stay refused until the agent is restarted:
  the version is stored once (`podman.go:71`). RefusalsAreFounded counts such a
  refusal as founded, on the old report. A request that reads the version during
  the first store may be refused, or end without an answer; RefusalsAreFounded
  says that this does not outlive that store, unless versions of different sizes
  were stored: then a text that nobody reported may stay (`podman.go:104`) and
  refuse, or pass, plans until the agent is restarted.
* A supplied value is validated even when it is empty, a stored one is supplied
  again by the next update: an input that may be left out and is a port, a path
  or a number can be installed blank by not sending it, after which updates and
  removals without parameters are refused (`catalog.go:210`).
  StoredParametersResolve is about records with no such blank.
* An update or removal without parameters is refused as well when the catalog's
  new edition dropped an input that the record has, or gained a required one
  without a default, and nothing can be planned for an instance whose
  application left the catalog. The web pages never send parameters with
  updates and removals.
* An update that names some parameters sets the others to the catalog's
  defaults, not to those of the instance (`engine.go:152`).
* A plan is made from the record as it was before Podman was asked, and can be
  executed for 15 minutes: an update that names no parameters undoes what
  another update changed meanwhile. UpdatesKeepParameters is about plans whose
  record was not replaced.
* A release candidate of the floor counts as the floor (`podman.go:207`).
* The roots of the configuration are read at start-up, and plans survive a
  restart: the directories are then created below the root of today
  (`transaction.go:63`) and mounted from the path that was planned.
* The input `..` alone is a clean relative path to validateInput. Resolve
  refuses it, so only the plan of a removal, which resolves nothing, can have it.
* The connection to systemd is opened with a context that ends 10 seconds after
  the start of the agent (`main.go:43`). Here it is taken to live as long as the
  agent; whether it does is decided by a library that is not in the repository.

## 5. Proofs

Assumptions are the named ASSUMEs of the modules (`HostAssumption`,
`EngineAssumption`, `NoRecordAssumption`, `NoSourceAssumption`,
`FileAssumption`, `RecoveryAssumption`, and those of planning; `SizeAssumption`
says that only the empty text has size 0): types of the
constants, and that "absent" values are not contents, sources or records. All of
them are evaluated by TLC in the runs. What a theorem assumes besides is in its
statement.

### Engine, without conditions

**Typed** (`EngineProofs`): `Spec => []TypeOK` for all requests, instances,
names and versions. The conjunct HandlersFit is what makes it inductive: a
handler that handles previous sources belongs to an update or a removal and has
loaded a record, and records are never deleted. One lemma per action.

**HandlersAdvanceAlways** (`EngineProofs`): every step of a handler reaches a
later stage (`Rank`) or shortens its loop. With finitely many names a handler
then takes finitely many steps, whatever fails: this is EveryRequestEnds but for
the existence of a next step and the fairness that takes it.

### Engine, while clients only install

**OneInstallerAlways** and **InstallsKeepBaselines** (`InstallProofs`), for any
number of concurrent requests, faults, hang-ups and restarts, under
`OnlyInstalls`: clients ask only for installs and lifecycle actions, and the
administrator does not edit while a request runs. The inductive invariant is
TypeOK, that only installs are under way (InstallsOnly), that every file a
handler may still remove is on disk as it installed it and is held by nobody
else (OneInstaller), and that the files of a recorded instance that is not
suspect are as recorded and held by no handler that may still roll back
(RecordedIsSafe). The argument: Podman refuses to install over an existing
file, so a successful install makes the name the handler's own; it is released
only when it is recorded or removed; and a handler that has recorded never
rolls back. TLC explored 6 million states of a small instance without a
violation of the invariant before it was proved. The assumption is needed: with
updates, `concurrent_updates` refutes the baseline.

**InstallsAreAtomic** (`InstallProofs`): under the same assumption the engine
implements `Deployment`: an install that fails cleanly has left at most one file
of its own on the host. See the end of the next part for the argument.

### Engine, while clients take turns

The engine has no lock, so what updates and removals promise depends on its
clients; `concurrent_updates` and `admin_race` show what happens otherwise. The
theorems say what is enough. `Spec /\ []H => ...` reads: in every behaviour of
the engine in which clients respect H. They hold for any number of requests,
instances, names, versions, faults, hang-ups, restarts and edits.

| Theorems | Of the constants | Of the clients |
|---|---|---|
| ForeignUntouchedAlways | no edits while a request runs | `OnePerInstance`: an instance is installed, updated or removed by one request at a time |
| DocsFollowRecordAlways | - | `OnePerInstance` |
| BaselineIsLiveAlways, RollbackRestoresAlways, OperationsAreAtomicAlways | no edits while a request runs | `Orderly`: requests about one instance, or about instances with a quadlet name in common, take turns, lifecycle actions included, and a plan that begins is an install if and only if its instance is not live |
| SuccessIsFaithfulAlways, UnitsRunTheirFilesAlways | the same, and `OwnNames`: no two instances have a quadlet name in common | `Orderly` |

`OwnershipProofs`. A file belongs to the instance whose source it is (`OwnedBy`).
`OInv` says of each handler how far it is (`Progress`: what it has installed and
read back, at which stage) and which files it may count on (`Claim`: those it
has compared with its record and those it has installed are as it knows them,
and the record it loaded is the one in the store), and that records and plans
have only sources of their own instance. A step of one handler changes only
files of its own instance (`OwnFiles`), which is why the claims of the others
stand although their quadlets may have the same names. `DInv` adds, for each
instance, that its documents follow its record unless a handler is writing them,
and what that handler will write.

`OrderlyProofs`. `SInv` adds to both, for each handler, stage by stage: what its
locals say (`Knows`), what it has taken down (`TakesDown`) and brought up
(`BringsUp`), and in a rollback that has met no error what is back (`Restores`:
first every previous source is back or missing, then every source that is
missing is not loaded either, then every unit that was restarted is neither
missing nor dead); which units may run (`Runs`); what the answer it gave stands
for (`Delivered`); and, for each instance that no handler works on, that disk
and loaded definitions are those of the record and, if its names are its own
(`Private`), that its running units are too (`AtRest`). The
middle of `Restores` is how a file whose removal succeeded with an error is
noticed: its unit cannot be restarted. That is also where the conditions are
needed: a file of the same name that another instance installs meanwhile, or a
lifecycle request on the same one, would make that restart succeed. One request
at a time, common names harm neither baselines nor rollbacks nor atomicity: a
step changes only files of its own instance (`OwnFiles`), so what is on disk for
a live instance stays, and a rollback loads what it restores before it starts
it. They do harm the units. Start does nothing to a unit that another instance
left running, and a rollback whose reload failed goes on to start units, maybe
from a definition of another instance that is still loaded; TLC finds both with
the instances of `neighbours`, hence `OwnNames` in two theorems. TLC found no violation of
`SInv` on small instances under these conditions before it was proved. The proof
of a step has three parts: what the call changes, name by name (`QuadletRemoved`
and the lemmas after it); that the handler's own part of `SInv` holds in its next
stage (`Serves`); and that nothing outside the names of its instance changed
(`Within`), so that other handlers (`KeptElsewhere`) and instances at rest
(`RestElsewhere`) are as they were.

`AtomicityProofs`. Every step of a handler, in any of the 22 actions, goes on
without a visible change, turns to its rollback, gives an answer that can be
relied on, meets an error in its rollback, gives up and leaves its instance
suspect, or saves the record (`Ordinary`). Under the mapping these are a stutter,
`Fail`, `Answer`, `Spoil`, `GiveUp` and `Apply` of `Deployment`; beginnings are
`Ask`, and the environment's actions are `Forget`, `Restart` and `Edit`. What is
left on the host is followed file by file (`Shows`: a file of the instance that
is not in the record, nor in the hands of the handler): a step of a handler
shows no new file (`Steady`), or is the failed call of `InstallNew` and shows
one, the one it asked for (`Slips`), or is the save. Two facts about the engine
are left as hypotheses of `OperationsAreAtomicIf`: that baselines are live, for
then what the host has under recorded names is what is recorded and only saves
change it (`MappedIsDeployed`), and that a handler keeps to its plan and to the
record of its instance (`Tidy`): what it installs is in the plan, what it removes
or puts back is the instance's own, what it removes as its own install is what
it installed or gone, and what it saves is what the plan said. `InstallProofs`
gets both from its invariant (`InstallsAreTidy`), `OrderlyProofs` from `SInv`
(`SIsTidy`). The second half of `Orderly` is needed here: an update of a removed
instance may find its old files where a lost answer left them.

### Files

**WholeAlways, ImplementsRegister, DurableAlways** (`AtomicFileProofs`), for any
number of writers, faults and crashes. `IInv` says that a temporary file on the
way to its rename holds the request's version, is whole once written and synced
once synced (Prepared), and that everything the name may lead to is whole and
synced. With it every system call is a step of `Register` or a stutter: the
rename is the instant a save takes effect, and an error before it is a failed
save. Durability adds that versions not yet in place are nobody else's
(Distinct) and that what a writer left behind is out of reach once the
directory was synced (Settled); it holds for the state store, which syncs it.

**FilesAreWhole, DocumentsAreRegisters, DocumentsAreRecordedAlways**
(`RecoveryProofs`), for any number of handlers, faults and crashes. A step of
`Recovery` is a step of one of its three files and leaves the other two alone,
so the theorems about one file carry over (`FilesInv`). `Backed`, which makes
DocumentsAreRecorded inductive, says that a document in the making, in the hands
of a handler or already at its name, is of a record that is durable: a handler
turns to the documents only after the answer of the store, a record that is still
exposed somewhere is not made anew, and a crash exposes nothing but what a name
or a disk already had (`Exposed` and its lemmas in `AtomicFileProofs`).

### Planning

**PlanningProofs**, for any requests, instances, catalogs, configurations,
versions, sizes and parameters. The inductive invariant is in three parts.
`Shape` is types (of variables, plans and records), that every version in the
process was reported to it or is empty because its request raced, unless
versions of different sizes were reported (`Informed`), and that a request that
plans has an application of the catalog and, unless it
installs, a record (`Begun`). On it rest **Typed**; **PlansAreSupportedAlways**
and **RefusalsAreFoundedAlways**: an answer is founded when it is given,
because what greaterOrEqual compares is the order of versions
(`AtLeastIsReaches`) and the empty version does not parse, and nothing it was
given for is disturbed before the request is over (`AnswersStay`); and
**PlansStayBelowRootsAlways**: what Resolve accepts has no component that leads
up, so every prefix of the way leads down (`ResolvedIsBelow`), and a saved plan
does not change (`PlansStay`). `Kept` is that the parameters of plans and
records are settled for their edition, and that an update that names none has
those of its record as long as the record is the one it was made from. It gives
**UpdatesKeepParametersAlways** and **StoredParametersResolveAlways**; the
latter assumes that no default of the catalog has a control character, which
Validate does not check and the second loop of ResolveParameters does not see.
The assumptions of the modules are `TokensAssumption`, `ReportsAssumption`,
`SizeAssumption`, `ComponentsAssumption`, `PlanningAssumption` and `InputsAssumption`: what is
not a number is not one, the special components differ from the empty one, and
texts and paths are texts and paths.

The type invariant of `AtomicFile` is proved as a part of `IInv` and is in no
run.

**Only model-checked**: EveryRequestEnds, since liveness under fairness is out
of the prover's reach, as is that an active handler always has a next step
(ENABLED). The runs of section 4 are counterexamples, not claims.

## 6. Not modelled

Read-only operations change nothing. Of the catalog's validation only inputs
and directories matter to what is modelled; names, modes of update and health
and the backup contract are checks without state. The web pages, their token,
and the API's decoding and status codes are input and output; of the web only
the timeout of its client is here, as the hang-up of `Engine`. The text of
documents and of rendered quadlets matters to no property. The directory of
plans grows with every plan that is not executed (`engine.go:200`); how much
disk that takes is not a question for these models. `PROJECT.json` has the
status of every part.

## 7. Plan

1. What SuccessIsFaithful and UnitsRunTheirFiles say of instances with common
   names, stated and proved: they hold as long as no other instance with a common
   name was left with units that run.
2. `SuccessIsFaithful` for concurrent installs, on the invariant of
   `InstallProofs`.
3. `Web`: the agent client's timeout against a late answer, and a plan
   submitted again from a page that is still open.
