# TLA+ models of datamake

datamake (`datamk`) builds a *cell*: it loads sources into a private DuckLake
catalog, runs SQL transforms in one transaction, checks the declared
interface, publishes the catalog as an immutable artifact on an object store,
and serves it over HTTP. A cell may instead *discover* its interface in a SQLMesh
environment, or *bind* its exports to tables of a warehouse, and then has
nothing to build. This directory holds TLA+ specifications of the parts
whose correctness depends on order, concurrency, failure or agreement between
components, the TLC configurations that check them, and TLAPS proofs about each
of the state machines.

Paths below are relative to the repository; `engine/mod.rs` means
`src/engine/mod.rs`.

## 1. The system

| Component | State it keeps | Operations | What makes it correct |
|---|---|---|---|
| **Store** (`store.rs`) | `catalog/LATEST`, `catalog/executions/<n>.ducklake`, `<n>.run.json`, `data/` | conditional PUT, `latest`, `list_executions`, `publish_execution`, `gc_artifacts`, `probe_conditional_put` | LATEST always names an artifact; a number names one catalog for ever |
| **Builder** (`engine::run`) | private working copy of the catalog in a scratch directory | open, probe, bind, BEGIN..COMMIT, verify, compact, publish, summary, collect | one snapshot per execution; nothing is visible before it is complete; a dead run leaves the cell usable |
| **Incremental loading and materialization** (`engine/mod.rs`) | `__datamk_watermarks` in the catalog | read watermark, stage delta, guards, upsert / append / replace, persist watermark, full refresh, replay check | no row is lost behind the mark; one row per key; a re-delivered delta changes nothing |
| **Compaction** (`engine::compact`) | snapshots and data files | expire by the window and the pins, clean up a window later | pinned snapshots survive; no file is deleted that a stored artifact reads |
| **Operator commands** (`ops.rs`, `release.rs`) | `.cell/published.json` (pins), `.cell/attach/` | status, rollback, attach, release | a rollback never breaks or silently changes a pinned route; status never sends the operator to a command that refuses; a fetched copy is the execution it is named for |
| **Server** (`serve/mod.rs`, `serve/mcp.rs`) | `AppState`: open cell, execution number, snapshot time, probes, run summary | poller tick, data routes, `/context`, health | no request spans two catalogs; what is said about the rows is about those rows; the Server follows LATEST |
| **Verify** (`verify.rs`) | `.cell/source_check.json`, `semantic_check.json`, `source_descriptions.json` | check the interface against tables, measure, write the records | a record is told only of the interface and the profile it was written for |
| **Context and the other doors** (`context.rs`, `serve/openapi.rs`, `serve/mcp.rs`, `mesh.rs`) | none | assemble, narrow, digest | every door shows the same routes, none a private one; an ETag stands for what it tags |
| **Discovery and semantic models** (`catalog/`, `ossie/`) | `.cell/deployed_catalog.json`, `.cell/semantic_model.json`, the checkout under `.cell/semantic` | sync, bind, verify | freshness gates; a supported model never moves under an unchanged version; a snapshot is of the source it names |
| **Deploy** (`deploy/`) | Kubernetes objects | pre-flight, probe, render, apply, init Job | no Server before a build of its own content has succeeded; a pod shows what the directory does |
| **Config, connectors, project, mesh** | none that outlives a command | parse, validate, resolve, choose a read path | refusals come in order and are enough for what follows |
| **CLI, logging, scaffolding** | none | | |

How they interact: the Builder, the operator's commands and the Server are
separate processes and share nothing but the object store. The Builder writes
artifact, pointer, summary, in this order; the Server polls the pointer; a
rollback overwrites it; the collector inside a run deletes old artifacts. There is no
lock: one conditional PUT is the only synchronisation. Within the Server, the
poller thread and the request handlers share `AppState`, each field behind its
own lock. The source of an incremental load is a warehouse that other people
write to at any time. The commands on the author's side (`sync`, `verify`, `run`,
`release`, `context`) share the directory of the cell: each reads `cell.yaml`
and the files under `.cell/` that earlier commands wrote, under freshness
rules, and may be killed between two writes. `deploy` copies that directory into a
ConfigMap, and a pod runs the same code over the copy.

What is hard to test, and where the hazards in `PROJECT.json` come from:
interleavings of two Builders, or of a run and a rollback; a run that dies between two
writes; retention that counts time; the non-atomic swap in the Server;
late and re-delivered rows; sequences of rollbacks, where the same number or
snapshot id means something else on another branch; records that are read long
after what they were written of has changed; doors that derive the same fact in
different places; deploys killed or timed out while a Job goes on.

## 2. The modules

```
ExecutionLog            what a published catalog promises to its readers
   ^ implemented by
Publication             Builders, operator, collector on one store
                                                MCPublication   TLC instances
Serve                   one Server and the store it follows     MCServe
Incremental             watermarks and materialization          MCIncremental

Cell <- Profile <- Connectors <- Sources             definitions without state:
                             ^-- SqlMesh <- Discovery   what the code computes
Cell <- Ossie                                        of texts, tables, records
Contract   EXTENDS Sources, Ossie, Discovery
Surface    EXTENDS Contract
Overlay, Operator   EXTEND Surface
Workspace  EXTENDS Operator     the directory of a cell over time   MCWorkspace
Deploy     EXTENDS Workspace, Overlay   a cluster it is deployed to    MCDeploy

                        theorems, each module EXTENDS the one it is about:
PublicationProofs <- HistoryProofs       Publication
ServeProofs                              Serve
IncrementalProofs                        Incremental
WorkspaceProofs <- SurfaceProofs <- RecordProofs   Workspace: the directory,
                                         the doors, what is read of the records
DeployProofs   (EXTENDS RecordProofs)    Deploy
```

### ExecutionLog
Two variables: `archive` (number -> lineage) and `pointer`. Three actions:
`Publish` adds one execution that extends an archived lineage by one snapshot under a
free number, `Serve` moves the pointer to an existing execution, `Collect`
forgets an execution that is not served. It is what a Server, an analyst with
`attach`, and the next Builder rely on.

### Publication
A catalog is its *lineage*, the sequence of snapshots committed to it, and what it has
*expired* of it. Position i is snapshot id i (DuckLake counts ids per catalog) and the element
is the run that committed it. So two branches may hold different snapshots
under one id, which is what rollback makes happen.

| State | Code |
|---|---|
| `artifacts`, `summaries`, `latest` | the objects under `catalog/` |
| `clock`, `artifacts[n].mtime` | `unix_now()` and the store's last-modified |
| `artifacts[n].expired`, `expired` | the snapshots a catalog has expired, and when: their files are scheduled for deletion |
| `deleted` | the data files that a compaction has deleted, by the run that wrote them |
| `born` | the time of each snapshot |
| `pc`, `seen`, `work`, `num`, `tries`, `victims`, `doomed` | the local variables of one `engine::run` |
| `opc`, `listed`, `target` | the local variables of `ops::rollback` / `release::run` |
| `pin` | `.cell/published.json` |
| `shipped` | the copy of it in the ConfigMap of the last deploy |
| `history`, `runs`, `crashes` | auxiliary: first content of each number; bounds |

The actions follow the code call by call: every access to the store is a step.
`ReadLatest`, `Download` (`setup`), `Commit` (transaction and verify gate),
`Compact` (where a retention window is set: expire, schedule, clean up, or a warning half way),
`ListExecutions`, `PutArtifact`, `PutLatest` (`publish_execution` with its
three attempts), `WriteSummary`, `ListGarbage`, `DeleteArtifact`,
`DeleteSummary` (`gc_artifacts`), `FinishRun`, `Bail` (the run's own refusals)
and `Fail` (a pod that dies, a store error, a failed contract) at any point.
The operator's `RollbackList`, `RollbackChoose`, `RollbackCheck`, `RollbackPut`,
`ReleaseOpen`, `ReleaseWrite` may be abandoned at any point (`GiveUp`). `Ship` is
a deploy, as far as it copies the release manifest into the pods.

A run reads the pins from the manifest in its own directory (`engine/mod.rs` 1659). `InPod`
says which one that is: the operator's own file, or the copy that a deploy has shipped
and that lags behind a release until the next one.

`Overlap` says whether commands may overlap in time. `FALSE` is the deployment
the documentation prescribes: the CronJob has `concurrencyPolicy: Forbid` and
the operator suspends the schedule before a rollback (the note `rollback`
prints). That is an assumption about the environment, not something the code
enforces: PublicationWriters and PublicationVGcRollback have `Overlap = TRUE`, and section 4 says which properties
are proved without the assumption.

### Serve
One Server. Everything derived from an execution is represented by its number,
so "the facts agree" is equality of numbers. The store moves as ExecutionLog
allows: publish, rollback, a summary that lands later or never, collection
of what is not served. The poller is one action per statement that another
thread can observe: `PollLatest`, `OpenLatest` (which reads LATEST a second
time), `DownloadArtifact` / `OpenMisses` / `OpenFails`, `SwapCell` (waits for
the lock), `StoreExecution`, `StoreAsOf`, `StoreProbes`, `FetchSummary`. A data
request is `BeginQuery` (lock), `EndQuery`, `Stamp` (the header, after the
lock); a context request reads one shared field per step. `Restart` is the
process coming back through `build_state`.

### Incremental
One upstream table with rows (key, cursor), one `upsert` and one `append`
transform over it, and the watermark. `Land` and `Purge` change the source at
any time, with NULL keys, NULL cursors and late cursors. `Bind` stages the
delta (`stage_incremental`), `Execute` is BEGIN..COMMIT (guards, both
strategies, `persist_watermarks`), `Abort` stands for every way a run ends
before publishing, `Publish` and `Rollback` move LATEST. The upsert's SELECT is
the deduplication that `check_duplicate_keys` tells authors to write; the
append's SELECT takes the delta as it is, so the guards matter.

### The definitions without state
Eleven modules hold what the code computes from what it is given. A refusal is
a string naming its reason, `Accepted` is none, and checks stand in the order
of the code, since the first that fails decides what a caller sees. Texts are
reduced to the cases the checks tell apart (absent, fitting, too long, ...), as
each module's head says.

| Module | Code | What it defines |
|---|---|---|
| `Cell` | `config/schema.rs`, `config/docs.rs`, parts of `verify.rs` | what loading `cell.yaml` refuses, grains and their inheritance, keys, definitions, pages |
| `Profile` | `config/bindings.rs`, `config/connections/` | `${VAR}` expansion, resolution of connections, storage and catalog |
| `Connectors` | `engine/connectors/` | read routes, cursor predicates, type correspondence, failures of probe, export, staging |
| `Sources` | `engine/mod.rs` | `bind_source` for every kind of source, what is live and what is staged |
| `Ossie` | `ossie/` | walking, merging, shape, binding, checks of semantic models; the git checkout; the record |
| `SqlMesh` | `catalog/sqlmesh/`, `catalog/warehouse.rs` | reading an environment, view names, column comments |
| `Discovery` | `catalog/mod.rs`, `select.rs`, `record.rs` | selection, overrides, the ratchet, materialization, staleness |
| `Contract` | `verify.rs`, `release.rs`, `manifest.rs`, `interface.rs` | the contract check, measurements, records, `release`, `import` |
| `Surface` | `context.rs`, `serve/`, `mesh.rs` | the document, scopes, digests, ETags, `/openapi.json`, MCP, the query grammar |
| `Operator` | `ops.rs`, `project.rs`, `serve/mod.rs` | secrets of a session, status, attach, project mounts, mesh, probes |
| `Overlay` | `deploy/` | refusals of a deploy, the artifact, the manifests |

### Workspace
One cell's directory. `file` is the content of `cell.yaml` (a value that is its own
digest), `records` the files under `.cell/`, `cache` the git checkout, `lake`
what was last built under each profile, `copies` the executions `attach` has
fetched, `mount` and `before` what the last two starts of a Server hold, `cmd`
the command between two of its writes. `world` is the outside: state store,
warehouse, directory and remote of semantic models.

The commands are actions: `SyncSemantic` and `SyncDiscover` (`catalog::sync`,
with a sync that is killed after `git init`), `Verify` followed by
`WriteSemanticCheck`, `WriteSourceCheck`, `WriteDescriptions`, `Run`,
`ReleaseNow`, `AttachCopy`, `Serve`, `ServeProject`. `Edit` and `Move` change
the file and the world, `Stop` kills a command. Commands that write nothing
(`context`, `status`, `--dry-run`) are operators that properties apply to every
state. An `Edit` may fall between any two writes of a command: what a verify measures is of
the `cell.yaml` it has loaded (`Checked`), and each record it writes is stamped with the digest of the
file as it is by then, as `verify.rs` does. The checkout in `cache` remembers the cone it was
narrowed to (`Cone`), since git does. Abstractions: a Server
does not follow LATEST (Serve is about that); of the rows a supported export
was pinned to nothing is kept.

### Deploy
`datamk deploy` of that directory. `Start` is `deploy::run` and `deploy_impl` up to
the first write; `plan.left` is the set of kinds of objects not yet applied, and `Due` the
one of them whose turn it is in the order of `apply_all`; `Apply`, `ApplyJob`, `ReplaceJob`, `PollJob` are the steps of
`apply_all` and `apply_and_wait_init`; `Abandon` is the time-out or the kill.
`latest` is the template the store was last built with, whoever's Job that was.
A ConfigMap's name is an arbitrary `Digest` of its content: two contents may share it, and then
the API server refuses the second. The cluster acts by itself: `JobSucceeds`, `JobFails`, `JobGoes` (TTL, or the end
of a foreground deletion), `CronTick`. `PodDirectory` is what a pod sees of the
ConfigMap, and the operators of Workspace are applied to it as they are to the
author's own directory. The API server and the Job controller are external and
modelled as `apply.rs` uses them.

## 3. The runs

Deadlock is checked except where the bounded system does stop:
PublicationWriters, once `MaxRuns` runs are done and nothing else is configured
to happen; the runs of Workspace and Deploy, once `MaxMoves` commands are
through.

| Run | Instance | Shows |
|---|---|---|
| PublicationWriters | 2 Builders, 4 commits, 1 crash, no retention, overlap | `TypeOK`, `PointerNamesArtifact`, `NumberNamesOneCatalog`, `SummaryTellsOfArtifact`, `WriterOwnsNumber`, `GivesUpOnlyWhenOutrun`; Publication implements ExecutionLog |
| PublicationForbid | 1 Builder, 1 operator, 3 commits, retention 1, 4 ticks, 1 crash, no overlap | with compaction, collection, rollback and deploys of a release: `NumberNamesOneCatalog`, `LoneBuilderNeverCollides`, `PinnedIdIsServed`, `PublishForgetsOnlyThePast` (the served history is carried on, and forgets only what is past the window and not pinned), `CleanupSparesWhatIsServed`, the refinement |
| ServeFollows | 1 data client, 1 context client, 2 executions, 2 rollbacks, 1 failed open, 1 restart | `SettledStateAgrees`, `NoRequestSpansTwoCatalogs`, `ProvenanceIsOfTheExecutionNamed`; liveness: `ServerFollowsLatest`, `SummaryIsNeverOrphaned` |
| IncrementalRuns | 2 keys, NULL key, cursors 1..3, NULL cursor, lookback 2, 3 rows, 1 deletion, 3 executions | `OneRowPerKey`, `NothingTimelyIsBehindTheMark`, `MarkCoversTheData`, `ReplayChangesNothing` |
| Workspace | 3 cells to begin with, 8 edits between them and others, 4 states of the outside, 4 commands, edits or moves, a kill or an edit at any write | who may rely on a record (`CheckFitsTheInterface`, `SnapshotIsOfItsSource`, `DiscoveredViewsExist`), what must not move (`RatchetHolds`, `ReleaseIsReproducible`), what is shown (`PrivateStaysPrivate`, `NoDataShowsNoValues`, `SurfacesAgree`, `WhatIsListedIsAnswered`, `ETagTellsTheContent`), what is checked (`KeyedGrainNeverFails`, `ImportedTypesHold`), what is advised (`StatusPointsTheWay`) |
| Deploy | 3 cells, 4 overlays, 3 states of the Secrets, 2 other commands, 2 deploys, 1 tick of the schedule | `ServerHasBeenBuilt`, `DoneMeansApplied`, `DeployedShowsWhatTheDirectoryShows` |

Runs that must find a violation: each one states a sentence of the
repository that the code does not keep (details and quotations under
`findings` in `PROJECT.json`).

| Run | Property | What happens |
|---|---|---|
| PublicationVGcRollback | `PointerNamesArtifact` | a run publishes 2, the operator rolls back to 1, the run's collector keeps only 2: LATEST names a deleted artifact and every later run bails |
| PublicationVAlias | `PinnedSnapshotIsFrozen` | release pins id k; rollback; the next run commits another snapshot k; the pin guard, and the Server, accept it |
| ServeVProvenance | `ProvenanceDatesItsOwnData` | a context document is assembled in the middle of a swap |
| WorkspaceVCheck | `NoOldCheckRidesAlong` | `cell.yaml` is edited while a verify measures: the record attests the new interface with the measurements of the old one |
| WorkspaceVCone | `SnapshotIsWhole` | a semantic source loses its `path`: the checkout stays narrowed, and the record of the pinned commit holds a part of it from then on |
| DeployVComplete | `CompleteJobIsWhatTheStoreHolds` | the Job of a deploy is Complete, but another content has been built over it since: the Server is rolled out without a build |

Every property of a passing run has a mutant of the code (`*_name` operators,
each next to the definition it mutates) that TLC finds violating it.

Disagreements met while modelling that no run is kept for, each in the code named: in a pod, `compact` reads
the pins that the last deploy shipped, so a release that is not deployed yet loses its snapshot to the window
(`engine/mod.rs` 1659; `InPod` of Publication, and why two theorems assume `~InPod`); it deletes files, before the run's
collection, that a stored artifact may still read, against `engine/mod.rs` 1655; it expires snapshots younger than the oldest
pin, against ADR 0004 s10 (`select_expirable`); a sync that moves a discovered interface leaves the record of a verify fresh (`manifest.rs`
187); `content_sha256` of a semantic check is compared by nobody, so a sync of other models leaves their old
verdicts standing (`ossie/record.rs` 97 and 151); the ETag does not cover those verdicts (`serve/mod.rs` 1819);
`attach --download` keeps its copies by number alone, so that the execution of one profile's store answers
for another's (`ops.rs` 1011);
`gc_artifacts` counts retention from an artifact's publication, not from when it
stopped being served (ADR 0004 s10, `store.rs` 527); `with_context_headers` reads
the execution after the query released the cell (`serve/mod.rs` 2023);
`--full-refresh` of a source without a cursor value leaves the old mark over a
rebuilt table (`engine/mod.rs` 3121); the lineage of a discovered export names
private exports, which ADR 0012 s4 says appear nowhere (`context.rs` 1165), so
`PrivateStaysPrivate` is about everything but `depends_on`, and but the `applies_to` of
definitions while a discovery is stale; the bindings of a cell
discovered on BigQuery are other ones in a pod, whose profile has no
connections (`config/mod.rs` 105), which `DeployedShowsWhatTheDirectoryShows`
leaves out.

Three of the passing properties are worded around a violation. `ETagTellsTheContent` is about
the interface and what was observed of sources, and not about `verify`'s findings on
semantic models, which ADR 0018 s7 keeps outside every digest. `SnapshotIsOfItsSource`
asks for the whole content only of a source with a path, and of one without that it
holds nothing of another source (WorkspaceVCone). `CheckFitsTheInterface` is about records whose verify
no edit fell into (WorkspaceVCheck).

MCWorkspace also states assumptions about operators that no step calls, which
TLC evaluates over small inputs on every run: the memory budget of a project is not given
away twice (`BudgetAssumption`), a rollback that says nothing of a source
rewinds nothing of it (`RewindAssumption`), a printed attach recipe can be run
(`RecipeAssumption`), pages follow one another (`PagesAssumption`), a guarded
cell needs a token with one of its roles (`DoorAssumption`), and a mesh has
one source of names (`MeshAssumption`). RecordProofs has two of them for every input:
`BudgetIsGivenOnce` and `RecipesCanBeRun`. That a session can
be opened where a recipe is printed stays with the instance: `attach` does not look at the sources
that a session would read.

### Bounds, and why they are enough
- *Commits (`MaxRuns` 3-4)*. Three commits are the least for a branch (publish,
  publish, roll back, publish on the older one), four let a run build on a
  branch, or a Builder lose all three attempts against a second one.
- *Clock 0..4 with retention 1*. An artifact can be inside the window, on its
  edge, past it, and collected in two different runs; a snapshot can pass the window, be expired, and
  its files be deleted a window later.
- *Two Builders.* The protocol has no notion of a third party: a Builder is
  disturbed only by what is in the store, and a second one may publish any
  number of times. The proofs cover any number.
- *Two executions, two rollbacks in Serve.* Enough for LATEST to go forwards
  and back in the middle of an open, for the target of an open to disappear,
  and for a request to begin before and end after a swap.
- *Three rows, three cursors, lookback 2.* Enough for a timely row, a late row
  inside and one outside the lookback, two rows for one key in one delta and
  in two deltas; three executions let a rollback be followed by two runs.

- *Four commands or moves in Workspace.* Enough for a record to be written, the
  file or the world to change, and two more commands to meet the old record:
  sync, move, sync again; build, release, move, serve. The violations of the two V
  runs need three and four. The cells are chosen so that each branch of the
  properties is met: a bound one with a private export, a built one with a
  semantic model in a directory or in git, a discovered one with a supported model.
- *Two deploys.* The second meets whatever the first left: a Job that runs, has
  failed, has finished or is being deleted, an applied CronJob, another image. What a third one
  can find besides, a Job that is Complete and overtaken, is what DeployVComplete is about, over fewer
  edits; a passing run of three deploys would take longer than five minutes, and `ServerHasBeenBuilt` is
  proved for any number. One tick lets the schedule build content that is older
  than what is being deployed.

### Fairness
Only Serve has liveness properties. `FairSpec` assumes weak fairness of the
poller (`spawn_poller` is an endless loop on a thread of its own) and of the
end of a query (DuckDB returns). It does not assume that clients keep asking,
that opens succeed for ever (at most `MaxFailures` fail), or that the lock is
fair: `std::sync::Mutex` promises nothing, so both properties have the
disjunct `Starved`, a poller kept at the lock for ever by back-to-back queries.
Failures of opens and restarts stop eventually, as do moves of LATEST;
without that there is nothing to settle on.

## 4. The proofs

Every theorem is for all values of the constants: any number of Builders, operators and
clients, any retention window, lookback, files, worlds, profiles and overlays, and any of the
bounds that TLC needs. The assumptions are the named ones of the modules, which
TLC evaluates on every run; where a theorem needs more, it says so as a
hypothesis and the reason is given here.

### Publication (`PublicationProofs`, `HistoryProofs`)
| Theorem | Property | Hypothesis |
|---|---|---|
| `TypeCorrect` | `TypeOK` | |
| `PointerIsSafe` | `PointerNamesArtifact` | `Guarded` |
| `NumbersAreStable` | `NumberNamesOneCatalog` | `Guarded` |
| `WritersOwnTheirNumbers` | `WriterOwnsNumber` | `Guarded` |
| `ImplementsLog` | refines ExecutionLog | `Guarded` |
| `SummariesAreTrue` | `SummaryTellsOfArtifact` | `Guarded` |
| `LoneBuilderIsNeverWedged` | `LoneBuilderNeverCollides` | `OneAtATime` |
| `RunsAloneNeverGiveUp` | `GivesUpOnlyWhenOutrun` | `OneAtATime` |
| `LoneBuilderOwnsItsNumber` | `WriterOwnsNumber` | one Builder |
| `LoneNumbersAreStable` | `NumberNamesOneCatalog` | one Builder |
| `LoneSummariesAreTrue` | `SummaryTellsOfArtifact` | one Builder |
| `TimelyNumbersAreStable` | `NumberNamesOneCatalog` | `[]InTime` |
| `TimelyBuildersOwnTheirNumbers` | `WriterOwnsNumber` | `[]InTime` |
| `TimelySummariesAreTrue` | `SummaryTellsOfArtifact` | `[]InTime` |
| `GivingUpMeansOutrun` | `GivesUpOnlyWhenOutrun` | `~Collects` |
| `PinnedIdStaysServed` | `PinnedIdIsServed` | `~Overlap`, `~InPod` |
| `PublishingForgetsOnlyThePast` | `PublishForgetsOnlyThePast` | `~Overlap`, `~InPod` |
| `CleanupIsSafe` | `CleanupSparesWhatIsServed` | `~Overlap` |

`Guarded == ~Collects \/ ~Overlap`, and `OneAtATime` is one Builder or `~Overlap`. `Guarded` is needed: PublicationVGcRollback is the
counterexample to `PointerIsSafe` without it. `TypeOK` is not inductive: that a
stored artifact has a number and a non-empty lineage depends on what a run has
done before; `IndType` adds that. `SafeInv` strengthens the next three with
- `TargetsAreArchived`: what a rollback has chosen is still there, because nothing is
  collected, or because no run is active meanwhile;
- `BuildsOnArchived`: a run's catalog is an archived lineage plus one snapshot,
  which is what ExecutionLog's `Publish` asks for;
- `CollectsAlone`: where collection is on, processes exclude each other, so the
  collecting run's number *is* LATEST, and it is the highest number ever used;
- `NumbersAreRemembered`: every number ever used is at most some archived one,
  so `max(listing) + 1` is never an old number, even after collection.

With one Builder, numbers and summaries survive collection and overlap together, when only
LATEST may dangle; the last three `Lone` theorems say so: whoever collects is the one who allocates, and spares the
highest number of all (`HighestIsKept`), so that no number comes back.

With several Builders, collection and overlap, no number is safe without an assumption about time: TLC
finds a Builder that stands between its PUT of the artifact and the end of its run for longer than the window,
so that another one collects its artifact and a third run takes the number again. `InTime` excludes
this: while a run has a number, nothing stored under that number or a later one is older than the
window. A run that lasts less than the window, from its listing to its end, satisfies it, since all of that was
put after the listing. Under it numbers, owners and summaries are safe for any number of
Builders. `TimelyInv` says why: what is
stored from a run's number on is in no collector's list (`SparedInv`), and above every number ever used there
is one that is in nobody's list. LATEST may still dangle there, as it may for a lone Builder: of
two Builders the one with the lower number may write it last, and the other collect what it names.

HistoryProofs adds `AloneInv` (where Builders take turns, the number just
allocated is free: the listing it came from is still all there is above it, and that the archive is
finite is what makes the listing have a highest number), `SummaryInv` (a summary without an artifact still tells of the only
catalog its number ever had), `OutrunInv` (a run that has lost k attempts has
k newer executions between the one it opened and the one it tries, counted with
`Cardinality`) and `ServedInv` (what an exclusive command has read of LATEST
and of the pin still stands, until it ends; what a run has expired, beyond what the execution it builds on
had, was past the window and unpinned). Of a pod's copy of the
pins nothing is assumed in `CleanupIsSafe`; the two theorems about pins need `~InPod`: with a pod, a release, a run after
the window and no deploy between them refute both.

### Serve (`ServeProofs`)
`TypeCorrect`, `SettledStateIsOfOneExecution` (`SettledStateAgrees`),
`NoQueryIsSwappedUnder` (`NoRequestSpansTwoCatalogs`) and `ProvenanceIsNamedTruly`
(`ProvenanceIsOfTheExecutionNamed`), without hypotheses. `IndSwap` says what of the
open execution has been stored at each statement of a swap, since the property
itself is silent in the middle of one; `IndLock` ties a reader that is in a query to the lock.

### Incremental (`IncrementalProofs`)
`TypeCorrect`, `PublishedTablesAreKeyed` (`OneRowPerKey`), `MarkNeverLags`
(`MarkCoversTheData`), `ReplayIsSafe` (`ReplayChangesNothing`) and `NoTimelyRowIsLost`
(`NothingTimelyIsBehindTheMark`), for any lookback. The catalogs that anybody
holds (`Held`: published, or of a run) are treated alike. The hard one is the last. `IndTop`
says that no mark is ahead of the source; `IndTimely` says that a row that is still in the source and came
in time is in a catalog, or ahead of its mark, and that a run that has bound
stages every such row *or will find it ahead of the mark it is about to
commit*: rows land between a bind and its commit, so the property of
the published catalogs alone is not inductive.

### Workspace (`WorkspaceProofs`, `SurfaceProofs`, `RecordProofs`)
| Theorem | Property | Hypothesis |
|---|---|---|
| `TypeCorrect` | `TypeOK` | |
| `ReuseIsFaithful` | `SnapshotIsOfItsSource` | |
| `ReleasesStayReproducible` | `ReleaseIsReproducible` | |
| `SyncNeverSlips` | `RatchetHolds` | |
| `NoValueLeavesWithoutData` | `NoDataShowsNoValues` | |
| `ETagsTellTheContent` | `ETagTellsTheContent` | |
| `DoorsAgree` | `SurfacesAgree` | `RoutesWrittenOnce` |
| `ListedIsAnswered` | `WhatIsListedIsAnswered` | `RoutesWrittenOnce` |
| `MeasurementsFitWhatIsShown` | `CheckFitsTheInterface` | `RoutesWrittenOnce` |
| `StatusIsAGuide` | `StatusPointsTheWay` | `CredentialsGiven` |
| `PrivateIsNeverNamed` | `PrivateStaysPrivate` | |
| `ImportsAreVerified` | `ImportedTypesHold` | |
| `RecordedViewsExist` | `DiscoveredViewsExist` | `PlansAreCarriedOut` |

- `IndType` says of a command between two writes that what it has read is still
  there; `SnapInv`, that the semantic record holds only content of the commit it names;
  `PublishedInv`, that a released ref is a commit the remote still has. Both need
  `CommitsAssumption`: a remote keeps its commits, and a commit its content. A
  remote whose history is rewritten and collected refutes both.
- `CatalogInv`: a recorded catalog has each object once, which its names
  being checked gives (`NamesRefusal`). The ratchet compares model by object, so without it
  the *first* model of an object could stay while a second one slips.
- `MountInv`: what a Server holds is what `build_state` makes of *some* directory that was
  served. The directory is existentially quantified and never the current one: edits, syncs
  and rebuilds since are of no consequence to a mount.
- `DocumentShows`, `DigestTells`, `FivePass` and the lemmas about the query carry the
  properties over from definitions to doors. `InterfacesAssumption`, `ProfilesAssumption` and
  `ProjectsAssumption` are what deserialization gives: a cell has definitions, finitely many
  sources and an interface, a list of exports that have a name, a version, a grain and a visibility.
- `CheckInv`: what the record of a check says of a route was measured of the export that the `cell.yaml`
  that was loaded (`of`) has there. That the record is read only under the digest it carries ties it down to one
  interface, if that digest is of the same file: an edit may fall between the measuring and the write, and
  `CheckFitsTheInterface` excepts such a record.
- `SnapInv` says of a record of a commit that its content is a part of that commit's, and all of it where the source
  has a path: what stands in a checkout is the files of the root and of its cone, and the cone of a source with a path is its own.
- `LakeInv`: what was built under a profile was built over a storage that can still be read, so that
  what `status` lists can be attached.
- `CredentialsGiven`: of a cell that builds nothing, the credentials are there. No command but
  `verify` opens its connections, so nothing that went before has shown it. The hypothesis holds of the cells of MCWorkspace.
- `ListedInv`: a recorded catalog, and the interface of a mount, are lists. That the first route of
  a filtered index is one of its routes needs it. `PrivateIsNeverNamed` then follows a route from the index
  (`RestrictedRoutes`) through what is loaded, or what a pod discovers (`DefinitionsKeep`, `DeployedListed`),
  into each part of a document (`ShownInterface`, `ServedInterface`). The proof
  found that the property had claimed too much: while a discovery is stale the `applies_to` of a definition
  is not checked and may say any name, which the document then tells (`context.rs` 2975). The
  property says so now, and MCWorkspace has such a definition.
- `PlansAreCarriedOut`: once a plan is finalized, the view of each model stands, the environment's own
  where the plan has promoted the model and production's where it has not. This is SQLMesh's promise, and
  it says nothing of a plan in flight. That the sync keeps to it is the theorem: it refuses while a plan is
  in flight (`DiscoverySettled`), picks the view by the promotion (`ViewOfModel`; `state.rs` 92-119), keeps
  models of the environment only (`KeptModels`), and names the views of the outside it has read,
  whatever has moved since. The worlds of MCWorkspace satisfy it, one of them with a plan in flight.
- `TablesAssumption`: DuckDB tells no two columns of a table apart by their case. `ImportIsVerified` needs it,
  since `verify` looks a column up without its case.
- `RoutesWrittenOnce`: no `cell.yaml` writes one route (name and version) twice. The code checks
  this of what is discovered and not of what an author writes; with two exports on a route
  the doors read the first, while the list has both. The cells of MCWorkspace satisfy it.

### Deploy (`DeployProofs`)
`ExitZeroMeansApplied` (`DoneMeansApplied`) and `ServerIsNeverUninitialised`
(`ServerHasBeenBuilt`), without hypotheses beyond `DeployAssumption`, and `DeployedShowsTheDirectory`
(`DeployedShowsWhatTheDirectoryShows`) under `ReducedSecrets`: no Secret of a Server has a connection that the
profile has not. A deploy asks for a Secret without connections
(`preflight.rs`); what is put into it afterwards, nobody checks. Nothing is assumed of `Digest`: two
contents may share one, and the deploy that meets this is refused. The invariant `IndInv` has five parts: `KeysInv`
(an object is stored under a key of its kind), `JobsInv` (a Job that has succeeded has
built its template), `PlanInv` (everything that is not in `plan.left` stands in the cluster as
rendered, for the Job: has been built), `WaitInv` (a Job that is waited for is of the template
in hand, or gone) and `ServerInv`. `ServerHasBeenBuilt` is not inductive by itself: that the Deployment
is applied after its build is a fact about the order of `plan.left`, and that
the build is of the same content one about what a rendering has in common
(`OfOneContent`, `PodsOf`). That the store holds a snapshot then is `SnapshotsInv`: a Job of the profile that has
succeeded has left one there, and no build takes one away; `JobPodsInv` says that Jobs
are of the profile deployed. That the store still holds *this* build is false (DeployVComplete). `DeployedShowsTheDirectory` adds `PodInv` (what is rolled out is a Server
of the profile deployed) and `Carries`, a relation between a
directory and a pod over its ConfigMap (the same `cell.yaml` and texts, each record that is still fresh,
no connection the profile has not) under which every step of `load`, `serve` and `context`
gives the same result; one lemma per step.

### Only model-checked
- Liveness (`ServerFollowsLatest`, `SummaryIsNeverOrphaned`): the prover has no rule for
  fairness and none for ENABLED here.

- `KeyedGrainNeverFails`: that a build leaves one row per key is Incremental's (`PublishedTablesAreKeyed`);
  Workspace only knows the tables that a state of the outside is built into, so what could be proved there would rest on
  assuming it. What the run shows is the gate on grains: that the key covers it, in any case of letters.

Every other invariant and every action property of a passing run is stated by a theorem.

The provers also take `@@`, `:>`, `SelectSeq` and folds as unknown. Where a property of these is needed
the model has another form of the same definition: the sets `Routes` and
`plan.left`, `++` (union of functions, the left one first), a position chosen by its
property in `ModelOf` and `ExportOf`, and in `RoutesOf` the routes under the positions of their
exports, which a restriction (`RestrictedTo`) and the first of them (`FirstRoute`) need no filter for. What a sync keeps of
a list (`Picked`) is given by its positions, each found by how many stand before it; `PickedElements`
needs no induction then, since an injection of a finite set into one of its size is onto (`FS_Injection`).

## 5. What is left

The modules of section 2 and the theorems of section 4 are complete as planned. Left is what the
served catalog still promises when commands overlap or when pins lag behind: `PinnedIdStaysServed` and
`PublishingForgetsOnlyThePast` are for `~Overlap` and `~InPod`, and fail without: a release can fall between the guard
of a rollback and its PUT, a run can publish what was built on an older execution than LATEST, and a pod's compaction does
not know the pins released since its deploy. Which weaker promise holds there (for instance, where every release is deployed
before the next run) has not been stated yet.

## 6. Not modelled, and why
- What DuckLake does inside `ducklake_expire_snapshots` and `ducklake_cleanup_old_files`, and files that several snapshots
  share (`append` and `upsert` tables): Publication takes every run to replace its tables, so that an expired snapshot's files
  are its own.
- The capability probe on its shared key, and the deletion of a warehouse export's
  staging prefix: each is one call sequence over a key nobody else reads, apart
  from another probe.
- Throttle, drain and a poisoned lock in the Server: what happens when DuckDB
  panics or a request is dropped lies in tokio and DuckDB, not in this code's
  control flow.
- In the state machines: direct-attach mode beyond `Run` of Workspace; several
  incremental sources per cell, `replace`, and a changed cursor column.
- SQL, DuckDB and DuckLake themselves: transactions are atomic, a snapshot is
  committed as a whole, an attached artifact is read consistently. Where the
  engine composes SQL (MERGE, anti-join, predicates, grain counts), the model has its meaning.
- The object store is taken to be linearizable per object, as S3 and GCS
  are; a store that does not enforce conditional PUTs is refused by the probe.
- Kubernetes beyond what `apply.rs` asks of it: scheduling of pods, rollouts, quotas.
- The wording of messages and documents, the CLI, scaffolding (`init.rs`), logging and time
  formatting: no state another command reads, and no ordering.
