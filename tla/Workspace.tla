------------------------------- MODULE Workspace -------------------------------
(***************************************************************************)
(* The directory of a cell over time: its author edits cell.yaml, the      *)
(* world outside moves, and the commands `sync`, `verify`, `run`,          *)
(* `release`, `serve` and `context` read them and the records that earlier *)
(* commands left under .cell/. Every command is a process of its own, and  *)
(* may be killed between two of the files it writes.                       *)
(*                                                                         *)
(* A content of cell.yaml is its own digest. A command loads it once, and  *)
(* an edit may fall into the command, before any of its writes. What lies  *)
(* outside is read at once, and moves between two commands.                *)
(***************************************************************************)
EXTENDS Operator

CONSTANTS
    Files,        \* the contents of cell.yaml
    FileOf,       \* of each: [cell, semantic], what it parses to
    FirstFiles,   \* the contents a workspace may begin with
    Edits,        \* the pairs of contents an edit leads from and to
    Profiles,     \* a function: profile names to profiles
    Worlds,       \* the states of what lies outside
    WorldOf,      \* of each: the state store, warehouse, directory, git remote
    Moves,        \* the pairs of worlds the outside goes from and to
    Projects,     \* the files `serve --project` may be given
    MaxMoves      \* bound: how many commands, edits and moves are looked at

ASSUME FilesAssumption == FirstFiles \subseteq Files /\ Edits \subseteq Files \X Files
ASSUME MovesAssumption == Moves \subseteq Worlds \X Worlds /\ MaxMoves \in Nat

\* The paths of git remotes that the cells read.
Subpaths == {FileOf[f].semantic.path :
               f \in {g \in Files : FileOf[g].semantic.kind = "git"}}

\* A cell has transforms, definitions and a list of exports, each with the
\* fields of `Export` that stand here, and finitely many sources.
ASSUME InterfacesAssumption ==
    \A f \in Files :
        LET cell == FileOf[f].cell
        IN  /\ {"interface", "sources", "transforms", "definitions"} \subseteq DOMAIN cell
            /\ IsFiniteSet(Range(cell.sources))
            /\ cell.interface \in Seq(ToSet(cell.interface))
            /\ \A n \in DOMAIN cell.interface :
                  {"name", "major", "grain", "visibility", "source", "bind"}
                    \subseteq DOMAIN cell.interface[n]

\* What a profile parses to; its store is a list of settings.
ASSUME ProfilesAssumption ==
    \A p \in DOMAIN Profiles :
        LET profile == Profiles[p]
        IN  /\ {"store", "connections", "cells", "principals", "storage",
                 "catalog", "s3", "gcs"} \subseteq DOMAIN profile
            /\ profile.store \in Seq(ToSet(profile.store))

\* The entries of a project file are a list.
ASSUME ProjectsAssumption ==
    \A project \in Projects : project.entries \in Seq(ToSet(project.entries))

\* DuckDB tells no two columns of a table apart by their case.
ASSUME TablesAssumption ==
    \A w \in Worlds : \A at \in DOMAIN WorldOf[w].tables :
        LET columns == DOMAIN WorldOf[w].tables[at].columns
        IN  \A one, other \in columns : Same(one, other) => one = other

\* A remote keeps its commits, and what a commit holds never changes.
ASSUME CommitsAssumption ==
    \A pair \in Moves :
        LET was == WorldOf[pair[1]].upstream
            is  == WorldOf[pair[2]].upstream
        IN  /\ was.commits \subseteq is.commits
            /\ \A at \in was.commits \X Subpaths : is.trees[at] = was.trees[at]

VARIABLES
    file,      \* the content of cell.yaml
    world,     \* the state of what lies outside
    records,   \* the files under .cell/, None for one that is not there
    cache,     \* the git checkout under .cell/semantic, and its cone
    lake,      \* per profile: what its tables were built from, its snapshots
    cmd,       \* the command in hand, between two of its writes
    copies,    \* the executions `attach` has fetched, and from whose store
    mount,     \* what the server holds since it was last started
    before,    \* what it held before that
    moves

vars == <<file, world, records, cache, lake, copies, cmd, mount, before, moves>>

Idle == [verb |-> "idle"]
Outside == WorldOf[world]
Cell0 == FileOf[file].cell
Semantic0 == FileOf[file].semantic

-----------------------------------------------------------------------------
(* What a command makes of a directory when it starts: [file, records,      *)
(* profile, name, built, snapshots], with the profile it was told to use. A pod    *)
(* has such a directory as well.                                           *)

\* `config::load`.
LoadedIn(d) ==
    WithGrain(LoadedInterface(FileOf[d.file].cell, d.records.catalog, d.file,
                              d.profile, d.name))

ConfigRefusalIn(d) ==
    LET cell == FileOf[d.file].cell
    IN  FirstRefusal(<<
            LoadRefusal(cell),
            LoadedRefusal(cell, d.records.catalog, d.file, d.name),
            ResolveRefusal(cell, d.profile),
            StaticRefusal(LoadedInterface(cell, d.records.catalog, d.file,
                                          d.profile, d.name))>>)

\* `engine::open`, read only: a cell that builds has been built.
OpenRefusalIn(d) ==
    Then(Then(ConfigRefusalIn(d), SessionRefusal(FileOf[d.file].cell, d.profile)),
         IF ~BuildsNoSnapshot(FileOf[d.file].cell) /\ d.snapshots = 0
         THEN "open: no catalog" ELSE Accepted)

\* `SemanticModelRecord::fresh_for`: it is of no profile.
SemanticFreshIn(d) ==
    /\ FileOf[d.file].semantic.kind # "none"
    /\ d.records.semantic.kind # "none"
    /\ d.records.semantic.digest = d.file

ModelsIn(d) == IF SemanticFreshIn(d) THEN d.records.semantic.models ELSE <<>>

FreshIn(d, record) == IF Fresh(record, d.file, d.name) THEN record ELSE None

\* `SourceDescriptionsRecord::fresh_for`.
DescribedIn(d) ==
    IF Fresh(d.records.descriptions, d.file, d.name)
    THEN d.records.descriptions.sources ELSE <<>>

\* The execution that LATEST names; a catalog that is attached has none, and
\* a cell that builds nothing never publishes.
ExecutionIn(d) ==
    IF DirectAttach(d.profile) \/ BuildsNoSnapshot(FileOf[d.file].cell) THEN 0
    ELSE d.snapshots

\* `refuse_stale_discovery`, `refuse_stale_semantic_model`.
ServeRefusalIn(d) ==
    LET of == FileOf[d.file]
    IN  Then(OpenRefusalIn(d), FirstReason(<<
            <<"serve: discovery", /\ of.cell.discover.on
                                  /\ ~Fresh(d.records.catalog, d.file, d.name)>>,
            <<"serve: semantic model",
              of.semantic.kind # "none" /\ ~SemanticFreshIn(d)>> >>))

\* The tables a transform builds out of the world it reads.
LakeTables(cell, built) ==
    IF built = "" THEN <<>>
    ELSE [table \in {t.table : t \in ToSet(Transforms(cell))} |->
             WorldOf[built].builds[table]]

\* `serve::run`, up to the socket: every record is read once, here.
MountIn(d, dataMounted) ==
    Mount(LoadedIn(d), DescribedIn(d), ModelsIn(d),
          FreshIn(d, d.records.sourceCheck), FreshIn(d, d.records.semanticCheck),
          dataMounted, ExecutionIn(d),
          Probes(LoadedIn(d), LakeTables(LoadedIn(d), d.built), dataMounted))
      ++ [kind |-> "mount"]

\* The author's own directory, under one of its profiles.
Here(p) == [file |-> file, records |-> records, profile |-> Profiles[p],
            name |-> p, built |-> lake[p].built, snapshots |-> lake[p].snapshots]

Loaded(p) == LoadedIn(Here(p))
ConfigRefusal(p) == ConfigRefusalIn(Here(p))
OpenRefusal(p) == OpenRefusalIn(Here(p))
SemanticFresh == SemanticFreshIn([file |-> file, records |-> records])
Models == ModelsIn([file |-> file, records |-> records])

\* What a profile's storage holds: an execution of each run that published.
StoreOf(p) ==
    LET published == IF DirectAttach(Profiles[p]) THEN 0 ELSE lake[p].snapshots
    IN  [executions |-> 1..published, latest |-> published]

\* `datamk status`, of a cell that is loaded.
StatusOf(p) ==
    IF Cell0.discover.on THEN DiscoveredStatus(Loaded(p), records.catalog, file, p)
    ELSE PublishedStatus(Cell0, StoreOf(p), <<>>, <<>>)

StatusRefusal(p) ==
    Then(ConfigRefusal(p),
         IF Cell0.discover.on THEN Accepted ELSE PublishedRefusal(Profiles[p]))

AttachAnswer(p, execution, download) ==
    Then(ConfigRefusal(p),
         AttachRefusal(Cell0, Profiles[p], StoreOf(p), execution, download,
                       lake[p].snapshots > 0))

\* `build_document_for`, of the whole cell.
Everything ==
    [params |-> {}, terms |-> {}, model |-> "", view |-> "", include |-> {}]

ShownIn(d, cell) ==
    Emitted(Assemble(Interface(cell, DescribedIn(d), ModelsIn(d)), ExecutionIn(d),
                     Told(FreshIn(d, d.records.sourceCheck), RouteKeys(cell), TRUE),
                     FreshIn(d, d.records.semanticCheck), <<>>,
                     BuildsNoSnapshot(cell), DirectAttach(d.profile), <<>>),
            <<>>, Everything, {}, {})

Shown(p) ==
    ShownIn(Here(p), Loaded(p))

-----------------------------------------------------------------------------
(* The session of a verify or a run.                                       *)

Connection(p, source) == Profiles[p].connections[source.connection]

SiblingPaths(cell, connection) ==
    {source.path : source \in {s \in Range(cell.sources) :
        SourceKind(s) = "table" /\ s.connection = connection}}

\* What the warehouse answers for a source: `ClassifyCache::classify`.
Answer(cell, p, name) ==
    LET source == cell.sources[name]
    IN  IF SourceKind(source) = "table"
        THEN CacheClassify(Connection(p, source), source.path,
                           SiblingPaths(cell, source.connection), FALSE,
                           Outside.objects)
        ELSE [refusal |-> Accepted, known |-> TRUE, denied |-> FALSE,
              meta |-> Unknown]

\* `bind_sources`.
Binding(cell, p) ==
    BindAll(cell, [name \in DOMAIN cell.sources |->
        Bind(cell.sources[name], Profiles[p], Outside.facts,
             Answer(cell, p, name), <<>>, FALSE, FALSE)])

\* The types and descriptions a bind learns of each source's warehouse.
NativeOf(cell, p, native) ==
    [name \in DOMAIN native |->
        [connector |-> Connection(p, cell.sources[name]).type,
         columns |-> native[name],
         described |-> [column \in Answer(cell, p, name).meta.descriptions
                          |-> "fits"]]]

Native(cell, p) == NativeOf(cell, p, Binding(cell, p).native)

\* A source is seen as its object in the warehouse is.
SourceTables(cell) ==
    LET object(source) == IF SourceKind(source) = "table"
                          THEN <<source.path.dataset, source.path.table>>
                          ELSE <<"raw", source.text>>
    IN  [name \in {n \in DOMAIN cell.sources :
                     object(cell.sources[n]) \in DOMAIN Outside.tables} |->
            Outside.tables[object(cell.sources[name])]]

Session(cell, built) == SourceTables(cell) @@ LakeTables(cell, built)

\* `verify::check`, over a session.
ContractRefusal(cell, p, built, native) ==
    CheckRefusal(cell, Session(cell, built), DOMAIN LakeTables(cell, built),
                 native, Models)

\* `verify::run`, up to its first write; sources are bound only for a bound
\* export.
VerifiedRefusal(cell, p, binding) ==
    LET bound == HasBound(cell)
    IN  Then(IF bound THEN UnboundRefusal(cell, Profiles[p]) ELSE Accepted,
        Then(IF bound THEN binding.refusal ELSE Accepted,
             ContractRefusal(cell, p, lake[p].built,
                 IF bound THEN NativeOf(cell, p, binding.native) ELSE <<>>)))

VerifyRefusal(p) ==
    Then(OpenRefusal(p),
         VerifiedRefusal(Loaded(p), p, Binding(Loaded(p), p)))

-----------------------------------------------------------------------------
Init ==
    /\ file \in FirstFiles
    /\ world \in {w \in Worlds : \A pair \in Moves : pair[2] # w}
    /\ records = [catalog |-> None, semantic |-> None, semanticCheck |-> None,
                  sourceCheck |-> None, descriptions |-> None, published |-> None]
    /\ cache = NoCheckout
    /\ lake = [p \in DOMAIN Profiles |-> [built |-> "", snapshots |-> 0]]
    /\ copies = <<>>
    /\ cmd = Idle
    /\ mount = None
    /\ before = None
    /\ moves = 0

Begins == cmd = Idle /\ moves < MaxMoves /\ moves' = moves + 1

\* The author writes cell.yaml, whatever a command is in the middle of.
Edit ==
    /\ moves < MaxMoves /\ moves' = moves + 1
    /\ \E pair \in Edits : pair[1] = file /\ file' = pair[2]
    /\ UNCHANGED <<world, records, cache, lake, copies, cmd, mount, before>>

\* Upstream deploys, the directory is written, a branch is pushed.
Move ==
    /\ Begins
    /\ \E pair \in Moves : pair[1] = world /\ world' = pair[2]
    /\ UNCHANGED <<file, records, cache, lake, copies, cmd, mount, before>>

-----------------------------------------------------------------------------
(* `datamk sync`: the semantic half needs no profile and comes first.      *)

\* A pinned commit is not fetched again, if it was fetched of this source.
Reusable_ref(record, source) ==      \* mutant: the rest of it is not compared
    /\ source.kind = "git" /\ source.ref.form = "sha"
    /\ record.kind = "commit" /\ record.commit = source.ref.name

Reusable(record, source) ==
    /\ source.kind = "git" /\ source.ref.form = "sha"
    /\ record.kind = "commit" /\ record.commit = source.ref.name
    /\ record.source = source

Fetched(stopped) ==
    Fetch(cache, Outside.upstream, Semantic0.url, Semantic0.ref,
          Semantic0.path, stopped)

\* The tree `sync_semantic` walks: the directory, or what is checked out of a
\* commit at a subpath.
SemanticTree(commit, cone) ==
    IF Semantic0.kind = "dir" THEN Outside.tree
    ELSE CheckedOut(Outside.upstream.trees[<<commit, Semantic0.path>>],
                    Semantic0.path, cone)

SemanticRecord(commit, cone) ==
    LET merged == Merged(SemanticTree(commit, cone))
    IN  [kind |-> IF Semantic0.kind = "dir" THEN "dir" ELSE "commit",
         digest |-> file, source |-> Semantic0, commit |-> commit,
         content |-> merged.content, models |-> merged.models]

TreeRefusal(tree) ==
    IF WalkRefusal(tree) # Accepted THEN WalkRefusal(tree) ELSE MergeRefusal(tree)

Goes_always(p) == [verb |-> "sync", profile |-> p, file |-> file]   \* mutant: both

Goes(p) == IF Cell0.discover.on
           THEN [verb |-> "sync", profile |-> p, file |-> file] ELSE Idle

\* `sync_semantic`. What it cannot read leaves the record that was there.
SyncSemantic(p, stopped, refetch) ==
    /\ Begins
    /\ Semantic0.kind # "none"
    /\ LoadRefusal(Cell0) = Accepted
    /\ IF Reusable(records.semantic, Semantic0) /\ ~refetch
       THEN /\ stopped = ""
            /\ records' = [records EXCEPT !.semantic.digest = file]
            /\ cmd' = Goes(p)
            /\ UNCHANGED cache
       ELSE LET git == Semantic0.kind = "git"
                fetched == IF git THEN Fetched(stopped)
                           ELSE [refusal |-> DirRefusal(Semantic0.dir),
                                 cache |-> cache, commit |-> ""]
                done == /\ fetched.refusal = Accepted
                        /\ TreeRefusal(SemanticTree(fetched.commit,
                                                   fetched.cache.cone)) = Accepted
            IN  /\ stopped # "" => git
                /\ cache' = fetched.cache
                /\ IF done
                   THEN /\ records' = [records EXCEPT
                              !.semantic = SemanticRecord(fetched.commit,
                                                          fetched.cache.cone)]
                        /\ cmd' = Goes(p)
                   ELSE UNCHANGED <<records, cmd>>
    /\ UNCHANGED <<file, world, lake, copies, mount, before>>

SyncableCatalog(cell, p) ==
    DeployedCatalog(cell.discover, Outside.store,
                    Profiles[p].connections[cell.discover.warehouse],
                    Outside.views)

DiscoveryRefusal(cell, p) ==
    LET discover == cell.discover
        profile == Profiles[p]
    IN  Then(StateRefusal(discover, profile),
        Then(ReadRefusal(discover, Outside.store,
                 profile.connections[discover.warehouse], Outside.views),
             SyncRefusal(cell, records.catalog, SyncableCatalog(cell, p), file)))

\* `sync_discover`: what is read, for the cell as it was loaded, or the
\* previous record. It digests cell.yaml for itself, after the first half.
SyncDiscover(p) ==
    LET begun == IF cmd = Idle THEN file ELSE cmd.file
        cell == FileOf[begun].cell
    IN  /\ cell.discover.on
        /\ LoadRefusal(cell) = Accepted
        /\ \/ Begins /\ Semantic0.kind = "none"
           \/ /\ cmd = [verb |-> "sync", profile |-> p, file |-> begun]
              /\ UNCHANGED moves
        /\ cmd' = Idle
        /\ IF DiscoveryRefusal(cell, p) = Accepted
           THEN records' = [records EXCEPT !.catalog =
                   CatalogRecord(file, p, cell.discover, SyncableCatalog(cell, p))
                     ++ [world |-> world]]
           ELSE UNCHANGED records /\ cmd # Idle
    /\ UNCHANGED <<file, world, cache, lake, copies, mount, before>>

-----------------------------------------------------------------------------
(* `datamk verify`: up to three records, one after the other.              *)

\* A verify of a cell without a bound export or a semantic model writes
\* nothing.
Verify(p) ==
    /\ Begins
    /\ SemanticFresh \/ (OpenRefusal(p) = Accepted /\ HasBound(Loaded(p)))
    /\ VerifyRefusal(p) = Accepted
    /\ cmd' = [verb |-> "verify", profile |-> p, file |-> file,
               at |-> IF SemanticFresh THEN "semantic" ELSE "source"]
    /\ UNCHANGED <<file, world, records, cache, lake, copies, mount, before>>

At(step) == cmd.verb = "verify" /\ cmd.at = step

\* The directory as the verify in hand found it, and the cell it loaded.
Opened == [Here(cmd.profile) EXCEPT !.file = cmd.file]
Checked == LoadedIn(Opened)

\* `write_semantic_check_record`. Every write digests cell.yaml as it is then.
WriteSemanticCheck ==
    /\ At("semantic")
    /\ records' = [records EXCEPT !.semanticCheck =
           SemanticCheckRecord(file, cmd.profile, records.semantic.content,
               SemanticOutcome(ModelsIn(Opened), Checked.interface))]
    /\ cmd' = IF HasBound(Checked)
              THEN [cmd EXCEPT !.at = "source"] ELSE Idle
    /\ UNCHANGED <<file, world, cache, lake, copies, mount, before, moves>>

Measured(cell, built) ==
    Measurements(cell, Session(cell, built),
                 [name \in UNION {DOMAIN export.schema :
                                    export \in ToSet(cell.interface)} |-> 0])

\* `write_source_check_record`.
WriteSourceCheck ==
    /\ At("source")
    /\ records' = [records EXCEPT !.sourceCheck =
           SourceCheckRecord(file, cmd.profile,
               Measured(Checked, lake[cmd.profile].built))
             ++ [of |-> cmd.file]]
    /\ cmd' = [cmd EXCEPT !.at = "descriptions"]
    /\ UNCHANGED <<file, world, cache, lake, copies, mount, before, moves>>

\* `SourceDescriptionsRecord::write`.
WriteDescriptions ==
    /\ At("descriptions")
    /\ records' = [records EXCEPT !.descriptions =
           DescriptionsRecord(@, file, cmd.profile, Checked,
                              Native(Checked, cmd.profile))]
    /\ cmd' = Idle
    /\ UNCHANGED <<file, world, cache, lake, copies, mount, before, moves>>

\* The process is killed, or a write fails: the files it has written stay.
Stop ==
    /\ cmd # Idle
    /\ cmd' = Idle
    /\ UNCHANGED <<file, world, records, cache, lake, copies, mount, before, moves>>

-----------------------------------------------------------------------------
(* `datamk run`, `release` and `serve`.                                    *)

\* `engine::run`, before anything is opened: there must be something to build.
RunStartRefusal(cell) ==
    FirstReason(<<<<"run: discovered", cell.discover.on>>,
                  <<"run: builds no snapshot", BuildsNoSnapshot(cell)>>>>)

RunsTo(cell, p, binding) ==
    /\ UnboundRefusal(cell, Profiles[p]) = Accepted
    /\ binding.refusal = Accepted
    /\ \/ DirectAttach(Profiles[p])
       \/ ContractRefusal(cell, p, world,
              NativeOf(cell, p, binding.native)) = Accepted

\* `engine::run`. With a catalog attached the commit comes before the check
\* of the contract; a published one is uploaded only after it.
Run(p) ==
    /\ Begins
    /\ RunStartRefusal(Cell0) = Accepted
    /\ Then(ConfigRefusal(p), SessionRefusal(Cell0, Profiles[p])) = Accepted
    /\ RunsTo(Loaded(p), p, Binding(Loaded(p), p))
    /\ lake' = [lake EXCEPT ![p] = [built |-> world,
                                    snapshots |-> @.snapshots + 1]]
    /\ UNCHANGED <<file, world, records, cache, copies, cmd, mount, before>>

\* `release::run`.
ReleaseNow(p) ==
    /\ Begins
    /\ OpenRefusal(p) = Accepted
    /\ ReleaseRefusal(Semantic0, IF SemanticFresh THEN records.semantic ELSE None,
                      1..lake[p].snapshots) = Accepted
    /\ records' = [records EXCEPT !.published =
           Release(Loaded(p), 1..lake[p].snapshots)
             ++ [kind |-> "published", source |-> Semantic0, commit |->
                   IF Semantic0.kind = "git" THEN records.semantic.commit ELSE ""]]
    /\ UNCHANGED <<file, world, cache, lake, copies, cmd, mount, before>>

\* `datamk attach`, where it leaves something behind: the copy is made beside
\* its place and moved into it, and the next attach finds it there.
AttachCopy(p, execution) ==
    /\ Begins
    /\ AttachAnswer(p, execution, TRUE) = Accepted
    /\ LET n == AttachedExecution(StoreOf(p), execution)
       IN  copies' = copies @@ (n :> p)
    /\ UNCHANGED <<file, world, records, cache, lake, cmd, mount, before>>

\* `datamk serve`.
Serve(p, dataMounted) ==
    /\ Begins
    /\ ServeRefusalIn(Here(p)) = Accepted
    /\ mount' = MountIn(Here(p), dataMounted)
    /\ before' = mount
    /\ UNCHANGED <<file, world, records, cache, lake, copies, cmd>>

\* `datamk serve --project`: its entries are of this directory; one of the
\* cells it mounts is looked at.
ServeProject(project, cli, noData) ==
    LET profile(entry) == ProfileOf(project, entry, cli)
        entries == ToSet(project.entries)
        known == {entry \in entries : profile(entry) \in DOMAIN Profiles}
        opens == [entry \in entries |->
                    IF entry \in known THEN ServeRefusalIn(Here(profile(entry)))
                    ELSE "profile: missing"]
        cellAt == [entry \in known |-> Loaded(profile(entry))]
    IN  /\ Begins
        /\ ProjectRefusal(project) = Accepted
        /\ MountsRefusal(project, opens, cellAt) = Accepted
        /\ \E entry \in entries :
              mount' = MountIn(Here(profile(entry)), ~(noData \/ entry.noData))
        /\ before' = mount
        /\ UNCHANGED <<file, world, records, cache, lake, copies, cmd>>

Next ==
    \/ Edit
    \/ Move
    \/ \E p \in DOMAIN Profiles :
          \/ \E stopped \in {"", "init", "checkout"}, refetch \in BOOLEAN :
                SyncSemantic(p, stopped, refetch)
          \/ SyncDiscover(p)
          \/ Verify(p)
          \/ Run(p)
          \/ ReleaseNow(p)
          \/ \E execution \in 0..MaxMoves : AttachCopy(p, execution)
          \/ \E dataMounted \in BOOLEAN : Serve(p, dataMounted)
    \/ \E project \in Projects, cli \in DOMAIN Profiles \cup {""}, noData \in BOOLEAN :
          ServeProject(project, cli, noData)
    \/ WriteSemanticCheck
    \/ WriteSourceCheck
    \/ WriteDescriptions
    \/ Stop

Spec == Init /\ [][Next]_vars

-----------------------------------------------------------------------------
(* Properties. *)

RecordKinds == [catalog |-> "catalog", semanticCheck |-> "semantic_check",
                sourceCheck |-> "source_check",
                descriptions |-> "source_descriptions"]

\* Every file is of its kind, and a command is at a write only when the cell
\* has what is to be written: a sync in hand is of a cell that discovers, a
\* verify in hand of one whose interface is bound or whose model is fresh.
TypeOK ==
    /\ file \in Files /\ world \in Worlds /\ moves \in 0..MaxMoves
    /\ cache \in [at : {"none", "bare", "origin"}, cone : {"", "tree"}]
    /\ \A name \in DOMAIN RecordKinds :
          records[name].kind \in {"none", RecordKinds[name]}
    /\ records.semantic.kind \in {"none", "dir", "commit"}
    /\ \A p \in DOMAIN Profiles : lake[p].snapshots \in 0..MaxMoves
    /\ cmd.verb \in {"idle", "sync", "verify"}
    /\ cmd # Idle => cmd.file \in Files /\ cmd.profile \in DOMAIN Profiles
    /\ cmd.verb = "sync" => LET of == FileOf[cmd.file]
                            IN  of.cell.discover.on /\ of.semantic.kind # "none"
    /\ At("semantic") => SemanticFreshIn(Opened)
    /\ At("source") \/ At("descriptions") => HasBound(Checked)

Loads(p) == ConfigRefusal(p) = Accepted

\* A measurement is of the columns and of the grain it is shown with.
CheckFits(document) ==
    \A export \in document.exports : \A measured \in export.check :
        /\ DOMAIN measured.nullRows = ToSet(export.grain)
        /\ measured.columns # <<>>
             => DOMAIN measured.columns = DOMAIN export.schema

\* `datamk context` of an authored cell never shows a measurement that
\* `verify` took of another interface than the one it stands in, whatever
\* was edited, rebuilt or interrupted between and since (manifest.rs 64-69),
\* as long as no edit falls into the verify itself, so that the record is
\* written for the cell.yaml that was measured.
CheckFitsTheInterface ==
    \A p \in DOMAIN Profiles :
        /\ Loads(p) /\ ~Cell0.discover.on
        /\ records.sourceCheck.kind # "none"
             => records.sourceCheck.of = records.sourceCheck.digest
        => CheckFits(Shown(p))

\* The same of every cell, whatever a verify was in the middle of when
\* cell.yaml was edited, and of a discovered one too, whose interface moves by
\* a sync: a check of the previous contract never rides along as if it covered
\* the current one (manifest.rs 64-69).
NoOldCheckRidesAlong ==
    \A p \in DOMAIN Profiles : Loads(p) => CheckFits(Shown(p))

\* The routes a document names otherwise than as what it was derived from.
SemanticRoutes(doc) ==
    doc.routes \cup (UNION {{rel.fromRoute, rel.toRoute} \ {<<>>}
                             : rel \in doc.relationships})

NamedRoutes(document) ==
    {export.route : export \in document.exports}
    \cup (UNION {UNION {SemanticRoutes(s.doc) : s \in export.semantic}
                   : export \in document.exports})
    \cup {entry[2] : entry \in {e \in document.docs : e[1] = "route"}}

DefinedRoutes(document) ==
    UNION {{<<entry.name, entry.major>> : entry \in term.appliesTo}
             : term \in ToSet(document.definitions)}

\* ADR 0012: a private export appears nowhere, not even as a name. Neither
\* the documents, nor a model that is bound to two majors of an export of
\* which one is private, say its route. The lineage of a discovered export
\* does (Discovery!Lineage, context.rs 1165-1169), and is left out here. What
\* a definition applies to is not checked while the interface is yet to be
\* discovered, which the document then says (context.rs 2975).
PrivateStaysPrivate ==
    /\ \A p \in DOMAIN Profiles :
          Loads(p) =>
            /\ NamedRoutes(Shown(p)) \subseteq RouteKeys(Loaded(p))
            /\ ~Cell0.discover.on \/ Fresh(records.catalog, file, p)
                 => DefinedRoutes(Shown(p)) \subseteq RouteKeys(Loaded(p))
    /\ mount.kind # "none" =>
          /\ NamedRoutes(Document(mount)) \cup DefinedRoutes(Document(mount))
               \subseteq RouteKeys(mount.cell)
          /\ \A model \in ToSet(mount.models) :
                \A dataset \in ModelDoc(model, mount.index, mount.semantic).datasets :
                    SemanticRoutes(dataset.doc) \subseteq RouteKeys(mount.cell)

\* The data hashes of the models a record pins at one version.
Pinned1(record, object) ==
    {<<record.pins[object], model.dataHash>> :
        model \in {m \in ToSet(record.catalog.models) : m.object = object}}

\* ADR 0016 s6: a sync never replaces the record of a supported model by one
\* of other data under the same version, even when what it replaces was
\* written for another cell.yaml or another profile.
RatchetHolds ==
    [][LET old == records.catalog
           new == records'.catalog
       IN  old.kind # "none" /\ new.kind # "none" =>
             \A object \in DOMAIN old.pins \cap DOMAIN new.pins :
                 \A was \in Pinned1(old, object), is \in Pinned1(new, object) :
                     was[1] = is[1] => was[2] = is[2]]_vars

\* All doors tell of the same routes: the paths of /openapi.json, what MCP
\* calls queryable, and what a read without parameters is answered for; and
\* every door but these lists exactly the discoverable ones.
SurfacesAgree ==
    mount.kind # "none" =>
        LET open == OpenApi(mount).data
            routes == RouteKeys(mount.cell)
        IN  /\ open = {route \in routes :
                         ReadRefusalAt(mount, route, <<>>) = Accepted}
            /\ open = {e.route : e \in {e \in ListExports(mount) : e.queryable}}
            /\ routes = {e.route : e \in ListExports(mount)}
            /\ routes = OpenApi(mount).routes
            /\ \A export \in ToSet(mount.cell.interface) :
                  (ContextExportRefusal(mount, Route(export), Everything)
                     = Accepted) <=> Route(export) \in routes

\* What a door lists can be asked for: every token /openapi.json gives as a
\* term is accepted and found, every resource of MCP is answered, and every
\* export a mesh manifest lists as not bound is read where data is served.
WhatIsListedIsAnswered ==
    mount.kind # "none" =>
        /\ \A token \in OpenApi(mount).terms :
              LET query == [Everything EXCEPT !.terms = {token}]
              IN  /\ ContextRefusal(mount, query) = Accepted
                  /\ ContextDoc(mount, query).missing = {}
        /\ \A uri \in Resources(mount) : ResourceRefusal(mount, uri) = Accepted
        /\ mount.dataMounted =>
              \A export \in Summarized("cell",
                     {[version |-> 4, document |-> Document(mount),
                       etag |-> InterfaceDigest(mount.interface, TRUE, mount.cell)]}
                   ).exports :
                  ~export.bound => ReadRefusalAt(mount, export.route, <<>>) = Accepted

\* What an ETag stands for: the document of an export, without the parts
\* that ADR 0017 leaves out of it, the prose and the verification of semantic
\* models, which ADR 0018 s7 leaves out, and those that a poll may move.
Stands(document) ==
    <<{[e EXCEPT !.semantic = {}, !.probe = {}, !.schema =
          [name \in DOMAIN e.schema |->
             <<e.schema[name].type, e.schema[name].description>>]]
         : e \in document.exports},
      {entry[2] : entry \in {e \in document.docs : e[1] = "route"}},
      document.lookup>>

\* Two starts of the server never answer with one ETag for two interfaces, or
\* for two sets of what was observed of their sources: a client that holds
\* the one is not told that the other is unchanged.
ETagTellsTheContent ==
    before.kind # "none" =>
        \A route \in RouteKeys(before.cell) \cap RouteKeys(mount.cell) :
            LET query == [Everything EXCEPT !.include = {"check"}]
            IN  ETag(before, route, query) = ETag(mount, route, query)
                  => Stands(ContextExport(before, route, query))
                       = Stands(ContextExport(mount, route, query))

\* `--no-data`: neither a probe nor a record of `verify` tells a value that
\* stands in a row (serve/mod.rs 740-742).
NoDataShowsNoValues ==
    mount.kind # "none" /\ ~mount.dataMounted =>
        \A export \in Document(mount).exports :
            /\ \A probe \in export.probe : probe.values = <<>> /\ probe.example = {}
            /\ \A measured \in export.check :
                  \A name \in DOMAIN measured.columns :
                      measured.columns[name].top = 0

\* `status` points the way: it never advises a command that the cell as it
\* stands is refused for what it is (ops.rs 142-148), it calls a discovery
\* stale exactly when the server refuses it, and what it lists as published
\* can be attached, one way or the other.
StatusPointsTheWay ==
    \A p \in DOMAIN Profiles : StatusRefusal(p) = Accepted =>
        LET status == StatusOf(p)
        IN  CASE status.kind = "published" ->
                   /\ "run" \in status.advice => RunStartRefusal(Cell0) = Accepted
                   /\ "verify" \in status.advice => OpenRefusal(p) = Accepted
                   /\ \A n \in status.executions
                               \cup IF status.latest = 0 THEN {} ELSE {0} :
                         \E download \in BOOLEAN :
                             AttachAnswer(p, n, download) = Accepted
              [] OTHER ->
                   status.stale = Accepted
                     <=> ServeRefusalIn(Here(p)) # "serve: discovery"

GrainsHold(cell, tables) ==
    \A export \in ToSet(cell.interface) :
        InheritedKey(export, cell) # <<>>
          /\ SourceObject(export) \in DOMAIN tables
          => GrainUniqueRefusal(export, tables[SourceObject(export)])
               # "verify: grain is not unique"

\* The gate over grains is enough: what a build leaves in a table under a
\* key, and a load accepts as a grain of it, `verify` never finds twice. With
\* a catalog attached the table is there even when the check after it failed.
KeyedGrainNeverFails ==
    \A p \in DOMAIN Profiles :
        Loads(p) => GrainsHold(Loaded(p), LakeTables(Loaded(p), lake[p].built))

\* What `import` writes of a live source, `verify` accepts of it: each type
\* it finds a name for is compatible with the one it was found for.
ImportHolds(cell, name, warehouse, import) ==
    LET mapped == {column \in DOMAIN import.schema :
                      import.schema[column] # "unmapped"}
    IN  ImportRefusal(cell, name, "imported", TRUE) = Accepted
          => SchemaRefusal([schema |-> [column \in mapped |->
                                          [type |-> import.schema[column]]]],
                           SourceTables(cell)[name], warehouse) = Accepted

ImportsHold(cell, native) ==
    \A name \in DOMAIN SourceTables(cell) :
        \A warehouse \in {IF name \in DOMAIN native THEN native[name]
                          ELSE NoWarehouse} :
            ImportHolds(cell, name, warehouse,
                        ImportedExport("imported", name,
                                       SourceTables(cell)[name], warehouse))

ImportedTypesHold ==
    \A p \in DOMAIN Profiles :
        Loads(p) /\ UnboundRefusal(Loaded(p), Profiles[p]) = Accepted
          => ImportsHold(Loaded(p), Native(Loaded(p), p))

\* Every view a record names was in the warehouse of its environment when it
\* was read: a model that a plan has not promoted has production's.
DiscoveredViewsExist ==
    records.catalog.kind # "none" =>
        \A model \in ToSet(records.catalog.catalog.models) :
            model.view \in DOMAIN WorldOf[records.catalog.world].views

\* ADR 0018 s3: a released model means the same on any later day: its ref is
\* still the commit that was released, whatever was pushed since.
ReleaseIsReproducible ==
    records.published.kind # "none" /\ records.published.source.kind = "git" =>
        Target(Outside.upstream, records.published.source.ref)
          = records.published.commit

\* The content of a pinned source, when a record passes for its snapshot.
PinnedSnapshot ==
    /\ SemanticFresh /\ records.semantic.kind = "commit"
    /\ Semantic0.kind = "git" /\ Semantic0.ref.form = "sha"

PinnedContent ==
    Merged(Outside.upstream.trees[<<Semantic0.ref.name, Semantic0.path>>]).content

\* A record that passes for the snapshot of a pinned source holds nothing of
\* another source, and, of a source with a path, all of it: reusing a record,
\* or a checkout that was narrowed for another path, never brings the content
\* of another commit or another path.
SnapshotIsOfItsSource ==
    PinnedSnapshot =>
        /\ records.semantic.content \subseteq PinnedContent
        /\ Semantic0.path # "" => records.semantic.content = PinnedContent

\* The same of every source, one without a path too: a pinned commit never
\* means something different on a re-sync (catalog/mod.rs 284-285).
SnapshotIsWhole == PinnedSnapshot => records.semantic.content = PinnedContent
=============================================================================
