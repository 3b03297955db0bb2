-------------------------------- MODULE Operator --------------------------------
(***************************************************************************)
(* What an operator does beside a cell: the secrets that a session needs,  *)
(* `status`, `attach`, the project file that mounts several cells behind   *)
(* one port, the manifest of a mesh, and the probe of the rows a server    *)
(* opens. Nothing here changes a cell.                                     *)
(*                                                                         *)
(* A storage is the scheme of its URI, "plain" for a local path, or        *)
(* "no bucket". `store` is what lies under it: [executions, latest], 0 for *)
(* an absent pointer. A profile's `s3` is [given, keys], its `gcs` is      *)
(* [extension, hmac, keyFile].                                             *)
(***************************************************************************)
EXTENDS Surface

CONSTANT Mountable      \* the names that are a segment of a URL

-----------------------------------------------------------------------------
(* Stores and the secrets they are read with.                              *)

\* `Store::for_storage`: the native client, and whom it authenticates as.
StoreRefusal(storage) ==
    FirstReason(<<
        <<"store: not a remote URI", storage = "plain">>,
        <<"store: no bucket", storage = "no bucket">>,
        <<"store: unsupported scheme",
          storage \notin {"plain", "no bucket", "s3", "gs"}>> >>)

\* `s3_secret_options`: a pair of keys, or the chain of the environment.
S3Secret(s3) == IF s3.keys THEN "keys" ELSE "chain"

\* `gcs_secret_options`: DuckDB's own reader takes the HMAC pair alone.
GcsSecretRefusal(gcs) ==
    IF gcs.extension = "" /\ ~gcs.hmac THEN "gcs: no HMAC pair" ELSE Accepted

GcsSecret(gcs) ==
    CASE gcs.extension = ""                -> "hmac"
      [] gcs.extension # "" /\ gcs.keyFile -> "key file"
      [] OTHER                             -> "ambient"

\* `store_secrets_needed`: by the schemes in play, and by what is configured.
SecretsNeeded(cell, profile) ==
    LET schemes == {profile.storage} \cup
            {source.text : source \in {s \in Range(cell.sources) :
                                SourceKind(s) \in {"raw", "cell"}}}
    IN  {scheme \in {"s3", "gs"} :
            \/ scheme \in schemes
            \/ scheme = "s3" /\ profile.s3.given
            \/ scheme = "gs" /\ (profile.gcs.extension # "" \/ profile.gcs.hmac)}

\* `create_gcs_secret`: the extension is loaded before its secret is made.
SessionRefusal(cell, profile) ==
    IF "gs" \notin SecretsNeeded(cell, profile) THEN Accepted
    ELSE FirstReason(<<
        <<"gcs: no such extension", profile.gcs.extension = "missing">>,
        <<GcsSecretRefusal(profile.gcs),
          GcsSecretRefusal(profile.gcs) # Accepted>> >>)

-----------------------------------------------------------------------------
(* `datamk status`.                                                        *)

\* `published_store`: a catalog that is attached has no executions.
PublishedRefusal(profile) ==
    IF DirectAttach(profile) THEN "status: catalog"
    ELSE StoreRefusal(profile.storage)

\* What an operator is told to run when nothing is published:
\* `latest_absent_line`, `no_latest_to_attach_message`.
Advice_run(cell) == {"run"}     \* mutant: whatever the cell builds

Advice(cell) ==
    IF BuildsNoSnapshot(cell) THEN {"verify", "context"} ELSE {"run"}

\* `discovered_status`: the record is the whole story.
DiscoveredStatus(cell, record, digest, profileName) ==
    LET stale == Staleness(record, digest, profileName)
    IN  [kind |-> "discovered", environment |-> cell.discover.environment,
         stale |-> stale,
         exports |-> IF stale = Accepted THEN Len(cell.interface) ELSE 0,
         supported |-> IF stale # Accepted THEN 0
                       ELSE Len(SelectSeq(cell.interface,
                                LAMBDA export : export.contract = "supported"))]

\* `declared_incremental_sources`, and what is known of each at LATEST:
\* `print_status_watermarks`. An artifact without the table has no mark.
Incrementals(cell) ==
    {name \in DOMAIN cell.sources : IsIncremental(cell.sources[name])}

MarkIn(marks, name) == IF name \in DOMAIN marks THEN {marks[name]} ELSE {}

\* `build_rollback_changes`: what is told of a source when LATEST moves.
RollbackChanges(cell, current, target) ==
    [name \in {n \in Incrementals(cell) :
                  /\ MarkIn(current, n) # {}
                  /\ MarkIn(target, n) # MarkIn(current, n)} |->
        IF MarkIn(target, name) = {} THEN <<"absent">>
        ELSE <<"rewinds", current[name], target[name]>>]

\* `status`: the range, the pointer, or what to do about its absence; and of
\* each upstream the execution that the run at LATEST read, if it is known.
PublishedStatus(cell, store, summaries, marks) ==
    [kind |-> "published", executions |-> store.executions,
     latest |-> store.latest,
     advice |-> IF store.latest = 0 THEN Advice(cell) ELSE {},
     watermarks |-> [name \in {n \in Incrementals(cell) : store.latest # 0} |->
                       MarkIn(marks, name)],
     upstreams |-> IF store.latest \notin DOMAIN summaries THEN {}
                   ELSE {<<u, ObservedOf(u, summaries[store.latest])>> :
                           u \in Upstreams(cell)}]

-----------------------------------------------------------------------------
(* `datamk attach`.                                                        *)

\* A native extension reads data, but cannot attach a remote catalog.
NativeGcs(profile) ==
    /\ ~DirectAttach(profile)
    /\ profile.storage = "gs"
    /\ profile.gcs.extension # ""

\* The execution to attach: 0 asks for LATEST.
AttachedExecution(store, execution) ==
    IF execution = 0 THEN store.latest ELSE execution

\* `attach`, up to its first write. `catalog` tells whether the file of a
\* direct attach is there; the recipe needs a secret, see `attach_sql`.
AttachRefusal(cell, profile, store, execution, download, catalog) ==
    LET direct == DirectAttach(profile)
        sqlRefusal == IF profile.storage = "gs" THEN GcsSecretRefusal(profile.gcs)
                      ELSE Accepted
    IN  FirstReason(<<
        <<"attach: discovered", cell.discover.on>>,
        <<"attach: download of no native profile", download /\ ~NativeGcs(profile)>>,
        <<"attach: execution of a catalog", direct /\ execution # 0>>,
        <<"attach: no catalog", direct /\ ~catalog>>,
        <<StoreRefusal(profile.storage),
          ~direct /\ StoreRefusal(profile.storage) # Accepted>>,
        <<"attach: no such execution",
          ~direct /\ execution # 0 /\ execution \notin store.executions>>,
        <<"attach: nothing published",
          ~direct /\ execution = 0 /\ store.latest = 0>>,
        <<"attach: native without download", NativeGcs(profile) /\ ~download>>,
        <<sqlRefusal, sqlRefusal # Accepted>> >>)

\* `attach_sql`: the secrets of what is attached, and where it is.
Recipe(profile, execution, download) ==
    [secrets |-> (IF profile.storage = "s3" THEN {<<"s3", S3Secret(profile.s3)>>}
                  ELSE {})
                 \cup (IF profile.storage = "gs"
                       THEN {<<"gs", GcsSecret(profile.gcs)>>} ELSE {}),
     load |-> profile.storage = "gs" /\ profile.gcs.extension # "",
     catalog |-> CASE DirectAttach(profile) -> <<"file">>
                   [] ~DirectAttach(profile) /\ download -> <<"copy", execution>>
                   [] OTHER -> <<"remote", execution>>,
     override |-> download]

-----------------------------------------------------------------------------
(* The project file.                                                       *)

\* `is_project_file`: the top-level key decides.
FileKind(keys) ==
    CASE "datamk" \in keys -> "project"
      [] "datamk" \notin keys /\ "cell" \in keys -> "cell"
      [] OTHER -> "neither"

\* `project::discover`: the first of the two that is there.
DefaultFile(present) ==
    SelectSeq(<<"datamk.yaml", "cell.yaml">>, LAMBDA name : name \in present)

\* `project::load`: every mistake of the author, before a cell is opened.
EntryRefusal(entry) ==
    FirstReason(<<
        <<"project: no cell definition", entry.at = "missing">>,
        <<"project: mount is no segment",
          entry.mount # "" /\ entry.mount \notin Mountable>> >>)

ProjectRefusal(project) ==
    FirstRefusal(<<
        IF FileKind(project.keys) = "project" THEN Accepted ELSE "project: a cell",
        IF project.version = 1 THEN Accepted ELSE "project: version",
        IF project.entries # <<>> THEN Accepted ELSE "project: no cells">>
        \o Verdicts(EntryRefusal, project.entries))

\* The profile of an entry: the command's, its own, the file's, `local`.
ProfileOf(project, entry, cli) ==
    CASE cli # "" -> cli
      [] cli = "" /\ entry.profile # "" -> entry.profile
      [] cli = "" /\ entry.profile = "" /\ project.profile # "" -> project.profile
      [] OTHER -> "local"

MountName(entry, cell) == IF entry.mount # "" THEN entry.mount ELSE cell.name

\* `mount_project`: every cell that is listed opens, one after the other, or
\* the server does not start; no two answer at one URL.
MountsRefusal(project, opens, cellAt) ==
    LET names == Verdicts(LAMBDA entry : MountName(entry, cellAt[entry]),
                          project.entries)
        derived(entry) ==
            IF MountName(entry, cellAt[entry]) \in Mountable THEN Accepted
            ELSE "project: name is no segment"
        opened(entry) == Then(opens[entry], derived(entry))
    IN  Then(FirstRefusal(Verdicts(opened, project.entries)),
             IF IsInjective(names) THEN Accepted ELSE "project: mounted twice")

-----------------------------------------------------------------------------
(* `datamk mesh emit`.                                                     *)

\* `emit`, `census_entries`: one source of names; a census needs a template.
MeshRefusal(cells, prefix, template) ==
    FirstReason(<<
        <<"mesh: two sources of names", cells /\ prefix # "">>,
        <<"mesh: no source of names", ~cells /\ prefix = "">>,
        <<"mesh: no template", prefix # "" /\ template = "">>,
        <<"mesh: template without a name", prefix # "" /\ template = "plain">>,
        <<StoreRefusal(prefix), prefix # "" /\ StoreRefusal(prefix) # Accepted>> >>)

\* `summarize`: a cell by its name and URL, and what its document says; a
\* fetch that failed, or a version that is not known, adds nothing.
Summarized(name, fetched) ==
    LET known == {f \in fetched : f.version \in 1..4}
    IN  [name |-> name,
         description |-> {f.document.description : f \in known},
         exports |-> UNION {{[name |-> e.name, route |-> e.route,
                              contract |-> e.contract, bound |-> e.binding # {}]
                                : e \in f.document.exports} : f \in known},
         digest |-> {f.etag : f \in known}]

-----------------------------------------------------------------------------
(* `probe_exports`: what a server measures of the rows behind each route    *)
(* when it opens them. Rows stand in the order of their values, with NULL   *)
(* last.                                                                    *)

ProbeDistinctMax == 50
Dated == {"date", "timestamp"}
Textual == {"string", "varchar", "text"}

GrainOf(export, types) ==
    {name \in ToSet(export.grain) \cap DOMAIN export.schema :
        export.schema[name].type \in types}

ValuesOf(table, name) ==
    {row[ColumnOf(table, name)] : row \in ToSet(table.rows)} \ {NULL}

ProbeOf_values(export, table, includeValues) ==   \* mutant: --no-data as well
    [rows |-> Len(table.rows), coverage |-> {}, nullRows |-> <<>>,
     values |-> [name \in GrainOf(export, Textual) |->
                   [complete |-> TRUE, values |-> ValuesOf(table, name)]],
     example |-> {}]

\* One route: what is a value is left out where no data is served.
ProbeOf(export, table, includeValues) ==
    LET few(name) == Cardinality(ValuesOf(table, name)) <= ProbeDistinctMax
        example == [name \in ToSet(export.grain) |->
                       table.rows[1][ColumnOf(table, name)]]
    IN  [rows |-> Len(table.rows),
         coverage |-> {name \in GrainOf(export, Dated) :
                          ValuesOf(table, name) # {}},
         values |-> [name \in {n \in GrainOf(export, Textual) : includeValues} |->
             [complete |-> few(name),
              values |-> IF few(name) THEN ValuesOf(table, name) ELSE {}]],
         nullRows |-> [name \in ToSet(export.grain) |-> Nulls(table, name)],
         example |-> IF /\ includeValues /\ export.grain # <<>>
                        /\ table.rows # <<>> /\ NULL \notin Range(example)
                     THEN {example} ELSE {}]

\* A table that cannot be read leaves no probe behind, and stops nothing.
Probes(cell, tables, includeValues) ==
    LET exports == {export \in MountedRoutes(cell) :
                       SourceObject(export) \in DOMAIN tables}
    IN  [route \in {Route(export) : export \in exports} |->
            LET export == CHOOSE e \in exports : Route(e) = route
            IN  ProbeOf(export, tables[SourceObject(export)], includeValues)]
=============================================================================
