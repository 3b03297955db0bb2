------------------------------- MODULE Discovery -------------------------------
(***************************************************************************)
(* `discover:`: the models a SQLMesh environment has deployed become the   *)
(* interface of a cell. `datamk sync` selects and resolves them into a     *)
(* record under .cell/, and refuses when a supported one has moved; every  *)
(* other command materializes the interface from that record, while it is  *)
(* fresh for the cell.yaml and the profile at hand.                        *)
(***************************************************************************)
EXTENDS SqlMesh

CONSTANTS
    Mangled,    \* a function: <<schema, table>> to the export's name
    Dotted      \* a function: <<schema, table>> to `schema.table`

\* A record that is not there.
None == [kind |-> "none"]

ExcludedKinds == {"EXTERNAL", "SEED"}

\* `selected`: the criteria that are given must all agree, and an exclusion
\* has the last word. Without kinds, what SQLMesh does not build is out.
Selected(discover, model) ==
    LET select == discover.select
        exclude == discover.exclude
        agrees(given, own) == given = {} \/ given \cap own # {}
    IN  /\ IF select.kinds = {} THEN model.kind \notin ExcludedKinds
           ELSE model.kind \in select.kinds
        /\ agrees(select.tags, model.tags)
        /\ agrees(select.schemas, {model.object[1]})
        /\ agrees(select.models, {model.object})
        /\ exclude.tags \cap model.tags = {}
        /\ model.object[1] \notin exclude.schemas
        /\ model.object \notin exclude.models

\* `override_for`: the override of a model; a sequence of none or one.
OverrideFor(discover, object) ==
    SelectSeq(discover.overrides, LAMBDA override : override.model = object)

\* `named_connection`, `attach_state`: the state store is a file or Postgres.
StateRefusal(discover, profile) ==
    FirstRefusal(<<
        NamedRefusal(profile, discover.state),
        NamedRefusal(profile, discover.warehouse),
        IF discover.state \in DOMAIN profile.connections
             /\ profile.connections[discover.state].type
                  \in {"bigquery", "snowflake"}
        THEN "discover: state store not supported" ELSE Accepted>>)

\* `read_sqlmesh`, the columns of a model: as declared, else the warehouse's.
DeployedColumns(model, told) ==
    IF model.columns # <<>> THEN model.columns ELSE told.columns

\* The description of a column: the model's own words, then the warehouse's.
DescribedBy(model, told) ==
    [column \in DOMAIN DeployedColumns(model, told) |->
        CASE column \in DOMAIN model.descriptions -> "sqlmesh"
          [] column \in DOMAIN told.described     -> "warehouse"
          [] OTHER                                -> ""]

Deployed(store, model, told) ==
    [object       |-> model.object,
     view         |-> model.view,
     name         |-> model.name,
     dataHash     |-> model.dataHash,
     fingerprint  |-> model.identifier,
     columns      |-> DeployedColumns(model, told),
     described    |-> DescribedBy(model, told),
     columnsFrom  |-> IF model.columns # <<>> THEN "sqlmesh" ELSE "warehouse",
     description  |-> IF model.description # "" THEN model.description
                      ELSE told.table,
     grain        |-> model.grain,
     parents      |-> model.parents,
     interval     |-> IntervalOf(store, model)]

\* The models of an environment that the cell selects.
SelectedModels(discover, store) ==
    LET models == StateModels(store, store.environments[discover.environment])
    IN  Picked(models, {n \in DOMAIN models : Selected(discover, models[n])})

\* An override whose model is not selected promises an export in vain.
Orphaned(discover, models) ==
    {override \in ToSet(discover.overrides) :
        override.model \notin {model.object : model \in ToSet(models)}}

\* The positions of the models whose columns nobody tells.
Unresolvable(models, c, warehouse) ==
    {n \in DOMAIN models :
        LET told == ReadColumns(c, models[n].view, warehouse)
        IN  DeployedColumns(models[n], told) = <<>>}

\* `read_sqlmesh`, up to the catalog; "retry" is not a failure.
ReadRefusal(discover, store, c, warehouse) ==
    LET env == store.environments[discover.environment]
        selected(models) == FirstRefusal(<<
            IF models = <<>> THEN "discover: nothing matched" ELSE Accepted,
            IF discover.onMissing = "fail" /\ Orphaned(discover, models) # {}
            THEN "discover: override without a model" ELSE Accepted,
            ColumnsRefusal(c, models, warehouse),
            IF discover.onUnresolvable = "fail"
                 /\ Unresolvable(models, c, warehouse) # {}
            THEN "discover: no resolvable columns" ELSE Accepted>>)
    IN  Then(VersionsRefusal(store),
        Then(EnvironmentRefusal(store, discover.environment),
        IF InFlight(env) THEN "retry"
        ELSE Then(ModelsRefusal(store, env),
                  selected(SelectedModels(discover, store)))))

DeployedCatalog(discover, store, c, warehouse) ==
    LET selected == SelectedModels(discover, store)
        kept == Picked(selected, DOMAIN selected
                                   \ Unresolvable(selected, c, warehouse))
    IN  [plan   |-> store.environments[discover.environment].plan,
         models |-> [n \in 1..Len(kept) |->
                       Deployed(store, kept[n],
                                ReadColumns(c, kept[n].view, warehouse))]]

-----------------------------------------------------------------------------
(* `select::materialize`. *)

\* `export_names`: given, or mangled from the object; names are unique.
ExportName(discover, object) ==
    LET override == OverrideFor(discover, object)
    IN  IF override # <<>> /\ override[1].as # "" THEN override[1].as
        ELSE Mangled[object]

NamesRefusal(discover, models) ==
    LET name(n) == ExportName(discover, models[n].object)
    IN  FirstReason(<<
        <<"discover: no valid export name",
          \E n \in DOMAIN models : name(n) \notin Identifiers>>,
        <<"discover: two models, one name",
          \E m, n \in DOMAIN models : m # n /\ name(m) = name(n)>> >>)

Major(discover, object) ==
    LET override == OverrideFor(discover, object)
    IN  IF override = <<>> THEN 1 ELSE override[1].major

\* `lineage`: the routes a model is derived from, among those that are here.
Lineage(discover, model, models) ==
    {<<ExportName(discover, other.object), Major(discover, other.object)>> :
        other \in {other \in ToSet(models) : other.name \in model.parents}}

\* The export of a model. What the author overrides is the author's.
DiscoveredExport(discover, model, models) ==
    LET override == OverrideFor(discover, model.object)
        given(field, otherwise) ==
            IF override # <<>> /\ override[1][field] # ""
            THEN override[1][field] ELSE otherwise
        name == ExportName(discover, model.object)
    IN  [name        |-> name,
         major       |-> Major(discover, model.object),
         source      |-> "",
         bind        |-> name,
         grain       |-> IF override # <<>> /\ override[1].grain # <<>>
                         THEN override[1].grain ELSE model.grain,
         schema      |-> [column \in DOMAIN model.columns |->
                            [yaml |-> "mapping", keys |-> {"type"},
                             type |-> model.columns[column], unit |-> "",
                             description |->
                                IF model.described[column] = "" THEN ""
                                ELSE "fits",
                             from |-> model.described[column]]],
         visibility  |-> given("visibility", "discoverable"),
         contract    |-> given("contract", "experimental"),
         description |-> given("description", model.description),
         docs        |-> IF override # <<>> THEN override[1].docs
                         ELSE [at |-> "", size |-> 0, utf8 |-> TRUE],
         model       |-> Dotted[model.object],
         from        |-> IF override # <<>> /\ override[1].description # ""
                         THEN "cell.yaml" ELSE "sqlmesh",
         parents     |-> Lineage(discover, model, models)]

\* The source behind it. Only a BigQuery path names its project; a sync's
\* preview does not.
DiscoveredSource(discover, model, keepCatalog) ==
    [yaml |-> "mapping", keys |-> {"connection", "table"}, cursor |-> "",
     connection |-> discover.warehouse,
     path |-> [project |-> IF keepCatalog THEN model.view.catalog ELSE "",
               dataset |-> model.view.schema, table |-> model.view.table,
               quoted |-> FALSE],
     text |-> "plain", placeholders |-> {}, version |-> 0]

Materialized(cell, catalog, keepCatalog) ==
    LET discover == cell.discover
        models == catalog.models
        of(name) == CHOOSE model \in ToSet(models) :
                        ExportName(discover, model.object) = name
    IN  [cell EXCEPT
           !.interface = Verdicts(LAMBDA model :
               DiscoveredExport(discover, model, models), models),
           !.sources = [name \in {ExportName(discover, model.object)
                                    : model \in ToSet(models)} |->
               DiscoveredSource(discover, of(name), keepCatalog)]]

-----------------------------------------------------------------------------
(* `sync_discover` and the record. *)

\* The version of each supported model, as cell.yaml has it now.
Pins(discover) ==
    [object \in {override.model : override \in
                   {o \in ToSet(discover.overrides) : o.contract = "supported"}} |->
        OverrideFor(discover, object)[1].version]

\* The first model of an object; a sequence of none or one.
ModelOf(catalog, object) ==
    LET at == {n \in DOMAIN catalog.models : catalog.models[n].object = object}
        first == CHOOSE n \in at : \A m \in at \ {n} : n < m
    IN  IF at = {} THEN <<>> ELSE <<catalog.models[first]>>

\* ADR 0016 s6: a supported model whose data has changed since the record
\* was written needs another version. The record may be another profile's
\* or another cell.yaml's; one without the model holds nothing against it.
RatchetRefusal_fresh(previous, discover, catalog, digest) ==
    LET pins == Pins(discover)      \* mutant: a stale record is not looked at
    IN  IF previous.kind = "none" \/ previous.digest # digest THEN Accepted
        ELSE FirstReason(<< <<"discover: supported model moved",
            \E object \in DOMAIN pins \cap DOMAIN previous.pins :
                /\ ModelOf(previous.catalog, object) # <<>>
                /\ ModelOf(catalog, object) # <<>>
                /\ ModelOf(previous.catalog, object)[1].dataHash
                     # ModelOf(catalog, object)[1].dataHash
                /\ pins[object] = previous.pins[object]>> >>)

RatchetRefusal(previous, discover, catalog, digest) ==
    LET pins == Pins(discover)
    IN  IF previous.kind = "none" THEN Accepted
        ELSE FirstReason(<< <<"discover: supported model moved",
            \E object \in DOMAIN pins \cap DOMAIN previous.pins :
                /\ ModelOf(previous.catalog, object) # <<>>
                /\ ModelOf(catalog, object) # <<>>
                /\ ModelOf(previous.catalog, object)[1].dataHash
                     # ModelOf(catalog, object)[1].dataHash
                /\ pins[object] = previous.pins[object]>> >>)

\* The checks of a sync on what it is about to record: a page that does not
\* load is found here, not by the next command.
SyncRefusal(cell, previous, catalog, digest) ==
    FirstRefusal(<<
        RatchetRefusal(previous, cell.discover, catalog, digest),
        NamesRefusal(cell.discover, catalog.models),
        IF NamesRefusal(cell.discover, catalog.models) = Accepted
        THEN DocsRefusal(Materialized(cell, catalog, FALSE)) ELSE Accepted>>)

CatalogRecord(digest, profile, discover, catalog) ==
    [kind |-> "catalog", digest |-> digest, profile |-> profile,
     pins |-> Pins(discover), catalog |-> catalog]

Staleness_profile(record, digest, profile) ==   \* mutant: the profile alone
    FirstReason(<<
        <<"record: missing", record.kind = "none">>,
        <<"record: another profile",
          record.kind # "none" /\ record.profile # profile>> >>)

\* `fresh_for`, of this record and of its siblings: why one is not used.
Staleness(record, digest, profile) ==
    FirstReason(<<
        <<"record: missing", record.kind = "none">>,
        <<"record: cell.yaml changed",
          record.kind # "none" /\ record.digest # digest>>,
        <<"record: another profile",
          record.kind # "none" /\ record.profile # profile>> >>)

Fresh(record, digest, profile) == Staleness(record, digest, profile) = Accepted

\* `config::load`, the discovered half: the interface of a cell whose
\* record is stale is empty, and every command decides what that means.
LoadedInterface(cell, record, digest, profile, profileName) ==
    IF cell.discover.on /\ Fresh(record, digest, profileName)
    THEN Materialized(cell, record.catalog,
             cell.discover.warehouse \in DOMAIN profile.connections
               /\ profile.connections[cell.discover.warehouse].type = "bigquery")
    ELSE cell

LoadedRefusal(cell, record, digest, profileName) ==
    IF ~(cell.discover.on /\ Fresh(record, digest, profileName)) THEN Accepted
    ELSE LET names == NamesRefusal(cell.discover, record.catalog.models)
             made == Materialized(cell, record.catalog, FALSE)
         IN  IF names # Accepted THEN names
             ELSE FirstRefusal(<<DocsRefusal(made), AppliesToRefusal(made)>>)
=============================================================================
