-------------------------------- MODULE Surface --------------------------------
(***************************************************************************)
(* What a cell shows: the context document, and the doors it and the rows  *)
(* behind it are read through. `datamk context` writes the document to a   *)
(* file; the server gives it at /context, with /openapi.json and a route   *)
(* per export; MCP gives it as tools and resources. All of them are meant  *)
(* to say the same thing of the same routes.                               *)
(*                                                                         *)
(* A document is a record; what one door leaves out of it is empty there.  *)
(***************************************************************************)
EXTENDS Contract

CONSTANTS
    TermKey,       \* a function: tokens and names, to their `term_key`
    Addressable    \* the names that a `terms` token can spell

ASSUME AddressableAssumption == Addressable \subseteq DOMAIN TermKey

-----------------------------------------------------------------------------
(* The routes. Every door starts from the discoverable ones.                *)

\* `discoverable_routes`; their order is of no consequence.
Routes(cell) == Discoverable(cell)

RouteKeys(cell) == {Route(export) : export \in Routes(cell)}

MountedRoutes_all(cell) == Routes(cell)    \* mutant: the bound ones as well

\* `mounted_routes`: a bound export has no rows of the cell's own.
MountedRoutes(cell) == {export \in Routes(cell) : ~IsBound(export)}

ServedHere(dataMounted, cell) == dataMounted /\ MountedRoutes(cell) # {}

-----------------------------------------------------------------------------
(* The interface of a document.                                            *)

\* A column: its own description, or, of a bound export, the warehouse's.
ColumnDoc(export, name, described) ==
    LET own == export.schema[name]
        theirs == IF IsBound(export) /\ export.bind \in DOMAIN described
                     /\ name \in DOMAIN described[export.bind]
                  THEN described[export.bind][name] ELSE ""
        borrowed == own.description = "" /\ theirs \notin {"", "blank"}
    IN  [type |-> own.type, unit |-> own.unit,
         description |-> IF borrowed THEN theirs ELSE own.description,
         from |-> CASE borrowed -> "warehouse"
                    [] own.description = "" -> ""
                    [] "from" \in DOMAIN own -> own.from
                    [] OTHER -> "cell.yaml"]

\* `metric_target_set`: the datasets a metric is over; all that are bound
\* when it names none.
MetricTargets(metric, model, index) ==
    LET names == {dataset.name : dataset \in ToSet(model.datasets)}
        refers == Ansi(metric)[1].refers \cap names
    IN  IF refers # {} THEN refers
        ELSE {name \in names : RouteFor(index, model, name) # <<>>}

\* `metrics_for_route_dataset`: a metric is told in full at a route that has
\* all of its datasets, else it is a reference.
MetricsAt(model, dataset, route, index) ==
    LET here(name) == route \in ToSet(RouteFor(index, model, name))
        over == {metric \in ToSet(model.metrics) :
                   /\ Ansi(metric) # <<>>
                   /\ dataset \in MetricTargets(metric, model, index)}
        full(metric) == \A name \in MetricTargets(metric, model, index) : here(name)
    IN  [full |-> {metric.name : metric \in {m \in over : full(m)}},
         refs |-> {metric.name : metric \in {m \in over : ~full(m)}}]

\* `relationship_doc`: the first route of each end; <<>> for an unbound one.
RelationshipDoc(rel, model, index) ==
    LET first(name) == IF RouteFor(index, model, name) = <<>> THEN <<>>
                       ELSE FirstRoute(RouteFor(index, model, name))
    IN  [name |-> rel.name, from |-> rel.from, to |-> rel.to,
         fromRoute |-> first(rel.from), toRoute |-> first(rel.to)]

\* `dataset_doc`: a dataset, with every relationship that touches it.
DatasetDoc(model, dataset, index) ==
    [model |-> model.name, dataset |-> dataset.name,
     primaryKey |-> dataset.primaryKey,
     routes |-> ToSet(RouteFor(index, model, dataset.name)),
     fields |-> {field.name : field \in ToSet(dataset.fields)},
     relationships |-> {RelationshipDoc(rel, model, index) :
         rel \in {r \in ToSet(model.relationships) :
                    dataset.name \in {r.from, r.to}}}]

\* `route_semantic_docs`. What `verify` found of it is laid over it later.
RouteSemantics(models, route, index) ==
    {[doc |-> DatasetDoc(pair[1], pair[2], index),
      metrics |-> MetricsAt(pair[1], pair[2].name, route, index),
      verified |-> {}] :
        pair \in DatasetsFor(index, models, route)}

\* The statuses a record has for some of a model's items.
Statuses(entries, model, names) ==
    {<<entry[2], entry[3]>> :
        entry \in {e \in entries : e[1] = model /\ e[2] \in names}}

\* `overlay_semantic_dataset`: what the record of `verify`, None when it is
\* not fresh, says of a dataset at a route, <<>> for none, and of the fields,
\* relationships and metrics that are told of it.
Verified(record, doc, route, metrics) ==
    LET outcome == record.outcome
        key == <<doc.model, doc.dataset, route>>
        at == CASE key \in DOMAIN outcome.datasets -> {outcome.datasets[key]}
                [] route = <<>> /\ <<key[1], key[2]>> \in outcome.unbound
                     -> {[key |-> "unbound", fields |-> <<>>]}
                [] OTHER -> {}
    IN  IF record.kind = "none" THEN {}
        ELSE {[dataset |-> {[check EXCEPT !.fields =
                                Restrict(@, DOMAIN @ \cap doc.fields)] : check \in at},
               relationships |-> Statuses(outcome.relationships, doc.model,
                                    {rel.name : rel \in doc.relationships}),
               metrics |-> Statuses(outcome.metrics, doc.model, metrics)]}

\* A document of an export is of the route it stands at.
Overlaid(semantics, route, record) ==
    {[s EXCEPT !.verified = Verified(record, s.doc, route, s.metrics.full)]
       : s \in semantics}

\* `semantic_model_doc`: a whole model, its metrics by dataset as well. Of a
\* dataset at several routes it tells what was found at the first.
ModelDoc(model, index, record) ==
    LET metrics(dataset) ==
            {metric.name : metric \in {m \in ToSet(model.metrics) : Ansi(m) # <<>>
                /\ dataset.name \in MetricTargets(m, model, index)}}
        first(dataset) == LET routes == RouteFor(index, model, dataset.name)
                          IN  IF routes = <<>> THEN <<>> ELSE FirstRoute(routes)
    IN  [name |-> model.name,
         datasets |-> {[doc |-> DatasetDoc(model, dataset, index),
                        metrics |-> metrics(dataset),
                        verified |-> Verified(record,
                            DatasetDoc(model, dataset, index), first(dataset),
                            metrics(dataset))]
                         : dataset \in ToSet(model.datasets)},
         relationships |-> {RelationshipDoc(rel, model, index) :
                              rel \in ToSet(model.relationships)},
         metrics |-> {metric.name : metric \in ToSet(model.metrics)},
         statuses |-> IF record.kind = "none" THEN {}
             ELSE {[relationships |-> Statuses(record.outcome.relationships,
                        model.name, {r.name : r \in ToSet(model.relationships)}),
                    metrics |-> Statuses(record.outcome.metrics,
                        model.name, {m.name : m \in ToSet(model.metrics)})]}]

\* `semantic_models_index`.
ModelsIndex(models, index) ==
    {[name |-> model.name, datasets |-> Len(model.datasets),
      bound |-> Cardinality({ds \in ToSet(model.datasets) :
                               RouteFor(index, model, ds.name) # <<>>}),
      metrics |-> Len(model.metrics)] : model \in ToSet(models)}

Lookup_all(models) ==    \* mutant: a name no token can spell is listed
    UNION {{[kind |-> "dataset", model |-> model.name, dataset |-> ds.name,
             field |-> "", token |-> ds.name] : ds \in ToSet(model.datasets)}
             : model \in ToSet(models)}

\* `semantic_lookup_entries`: what a `terms` token can find in the models. A
\* dataset no token can spell takes its fields with it.
Lookup(models) ==
    LET spelled(kind, model, dataset, field, token) ==
          IF token \in Addressable
          THEN {[kind |-> kind, model |-> model, dataset |-> dataset,
                 field |-> field, token |-> token]} ELSE {}
        datasets(model) == {ds \in ToSet(model.datasets) : ds.name \in Addressable}
    IN  UNION {
          spelled("model", model.name, "", "", model.name)
          \cup (UNION {spelled("dataset", model.name, ds.name, "", ds.name)
                         : ds \in datasets(model)})
          \cup (UNION {UNION {spelled("field", model.name, ds.name, f.name, f.name)
                                : f \in ToSet(ds.fields)} : ds \in datasets(model)})
          \cup (UNION {spelled("metric", model.name, "", "", m.name)
                         : m \in ToSet(model.metrics)})
          : model \in ToSet(models)}

\* `resolve_semantic_matches`.
SemanticMatches(tokens, lookup) ==
    {match \in tokens \X lookup :
        TermKey[match[1]] = TermKey[match[2].token]}

\* `query_block`, `binding_block`: where the rows of an export are.
QueryBlock(export) == [filters |-> export.grain]

BindingBlock(cell, export) ==
    LET source == cell.sources[export.bind]
        kind == IF export.bind \in DOMAIN cell.sources
                THEN SourceKind(source) ELSE "cell"
    IN  [source |-> export.bind,
         object |-> CASE kind = "raw"   -> {source.text}
                      [] kind = "table" -> {source.path}
                      [] OTHER          -> {},
         connection |-> IF kind \in {"table", "query"}
                        THEN source.connection ELSE ""]

\* `docs_entries`: a page is named by what it documents.
DocsEntries(cell, exports) ==
    {<<"cell", <<>>, cell.docs>>}
    \cup {<<"route", Route(export), export.docs>> : export \in exports}
    \cup {<<"definition", term.name, term.docs>> : term \in ToSet(Terms(cell))}

Documented(entries) == {entry \in entries : entry[3].at # ""}

\* `definition_doc`.
DefinitionDoc(term) ==
    [name |-> term.name, aliases |-> ToSet(term.aliases),
     description |-> term.description, appliesTo |-> term.appliesTo]

\* The upstream cells, each version once.
Upstreams(cell) ==
    {[reference |-> source.cell, version |-> source.version] :
        source \in {s \in Range(cell.sources) : SourceKind(s) = "cell"}}

\* One export of the interface. What it was derived from is told as the
\* record has it.
ExportDoc(cell, export, described, models, index) ==
    [name |-> export.name, route |-> Route(export), contract |-> export.contract,
     description |-> export.description, grain |-> export.grain,
     schema |-> [name \in DOMAIN export.schema |->
                    ColumnDoc(export, name, described)],
     query |-> IF IsBound(export) THEN {} ELSE {QueryBlock(export)},
     binding |-> IF IsBound(export) THEN {BindingBlock(cell, export)} ELSE {},
     dependsOn |-> IF "parents" \in DOMAIN export THEN export.parents ELSE {},
     semantic |-> RouteSemantics(models, Route(export), index),
     check |-> {}, columns |-> {}, probe |-> {}]

\* `interface`: the models are restricted to the routes before any of it.
Interface(cell, described, models) ==
    LET index == RestrictedTo(Index(models, cell.interface), RouteKeys(cell))
        exports == Routes(cell)
    IN  [description |-> cell.description,
         exports |-> {ExportDoc(cell, export, described, models, index)
                        : export \in exports},
         upstreams |-> Upstreams(cell),
         definitions |-> Verdicts(DefinitionDoc, Terms(cell)),
         docs |-> Documented(DocsEntries(cell, exports)),
         models |-> ModelsIndex(models, index),
         lookup |-> Lookup(models)]

\* `interface_digest`: what a release or an edit moves it by. The words of a
\* definition, the pages' content and the semantic prose do not.
InterfaceDigest(interface, dataMounted, cell) ==
    [description |-> interface.description,
     exports |-> {[e EXCEPT !.semantic = {}, !.schema =
                     [name \in DOMAIN e.schema |->
                        [type |-> e.schema[name].type, unit |-> e.schema[name].unit,
                         description |-> e.schema[name].description]]]
                    : e \in interface.exports},
     upstreams |-> interface.upstreams,
     definitions |-> Verdicts(LAMBDA d : <<d.name, d.aliases, d.appliesTo>>,
                              interface.definitions),
     docs |-> {<<entry[1], entry[2]>> : entry \in interface.docs},
     served |-> ServedHere(dataMounted, cell),
     lookup |-> interface.lookup]

-----------------------------------------------------------------------------
(* The document: `assemble`.                                               *)

Notes(status, virtual, directAttach) ==
    CASE status # "draft" -> {}
      [] virtual -> {"virtual cell"}
      [] ~virtual /\ directAttach -> {"direct attach"}
      [] OTHER -> {"nothing built"}

\* `empty_claim_notes`, of one export and its measurement.
ClaimNotes(cell, export, described, measurement) ==
    Contradictions(EmptyClaims(export,
        IF export.bind \in DOMAIN described THEN described[export.bind] ELSE <<>>,
        Terms(cell)), measurement)

\* `observed_upstreams_from`, and their overlay: an upstream is found by its
\* reference, whatever its version; the first source that names it tells.
Observed(sources, summary) ==
    [n \in DOMAIN sources |->
        [reference |-> sources[n].reference,
         execution |-> IF sources[n].name \in DOMAIN summary
                       THEN summary[sources[n].name] ELSE 0]]

ObservedOf(upstream, observed) ==
    LET n == SelectInSeq(observed, LAMBDA o : o.reference = upstream.reference)
    IN  IF n = 0 THEN 0 ELSE observed[n].execution

\* `assemble`. `provenance` is the execution a run summary stands for, 0 for
\* none; `check` and `semantic` are the records of `verify`, each None when it
\* is not fresh.
Assemble(interface, provenance, check, semantic, probes, virtual, direct, observed) ==
    LET status == CASE provenance # 0 -> "verified"
                    [] provenance = 0 /\ check.kind # "none" -> "verified_at_source"
                    [] OTHER -> "draft"
        measured(route) == IF check.kind # "none" /\ route \in DOMAIN check.exports
                           THEN {check.exports[route]} ELSE {}
        probed(route) == IF route \in DOMAIN probes THEN {probes[route]} ELSE {}
    IN  [status |-> status,
         grainVerified |-> /\ status # "draft"
                           /\ \A e \in interface.exports : e.grain # <<>>,
         description |-> interface.description,
         exports |-> {[e EXCEPT !.check = measured(e.route),
                                !.probe = probed(e.route),
                                !.semantic = Overlaid(@, e.route, semantic)]
                        : e \in interface.exports},
         upstreams |-> {<<u, ObservedOf(u, observed)>> : u \in interface.upstreams},
         definitions |-> interface.definitions,
         docs |-> interface.docs,
         models |-> interface.models, lookup |-> interface.lookup,
         matches |-> {}, missing |-> {}, model |-> {}, included |-> {},
         notes |-> Notes(status, virtual, direct)]

\* `narrow_to`: one export, and the definitions that could be about it.
NarrowedTo(document, route) ==
    LET kept == SelectSeq(document.definitions, LAMBDA d :
            d.appliesTo = {}
              \/ \E entry \in d.appliesTo : AppliesToRoute(entry, route))
        terms == {d.name : d \in ToSet(kept)}
    IN  [document EXCEPT
           !.exports = {e \in @ : e.route = route},
           !.definitions = kept,
           !.docs = {entry \in @ : \/ entry[1] = "cell"
                                   \/ entry[1] = "route" /\ entry[2] = route
                                   \/ entry[1] = "definition" /\ entry[2] \in terms},
           !.model = {}]

\* The definition a token names: in every spelling, the first one.
DefinitionOf(token, definitions) ==
    SelectInSeq(definitions, LAMBDA d :
        TermKey[token] \in {name.key : name \in {d.name} \cup d.aliases})

\* `narrow_terms`: from all definitions and all pages, whatever a route kept.
NarrowedTerms(document, tokens, definitions, docs) ==
    LET hit(token) == DefinitionOf(token, definitions)
        matched == {hit(token) : token \in tokens} \ {0}
        semantic == SemanticMatches(tokens, document.lookup)
        terms == {definitions[n].name : n \in matched}
    IN  [document EXCEPT
           !.definitions = SelectSeq(definitions, LAMBDA d : d.name \in terms),
           !.docs = {entry \in docs : entry[1] = "definition" /\ entry[2] \in terms},
           !.matches = semantic,
           !.missing = {token \in tokens :
                          hit(token) = 0 /\ \A m \in semantic : m[1] # token}]

\* `ExportDoc::to_index`: identity and affordances; the names of columns.
ToIndex(e) == [e EXCEPT !.schema = <<>>, !.check = {}, !.probe = {},
                        !.semantic = {s.doc.dataset : s \in @},
                        !.columns = DOMAIN e.schema]

IndexView(document) == [document EXCEPT !.exports = {ToIndex(e) : e \in @}]

\* `inline_docs`, `inline_check`: a section is named once it is there.
Including(document, sections) ==
    [document EXCEPT
       !.included = sections,
       !.exports = IF "check" \in sections THEN @
                   ELSE {[e EXCEPT !.check =
                            {[m EXCEPT !.columns = <<>>] : m \in @}] : e \in @}]

-----------------------------------------------------------------------------
(* The doors of the server.                                                *)

MaxTerms == 64

\* `validate_context_query`. A query is [params, terms, model, view, include].
QueryRefusal(query) ==
    FirstReason(<<
        <<"400: unknown parameter",
          ~(query.params \subseteq {"include", "terms", "model", "view"})>>,
        <<"400: unknown section", ~(query.include \subseteq {"docs", "check"})>>,
        <<"400: bad token", ~(query.terms \subseteq Addressable)>>,
        <<"400: too many terms", Cardinality(query.terms) > MaxTerms>>,
        <<"400: unknown view", query.view \notin {"", "full", "index"}>> >>)

\* `authorize`: an access is [shareable, roles]; principals give each token
\* its roles; "" is no token.
Authorize(access, principals, token) ==
    FirstReason(<<
        <<"403: not shareable", ~access.shareable>>,
        <<"401: no token", access.roles # {} /\ token = "">>,
        <<"401: unknown token",
          access.roles # {} /\ token \notin DOMAIN principals>>,
        <<"403: role",
          /\ access.roles # {} /\ token \in DOMAIN principals
          /\ principals[token] \cap access.roles = {}>> >>)

\* `SourceCheck::from_record`, and `withhold_values` of a server without data:
\* what a record tells of the routes that are listed.
Told(check, routes, dataMounted) ==
    LET withheld(measured) ==
          [columns |-> [name \in DOMAIN measured.columns |->
                           [top |-> 0] ++ measured.columns[name]]] ++ measured
    IN  IF check.kind = "none" THEN check
        ELSE [kind |-> check.kind, exports |->
                [route \in DOMAIN check.exports \cap routes |->
                    IF dataMounted THEN check.exports[route]
                    ELSE withheld(check.exports[route])]]

\* A mounted cell: what `build_state` keeps of what it loaded.
Mount(cell, described, models, check, semantic, dataMounted, execution, probes) ==
    [cell |-> cell,
     interface |-> Interface(cell, described, models),
     models |-> models,
     index |-> RestrictedTo(Index(models, cell.interface), RouteKeys(cell)),
     check |-> Told(check, RouteKeys(cell), dataMounted),
     semantic |-> semantic,
     described |-> described,
     dataMounted |-> dataMounted,
     execution |-> execution,
     probes |-> probes]

\* `build_context_document`.
Document(mount) ==
    LET document == Assemble(mount.interface, mount.execution, mount.check,
                             mount.semantic, mount.probes, FALSE, FALSE, <<>>)
        served == ServedHere(mount.dataMounted, mount.cell)
    IN  [document EXCEPT !.notes = @ \cup
           CASE ~mount.dataMounted -> {"no data"}
             [] mount.dataMounted /\ ~served /\ Routes(mount.cell) # {}
                  -> {"no routes mounted"}
             [] OTHER -> {}]

ModelNamed(mount, name) ==
    {model \in ToSet(mount.models) : model.name = name}

\* `context_doc`: GET /context.
ContextDoc(mount, query) ==
    LET whole == Document(mount)
        termed == IF query.terms = {} THEN whole
                  ELSE NarrowedTerms(whole, query.terms, whole.definitions,
                                     whole.docs)
        modelled == [termed EXCEPT !.model =
                       {ModelDoc(model, mount.index, mount.semantic)
                          : model \in ModelNamed(mount, query.model)}]
        viewed == IF query.view = "index" \/ query.model # "" \/ query.terms # {}
                  THEN IndexView(modelled) ELSE modelled
    IN  Including(viewed, query.include)

ContextRefusal(mount, query) ==
    IF QueryRefusal(query) # Accepted THEN QueryRefusal(query)
    ELSE IF query.model # "" /\ ModelNamed(mount, query.model) = {}
    THEN "404: no such model" ELSE Accepted

\* `context_export`: GET /context/:route.
ContextExport(mount, route, query) ==
    LET whole == Document(mount)
        narrowed == NarrowedTo(whole, route)
    IN  Including(IF query.terms = {} THEN narrowed
                  ELSE NarrowedTerms(narrowed, query.terms, whole.definitions,
                                     whole.docs),
                  query.include)

ContextExportRefusal(mount, route, query) ==
    FirstReason(<<
        <<QueryRefusal(query), QueryRefusal(query) # Accepted>>,
        <<"400: model is of the whole cell", query.model # "">>,
        <<"400: view is of the whole cell", query.view = "index">>,
        <<"404: no such export", route \notin RouteKeys(mount.cell)>> >>)

\* `resolve_terms` and `context_etag`: the key of a view. The tokens count
\* by what they find.
CanonicalTerms(mount, tokens) ==
    {<<"definition", DefinitionOf(token, mount.interface.definitions)>>
       : token \in {t \in tokens :
                      DefinitionOf(t, mount.interface.definitions) # 0}}
    \cup {<<"ossie", m>> : m \in SemanticMatches(tokens, mount.interface.lookup)}

ETag_interface(mount, route, query) ==   \* mutant: without what was observed
    [digest |-> InterfaceDigest(mount.interface, mount.dataMounted, mount.cell),
     route |-> route, model |-> query.model, include |-> query.include]

ETag(mount, route, query) ==
    [digest |-> InterfaceDigest(mount.interface, mount.dataMounted, mount.cell),
     observed |-> <<mount.check, mount.described>>, route |-> route, model |-> query.model,
     index |-> query.view = "index", include |-> query.include,
     terms |-> IF query.terms = {} THEN {}
               ELSE {<<"terms", CanonicalTerms(mount, query.terms)>>}]

\* `openapi::generate`: the paths, the routes of data among them, and the
\* values its parameters may take.
OpenApi(mount) ==
    [paths |-> {"/", "/context", "/context/{route}", "/openapi.json"},
     data  |-> IF mount.dataMounted
               THEN {Route(e) : e \in MountedRoutes(mount.cell)} ELSE {},
     routes |-> RouteKeys(mount.cell),
     terms |-> {entry.token : entry \in mount.interface.lookup},
     definitions |-> UNION {{d.name} \cup d.aliases
                              : d \in ToSet(mount.interface.definitions)},
     models |-> {model.name : model \in mount.interface.models}]

MaxLimit == 1000
MaxOffset == 1000000
DefaultLimit == 100

\* `validate_params`: filters on the grain alone; -1 is no integer.
ParamsRefusal(export, params) ==
    LET given(k) == k \in DOMAIN params
    IN  FirstReason(<<
        <<"400: not a grain column",
          ~(DOMAIN params \subseteq ToSet(export.grain) \cup {"limit", "offset"})>>,
        <<"400: limit", given("limit") /\ params.limit < 0>>,
        <<"400: offset", given("offset") /\ params.offset < 0>>,
        <<"400: offset too deep", given("offset") /\ params.offset > MaxOffset>> >>)

\* `build_query`: what is read, in which order, from which snapshot.
BuildQuery(export, params, pinned) ==
    [table |-> SourceObject(export), columns |-> DOMAIN export.schema,
     at |-> IF export.contract = "supported" /\ Route(export) \in DOMAIN pinned
            THEN pinned[Route(export)] ELSE 0,
     filters |-> [column \in ToSet(export.grain) \cap DOMAIN params |->
                     params[column]],
     order |-> export.grain,
     limit |-> IF "limit" \in DOMAIN params THEN Min({params.limit, MaxLimit})
               ELSE DefaultLimit,
     offset |-> IF "offset" \in DOMAIN params THEN params.offset ELSE 0]

\* `serve_export`, `execute_export_read`: GET /:route. Without data a route
\* is absent to everybody, before anybody is asked who they are.
ReadRefusalAt(mount, route, params) ==
    LET export == ExportOf(mount.cell.interface, route)
        known == route \in RouteKeys(mount.cell)
    IN  FirstReason(<<
        <<"404: no data", ~mount.dataMounted>>,
        <<"404: no such export", ~known>>,
        <<"404: bound", known /\ IsBound(export)>>,
        <<ParamsRefusal(export, params),
          known /\ ParamsRefusal(export, params) # Accepted>> >>)

\* MCP, over stdio: `list_exports` and `resources`, without `authorize`.
ListExports(mount) ==
    {[route |-> e.route, grain |-> e.grain,
      queryable |-> e.query # {} /\ mount.dataMounted]
        : e \in Document(mount).exports}

\* `resources`: what `read_resource` answers for.
Resources(mount) ==
    {<<"context">>, <<"index">>}
    \cup {<<"route", e.route>> : e \in Document(mount).exports}
    \cup {<<"docs", entry[1], entry[2]>> : entry \in mount.interface.docs}
    \cup {<<"semantic", model.name>> : model \in ToSet(mount.models)}

ResourceRefusal(mount, uri) ==
    LET known == CASE uri[1] \in {"context", "index"} -> TRUE
                   [] uri[1] = "route" -> uri[2] \in RouteKeys(mount.cell)
                   [] uri[1] = "docs" ->
                        \E entry \in mount.interface.docs :
                            <<entry[1], entry[2]>> = <<uri[2], uri[3]>>
                   [] uri[1] = "semantic" -> ModelNamed(mount, uri[2]) # {}
                   [] OTHER -> FALSE
    IN  IF known THEN Accepted ELSE "resource not found"

\* `narrowed_with_docs`: `describe_export`.
DescribeExport(mount, route) ==
    Including(NarrowedTo(Document(mount), route), {"docs"})

\* `query_export`: pages go on by what was asked for, past the offset that
\* the next request may have.
NextOffset(limit, offset, rows) ==
    IF limit > 0 /\ rows = limit THEN {offset + limit} ELSE {}

\* Project mode: `resolve` and `qualify`. Every route names its mount.
ResolveMount(mounts, project, qualifier) ==
    IF qualifier = "" THEN IF project THEN {} ELSE mounts
    ELSE {mount \in mounts : mount.name = qualifier}

\* `build_document_for`: `datamk context`. A term that nothing knows is an
\* error here, and a note at the server's door.
EmitRefusal(interface, routes, export, query, models) ==
    LET missing == NarrowedTerms(
                       Assemble(interface, 0, None, None, <<>>, FALSE, FALSE, <<>>),
                       query.terms, interface.definitions, interface.docs).missing
    IN  FirstReason(<<
        <<"context: model is of the whole cell",
          export # <<>> /\ query.model # "">>,
        <<"context: view is of the whole cell",
          export # <<>> /\ query.view = "index">>,
        <<"context: no such export", export # <<>> /\ export \notin routes>>,
        <<"context: unknown term", missing # {}>>,
        <<"context: no such model",
          /\ query.model # ""
          /\ ~\E model \in ToSet(models) : model.name = query.model>> >>)

\* `build_document_for`, once it is not refused. It serves no rows, and no
\* poll stands behind it.
Emitted(whole, export, query, model, sections) ==
    LET narrowed == IF export = <<>> THEN whole ELSE NarrowedTo(whole, export)
        termed == IF query.terms = {} THEN narrowed
                  ELSE NarrowedTerms(narrowed, query.terms, whole.definitions,
                                     whole.docs)
        modelled == [termed EXCEPT !.model = model]
        viewed == IF \/ query.view = "index" \/ query.model # ""
                     \/ query.terms # {} /\ export = <<>>
                  THEN IndexView(modelled) ELSE modelled
    IN  Including(viewed, sections \cup {"check"})

-----------------------------------------------------------------------------
(* The budget of a project's server, in MiB: `project_budget`.              *)

BudgetEach(memory, cells) ==
    IF memory = 0 THEN 0 ELSE Max({memory \div Max({cells, 1}), 1})

ThreadsEach(cores, cells) == Max({cores \div Max({cells, 1}), 1})
=============================================================================
