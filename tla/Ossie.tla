--------------------------------- MODULE Ossie ---------------------------------
(***************************************************************************)
(* `semantic_model:`: Ossie documents from a directory or a git repository *)
(* are merged into one, bound to the routes of a cell, and checked against *)
(* them without reading a row.                                             *)
(*                                                                         *)
(* An expression is what the checks tell apart: its `form` ("column",      *)
(* "expression", or "refused" for a subquery or a table function), the     *)
(* column it names, the datasets it qualifies, and DuckDB's answer to its  *)
(* plan. A dataset's source is a spelling and a major, 0 for none.         *)
(***************************************************************************)
EXTENDS Cell

CONSTANTS
    Normalized,   \* a function: the spellings of sources, normalized
    MaxFiles      \* 2048 in the code

ASSUME MaxFilesAssumption == MaxFiles \in Nat

SupportedVersions == {"0.1.1", "0.2.0.dev0"}
MaxFileKiB == 4 * 1024
MaxMergedKiB == 32 * 1024

\* `SemanticModelSource`: a directory or a repository, not both.
SemanticSourceRefusal(yaml) ==
    FirstReason(<<
        <<"semantic_model: not a mapping", yaml.shape # "mapping">>,
        <<"semantic_model: both dir and git", {"dir", "git"} \subseteq yaml.keys>>,
        <<"semantic_model: neither dir nor git",
          yaml.keys \cap {"dir", "git"} = {}>>,
        <<"semantic_model: unknown field",
          \/ "dir" \in yaml.keys /\ yaml.keys # {"dir"}
          \/ ~(yaml.keys \subseteq {"dir", "git", "path", "ref"})>> >>)

\* `resolve_dir`: relative, and not the private parts of the cell. Unlike a
\* page it may lie outside the cell.
DirRefusal(at) ==
    FirstReason(<<
        <<"semantic_model: absolute", at = "absolute">>,
        <<"semantic_model: missing", at = "missing">>,
        <<"semantic_model: in profiles/", at = "profiles">>,
        <<"semantic_model: in .cell/", at = ".cell">> >>)

\* `Document::parse_str`, `validate_shape`.
ShapeRefusal(document) ==
    LET models == ToSet(document.models)
        datasets == UNION {ToSet(model.datasets) : model \in models}
        expressions ==
            (UNION {ToSet(dataset.fields) : dataset \in datasets})
              \cup (UNION {ToSet(model.metrics) : model \in models})
    IN  FirstReason(<<
        <<"document: not YAML", ~document.parses>>,
        <<"document: an ontology",
          "ontology" \in document.keys /\ "semantic_model" \notin document.keys>>,
        <<"document: not a semantic model",
          ~({"version", "semantic_model"} \subseteq document.keys)>>,
        <<"document: version", document.version \notin SupportedVersions>>,
        <<"document: unknown field",
          ~(document.keys \subseteq
              {"version", "dialects", "vendors", "semantic_model"})>>,
        <<"document: model without datasets",
          \E model \in models : model.datasets = <<>> >>,
        <<"document: no dialect",
          \E item \in expressions : item.dialects = <<>> >>,
        <<"document: relationship without columns",
          \E model \in models : \E rel \in ToSet(model.relationships) :
              <<>> \in {rel.fromColumns, rel.toColumns}>> >>)

\* `walk`: what of a tree is read. Hidden entries and the cell's private
\* parts are passed over, the cell.yaml too; a link out of it is refused.
Walked(tree) ==
    {file \in tree : /\ file.at \notin {"hidden", "profiles", ".cell", "cell.yaml"}
                     /\ file.extension \in {"yaml", "yml", "json"}}

WalkRefusal(tree) ==
    LET files == Walked(tree)
    IN  FirstReason(<<
        <<"walk: a link out of the tree",
          \E file \in tree : file.at = "escapes">>,
        <<"walk: too many files", Cardinality(files) > MaxFiles>>,
        <<"walk: file too large", \E file \in files : file.size > MaxFileKiB>>,
        <<"walk: too large together",
          FoldSet(LAMBDA file, sum : sum + file.size, 0, files)
            > MaxMergedKiB>>,
        <<"walk: no Ossie files", files = {}>> >>)

\* `merge`: the files in the order of their names, one version, and each
\* model and each dataset once.
InOrder(tree) == SetToSortSeq(Walked(tree), LAMBDA f, g : f.order < g.order)

Merged(tree) ==
    [models  |-> FoldSeq(LAMBDA file, models : models \o file.document.models,
                         <<>>, Reverse(InOrder(tree))),
     content |-> {<<file.order, file.content>> : file \in Walked(tree)}]

MergeRefusal(tree) ==
    LET files == InOrder(tree)
        models == Merged(tree).models
    IN  FirstReason(<<
        <<"merge: not UTF-8", \E file \in Walked(tree) : ~file.utf8>>,
        <<FirstRefusal(Verdicts(LAMBDA file : ShapeRefusal(file.document), files)),
          \E file \in Walked(tree) : ShapeRefusal(file.document) # Accepted>>,
        <<"merge: mixed versions",
          Cardinality({file.document.version : file \in Walked(tree)}) > 1>>,
        <<"merge: model defined twice",
          Cardinality({model.name : model \in ToSet(models)}) # Len(models)>>,
        <<"merge: dataset declared twice",
          \E model \in ToSet(models) :
              Cardinality({ds.name : ds \in ToSet(model.datasets)})
                # Len(model.datasets)>> >>)

-----------------------------------------------------------------------------
(* Git. The checkout of a URL is kept under .cell/semantic, named by the    *)
(* URL alone, and is `at`: "none", "bare" (initialised, without its remote) *)
(* or "origin". Its `cone` is the directory it was last narrowed to, "" for *)
(* none. A remote is its branches and its commits. The paths that are told  *)
(* apart: "tree", a directory; "nested", a file in it; "file", a file at    *)
(* the root; "" for the root itself.                                        *)

NoCheckout == [at |-> "none", cone |-> ""]

\* `validate_url`: https without a credential, ssh, or user@host:path.
UrlRefusal(url) ==
    IF url.form \in {"https", "ssh", "scp"} /\ ~(url.form = "https" /\ url.userinfo)
    THEN Accepted ELSE "git: url not allowed"

\* `redact_url`: no message shows what stands before the @.
Redacted(url) == [url EXCEPT !.userinfo = FALSE]

\* `validate_ref`, `validate_path`: plain names, never an option.
RefRefusal(ref) ==
    IF ref.form \in {"", "sha", "name"} THEN Accepted ELSE "git: bad ref"
SubpathRefusal(path) ==
    IF path \in {"", "tree", "nested", "file", "missing", "link"}
    THEN Accepted ELSE "git: bad path"

\* `clone` and `refresh`, as far as `stopped`: git is killed at its time
\* limit, and an init that was not followed by its remote stays so.
Remote(at, ref, stopped) ==
    IF at # "none" THEN at
    ELSE IF ref.form = "sha" /\ stopped = "init" THEN "bare"
    ELSE IF stopped \in {"", "fetch", "checkout"} THEN "origin" ELSE "none"

\* The commit a ref means upstream now; "" for none.
Target(upstream, ref) ==
    CASE ref.form = "sha" -> IF ref.name \in upstream.commits THEN ref.name ELSE ""
      [] ref.form = "name" /\ ref.name \notin DOMAIN upstream.branches -> ""
      [] ref.form = "name" -> upstream.branches[ref.name]
      [] OTHER -> upstream.head

\* `classify_error`: what the operator is told of git's own words.
GitError(failure) ==
    CASE failure = "auth" -> "git: could not authenticate"
      [] failure = "ref"  -> "git: no such ref"
      [] OTHER            -> "git: failed"

\* `finalize_checkout`, `resolve_subpath`.
CheckoutRefusal(path) ==
    FirstReason(<<<<"git: no such path", path = "missing">>,
                  <<"git: path escapes the checkout", path = "link">> >>)

\* `finalize_checkout`: the directory of a path becomes the cone. Neither the
\* root nor a file in it asks for one, and what was set before them stays.
Cone(path, cone) == IF path \in {"tree", "nested"} THEN "tree" ELSE cone

\* What of a commit's files stands in the checkout: those at the root, and
\* those of the cone. A subpath is within its own.
CheckedOut(tree, path, cone) ==
    IF path = "" /\ cone # "" THEN {file \in tree : file.under \in {"", cone}}
    ELSE tree

\* `fetch`: a new commit is checked out only when all of it arrived. Git may
\* be killed once more, after the cone is set and before the checkout.
Fetch(cache, upstream, url, ref, path, stopped) ==
    LET remote == Remote(cache.at, ref, stopped)
        arrives == FirstRefusal(<<
            UrlRefusal(url), RefRefusal(ref), SubpathRefusal(path),
            IF stopped \in {"init", "fetch"} THEN GitError("timeout") ELSE Accepted,
            IF remote = "bare" THEN GitError("no origin") ELSE Accepted,
            IF ~upstream.reachable THEN GitError("auth") ELSE Accepted,
            IF Target(upstream, ref) = "" THEN GitError("ref") ELSE Accepted>>)
        refusal == FirstRefusal(<<
            arrives, CheckoutRefusal(path),
            IF stopped = "checkout" THEN GitError("timeout") ELSE Accepted>>)
        reached == UrlRefusal(url) = Accepted /\ RefRefusal(ref) = Accepted
                     /\ SubpathRefusal(path) = Accepted
    IN  [refusal |-> refusal,
         cache   |-> [at   |-> IF reached THEN remote ELSE cache.at,
                      cone |-> IF arrives = Accepted
                               THEN Cone(path, cache.cone) ELSE cache.cone],
         commit  |-> IF refusal = Accepted THEN Target(upstream, ref) ELSE ""]

-----------------------------------------------------------------------------
(* Binding: `SemanticIndex`. *)

\* `SemanticIndex::build`: a dataset is bound to every export whose model,
\* whose name, or whose route its source spells.
Matches(dataset, export) ==
    LET name == Normalized[dataset.source.name]
    IN  \/ /\ dataset.source.major \in {0, export.major}
           /\ name = Normalized[export.name]
        \/ /\ dataset.source.major = 0
           /\ export.model # "" /\ name = Normalized[export.model]

\* By the positions of the exports, which are in the order of the interface.
RoutesOf(dataset, interface) ==
    [n \in {n \in DOMAIN interface : /\ interface[n].major >= 0
                                     /\ Matches(dataset, interface[n])} |->
        Route(interface[n])]

FirstRoute(routes) == routes[Min(DOMAIN routes)]

\* The index: the routes of each dataset, <<model, dataset>>, that has some.
Index(models, interface) ==
    LET all == UNION {{<<model, dataset>> : dataset \in ToSet(model.datasets)}
                        : model \in ToSet(models)}
        bound == {pair \in all : RoutesOf(pair[2], interface) # <<>>}
    IN  [key \in {<<pair[1].name, pair[2].name>> : pair \in bound} |->
            RoutesOf((CHOOSE pair \in bound :
                         <<pair[1].name, pair[2].name>> = key)[2], interface)]

\* `restricted_to`: what a document over some of the routes may say. A
\* dataset none of whose routes is among them is unbound there.
RestrictedTo_keys(index, routes) ==   \* mutant: a dataset keeps all its routes
    [key \in {key \in DOMAIN index : ToSet(index[key]) \cap routes # {}} |->
        index[key]]

RestrictedTo(index, routes) ==
    [key \in {key \in DOMAIN index : ToSet(index[key]) \cap routes # {}} |->
        Restrict(index[key], {n \in DOMAIN index[key] : index[key][n] \in routes})]

\* `route_for`.
RouteFor(index, model, dataset) ==
    IF <<model.name, dataset>> \in DOMAIN index
    THEN index[<<model.name, dataset>>] ELSE <<>>

\* `datasets_for_route`.
DatasetsFor(index, models, route) ==
    UNION {{<<model, dataset>> : dataset \in
              {ds \in ToSet(model.datasets) :
                 route \in ToSet(RouteFor(index, model, ds.name))}}
             : model \in ToSet(models)}

-----------------------------------------------------------------------------
(* Checking. An outcome is a status; "error" fails the verify. *)

\* `ansi_sql`: the expression this engine can plan, if there is one.
Ansi(item) == SelectSeq(item.dialects, LAMBDA d : d.dialect = "ANSI_SQL")

\* `check_export`, for a field: a column is declared, anything else plans.
FieldStatus(field, export) ==
    IF Ansi(field) = <<>> THEN "dialect"
    ELSE LET expr == Ansi(field)[1]
         IN  CASE expr.form = "column" ->
                    IF \E column \in DOMAIN export.schema :
                          Same(column, expr.column)
                    THEN "verified" ELSE "error"
               [] expr.form = "refused"        -> "refused"
               [] expr.plan = "no function"    -> "function"
               [] expr.plan = "fine"           -> "verified"
               [] OTHER                        -> "error"

\* `check_export`, for the key: it restates the grain.
KeyStatus(dataset, export) ==
    LET folded(columns) == {LowerCase[column] : column \in ToSet(columns)}
    IN  CASE dataset.primaryKey = <<>> -> "absent"
          [] export.grain = <<>>       -> "no_grain"
          [] Len(dataset.primaryKey) = Len(export.grain)
               /\ folded(dataset.primaryKey) = folded(export.grain) -> "matches"
          [] OTHER -> "error"

DatasetCheck(dataset, export) ==
    [key |-> KeyStatus(dataset, export),
     fields |-> [name \in {field.name : field \in ToSet(dataset.fields)} |->
        FieldStatus(CHOOSE field \in ToSet(dataset.fields) : field.name = name,
                    export)]]

\* `export_by_route`: the first.
ExportOf(interface, route) ==
    LET at == {n \in DOMAIN interface : Route(interface[n]) = route}
    IN  interface[CHOOSE n \in at : \A m \in at \ {n} : n < m]

DatasetNamed(model, name) ==
    SelectSeq(model.datasets, LAMBDA dataset : dataset.name = name)

\* `check_relationships`: both ends are bound, and every column of a side is
\* a field of its dataset or a column of the export that is bound to it.
SideKnows(columns, dataset, export) ==
    \A column \in ToSet(columns) :
        \/ \E field \in ToSet(dataset.fields) : Same(field.name, column)
        \/ \E name \in DOMAIN export.schema : Same(name, column)

RelationshipStatus(rel, model, index, interface) ==
    LET from == DatasetNamed(model, rel.from)
        to   == DatasetNamed(model, rel.to)
        fromRoutes == RouteFor(index, model, rel.from)
        toRoutes   == RouteFor(index, model, rel.to)
    IN  CASE <<>> \in {from, to, fromRoutes, toRoutes} -> "unbound"
          [] Len(rel.fromColumns) # Len(rel.toColumns) -> "error"
          [] /\ SideKnows(rel.fromColumns, from[1],
                          ExportOf(interface, FirstRoute(fromRoutes)))
             /\ SideKnows(rel.toColumns, to[1],
                          ExportOf(interface, FirstRoute(toRoutes))) -> "verified"
          [] OTHER -> "error"

\* `check_metrics`: planned over the datasets it names, or the only one.
MetricStatus(metric, model, index) ==
    LET expr == Ansi(metric)[1]
        bound == {dataset.name : dataset \in
                    {ds \in ToSet(model.datasets) :
                       RouteFor(index, model, ds.name) # <<>>}}
        refers == expr.refers \cap {ds.name : ds \in ToSet(model.datasets)}
    IN  CASE Ansi(metric) = <<>>       -> "dialect"
          [] expr.form = "refused"     -> "refused"
          [] ~(refers \subseteq bound) -> "unbound"
          [] refers = {} /\ bound = {} -> "unbound"
          [] refers = {} /\ Cardinality(bound) > 1 -> "ambiguous"
          [] expr.plan = "fine"        -> "verified"
          [] expr.plan = "ambiguous"   -> "ambiguous"
          [] expr.plan = "no function" -> "function"
          [] OTHER -> "error"

\* `SemanticOutcome`; an unbound dataset has an entry of its own.
SemanticOutcome(models, interface) ==
    LET index == Index(models, interface)
        routed == UNION {{<<pair[1].name, pair[2].name, Route(export)>>
                            : pair \in DatasetsFor(index, models, Route(export))}
                         : export \in ToSet(interface)}
        dataset(key) == DatasetNamed(
            SelectSeq(models, LAMBDA model : model.name = key[1])[1], key[2])[1]
    IN  [datasets |-> [key \in routed |->
            DatasetCheck(dataset(key), ExportOf(interface, key[3]))],
         unbound |-> {pair \in UNION {{<<model.name, ds.name>>
                                         : ds \in ToSet(model.datasets)}
                                      : model \in ToSet(models)} :
                         pair \notin DOMAIN index},
         relationships |-> UNION {{<<model.name, rel.name,
                 RelationshipStatus(rel, model, index, interface)>>
                     : rel \in ToSet(model.relationships)}
                 : model \in ToSet(models)},
         metrics |-> UNION {{<<model.name, metric.name,
                 MetricStatus(metric, model, index)>>
                     : metric \in ToSet(model.metrics)}
                 : model \in ToSet(models)}]

\* `check_semantic`: a refused expression ends it, errors are collected.
SemanticRefusal(outcome) ==
    LET statuses ==
            (UNION {Range(check.fields) \cup {check.key}
                      : check \in Range(outcome.datasets)})
              \cup {entry[3] : entry \in outcome.relationships \cup outcome.metrics}
    IN  FirstReason(<<<<"semantic: refused expression", "refused" \in statuses>>,
                      <<"semantic: errors", "error" \in statuses>> >>)

-----------------------------------------------------------------------------
(* `datamk release` of a cell whose model comes from git. *)

PinRefusal_branch(source, record) ==     \* mutant: any ref that was synced
    IF source.kind # "git" THEN Accepted
    ELSE FirstReason(<<
        <<"release: semantic model missing or stale", record.kind = "none">>,
        <<"release: semantic model not from git",
          record.kind # "none" /\ record.kind # "commit">> >>)

\* `check_release_pinned`: the ref is the commit that was synced.
PinRefusal(source, record) ==
    IF source.kind # "git" THEN Accepted
    ELSE FirstReason(<<
        <<"release: semantic model missing or stale", record.kind = "none">>,
        <<"release: semantic model not from git",
          record.kind # "none" /\ record.kind # "commit">>,
        <<"release: ref is not a commit", source.ref.form # "sha">>,
        <<"release: synced at another commit",
          /\ source.ref.form = "sha" /\ record.kind = "commit"
          /\ record.commit # source.ref.name>> >>)
=============================================================================
