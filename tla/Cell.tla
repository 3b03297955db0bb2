--------------------------------- MODULE Cell ---------------------------------
(***************************************************************************)
(* cell.yaml: what an author may write, what loading it refuses, and what  *)
(* it resolves to. A refusal is a string that names its reason; Accepted   *)
(* is none. Checks stand in the order of the code, so the first one that   *)
(* fails is the one the author is told about.                              *)
(*                                                                         *)
(* Texts are abstracted to what the checks tell apart: "" (absent),        *)
(* "fits", "long" (over its limit), "blank", "lines" (several lines). A    *)
(* name of a term is [key, wellFormed]: two spellings with one `term_key`  *)
(* have one key. A page is where it resolves to, its size and encoding.    *)
(***************************************************************************)
EXTENDS Integers, SequencesExt

CONSTANTS
    Identifiers,     \* the names that are valid column and table names
    ReservedNames,   \* those with the engine's `__datamk_` prefix
    LowerCase,       \* a function: the identifiers' lower-case forms
    MaxDefinitions,  \* 256 in the code
    MaxAliases       \* 5 in the code

ASSUME CellNamesAssumption == ReservedNames \subseteq Identifiers
ASSUME CellLimitsAssumption == {MaxDefinitions, MaxAliases} \subseteq Nat

Accepted == ""

\* `eq_ignore_ascii_case`.
Same(one, other) == LowerCase[one] = LowerCase[other]

\* f, and what g has besides.
f ++ g ==
    [x \in DOMAIN f \cup DOMAIN g |-> IF x \in DOMAIN f THEN f[x] ELSE g[x]]

\* The reason of the first check <<reason, failed>> that failed.
FirstReason(checks) ==
    LET reason(n) == IF n = 0 THEN Accepted ELSE checks[n][1]
    IN  reason(SelectInSeq(checks, LAMBDA check : check[2]))

\* The first refusal in a sequence of verdicts.
FirstRefusal(verdicts) ==
    LET verdict(n) == IF n = 0 THEN Accepted ELSE verdicts[n]
    IN  verdict(SelectInSeq(verdicts, LAMBDA refusal : refusal # Accepted))

\* The refusal of a check, or of what is checked next when it passes.
Then(refusal, next) == IF refusal # Accepted THEN refusal ELSE next

\* One verdict per element, in order.
Verdicts(Check(_), elements) == [n \in DOMAIN elements |-> Check(elements[n])]

\* The elements of a list at some of its positions, in its order.
Picked(list, positions) ==
    LET upTo(n) == {m \in positions : m <= n}
        nth(k) == CHOOSE n \in positions : Cardinality(upTo(n)) = k
    IN  [k \in 1..Cardinality(positions) |-> list[nth(k)]]

-----------------------------------------------------------------------------
(* The shapes an author may write. *)

\* `ColumnSpec`: a type, or a mapping with a type, a unit and a description.
ColumnRefusal(column) ==
    FirstReason(<<
        <<"column: neither a type nor a mapping",
          column.yaml \notin {"string", "mapping"}>>,
        <<"column: unknown field",
          column.yaml = "mapping"
            /\ ~(column.keys \subseteq {"type", "unit", "description"})>>,
        <<"column: no type",
          column.yaml = "mapping" /\ "type" \notin column.keys>> >>)

\* `Source`: a path, another cell's table, or a connection.
SourceRefusal(source) ==
    LET has(key) == source.yaml = "mapping" /\ key \in source.keys
    IN  FirstReason(<<
        <<"source: neither a path nor a mapping",
          source.yaml \notin {"string", "mapping"}>>,
        <<"source: both cell and connection", has("cell") /\ has("connection")>>,
        <<"source: neither cell nor connection",
          source.yaml = "mapping" /\ ~has("cell") /\ ~has("connection")>>,
        <<"source: unknown field",
          \/ /\ has("cell")
             /\ ~(source.keys \subseteq {"cell", "table", "version"})
          \/ /\ has("connection")
             /\ ~(source.keys \subseteq
                    {"connection", "table", "query", "incremental"})>>,
        <<"source: no table", has("cell") /\ ~has("table")>>,
        <<"source: incremental without cursor",
          has("incremental") /\ source.cursor = "">>,
        <<"source: both table and query", has("table") /\ has("query")>>,
        <<"source: neither table nor query",
          has("connection") /\ ~has("table") /\ ~has("query")>> >>)

\* Which variant of `Source` an accepted one is.
SourceKind(source) ==
    CASE source.yaml = "string"        -> "raw"
      [] "cell" \in source.keys        -> "cell"
      [] "table" \in source.keys       -> "table"
      [] OTHER                         -> "query"

IsIncremental(source) ==
    SourceKind(source) \in {"table", "query"} /\ "incremental" \in source.keys

Strategies == {"append", "upsert", "replace", "never"}
Keyless == {"replace", "never"}

\* `deserialize_materialize_entry`; a bare path is a replace.
TransformRefusal(entry) ==
    LET mapping == entry.yaml = "mapping"
        has(key) == mapping /\ key \in entry.keys
        keyless == mapping /\ entry.strategy \in Keyless
    IN  FirstReason(<<
        <<"transform: neither a path nor a mapping",
          entry.yaml \notin {"string", "mapping"}>>,
        <<"transform: unknown field",
          mapping /\ ~(entry.keys \subseteq {"sql", "materialize", "key"})>>,
        <<"transform: no sql", mapping /\ ~has("sql")>>,
        <<"transform: no materialize", mapping /\ ~has("materialize")>>,
        <<"transform: unknown strategy",
          mapping /\ entry.strategy \notin Strategies>>,
        <<"transform: key on a keyless strategy", keyless /\ has("key")>>,
        <<"transform: no key", mapping /\ ~keyless /\ ~has("key")>>,
        <<"transform: empty key",
          mapping /\ ~keyless /\ has("key") /\ entry.columns = <<>> >> >>)

\* `DefinitionsSource`: a list of terms, or the path of one file.
DefinitionsRefusal(definitions) ==
    FirstReason(<<
        <<"definitions: a list of files", definitions.yaml = "files">>,
        <<"definitions: neither terms nor a path",
          definitions.yaml \notin {"", "terms", "file", "files"}>> >>)

\* serde: every part of the document has its shape.
ParseRefusal(cell) ==
    FirstRefusal(
        Verdicts(SourceRefusal, SetToSeq(Range(cell.sources)))
        \o Verdicts(TransformRefusal, cell.transforms)
        \o FoldSeq(LAMBDA export, seen :
                     seen \o Verdicts(ColumnRefusal,
                                      SetToSeq(Range(export.schema))),
                   <<>>, cell.interface)
        \o <<DefinitionsRefusal(cell.definitions)>>)

-----------------------------------------------------------------------------
(* CellDef::load, after the parse. *)

\* `validate_prose`: the limits on texts that travel in every document.
ProseRefusal(cell) ==
    LET columns == UNION {Range(export.schema) : export \in ToSet(cell.interface)}
    IN  FirstReason(<<
        <<"cell description too long", cell.description = "long">>,
        <<"cell description of several lines", cell.description = "lines">>,
        <<"export description too long",
          \E export \in ToSet(cell.interface) : export.description = "long">>,
        <<"unit is prose",
          \E column \in columns : column.unit \in {"long", "blank", "lines"}>>,
        <<"column description too long",
          \E column \in columns : column.description = "long">> >>)

\* `validate_discover`: a cell whose interface is discovered declares none.
DiscoverRefusal(cell) ==
    LET discover == cell.discover
        overrides == ToSet(discover.overrides)
    IN  IF ~discover.on THEN Accepted
        ELSE FirstReason(<<
        <<"discover: transforms declared", cell.transforms # <<>> >>,
        <<"discover: sources declared", DOMAIN cell.sources # {}>>,
        <<"discover: interface declared", cell.interface # <<>> >>,
        <<"discover: nothing selected",
          discover.select.tags \cup discover.select.schemas
            \cup discover.select.models = {}>>,
        <<"discover: no connection", "" \in {discover.state, discover.warehouse}>>,
        <<"discover: model overridden twice",
          Len(discover.overrides)
            # Cardinality({override.model : override \in overrides})>>,
        <<"discover: version is not semver",
          \E override \in overrides : override.major = -1>>,
        <<"discover: name is no identifier",
          \E override \in overrides :
              override.as # "" /\ override.as \notin Identifiers>> >>)

\* `resolve_path`: a page lies in the cell's directory, outside its private
\* parts; symbolic links are followed first.
PathRefusal(page) ==
    FirstReason(<<
        <<"page: absolute", page.at = "absolute">>,
        <<"page: missing", page.at = "missing">>,
        <<"page: outside the cell", page.at = "outside">>,
        <<"page: in profiles/", page.at = "profiles">>,
        <<"page: in .cell/", page.at = ".cell">> >>)

MaxPageKiB == 64
MaxTotalKiB == 256

\* `read_one`; a page that is absent is not read.
PageRefusal(page) ==
    IF page.at = "" THEN Accepted
    ELSE Then(PathRefusal(page), FirstReason(<<
        <<"page: too large", page.size > MaxPageKiB>>,
        <<"page: empty", page.size = 0>>,
        <<"page: not UTF-8", ~page.utf8>> >>))

\* `read_definitions_file`; its limit is the one of all pages together.
DefinitionsFileRefusal(page) ==
    Then(PathRefusal(page), FirstReason(<<
        <<"definitions file: too large", page.size > MaxTotalKiB>>,
        <<"definitions file: not UTF-8", ~page.utf8>> >>))

\* `resolve_definitions`: the terms, wherever they were written.
Terms(cell) ==
    IF cell.definitions.yaml \in {"terms", "file"}
    THEN cell.definitions.terms ELSE <<>>

NamesOf(term) == <<term.name>> \o term.aliases

\* `parse_applies_to`: name@major, or name@major.column.
AppliesRefusal(entry) ==
    IF entry.name # "" /\ entry.major >= 0
    THEN Accepted ELSE "applies_to: malformed"

\* One definition, by itself.
TermRefusal(term) ==
    FirstReason(<<
        <<"term: malformed name", ~term.name.wellFormed>>,
        <<"term: no description", term.description \in {"", "blank"}>>,
        <<"term: description too long", term.description = "long">>,
        <<"term: too many aliases", Len(term.aliases) > MaxAliases>>,
        <<"term: malformed alias",
          \E alias \in ToSet(term.aliases) : ~alias.wellFormed>>,
        <<"term: malformed applies_to",
          \E entry \in term.appliesTo : AppliesRefusal(entry) # Accepted>> >>)

\* `validate_definitions`: a name is one term's, in every spelling.
GlossaryRefusal(cell) ==
    LET terms == Terms(cell)
        names == FlattenSeq(Verdicts(NamesOf, terms))
        keys  == {name.key : name \in ToSet(names)}
    IN  IF Len(terms) > MaxDefinitions THEN "definitions: too many"
        ELSE Then(FirstRefusal(Verdicts(TermRefusal, terms)),
                  IF Len(names) # Cardinality(keys)
                  THEN "definitions: two terms with one name" ELSE Accepted)

\* The pages a cell declares: its own, its exports', its definitions'.
Pages(cell) ==
    <<cell.docs>>
    \o Verdicts(LAMBDA export : export.docs, cell.interface)
    \o Verdicts(LAMBDA term : term.docs, Terms(cell))

\* `docs::validate_all`.
DocsRefusal(cell) ==
    LET pages == Pages(cell)
        total == FoldSeq(LAMBDA page, sum : sum + page.size, 0,
                         SelectSeq(pages, LAMBDA page : page.at # ""))
    IN  Then(FirstRefusal(Verdicts(PageRefusal, pages)),
             IF total > MaxTotalKiB THEN "pages: too large together"
             ELSE Accepted)

\* `Export::route`: the name and the major of the version.
Route(export) == <<export.name, export.major>>

Discoverable(cell) ==
    {export \in ToSet(cell.interface) : export.visibility = "discoverable"}

\* `validate_applies_to`: every entry names a discoverable export, and a
\* column it declares.
AppliesToRefusal(cell) ==
    LET entries == UNION {term.appliesTo : term \in ToSet(Terms(cell))}
        named(entry) == {export \in Discoverable(cell) :
                            Route(export) = <<entry.name, entry.major>>}
    IN  FirstReason(<<
        <<"export: version is not semver",
          Terms(cell) # <<>> /\ \E export \in Discoverable(cell) :
                                    export.major = -1>>,
        <<"applies_to: no discoverable export",
          \E entry \in entries : named(entry) = {}>>,
        <<"applies_to: no declared column",
          \E entry \in entries : entry.column # ""
            /\ \E export \in named(entry) :
                  entry.column \notin DOMAIN export.schema>> >>)

\* `CellDef::load`: applies_to of a discovered interface waits for it.
LoadRefusal(cell) ==
    LET inFile == cell.definitions.yaml = "file"
        file == DefinitionsFileRefusal(cell.definitions.page)
    IN  FirstRefusal(<<
            ParseRefusal(cell),
            ProseRefusal(cell),
            DiscoverRefusal(cell),
            IF inFile THEN file ELSE Accepted,
            GlossaryRefusal(cell),
            DocsRefusal(cell),
            IF cell.discover.on THEN Accepted ELSE AppliesToRefusal(cell)>>)

-----------------------------------------------------------------------------
(* What the transforms resolve to, and the gates over them. *)

\* `ResolvedTransform`: the table is the stem of the file, always.
Resolved(entry) ==
    [table |-> entry.stem,
     strategy |-> IF entry.yaml = "string" THEN "replace" ELSE entry.strategy,
     key |-> IF entry.yaml = "string" THEN <<>> ELSE entry.columns,
     reads |-> entry.reads]

\* `resolve_transforms` and `claim_table`: one file, one table.
ClaimRefusal(entries) ==
    LET tables == {entry.stem : entry \in ToSet(entries)}
        columns == UNION {ToSet(Resolved(entry).key) : entry \in ToSet(entries)}
    IN  FirstReason(<<
        <<"transform: key is no identifier", ~(columns \subseteq Identifiers)>>,
        <<"transform: stem is no identifier", ~(tables \subseteq Identifiers)>>,
        <<"transform: reserved table", tables \cap ReservedNames # {}>>,
        <<"transform: two files, one table",
          Cardinality(tables) # Len(entries)>> >>)

Transforms(cell) == Verdicts(Resolved, cell.transforms)

\* `builds_no_snapshot`: a cell without transforms only promises.
BuildsNoSnapshot(cell) == cell.transforms = <<>>

\* `Export::source_object`: the table an export reads.
SourceObject(export) == IF export.source = "" THEN export.name ELSE export.source

IsBound(export) == export.bind # ""

\* `check_no_materialize_never`: the strategy parses, and is refused.
NeverRefusal(cell) ==
    FirstReason(<< <<"transform: materialize never",
        \E transform \in ToSet(Transforms(cell)) :
            transform.strategy = "never">> >>)

\* `source_is_bindable`: an existing object, not a query and not a cell.
Bindable(source) == SourceKind(source) \in {"raw", "table"}

\* `check_bind_target`.
BindRefusal(export, cell) ==
    LET declared == export.bind \in DOMAIN cell.sources
    IN  FirstReason(<<
        <<"bind: no such source", ~declared>>,
        <<"bind: a query",
          declared /\ SourceKind(cell.sources[export.bind]) = "query">>,
        <<"bind: another cell",
          declared /\ SourceKind(cell.sources[export.bind]) = "cell">> >>)

\* `validate_bound_exports`.
BoundRefusal(cell) ==
    LET check(export) ==
          IF ~IsBound(export) THEN Accepted
          ELSE IF export.source # "" THEN "bind: source as well"
          ELSE BindRefusal(export, cell)
    IN  FirstRefusal(Verdicts(check, cell.interface))

\* `incremental_source_names`.
IncrementalSources(cell) ==
    {name \in DOMAIN cell.sources : IsIncremental(cell.sources[name])}

\* `check_replace_incremental_gate`: the text of a replace transform has the
\* name of an incremental source as a word, in a comment or not.
GateRefusal(cell) ==
    FirstReason(<< <<"transform: replace of a delta",
        \E transform \in ToSet(Transforms(cell)) :
            /\ transform.strategy = "replace"
            /\ transform.reads \cap IncrementalSources(cell) # {}>> >>)

\* The materialization key an unbound export inherits as its grain.
InheritedKey(export, cell) ==
    LET keyed == {transform \in ToSet(Transforms(cell)) :
                    /\ transform.strategy \in {"append", "upsert"}
                    /\ transform.table = SourceObject(export)}
    IN  IF IsBound(export) \/ keyed = {} THEN <<>>
        ELSE (CHOOSE transform \in keyed : TRUE).key

GrainRefusal_some(cell) ==    \* mutant: a part of the key is enough
    FirstReason(<< <<"grain: coarser than the key",
        \E export \in ToSet(cell.interface) :
            /\ export.grain # <<>> /\ InheritedKey(export, cell) # <<>>
            /\ ~\E column \in ToSet(InheritedKey(export, cell)) :
                  \E name \in ToSet(export.grain) : Same(name, column)
        >> >>)

\* `apply_declarative_grain_inheritance`: a grain covers the key.
GrainRefusal(cell) ==
    FirstReason(<< <<"grain: coarser than the key",
        \E export \in ToSet(cell.interface) :
            /\ export.grain # <<>>
            /\ \E column \in ToSet(InheritedKey(export, cell)) :
                  ~\E name \in ToSet(export.grain) : Same(name, column)
        >> >>)

WithGrain(cell) ==
    [cell EXCEPT !.interface = Verdicts(LAMBDA export :
        [export EXCEPT !.grain =
            IF @ = <<>> THEN InheritedKey(export, cell) ELSE @], @)]

\* `sources_without_grain_backstop`: what `verify` cannot see duplicated.
WithoutBackstop(cell) ==
    IF \E export \in ToSet(cell.interface) : export.grain # <<>> THEN {}
    ELSE IncrementalSources(cell)

\* The tail of `config::load`, once the profile is resolved.
StaticRefusal(cell) ==
    FirstRefusal(<<ClaimRefusal(cell.transforms), NeverRefusal(cell),
                   BoundRefusal(cell), GateRefusal(cell), GrainRefusal(cell)>>)
=============================================================================
