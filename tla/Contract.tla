------------------------------- MODULE Contract -------------------------------
(***************************************************************************)
(* What is promised of an export and what is known of it: `verify` checks  *)
(* the interface against the tables it reads and records what it measured, *)
(* `release` pins the supported exports and compares their meaning with    *)
(* the previous release, `import` writes an export from a live source.     *)
(*                                                                         *)
(* A table is [columns, rows]: a function from its column names to types,  *)
(* and a sequence of rows, functions of those columns; NULL is no value.   *)
(* What bind_sources learnt of a warehouse object is [connector, columns,  *)
(* described], NoWarehouse when the source is of none.                     *)
(***************************************************************************)
EXTENDS Sources, Ossie, Discovery

CONSTANT Words      \* a function: the texts, as sequences of words

NULL == ""
NoWarehouse == [connector |-> "", columns |-> <<>>, described |-> <<>>]

\* The table an export reads: the bound source, or a table of the lake.
ReadsFrom(export) == IF IsBound(export) THEN export.bind ELSE SourceObject(export)

\* `eq_ignore_ascii_case`, over the columns a table has.
ColumnLike(table, name) == {column \in DOMAIN table.columns : Same(column, name)}

ColumnOf(table, name) == CHOOSE column \in ColumnLike(table, name) : TRUE

\* `describe`: DESCRIBE of what the session sees under the name.
DescribeRefusal(session, export) ==
    IF ReadsFrom(export) \in DOMAIN session THEN Accepted
    ELSE "verify: no such table"

\* The warehouse's own type of a column; "" for none.
NativeType(warehouse, name) ==
    LET like == {column \in DOMAIN warehouse.columns : Same(column, name)}
    IN  IF like = {} THEN "" ELSE warehouse.columns[CHOOSE c \in like : TRUE]

\* Every declared column is there, with its type.
SchemaRefusal(export, table, warehouse) ==
    LET missing(name) == ColumnLike(table, name) = {}
        actual(name) == table.columns[ColumnOf(table, name)]
    IN  FirstReason(<<
        <<"verify: declared column missing",
          \E name \in DOMAIN export.schema : missing(name)>>,
        <<"verify: declared type does not match",
          \E name \in DOMAIN export.schema :
              ~missing(name)
                /\ ~ColumnTypeOk(warehouse.connector, NativeType(warehouse, name),
                                 export.schema[name].type, actual(name))>> >>)

-----------------------------------------------------------------------------
(* Counting. *)

\* `grain_counts`: rows, and distinct tuples with NULL one value of each.
Projected(table, columns) ==
    {[n \in DOMAIN columns |->
        row[ColumnOf(table, columns[n])]] : row \in ToSet(table.rows)}

Nulls(table, name) ==
    Len(SelectSeq(table.rows, LAMBDA row : row[ColumnOf(table, name)] = NULL))

GrainCounts(table, grain) ==
    [total    |-> Len(table.rows),
     distinct |-> Cardinality(Projected(table, grain)),
     nullRows |-> [column \in ToSet(grain) |-> Nulls(table, column)]]

\* `describe_null_rows`: the grain columns a grain filter cannot reach.
UnreachableRows(counts) ==
    {column \in DOMAIN counts.nullRows : counts.nullRows[column] > 0}

GrainUniqueRefusal(export, table) ==
    LET counts == GrainCounts(table, export.grain)
    IN  FirstReason(<<
        <<"verify: grain column missing",
          \E column \in ToSet(export.grain) : ColumnLike(table, column) = {}>>,
        <<"verify: grain is not unique",
          /\ export.grain # <<>>
          /\ \A column \in ToSet(export.grain) : ColumnLike(table, column) # {}
          /\ counts.total # counts.distinct>> >>)

CensusDistinctMax == 50
CensusTopValues == 5

\* `column_census`, of one column. The values of a grain column, of an empty
\* one, and of one with many by the estimate are not counted.
Census(export, table, name, estimate) ==
    LET values == {v \in {row[name] : row \in ToSet(table.rows)} : v # NULL}
        counted == /\ ~\E g \in ToSet(export.grain) : Same(g, name)
                   /\ Nulls(table, name) < Len(table.rows)
        over == estimate > 2 * CensusDistinctMax
                  \/ Cardinality(values) > CensusDistinctMax
    IN  [nullRows |-> Nulls(table, name),
         over     |-> counted /\ over,
         distinct |-> IF counted /\ ~over THEN Cardinality(values) ELSE -1,
         top      |-> IF counted /\ ~over
                      THEN Min({Cardinality(values), CensusTopValues}) ELSE 0]

\* The measurement of one export; {} when there is nothing to record: an
\* unbound export without a grain.
Measurement(export, table, estimates) ==
    LET census == IF ~IsBound(export) THEN <<>>
                  ELSE [name \in DOMAIN export.schema |->
                           Census(export, table, ColumnOf(table, name),
                                  estimates[name])]
        counts == GrainCounts(table, export.grain)
    IN  IF export.grain # <<>>
        THEN {[check |-> "grain_unique", rows |-> counts.total,
               distinct |-> counts.distinct, nullRows |-> counts.nullRows,
               columns |-> census]}
        ELSE IF IsBound(export)
        THEN {[check |-> "schema", rows |-> Len(table.rows), distinct |-> -1,
               nullRows |-> <<>>, columns |-> census]}
        ELSE {}

-----------------------------------------------------------------------------
(* Prose that the data contradicts: a warning, of `verify` and `release`. *)

EmptyClaimPhrases ==
    {<<"currently", "null">>, <<"backfill", "pending">>,
     <<"not", "yet", "populated">>, <<"not", "populated">>,
     <<"always", "null">>, <<"empty">>}

\* `claims_emptiness`: the phrase as whole words, unless it is negated.
ClaimsEmptiness(words) ==
    \E phrase \in EmptyClaimPhrases, n \in DOMAIN words :
        /\ n + Len(phrase) - 1 <= Len(words)
        /\ SubSeq(words, n, n + Len(phrase) - 1) = phrase
        /\ n > 1 => words[n - 1] \notin {"non-", "not", "never"}

\* `empty_claims_for`: what is said of the columns of an export, by itself,
\* else by the warehouse, and by every definition of the column.
EmptyClaims(export, described, terms) ==
    LET own(name) == export.schema[name].description
        theirs(name) == IF name \in DOMAIN described THEN described[name] ELSE ""
    IN  {<<name, IF own(name) # "" THEN own(name) ELSE theirs(name)>> :
            name \in {name \in DOMAIN export.schema :
                        own(name) # "" \/ theirs(name) \notin {"", "blank"}}}
        \cup
        UNION {{<<entry.column, term.description>> : entry \in
                  {entry \in term.appliesTo :
                     /\ entry.column \in DOMAIN export.schema
                     /\ <<entry.name, entry.major>> = Route(export)}}
               : term \in ToSet(terms)}

Contradictions(claims, measurement) ==
    {claim \in claims :
        /\ claim[1] \in DOMAIN measurement.columns
        /\ measurement.rows > 0
        /\ measurement.columns[claim[1]].nullRows < measurement.rows
        /\ ClaimsEmptiness(Words[claim[2]])}

-----------------------------------------------------------------------------
(* `check` and the records of `verify`. *)

\* `check_reserved_prefix`: only the watermarks are the engine's.
ReservedRefusal(lake) ==
    IF lake \cap ReservedNames \subseteq {"__datamk_watermarks"} THEN Accepted
    ELSE "verify: reserved table"

\* `check_supported_have_descriptions`: a supported export says what a row
\* means, or its warehouse does.
SupportedRefusal(cell, native) ==
    LET silent(export) ==
          /\ export.contract = "supported"
          /\ export.description \in {"", "blank"}
          /\ ~(/\ IsBound(export)
               /\ export.bind \in DOMAIN native
               /\ native[export.bind].described # <<>>)
    IN  IF \E export \in ToSet(cell.interface) : silent(export)
        THEN "verify: supported without a description" ELSE Accepted

WarehouseOf(export, native) ==
    IF IsBound(export) /\ export.bind \in DOMAIN native
    THEN native[export.bind] ELSE NoWarehouse

ExportRefusal(export, session, native) ==
    LET table == session[ReadsFrom(export)]
    IN  IF DescribeRefusal(session, export) # Accepted
        THEN DescribeRefusal(session, export)
        ELSE FirstRefusal(<<SchemaRefusal(export, table, WarehouseOf(export, native)),
                            GrainUniqueRefusal(export, table)>>)

\* `check`: the whole interface, then the semantic models over it.
CheckRefusal(cell, session, lake, native, models) ==
    FirstRefusal(
        <<ReservedRefusal(lake), SupportedRefusal(cell, native)>>
        \o Verdicts(LAMBDA export : ExportRefusal(export, session, native),
                    cell.interface)
        \o <<SemanticRefusal(SemanticOutcome(models, cell.interface))>>)

\* The measurements of a check, by route; of two exports with one route the
\* later.
Measurements(cell, session, estimates) ==
    LET of(export) == Measurement(export, session[ReadsFrom(export)], estimates)
        measured == {n \in DOMAIN cell.interface : of(cell.interface[n]) # {}}
        last(route) == Max({n \in measured : Route(cell.interface[n]) = route})
    IN  [route \in {Route(cell.interface[n]) : n \in measured} |->
            CHOOSE m \in of(cell.interface[last(route)]) : TRUE]

HasBound(cell) == \E export \in ToSet(cell.interface) : IsBound(export)

\* `--semantic-only`: nothing but the semantic models, over empty views.
SemanticOnlyRefusal(cell, semantic, models) ==
    FirstReason(<<
        <<"verify: no semantic model", ~semantic>>,
        <<SemanticRefusal(SemanticOutcome(models, cell.interface)),
          semantic /\ SemanticRefusal(SemanticOutcome(models, cell.interface))
                        # Accepted>> >>)

\* `write_semantic_check_record`, `write_source_check_record`: the digest is
\* of the cell.yaml that is there when the record is written.
SemanticCheckRecord(digest, profile, content, outcome) ==
    [kind |-> "semantic_check", digest |-> digest, profile |-> profile,
     content |-> content, outcome |-> outcome]

SourceCheckRecord(digest, profile, measurements) ==
    [kind |-> "source_check", digest |-> digest, profile |-> profile,
     exports |-> measurements]

\* `SourceDescriptionsRecord::write`: only what the bound sources' own
\* warehouse says; when it says nothing, the previous record stays.
DescriptionsRecord(previous, digest, profile, cell, native) ==
    LET bound == {export.bind : export \in ToSet(cell.interface)}
        says == {name \in DOMAIN native \cap bound :
                    native[name].described # <<>>}
    IN  IF says = {} THEN previous
        ELSE [kind |-> "source_descriptions", digest |-> digest,
              profile |-> profile,
              sources |-> [name \in says |-> native[name].described]]

\* `semantic_summary_lines`: what the operator reads of an outcome.
SemanticSummary(outcome) ==
    LET count(entries, status) ==
          Cardinality({entry \in entries : entry[3] = status})
        tally(entries) == [verified |-> count(entries, "verified"),
                           failed |-> count(entries, "error"),
                           other |-> Cardinality(entries)
                                       - count(entries, "verified")
                                       - count(entries, "error")]
    IN  [failed |-> {key \in DOMAIN outcome.datasets :
                       "error" \in Range(outcome.datasets[key].fields)
                                     \cup {outcome.datasets[key].key}},
         unbound |-> outcome.unbound,
         metrics |-> tally(outcome.metrics),
         relationships |-> tally(outcome.relationships)]

-----------------------------------------------------------------------------
(* `datamk release`. *)

\* `applies_to_route`: an entry for the route, or for a column of it.
AppliesToRoute(entry, route) == <<entry.name, entry.major>> = route

\* What a sync or a warehouse said of an item is not its author's.
Authored(item) == "from" \in DOMAIN item => item.from = "cell.yaml"

FoldedTerm(term) == <<term.name, term.aliases, term.description, term.docs>>

\* `description_digest`: the meaning that its author gave to an export.
DescriptionDigest(export, terms) ==
    LET said(item) == IF Authored(item) THEN item.description ELSE ""
        applies(term) == \E entry \in term.appliesTo :
                            AppliesToRoute(entry, Route(export))
    IN  [description |-> said(export),
         columns |-> [name \in DOMAIN export.schema |->
                        <<export.schema[name].unit, said(export.schema[name])>>],
         docs  |-> export.docs,
         terms |-> {FoldedTerm(term) : term \in
                       {term \in ToSet(terms) : applies(term)}}]

\* `cell_description_digest`.
CellDescriptionDigest(cell) ==
    [description |-> cell.description, docs |-> cell.docs,
     terms |-> Verdicts(FoldedTerm, Terms(cell))]

\* The exports a release pins: a bound one has no snapshot of the cell's.
Pinned(cell) ==
    {export \in ToSet(cell.interface) :
        export.contract = "supported" /\ ~IsBound(export)}

ReleaseRefusal(source, semanticRecord, snapshots) ==
    FirstRefusal(<<PinRefusal(source, semanticRecord),
                   IF snapshots = {} THEN "release: no snapshots" ELSE Accepted>>)

\* `Published`.
Release(cell, snapshots) ==
    LET routes == {Route(export) : export \in Pinned(cell)}
        of(route) == CHOOSE export \in Pinned(cell) : Route(export) = route
    IN  [snapshot |-> Max(snapshots),
         routes |-> [route \in routes |-> Max(snapshots)],
         versions |-> [route \in routes |-> of(route).version],
         descriptions |-> [route \in routes |->
                              DescriptionDigest(of(route), Terms(cell))],
         meaning |-> CellDescriptionDigest(cell),
         docs |-> {page \in {cell.docs}
                      \cup {export.docs : export \in Discoverable(cell)}
                      \cup {term.docs : term \in ToSet(Terms(cell))} :
                        page.at # ""}]

\* `pinned_snapshots`: what maintenance must not expire.
PinnedSnapshots(published) ==
    Range(published.routes) \cup {published.snapshot}

\* What a release warns of: a meaning that moved under one version.
MovedUnderOneVersion(previous, next) ==
    {route \in DOMAIN next.descriptions \cap DOMAIN previous.descriptions :
        /\ previous.versions[route] = next.versions[route]
        /\ previous.descriptions[route] # next.descriptions[route]}

MeaningMoved(previous, next) == previous.meaning # next.meaning

-----------------------------------------------------------------------------
(* `datamk interface import`. The `interface:` list of cell.yaml is its     *)
(* entries in order, each [name, text], name "" when its first line does    *)
(* not begin with `- name:`.                                                *)

\* `resolve_bind_name`: the one that is asked for, or the only one.
ImportName(cell, bind) ==
    IF bind # "" THEN bind ELSE CHOOSE name \in DOMAIN cell.sources : TRUE

ImportRefusal(cell, bind, as, force) ==
    LET name == ImportName(cell, bind)
        chosen == IF bind # "" THEN bind \in DOMAIN cell.sources
                  ELSE Cardinality(DOMAIN cell.sources) = 1
    IN  FirstReason(<<
        <<"import: no such source, or several", ~chosen>>,
        <<"import: source cannot back an export",
          chosen /\ ~Bindable(cell.sources[name])>>,
        <<"import: export exists",
          ~force /\ \E export \in ToSet(cell.interface) : export.name = as>> >>)

ImportedType_duck(warehouse, name, actual) ==   \* mutant: as DuckDB has it
    IF SuggestDuck(actual) = "" THEN "unmapped" ELSE SuggestDuck(actual)

\* `resolve_column_type`: the warehouse's type if it knows the column, else
\* DuckDB's; a type without a name is written as `unmapped`.
ImportedType(warehouse, name, actual) ==
    LET native == NativeType(warehouse, name)
        suggested == IF NativeKnown(warehouse.connector) /\ native # ""
                     THEN SuggestNative(native)
                     ELSE IF native # "" THEN "" ELSE SuggestDuck(actual)
    IN  IF suggested = "" THEN "unmapped" ELSE suggested

\* `render_export_block`.
ImportedExport(as, bind, table, warehouse) ==
    [name |-> as, version |-> "1.0.0", major |-> 1, bind |-> bind, grain |-> <<>>,
     schema |-> [name \in DOMAIN table.columns |->
                    ImportedType(warehouse, name, table.columns[name])],
     contract |-> "experimental"]

\* `insert_or_replace`: the named entries, without the replaced one, and the
\* new one after them. What has no name in its first line is not copied.
Spliced(entries, block, force) ==
    LET named == SelectSeq(entries, LAMBDA entry : entry.name # "")
        collides == \E entry \in ToSet(named) : entry.name = block.name
        kept == IF force
                THEN SelectSeq(named, LAMBDA entry : entry.name # block.name)
                ELSE named
    IN  IF collides /\ ~force THEN kept ELSE Append(kept, block)
=============================================================================
