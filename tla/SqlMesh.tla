-------------------------------- MODULE SqlMesh --------------------------------
(***************************************************************************)
(* What `sync` reads of SQLMesh: the state store's environment and the     *)
(* snapshots it names, the columns of the warehouse's views, and the       *)
(* column descriptions that are comments of the models' SQL.               *)
(*                                                                         *)
(* A model's name is [catalog, schema, table], catalog "" when it has none.*)
(* A store has `versions`, a sequence; `environments`, a function; and the *)
(* sets `snapshots` and `intervals`.                                       *)
(***************************************************************************)
EXTENDS Connectors

CONSTANT Suffixed    \* a function: <<name, environment>> to `name__environment`

SupportedSchemas == {100}

\* `read_versions`, `check_schema_version`.
VersionsRefusal(store) ==
    FirstReason(<<
        <<"state: no versions", store.versions = <<>> >>,
        <<"state: several versions", Len(store.versions) > 1>>,
        <<"state: schema version",
          ~(ToSet(store.versions) \subseteq SupportedSchemas)>> >>)

\* `Fingerprint::identifier`: a checksum of the four hashes, joined. The
\* data hash alone is no identifier, and neither is the version.
Identifier(fp) ==
    <<fp.data, fp.metadata, fp.parentData, fp.parentMetadata>>

\* `SuffixTarget::parse`.
SuffixRefusal(env) ==
    IF env.suffix \in {"", "schema", "table", "catalog"}
    THEN Accepted ELSE "state: unknown suffix target"

SuffixTarget(env) == IF env.suffix = "" THEN "schema" ELSE env.suffix

\* `is_promoted`: without a list every snapshot of the environment is.
Promoted(env, entry) ==
    env.promoted.given => <<entry.name, Identifier(entry.fingerprint)>>
                             \in env.promoted.ids

\* `view_of`: where a model's view is. An unpromoted model of a development
\* environment has the view of production.
ViewOf_dev(env, name, promoted) ==    \* mutant: promotion is not looked at
    LET dev == env.name # "prod"
        target == SuffixTarget(env)
    IN  [catalog |-> IF target = "catalog" /\ dev /\ name.catalog # ""
                     THEN Suffixed[<<name.catalog, env.name>>]
                     ELSE IF env.catalog # "" THEN env.catalog ELSE name.catalog,
         schema  |-> IF dev /\ target = "schema"
                     THEN Suffixed[<<name.schema, env.name>>] ELSE name.schema,
         table   |-> IF dev /\ target = "table"
                     THEN Suffixed[<<name.table, env.name>>] ELSE name.table]

ViewOf(env, name, promoted) ==
    LET dev == env.name # "prod" /\ promoted
        target == SuffixTarget(env)
    IN  [catalog |-> IF target = "catalog" /\ dev /\ name.catalog # ""
                     THEN Suffixed[<<name.catalog, env.name>>]
                     ELSE IF env.catalog # "" THEN env.catalog ELSE name.catalog,
         schema  |-> IF dev /\ target = "schema"
                     THEN Suffixed[<<name.schema, env.name>>] ELSE name.schema,
         table   |-> IF dev /\ target = "table"
                     THEN Suffixed[<<name.table, env.name>>] ELSE name.table]

\* `read_environment`: the row, its plan, and every snapshot it lists.
EnvironmentRefusal(store, environment) ==
    IF environment \notin DOMAIN store.environments
    THEN "state: no such environment"
    ELSE LET env == store.environments[environment]
         IN  FirstReason(<<
             <<"state: no plan", env.plan = 0>>,
             <<SuffixRefusal(env), SuffixRefusal(env) # Accepted>> >>)

\* `read_sqlmesh`: an environment whose plan is in flight is asked again
\* later, with an exit status of its own.
InFlight(env) == env.finalized = 0

\* `read_models`: the snapshot row of an entry, by name and identifier.
RowsOf(store, entry) ==
    {row \in store.snapshots :
        /\ row.name = entry.name
        /\ Identifier(row.fingerprint) = Identifier(entry.fingerprint)}

ModelsRefusal(store, env) ==
    FirstReason(<<
        <<"state: snapshot missing",
          \E entry \in ToSet(env.snapshots) : RowsOf(store, entry) = {}>>,
        <<"state: snapshot listed twice",
          \E m, n \in DOMAIN env.snapshots :
              m # n /\ RowsOf(store, env.snapshots[m])
                         \cap RowsOf(store, env.snapshots[n]) # {}>> >>)

\* `object`: the name a model goes by in cell.yaml, without its catalog.
ObjectName(name) == <<name.schema, name.table>>

\* `grain_columns`: a composite grain is its columns.
GrainColumns(row) == FlattenSeq(row.grains)

-----------------------------------------------------------------------------
(* `column_descriptions`: the comments of a SELECT, by SQLMesh's rules. A  *)
(* token is [kind, word, text, line, comments]: what it is, its keyword in *)
(* upper case ("" for none), its text, the line it ends on, and the        *)
(* comments attached to it.                                                *)

Terminators ==
    {"FROM", "WHERE", "GROUP", "HAVING", "WINDOW", "QUALIFY", "ORDER", "LIMIT",
     "OFFSET", "UNION", "INTERSECT", "EXCEPT", "FETCH", "INTO"}
NotAnAlias ==
    {"END", "NULL", "DISTINCT", "ALL", "AS", "AND", "OR", "NOT", "IN", "IS",
     "CASE", "WHEN", "THEN", "ELSE", "OVER", "BY", "SELECT", "CAST", "ON"}

\* `attach_comment`: a comment belongs to the token that ends on its line,
\* else to the next one. A lexeme is a token, or a comment.
Tokens(lexemes) ==
    LET step(state, lexeme) ==
          IF lexeme.kind # "comment"
          THEN [toks |-> Append(state.toks,
                            [lexeme EXCEPT !.comments = state.pending]),
                pending |-> <<>>]
          ELSE IF state.toks # <<>> /\ Last(state.toks).line = lexeme.line
          THEN [state EXCEPT !.toks[Len(state.toks)].comments =
                                Append(@, lexeme.text)]
          ELSE [state EXCEPT !.pending = Append(@, lexeme.text)]
    IN  FoldLeft(step, [toks |-> <<>>, pending |-> <<>>], lexemes).toks

\* The depth of brackets before each token.
Depth(toks) ==
    LET d[n \in 1..Len(toks)] ==
          IF n = 1 THEN 0
          ELSE d[n - 1] + (CASE toks[n - 1].text = "(" -> 1
                             [] toks[n - 1].text = ")" -> -1
                             [] OTHER -> 0)
    IN  d

\* `main_select`: the outermost SELECT, or the first in one pair of brackets.
MainSelect(toks) ==
    LET at(depth) == {n \in DOMAIN toks :
                        toks[n].word = "SELECT" /\ Depth(toks)[n] = depth}
        first(top, inner) == CASE top # {}   -> Min(top)
                               [] inner # {} -> Min(inner)
                               [] OTHER      -> 0
    IN  first(at(0), at(1))

\* `is_name`.
IsName(tok, explicit) ==
    \/ tok.kind = "quoted"
    \/ tok.kind = "word" /\ (explicit \/ tok.word \notin NotAnAlias)

\* `is_column_ref`: names with dots between.
IsColumnRef(p) ==
    /\ Len(p) % 2 = 1
    /\ \A n \in DOMAIN p : IF n % 2 = 1 THEN IsName(p[n], FALSE)
                           ELSE p[n].text = "."

\* `shape`: the length of a projection without its alias.
Body(p) ==
    LET n == Len(p)
    IN  CASE n >= 3 /\ p[n - 1].word = "AS" /\ IsName(p[n], TRUE) -> n - 2
          [] /\ n >= 2 /\ IsName(p[n], FALSE)
             /\ \/ p[n - 1].text = ")" \/ p[n - 1].kind \in {"quoted", "string"}
                \/ /\ p[n - 1].kind = "word"
                   /\ p[n - 1].word \notin (NotAnAlias \ {"END"}) -> n - 1
          [] OTHER -> n

\* `projection_name`; "" for an expression without one.
ProjectionName(p) ==
    IF Body(p) < Len(p) THEN p[Len(p)].text
    ELSE IF IsColumnRef(p) THEN p[Len(p)].text ELSE ""

\* `closes_this`: whether the last token of a body closes a node that keeps
\* its comments.
ClosesThis(body) ==
    LET end == Last(body)
    IN  CASE end.text = ")" \/ end.word = "END" -> TRUE
          [] end.kind = "string"                -> Len(body) = 1
          [] end.kind \in {"word", "quoted"}    ->
               IsColumnRef(body) \/ Len(body) = 1
          [] OTHER -> FALSE

\* The comments that describe a projection: of its first token, of the one
\* that ends its body, of its alias, and of the comma behind it.
CommentsOf(p, comma) ==
    LET body == SubSeq(p, 1, Body(p))
    IN  p[1].comments
        \o (IF Len(p) > 1 /\ ClosesThis(body) THEN Last(body).comments ELSE <<>>)
        \o (IF Body(p) < Len(p) THEN Last(p).comments ELSE <<>>)
        \o comma

\* The projections of a SELECT, as [from, to] in the tokens: what lies
\* between commas, up to the clause behind them. The modifiers of a star
\* are no clause.
Cut(first, stop, commas) ==
    {range \in {<<n, Min({m \in commas : m >= n} \cup {stop}) - 1>>
                  : n \in {first} \cup {m + 1 : m \in commas}} :
        range[1] <= range[2]}

CutFrom(toks, depth, select, first) ==
    LET modifier(n) == /\ toks[n].word \in {"EXCEPT", "REPLACE"}
                       /\ n < Len(toks) /\ toks[n + 1].text = "("
        stops(n) == \/ toks[n].text = ")" /\ depth[n] <= depth[select]
                    \/ /\ depth[n] = depth[select] /\ ~modifier(n)
                       /\ toks[n].word \in Terminators
        comma(n) == toks[n].text = "," /\ depth[n] = depth[select]
        upTo(stop) == Cut(first, stop, {n \in first..(stop - 1) : comma(n)})
    IN  upTo(Min({n \in first..Len(toks) : stops(n)} \cup {Len(toks) + 1}))

ProjectionsOf(toks, select) ==
    IF select = 0 THEN {}
    ELSE CutFrom(toks, Depth(toks), select,
                 select + (IF select < Len(toks)
                              /\ toks[select + 1].word \in {"DISTINCT", "ALL"}
                           THEN 2 ELSE 1))

Projections(toks) == ProjectionsOf(toks, MainSelect(toks))

\* The projections that have a name and comments.
Commented(toks) ==
    LET comma(r) == IF r[2] < Len(toks) /\ toks[r[2] + 1].text = ","
                    THEN toks[r[2] + 1].comments ELSE <<>>
        tell(r, text) == [at |-> r[1], name |-> ProjectionName(text),
                          comments |-> CommentsOf(text, comma(r))]
    IN  {told \in {tell(r, SubSeq(toks, r[1], r[2])) : r \in Projections(toks)} :
            told.name # "" /\ told.comments # <<>>}

\* Of each name the last projection that has it, and its last comment.
LastComments(told) ==
    [name \in {t.name : t \in told} |->
        Last((CHOOSE t \in told : /\ t.name = name
                                  /\ \A s \in told : s.name = name
                                        => s.at <= t.at).comments)]

\* `column_descriptions`.
ColumnDescriptions(lexemes) == LastComments(Commented(Tokens(lexemes)))

-----------------------------------------------------------------------------
(* The models, as `sync` finds them. *)

\* `read_models`: one record per entry of the environment, in its order.
StateModel(store, env, entry) ==
    LET row == CHOOSE row \in RowsOf(store, entry) : TRUE
    IN  [name         |-> entry.name,
         object       |-> ObjectName(entry.name),
         view         |-> ViewOf(env, entry.name, Promoted(env, entry)),
         identifier   |-> Identifier(row.fingerprint),
         version      |-> row.version,
         dataHash     |-> row.fingerprint.data,
         kind         |-> row.kind,
         tags         |-> row.tags,
         description  |-> row.description,
         columns      |-> row.columns,
         descriptions |-> IF row.descriptions # <<>> THEN row.descriptions
                          ELSE ColumnDescriptions(row.query),
         grain        |-> GrainColumns(row),
         parents      |-> row.parents]

StateModels(store, env) ==
    [n \in DOMAIN env.snapshots |-> StateModel(store, env, env.snapshots[n])]

\* `read_intervals`: what production covers; a development interval or a
\* removed one does not count, one that awaits a restatement does.
IntervalOf(store, model) ==
    LET rows == {row \in store.intervals :
                    /\ row.name = model.name /\ row.version = model.version
                    /\ ~row.dev /\ ~row.removed}
    IN  IF rows = {} THEN [from |-> 0, to |-> 0, pending |-> FALSE]
        ELSE [from    |-> Min({row.start : row \in rows}),
              to      |-> Max({row.end : row \in rows}),
              pending |-> \E row \in rows : row.pending]

\* `read_columns`: what a warehouse connection tells of the views; each
\* project of BigQuery is asked by itself, Postgres sees its own database.
ColumnsRefusal(c, models, warehouse) ==
    CASE c.type = "snowflake" -> "discover: warehouse not supported"
      [] c.type = "bigquery" /\ \E model \in ToSet(models) :
            model.view \notin DOMAIN warehouse -> "classify: not found"
      [] OTHER -> Accepted

ReadColumns(c, view, warehouse) ==
    IF view \in DOMAIN warehouse
       /\ (c.type = "postgres" => view.catalog \in {"", c.database})
    THEN warehouse[view]
    ELSE [columns |-> <<>>, described |-> <<>>, table |-> ""]
=============================================================================
