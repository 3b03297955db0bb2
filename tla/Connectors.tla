------------------------------ MODULE Connectors ------------------------------
(***************************************************************************)
(* How a source of each connection type is read: which route a warehouse   *)
(* object takes, what a cursor predicate becomes on it, which types        *)
(* correspond, and which failures of a probe, an export or a staging read  *)
(* are told apart. A statement is what it reads and how, not its text:     *)
(* [via, object, billed, past], where `past` is the watermark it is cut at.*)
(*                                                                         *)
(* A connection is a record of a Profile; an object is a path [project,    *)
(* dataset, table], "" for a part that is not given.                       *)
(***************************************************************************)
EXTENDS Profile

\* `ObjectKind`: read directly, or only through a job.
Table == "table"
Query == "query"

\* `attach_alias`: one alias per connection, whatever its type.
AttachAlias(connection) == <<"__conn", connection>>

\* `install_load_sql`: the extension a type needs; a duckdb file needs none.
Extension(type) == IF type = "duckdb" THEN "" ELSE type

\* `attach_sql`: read only; the credentials of Snowflake and Postgres go
\* into a secret of the alias. Snowflake is not attached: every read is a
\* query under that secret, and a first one shows that it works.
Attach(c, alias) ==
    [attached |-> c.type # "snowflake",
     readOnly |-> TRUE,
     secret   |-> IF c.type \in {"snowflake", "postgres"} THEN alias ELSE <<>>,
     sslmode  |-> IF c.type = "postgres" THEN SslMode(c) ELSE ""]

\* `split_table_path`, `split_schema_table`: two parts, and for BigQuery a
\* project before them; elsewhere no part may be quoted.
PathParts(c, path) ==
    /\ path.dataset # "" /\ path.table # ""
    /\ c.type # "bigquery" => path.project = "" /\ ~path.quoted

\* `qualify`: the object as the session sees it. A path in another project
\* than the connection's is a job in the connection's own.
Foreign(c, path) ==
    c.type = "bigquery" /\ path.project \notin {"", c.project}

\* Who pays for a job: the billing project, else the connection's.
Billed(c) == IF c.billing # "" THEN c.billing ELSE c.project

-----------------------------------------------------------------------------
(* Classification. *)

\* `classify_table_type`.
KindOf(tableType) ==
    CASE tableType \in {"BASE TABLE", "CLONE", "SNAPSHOT"} -> Table
      [] tableType \in {"VIEW", "MATERIALIZED VIEW", "EXTERNAL"} -> Query
      [] OTHER -> ""

\* `dataset_of`: what one classification job covers.
DatasetOf(path) == <<path.project, path.dataset>>

\* `classify_one_dataset`: each object that was asked for is found and has
\* a known type; a blank description is none.
ClassifyDataset(project, paths, warehouse) ==
    LET object(path) == <<project, path.dataset, path.table>>
        missing == {path \in paths : object(path) \notin DOMAIN warehouse}
    IN  IF missing # {} THEN [refusal |-> "classify: not found", meta |-> <<>>]
        ELSE IF \E path \in paths : KindOf(warehouse[object(path)].type) = ""
        THEN [refusal |-> "classify: unknown table type", meta |-> <<>>]
        ELSE [refusal |-> Accepted,
              meta |-> [path \in paths |->
                 [kind |-> KindOf(warehouse[object(path)].type),
                  columns |-> warehouse[object(path)].columns,
                  descriptions |-> {column \in
                     DOMAIN warehouse[object(path)].columns :
                        column \in warehouse[object(path)].described}]]]

\* `bigquery::classify_objects`: per dataset, in the project of the path; an
\* object of another project is read by a job whatever it is there.
ClassifyBigquery(c, paths, warehouse) ==
    LET project(path) == IF path.project = "" THEN c.project ELSE path.project
        one(path) == ClassifyDataset(project(path), {path}, warehouse)
        bad == {path \in paths : one(path).refusal # Accepted}
    IN  IF bad # {} THEN one(CHOOSE path \in bad : TRUE)
        ELSE [refusal |-> Accepted,
              meta |-> [path \in paths |->
                 [one(path).meta[path] EXCEPT
                    !.kind = IF Foreign(c, path) THEN Query ELSE @]]]

\* `duckdb_file::classify_objects`: the attached file knows its columns.
ClassifyFile(paths, warehouse) ==
    LET object(path) == <<"", path.dataset, path.table>>
    IN  IF \E path \in paths : object(path) \notin DOMAIN warehouse
        THEN [refusal |-> "classify: not found", meta |-> <<>>]
        ELSE [refusal |-> Accepted,
              meta |-> [path \in paths |->
                 [kind |-> Table,
                  columns |-> warehouse[object(path)].columns,
                  descriptions |-> warehouse[object(path)].described]]]

\* `classify_objects` of Postgres and Snowflake: nothing is asked. What
\* Snowflake holds is always read by a query, what Postgres holds never is.
ClassifyUnasked(c, paths) ==
    [refusal |-> Accepted,
     meta |-> [path \in paths |->
        [kind |-> IF c.type = "snowflake" THEN Query ELSE Table,
         columns |-> <<>>, descriptions |-> {}]]]

\* `classify_objects_as`.
Classify(c, paths, warehouse) ==
    CASE \E path \in paths : ~PathParts(c, path) ->
           [refusal |-> "classify: malformed path", meta |-> <<>>]
      [] c.type = "bigquery" -> ClassifyBigquery(c, paths, warehouse)
      [] c.type = "duckdb"   -> ClassifyFile(paths, warehouse)
      [] OTHER               -> ClassifyUnasked(c, paths)

\* What is assumed of an object that could not be classified.
Unknown == [kind |-> Table, columns |-> <<>>, descriptions |-> {}]

\* `ClassifyCache::classify`: the siblings of a source in one job; once a
\* connection may not run jobs, none of its sources is classified.
CacheClassify(c, path, siblings, denied, warehouse) ==
    IF denied \/ (c.type = "bigquery" /\ ~c.mayRunJobs)
    THEN [refusal |-> Accepted, known |-> FALSE, denied |-> TRUE,
          meta |-> Unknown]
    ELSE LET asked == {other \in siblings \cup {path} :
                          DatasetOf(other) = DatasetOf(path)}
             answer == Classify(c, asked, warehouse)
         IN  [refusal |-> answer.refusal, known |-> answer.refusal = Accepted,
              denied |-> FALSE,
              meta |-> IF answer.refusal = Accepted THEN answer.meta[path]
                       ELSE Unknown]

-----------------------------------------------------------------------------
(* Reads. *)

\* `render_bq_predicate`: a mark is rendered in the type of the column.
PredicateRefusal(markType, columnType) ==
    IF \/ markType = "timestamp" /\ columnType \in {"TIMESTAMP", "DATETIME"}
       \/ markType = "date" /\ columnType = "DATE"
       \/ markType = "integer" /\ columnType = "INT64"
    THEN Accepted ELSE "predicate: type not supported on a job"

\* `with_utc_offset`, `strip_offset`: a TIMESTAMP literal names its offset,
\* a DATETIME literal has none, whatever the mark was stored with.
Offset(columnType, offset) ==
    CASE columnType = "TIMESTAMP" /\ offset = "none" -> "utc"
      [] columnType = "DATETIME"                     -> "none"
      [] OTHER                                       -> offset

\* `storage_read_sql`: the predicate is DuckDB's, in the mark's own type.
StorageRead(c, path, mark) ==
    [via |-> IF Foreign(c, path) THEN "job" ELSE "storage",
     object |-> path, billed |-> Billed(c), past |-> mark]

\* `google_select`, `wrap_bigquery_query`: one job, the predicate inside.
JobsRead(c, path, mark) ==
    [via |-> "job", object |-> path, billed |-> Billed(c), past |-> mark]

\* `read_sql`, over all types.
ReadSql(c, path, kind, mark) ==
    CASE c.type = "snowflake" ->
           [via |-> "server", object |-> path, billed |-> "", past |-> mark]
      [] c.type \in {"postgres", "duckdb"} ->
           [via |-> "attached", object |-> path, billed |-> "", past |-> mark]
      [] c.type = "bigquery" /\ kind = Table -> StorageRead(c, path, mark)
      [] OTHER                               -> JobsRead(c, path, mark)

\* `query_read_sql`: the author's SQL, on the server's side.
QueryRead(c, query) ==
    [via |-> IF c.type = "bigquery" THEN "job"
             ELSE IF c.type = "duckdb" THEN "attached" ELSE "server",
     object |-> query,
     billed |-> IF c.type = "bigquery" THEN Billed(c) ELSE "", past |-> {}]

\* `export_sql`, `query_export_sql`: only BigQuery, only to its staging URI.
CanExport(c) == c.type = "bigquery" /\ c.staging # ""

ExportStatement(c, object, mark, prefix) ==
    [via |-> "export", object |-> object, billed |-> Billed(c),
     past |-> mark, into |-> prefix]

\* `query_dry_run_sql`, `is_dry_run_query_error`: what a dry run refuses is
\* wrong SQL; anything else it says is not held against the query.
DryRunRefuses(c, failure) ==
    c.type = "bigquery" /\ failure \in
        {"Syntax error", "Invalid query", "Unrecognized name",
         "Not found: Table", "Not found: Dataset", "Duplicate column"}

\* `is_jobs_permission_denied`, `is_response_too_large`.
JobsDenied(c, failure) ==
    c.type = "bigquery"
      /\ failure \in {"bigquery.jobs.create", "access denied"}

TooLarge(c, failure) ==
    c.type = "bigquery" /\ failure = "Response too large to return"

\* Errors reach the operator without the secret they were caused by:
\* `rewrite_attach_error` of Snowflake and Postgres redact it.
AttachError(c, told) ==
    IF c.type = "snowflake" THEN told \ {c.passphrase}
    ELSE IF c.type = "postgres" THEN told \ {c.password}
    ELSE told

\* `integer_cursor_accepts_decimal`: Snowflake's integers are decimals.
DecimalCursor(c) == c.type = "snowflake"

\* `prepare`: one credentials file for the process, which exists, and every
\* key file exists.
PrepareRefusal(connections) ==
    LET files == {Rebased(c.credentials) : c \in
                    {c \in connections : c.type = "bigquery"
                                           /\ c.credentials # ""}}
    IN  FirstReason(<<
        <<"credentials: two files in one run", Cardinality(files) > 1>>,
        <<"credentials: no such file", "missing" \in files>>,
        <<"key: no such file",
          \E c \in connections : c.type = "snowflake" /\ c.key = "missing">> >>)

-----------------------------------------------------------------------------
(* Types. *)

\* The declared type names, as families of synonyms.
Family(declared) ==
    CASE declared \in {"string", "varchar", "text"} -> "string"
      [] declared \in {"int", "integer"}            -> "integer"
      [] declared \in {"bigint", "long"}            -> "bigint"
      [] declared \in {"decimal", "numeric"}        -> "decimal"
      [] declared \in {"double", "float"}           -> "double"
      [] declared \in {"bool", "boolean"}           -> "boolean"
      [] OTHER                                      -> declared

\* `type_compatible` of verify: what DuckDB reports for a declared type.
DuckTypes == [
    string    |-> {"VARCHAR", "TEXT"},
    integer   |-> {"INTEGER", "INT", "INT32"},
    bigint    |-> {"BIGINT", "INT64"},
    decimal   |-> {"DECIMAL(18,2)", "NUMERIC"},
    double    |-> {"DOUBLE", "FLOAT", "REAL"},
    boolean   |-> {"BOOLEAN"},
    date      |-> {"DATE"},
    timestamp |-> {"TIMESTAMP", "TIMESTAMP WITH TIME ZONE"}]

TypeCompatible(declared, actual) ==
    Family(declared) \in DOMAIN DuckTypes
      /\ actual \in DuckTypes[Family(declared)]

\* `bigquery::type_compatible`: integers have one width there.
NativeTypes == [
    string    |-> {"STRING"},
    integer   |-> {"INT64"},
    bigint    |-> {"INT64"},
    decimal   |-> {"NUMERIC", "BIGNUMERIC"},
    double    |-> {"FLOAT64"},
    boolean   |-> {"BOOL"},
    date      |-> {"DATE"},
    timestamp |-> {"TIMESTAMP", "DATETIME"}]

\* `native_type_compatible`: only BigQuery's native types are known.
NativeKnown(connector) == connector = "bigquery"

NativeCompatible(declared, native) ==
    Family(declared) \in DOMAIN NativeTypes
      /\ native \in NativeTypes[Family(declared)]

\* `duckdb_declared_type_for` and the connector's `declared_type_for`: the
\* type discovery writes down for a column it found; "" for none.
SuggestDuck(actual) ==
    LET fits == {family \in DOMAIN DuckTypes : actual \in DuckTypes[family]}
    IN  IF fits = {} THEN "" ELSE CHOOSE family \in fits : TRUE

SuggestNative(native) ==
    LET fits == {family \in DOMAIN NativeTypes \ {"integer"} :
                    native \in NativeTypes[family]}
    IN  IF fits = {} THEN "" ELSE CHOOSE family \in fits : TRUE

\* `column_type_ok`: the warehouse's type where it is known, else DuckDB's.
ColumnTypeOk(connector, native, declared, actual) ==
    IF NativeKnown(connector) /\ native # ""
    THEN NativeCompatible(declared, native)
    ELSE TypeCompatible(declared, actual)
=============================================================================
