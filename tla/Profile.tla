-------------------------------- MODULE Profile --------------------------------
(***************************************************************************)
(* profiles/<name>.yaml: where a cell lives, and how the names its sources *)
(* use resolve there. Loading expands ${VAR} from the environment, checks  *)
(* each connection that a source of the cell uses, and leaves a connection *)
(* that the profile lacks for the command that needs it to refuse.         *)
(*                                                                         *)
(* A field is abstracted to how it is written: "" (absent), "plain" (no    *)
(* reference), "set", "empty", "unset" (one ${VAR} whose variable is so),  *)
(* "default" (unset, with a default), "mixed" (text around a reference     *)
(* that is set), "open" (a reference without its brace), or a literal the  *)
(* checks know by name.                                                    *)
(***************************************************************************)
EXTENDS Cell

ConnectionTypes == {"bigquery", "postgres", "snowflake", "duckdb"}
SslModes ==
    {"disable", "allow", "prefer", "require", "verify-ca", "verify-full"}
Browser == {"externalbrowser", "ext_browser"}

\* `expand`: a reference needs its brace, and a value or a default.
ExpandRefusal(field) ==
    FirstReason(<<
        <<"reference: no closing brace", field = "open">>,
        <<"reference: variable unset", field = "unset">> >>)

\* `expand_opt`: what expands to nothing is absent.
ExpandOpt(field) == IF field = "empty" THEN "" ELSE field

Given(field) == ExpandOpt(field) # ""

\* A secret is one reference and nothing else, and it has a value.
SecretRefusal(field) ==
    IF field = "" THEN Accepted
    ELSE FirstReason(<<
        <<"secret: not a single reference",
          field \notin {"set", "empty", "unset", "default"}>>,
        <<ExpandRefusal(field), ExpandRefusal(field) # Accepted>>,
        <<"secret: empty", field = "empty">> >>)

\* `resolve_postgres`: the role is named, the transport is encrypted unless
\* the profile says otherwise.
PostgresRefusal(c) ==
    FirstRefusal(<<
        ExpandRefusal(c.user),
        IF Given(c.user) THEN Accepted ELSE "postgres: no user",
        ExpandRefusal(c.port),
        IF c.port \in {"", "empty", "number"} THEN Accepted
        ELSE "postgres: port out of 0..65535",
        SecretRefusal(c.password),
        ExpandRefusal(c.sslmode),
        IF Given(c.sslmode) /\ ExpandOpt(c.sslmode) \notin SslModes
        THEN "postgres: unknown sslmode" ELSE Accepted>>)

SslMode(c) == IF Given(c.sslmode) THEN ExpandOpt(c.sslmode) ELSE "require"

\* `resolve_snowflake`: a key pair or a browser, never a password.
KeyPairRefusal(c) ==
    FirstRefusal(<<
        IF Given(c.user) THEN Accepted ELSE "snowflake: key pair without user",
        SecretRefusal(c.passphrase),
        ExpandRefusal(c.key)>>)

BrowserRefusal(c) ==
    FirstRefusal(<<
        IF c.passphrase = "" THEN Accepted
        ELSE "snowflake: passphrase without key pair",
        ExpandRefusal(c.authenticator),
        IF c.authenticator \in Browser THEN Accepted
        ELSE "snowflake: unknown authenticator",
        IF Given(c.user) THEN Accepted ELSE "snowflake: browser without user">>)

SnowflakeRefusal(c) ==
    FirstRefusal(<<
        IF c.password = "" THEN Accepted ELSE "snowflake: password",
        ExpandRefusal(c.user),
        CASE c.key # "" /\ c.authenticator # "" -> "snowflake: two mechanisms"
          [] c.key # "" /\ c.authenticator = "" -> KeyPairRefusal(c)
          [] c.key = "" /\ c.authenticator # "" -> BrowserRefusal(c)
          [] OTHER -> "snowflake: no mechanism">>)

\* `resolve_bigquery` only expands.
BigqueryRefusal(c) ==
    FirstRefusal(<<ExpandRefusal(c.project), ExpandRefusal(c.credentials)>>)

\* `resolve_duckdb`.
DuckdbRefusal(c) ==
    FirstRefusal(<<ExpandRefusal(c.path),
                   IF Given(c.path) THEN Accepted ELSE "duckdb: no path">>)

\* `resolve_connection`.
ConnectionRefusal(c) ==
    CASE c.type = "bigquery"  -> BigqueryRefusal(c)
      [] c.type = "postgres"  -> PostgresRefusal(c)
      [] c.type = "snowflake" -> SnowflakeRefusal(c)
      [] c.type = "duckdb"    -> DuckdbRefusal(c)

\* `resolve_named_connection`: the two connections of `discover:`.
NamedRefusal(profile, name) ==
    IF name \notin DOMAIN profile.connections THEN "profile: no such connection"
    ELSE ConnectionRefusal(profile.connections[name])

\* `parse_duration`, on the parts of the text: digits (-1 for none that
\* parse) and a suffix. The seconds are a u64.
DurationRefusal(lookback) ==
    FirstReason(<<
        <<"lookback: no unit",
          lookback.suffix = "" /\ lookback.digits >= 0>>,
        <<"lookback: malformed",
          \/ lookback.digits < 0
          \/ lookback.suffix \notin {"s", "m", "h", "d"}>>,
        <<"lookback: zero", lookback.digits = 0>> >>)

Seconds(lookback) ==
    lookback.digits * (CASE lookback.suffix = "s" -> 1
                         [] lookback.suffix = "m" -> 60
                         [] lookback.suffix = "h" -> 3600
                         [] OTHER                 -> 86400)

\* `resolve_incremental`: a bare column, and a window if one is given.
IncrementalRefusal(source) ==
    FirstReason(<<
        <<"incremental: cursor is no identifier",
          source.cursor \notin Identifiers>>,
        <<DurationRefusal(source.lookback),
          source.lookback.given
            /\ DurationRefusal(source.lookback) # Accepted>> >>)

\* `substitute_connection_bindings`: ${connection.project} is BigQuery's.
PlaceholderRefusal(placeholders, type) ==
    FirstReason(<<
        <<"query: project does not apply",
          "project" \in placeholders /\ type # "bigquery">>,
        <<"query: unknown placeholder", placeholders \ {"project"} # {}>> >>)

\* `resolve`, for one source of the cell.
BindingRefusal(source, profile) ==
    LET kind == SourceKind(source)
        bound == kind \in {"table", "query"}
                   /\ source.connection \in DOMAIN profile.connections
        connection == profile.connections[source.connection]
    IN  CASE kind = "raw" -> ExpandRefusal(source.text)
          [] kind = "cell" ->
               IF source.cell \in profile.cells THEN ExpandRefusal(source.text)
               ELSE "profile: no such cell"
          [] OTHER ->
               IF ~bound THEN Accepted
               ELSE FirstRefusal(<<
                   ConnectionRefusal(connection),
                   IF kind = "query" /\ IsIncremental(source)
                   THEN "query: incremental" ELSE Accepted,
                   IF IsIncremental(source) THEN IncrementalRefusal(source)
                   ELSE Accepted,
                   IF kind = "query"
                   THEN PlaceholderRefusal(source.placeholders, connection.type)
                   ELSE Accepted,
                   ExpandRefusal(source.text)>>)

\* `ResolvedSource::MissingConnection`: deferred to who needs it.
MissingConnections(cell, profile) ==
    {name \in DOMAIN cell.sources :
        /\ SourceKind(cell.sources[name]) \in {"table", "query"}
        /\ cell.sources[name].connection \notin DOMAIN profile.connections}

\* `check_connections_bound`: a run and a verify need every connection.
UnboundRefusal(cell, profile) ==
    IF MissingConnections(cell, profile) = {} THEN Accepted
    ELSE "profile: no such connection"

\* `resolve`: the whole profile, for one cell.
ResolveRefusal(cell, profile) ==
    FirstRefusal(
        Verdicts(ExpandRefusal, profile.store)
        \o Verdicts(LAMBDA source : BindingRefusal(source, profile),
                    SetToSeq(Range(cell.sources)))
        \o <<ExpandRefusal(profile.principals), ExpandRefusal(profile.storage),
             ExpandRefusal(profile.catalog)>>)

\* `direct_attach`: a catalog in the profile replaces the published one.
DirectAttach(profile) == Given(profile.catalog)

\* A path of a profile counts from the cell's directory, never from the
\* process's: a connection file, a key, the credentials, the principals.
Rebased(path) == IF path = "relative" THEN "cell" ELSE path
=============================================================================
