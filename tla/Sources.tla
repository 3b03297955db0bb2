-------------------------------- MODULE Sources --------------------------------
(***************************************************************************)
(* `bind_source`: how a run, or a live verify, makes one declared source   *)
(* visible to the transforms, and what the run summary says of it.         *)
(*                                                                         *)
(* What is bound is either `live` (a view: every statement that reads it   *)
(* asks the source again) or `staged` (a local copy, taken once). `facts`  *)
(* is what the session finds outside: which object it is, how the staging  *)
(* read and the export end, which execution another cell serves.           *)
(***************************************************************************)
EXTENDS Connectors

\* `resolve_source_uri`: a remote path as it is, a local one from the cell.
SourceUri(path) == IF path = "remote" THEN path ELSE Rebased(path)

\* `SourceRunInfo` of a source without a connection.
Unconnected == [kind |-> "", rows |-> -1, execution |-> 0, asOf |-> 0]

Bound(view, info) ==
    [refusal |-> Accepted, view |-> view, info |-> info, columns |-> <<>>,
     advance |-> FALSE]
Unbound(reason) ==
    [refusal |-> reason, view |-> "none", info |-> Unconnected,
     columns |-> <<>>, advance |-> FALSE]

\* `ResolvedSource::Raw`: read_parquet and its like, again at each use.
BindRaw(facts) ==
    IF facts.readable THEN Bound("live", Unconnected)
    ELSE Unbound("raw: unreadable")

\* `query_upstream_data_as_of`: the pinned snapshot's time, or the newest's;
\* a failure to tell is not a failure to bind.
UpstreamAsOf(facts, version) ==
    IF version = 0 THEN Max({0} \cup Range(facts.snapshots))
    ELSE IF version \in DOMAIN facts.snapshots THEN facts.snapshots[version]
    ELSE 0

\* `ResolvedSource::Cell`: the catalog LATEST names is downloaded once, or
\* the metadata database is attached; a pin reads one snapshot of it.
BindCell(facts, version, direct) ==
    IF ~direct /\ ~facts.remote THEN Unbound("cell: not an object store")
    ELSE IF ~direct /\ facts.latest = 0 THEN Unbound("cell: never published")
    ELSE IF version # 0 /\ version \notin DOMAIN facts.snapshots
    THEN Unbound("cell: no such snapshot")
    ELSE Bound(IF direct THEN "live" ELSE "staged",
               [Unconnected EXCEPT
                  !.execution = IF direct THEN 0 ELSE facts.latest,
                  !.asOf = UpstreamAsOf(facts, version)])

-----------------------------------------------------------------------------
(* Staging through a warehouse. *)

\* `stage_via_export`: what the prefix under the staging URI holds when it
\* returns. The cleanup runs on every path, and may fail silently.
ExportLeaves(facts) ==
    IF facts.cleanup THEN {} ELSE facts.exported

StageViaExport(facts) ==
    FirstReason(<< <<"export: failed", facts.export # "done">>,
                   <<"export: unreadable", ~facts.exportReadable>> >>)

\* A staging read, with the export behind an answer that is too large.
Stage(c, facts) ==
    IF facts.failure = "" THEN Accepted
    ELSE IF TooLarge(c, facts.failure) /\ CanExport(c)
    THEN StageViaExport(facts)
    ELSE "stage: failed"

\* `dry_run_preflight`: the bytes BigQuery would scan, when it says so.
Preflight(c, facts) ==
    [refusal |-> IF DryRunRefuses(c, facts.dryRun) THEN "query: invalid"
                 ELSE Accepted,
     scanned |-> IF c.type = "bigquery" /\ facts.dryRun = "" THEN facts.bytes
                 ELSE -1]

\* `schema_only_probe`: the columns and no row.
StagedRows(facts, schemaOnly) == IF schemaOnly THEN 0 ELSE facts.rows

\* `ConnectionTarget::Query`: always staged.
BindQuery(c, facts, schemaOnly) ==
    LET refusal == FirstRefusal(<<Preflight(c, facts).refusal, Stage(c, facts)>>)
    IN  IF refusal # Accepted THEN Unbound(refusal)
        ELSE Bound("staged",
                   [Unconnected EXCEPT !.kind = "query",
                                       !.rows = StagedRows(facts, schemaOnly)])

\* `staged_kind`: what the summary calls a staged table.
StagedKind(c) == IF c.type = "bigquery" THEN "view" ELSE "table"

\* `probe_storage_read`: an object that could not be classified is read
\* once, so that a view is refused here and not in a transform.
ProbeRefusal(facts, answer) ==
    IF ~answer.known /\ facts.isView THEN "probe: not a table" ELSE Accepted

\* `ConnectionTarget::Table` without `incremental:`.
BindTable(c, facts, answer, schemaOnly) ==
    LET kind == answer.meta.kind
        refusal == FirstRefusal(<<
            answer.refusal,
            ProbeRefusal(facts, answer),
            IF kind = Query THEN Stage(c, facts) ELSE Accepted>>)
    IN  IF refusal # Accepted THEN Unbound(refusal)
        ELSE [Bound(IF kind = Query THEN "staged" ELSE "live",
                    [Unconnected EXCEPT
                       !.kind = IF kind = Query THEN StagedKind(c) ELSE "table",
                       !.rows = IF kind = Query
                                THEN StagedRows(facts, schemaOnly) ELSE -1])
              EXCEPT !.columns = answer.meta.columns]

-----------------------------------------------------------------------------
(* Incremental sources. *)

Integral == {"TINYINT", "SMALLINT", "INTEGER", "BIGINT", "HUGEINT", "UTINYINT",
             "USMALLINT", "UINTEGER", "UBIGINT", "UHUGEINT"}

\* `classify_cursor_type`, `is_scale_zero_decimal`.
CursorType(actual, decimals) ==
    CASE actual \in {"TIMESTAMP", "TIMESTAMP WITH TIME ZONE"} -> "timestamp"
      [] actual = "DATE"                         -> "date"
      [] actual \in Integral                     -> "integer"
      [] decimals /\ actual = "DECIMAL(38,0)"    -> "integer"
      [] OTHER                                   -> ""

\* `validate_cursor`: the column exists, in any case, and is ordered.
CursorRefusal(c, cursor, columns) ==
    FirstReason(<<
        <<"cursor: no such column", cursor \notin DOMAIN columns>>,
        <<"cursor: not a timestamp, date or integer",
          cursor \in DOMAIN columns
            /\ CursorType(columns[cursor], DecimalCursor(c)) = "">> >>)

\* `validate_lookback`: none for integers, whole days for dates.
LookbackRefusal(type, lookback) ==
    IF ~lookback.given THEN Accepted
    ELSE FirstReason(<<
        <<"lookback: on an integer", type = "integer">>,
        <<"lookback: not whole days",
          type = "date" /\ Seconds(lookback) % 86400 # 0>> >>)

\* `check_watermark_duplicates`: one row per source, or nothing is trusted.
WatermarkRefusal(marks) ==
    IF \E one, other \in DOMAIN marks :
          one # other /\ marks[one].source = marks[other].source
    THEN "watermark: duplicate rows" ELSE Accepted

\* `stage_incremental`: checks, then the delta as a local copy.
BindIncremental(c, source, facts, answer, marks, fullRefresh) ==
    LET type == CursorType(facts.columns[source.cursor], DecimalCursor(c))
        refusal == FirstRefusal(<<
            answer.refusal,
            ProbeRefusal(facts, answer),
            CursorRefusal(c, source.cursor, facts.columns),
            IF source.cursor \in DOMAIN facts.columns
            THEN LookbackRefusal(type, source.lookback) ELSE Accepted,
            IF fullRefresh THEN Accepted ELSE WatermarkRefusal(marks),
            Stage(c, facts)>>)
    IN  IF refusal # Accepted THEN Unbound(refusal)
        ELSE [Bound("staged",
                    [Unconnected EXCEPT
                       !.kind = IF answer.meta.kind = Query THEN StagedKind(c)
                                ELSE "table",
                       !.rows = facts.rows])
              EXCEPT !.columns = answer.meta.columns, !.advance = TRUE]

\* `bind_source`, after `prepare` has let the whole set through.
Bind(source, profile, facts, answer, marks, fullRefresh, schemaOnly) ==
    LET kind == SourceKind(source)
        c == profile.connections[source.connection]
    IN  CASE kind = "raw"  -> BindRaw(facts)
          [] kind = "cell" -> BindCell(facts, source.version, facts.direct)
          [] source.connection \notin DOMAIN profile.connections ->
               Unbound("profile: no such connection")
          [] kind = "query" -> BindQuery(c, facts, schemaOnly)
          [] IsIncremental(source) ->
               BindIncremental(c, source, facts, answer, marks, fullRefresh)
          [] OTHER -> BindTable(c, facts, answer, schemaOnly)

\* `bind_sources`: all of them, in the order they are declared; the marks to
\* persist, and the warehouse's own column types for the contract check.
BindAll(cell, outcomes) ==
    LET refused == {name \in DOMAIN cell.sources :
                      outcomes[name].refusal # Accepted}
    IN  [refusal |-> IF refused = {} THEN Accepted
                     ELSE outcomes[CHOOSE name \in refused : TRUE].refusal,
         advances |-> {name \in DOMAIN cell.sources : outcomes[name].advance},
         native |-> [name \in {name \in DOMAIN cell.sources :
                                 outcomes[name].columns # <<>>} |->
                        outcomes[name].columns]]
=============================================================================
