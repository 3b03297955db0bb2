------------------------------ MODULE Incremental ------------------------------
(***************************************************************************)
(* Incremental source loading in published mode: the watermark that a run  *)
(* reads, the delta it stages, the two strategies that land it, and the    *)
(* mark it commits with the rows. The source keeps changing meanwhile, a   *)
(* run may die at any step, and a rollback repoints LATEST to an earlier   *)
(* catalog with the watermark it holds.                                    *)
(*                                                                         *)
(* One source feeds two transforms: an `upsert` whose SELECT keeps the     *)
(* newest row of each key, and an `append` that takes the rows as they     *)
(* come. Cursor values are integers, so a lookback is a number of them.    *)
(***************************************************************************)
EXTENDS Integers, Sequences, Bags, FiniteSetsExt

CONSTANTS
    Builders,   \* the processes that may execute `datamk run`
    Keys,       \* values of the key column
    NullKey,    \* a NULL in it
    MaxCursor,  \* cursors are 1 .. MaxCursor
    Lookback,   \* the declared lookback
    MaxRows,    \* bound: rows landed in the source
    MaxPurges,  \* bound: rows deleted from the source
    MaxRuns     \* bound: executions published

ASSUME CursorAssumption ==
    /\ MaxCursor \in Nat \ {0}
    /\ Lookback \in Nat
    /\ NullKey \notin Keys

ASSUME IncrementalBoundsAssumption ==
    {MaxRows, MaxPurges, MaxRuns} \subseteq Nat

\* SQL's NULL, as the cursor of a row and as a watermark that is absent.
NullCursor == 0
NoMark == 0

Rows == [id : 1 .. MaxRows, key : Keys \cup {NullKey}, cursor : 0 .. MaxCursor]

VARIABLES
    source,   \* the rows of the upstream table
    top,      \* the highest cursor that ever landed there
    timely,   \* auxiliary: the rows that landed within Lookback of the top
    landed, purged,  \* how much of each bound is used
    archive,  \* the published catalogs, in order
    latest,   \* which of them LATEST names, 0 before the first
    run       \* what each Builder has in hand

upstream == <<source, top, timely, landed, purged>>
vars == <<upstream, archive, latest, run>>

\* A catalog without tables, and without the watermark table.
Fresh == [table |-> {}, log |-> EmptyBag, mark |-> NoMark]

NoRun == [at |-> "idle", refresh |-> FALSE, delta |-> {}, work |-> Fresh]

Init ==
    /\ source = {}
    /\ top = NullCursor
    /\ timely = {}
    /\ landed = 0
    /\ purged = 0
    /\ archive = <<>>
    /\ latest = 0
    /\ run = [b \in Builders |-> NoRun]

-----------------------------------------------------------------------------
(* The upstream table. *)

Land(key, cursor) ==
    LET row == [id |-> landed + 1, key |-> key, cursor |-> cursor]
    IN  /\ landed < MaxRows
        /\ landed' = landed + 1
        /\ source' = source \cup {row}
        /\ top' = Max({top, cursor})
        /\ timely' = IF cursor # NullCursor /\ cursor > top - Lookback
                     THEN timely \cup {row} ELSE timely
        /\ UNCHANGED <<purged, archive, latest, run>>

Purge ==
    /\ purged < MaxPurges
    /\ purged' = purged + 1
    /\ \E row \in source : source' = source \ {row}
    /\ UNCHANGED <<top, timely, landed, archive, latest, run>>

-----------------------------------------------------------------------------
(* `stage_incremental`: what a run binds. *)

\* `cursor > watermark - lookback`; NULL is never greater.
Past(row, mark) == row.cursor # NullCursor /\ row.cursor > mark - Lookback

\* Without a watermark, and on --full-refresh, everything is read.
Delta(refresh, mark) ==
    IF refresh \/ mark = NoMark THEN source
    ELSE {row \in source : Past(row, mark)}

\* The run opens the catalog LATEST names and stages the delta as a local
\* copy before its transaction begins.
Bind(b) ==
    /\ run[b].at = "idle"
    /\ Len(archive) < MaxRuns
    /\ LET work == IF latest = 0 THEN Fresh ELSE archive[latest]
       IN  \E refresh \in BOOLEAN :
              run' = [run EXCEPT ![b] =
                        [at |-> "bound", refresh |-> refresh,
                         delta |-> Delta(refresh, work.mark), work |-> work]]
    /\ UNCHANGED <<upstream, archive, latest>>

-----------------------------------------------------------------------------
(* The transaction: the transforms in order, then the watermark. *)

\* The SELECT of the upsert transform: QUALIFY row_number() OVER (PARTITION
\* BY key ORDER BY cursor DESC, id DESC) = 1.
Newest(delta) ==
    {row \in delta : \A other \in delta :
        other.key = row.key =>
            \/ other.cursor < row.cursor
            \/ other.cursor = row.cursor /\ other.id <= row.id}

\* `check_null_keys` and `check_duplicate_keys`, before any DML.
GuardsPass_nullOnly(staged) ==   \* mutant: duplicates are not looked for
    \A row \in staged : row.key # NullKey

GuardsPass(staged) ==
    /\ \A row \in staged : row.key # NullKey
    /\ \A row, other \in staged : row.key = other.key => row = other

\* `build_merge`: matched rows are updated, the others inserted.
Merge(table, staged) ==
    {row \in table : \A new \in staged : new.key # row.key} \cup staged

\* `build_anti_join_insert`: only keys the table does not have.
Unseen_all(log, staged) == staged        \* mutant: a plain INSERT ... SELECT

Unseen(log, staged) ==
    {new \in staged : \A row \in BagToSet(log) : row.key # new.key}

\* `execute_materialize` for both entries; --full-refresh rebuilds.
Materialize(catalog, delta, refresh) ==
    IF refresh
    THEN [catalog EXCEPT !.table = Newest(delta), !.log = SetToBag(delta)]
    ELSE [catalog EXCEPT
            !.table = Merge(@, Newest(delta)),
            !.log = @ (+) SetToBag(Unseen(@, delta))]

\* `verify_replay`: the transforms over the same delta once more, in a
\* transaction that is rolled back; nothing may have moved.
ReplaySafe(catalog, delta, refresh) ==
    Materialize(catalog, delta, refresh) = catalog

\* `compute_advance`: the highest cursor staged, none for an empty delta.
Staged_source(b) ==              \* mutant: measured on the source again
    Max({NoMark} \cup {row.cursor : row \in source})

Staged(b) == Max({NoMark} \cup {row.cursor : row \in run[b].delta})

\* `persist_watermarks`: nothing for an empty delta, the greatest of old and
\* new otherwise, the new one on --full-refresh.
Advance_last(mark, new, refresh) ==      \* mutant: greatest() dropped
    IF new = NoMark THEN mark ELSE new

Advance(mark, new, refresh) ==
    IF new = NoMark THEN mark
    ELSE IF refresh THEN new
    ELSE Max({mark, new})

\* BEGIN .. COMMIT on the private copy.
Execute(b) ==
    /\ run[b].at = "bound"
    /\ GuardsPass(Newest(run[b].delta))
    /\ GuardsPass(run[b].delta)
    /\ LET done == Materialize(run[b].work, run[b].delta, run[b].refresh)
           mark == Advance(done.mark, Staged(b), run[b].refresh)
       IN  run' = [run EXCEPT ![b].at = "committed",
                              ![b].work = [done EXCEPT !.mark = mark]]
    /\ UNCHANGED <<upstream, archive, latest>>

\* A guard, the contract check or --verify-replay refuses, a statement
\* errors, or the pod dies: the private copy goes, and the mark with it.
Abort(b) ==
    /\ run[b].at # "idle"
    /\ run' = [run EXCEPT ![b] = NoRun]
    /\ UNCHANGED <<upstream, archive, latest>>

\* `publish_execution`: data and mark become durable together.
Publish(b) ==
    /\ run[b].at = "committed"
    /\ archive' = Append(archive, run[b].work)
    /\ latest' = Len(archive) + 1
    /\ run' = [run EXCEPT ![b] = NoRun]
    /\ UNCHANGED upstream

\* `datamk rollback` moves the pointer; the mark is in the artifact.
Rollback ==
    /\ \E n \in 1 .. Len(archive) : n # latest /\ latest' = n
    /\ UNCHANGED <<upstream, archive, run>>

Next ==
    \/ \E key \in Keys \cup {NullKey}, cursor \in 0 .. MaxCursor :
          Land(key, cursor)
    \/ Purge
    \/ \E b \in Builders : Bind(b) \/ Execute(b) \/ Abort(b) \/ Publish(b)
    \/ Rollback

Spec == Init /\ [][Next]_vars

-----------------------------------------------------------------------------
(* What incremental loading promises. *)

Catalogs == {archive[n] : n \in 1 .. Len(archive)}

\* Every row has a key, and no other row has it.
Keyed(rows) ==
    \A row \in rows : row.key # NullKey
        /\ \A other \in rows \ {row} : other.key # row.key

\* One row per key in every table that is published, and none without a key:
\* what `materialize: upsert | append` is for.
OneRowPerKey ==
    \A catalog \in Catalogs :
        /\ Keyed(catalog.table)
        /\ Keyed(BagToSet(catalog.log))
        /\ \A row \in BagToSet(catalog.log) : catalog.log[row] = 1

\* A row is accounted for by a catalog that holds it or, under its key, one
\* at least as new.
Holds(catalog, row) ==
    /\ \E kept \in catalog.table :
          kept.key = row.key /\ kept.cursor >= row.cursor
    /\ \E kept \in BagToSet(catalog.log) : kept.key = row.key

\* No row is lost behind the watermark: every row that landed no later than
\* the lookback allows is held by each published catalog, or is still ahead
\* of that catalog's mark, whatever landed between the bind and the commit,
\* whichever run died and wherever LATEST was rolled back to.
NothingTimelyIsBehindTheMark ==
    \A catalog \in Catalogs : \A row \in source \cap timely :
        \/ catalog.mark = NoMark
        \/ row.cursor > catalog.mark - Lookback
        \/ Holds(catalog, row)

\* The mark never lags the rows that were committed with it: it is at least
\* the cursor of each of them.
MarkCoversTheData ==
    \A catalog \in Catalogs : \A row \in catalog.table :
        row.cursor <= catalog.mark

\* Landing the same delta again changes nothing: what --verify-replay tests,
\* and what at-least-once delivery rests on.
ReplayChangesNothing ==
    \A b \in Builders : run[b].at = "committed" =>
        ReplaySafe(run[b].work, run[b].delta, run[b].refresh)
=============================================================================
