-------------------------- MODULE IncrementalProofs --------------------------
(***************************************************************************)
(* Theorems about Incremental, for every set of Builders and keys, every   *)
(* lookback and every value of the bounds.                                 *)
(***************************************************************************)
EXTENDS Incremental, SequenceTheorems, WellFoundedInduction, TLAPS

-----------------------------------------------------------------------------
(* What the operators of a run return.                                     *)

\* A non-empty set of numbers below a bound has a greatest member.
LEMMA GreatestExists ==
    ASSUME NEW n \in Nat, NEW S \in SUBSET (0 .. n), S # {}
    PROVE  \E x \in S : \A y \in S : x >= y
  <1> DEFINE below == {n - x : x \in S}
             less == {ss \in Nat \X Nat : ss[1] < ss[2]}
  <1>1. IsWellFoundedOn(less, Nat)
    BY NatLessThanWellFounded DEF OpToRel
  <1>2. below \subseteq Nat /\ below # {}
    <2>1. \A x \in S : n - x \in Nat
      OBVIOUS
    <2>2. PICK x \in S : TRUE
      OBVIOUS
    <2>3. n - x \in below
      OBVIOUS
    <2> QED
      BY <2>1, <2>3
  <1> HIDE DEF less
  <1>3. PICK d \in below : \A e \in below : ~ (<<e, d>> \in less)
    BY <1>1, <1>2, WFMin
  <1>4. PICK x \in S : d = n - x
    BY <1>3
  <1>5. ASSUME NEW y \in S PROVE x >= y
    <2>1. n - y \in below /\ n - y \in Nat /\ d \in Nat
      BY <1>2
    <2>2. ~ (n - y < d)
      BY <1>3, <2>1 DEF less
    <2> QED
      BY <1>4, <2>2
  <1> QED
    BY <1>5

\* Max of a non-empty set of numbers below a bound is its greatest member.
LEMMA MaxIsGreatest ==
    ASSUME NEW n \in Nat, NEW S \in SUBSET (0 .. n), S # {}
    PROVE  Max(S) \in S /\ \A y \in S : Max(S) >= y
  BY GreatestExists DEF Max

\* Among rows with one key there is a newest: it is staged.
LEMMA NewestExists ==
    ASSUME NEW delta \in SUBSET Rows, NEW row \in delta
    PROVE  \E kept \in Newest(delta) :
              kept.key = row.key /\ kept.cursor >= row.cursor
  <1> USE CursorAssumption, IncrementalBoundsAssumption
  <1> DEFINE same == {other \in delta : other.key = row.key}
             cursors == {other.cursor : other \in same}
  <1>1. cursors \in SUBSET (0 .. MaxCursor) /\ cursors # {}
    BY DEF Rows
  <1>2. PICK top1 \in cursors : \A c \in cursors : top1 >= c
    BY <1>1, GreatestExists, MaxCursor \in Nat
  <1> DEFINE first == {other \in same : other.cursor = top1}
             ids == {other.id : other \in first}
  <1>3. ids \in SUBSET (0 .. MaxRows) /\ ids # {}
    BY <1>2 DEF Rows
  <1>4. PICK last \in ids : \A i \in ids : last >= i
    BY <1>3, GreatestExists, MaxRows \in Nat
  <1>5. PICK kept \in first : kept.id = last
    BY <1>4
  <1>6. kept \in Newest(delta)
    <2>1. ASSUME NEW other \in delta, other.key = kept.key
          PROVE  \/ other.cursor < kept.cursor
                 \/ other.cursor = kept.cursor /\ other.id <= kept.id
      <3>1. other \in same /\ other.cursor <= top1
        BY <1>1, <1>2, <2>1
      <3>2. other.cursor \in 0 .. MaxCursor /\ other.id \in 1 .. MaxRows
        BY DEF Rows
      <3>3. CASE other.cursor = top1
        BY <1>4, <1>5, <3>1, <3>3
      <3> QED
        BY <1>1, <1>5, <3>1, <3>2, <3>3
    <2> QED
      BY <2>1 DEF Newest
  <1>7. kept.key = row.key /\ kept.cursor >= row.cursor
    BY <1>1, <1>2, <1>5
  <1> QED
    BY <1>6, <1>7

-----------------------------------------------------------------------------
(* Type correctness.                                                       *)

Logs == UNION {[rows -> Nat \ {0}] : rows \in SUBSET Rows}

CatalogType == [table : SUBSET Rows, log : Logs, mark : 0 .. MaxCursor]

RunType == [at : {"idle", "bound", "committed"}, refresh : BOOLEAN,
            delta : SUBSET Rows, work : CatalogType]

TypeInv ==
    /\ source \subseteq Rows
    /\ timely \subseteq Rows
    /\ top \in 0 .. MaxCursor
    /\ landed \in 0 .. MaxRows
    /\ purged \in 0 .. MaxPurges
    /\ archive \in Seq(CatalogType)
    /\ latest \in 0 .. Len(archive)
    /\ run \in [Builders -> RunType]

LEMMA FreshType == Fresh \in CatalogType
  BY CursorAssumption
  DEF Fresh, CatalogType, Logs, NoMark, EmptyBag, SetToBag

\* Adding one copy of each row of a set to a log makes a log.
LEMMA LogGrows ==
    ASSUME NEW log \in Logs, NEW rows \in SUBSET Rows
    PROVE  /\ SetToBag(rows) \in Logs
           /\ log (+) SetToBag(rows) \in Logs
           /\ DOMAIN (log (+) SetToBag(rows)) = DOMAIN log \cup rows
           /\ \A row \in DOMAIN log \ rows :
                 (log (+) SetToBag(rows))[row] = log[row]
           /\ \A row \in rows \ DOMAIN log : (log (+) SetToBag(rows))[row] = 1
  <1> DEFINE bag == SetToBag(rows)
             sum == log (+) bag
  <1>1. bag \in [rows -> Nat \ {0}] /\ DOMAIN bag = rows
        /\ \A row \in rows : bag[row] = 1
    BY DEF SetToBag
  <1>2. DOMAIN log \in SUBSET Rows /\ log \in [DOMAIN log -> Nat \ {0}]
    BY DEF Logs
  <1> HIDE DEF bag
  <1>3. sum = [e \in DOMAIN log \cup rows |->
                  (IF e \in DOMAIN log THEN log[e] ELSE 0)
                  + (IF e \in rows THEN bag[e] ELSE 0)]
    BY <1>1 DEF (+)
  <1>4. sum \in [DOMAIN log \cup rows -> Nat \ {0}]
    BY <1>1, <1>2, <1>3
  <1>5. /\ \A row \in DOMAIN log \ rows : sum[row] = log[row]
        /\ \A row \in rows \ DOMAIN log : sum[row] = 1
    BY <1>1, <1>2, <1>3
  <1>6. sum \in Logs /\ bag \in Logs
    BY <1>1, <1>2, <1>4 DEF Logs
  <1> QED
    BY <1>4, <1>5, <1>6 DEF bag

\* Landing nothing leaves the log as it is.
LEMMA LogKeeps ==
    ASSUME NEW log \in Logs
    PROVE  log (+) SetToBag({}) = log
  <1> DEFINE none == SetToBag({})
  <1>1. log \in [DOMAIN log -> Nat \ {0}]
    BY DEF Logs
  <1>2. DOMAIN none = {}
    BY DEF SetToBag
  <1> HIDE DEF none
  <1>3. log (+) none = [e \in DOMAIN log \cup DOMAIN none |->
                           (IF e \in DOMAIN log THEN log[e] ELSE 0)
                           + (IF e \in DOMAIN none THEN none[e] ELSE 0)]
    BY DEF (+)
  <1>4. log (+) none = [e \in DOMAIN log |-> log[e]]
    BY <1>1, <1>2, <1>3
  <1> QED
    BY <1>1, <1>4 DEF none

\* What either strategy leaves behind, field by field.
LEMMA MaterializeIs ==
    ASSUME NEW catalog \in CatalogType, NEW delta \in SUBSET Rows,
           NEW refresh \in BOOLEAN
    PROVE  /\ Materialize(catalog, delta, refresh) \in CatalogType
           /\ Materialize(catalog, delta, refresh) =
                 [table |-> IF refresh THEN Newest(delta)
                            ELSE Merge(catalog.table, Newest(delta)),
                  log |-> IF refresh THEN SetToBag(delta)
                          ELSE catalog.log
                                 (+) SetToBag(Unseen(catalog.log, delta)),
                  mark |-> catalog.mark]
  <1> DEFINE table == IF refresh THEN Newest(delta)
                      ELSE Merge(catalog.table, Newest(delta))
             log == IF refresh THEN SetToBag(delta)
                    ELSE catalog.log (+) SetToBag(Unseen(catalog.log, delta))
  <1>1. Newest(delta) \subseteq delta /\ Unseen(catalog.log, delta) \subseteq delta
    BY DEF Newest, Unseen
  <1>2. table \in SUBSET Rows
    BY <1>1 DEF Merge, CatalogType
  <1>3. catalog.log \in Logs
    BY DEF CatalogType
  <1>4. log \in Logs
    BY <1>1, <1>3, LogGrows
  <1>5. Materialize(catalog, delta, refresh) =
           [catalog EXCEPT !.table = table, !.log = log]
    BY DEF Materialize, CatalogType
  <1> HIDE DEF table, log
  <1>6. Materialize(catalog, delta, refresh) =
           [table |-> table, log |-> log, mark |-> catalog.mark]
    BY <1>5 DEF CatalogType
  <1>7. [table |-> table, log |-> log, mark |-> catalog.mark] \in CatalogType
    BY <1>2, <1>4 DEF CatalogType
  <1> QED
    BY <1>6, <1>7 DEF table, log

\* The staged mark is the highest cursor of the delta, or none.
LEMMA StagedIs ==
    ASSUME NEW b \in Builders, run[b].delta \in SUBSET Rows
    PROVE  /\ Staged(b) \in 0 .. MaxCursor
           /\ \A row \in run[b].delta : row.cursor <= Staged(b)
           /\ \/ Staged(b) = NoMark
              \/ \E row \in run[b].delta : row.cursor = Staged(b)
  <1> DEFINE cursors == {NoMark} \cup {row.cursor : row \in run[b].delta}
  <1>1. cursors \in SUBSET (0 .. MaxCursor) /\ cursors # {}
    BY CursorAssumption DEF NoMark, Rows
  <1>2. Max(cursors) \in cursors /\ \A c \in cursors : Max(cursors) >= c
    BY <1>1, MaxIsGreatest, CursorAssumption
  <1>3. Staged(b) = Max(cursors)
    BY DEF Staged
  <1> HIDE DEF cursors
  <1>4. Max(cursors) \in 0 .. MaxCursor
    BY <1>1, <1>2
  <1>5. \A row \in run[b].delta : row.cursor \in cursors
    BY DEF cursors
  <1>6. \A c \in cursors : c \in Int
    BY <1>1
  <1>7. \A row \in run[b].delta : row.cursor <= Max(cursors)
    BY <1>2, <1>4, <1>5, <1>6
  <1> QED
    BY <1>2, <1>3, <1>4, <1>7 DEF cursors

\* The mark a run commits is the old one or the staged one, and below
\* neither, unless everything is rebuilt.
LEMMA AdvanceIs ==
    ASSUME NEW mark \in 0 .. MaxCursor, NEW new \in 0 .. MaxCursor,
           NEW refresh \in BOOLEAN
    PROVE  /\ Advance(mark, new, refresh) \in {mark, new}
           /\ Advance(mark, new, refresh) >= new
           /\ ~refresh => Advance(mark, new, refresh) >= mark
           /\ new # NoMark => Advance(mark, new, refresh) # NoMark
  <1>1. Max({mark, new}) \in {mark, new} /\ Max({mark, new}) >= mark
        /\ Max({mark, new}) >= new
    BY MaxIsGreatest, CursorAssumption, {mark, new} \in SUBSET (0 .. MaxCursor)
  <1> QED
    BY <1>1 DEF Advance, NoMark

LEMMA TypeInit == Init => TypeInv
  BY FreshType, CursorAssumption, IncrementalBoundsAssumption
  DEF Init, TypeInv, RunType, NoRun, NullCursor

\* The catalog a run opens: the one LATEST names, or a fresh one.
LEMMA OpenedCatalog ==
    ASSUME TypeInv
    PROVE  /\ latest # 0 => archive[latest] \in Catalogs
           /\ Catalogs \subseteq CatalogType
           /\ \A b \in Builders : run[b].work \in CatalogType
  BY DEF TypeInv, Catalogs, RunType

\* What a run commits, and that it is a catalog.
LEMMA Executed ==
    ASSUME TypeInv, NEW b \in Builders, Execute(b)
    PROVE  LET r == run[b]
               done == Materialize(r.work, r.delta, r.refresh)
               mark == Advance(r.work.mark, Staged(b), r.refresh)
               work == [done EXCEPT !.mark = mark]
           IN  /\ run' = [run EXCEPT ![b] = [r EXCEPT !.at = "committed",
                                                      !.work = work]]
               /\ work = [table |-> done.table, log |-> done.log,
                          mark |-> mark]
               /\ work \in CatalogType
  <1> DEFINE r == run[b]
             done == Materialize(r.work, r.delta, r.refresh)
             mark == Advance(r.work.mark, Staged(b), r.refresh)
             work == [done EXCEPT !.mark = mark]
  <1>1. r \in RunType
    BY DEF TypeInv
  <1>2. r.work \in CatalogType /\ r.delta \in SUBSET Rows
        /\ r.refresh \in BOOLEAN
    BY <1>1 DEF RunType
  <1>3. done \in CatalogType /\ done.mark = r.work.mark
    BY <1>2, MaterializeIs
  <1>4. mark \in 0 .. MaxCursor
    BY <1>2, StagedIs, AdvanceIs DEF CatalogType
  <1>5. run' = [run EXCEPT ![b] = [r EXCEPT !.at = "committed",
                                            !.work = work]]
    BY <1>3 DEF Execute, TypeInv
  <1>6. work = [table |-> done.table, log |-> done.log, mark |-> mark]
    BY <1>3 DEF CatalogType
  <1>7. work \in CatalogType
    BY <1>3, <1>4, <1>6 DEF CatalogType
  <1> QED
    BY <1>5, <1>6, <1>7

\* What BEGIN..COMMIT leaves in the catalog of the run.
LEMMA ExecutedFields ==
    ASSUME TypeInv, NEW b \in Builders, Execute(b)
    PROVE  LET r == run[b]
               new == run'[b].work
           IN  /\ run'[b].at = "committed"
               /\ run'[b].delta = r.delta
               /\ run'[b].refresh = r.refresh
               /\ new \in CatalogType
               /\ new.table = IF r.refresh THEN Newest(r.delta)
                              ELSE Merge(r.work.table, Newest(r.delta))
               /\ new.log = IF r.refresh THEN SetToBag(r.delta)
                            ELSE r.work.log
                                   (+) SetToBag(Unseen(r.work.log, r.delta))
               /\ new.mark = Advance(r.work.mark, Staged(b), r.refresh)
  <1> DEFINE r == run[b]
             done == Materialize(r.work, r.delta, r.refresh)
             mark == Advance(r.work.mark, Staged(b), r.refresh)
             work == [done EXCEPT !.mark = mark]
  <1>1. r \in RunType
    BY DEF TypeInv
  <1>2. r.work \in CatalogType /\ r.delta \in SUBSET Rows
        /\ r.refresh \in BOOLEAN
    BY <1>1 DEF RunType
  <1>3. /\ run' = [run EXCEPT ![b] = [r EXCEPT !.at = "committed",
                                               !.work = work]]
        /\ work = [table |-> done.table, log |-> done.log, mark |-> mark]
        /\ work \in CatalogType
    BY Executed
  <1>4. /\ done.table = IF r.refresh THEN Newest(r.delta)
                        ELSE Merge(r.work.table, Newest(r.delta))
        /\ done.log = IF r.refresh THEN SetToBag(r.delta)
                      ELSE r.work.log
                             (+) SetToBag(Unseen(r.work.log, r.delta))
    BY <1>2, MaterializeIs
  <1> HIDE DEF r, work, mark, done
  <1>5. run'[b] = [r EXCEPT !.at = "committed", !.work = work]
    BY <1>3 DEF TypeInv
  <1>6. /\ run'[b].at = "committed" /\ run'[b].work = work
        /\ run'[b].delta = r.delta /\ run'[b].refresh = r.refresh
    BY <1>1, <1>5 DEF RunType
  <1>7. work.table = done.table /\ work.log = done.log /\ work.mark = mark
    BY <1>3
  <1> QED
    BY <1>3, <1>4, <1>6, <1>7 DEF r, mark

LEMMA TypeNext == TypeInv /\ [Next]_vars => TypeInv'
  <1> SUFFICES ASSUME TypeInv, [Next]_vars PROVE TypeInv'
    OBVIOUS
  <1>1. ASSUME NEW key \in Keys \cup {NullKey}, NEW cursor \in 0 .. MaxCursor,
               Land(key, cursor)
        PROVE  TypeInv'
    <2> DEFINE row == [id |-> landed + 1, key |-> key, cursor |-> cursor]
    <2>1. landed + 1 \in 1 .. MaxRows
      BY <1>1, IncrementalBoundsAssumption DEF Land, TypeInv
    <2>2. row \in Rows
      BY <2>1 DEF Rows
    <2>3. Max({top, cursor}) \in 0 .. MaxCursor
      BY MaxIsGreatest, CursorAssumption,
         {top, cursor} \in SUBSET (0 .. MaxCursor) DEF TypeInv
    <2> QED
      BY <1>1, <2>1, <2>2, <2>3 DEF Land, TypeInv
  <1>2. CASE Purge
    BY <1>2, IncrementalBoundsAssumption DEF Purge, TypeInv
  <1>3. ASSUME NEW b \in Builders, Bind(b) PROVE TypeInv'
    <2> DEFINE work == IF latest = 0 THEN Fresh ELSE archive[latest]
    <2>1. work \in CatalogType
      BY FreshType, OpenedCatalog
    <2>2. \A refresh \in BOOLEAN : Delta(refresh, work.mark) \subseteq Rows
      BY DEF Delta, TypeInv
    <2> HIDE DEF work
    <2>3. \A refresh \in BOOLEAN :
             [at |-> "bound", refresh |-> refresh,
              delta |-> Delta(refresh, work.mark), work |-> work] \in RunType
      BY <2>1, <2>2 DEF RunType
    <2>4. PICK refresh \in BOOLEAN :
             run' = [run EXCEPT ![b] =
                        [at |-> "bound", refresh |-> refresh,
                         delta |-> Delta(refresh, work.mark), work |-> work]]
      BY <1>3 DEF Bind, work
    <2>5. run' \in [Builders -> RunType]
      BY <2>3, <2>4 DEF TypeInv
    <2> QED
      BY <1>3, <2>5 DEF Bind, TypeInv, upstream
  <1>4. ASSUME NEW b \in Builders, Execute(b) PROVE TypeInv'
    <2>1. PICK work \in CatalogType :
             run' = [run EXCEPT ![b] = [run[b] EXCEPT !.at = "committed",
                                                      !.work = work]]
      BY <1>4, Executed
    <2>2. [run[b] EXCEPT !.at = "committed", !.work = work] \in RunType
      BY DEF TypeInv, RunType
    <2>3. run' \in [Builders -> RunType]
      BY <2>1, <2>2 DEF TypeInv
    <2> QED
      BY <1>4, <2>3 DEF Execute, TypeInv, upstream
  <1> NoRun \in RunType
    BY FreshType DEF NoRun, RunType
  <1>5. ASSUME NEW b \in Builders, Abort(b) PROVE TypeInv'
    BY <1>5 DEF Abort, TypeInv, upstream
  <1>6. ASSUME NEW b \in Builders, Publish(b) PROVE TypeInv'
    <2>1. run[b].work \in CatalogType
      BY OpenedCatalog
    <2>2. archive' \in Seq(CatalogType) /\ Len(archive') = Len(archive) + 1
      BY <1>6, <2>1 DEF Publish, TypeInv
    <2>3. latest' \in 0 .. Len(archive')
      BY <1>6, <2>2, Len(archive) \in Nat DEF Publish, TypeInv
    <2> QED
      BY <1>6, <2>2, <2>3 DEF Publish, TypeInv, upstream
  <1>7. CASE Rollback
    BY <1>7 DEF Rollback, TypeInv, upstream
  <1>8. CASE UNCHANGED vars
    BY <1>8 DEF vars, TypeInv, upstream
  <1> QED
    BY <1>1, <1>2, <1>3, <1>4, <1>5, <1>6, <1>7, <1>8 DEF Next

\* Every variable has its type: the marks are cursors, the logs bags of
\* rows, and LATEST names a published catalog or none.
THEOREM TypeCorrect == Spec => []TypeInv
  BY TypeInit, TypeNext, PTL DEF Spec

-----------------------------------------------------------------------------
(* The catalogs there are: the published ones, and the private copies that *)
(* runs have in hand. A step adds a fresh one, or the one a run commits.   *)

Held == Catalogs \cup {run[b].work : b \in Builders}

LEMMA HeldInit == Init => Held \subseteq {Fresh}
  BY DEF Init, Held, Catalogs, NoRun

\* A catalog that is held was held before, or was just executed.
LEMMA HeldNext ==
    ASSUME TypeInv, [Next]_vars
    PROVE  \/ Held' \subseteq Held \cup {Fresh}
           \/ \E b \in Builders :
                 /\ Execute(b)
                 /\ Held' \subseteq Held \cup {run'[b].work}
  <1>1. CASE UNCHANGED <<archive, run>>
    BY <1>1 DEF Held, Catalogs
  <1>2. ASSUME NEW b \in Builders, Bind(b)
        PROVE  Held' \subseteq Held \cup {Fresh}
    <2>1. \A c \in Builders \ {b} : run'[c] = run[c]
      BY <1>2 DEF Bind, TypeInv
    <2>2. run'[b].work = IF latest = 0 THEN Fresh ELSE archive[latest]
      BY <1>2 DEF Bind, TypeInv
    <2>3. run'[b].work \in Catalogs \cup {Fresh}
      BY <2>2, OpenedCatalog
    <2>4. Catalogs' = Catalogs
      BY <1>2 DEF Bind, Catalogs
    <2> QED
      BY <2>1, <2>3, <2>4 DEF Held
  <1>3. ASSUME NEW b \in Builders, Execute(b)
        PROVE  Held' \subseteq Held \cup {run'[b].work}
    <2>1. \A c \in Builders \ {b} : run'[c] = run[c]
      BY <1>3 DEF Execute, TypeInv
    <2>2. Catalogs' = Catalogs
      BY <1>3 DEF Execute, Catalogs
    <2> QED
      BY <2>1, <2>2 DEF Held
  <1>4. ASSUME NEW b \in Builders, Abort(b) \/ Publish(b)
        PROVE  Held' \subseteq Held \cup {Fresh}
    <2>1. /\ \A c \in Builders \ {b} : run'[c] = run[c]
          /\ run'[b].work = Fresh
      BY <1>4 DEF Abort, Publish, TypeInv, NoRun
    <2>2. Catalogs' \subseteq Catalogs \cup {run[b].work}
      <3>1. CASE Abort(b)
        BY <3>1 DEF Abort, Catalogs
      <3>2. CASE Publish(b)
        <4>1. run[b].work \in CatalogType
          BY OpenedCatalog
        <4>2. /\ Len(archive') = Len(archive) + 1
              /\ Len(archive) \in Nat
              /\ \A n \in 1 .. Len(archive) : archive'[n] = archive[n]
              /\ archive'[Len(archive) + 1] = run[b].work
          BY <3>2, <4>1, AppendProperties DEF Publish, TypeInv
        <4> QED
          BY <4>2 DEF Catalogs
      <3> QED
        BY <1>4, <3>1, <3>2
    <2> QED
      BY <2>1, <2>2 DEF Held
  <1>5. CASE Purge \/ Rollback
    BY <1>1, <1>5 DEF Purge, Rollback
  <1>6. ASSUME NEW key \in Keys \cup {NullKey}, NEW cursor \in 0 .. MaxCursor,
               Land(key, cursor)
        PROVE  UNCHANGED <<archive, run>>
    BY <1>6 DEF Land
  <1>7. CASE UNCHANGED vars
    BY <1>1, <1>7 DEF vars
  <1> QED
    BY <1>1, <1>2, <1>3, <1>4, <1>5, <1>6, <1>7 DEF Next

-----------------------------------------------------------------------------
(* One row per key. The guards look at what is staged; that MERGE and the  *)
(* anti-join keep it so is what the lemmas say.                            *)

KeyedCatalog(catalog) ==
    /\ Keyed(catalog.table)
    /\ Keyed(DOMAIN catalog.log)
    /\ \A row \in DOMAIN catalog.log : catalog.log[row] = 1

IndKeyed == \A catalog \in Held : KeyedCatalog(catalog)

\* An empty catalog has no key twice.
LEMMA FreshIsKeyed == KeyedCatalog(Fresh)
  BY DEF KeyedCatalog, Fresh, Keyed, EmptyBag, SetToBag

\* `check_duplicate_keys` and `check_null_keys` leave keyed rows.
LEMMA GuardedIsKeyed ==
    ASSUME NEW staged, GuardsPass(staged)
    PROVE  Keyed(staged)
  BY DEF GuardsPass, Keyed

\* MERGE of keyed rows into a keyed table, and the anti-join insert into a
\* keyed log, leave it keyed.
LEMMA LandingKeepsKeys ==
    ASSUME NEW rows, Keyed(rows), NEW staged, Keyed(staged)
    PROVE  /\ Keyed(Merge(rows, staged))
           /\ \A log : DOMAIN log = rows => Keyed(rows \cup Unseen(log, staged))
  BY DEF Keyed, Merge, Unseen, BagToSet

\* A run over a keyed catalog leaves a keyed one.
LEMMA ExecutedIsKeyed ==
    ASSUME TypeInv, IndKeyed, NEW b \in Builders, Execute(b)
    PROVE  KeyedCatalog(run'[b].work)
  <1> DEFINE r == run[b]
             new == run'[b].work
             unseen == Unseen(r.work.log, r.delta)
  <1>1. r.work \in CatalogType /\ r.delta \in SUBSET Rows
        /\ r.refresh \in BOOLEAN
    BY DEF TypeInv, RunType
  <1>2. KeyedCatalog(r.work)
    BY DEF IndKeyed, Held
  <1>3. Keyed(Newest(r.delta)) /\ Keyed(r.delta)
    BY GuardedIsKeyed DEF Execute
  <1>4. /\ new.table = IF r.refresh THEN Newest(r.delta)
                       ELSE Merge(r.work.table, Newest(r.delta))
        /\ new.log = IF r.refresh THEN SetToBag(r.delta)
                     ELSE r.work.log (+) SetToBag(unseen)
    BY ExecutedFields
  <1>5. CASE r.refresh
    <2>1. DOMAIN new.log = r.delta /\ \A row \in r.delta : new.log[row] = 1
      BY <1>4, <1>5 DEF SetToBag
    <2> QED
      BY <1>3, <1>4, <1>5, <2>1 DEF KeyedCatalog
  <1>6. CASE ~r.refresh
    <2>1. Keyed(new.table)
      BY <1>2, <1>3, <1>4, <1>6, LandingKeepsKeys DEF KeyedCatalog
    <2>2. Keyed(DOMAIN r.work.log \cup unseen)
      BY <1>2, <1>3, LandingKeepsKeys DEF KeyedCatalog
    <2>3. unseen \in SUBSET Rows /\ unseen \cap DOMAIN r.work.log = {}
      BY <1>1 DEF Unseen, BagToSet
    <2>4. r.work.log \in Logs
      BY <1>1 DEF CatalogType
    <2>5. new.log = r.work.log (+) SetToBag(unseen)
      BY <1>4, <1>6
    <2>6. \A row \in DOMAIN r.work.log : r.work.log[row] = 1
      BY <1>2 DEF KeyedCatalog
    <2> DEFINE log == r.work.log
               sum == log (+) SetToBag(unseen)
    <2> HIDE DEF r, new, unseen, log
    <2>7. /\ DOMAIN new.log = DOMAIN log \cup unseen
          /\ \A row \in DOMAIN log \ unseen : new.log[row] = 1
          /\ \A row \in unseen \ DOMAIN log : new.log[row] = 1
      <3>1. /\ DOMAIN sum = DOMAIN log \cup unseen
            /\ \A row \in DOMAIN log \ unseen : sum[row] = log[row]
            /\ \A row \in unseen \ DOMAIN log : sum[row] = 1
        BY <2>3, <2>4, LogGrows DEF log
      <3> HIDE DEF sum
      <3> QED
        BY <2>5, <2>6, <3>1 DEF log, sum
    <2>8. \A row \in DOMAIN new.log : new.log[row] = 1
      BY <2>3, <2>7 DEF log
    <2> QED
      BY <2>1, <2>2, <2>7, <2>8 DEF KeyedCatalog, new, log
  <1> QED
    BY <1>5, <1>6

LEMMA KeyedInit == Init => IndKeyed
  BY HeldInit, FreshIsKeyed DEF IndKeyed

LEMMA KeyedNext == TypeInv /\ IndKeyed /\ [Next]_vars => IndKeyed'
  <1> SUFFICES ASSUME TypeInv, IndKeyed, [Next]_vars PROVE IndKeyed'
    OBVIOUS
  <1>1. CASE Held' \subseteq Held \cup {Fresh}
    BY <1>1, FreshIsKeyed DEF IndKeyed
  <1>2. ASSUME NEW b \in Builders, Execute(b),
               Held' \subseteq Held \cup {run'[b].work}
        PROVE  IndKeyed'
    BY <1>2, ExecutedIsKeyed DEF IndKeyed
  <1> QED
    BY <1>1, <1>2, HeldNext

\* Every table that is published has one row per key and none without a key,
\* whichever strategy landed it.
THEOREM PublishedTablesAreKeyed == Spec => []OneRowPerKey
  <1>1. IndKeyed => OneRowPerKey
    BY DEF IndKeyed, KeyedCatalog, OneRowPerKey, Held, BagToSet
  <1> QED
    BY <1>1, TypeInit, TypeNext, KeyedInit, KeyedNext, PTL DEF Spec

-----------------------------------------------------------------------------
(* The mark covers the data that was committed with it.                    *)

Covers(catalog) == \A row \in catalog.table : row.cursor <= catalog.mark

IndMark == \A catalog \in Held : Covers(catalog)

\* An empty catalog has no row above its mark.
LEMMA FreshIsCovered == Covers(Fresh)
  BY DEF Covers, Fresh

\* The mark that is persisted covers the rows of its transaction.
LEMMA ExecutedIsCovered ==
    ASSUME TypeInv, IndMark, NEW b \in Builders, Execute(b)
    PROVE  Covers(run'[b].work)
  <1> DEFINE r == run[b]
             new == run'[b].work
             mark == Advance(r.work.mark, Staged(b), r.refresh)
  <1>1. r.work \in CatalogType /\ r.delta \in SUBSET Rows
        /\ r.refresh \in BOOLEAN
    BY DEF TypeInv, RunType
  <1>2. Covers(r.work)
    BY DEF IndMark, Held
  <1>3. /\ new.table = IF r.refresh THEN Newest(r.delta)
                       ELSE Merge(r.work.table, Newest(r.delta))
        /\ new.mark = mark
    BY ExecutedFields
  <1>4. /\ Staged(b) \in 0 .. MaxCursor /\ r.work.mark \in 0 .. MaxCursor
        /\ \A row \in r.delta : row.cursor <= Staged(b)
    BY <1>1, StagedIs DEF CatalogType
  <1>5. /\ mark \in {r.work.mark, Staged(b)}
        /\ mark >= Staged(b)
        /\ ~r.refresh => mark >= r.work.mark
    BY <1>1, <1>4, AdvanceIs
  <1> HIDE DEF mark
  <1>6. mark \in Nat
    BY <1>4, <1>5
  <1>7. \A row \in r.delta \cup r.work.table : row.cursor \in Nat
    BY <1>1 DEF CatalogType, Rows
  <1>8. ASSUME NEW row \in r.delta PROVE row.cursor <= mark
    BY <1>4, <1>5, <1>6, <1>7
  <1>9. ASSUME NEW row \in r.work.table, ~r.refresh PROVE row.cursor <= mark
    <2>1. row.cursor <= r.work.mark
      BY <1>2 DEF Covers
    <2> QED
      BY <1>4, <1>5, <1>6, <1>7, <1>9, <2>1
  <1>10. /\ new.table \subseteq r.delta \cup r.work.table
         /\ r.refresh => new.table \subseteq r.delta
    BY <1>3 DEF Newest, Merge
  <1> QED
    BY <1>3, <1>8, <1>9, <1>10 DEF Covers

LEMMA MarkInit == Init => IndMark
  BY HeldInit, FreshIsCovered DEF IndMark

LEMMA MarkNext == TypeInv /\ IndMark /\ [Next]_vars => IndMark'
  <1> SUFFICES ASSUME TypeInv, IndMark, [Next]_vars PROVE IndMark'
    OBVIOUS
  <1>1. CASE Held' \subseteq Held \cup {Fresh}
    BY <1>1, FreshIsCovered DEF IndMark
  <1>2. ASSUME NEW b \in Builders, Execute(b),
               Held' \subseteq Held \cup {run'[b].work}
        PROVE  IndMark'
    BY <1>2, ExecutedIsCovered DEF IndMark
  <1> QED
    BY <1>1, <1>2, HeldNext

\* The watermark of a published catalog is at least the cursor of each row
\* that was committed with it.
THEOREM MarkNeverLags == Spec => []MarkCoversTheData
  <1>1. IndMark => MarkCoversTheData
    BY DEF IndMark, Covers, MarkCoversTheData, Held
  <1> QED
    BY <1>1, TypeInit, TypeNext, MarkInit, MarkNext, PTL DEF Spec

-----------------------------------------------------------------------------
(* Replay. What a run has committed is a fixed point of its own delta.     *)

\* A MERGE of the same rows again changes nothing.
LEMMA MergeIsIdempotent ==
    ASSUME NEW table, NEW staged
    PROVE  Merge(Merge(table, staged), staged) = Merge(table, staged)
  BY DEF Merge

\* A second landing of a delta finds every key of it in the log.
LEMMA NothingUnseenTwice ==
    ASSUME NEW log, NEW staged, NEW after,
           DOMAIN after = DOMAIN log \cup Unseen(log, staged)
    PROVE  Unseen(after, staged) = {}
  BY DEF Unseen, BagToSet

\* Both strategies together: the replay check of a run that has just executed
\* passes.
LEMMA ReplayOfExecuted ==
    ASSUME TypeInv, NEW b \in Builders, Execute(b)
    PROVE  ReplaySafe(run'[b].work, run'[b].delta, run'[b].refresh)
  <1> DEFINE r == run[b]
             new == run'[b].work
             unseen == Unseen(r.work.log, r.delta)
  <1>1. r.work \in CatalogType /\ r.delta \in SUBSET Rows
        /\ r.refresh \in BOOLEAN
    BY DEF TypeInv, RunType
  <1>2. /\ new \in CatalogType
        /\ new.table = IF r.refresh THEN Newest(r.delta)
                       ELSE Merge(r.work.table, Newest(r.delta))
        /\ new.log = IF r.refresh THEN SetToBag(r.delta)
                     ELSE r.work.log (+) SetToBag(unseen)
    BY ExecutedFields
  <1>3. run'[b].delta = r.delta /\ run'[b].refresh = r.refresh
    BY ExecutedFields
  <1>4. Materialize(new, r.delta, r.refresh) =
           [table |-> IF r.refresh THEN Newest(r.delta)
                      ELSE Merge(new.table, Newest(r.delta)),
            log |-> IF r.refresh THEN SetToBag(r.delta)
                    ELSE new.log (+) SetToBag(Unseen(new.log, r.delta)),
            mark |-> new.mark]
    BY <1>1, <1>2, MaterializeIs
  <1>5. new = [table |-> new.table, log |-> new.log, mark |-> new.mark]
    BY <1>2 DEF CatalogType
  <1>6. CASE r.refresh
    BY <1>2, <1>3, <1>4, <1>5, <1>6 DEF ReplaySafe
  <1>7. CASE ~r.refresh
    <2>1. Merge(new.table, Newest(r.delta)) = new.table
      BY <1>2, <1>7, MergeIsIdempotent
    <2>2. r.work.log \in Logs /\ unseen \in SUBSET Rows
      BY <1>1 DEF CatalogType, Unseen
    <2>3. DOMAIN new.log = DOMAIN r.work.log \cup unseen
      BY <1>2, <1>7, <2>2, LogGrows
    <2>4. Unseen(new.log, r.delta) = {}
      BY <2>3, NothingUnseenTwice
    <2>5. new.log (+) SetToBag(Unseen(new.log, r.delta)) = new.log
      BY <1>2, <2>4, LogKeeps DEF CatalogType
    <2> QED
      BY <1>3, <1>4, <1>5, <1>7, <2>1, <2>5 DEF ReplaySafe
  <1> QED
    BY <1>6, <1>7

LEMMA ReplayInit == Init => ReplayChangesNothing
  BY DEF Init, ReplayChangesNothing, NoRun

LEMMA ReplayNext ==
    TypeInv /\ ReplayChangesNothing /\ [Next]_vars => ReplayChangesNothing'
  <1> SUFFICES ASSUME TypeInv, ReplayChangesNothing, [Next]_vars,
                      NEW c \in Builders, run'[c].at = "committed"
               PROVE  ReplaySafe(run'[c].work, run'[c].delta, run'[c].refresh)
    BY DEF ReplayChangesNothing
  <1>1. CASE run'[c] = run[c]
    BY <1>1 DEF ReplayChangesNothing
  <1>2. CASE run' = run
    BY <1>1, <1>2
  <1>3. ASSUME NEW b \in Builders, Bind(b) \/ Abort(b) \/ Publish(b)
        PROVE  run'[c] = run[c]
    <2>1. \A d \in Builders \ {b} : run'[d] = run[d]
      BY <1>3 DEF Bind, Abort, Publish, TypeInv
    <2>2. run'[b].at # "committed"
      BY <1>3 DEF Bind, Abort, Publish, TypeInv, NoRun
    <2> QED
      BY <2>1, <2>2
  <1>4. ASSUME NEW b \in Builders, Execute(b), b # c PROVE run'[c] = run[c]
    BY <1>4 DEF Execute, TypeInv
  <1>5. CASE Execute(c)
    BY <1>5, ReplayOfExecuted
  <1>6. ASSUME NEW key \in Keys \cup {NullKey}, NEW cursor \in 0 .. MaxCursor,
               Land(key, cursor)
        PROVE  run' = run
    BY <1>6 DEF Land
  <1>7. CASE Purge \/ Rollback \/ UNCHANGED vars
    BY <1>2, <1>7 DEF Purge, Rollback, vars
  <1> QED
    BY <1>1, <1>2, <1>3, <1>4, <1>5, <1>6, <1>7 DEF Next

\* Landing a delta a second time changes nothing of what a run committed,
\* for any source, strategy and mark: --verify-replay finds nothing in these
\* two transforms.
THEOREM ReplayIsSafe == Spec => []ReplayChangesNothing
  BY TypeInit, TypeNext, ReplayInit, ReplayNext, PTL DEF Spec

-----------------------------------------------------------------------------
(* Nothing is lost behind the mark.                                        *)

\* No cursor and no mark is above the highest cursor that landed, and no row
\* has landed under the number of the next one.
IndTop ==
    /\ \A row \in source : row.cursor <= top
    /\ \A row \in timely : row.id <= landed /\ row.cursor # NullCursor
    /\ \A catalog \in Held : catalog.mark <= top
    /\ \A b \in Builders : \A row \in run[b].delta : row.cursor <= top

LEMMA TopInit == Init => IndTop
  BY HeldInit DEF Init, IndTop, Fresh, NoRun, NoMark, NullCursor

\* What landing a row does to the numbers.
LEMMA LandRaises ==
    ASSUME TypeInv,
           NEW key \in Keys \cup {NullKey}, NEW cursor \in 0 .. MaxCursor,
           Land(key, cursor)
    PROVE  /\ top' >= top /\ top' >= cursor
           /\ landed' = landed + 1
           /\ top' \in Nat /\ top \in Nat /\ landed \in Nat
           /\ UNCHANGED <<Held, run>>
  <1>1. Max({top, cursor}) >= top /\ Max({top, cursor}) >= cursor
        /\ Max({top, cursor}) \in {top, cursor}
    BY MaxIsGreatest, CursorAssumption,
       {top, cursor} \in SUBSET (0 .. MaxCursor) DEF TypeInv
  <1> QED
    BY <1>1 DEF Land, TypeInv, Held, Catalogs

LEMMA TopNext == TypeInv /\ IndTop /\ [Next]_vars => IndTop'
  <1> SUFFICES ASSUME TypeInv, IndTop, [Next]_vars PROVE IndTop'
    OBVIOUS
  <1>0. Fresh.mark <= top
    BY CursorAssumption DEF Fresh, NoMark, TypeInv
  <1>1. ASSUME NEW key \in Keys \cup {NullKey}, NEW cursor \in 0 .. MaxCursor,
               Land(key, cursor)
        PROVE  IndTop'
    <2>1. /\ top' >= top /\ top' >= cursor /\ landed' = landed + 1
          /\ top' \in Nat /\ top \in Nat /\ landed \in Nat
          /\ Held' = Held /\ run' = run
      BY <1>1, LandRaises
    <2>2. /\ \A row \in source : row.cursor \in Nat
          /\ \A row \in timely : row.id \in Nat
          /\ \A catalog \in Held : catalog.mark \in Nat
          /\ \A b \in Builders : \A row \in run[b].delta : row.cursor \in Nat
      BY OpenedCatalog DEF TypeInv, RunType, CatalogType, Rows, Held
    <2>3. \A row \in source' : row.cursor <= top'
      BY <1>1, <2>1, <2>2 DEF Land, IndTop
    <2>4. \A row \in timely' : row.id <= landed' /\ row.cursor # NullCursor
      BY <1>1, <2>1, <2>2 DEF Land, IndTop
    <2>5. /\ \A catalog \in Held' : catalog.mark <= top'
          /\ \A b \in Builders : \A row \in run'[b].delta : row.cursor <= top'
      BY <2>1, <2>2 DEF IndTop
    <2> QED
      BY <2>3, <2>4, <2>5 DEF IndTop
  <1>2. CASE Purge
    <2>1. Held' = Held
      BY <1>2 DEF Purge, Held, Catalogs
    <2> QED
      BY <1>2, <2>1 DEF Purge, IndTop
  <1>3. ASSUME UNCHANGED upstream,
               \A catalog \in Held' : catalog.mark <= top,
               \A b \in Builders : run'[b].delta \subseteq run[b].delta \cup source
        PROVE  IndTop'
    BY <1>3 DEF IndTop, upstream
  <1>4. \A catalog \in Held' : catalog.mark <= top
    <2>1. CASE Held' \subseteq Held \cup {Fresh}
      BY <1>0, <2>1 DEF IndTop
    <2>2. ASSUME NEW b \in Builders, Execute(b),
                 Held' \subseteq Held \cup {run'[b].work}
          PROVE  \A catalog \in Held' : catalog.mark <= top
      <3> DEFINE new == Advance(run[b].work.mark, Staged(b), run[b].refresh)
      <3>1. /\ run[b].delta \in SUBSET Rows
            /\ run[b].refresh \in BOOLEAN
            /\ run[b].work.mark \in 0 .. MaxCursor
        BY DEF TypeInv, RunType, CatalogType
      <3>2. /\ Staged(b) \in 0 .. MaxCursor
            /\ \/ Staged(b) = NoMark
               \/ \E row \in run[b].delta : row.cursor = Staged(b)
        BY <3>1, StagedIs
      <3>3. new \in {run[b].work.mark, Staged(b)}
        BY <3>1, <3>2, AdvanceIs
      <3>4. Staged(b) <= top /\ run[b].work.mark <= top
        BY <3>2 DEF IndTop, Held, NoMark, TypeInv
      <3>5. run'[b].work.mark = new
        BY <2>2, ExecutedFields
      <3> QED
        BY <2>2, <3>3, <3>4, <3>5 DEF IndTop
    <2> QED
      BY <2>1, <2>2, HeldNext
  <1>5. ASSUME NEW b \in Builders,
               Bind(b) \/ Execute(b) \/ Abort(b) \/ Publish(b)
        PROVE  IndTop'
    <2>1. \A c \in Builders \ {b} : run'[c] = run[c]
      BY <1>5 DEF Bind, Execute, Abort, Publish, TypeInv
    <2>2. run'[b].delta \subseteq run[b].delta \cup source
      <3>1. CASE Bind(b)
        BY <3>1 DEF Bind, Delta, TypeInv
      <3>2. CASE Execute(b)
        BY <3>2, ExecutedFields
      <3>3. CASE Abort(b) \/ Publish(b)
        BY <3>3 DEF Abort, Publish, NoRun, TypeInv
      <3> QED
        BY <1>5, <3>1, <3>2, <3>3
    <2>3. UNCHANGED upstream
      BY <1>5 DEF Bind, Execute, Abort, Publish
    <2> QED
      BY <1>3, <1>4, <2>1, <2>2, <2>3
  <1>6. CASE Rollback \/ UNCHANGED vars
    BY <1>3, <1>4, <1>6 DEF Rollback, vars
  <1> QED
    BY <1>1, <1>2, <1>5, <1>6 DEF Next

-----------------------------------------------------------------------------
(* Each timely row is accounted for, by every catalog there is and by every*)
(* run that is about to make another.                                      *)

Accounted(catalog, row) ==
    \/ catalog.mark = NoMark
    \/ row.cursor > catalog.mark - Lookback
    \/ Holds(catalog, row)

\* A bound run staged the row, or holds it from before because it is behind
\* the mark it read, or will commit a mark that the row is ahead of.
Staging(r, row) ==
    \/ row \in r.delta
    \/ /\ ~r.refresh
       /\ r.work.mark # NoMark
       /\ row.cursor <= r.work.mark - Lookback
       /\ Holds(r.work, row)
    \/ /\ row.cursor > r.work.mark - Lookback
       /\ \A other \in r.delta : row.cursor > other.cursor - Lookback

\* Without --full-refresh, a delta taken past a mark is past it.
PastItsMark(r) ==
    ~r.refresh /\ r.work.mark # NoMark =>
        \A other \in r.delta : other.cursor > r.work.mark - Lookback

IndTimely ==
    /\ \A row \in source \cap timely : \A catalog \in Held :
          Accounted(catalog, row)
    /\ \A b \in Builders : run[b].at = "bound" =>
          /\ \A row \in source \cap timely : Staging(run[b], row)
          /\ PastItsMark(run[b])

\* What a run staged, the catalog it commits holds.
LEMMA StagedIsHeld ==
    ASSUME TypeInv, NEW b \in Builders, Execute(b),
           NEW row \in run[b].delta
    PROVE  Holds(run'[b].work, row)
  <1> DEFINE r == run[b]
             new == run'[b].work
             unseen == Unseen(r.work.log, r.delta)
  <1>1. r.work \in CatalogType /\ r.delta \in SUBSET Rows
    BY DEF TypeInv, RunType
  <1>2. /\ new.table = IF r.refresh THEN Newest(r.delta)
                       ELSE Merge(r.work.table, Newest(r.delta))
        /\ new.log = IF r.refresh THEN SetToBag(r.delta)
                     ELSE r.work.log (+) SetToBag(unseen)
    BY ExecutedFields
  <1>3. Newest(r.delta) \subseteq new.table
    BY <1>2 DEF Merge
  <1>4. \E kept \in new.table : kept.key = row.key /\ kept.cursor >= row.cursor
    BY <1>1, <1>3, NewestExists
  <1>5. \E kept \in DOMAIN new.log : kept.key = row.key
    <2>1. CASE r.refresh
      BY <1>2, <2>1 DEF SetToBag
    <2>2. CASE ~r.refresh
      <3>1. r.work.log \in Logs /\ unseen \in SUBSET Rows
        BY <1>1 DEF CatalogType, Unseen
      <3>2. DOMAIN new.log = DOMAIN r.work.log \cup unseen
        BY <1>2, <2>2, <3>1, LogGrows
      <3>3. row \in unseen \/ \E old \in DOMAIN r.work.log : old.key = row.key
        BY DEF Unseen, BagToSet
      <3> QED
        BY <3>2, <3>3
    <2> QED
      BY <2>1, <2>2
  <1> QED
    BY <1>4, <1>5 DEF Holds, BagToSet

\* What was held behind the mark stays held: a staged row may take its place
\* only with a cursor past the mark, so with a newer one.
LEMMA HeldStaysHeld ==
    ASSUME TypeInv, NEW b \in Builders, Execute(b), ~run[b].refresh,
           NEW row \in Rows, row.cursor <= run[b].work.mark - Lookback,
           run[b].work.mark # NoMark, PastItsMark(run[b]),
           Holds(run[b].work, row)
    PROVE  Holds(run'[b].work, row)
  <1> DEFINE r == run[b]
             new == run'[b].work
             unseen == Unseen(r.work.log, r.delta)
  <1>1. /\ r.work \in CatalogType /\ r.delta \in SUBSET Rows
        /\ r.work.mark \in Int /\ Lookback \in Int
    BY CursorAssumption DEF TypeInv, RunType, CatalogType
  <1>2. /\ new.table = Merge(r.work.table, Newest(r.delta))
        /\ new.log = r.work.log (+) SetToBag(unseen)
    BY ExecutedFields
  <1>3. PICK old \in r.work.table : old.key = row.key /\ old.cursor >= row.cursor
    BY DEF Holds
  <1>4. \E kept \in new.table : kept.key = row.key /\ kept.cursor >= row.cursor
    <2>1. CASE old \in new.table
      BY <1>3, <2>1
    <2>2. CASE old \notin new.table
      <3>1. PICK kept \in Newest(r.delta) : kept.key = old.key
        BY <1>2, <2>2 DEF Merge
      <3>2. kept \in r.delta /\ kept \in new.table
        BY <1>2, <3>1 DEF Newest, Merge
      <3>3. kept.cursor > r.work.mark - Lookback
        BY <3>2 DEF PastItsMark
      <3>4. kept.cursor \in Int /\ row.cursor \in Int
        BY <1>1, <3>2 DEF Rows
      <3>5. kept.cursor >= row.cursor
        BY <1>1, <3>3, <3>4
      <3> QED
        BY <1>3, <3>1, <3>2, <3>5
    <2> QED
      BY <2>1, <2>2
  <1>5. \E kept \in DOMAIN new.log : kept.key = row.key
    <2>1. r.work.log \in Logs /\ unseen \in SUBSET Rows
      BY <1>1 DEF CatalogType, Unseen
    <2>2. DOMAIN new.log = DOMAIN r.work.log \cup unseen
      BY <1>2, <2>1, LogGrows
    <2> QED
      BY <2>2 DEF Holds, BagToSet
  <1> QED
    BY <1>4, <1>5 DEF Holds, BagToSet

\* So the catalog a run commits accounts for every timely row.
LEMMA ExecutedAccounts ==
    ASSUME TypeInv, IndTimely, NEW b \in Builders, Execute(b),
           NEW row \in source \cap timely
    PROVE  Accounted(run'[b].work, row)
  <1> DEFINE r == run[b]
             new == run'[b].work
  <1>1. Staging(r, row) /\ PastItsMark(r)
    BY DEF IndTimely, Execute
  <1>2. CASE row \in r.delta
    BY <1>2, StagedIsHeld DEF Accounted
  <1>3. CASE /\ ~r.refresh
             /\ r.work.mark # NoMark
             /\ row.cursor <= r.work.mark - Lookback
             /\ Holds(r.work, row)
    <2>1. row \in Rows
      BY DEF TypeInv
    <2> QED
      BY <1>1, <1>3, <2>1, HeldStaysHeld DEF Accounted
  <1>4. CASE /\ row.cursor > r.work.mark - Lookback
             /\ \A other \in r.delta : row.cursor > other.cursor - Lookback
    <2>1. r.work.mark \in 0 .. MaxCursor /\ r.delta \in SUBSET Rows
          /\ r.refresh \in BOOLEAN
      BY DEF TypeInv, RunType, CatalogType
    <2>2. /\ Staged(b) \in 0 .. MaxCursor
          /\ \/ Staged(b) = NoMark
             \/ \E other \in r.delta : other.cursor = Staged(b)
      BY <2>1, StagedIs
    <2>3. new.mark \in {r.work.mark, Staged(b)}
      BY <2>1, <2>2, ExecutedFields, AdvanceIs
    <2>4. new.mark = NoMark \/ row.cursor > new.mark - Lookback
      BY <1>4, <2>2, <2>3
    <2> QED
      BY <2>4 DEF Accounted
  <1> QED
    BY <1>1, <1>2, <1>3, <1>4 DEF Staging

LEMMA TimelyInit == Init => IndTimely
  BY DEF Init, IndTimely, NoRun

\* A row lands within the lookback of the highest cursor, so ahead of every
\* mark there is and every mark that a run in flight will commit.
LEMMA TimelyLand ==
    ASSUME TypeInv, IndTop, IndTimely,
           NEW key \in Keys \cup {NullKey}, NEW cursor \in 0 .. MaxCursor,
           Land(key, cursor)
    PROVE  IndTimely'
  <1> DEFINE new == [id |-> landed + 1, key |-> key, cursor |-> cursor]
  <1>1. Held' = Held /\ run' = run /\ landed \in Nat
    BY LandRaises
  <1>2. source' = source \cup {new} /\ timely' \subseteq timely \cup {new}
    BY DEF Land
  <1>3. new \notin timely
    BY <1>1 DEF IndTop
  <1>4. ASSUME new \in timely'
        PROVE  /\ \A catalog \in Held : Accounted(catalog, new)
               /\ \A b \in Builders : Staging(run[b], new)
    <2>1. cursor > top - Lookback
      BY <1>3, <1>4 DEF Land
    <2>2. top \in Int /\ cursor \in Int /\ Lookback \in Int
      BY CursorAssumption DEF TypeInv
    <2>3. ASSUME NEW m \in Int, m <= top PROVE new.cursor > m - Lookback
      BY <2>1, <2>2, <2>3
    <2>4. \A catalog \in Held : catalog.mark \in Int /\ catalog.mark <= top
      BY OpenedCatalog DEF IndTop, Held, CatalogType
    <2>5. \A b \in Builders : \A other \in run[b].delta :
             other.cursor \in Int /\ other.cursor <= top
      BY DEF TypeInv, RunType, Rows, IndTop
    <2>6. \A b \in Builders : run[b].work \in Held
      BY DEF Held
    <2> HIDE DEF new
    <2> QED
      BY <2>3, <2>4, <2>5, <2>6 DEF Accounted, Staging
  <1>5. \A row \in source' \cap timely' : row \in source \cap timely \/ row = new
    BY <1>2
  <1> HIDE DEF new
  <1> QED
    BY <1>1, <1>4, <1>5 DEF IndTimely

\* A run that binds stages what is past its mark; the catalog it opened
\* accounts for the rest.
LEMMA TimelyBind ==
    ASSUME TypeInv, IndTop, IndTimely, NEW b \in Builders, Bind(b)
    PROVE  /\ \A row \in source \cap timely : Staging(run'[b], row)
           /\ PastItsMark(run'[b])
  <1> DEFINE r == run'[b]
             work == IF latest = 0 THEN Fresh ELSE archive[latest]
  <1>1. r.work = work /\ r.delta = Delta(r.refresh, work.mark)
    BY DEF Bind, TypeInv
  <1>2. work \in CatalogType /\ (work.mark # NoMark => work \in Held)
    BY FreshType, OpenedCatalog DEF Fresh, Held
  <1> HIDE DEF work, r
  <1>3. work.mark \in Int /\ Lookback \in Int
    BY <1>2, CursorAssumption DEF CatalogType
  <1>4. PastItsMark(r)
    BY <1>1 DEF PastItsMark, Delta, Past
  <1>5. ASSUME NEW row \in source \cap timely, row \notin r.delta
        PROVE  /\ ~r.refresh
               /\ work.mark # NoMark
               /\ row.cursor <= work.mark - Lookback
               /\ Holds(work, row)
    <2>1. ~r.refresh /\ work.mark # NoMark /\ ~Past(row, work.mark)
      BY <1>1, <1>5 DEF Delta
    <2>2. row.cursor # NullCursor /\ row.cursor \in Int
      BY DEF IndTop, TypeInv, Rows
    <2>3. ~ (row.cursor > work.mark - Lookback)
      BY <2>1, <2>2 DEF Past
    <2>4. Holds(work, row)
      BY <1>2, <2>1, <2>3 DEF IndTimely, Accounted
    <2> QED
      BY <1>3, <2>1, <2>2, <2>3, <2>4
  <1> QED
    BY <1>1, <1>4, <1>5 DEF Staging, r

LEMMA TimelyNext == TypeInv /\ IndTop /\ IndTimely /\ [Next]_vars => IndTimely'
  <1> SUFFICES ASSUME TypeInv, IndTop, IndTimely, [Next]_vars PROVE IndTimely'
    OBVIOUS
  <1>1. CASE \E key \in Keys \cup {NullKey}, cursor \in 0 .. MaxCursor :
                Land(key, cursor)
    BY <1>1, TimelyLand
  <1>2. CASE Purge
    <2>1. source' \subseteq source /\ timely' = timely /\ run' = run
          /\ Held' = Held
      BY <1>2 DEF Purge, Held, Catalogs
    <2> QED
      BY <2>1 DEF IndTimely
  <1>3. ASSUME source' = source, timely' = timely
        PROVE  \A row \in source \cap timely : \A catalog \in Held' :
                  Accounted(catalog, row)
    <2>1. CASE Held' \subseteq Held \cup {Fresh}
      BY <2>1 DEF IndTimely, Accounted, Fresh
    <2>2. ASSUME NEW b \in Builders, Execute(b),
                 Held' \subseteq Held \cup {run'[b].work}
          PROVE  \A row \in source \cap timely : \A catalog \in Held' :
                    Accounted(catalog, row)
      BY <2>2, ExecutedAccounts DEF IndTimely
    <2> QED
      BY <2>1, <2>2, HeldNext
  <1>4. ASSUME NEW b \in Builders,
               Bind(b) \/ Execute(b) \/ Abort(b) \/ Publish(b)
        PROVE  IndTimely'
    <2>1. source' = source /\ timely' = timely
      BY <1>4 DEF Bind, Execute, Abort, Publish, upstream
    <2>2. \A c \in Builders \ {b} : run'[c] = run[c]
      BY <1>4 DEF Bind, Execute, Abort, Publish, TypeInv
    <2>3. run'[b].at = "bound" =>
             /\ \A row \in source \cap timely : Staging(run'[b], row)
             /\ PastItsMark(run'[b])
      <3>1. CASE Bind(b)
        BY <3>1, TimelyBind
      <3>2. CASE Execute(b)
        BY <3>2, ExecutedFields
      <3>3. CASE Abort(b) \/ Publish(b)
        BY <3>3 DEF Abort, Publish, NoRun, TypeInv
      <3> QED
        BY <1>4, <3>1, <3>2, <3>3
    <2> QED
      BY <1>3, <2>1, <2>2, <2>3 DEF IndTimely
  <1>5. CASE Rollback \/ UNCHANGED vars
    <2>1. source' = source /\ timely' = timely /\ run' = run
      BY <1>5 DEF Rollback, vars, upstream
    <2> QED
      BY <1>3, <2>1 DEF IndTimely
  <1> QED
    BY <1>1, <1>2, <1>4, <1>5 DEF Next

\* No row that landed within the lookback is lost behind the watermark,
\* whatever landed between a bind and its commit, whichever run died and
\* wherever LATEST was rolled back to.
THEOREM NoTimelyRowIsLost == Spec => []NothingTimelyIsBehindTheMark
  <1>1. IndTimely => NothingTimelyIsBehindTheMark
    BY DEF IndTimely, Accounted, NothingTimelyIsBehindTheMark, Held
  <1> QED
    BY <1>1, TypeInit, TypeNext, TopInit, TopNext, TimelyInit, TimelyNext, PTL
    DEF Spec
=============================================================================
