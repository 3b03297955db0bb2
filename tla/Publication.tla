----------------------------- MODULE Publication -----------------------------
(***************************************************************************)
(* The published-catalog protocol of a cell: `datamk run` (the Builder),   *)
(* `datamk rollback` and `datamk release` (the operator's commands), all   *)
(* working on one object store that holds the immutable execution          *)
(* artifacts, their run summaries and the LATEST pointer.                  *)
(*                                                                         *)
(* A catalog is abstracted to its lineage and what it has expired of it.   *)
(* Position i of a lineage is snapshot id i, as DuckLake numbers them, and *)
(* the element is the identity of the run that committed it, so two        *)
(* catalogs may hold different snapshots under the same id. A run replaces *)
(* its tables: the data files it writes are read by its own snapshot only, *)
(* and are known by the run, too.                                          *)
(*                                                                         *)
(* Every call on the store is an atomic step (a PUT, GET or DELETE of one  *)
(* object is atomic and read-after-write consistent), nothing else is.     *)
(***************************************************************************)
EXTENDS Integers, Sequences, FiniteSets

CONSTANTS
    Builders,   \* the processes that may execute `datamk run` at the same time
    Operators,  \* the processes that execute `datamk rollback` / `release`
    Collects,   \* whether a retention window is set (--retention-days > 0)
    Retention,  \* that window, in ticks of the store's clock
    Overlap,    \* whether runs and operator commands may overlap in time
    InPod,      \* whether runs read the release manifest a deploy copied
    MaxRuns,    \* bound: no run starts after so many commits
    MaxClock,   \* bound: last tick of the clock
    MaxCrashes  \* bound: runs that die or fail half way

ASSUME BoundsAssumption ==
    /\ MaxRuns \in Nat
    /\ MaxClock \in Nat
    /\ MaxCrashes \in Nat

ASSUME ModeAssumption ==
    /\ Collects \in BOOLEAN
    /\ Overlap \in BOOLEAN
    /\ InPod \in BOOLEAN
    /\ Retention \in Nat

Executions == Nat \ {0}

\* What `latest()` returns when the pointer object is absent.
NoExecution == 0

Lineages == Seq(Nat \ {0})

\* The attempts of `publish_execution` to allocate a number.
MaxAttempts == 3

\* The release manifest before the first `datamk release`.
NoPin == [id |-> 0, run |-> 0]

VARIABLES
    artifacts,  \* catalog/executions/<n>.ducklake: n -> [lineage, expired, mtime]
    summaries,  \* catalog/executions/<n>.run.json: n -> the run it narrates
    latest,     \* catalog/LATEST
    deleted,    \* runs whose data files have gone from storage
    history,    \* auxiliary: the lineage each number was first published with
    clock,      \* the time both the store and the Builders read
    runs,       \* commits so far: the identity of the latest snapshot
    born,       \* when each of them was committed
    crashes,    \* runs lost so far
    pc,         \* where each Builder stands in `run`
    seen,       \* the execution its `setup` found LATEST naming
    work,       \* lineage of its private working catalog
    expired,    \* the snapshots it has expired: pairs of an id and a time
    num,        \* the execution number it is publishing under
    tries,      \* attempts left of `publish_execution`
    victims,    \* executions its `gc_artifacts` still has to delete
    doomed,     \* the execution whose artifact it has just deleted
    opc,        \* where each operator stands in its command
    listed,     \* what its `list_executions` returned
    target,     \* the execution it rolls back to, or releases from
    pin,        \* .cell/published.json: the pinned snapshot and who wrote it
    shipped     \* the copy of it that a pod's ConfigMap holds

store == <<artifacts, summaries, latest>>
builderVars == <<pc, seen, work, expired, num, tries, victims, doomed>>
operatorVars == <<opc, listed, target>>
commits == <<runs, born>>
pins == <<pin, shipped>>
vars == <<store, deleted, history, clock, commits, crashes, builderVars,
          operatorVars, pins>>

-----------------------------------------------------------------------------

\* `CALL ducklake_snapshots`: the ids an artifact knows.
Known(lineage, expiries) == (1 .. Len(lineage)) \ {e[1] : e \in expiries}

Snapshots(n) == Known(artifacts[n].lineage, artifacts[n].expired)

\* The data files its snapshots read, by the run that wrote them.
Reads(n) == {artifacts[n].lineage[i] : i \in Snapshots(n)}

\* The store loses execution n's entry in a table of objects.
Without(objects, n) == [m \in DOMAIN objects \ {n} |-> objects[m]]

With(objects, n, object) ==
    [m \in DOMAIN objects \cup {n} |-> IF m = n THEN object ELSE objects[m]]

\* `concurrencyPolicy: Forbid` and an operator who suspends the schedule:
\* without Overlap a command starts only when nothing else is running.
Quiet ==
    /\ \A b \in Builders : pc[b] = "idle"
    /\ \A o \in Operators : opc[o] = "idle"

MayStart == Overlap \/ Quiet

Init ==
    /\ artifacts = [n \in {} |-> 0]
    /\ summaries = [n \in {} |-> 0]
    /\ latest = NoExecution
    /\ deleted = {}
    /\ history = [n \in {} |-> <<>>]
    /\ clock = 0
    /\ runs = 0
    /\ born = [r \in {} |-> 0]
    /\ crashes = 0
    /\ pc = [b \in Builders |-> "idle"]
    /\ seen = [b \in Builders |-> NoExecution]
    /\ work = [b \in Builders |-> <<>>]
    /\ expired = [b \in Builders |-> {}]
    /\ num = [b \in Builders |-> NoExecution]
    /\ tries = [b \in Builders |-> 0]
    /\ victims = [b \in Builders |-> {}]
    /\ doomed = [b \in Builders |-> NoExecution]
    /\ opc = [o \in Operators |-> "idle"]
    /\ listed = [o \in Operators |-> {}]
    /\ target = [o \in Operators |-> NoExecution]
    /\ pin = NoPin
    /\ shipped = NoPin

-----------------------------------------------------------------------------
(* The Builder: `engine::run`. *)

\* `setup` reads the pointer.
ReadLatest(b) ==
    /\ pc[b] = "idle"
    /\ MayStart
    /\ runs < MaxRuns
    /\ pc' = [pc EXCEPT ![b] = "download"]
    /\ seen' = [seen EXCEPT ![b] = latest]
    /\ UNCHANGED <<store, deleted, history, clock, commits, crashes, work,
                   expired, num, tries, victims, doomed, operatorVars, pins>>

\* `setup` downloads the artifact the pointer named, or bootstraps a fresh
\* catalog when there was no pointer. A missing artifact fails the run.
FreshCatalog == [lineage |-> <<>>, expired |-> {}]

Bases_firstListed(b) ==     \* mutant: build on the first artifact listed
    {artifacts[n] :
        n \in {m \in DOMAIN artifacts : \A k \in DOMAIN artifacts : k >= m}}
        \cup {base \in {FreshCatalog} : artifacts = [n \in {} |-> 0]}

Bases(b) ==
    IF seen[b] = NoExecution
    THEN {FreshCatalog}
    ELSE {artifacts[n] : n \in {seen[b]} \cap DOMAIN artifacts}

Download(b) ==
    /\ pc[b] = "download"
    /\ \E base \in Bases(b) :
          /\ work' = [work EXCEPT ![b] = base.lineage]
          /\ expired' = [expired EXCEPT ![b] = base.expired]
    /\ pc' = [pc EXCEPT ![b] = "build"]
    /\ UNCHANGED <<store, deleted, history, clock, commits, crashes, seen,
                   num, tries, victims, doomed, operatorVars, pins>>

\* The transforms run in one transaction: one COMMIT, one new snapshot, in
\* the private copy. `verify::check` then gates everything that follows (a
\* failed contract is a run that goes no further, as in Fail).
Commit(b) ==
    /\ pc[b] = "build"
    /\ runs' = runs + 1
    /\ born' = With(born, runs + 1, clock)
    /\ work' = [work EXCEPT ![b] = Append(@, runs + 1)]
    /\ tries' = [tries EXCEPT ![b] = MaxAttempts]
    /\ pc' = [pc EXCEPT ![b] = IF Collects THEN "compact" ELSE "list"]
    /\ UNCHANGED <<store, deleted, history, clock, crashes, seen, expired,
                   num, victims, doomed, operatorVars, pins>>

\* `compact`, where a retention window is set. The pins are those of the run
\* directory's manifest: in a pod, of the copy a deploy shipped.
PinnedId == IF InPod THEN shipped.id ELSE pin.id

\* `select_expirable`: older than the window, not pinned, not the newest.
Expirable_pinned(b) ==           \* mutant: the pins are not looked at
    {i \in Known(work[b], expired[b]) \ {Len(work[b])} :
        born[work[b][i]] < clock - Retention}

Expirable(b) ==
    {i \in Known(work[b], expired[b]) \ {Len(work[b])} :
        /\ born[work[b][i]] < clock - Retention
        /\ i # PinnedId}

\* An expired snapshot's files are scheduled for deletion on the spot, and
\* deleted by a compaction of that catalog a window later.
Scheduled(b) == expired[b] \cup {<<i, clock>> : i \in Expirable(b)}

Cleanable_now(b) ==              \* mutant: no window between the two
    {work[b][e[1]] : e \in Scheduled(b)}

Cleanable(b) ==
    {work[b][e[1]] : e \in {x \in Scheduled(b) : x[2] < clock - Retention}}

\* Its failure is a warning and the run goes on: nothing was expired, or the
\* snapshots were and some of the files, or none, have been deleted.
Compact(b) ==
    /\ pc[b] = "compact"
    /\ pc' = [pc EXCEPT ![b] = "list"]
    /\ \/ UNCHANGED <<expired, deleted>>
       \/ /\ expired' = [expired EXCEPT ![b] = Scheduled(b)]
          /\ \E files \in SUBSET Cleanable(b) : deleted' = deleted \cup files
    /\ UNCHANGED <<store, history, clock, commits, crashes, seen, work, num, tries,
                   victims, doomed, operatorVars, pins>>

\* `publish_execution` numbers from the highest artifact in the listing,
\* never from LATEST; after three collisions it gives up.
NextNumber_last(last) == last             \* mutant: the + 1 forgotten
NextNumber_pointer(last) == latest + 1    \* mutant: LATEST + 1

NextNumber(last) == last + 1

ListExecutions_pointing(b) ==    \* mutant: the pointer is written first
    /\ pc[b] = "list"
    /\ tries[b] > 0
    /\ \E last \in DOMAIN artifacts \cup {NoExecution} :
          /\ \A n \in DOMAIN artifacts : n <= last
          /\ num' = [num EXCEPT ![b] = last + 1]
          /\ latest' = last + 1
    /\ tries' = [tries EXCEPT ![b] = @ - 1]
    /\ pc' = [pc EXCEPT ![b] = "put"]
    /\ UNCHANGED <<artifacts, summaries, deleted, history, clock, commits,
                   crashes, seen, work, expired, victims, doomed,
                   operatorVars, pins>>

ListExecutions(b) ==
    /\ pc[b] = "list"
    /\ tries[b] > 0
    /\ \E last \in DOMAIN artifacts \cup {NoExecution} :
          /\ \A n \in DOMAIN artifacts : n <= last
          /\ num' = [num EXCEPT ![b] = NextNumber(last)]
    /\ tries' = [tries EXCEPT ![b] = @ - 1]
    /\ pc' = [pc EXCEPT ![b] = "put"]
    /\ UNCHANGED <<store, deleted, history, clock, commits, crashes, seen,
                   work, expired, victims, doomed, operatorVars, pins>>

\* The conditional PUT of the artifact: it creates, or the key exists and
\* the loop lists again.
Creates_always(b) == TRUE                 \* mutant: an unconditional PUT

Creates(b) == num[b] \notin DOMAIN artifacts

PutArtifact(b) ==
    /\ pc[b] = "put"
    /\ \/ /\ ~Creates(b)
          /\ pc' = [pc EXCEPT ![b] = "list"]
          /\ UNCHANGED <<artifacts, history>>
       \/ /\ Creates(b)
          /\ pc' = [pc EXCEPT ![b] = "point"]
          /\ artifacts' = With(artifacts, num[b],
                               [lineage |-> work[b], expired |-> expired[b],
                                mtime |-> clock])
          /\ history' = IF num[b] \in DOMAIN history THEN history
                        ELSE With(history, num[b], work[b])
    /\ UNCHANGED <<summaries, latest, deleted, clock, commits, crashes, seen,
                   work, expired, num, tries, victims, doomed, operatorVars,
                   pins>>

\* The pointer is written last, and unconditionally.
PutLatest(b) ==
    /\ pc[b] = "point"
    /\ latest' = num[b]
    /\ pc' = [pc EXCEPT ![b] = "summary"]
    /\ UNCHANGED <<artifacts, summaries, deleted, history, clock, commits,
                   crashes, seen, work, expired, num, tries, victims, doomed,
                   operatorVars, pins>>

\* The run summary is created if absent; an existing key or a failed write
\* is a warning, and the run goes on.
SummaryNumber_latest(b) == latest         \* mutant: narrate what LATEST names

SummaryNumber(b) == num[b]

WriteSummary(b) ==
    /\ pc[b] = "summary"
    /\ pc' = [pc EXCEPT ![b] = "gc"]
    /\ \/ /\ SummaryNumber(b) \notin DOMAIN summaries
          /\ summaries' = With(summaries, SummaryNumber(b),
                               work[b][Len(work[b])])
       \/ UNCHANGED summaries
    /\ UNCHANGED <<artifacts, latest, deleted, history, clock, commits,
                   crashes, seen, work, expired, num, tries, victims, doomed,
                   operatorVars, pins>>

\* `gc_artifacts` lists once: everything older than the window, except the
\* number this run has published.
Garbage_keepNothing(b) ==        \* mutant: age alone decides
    {n \in DOMAIN artifacts : artifacts[n].mtime < clock - Retention}

Garbage(b) ==
    {n \in DOMAIN artifacts \ {num[b]} :
        artifacts[n].mtime < clock - Retention}

ListGarbage(b) ==
    /\ pc[b] = "gc"
    /\ Collects
    /\ victims' = [victims EXCEPT ![b] = Garbage(b)]
    /\ pc' = [pc EXCEPT ![b] = "collect"]
    /\ UNCHANGED <<store, deleted, history, clock, commits, crashes, seen,
                   work, expired, num, tries, doomed, operatorVars, pins>>

\* Then it deletes them one at a time, the artifact first ...
DeleteArtifact(b) ==
    /\ pc[b] = "collect"
    /\ \E n \in victims[b] :
          /\ artifacts' = Without(artifacts, n)
          /\ victims' = [victims EXCEPT ![b] = @ \ {n}]
          /\ doomed' = [doomed EXCEPT ![b] = n]
    /\ pc' = [pc EXCEPT ![b] = "collectSummary"]
    /\ UNCHANGED <<summaries, latest, deleted, history, clock, commits,
                   crashes, seen, work, expired, num, tries, operatorVars,
                   pins>>

\* ... and its summary with it.
DeleteSummary(b) ==
    /\ pc[b] = "collectSummary"
    /\ summaries' = Without(summaries, doomed[b])
    /\ pc' = [pc EXCEPT ![b] = "collect"]
    /\ UNCHANGED <<artifacts, latest, deleted, history, clock, commits,
                   crashes, seen, work, expired, num, tries, victims, doomed,
                   operatorVars, pins>>

\* The process ends and its scratch directory goes with it.
Exit(b) ==
    /\ pc' = [pc EXCEPT ![b] = "idle"]
    /\ seen' = [seen EXCEPT ![b] = NoExecution]
    /\ work' = [work EXCEPT ![b] = <<>>]
    /\ expired' = [expired EXCEPT ![b] = {}]
    /\ num' = [num EXCEPT ![b] = NoExecution]
    /\ tries' = [tries EXCEPT ![b] = 0]
    /\ victims' = [victims EXCEPT ![b] = {}]
    /\ doomed' = [doomed EXCEPT ![b] = NoExecution]

\* Nothing (more) to collect: the pipeline is complete.
FinishRun(b) ==
    /\ \/ /\ pc[b] = "gc"
          /\ ~Collects
       \/ /\ pc[b] = "collect"
          /\ victims[b] = {}
    /\ Exit(b)
    /\ UNCHANGED <<store, deleted, history, clock, commits, crashes,
                   operatorVars, pins>>

\* The run bails out on its own: the artifact to build on is gone, or three
\* numbers in a row were taken.
Bail(b) ==
    /\ \/ /\ pc[b] = "download"
          /\ seen[b] # NoExecution
          /\ seen[b] \notin DOMAIN artifacts
       \/ /\ pc[b] = "list"
          /\ tries[b] = 0
    /\ Exit(b)
    /\ UNCHANGED <<store, deleted, history, clock, commits, crashes,
                   operatorVars, pins>>

\* The pod dies, a store call errors, or the contract check fails: the
\* scratch copy is lost, whatever reached the store stays there.
Fail(b) ==
    /\ pc[b] # "idle"
    /\ crashes < MaxCrashes
    /\ crashes' = crashes + 1
    /\ Exit(b)
    /\ UNCHANGED <<store, deleted, history, clock, commits, operatorVars, pins>>

Run(b) ==
    \/ ReadLatest(b)    \/ Download(b)       \/ Commit(b)
    \/ Compact(b)
    \/ ListExecutions(b) \/ PutArtifact(b)   \/ PutLatest(b)
    \/ WriteSummary(b)  \/ ListGarbage(b)    \/ DeleteArtifact(b)
    \/ DeleteSummary(b) \/ FinishRun(b)      \/ Bail(b)

-----------------------------------------------------------------------------
(* The operator: `ops::rollback` and `release::run`. *)

RollbackList(o) ==
    /\ opc[o] = "idle"
    /\ MayStart
    /\ listed' = [listed EXCEPT ![o] = DOMAIN artifacts]
    /\ opc' = [opc EXCEPT ![o] = "listed"]
    /\ UNCHANGED <<store, deleted, history, clock, commits, crashes,
                   builderVars, target, pins>>

\* The target is named, or defaults to the newest listed execution before
\* LATEST; it must be listed and must not be what LATEST names already.
RollbackChoose(o) ==
    /\ opc[o] = "listed"
    /\ latest # NoExecution
    /\ \E n \in listed[o] \ {latest} :
          target' = [target EXCEPT ![o] = n]
    /\ opc' = [opc EXCEPT ![o] = "chosen"]
    /\ UNCHANGED <<store, deleted, history, clock, commits, crashes,
                   builderVars, listed, pins>>

\* The pin guard: the target must still be there and must know the pinned
\* snapshot's id. Without pins nothing is downloaded.
PinGuard(n) ==
    \/ pin = NoPin
    \/ /\ n \in DOMAIN artifacts
       /\ pin.id \in Snapshots(n)

RollbackCheck(o) ==
    /\ opc[o] = "chosen"
    /\ PinGuard(target[o])
    /\ opc' = [opc EXCEPT ![o] = "checked"]
    /\ UNCHANGED <<store, deleted, history, clock, commits, crashes,
                   builderVars, listed, target, pins>>

\* The command ends; nothing it read outlives it.
Close(o) ==
    /\ opc' = [opc EXCEPT ![o] = "idle"]
    /\ listed' = [listed EXCEPT ![o] = {}]
    /\ target' = [target EXCEPT ![o] = NoExecution]

\* The pointer is overwritten, whatever it names by now.
RollbackPut(o) ==
    /\ opc[o] = "checked"
    /\ latest' = target[o]
    /\ Close(o)
    /\ UNCHANGED <<artifacts, summaries, deleted, history, clock, commits,
                   crashes, builderVars, pins>>

\* `release` opens the cell read-only: it reads the pointer ...
ReleaseOpen(o) ==
    /\ opc[o] = "idle"
    /\ MayStart
    /\ latest # NoExecution
    /\ target' = [target EXCEPT ![o] = latest]
    /\ opc' = [opc EXCEPT ![o] = "opened"]
    /\ UNCHANGED <<store, deleted, history, clock, commits, crashes,
                   builderVars, listed, pins>>

\* ... downloads that artifact and pins its newest snapshot.
ReleaseWrite(o) ==
    /\ opc[o] = "opened"
    /\ target[o] \in DOMAIN artifacts
    /\ LET lineage == artifacts[target[o]].lineage
       IN  pin' = [id |-> Len(lineage), run |-> lineage[Len(lineage)]]
    /\ Close(o)
    /\ UNCHANGED <<store, deleted, history, clock, commits, crashes,
                   builderVars, shipped>>

\* A command refuses (no pointer, no such target, the guard, a vanished
\* artifact), is interrupted, or its store call fails: it changes nothing.
GiveUp(o) ==
    /\ opc[o] # "idle"
    /\ Close(o)
    /\ UNCHANGED <<store, deleted, history, clock, commits, crashes,
                   builderVars, pins>>

Operate(o) ==
    \/ RollbackList(o) \/ RollbackChoose(o) \/ RollbackCheck(o)
    \/ RollbackPut(o)  \/ ReleaseOpen(o)    \/ ReleaseWrite(o)
    \/ GiveUp(o)

-----------------------------------------------------------------------------

\* `datamk deploy` renders the directory as it stands; a pod that is already
\* running keeps the ConfigMap it was started with.
Ship ==
    /\ Quiet
    /\ shipped # pin
    /\ shipped' = pin
    /\ UNCHANGED <<store, deleted, history, clock, commits, crashes, builderVars,
                   operatorVars, pin>>

Tick ==
    /\ clock < MaxClock
    /\ clock' = clock + 1
    /\ UNCHANGED <<store, deleted, history, commits, crashes, builderVars,
                   operatorVars, pins>>

Next ==
    \/ \E b \in Builders : Run(b) \/ Fail(b)
    \/ \E o \in Operators : Operate(o)
    \/ Ship
    \/ Tick

Spec == Init /\ [][Next]_vars

-----------------------------------------------------------------------------
(* What the protocol promises. *)

BuilderSteps == {"idle", "download", "build", "compact", "list", "put",
                 "point", "summary", "gc", "collect", "collectSummary"}
OperatorSteps == {"idle", "listed", "chosen", "checked", "opened"}

Expiries == SUBSET (Executions \X Nat)

Artifacts == [lineage : Lineages, expired : Expiries, mtime : Nat]

\* Every variable has its type; a table of objects is a function on a set of
\* execution numbers.
TypeOK ==
    /\ DOMAIN artifacts \subseteq Executions
    /\ \A n \in DOMAIN artifacts : artifacts[n] \in Artifacts
    /\ DOMAIN summaries \subseteq Executions
    /\ deleted \subseteq Executions
    /\ DOMAIN history \subseteq Executions
    /\ latest \in Nat
    /\ clock \in Nat
    /\ runs \in Nat
    /\ born \in [1 .. runs -> Nat]
    /\ crashes \in Nat
    /\ pc \in [Builders -> BuilderSteps]
    /\ seen \in [Builders -> Nat]
    /\ work \in [Builders -> Lineages]
    /\ expired \in [Builders -> Expiries]
    /\ num \in [Builders -> Nat]
    /\ tries \in [Builders -> 0 .. MaxAttempts]
    /\ victims \in [Builders -> SUBSET Executions]
    /\ doomed \in [Builders -> Nat]
    /\ opc \in [Operators -> OperatorSteps]
    /\ listed \in [Operators -> SUBSET Executions]
    /\ target \in [Operators -> Nat]
    /\ pin \in [id : Nat, run : Nat]
    /\ shipped \in [id : Nat, run : Nat]

\* A reader never observes a pointer to a missing artifact (ADR 0004 s4:
\* the pointer is written last; `gc_artifacts`: what LATEST names survives).
PointerNamesArtifact == latest # NoExecution => latest \in DOMAIN artifacts

\* An execution number names one catalog for ever: no artifact is rewritten
\* and no number comes back with another content, so a copy that `datamk
\* attach --download` or a Server keeps under the number stays right.
NumberNamesOneCatalog ==
    \A n \in DOMAIN artifacts : artifacts[n].lineage = history[n]

\* From the conditional PUT on, what is stored under a run's number is that
\* run's own catalog, whatever other writers do: the number it reports, and
\* narrates in the summary, is its own.
Published == {"point", "summary", "gc", "collect", "collectSummary"}

WriterOwnsNumber ==
    \A b \in Builders : pc[b] \in Published =>
        /\ num[b] \in DOMAIN artifacts
        /\ artifacts[num[b]].lineage = work[b]

\* A summary tells of the run that built the artifact of the same number,
\* for as long as both exist.
SummaryTellsOfArtifact ==
    \A n \in DOMAIN artifacts \cap DOMAIN summaries :
        LET lineage == artifacts[n].lineage
        IN  summaries[n] = lineage[Len(lineage)]

\* A Builder that has the cell to itself is never wedged by an earlier
\* rollback or a dead run: the number it allocates is always free.
LoneBuilderNeverCollides ==
    \A b \in Builders : pc[b] = "put" => num[b] \notin DOMAIN artifacts

\* A run gives up only when it was outrun: each attempt it has lost is an
\* execution that someone else published since it opened the cell.
GivesUpOnlyWhenOutrun ==
    \A b \in Builders : pc[b] = "list" =>
        MaxAttempts - tries[b] <=
            Cardinality({n \in DOMAIN artifacts : n > seen[b]})

\* Publishing goes on from what is served: the catalog LATEST moves to
\* carries every snapshot of the one it named before, and of those that one
\* knew it has forgotten only what a compaction may expire, older than the
\* window and not pinned (ADR 0004 s5 and s10).
Extends(long, short) ==
    /\ Len(short) <= Len(long)
    /\ SubSeq(long, 1, Len(short)) = short

Publishes(b) == pc[b] = "point" /\ pc'[b] = "summary"

MayBeForgotten(run) == Collects /\ born[run] < clock - Retention

CarriesOnWhatIsServed ==
    \A b \in Builders :
        (Publishes(b) /\ latest \in DOMAIN artifacts) =>
            /\ Extends(artifacts'[latest'].lineage, artifacts[latest].lineage)
            /\ \A i \in Snapshots(latest) :
                  \/ i \in Snapshots(latest)'
                  \/ i # pin.id /\ MayBeForgotten(artifacts[latest].lineage[i])

PublishForgetsOnlyThePast == [][CarriesOnWhatIsServed]_vars

\* The served artifact knows the pinned snapshot's id, so a supported route
\* never fails on `AT (VERSION => id)`: what the pin guard of a rollback and
\* the pins of a compaction are for. It is not kept where a run reads a copy
\* of the pins (InPod) and a release has not been deployed yet.
PinnedIdIsServed ==
    (pin # NoPin /\ latest \in DOMAIN artifacts) => pin.id \in Snapshots(latest)

\* The files a compaction deletes are none that a snapshot of the served
\* execution still reads: a run that dies between its compaction and its
\* pointer leaves a LATEST that can be queried.
CleanupSparesWhatIsServed ==
    [][(latest \in DOMAIN artifacts) =>
          Reads(latest) \cap (deleted' \ deleted) = {}]_vars

\* A supported route is frozen: the snapshot it is pinned to is the one that
\* was released, not another one with the same id.
PinnedSnapshotIsFrozen ==
    (pin # NoPin /\ latest \in DOMAIN artifacts /\ pin.id \in Snapshots(latest))
        => artifacts[latest].lineage[pin.id] = pin.run

\* What readers of the store may rely on, whatever the processes do inside.
Log == INSTANCE ExecutionLog WITH
    archive <- [n \in DOMAIN artifacts |-> artifacts[n].lineage],
    pointer <- latest

LogSpec == Log!Spec
=============================================================================
