-------------------------------- MODULE Serve --------------------------------
(***************************************************************************)
(* One `datamk serve` process in published mode: the fetch-and-swap poller *)
(* thread, the request handlers that read what it swaps, and the store     *)
(* they follow. The store moves as ExecutionLog allows: executions are     *)
(* immutable, LATEST always names one of them, superseded ones go away,    *)
(* and a run summary lands some time after its execution, or never.        *)
(*                                                                         *)
(* Everything derived from an execution (the attached catalog, its newest  *)
(* snapshot time, its probes, its summary) is represented by the number of *)
(* the execution it was derived from.                                      *)
(***************************************************************************)
EXTENDS Naturals, FiniteSets

CONSTANTS
    Readers,        \* clients of a data route, each with one request at a time
    Agents,         \* clients of /context, likewise
    Free,           \* the holder of a lock nobody holds
    MaxExecutions,  \* bound: executions published in a behaviour
    MaxMoves,       \* bound: rollbacks of the pointer
    MaxFailures,    \* bound: opens that fail for a reason of their own
    MaxRestarts     \* bound: restarts of the process

ASSUME ClientsAssumption ==
    /\ Readers \cap Agents = {}
    /\ Free \notin Readers

ASSUME ServeBoundsAssumption ==
    /\ MaxExecutions \in Nat \ {0}
    /\ MaxMoves \in Nat
    /\ MaxFailures \in Nat
    /\ MaxRestarts \in Nat

Numbers == 1 .. MaxExecutions
None == 0
Clients == Readers \cup Agents

VARIABLES
    archive,    \* the executions whose artifact is in the store
    published,  \* the highest number published so far
    pointer,    \* LATEST
    summaries,  \* the executions whose run summary is in the store
    moves, failures, restarts,  \* how much of each bound is used
    cell,       \* AppState.cell: the execution behind the open connection
    execution,  \* AppState.execution
    asOf,       \* AppState.data_as_of
    probes,     \* AppState.probes
    summary,    \* AppState.run_summary, None before the first fetch
    latestSeen, \* AppState.freshness.latest_seen
    holder,     \* who holds the lock of AppState.cell for a query
    ppc,        \* where the poller stands in its loop
    opening,    \* the execution `open_with` found LATEST naming
    request     \* what each client's current request has read so far

store == <<archive, published, pointer, summaries>>
used == <<moves, failures, restarts>>
shared == <<cell, execution, asOf, probes, summary, latestSeen>>
vars == <<store, used, shared, holder, ppc, opening, request>>

NoRequest == [at |-> "idle", execution |-> None, rows |-> None,
              build |-> None, asOf |-> None, probes |-> None]

\* The first execution is there (the init Job ran), and `build_state` has
\* opened it: whatever is cached was derived from that one connection.
Init ==
    /\ archive = {1}
    /\ published = 1
    /\ pointer = 1
    /\ summaries = {}
    /\ moves = 0
    /\ failures = 0
    /\ restarts = 0
    /\ cell = 1
    /\ execution = 1
    /\ asOf = 1
    /\ probes = 1
    /\ latestSeen = 1
    /\ summary = None
    /\ holder = Free
    /\ ppc = "sleep"
    /\ opening = None
    /\ request = [c \in Clients |-> NoRequest]

-----------------------------------------------------------------------------
(* The store moves on. *)

Publish ==
    /\ published < MaxExecutions
    /\ published' = published + 1
    /\ archive' = archive \cup {published + 1}
    /\ pointer' = published + 1
    /\ UNCHANGED <<summaries, used, shared, holder, ppc, opening, request>>

Rollback ==
    /\ moves < MaxMoves
    /\ moves' = moves + 1
    /\ pointer' \in archive \ {pointer}
    /\ UNCHANGED <<archive, published, summaries, failures, restarts, shared,
                   holder, ppc, opening, request>>

LandSummary ==
    /\ \E n \in archive \ summaries : summaries' = summaries \cup {n}
    /\ UNCHANGED <<archive, published, pointer, used, shared, holder, ppc,
                   opening, request>>

Collect ==
    /\ \E n \in archive \ {pointer} :
          /\ archive' = archive \ {n}
          /\ summaries' = summaries \ {n}
    /\ UNCHANGED <<published, pointer, used, shared, holder, ppc, opening,
                   request>>

Environment == Publish \/ Rollback \/ LandSummary \/ Collect

-----------------------------------------------------------------------------
(* The poller: one tick of `spawn_poller`. *)

\* LATEST is read, the freshness telemetry updated, and the pointer compared
\* with what is served: forwards or backwards alike.
Moved_newOnly == pointer # latestSeen    \* mutant: compare with the last poll

Moved == pointer # execution

NextFetch_swapOnly == "sleep"            \* mutant: fetch it on a swap only

NextFetch == "summary"

PollLatest ==
    /\ ppc = "sleep"
    /\ latestSeen' = pointer
    /\ ppc' = IF Moved THEN "open" ELSE NextFetch
    /\ UNCHANGED <<store, used, cell, execution, asOf, probes, summary, holder,
                   opening, request>>

\* `open_with` reads LATEST again, for itself ...
OpenLatest ==
    /\ ppc = "open"
    /\ opening' = pointer
    /\ ppc' = "download"
    /\ UNCHANGED <<store, used, shared, holder, request>>

\* ... and downloads that artifact; snapshot time and probes are read from
\* the new connection before anyone can see it.
DownloadArtifact ==
    /\ ppc = "download"
    /\ opening \in archive
    /\ ppc' = "swap"
    /\ UNCHANGED <<store, used, shared, holder, opening, request>>

\* The artifact is gone, or the open fails: the last-good catalog stays.
OpenMisses ==
    /\ ppc = "download"
    /\ opening \notin archive
    /\ ppc' = "summary"
    /\ UNCHANGED <<store, used, shared, holder, opening, request>>

OpenFails ==
    /\ ppc = "download"
    /\ failures < MaxFailures
    /\ failures' = failures + 1
    /\ ppc' = "summary"
    /\ UNCHANGED <<store, moves, restarts, shared, holder, opening, request>>

\* The swap itself waits for the lock that a running query holds.
LockIsFree_ignored == TRUE               \* mutant: replace it under the query

LockIsFree == holder = Free

SwapCell ==
    /\ ppc = "swap"
    /\ LockIsFree
    /\ cell' = opening
    /\ ppc' = "storeExecution"
    /\ UNCHANGED <<store, used, execution, asOf, probes, summary, latestSeen,
                   holder, opening, request>>

StoreExecution ==
    /\ ppc = "storeExecution"
    /\ execution' = opening
    /\ ppc' = "storeAsOf"
    /\ UNCHANGED <<store, used, cell, asOf, probes, summary, latestSeen, holder,
                   opening, request>>

NewAsOf_kept == asOf                     \* mutant: the snapshot time is kept
NewAsOf_cleared == None                  \* mutant: it is dropped, to be read later

NewAsOf == opening

StoreAsOf ==
    /\ ppc = "storeAsOf"
    /\ asOf' = NewAsOf
    /\ ppc' = "storeProbes"
    /\ UNCHANGED <<store, used, cell, execution, probes, summary, latestSeen,
                   holder, opening, request>>

StoreProbes ==
    /\ ppc = "storeProbes"
    /\ probes' = opening
    /\ ppc' = "summary"
    /\ UNCHANGED <<store, used, cell, execution, asOf, summary, latestSeen,
                   holder, opening, request>>

\* `fetch_run_summary`, on every tick: a miss is retried on the next one.
FetchSummary ==
    /\ ppc = "summary"
    /\ summary' = IF execution \in summaries THEN execution ELSE summary
    /\ ppc' = "sleep"
    /\ opening' = None
    /\ UNCHANGED <<store, used, cell, execution, asOf, probes, latestSeen,
                   holder, request>>

Poll ==
    \/ PollLatest \/ OpenLatest \/ DownloadArtifact \/ OpenMisses
    \/ SwapCell \/ StoreExecution \/ StoreAsOf \/ StoreProbes \/ FetchSummary

-----------------------------------------------------------------------------
(* The data route: `execute_export_read`, then `with_context_headers`. *)

BeginQuery(r) ==
    /\ request[r].at = "idle"
    /\ holder = Free
    /\ holder' = r
    /\ request' = [request EXCEPT ![r] = [NoRequest EXCEPT !.at = "query",
                                                           !.rows = cell]]
    /\ UNCHANGED <<store, used, shared, ppc, opening>>

EndQuery(r) ==
    /\ request[r].at = "query"
    /\ holder' = Free
    /\ request' = [request EXCEPT ![r].at = "stamp"]
    /\ UNCHANGED <<store, used, shared, ppc, opening>>

\* X-Datamk-Execution is read after the query, without its lock.
Stamp(r) ==
    /\ request[r].at = "stamp"
    /\ request' = [request EXCEPT ![r].at = "done", ![r].execution = execution]
    /\ UNCHANGED <<store, used, shared, holder, ppc, opening>>

-----------------------------------------------------------------------------
(* The context document: `build_context_document`, one lock at a time. *)

ReadExecution(a) ==
    /\ request[a].at = "idle"
    /\ request' = [request EXCEPT ![a] = [NoRequest EXCEPT
                      !.at = "provenance", !.execution = execution]]
    /\ UNCHANGED <<store, used, shared, holder, ppc, opening>>

\* The cached summary is quoted when it is of the execution read above; the
\* snapshot time is read with it, under the summary's lock.
Quotes_any(a) == summary # None          \* mutant: whatever summary is cached

Quotes(a) == summary = request[a].execution

ReadProvenance(a) ==
    /\ request[a].at = "provenance"
    /\ request' = [request EXCEPT ![a] =
          IF Quotes(a)
          THEN [@ EXCEPT !.at = "probes", !.build = summary, !.asOf = asOf]
          ELSE [@ EXCEPT !.at = "probes"]]
    /\ UNCHANGED <<store, used, shared, holder, ppc, opening>>

ReadProbes(a) ==
    /\ request[a].at = "probes"
    /\ request' = [request EXCEPT ![a].at = "done", ![a].probes = probes]
    /\ UNCHANGED <<store, used, shared, holder, ppc, opening>>

\* The response is out; the client may ask again.
Finish(c) ==
    /\ request[c].at = "done"
    /\ request' = [request EXCEPT ![c] = NoRequest]
    /\ UNCHANGED <<store, used, shared, holder, ppc, opening>>

Answer ==
    \/ \E r \in Readers : EndQuery(r) \/ Stamp(r)
    \/ \E a \in Agents : ReadProvenance(a) \/ ReadProbes(a)
    \/ \E c \in Clients : Finish(c)

Ask ==
    \/ \E r \in Readers : BeginQuery(r)
    \/ \E a \in Agents : ReadExecution(a)

\* The pod dies and comes back: `build_state` starts over from LATEST, and
\* the summary comes with the first poll.
Restart ==
    /\ restarts < MaxRestarts
    /\ restarts' = restarts + 1
    /\ cell' = pointer
    /\ execution' = pointer
    /\ asOf' = pointer
    /\ probes' = pointer
    /\ latestSeen' = pointer
    /\ summary' = None
    /\ holder' = Free
    /\ ppc' = "sleep"
    /\ opening' = None
    /\ request' = [c \in Clients |-> NoRequest]
    /\ UNCHANGED <<store, moves, failures>>

-----------------------------------------------------------------------------

Next == Environment \/ Poll \/ OpenFails \/ Answer \/ Ask \/ Restart

Spec == Init /\ [][Next]_vars

\* The poller thread keeps running, and a request that holds the lock ends.
\* Nothing is assumed of the lock itself: queries may keep the swap waiting.
FairSpec ==
    /\ Spec
    /\ WF_vars(Poll)
    /\ \A r \in Readers : WF_vars(EndQuery(r))

-----------------------------------------------------------------------------
(* What a client and an operator may rely on. *)

PollerSteps == {"sleep", "open", "download", "swap", "storeExecution",
                "storeAsOf", "storeProbes", "summary"}
RequestSteps == {"idle", "query", "stamp", "provenance", "probes", "done"}
MaybeNumber == Numbers \cup {None}

Requests == [at : RequestSteps, execution : MaybeNumber, rows : MaybeNumber,
             build : MaybeNumber, asOf : MaybeNumber, probes : MaybeNumber]

\* Every variable has its type.
TypeOK ==
    /\ archive \subseteq Numbers
    /\ published \in Numbers
    /\ pointer \in Numbers
    /\ summaries \subseteq Numbers
    /\ moves \in 0 .. MaxMoves
    /\ failures \in 0 .. MaxFailures
    /\ restarts \in 0 .. MaxRestarts
    /\ {cell, execution, asOf, probes, latestSeen} \subseteq Numbers
    /\ summary \in MaybeNumber
    /\ holder \in Readers \cup {Free}
    /\ ppc \in PollerSteps
    /\ opening \in MaybeNumber
    /\ request \in [Clients -> Requests]

\* The swap is not atomic, but it is complete: whenever the poller is not in
\* the middle of one, the open catalog and every fact cached about it are of
\* the same execution.
Swapping == {"storeExecution", "storeAsOf", "storeProbes"}

SettledStateAgrees ==
    ppc \notin Swapping =>
        execution = cell /\ asOf = cell /\ probes = cell

\* No request spans two catalogs (ADR 0004 s6): while a query runs, the
\* connection it runs on is not replaced.
NoRequestSpansTwoCatalogs ==
    \A r \in Readers : request[r].at = "query" => request[r].rows = cell

\* A context document never quotes the build of one execution and calls it
\* another one.
ProvenanceIsOfTheExecutionNamed ==
    \A a \in Agents :
        request[a].build # None => request[a].build = request[a].execution

\* A build that is quoted comes with the age of its own data, never with
\* that of a different execution (`build_context_document`: a summary paired
\* with fresher rows would be a claim mislabeled as a measurement).
ProvenanceDatesItsOwnData ==
    \A a \in Agents :
        request[a].build # None => request[a].asOf = request[a].build

\* A Server whose poller is not kept waiting for the lock for ever ends up
\* serving what LATEST names, forwards or after a rollback, through failed
\* opens, vanished artifacts and restarts.
Starved == <>[](ppc = "swap")

ServerFollowsLatest ==
    Starved \/ <>[](cell = pointer /\ execution = pointer)

\* A run summary that lands late is never orphaned: once the summary of the
\* execution LATEST settles on is there, the Server comes to cache it.
SummaryIsNeverOrphaned ==
    Starved \/ <>[](pointer \in summaries => summary = pointer)
=============================================================================
