----------------------------- MODULE ServeProofs -----------------------------
(***************************************************************************)
(* Theorems about Serve, for every set of clients and every value of the   *)
(* bounds.                                                                 *)
(***************************************************************************)
EXTENDS Serve, TLAPS

-----------------------------------------------------------------------------
(* Type correctness. What the poller swaps in is an execution because the  *)
(* pointer it read named one.                                              *)

Opened == {"download", "swap"} \cup Swapping

IndType ==
    /\ TypeOK
    /\ pointer \in archive
    /\ ppc \in Opened => opening \in Numbers

LEMMA TypeInit == Init => IndType
  BY ServeBoundsAssumption
  DEF Init, IndType, TypeOK, Numbers, MaybeNumber, None, PollerSteps,
      RequestSteps, Requests, NoRequest, Opened, Swapping

\* A fresh request is one, and so is one that differs in a single field of
\* its type.
LEMMA FreshRequest == NoRequest \in Requests
  BY DEF NoRequest, Requests, RequestSteps, MaybeNumber, None

\* The steps of the store and of its clients keep the types.
LEMMA TypeEnvironment == IndType /\ Environment => IndType'
  <1> SUFFICES ASSUME IndType, Environment PROVE IndType'
    OBVIOUS
  <1> USE ServeBoundsAssumption
      DEF IndType, TypeOK, Numbers, shared, used, store
  <1>1. CASE Publish
    BY <1>1 DEF Publish
  <1>2. CASE Rollback
    BY <1>2 DEF Rollback
  <1>3. CASE LandSummary
    BY <1>3 DEF LandSummary
  <1>4. CASE Collect
    BY <1>4 DEF Collect
  <1> QED
    BY <1>1, <1>2, <1>3, <1>4 DEF Environment

\* So do the steps of the poller.
LEMMA TypePoll == IndType /\ (Poll \/ OpenFails) => IndType'
  <1> SUFFICES ASSUME IndType, Poll \/ OpenFails PROVE IndType'
    OBVIOUS
  <1> USE ServeBoundsAssumption
      DEF IndType, TypeOK, shared, used, store, Opened, Swapping, PollerSteps,
          MaybeNumber
  <1>0. pointer \in Numbers /\ NextFetch = "summary"
    BY DEF NextFetch
  <1>1. CASE PollLatest
    BY <1>0, <1>1 DEF PollLatest
  <1>2. CASE OpenLatest
    BY <1>0, <1>2 DEF OpenLatest
  <1>3. CASE DownloadArtifact
    BY <1>3 DEF DownloadArtifact
  <1>4. CASE OpenMisses
    BY <1>4 DEF OpenMisses
  <1>5. CASE SwapCell
    BY <1>5 DEF SwapCell
  <1>6. CASE StoreExecution
    BY <1>6 DEF StoreExecution
  <1>7. CASE StoreAsOf
    BY <1>7 DEF StoreAsOf, NewAsOf
  <1>8. CASE StoreProbes
    BY <1>8 DEF StoreProbes
  <1>9. CASE FetchSummary
    BY <1>9 DEF FetchSummary
  <1>10. CASE OpenFails
    BY <1>10 DEF OpenFails
  <1> QED
    BY <1>1, <1>2, <1>3, <1>4, <1>5, <1>6, <1>7, <1>8, <1>9, <1>10 DEF Poll

\* So do the steps of the clients, each of which replaces one request.
LEMMA TypeClients == IndType /\ (Answer \/ Ask) => IndType'
  <1> SUFFICES ASSUME IndType, Answer \/ Ask PROVE IndType'
    OBVIOUS
  <1>0. ASSUME NEW c \in Clients, NEW new \in Requests,
               request' = [request EXCEPT ![c] = new],
               holder' \in Readers \cup {Free},
               UNCHANGED <<store, used, shared, ppc, opening>>
        PROVE  IndType'
    BY <1>0 DEF IndType, TypeOK, store, used, shared
  <1>1. \A c \in Clients : request[c] \in Requests
    BY DEF IndType, TypeOK
  <1>2. {cell, execution, asOf, probes} \subseteq MaybeNumber
        /\ summary \in MaybeNumber /\ holder \in Readers \cup {Free}
    BY DEF IndType, TypeOK, MaybeNumber
  <1> USE FreshRequest DEF Requests, RequestSteps
  <1>3. ASSUME NEW r \in Readers, BeginQuery(r) PROVE IndType'
    <2>1. [NoRequest EXCEPT !.at = "query", !.rows = cell] \in Requests
      BY <1>2
    <2> QED
      BY <1>0, <1>3, <2>1 DEF BeginQuery, Clients
  <1>4. ASSUME NEW r \in Readers, EndQuery(r) PROVE IndType'
    <2>1. [request[r] EXCEPT !.at = "stamp"] \in Requests
      BY <1>1 DEF Clients
    <2> QED
      BY <1>0, <1>4, <2>1 DEF EndQuery, Clients
  <1>5. ASSUME NEW r \in Readers, Stamp(r) PROVE IndType'
    <2> DEFINE new == [request[r] EXCEPT !.at = "done",
                                         !.execution = execution]
    <2>1. new \in Requests
      BY <1>1, <1>2 DEF Clients
    <2>2. request' = [request EXCEPT ![r] = new]
      BY <1>5 DEF Stamp, IndType, TypeOK
    <2> QED
      BY <1>0, <1>2, <1>5, <2>1, <2>2 DEF Stamp, Clients
  <1>6. ASSUME NEW a \in Agents, ReadExecution(a) PROVE IndType'
    <2>1. [NoRequest EXCEPT !.at = "provenance", !.execution = execution]
             \in Requests
      BY <1>2
    <2> QED
      BY <1>0, <1>2, <1>6, <2>1 DEF ReadExecution, Clients
  <1>7. ASSUME NEW a \in Agents, ReadProvenance(a) PROVE IndType'
    <2> DEFINE read == request[a]
               new == IF Quotes(a)
                      THEN [read EXCEPT !.at = "probes", !.build = summary,
                                        !.asOf = asOf]
                      ELSE [read EXCEPT !.at = "probes"]
    <2>1. new \in Requests
      BY <1>1, <1>2 DEF Clients
    <2>2. request' = [request EXCEPT ![a] = new]
      BY <1>7 DEF ReadProvenance
    <2> QED
      BY <1>0, <1>2, <1>7, <2>1, <2>2 DEF ReadProvenance, Clients
  <1>8. ASSUME NEW a \in Agents, ReadProbes(a) PROVE IndType'
    <2> DEFINE new == [request[a] EXCEPT !.at = "done", !.probes = probes]
    <2>1. new \in Requests
      BY <1>1, <1>2 DEF Clients
    <2>2. request' = [request EXCEPT ![a] = new]
      BY <1>8 DEF ReadProbes, IndType, TypeOK
    <2> QED
      BY <1>0, <1>2, <1>8, <2>1, <2>2 DEF ReadProbes, Clients
  <1>9. ASSUME NEW c \in Clients, Finish(c) PROVE IndType'
    BY <1>0, <1>2, <1>9 DEF Finish
  <1> QED
    BY <1>3, <1>4, <1>5, <1>6, <1>7, <1>8, <1>9 DEF Answer, Ask

\* And so does a restart, which begins again from the pointer.
LEMMA TypeRestart == IndType /\ Restart => IndType'
  BY FreshRequest, ServeBoundsAssumption
  DEF IndType, TypeOK, Restart, store, MaybeNumber, PollerSteps, Opened,
      Swapping

LEMMA TypeNext == IndType /\ [Next]_vars => IndType'
  <1>1. IndType /\ UNCHANGED vars => IndType'
    BY DEF IndType, TypeOK, vars, store, used, shared
  <1> QED
    BY <1>1, TypeEnvironment, TypePoll, TypeClients, TypeRestart DEF Next

LEMMA TypeInvariant == Spec => []IndType
  BY TypeInit, TypeNext, PTL DEF Spec

\* Every variable of a serve process has its type, and what it follows is an
\* execution.
THEOREM TypeCorrect == Spec => []TypeOK
  <1>1. IndType => TypeOK
    BY DEF IndType
  <1> QED
    BY <1>1, TypeInvariant, PTL

-----------------------------------------------------------------------------
(* The swap. Between the connection and the last fact about it, the facts  *)
(* already stored are those of the execution being opened.                 *)

IndSwap ==
    /\ SettledStateAgrees
    /\ ppc \in Swapping => cell = opening
    /\ ppc \in {"storeAsOf", "storeProbes"} => execution = opening
    /\ ppc = "storeProbes" => asOf = opening

LEMMA SwapInit == Init => IndSwap
  BY DEF Init, IndSwap, SettledStateAgrees, Swapping

\* Only the poller and a restart touch what the invariant speaks of.
LEMMA SwapNext == IndSwap /\ [Next]_vars => IndSwap'
  <1> SUFFICES ASSUME IndSwap, [Next]_vars PROVE IndSwap'
    OBVIOUS
  <1> USE DEF IndSwap, SettledStateAgrees, Swapping
  <1>1. CASE UNCHANGED <<cell, execution, asOf, probes, ppc, opening>>
    BY <1>1
  <1>2. CASE Environment
    BY <1>1, <1>2
    DEF Environment, Publish, Rollback, LandSummary, Collect, shared
  <1>3. CASE Answer \/ Ask
    BY <1>1, <1>3
    DEF Answer, Ask, BeginQuery, EndQuery, Stamp, ReadExecution,
        ReadProvenance, ReadProbes, Finish, shared
  <1>4. CASE PollLatest
    BY <1>4 DEF PollLatest, NextFetch
  <1>5. CASE OpenLatest \/ DownloadArtifact \/ OpenMisses \/ OpenFails
    BY <1>5 DEF OpenLatest, DownloadArtifact, OpenMisses, OpenFails, shared
  <1>6. CASE SwapCell
    BY <1>6 DEF SwapCell
  <1>7. CASE StoreExecution
    BY <1>7 DEF StoreExecution
  <1>8. CASE StoreAsOf
    BY <1>8 DEF StoreAsOf, NewAsOf
  <1>9. CASE StoreProbes
    BY <1>9 DEF StoreProbes
  <1>10. CASE FetchSummary
    BY <1>10 DEF FetchSummary
  <1>11. CASE Restart
    BY <1>11 DEF Restart
  <1>12. CASE UNCHANGED vars
    BY <1>1, <1>12 DEF vars, shared
  <1> QED
    BY <1>2, <1>3, <1>4, <1>5, <1>6, <1>7, <1>8, <1>9, <1>10, <1>11, <1>12
    DEF Next, Poll

\* Whenever the poller is not in the middle of a swap, the open catalog, its
\* execution number, its snapshot time and its probes are of one execution.
THEOREM SettledStateIsOfOneExecution == Spec => []SettledStateAgrees
  <1>1. IndSwap => SettledStateAgrees
    BY DEF IndSwap
  <1> QED
    BY <1>1, SwapInit, SwapNext, PTL DEF Spec

-----------------------------------------------------------------------------
(* The query lock. A client that is in a query holds it, and the swap      *)
(* waits for it to be free.                                                *)

IndLock ==
    /\ NoRequestSpansTwoCatalogs
    /\ \A r \in Readers : request[r].at = "query" => holder = r

LEMMA LockInit == Init => IndLock
  BY ClientsAssumption
  DEF Init, IndLock, NoRequestSpansTwoCatalogs, NoRequest, Clients

LEMMA LockNext == IndType /\ IndLock /\ [Next]_vars => IndLock'
  <1> SUFFICES ASSUME IndType, IndLock, [Next]_vars PROVE IndLock'
    OBVIOUS
  <1> USE ClientsAssumption DEF IndLock, NoRequestSpansTwoCatalogs
  <1>0. request \in [Clients -> Requests]
    BY DEF IndType, TypeOK
  <1>1. CASE UNCHANGED <<cell, holder, request>>
    BY <1>1
  <1>2. CASE Environment \/ OpenFails
    BY <1>1, <1>2
    DEF Environment, Publish, Rollback, LandSummary, Collect, OpenFails, shared
  <1>3. CASE SwapCell
    <2>1. \A r \in Readers : request[r].at # "query"
      BY <1>3 DEF SwapCell, LockIsFree
    <2> QED
      BY <1>3, <2>1 DEF SwapCell
  <1>4. CASE Poll /\ ~SwapCell
    BY <1>1, <1>4
    DEF Poll, PollLatest, OpenLatest, DownloadArtifact, OpenMisses,
        StoreExecution, StoreAsOf, StoreProbes, FetchSummary, shared
  <1>5. ASSUME NEW r \in Readers, BeginQuery(r) PROVE IndLock'
    <2>1. \A q \in Readers \ {r} : request[q].at # "query"
      BY <1>5 DEF BeginQuery
    <2>2. /\ request'[r].rows = cell
          /\ \A q \in Readers \ {r} : request'[q] = request[q]
      BY <1>0, <1>5 DEF BeginQuery, Clients, NoRequest
    <2> QED
      BY <1>5, <2>1, <2>2 DEF BeginQuery, shared
  <1>6. ASSUME NEW r \in Readers, EndQuery(r) PROVE IndLock'
    <2>1. \A q \in Readers \ {r} : request[q].at # "query"
      BY <1>6 DEF EndQuery
    <2>2. /\ request'[r].at = "stamp"
          /\ \A q \in Readers \ {r} : request'[q] = request[q]
      BY <1>0, <1>6 DEF EndQuery, Clients, Requests
    <2> QED
      BY <2>1, <2>2
  <1>7. ASSUME NEW r \in Readers, Stamp(r) PROVE IndLock'
    <2>1. /\ request'[r].at = "done"
          /\ \A q \in Readers \ {r} : request'[q] = request[q]
      BY <1>0, <1>7 DEF Stamp, Clients, Requests
    <2> QED
      BY <1>7, <2>1 DEF Stamp, shared
  <1>8. ASSUME NEW a \in Agents,
               ReadExecution(a) \/ ReadProvenance(a) \/ ReadProbes(a)
        PROVE  IndLock'
    <2>1. \A q \in Readers : request'[q] = request[q]
      BY <1>0, <1>8 DEF ReadExecution, ReadProvenance, ReadProbes, Clients
    <2> QED
      BY <1>8, <2>1 DEF ReadExecution, ReadProvenance, ReadProbes, shared
  <1>9. ASSUME NEW c \in Clients, Finish(c) PROVE IndLock'
    <2>1. /\ request'[c].at = "idle"
          /\ \A q \in Clients \ {c} : request'[q] = request[q]
      BY <1>0, <1>9 DEF Finish, NoRequest
    <2> QED
      BY <1>9, <2>1 DEF Finish, shared, Clients
  <1>10. CASE Restart
    BY <1>10 DEF Restart, NoRequest, Clients
  <1>11. CASE UNCHANGED vars
    BY <1>1, <1>11 DEF vars, shared
  <1> QED
    BY <1>2, <1>3, <1>4, <1>5, <1>6, <1>7, <1>8, <1>9, <1>10, <1>11
    DEF Next, Answer, Ask

\* While a query runs, the connection it runs on is not replaced (ADR 0004
\* s6): the rows of a response are all of one execution.
THEOREM NoQueryIsSwappedUnder == Spec => []NoRequestSpansTwoCatalogs
  <1>1. IndLock => NoRequestSpansTwoCatalogs
    BY DEF IndLock
  <1> QED
    BY <1>1, TypeInvariant, LockInit, LockNext, PTL DEF Spec

-----------------------------------------------------------------------------
(* Provenance. A data route never quotes a build, so its late stamp cannot *)
(* contradict one; a context document fixes its execution before it quotes.*)

LEMMA ProvenanceInit == Init => ProvenanceIsOfTheExecutionNamed
  BY DEF Init, ProvenanceIsOfTheExecutionNamed, NoRequest, Clients

LEMMA ProvenanceNext ==
    IndType /\ ProvenanceIsOfTheExecutionNamed /\ [Next]_vars
        => ProvenanceIsOfTheExecutionNamed'
  <1> SUFFICES ASSUME IndType, ProvenanceIsOfTheExecutionNamed, [Next]_vars
               PROVE  ProvenanceIsOfTheExecutionNamed'
    OBVIOUS
  <1> USE ClientsAssumption DEF ProvenanceIsOfTheExecutionNamed
  <1>0. request \in [Clients -> Requests]
    BY DEF IndType, TypeOK
  <1>1. CASE UNCHANGED request
    BY <1>1
  <1>2. CASE Environment \/ OpenFails \/ Poll
    BY <1>1, <1>2
    DEF Environment, Publish, Rollback, LandSummary, Collect, OpenFails, Poll,
        PollLatest, OpenLatest, DownloadArtifact, OpenMisses, SwapCell,
        StoreExecution, StoreAsOf, StoreProbes, FetchSummary
  <1>3. ASSUME NEW r \in Readers, BeginQuery(r) \/ EndQuery(r) \/ Stamp(r)
        PROVE  ProvenanceIsOfTheExecutionNamed'
    <2>1. \A a \in Agents : request'[a] = request[a]
      BY <1>0, <1>3 DEF BeginQuery, EndQuery, Stamp, Clients
    <2> QED
      BY <2>1
  <1>4. ASSUME NEW a \in Agents, ReadExecution(a)
        PROVE  ProvenanceIsOfTheExecutionNamed'
    <2>1. /\ request'[a].build = None
          /\ \A b \in Agents \ {a} : request'[b] = request[b]
      BY <1>0, <1>4 DEF ReadExecution, Clients, NoRequest
    <2> QED
      BY <2>1
  <1>5. ASSUME NEW a \in Agents, ReadProvenance(a)
        PROVE  ProvenanceIsOfTheExecutionNamed'
    <2>1. /\ request'[a].execution = request[a].execution
          /\ request'[a].build = IF Quotes(a) THEN summary
                                              ELSE request[a].build
          /\ \A b \in Agents \ {a} : request'[b] = request[b]
      BY <1>0, <1>5 DEF ReadProvenance, Clients, Requests
    <2> QED
      BY <2>1 DEF Quotes
  <1>6. ASSUME NEW a \in Agents, ReadProbes(a)
        PROVE  ProvenanceIsOfTheExecutionNamed'
    <2>1. /\ request'[a].execution = request[a].execution
          /\ request'[a].build = request[a].build
          /\ \A b \in Agents \ {a} : request'[b] = request[b]
      BY <1>0, <1>6 DEF ReadProbes, Clients, Requests
    <2> QED
      BY <2>1
  <1>7. ASSUME NEW c \in Clients, Finish(c)
        PROVE  ProvenanceIsOfTheExecutionNamed'
    <2>1. /\ request'[c].build = None
          /\ \A b \in Clients \ {c} : request'[b] = request[b]
      BY <1>0, <1>7 DEF Finish, NoRequest
    <2> QED
      BY <2>1 DEF Clients
  <1>8. CASE Restart
    BY <1>8 DEF Restart, NoRequest, Clients
  <1>9. CASE UNCHANGED vars
    BY <1>1, <1>9 DEF vars
  <1> QED
    BY <1>2, <1>3, <1>4, <1>5, <1>6, <1>7, <1>8, <1>9 DEF Next, Answer, Ask

\* A context document never quotes the build of one execution and names
\* another.
THEOREM ProvenanceIsNamedTruly ==
    Spec => []ProvenanceIsOfTheExecutionNamed
  BY TypeInvariant, ProvenanceInit, ProvenanceNext, PTL DEF Spec
=============================================================================
