-------------------------- MODULE PublicationProofs --------------------------
(***************************************************************************)
(* Theorems about Publication, for every set of Builders and operators and *)
(* every value of the bounds.                                              *)
(***************************************************************************)
EXTENDS Publication, TLAPS

-----------------------------------------------------------------------------
(* Type correctness. TypeOK is not inductive: that an artifact's key is an *)
(* execution number, and that `release` finds a newest snapshot to pin,    *)
(* rests on what a Builder has done before it stores the artifact.         *)

Committed == {"compact", "list", "put"} \cup Published
Numbered == {"put"} \cup Published

\* A catalog has expired older snapshots of its own only, and carries those of
\* runs that have been, each later than the ones below it.
Dated(lineage, expiries, last) ==
    /\ \A e \in expiries : e[1] \in 1 .. Len(lineage) - 1
    /\ \A i \in 1 .. Len(lineage) : lineage[i] \in 1 .. last
    /\ \A i, j \in 1 .. Len(lineage) : i < j => lineage[i] < lineage[j]

CatalogsAreDated ==
    /\ \A n \in DOMAIN artifacts :
          Dated(artifacts[n].lineage, artifacts[n].expired, runs)
    /\ \A b \in Builders : Dated(work[b], expired[b], runs)

Typed ==
    /\ TypeOK
    /\ \A n \in DOMAIN artifacts : artifacts[n].lineage # <<>>
    /\ \A b \in Builders : pc[b] \in Committed => work[b] # <<>>
    /\ \A b \in Builders : pc[b] \in Numbered => num[b] # NoExecution

IndType == Typed /\ CatalogsAreDated

\* Committing on top of a lineage makes a longer one.
LEMMA AppendLineage ==
    ASSUME NEW lineage \in Lineages, NEW run \in Nat
    PROVE  /\ Append(lineage, run + 1) \in Lineages
           /\ Append(lineage, run + 1) # <<>>
  <1>1. run + 1 \in Nat \ {0}
    OBVIOUS
  <1> DEFINE new == run + 1
  <1> HIDE DEF new
  <1>2. Append(lineage, new) \in Lineages
    BY <1>1 DEF Lineages, new
  <1>3. Len(Append(lineage, new)) = Len(lineage) + 1 /\ Len(lineage) \in Nat
    BY DEF Lineages
  <1>4. Append(lineage, new) # <<>>
    BY <1>3
  <1> QED
    BY <1>2, <1>4 DEF new

LEMMA EmptyLineage == <<>> \in Lineages
  BY DEF Lineages

\* A non-empty lineage ends in the run that committed its newest snapshot.
LEMMA LastSnapshot ==
    ASSUME NEW lineage \in Lineages, lineage # <<>>
    PROVE  /\ Len(lineage) \in Nat \ {0}
           /\ lineage[Len(lineage)] \in Nat \ {0}
  <1>1. Len(lineage) \in Nat /\ Len(lineage) # 0
    BY DEF Lineages
  <1> QED
    BY <1>1 DEF Lineages

\* The table of commits grows by one entry.
LEMMA OneMoreCommit ==
    ASSUME NEW last \in Nat, NEW times \in [1 .. last -> Nat], NEW now \in Nat
    PROVE  With(times, last + 1, now) \in [1 .. last + 1 -> Nat]
  <1>1. 1 .. last + 1 = (1 .. last) \cup {last + 1}
    OBVIOUS
  <1>2. \A r \in 1 .. last + 1 :
           (IF r = last + 1 THEN now ELSE times[r]) \in Nat
    BY <1>1
  <1> QED
    BY <1>1, <1>2 DEF With

\* So it does when a run commits.
LEMMA CommitIsDated ==
    ASSUME runs \in Nat, born \in [1 .. runs -> Nat], clock \in Nat,
           NEW b \in Builders, Commit(b)
    PROVE  born' \in [1 .. runs' -> Nat] /\ runs' \in Nat
  <1>1. born' = With(born, runs + 1, clock) /\ runs' = runs + 1
    BY DEF Commit
  <1>2. With(born, runs + 1, clock) \in [1 .. runs + 1 -> Nat]
    BY OneMoreCommit
  <1> QED
    BY <1>1, <1>2

LEMMA TypeInit == Init => IndType
  BY BoundsAssumption, ModeAssumption
  DEF Init, IndType, Typed, TypeOK, CatalogsAreDated, Dated, Expiries,
      Executions, Lineages, Artifacts, NoExecution, NoPin, BuilderSteps, OperatorSteps, Committed, Numbered, Published,
      MaxAttempts

\* A commit and a compaction leave a catalog with expiries of its own.
LEMMA DatedLonger ==
    ASSUME NEW lineage \in Lineages, NEW last \in Nat, NEW expiries,
           Dated(lineage, expiries, last)
    PROVE  /\ Dated(Append(lineage, last + 1), expiries, last + 1)
           /\ Dated(lineage, expiries, last + 1)
  <1> DEFINE longer == Append(lineage, last + 1)
  <1>1. Len(longer) = Len(lineage) + 1 /\ Len(lineage) \in Nat
    BY DEF Lineages
  <1>2. /\ \A i \in 1 .. Len(lineage) : longer[i] = lineage[i]
        /\ longer[Len(lineage) + 1] = last + 1
    BY DEF Lineages
  <1> HIDE DEF longer
  <1>3. 1 .. Len(longer) = (1 .. Len(lineage)) \cup {Len(lineage) + 1}
    BY <1>1
  <1>4. \A i \in 1 .. Len(longer) : longer[i] \in 1 .. last + 1
    BY <1>2, <1>3 DEF Dated
  <1>5. ASSUME NEW i \in 1 .. Len(longer), NEW j \in 1 .. Len(longer), i < j
        PROVE  longer[i] < longer[j]
    <2>1. i \in 1 .. Len(lineage)
      BY <1>1, <1>5
    <2>2. CASE j \in 1 .. Len(lineage)
      BY <1>2, <1>5, <2>1, <2>2 DEF Dated
    <2>3. CASE j = Len(lineage) + 1
      BY <1>2, <2>1, <2>3 DEF Dated
    <2> QED
      BY <1>3, <2>2, <2>3
  <1>6. \A e \in expiries : e[1] \in 1 .. Len(longer) - 1
    BY <1>1 DEF Dated
  <1>7. Dated(longer, expiries, last + 1)
    BY <1>4, <1>5, <1>6 DEF Dated
  <1>8. Dated(lineage, expiries, last + 1)
    BY DEF Dated
  <1> QED
    BY <1>7, <1>8 DEF longer

\* What a compaction schedules is of its own catalog, too.
LEMMA DatedSchedule ==
    ASSUME NEW b \in Builders, work[b] \in Lineages,
           Dated(work[b], expired[b], runs)
    PROVE  Dated(work[b], Scheduled(b), runs)
  <1>1. Expirable(b) \subseteq 1 .. Len(work[b]) - 1
    BY DEF Expirable, Known, Lineages
  <1> QED
    BY <1>1 DEF Scheduled, Dated

\* Every step keeps the types: one case for each action.
LEMMA TypedNext == IndType /\ [Next]_vars => Typed'
  <1> SUFFICES ASSUME IndType, [Next]_vars PROVE Typed'
    OBVIOUS
  <1> USE DEF IndType, Typed, TypeOK, BuilderSteps, Committed, Numbered, Published,
              NoExecution, commits, pins
  <1>1. ASSUME NEW b \in Builders, ReadLatest(b) PROVE Typed'
    BY <1>1 DEF ReadLatest, store, operatorVars
  <1>2. ASSUME NEW b \in Builders, Download(b) PROVE Typed'
    <2>1. \A base \in Bases(b) :
             base.lineage \in Lineages /\ base.expired \in Expiries
      BY EmptyLineage DEF Bases, Artifacts, FreshCatalog, Expiries
    <2>2. PICK base \in Bases(b) :
             /\ work' = [work EXCEPT ![b] = base.lineage]
             /\ expired' = [expired EXCEPT ![b] = base.expired]
      BY <1>2 DEF Download
    <2> QED
      BY <1>2, <2>1, <2>2 DEF Download, store, operatorVars
  <1>3. ASSUME NEW b \in Builders, Commit(b) PROVE Typed'
    <2>1. /\ Append(work[b], runs + 1) \in Lineages
          /\ Append(work[b], runs + 1) # <<>>
      BY AppendLineage
    <2>2. born' \in [1 .. runs' -> Nat] /\ runs' \in Nat
      BY <1>3, CommitIsDated
    <2>3. /\ pc' \in [Builders -> BuilderSteps]
          /\ work' \in [Builders -> Lineages]
          /\ tries' \in [Builders -> 0 .. MaxAttempts]
          /\ \A c \in Builders \ {b} : pc'[c] = pc[c] /\ work'[c] = work[c]
          /\ pc'[b] \in {"compact", "list"} /\ work'[b] # <<>>
      BY <1>3, <2>1 DEF Commit, MaxAttempts
    <2> QED
      BY <1>3, <2>2, <2>3 DEF Commit, store, operatorVars
  <1>25. ASSUME NEW b \in Builders, Compact(b) PROVE Typed'
    <2>1. Scheduled(b) \in Expiries /\ Dated(work[b], Scheduled(b), runs)
      <3>0. Dated(work[b], expired[b], runs)
        BY DEF CatalogsAreDated
      <3>1. Expirable(b) \subseteq 1 .. Len(work[b]) - 1
        BY DEF Expirable, Known, Lineages
      <3>2. Len(work[b]) \in Nat
        BY DEF Lineages
      <3>3. Expirable(b) \X {clock} \subseteq Executions \X Nat
        BY <3>1, <3>2 DEF Executions
      <3>4. Scheduled(b) \in Expiries
        BY <3>3 DEF Scheduled, Expiries
      <3> QED
        BY <3>0, <3>4, DatedSchedule
    <2>2. Cleanable(b) \subseteq Executions
      <3>1. \A i \in 1 .. Len(work[b]) : work[b][i] \in Executions
        BY DEF Lineages, Executions
      <3> QED
        BY <2>1, <3>1 DEF Cleanable, Dated
    <2>3. expired' \in [Builders -> Expiries] /\ deleted' \subseteq Executions
      BY <1>25, <2>1, <2>2 DEF Compact
    <2> QED
      BY <1>25, <2>3 DEF Compact, store, operatorVars
  <1>4. ASSUME NEW b \in Builders, ListExecutions(b) PROVE Typed'
    <2>1. /\ num' \in [Builders -> Nat]
          /\ num'[b] # NoExecution
          /\ \A c \in Builders \ {b} : num'[c] = num[c]
      <3>1. PICK last \in DOMAIN artifacts \cup {NoExecution} :
               num' = [num EXCEPT ![b] = last + 1]
        BY <1>4 DEF ListExecutions, NextNumber
      <3>2. last + 1 \in Nat /\ last + 1 # NoExecution
        BY DEF Executions
      <3> QED
        BY <3>1, <3>2
    <2>2. tries' \in [Builders -> 0 .. MaxAttempts]
      BY <1>4 DEF ListExecutions, MaxAttempts
    <2> QED
      BY <1>4, <2>1, <2>2 DEF ListExecutions, store, operatorVars
  <1>5. ASSUME NEW b \in Builders, PutArtifact(b) PROVE Typed'
    <2>1. CASE Creates(b)
      <3> DEFINE object == [lineage |-> work[b], expired |-> expired[b],
                          mtime |-> clock]
      <3>1. object \in Artifacts /\ object.lineage # <<>>
        BY <1>5 DEF PutArtifact, Artifacts, Expiries
      <3>2. num[b] \in Executions
        BY <1>5 DEF PutArtifact, Executions
      <3>3. artifacts' = With(artifacts, num[b], object)
        BY <1>5, <2>1 DEF PutArtifact
      <3>4. DOMAIN history' \subseteq Executions
        BY <1>5, <2>1, <3>2 DEF PutArtifact, With
      <3>5. /\ DOMAIN artifacts' \subseteq Executions
            /\ \A n \in DOMAIN artifacts' :
                  artifacts'[n] \in Artifacts /\ artifacts'[n].lineage # <<>>
        <4> HIDE DEF object
        <4> QED
          BY <3>1, <3>2, <3>3 DEF With
      <3> HIDE DEF object
      <3> QED
        BY <1>5, <2>1, <3>4, <3>5 DEF PutArtifact, operatorVars
    <2>2. CASE ~Creates(b)
      BY <1>5, <2>2 DEF PutArtifact, operatorVars
    <2> QED
      BY <2>1, <2>2
  <1>6. ASSUME NEW b \in Builders, PutLatest(b) PROVE Typed'
    BY <1>6 DEF PutLatest, operatorVars
  <1>7. ASSUME NEW b \in Builders, WriteSummary(b) PROVE Typed'
    <2>1. DOMAIN summaries' \subseteq Executions
      BY <1>7 DEF With, WriteSummary, SummaryNumber, Executions
    <2> QED
      BY <1>7, <2>1 DEF WriteSummary, operatorVars
  <1>8. ASSUME NEW b \in Builders, ListGarbage(b) PROVE Typed'
    BY <1>8 DEF ListGarbage, Garbage, store, operatorVars
  <1>9. ASSUME NEW b \in Builders, DeleteArtifact(b) PROVE Typed'
    <2>1. PICK n \in victims[b] :
             /\ artifacts' = Without(artifacts, n)
             /\ victims' = [victims EXCEPT ![b] = @ \ {n}]
             /\ doomed' = [doomed EXCEPT ![b] = n]
      BY <1>9 DEF DeleteArtifact
    <2>2. /\ DOMAIN artifacts' \subseteq Executions
          /\ \A m \in DOMAIN artifacts' :
                artifacts'[m] \in Artifacts /\ artifacts'[m].lineage # <<>>
      BY <2>1 DEF Without
    <2>3. n \in Nat
      BY DEF Executions
    <2> QED
      BY <1>9, <2>1, <2>2, <2>3 DEF DeleteArtifact, operatorVars
  <1>10. ASSUME NEW b \in Builders, DeleteSummary(b) PROVE Typed'
    <2>1. DOMAIN summaries' \subseteq Executions
      BY <1>10 DEF DeleteSummary, Without
    <2> QED
      BY <1>10, <2>1 DEF DeleteSummary, operatorVars
  <1>11. ASSUME NEW b \in Builders, Exit(b),
                UNCHANGED <<store, deleted, history, clock, commits, operatorVars,
                            pins>>,
                crashes' \in Nat
         PROVE  Typed'
    BY <1>11, EmptyLineage DEF Exit, Expiries, store, operatorVars, MaxAttempts
  <1>12. ASSUME NEW b \in Builders, FinishRun(b) PROVE Typed'
    BY <1>11, <1>12 DEF FinishRun
  <1>13. ASSUME NEW b \in Builders, Bail(b) PROVE Typed'
    BY <1>11, <1>13 DEF Bail
  <1>14. ASSUME NEW b \in Builders, Fail(b) PROVE Typed'
    <2>1. crashes' \in Nat
      BY <1>14 DEF Fail
    <2> QED
      BY <1>11, <1>14, <2>1 DEF Fail
  <1> USE DEF OperatorSteps
  <1>15. ASSUME NEW o \in Operators, RollbackList(o) PROVE Typed'
    BY <1>15 DEF RollbackList, store, builderVars
  <1>16. ASSUME NEW o \in Operators, RollbackChoose(o) PROVE Typed'
    BY <1>16 DEF RollbackChoose, Executions, store, builderVars
  <1>17. ASSUME NEW o \in Operators, RollbackCheck(o) PROVE Typed'
    BY <1>17 DEF RollbackCheck, store, builderVars
  <1>18. ASSUME NEW o \in Operators, Close(o) PROVE
            /\ opc' \in [Operators -> OperatorSteps]
            /\ listed' \in [Operators -> SUBSET Executions]
            /\ target' \in [Operators -> Nat]
    BY <1>18 DEF Close
  <1>19. ASSUME NEW o \in Operators, RollbackPut(o) PROVE Typed'
    BY <1>18, <1>19 DEF RollbackPut, builderVars
  <1>20. ASSUME NEW o \in Operators, ReleaseOpen(o) PROVE Typed'
    BY <1>20 DEF ReleaseOpen, store, builderVars
  <1>21. ASSUME NEW o \in Operators, ReleaseWrite(o) PROVE Typed'
    <2> DEFINE lineage == artifacts[target[o]].lineage
    <2>1. lineage \in Lineages /\ lineage # <<>>
      BY <1>21 DEF ReleaseWrite, Artifacts
    <2>2. pin' = [id |-> Len(lineage), run |-> lineage[Len(lineage)]]
      BY <1>21 DEF ReleaseWrite
    <2>3. pin' \in [id : Nat, run : Nat]
      <3> HIDE DEF lineage
      <3> QED
        BY <2>1, <2>2, LastSnapshot
    <2> QED
      BY <1>18, <1>21, <2>3 DEF ReleaseWrite, store, builderVars
  <1>22. ASSUME NEW o \in Operators, GiveUp(o) PROVE Typed'
    BY <1>18, <1>22 DEF GiveUp, store, builderVars
  <1>23. CASE Tick
    BY <1>23 DEF Ship, Tick, store, builderVars, operatorVars
  <1>24. CASE UNCHANGED vars
    BY <1>24 DEF vars, store, builderVars, operatorVars
  <1>26. CASE Ship
    BY <1>26 DEF Ship, store, builderVars, operatorVars
  <1> QED
    BY <1>1, <1>2, <1>3, <1>4, <1>5, <1>6, <1>7, <1>8, <1>9, <1>10, <1>12,
       <1>13, <1>14, <1>15, <1>16, <1>17, <1>19, <1>20, <1>21, <1>22, <1>23,
       <1>24, <1>25, <1>26
    DEF Next, Run, Operate

LEMMA DatedNext == IndType /\ [Next]_vars => CatalogsAreDated'
  <1> SUFFICES ASSUME IndType, [Next]_vars PROVE CatalogsAreDated'
    OBVIOUS
  <1> USE DEF CatalogsAreDated
  <1>0. /\ CatalogsAreDated
        /\ work \in [Builders -> Lineages]
        /\ expired \in [Builders -> Expiries]
        /\ runs \in Nat
        /\ \A n \in DOMAIN artifacts : artifacts[n].lineage \in Lineages
    BY DEF IndType, Typed, TypeOK, Artifacts
  <1>1. CASE UNCHANGED <<artifacts, work, expired, runs>>
    BY <1>0, <1>1
  <1>2. ASSUME NEW b \in Builders, Download(b) PROVE CatalogsAreDated'
    <2>1. PICK base \in Bases(b) :
             /\ work' = [work EXCEPT ![b] = base.lineage]
             /\ expired' = [expired EXCEPT ![b] = base.expired]
      BY <1>2 DEF Download
    <2>2. Dated(base.lineage, base.expired, runs)
      <3>1. Dated(<<>>, {}, runs)
        BY DEF Dated
      <3>2. CASE base = FreshCatalog
        BY <3>1, <3>2 DEF FreshCatalog
      <3>3. CASE base # FreshCatalog
        <4>1. \E n \in DOMAIN artifacts : base = artifacts[n]
          BY <3>3 DEF Bases
        <4> QED
          BY <1>0, <4>1
      <3> QED
        BY <3>2, <3>3
    <2>3. UNCHANGED <<artifacts, runs>>
      BY <1>2 DEF Download, store, commits
    <2> QED
      BY <1>0, <2>1, <2>2, <2>3
  <1>3. ASSUME NEW b \in Builders, Commit(b) PROVE CatalogsAreDated'
    <2>1. /\ work' = [work EXCEPT ![b] = Append(work[b], runs + 1)]
          /\ runs' = runs + 1
          /\ UNCHANGED <<artifacts, expired>>
      BY <1>3 DEF Commit, store
    <2>2. Dated(Append(work[b], runs + 1), expired[b], runs')
      BY <1>0, <2>1, DatedLonger
    <2>3. /\ \A n \in DOMAIN artifacts :
                Dated(artifacts[n].lineage, artifacts[n].expired, runs')
          /\ \A c \in Builders : Dated(work[c], expired[c], runs')
      BY <1>0, <2>1, DatedLonger
    <2> QED
      BY <1>0, <2>1, <2>2, <2>3
  <1>4. ASSUME NEW b \in Builders, Compact(b) PROVE CatalogsAreDated'
    <2>1. UNCHANGED <<artifacts, work, runs>>
      BY <1>4 DEF Compact, store, commits
    <2>2. CASE expired' = [expired EXCEPT ![b] = Scheduled(b)]
      BY <1>0, <2>1, <2>2, DatedSchedule
    <2> QED
      BY <1>1, <1>4, <2>1, <2>2 DEF Compact
  <1>5. ASSUME NEW b \in Builders, PutArtifact(b) PROVE CatalogsAreDated'
    <2> DEFINE object == [lineage |-> work[b], expired |-> expired[b],
                          mtime |-> clock]
    <2>1. UNCHANGED <<work, expired, runs>>
      BY <1>5 DEF PutArtifact, commits
    <2>2. Dated(object.lineage, object.expired, runs)
      BY <1>0
    <2> HIDE DEF object
    <2>3. CASE artifacts' = With(artifacts, num[b], object)
      <3>1. \A n \in DOMAIN artifacts' :
               \/ artifacts'[n] = object
               \/ n \in DOMAIN artifacts /\ artifacts'[n] = artifacts[n]
        BY <2>3 DEF With
      <3> QED
        BY <1>0, <2>1, <2>2, <3>1
    <2> QED
      BY <1>1, <1>5, <2>1, <2>3 DEF PutArtifact, object
  <1>6. ASSUME NEW b \in Builders, DeleteArtifact(b) PROVE CatalogsAreDated'
    <2>1. UNCHANGED <<work, expired, runs>>
      BY <1>6 DEF DeleteArtifact, commits
    <2>2. PICK n \in victims[b] : artifacts' = Without(artifacts, n)
      BY <1>6 DEF DeleteArtifact
    <2>3. \A m \in DOMAIN artifacts' :
             m \in DOMAIN artifacts /\ artifacts'[m] = artifacts[m]
      BY <2>2 DEF Without
    <2> QED
      BY <1>0, <2>1, <2>3
  <1>7. ASSUME NEW b \in Builders, FinishRun(b) \/ Bail(b) \/ Fail(b)
        PROVE  CatalogsAreDated'
    <2>1. /\ work' = [work EXCEPT ![b] = <<>>]
          /\ expired' = [expired EXCEPT ![b] = {}]
          /\ UNCHANGED <<artifacts, runs>>
      BY <1>7 DEF FinishRun, Bail, Fail, Exit, store, commits
    <2>2. Dated(<<>>, {}, runs)
      BY DEF Dated
    <2> QED
      BY <1>0, <2>1, <2>2
  <1>8. ASSUME NEW b \in Builders,
               \/ ReadLatest(b) \/ ListExecutions(b) \/ PutLatest(b)
               \/ WriteSummary(b) \/ ListGarbage(b) \/ DeleteSummary(b)
        PROVE  UNCHANGED <<artifacts, work, expired, runs>>
    BY <1>8
    DEF ReadLatest, ListExecutions, PutLatest, WriteSummary, ListGarbage,
        DeleteSummary, store, commits
  <1>9. ASSUME NEW o \in Operators, Operate(o)
        PROVE  UNCHANGED <<artifacts, work, expired, runs>>
    BY <1>9
    DEF Operate, RollbackList, RollbackChoose, RollbackCheck, RollbackPut,
        ReleaseOpen, ReleaseWrite, GiveUp, store, builderVars, commits
  <1>10. CASE Ship \/ Tick \/ UNCHANGED vars
    BY <1>1, <1>10 DEF Ship, Tick, vars, store, builderVars, commits
  <1> QED
    BY <1>1, <1>2, <1>3, <1>4, <1>5, <1>6, <1>7, <1>8, <1>9, <1>10
    DEF Next, Run

LEMMA TypeNext == IndType /\ [Next]_vars => IndType'
  BY TypedNext, DatedNext DEF IndType

\* Every variable keeps its type for ever: each object of the store stays
\* under an execution number, and a release always finds a snapshot to pin.
THEOREM TypeCorrect == Spec => []TypeOK
  <1>1. IndType => TypeOK
    BY DEF IndType, Typed
  <1> QED
    BY <1>1, TypeInit, TypeNext, PTL DEF Spec

-----------------------------------------------------------------------------
(* Safety of the published catalog. It holds when nothing is ever          *)
(* collected, or when commands never overlap; PublicationVGcRollback shows *)
(* that it fails when neither is so.                                       *)

\* Without Overlap one process at most is inside a command.
Exclusive ==
    /\ \A b, c \in Builders : pc[b] # "idle" /\ pc[c] # "idle" => b = c
    /\ \A o, q \in Operators : opc[o] # "idle" /\ opc[q] # "idle" => o = q
    /\ \A b \in Builders, o \in Operators : pc[b] = "idle" \/ opc[o] = "idle"

\* What a command has in hand is in the archive: the target of a rollback,
\* and the catalog that a run builds, or has built, on.
TargetsAreArchived ==
    \A o \in Operators :
        /\ opc[o] = "listed" => listed[o] \subseteq DOMAIN artifacts
        /\ opc[o] \in {"chosen", "checked"} => target[o] \in DOMAIN artifacts

Parents == {<<>>} \cup {artifacts[n].lineage : n \in DOMAIN artifacts}

BuildsOnArchived ==
    \A b \in Builders :
        /\ pc[b] = "build" => work[b] \in Parents
        /\ pc[b] \in {"compact", "list", "put"} =>
              \E parent \in Parents, run \in Nat \ {0} :
                  work[b] = Append(parent, run)

\* Collection happens only where it is configured, and spares the run's own
\* execution; there, no two processes meet, LATEST names the execution of
\* the run that has written it, and no number was ever higher than its own.
Collecting == {"collect", "collectSummary"}

CollectsAlone ==
    /\ \A b \in Builders : pc[b] \in Collecting =>
          Collects /\ num[b] \notin victims[b]
    /\ Collects =>
          /\ Exclusive
          /\ \A b \in Builders :
                /\ pc[b] \in {"summary", "gc"} \cup Collecting =>
                      latest = num[b]
                /\ pc[b] = "put" => \A n \in DOMAIN history : n < num[b]
                /\ pc[b] \in Published =>
                      \A n \in DOMAIN history : n <= num[b]

\* A number that was ever used is not above every number in the archive:
\* `publish_execution` never allocates it again.
NumbersAreRemembered ==
    /\ DOMAIN artifacts \subseteq DOMAIN history
    /\ ~Collects => DOMAIN history \subseteq DOMAIN artifacts
    /\ \A n \in DOMAIN history : \E m \in DOMAIN artifacts : n <= m

SafeInv ==
    /\ IndType
    /\ PointerNamesArtifact
    /\ NumberNamesOneCatalog
    /\ WriterOwnsNumber
    /\ TargetsAreArchived
    /\ BuildsOnArchived
    /\ CollectsAlone
    /\ NumbersAreRemembered

Guarded == ~Collects \/ ~Overlap

LEMMA SafeInit == Init => SafeInv
  <1> SUFFICES ASSUME Init PROVE SafeInv
    OBVIOUS
  <1>1. IndType
    BY TypeInit
  <1> QED
    BY <1>1
    DEF Init, SafeInv, PointerNamesArtifact, NumberNamesOneCatalog,
        WriterOwnsNumber, TargetsAreArchived, BuildsOnArchived, CollectsAlone,
        NumbersAreRemembered, Exclusive, Published, Collecting

\* The tables of the processes are functions, whatever they hold.
Tables ==
    /\ pc \in [Builders -> BuilderSteps]
    /\ work \in [Builders -> Lineages]
    /\ num \in [Builders -> Nat]
    /\ victims \in [Builders -> SUBSET Executions]
    /\ opc \in [Operators -> OperatorSteps]
    /\ listed \in [Operators -> SUBSET Executions]
    /\ target \in [Operators -> Nat]

LEMMA TablesHold == IndType => Tables
  BY DEF IndType, Typed, TypeOK, Tables

\* A step of one Builder is a step of no other process.
LEMMA BuilderStep ==
    ASSUME Tables, NEW b \in Builders, Run(b) \/ Fail(b)
    PROVE  /\ UNCHANGED operatorVars
           /\ pc[b] = "idle" => MayStart
           /\ \A c \in Builders \ {b} :
                 /\ pc'[c] = pc[c]
                 /\ num'[c] = num[c]
                 /\ work'[c] = work[c]
                 /\ victims'[c] = victims[c]
  <1> USE DEF Tables
  <1>1. CASE ReadLatest(b) \/ Download(b) \/ Commit(b) \/ Compact(b)
               \/ ListExecutions(b)
    BY <1>1 DEF ReadLatest, Download, Commit, Compact, ListExecutions
  <1>2. CASE PutArtifact(b) \/ PutLatest(b) \/ WriteSummary(b)
    BY <1>2 DEF PutArtifact, PutLatest, WriteSummary
  <1>3. CASE ListGarbage(b) \/ DeleteArtifact(b) \/ DeleteSummary(b)
    BY <1>3 DEF ListGarbage, DeleteArtifact, DeleteSummary
  <1>4. CASE FinishRun(b) \/ Bail(b) \/ Fail(b)
    BY <1>4 DEF FinishRun, Bail, Fail, Exit
  <1> QED
    BY <1>1, <1>2, <1>3, <1>4 DEF Run

\* A step of one operator is a step of no other process.
LEMMA OperatorStep ==
    ASSUME Tables, NEW o \in Operators, Operate(o)
    PROVE  /\ UNCHANGED <<artifacts, history, builderVars>>
           /\ opc[o] = "idle" => MayStart
           /\ \A q \in Operators \ {o} :
                 /\ opc'[q] = opc[q]
                 /\ listed'[q] = listed[q]
                 /\ target'[q] = target[q]
  <1> USE DEF Tables, store
  <1>1. CASE RollbackList(o) \/ RollbackChoose(o) \/ RollbackCheck(o)
    BY <1>1 DEF RollbackList, RollbackChoose, RollbackCheck
  <1>2. CASE RollbackPut(o) \/ GiveUp(o)
    BY <1>2 DEF RollbackPut, GiveUp, Close
  <1>3. CASE ReleaseOpen(o) \/ ReleaseWrite(o)
    BY <1>3 DEF ReleaseOpen, ReleaseWrite, Close
  <1> QED
    BY <1>1, <1>2, <1>3 DEF Operate

\* Neither does the clock, nor a stuttering step, move a process.
LEMMA OtherStep ==
    ASSUME Ship \/ Tick \/ UNCHANGED vars
    PROVE  UNCHANGED <<store, history, builderVars, operatorVars>>
  BY DEF Ship, Tick, vars, store, builderVars, operatorVars

\* Every step is of one process, of the clock, or of nobody.
LEMMA WhoSteps ==
    ASSUME [Next]_vars
    PROVE  \/ \E b \in Builders : Run(b) \/ Fail(b)
           \/ \E o \in Operators : Operate(o)
           \/ Ship \/ Tick \/ UNCHANGED vars
  BY DEF Next

\* The steps of a Builder that write what these invariants are about; every
\* other one only moves the Builder itself.
Writes(b) == PutArtifact(b) \/ PutLatest(b) \/ DeleteArtifact(b)

\* Any other step of a Builder leaves the catalogs and LATEST alone.
LEMMA QuietBuilderStep ==
    ASSUME NEW b \in Builders, Run(b) \/ Fail(b), ~Writes(b)
    PROVE  UNCHANGED <<artifacts, latest, history>>
  <1>1. CASE ReadLatest(b) \/ Download(b) \/ Commit(b) \/ Compact(b)
               \/ ListExecutions(b)
    BY <1>1 DEF ReadLatest, Download, Commit, Compact, ListExecutions, store
  <1>2. CASE WriteSummary(b)
    BY <1>2 DEF WriteSummary
  <1>3. CASE ListGarbage(b) \/ DeleteSummary(b)
    BY <1>3 DEF ListGarbage, DeleteSummary, store
  <1>4. CASE FinishRun(b) \/ Bail(b) \/ Fail(b)
    BY <1>4 DEF FinishRun, Bail, Fail, store
  <1> QED
    BY <1>1, <1>2, <1>3, <1>4 DEF Run, Writes

\* Of an operator's steps only the PUT of a rollback moves LATEST.
LEMMA QuietOperatorStep ==
    ASSUME NEW o \in Operators, Operate(o), ~RollbackPut(o)
    PROVE  UNCHANGED latest
  BY DEF Operate, RollbackList, RollbackChoose, RollbackCheck, ReleaseOpen,
         ReleaseWrite, GiveUp, store

\* Without Overlap a command starts only when every process is idle, so no
\* second one ever joins.
LEMMA ExclusiveNext ==
    ASSUME Tables, ~Overlap, Exclusive, [Next]_vars
    PROVE  Exclusive'
  <1> USE DEF Exclusive, MayStart, Quiet, Tables
  <1>1. ASSUME NEW b \in Builders, Run(b) \/ Fail(b) PROVE Exclusive'
    <2>1. /\ opc' = opc
          /\ pc[b] = "idle" => Quiet
          /\ \A c \in Builders \ {b} : pc'[c] = pc[c]
      BY <1>1, BuilderStep DEF operatorVars
    <2> QED
      BY <2>1
  <1>2. ASSUME NEW o \in Operators, Operate(o) PROVE Exclusive'
    <2>1. /\ pc' = pc
          /\ opc[o] = "idle" => Quiet
          /\ \A q \in Operators \ {o} : opc'[q] = opc[q]
      BY <1>2, OperatorStep DEF builderVars
    <2> QED
      BY <2>1
  <1>3. CASE Ship \/ Tick \/ UNCHANGED vars
    BY <1>3, OtherStep DEF builderVars, operatorVars
  <1> QED
    BY <1>1, <1>2, <1>3, WhoSteps

\* What the writing steps of a Builder do to the archive and the pointer.
LEMMA PutArtifactStep ==
    ASSUME Tables, NEW b \in Builders, PutArtifact(b)
    PROVE  /\ UNCHANGED <<latest, work, expired, num, victims>>
           /\ pc[b] = "put"
           /\ \/ /\ UNCHANGED <<artifacts, history>>
                 /\ pc'[b] = "list"
              \/ /\ num[b] \notin DOMAIN artifacts
                 /\ pc'[b] = "point"
                 /\ DOMAIN artifacts' = DOMAIN artifacts \cup {num[b]}
                 /\ \A n \in DOMAIN artifacts : artifacts'[n] = artifacts[n]
                 /\ artifacts'[num[b]].lineage = work[b]
                 /\ artifacts'[num[b]].expired = expired[b]
                 /\ DOMAIN history' = DOMAIN history \cup {num[b]}
                 /\ \A n \in DOMAIN history : history'[n] = history[n]
                 /\ num[b] \notin DOMAIN history => history'[num[b]] = work[b]
  <1>1. CASE Creates(b)
    <2> DEFINE object == [lineage |-> work[b], expired |-> expired[b],
                          mtime |-> clock]
    <2>1. /\ artifacts' = With(artifacts, num[b], object)
          /\ history' = IF num[b] \in DOMAIN history THEN history
                        ELSE With(history, num[b], work[b])
          /\ num[b] \notin DOMAIN artifacts
      BY <1>1 DEF PutArtifact, Creates
    <2>2. object.lineage = work[b] /\ object.expired = expired[b]
      OBVIOUS
    <2> HIDE DEF object
    <2>3. /\ DOMAIN artifacts' = DOMAIN artifacts \cup {num[b]}
          /\ \A n \in DOMAIN artifacts : artifacts'[n] = artifacts[n]
          /\ artifacts'[num[b]].lineage = work[b]
          /\ artifacts'[num[b]].expired = expired[b]
      BY <2>1, <2>2 DEF With
    <2>4. /\ DOMAIN history' = DOMAIN history \cup {num[b]}
          /\ \A n \in DOMAIN history : history'[n] = history[n]
          /\ num[b] \notin DOMAIN history => history'[num[b]] = work[b]
      BY <2>1 DEF With
    <2> QED
      BY <1>1, <2>1, <2>3, <2>4 DEF PutArtifact, Tables
  <1>2. CASE ~Creates(b)
    BY <1>2 DEF PutArtifact, Creates, Tables
  <1> QED
    BY <1>1, <1>2

\* What the PUT of LATEST changes.
LEMMA PutLatestStep ==
    ASSUME Tables, NEW b \in Builders, PutLatest(b)
    PROVE  /\ UNCHANGED <<artifacts, history, work, expired, num, victims>>
           /\ pc[b] = "point"
           /\ pc'[b] = "summary"
           /\ latest' = num[b]
  BY DEF PutLatest, Tables

\* What the deletion of an artifact changes.
LEMMA DeleteArtifactStep ==
    ASSUME Tables, NEW b \in Builders, DeleteArtifact(b)
    PROVE  /\ UNCHANGED <<latest, history, work, num>>
           /\ pc[b] = "collect"
           /\ pc'[b] = "collectSummary"
           /\ \E n \in victims[b] :
                 /\ victims'[b] = victims[b] \ {n}
                 /\ DOMAIN artifacts' = DOMAIN artifacts \ {n}
                 /\ \A m \in DOMAIN artifacts' : artifacts'[m] = artifacts[m]
  <1>1. PICK n \in victims[b] :
           /\ artifacts' = Without(artifacts, n)
           /\ victims' = [victims EXCEPT ![b] = @ \ {n}]
    BY DEF DeleteArtifact
  <1>2. /\ DOMAIN artifacts' = DOMAIN artifacts \ {n}
        /\ \A m \in DOMAIN artifacts' : artifacts'[m] = artifacts[m]
    BY <1>1 DEF Without
  <1>3. victims'[b] = victims[b] \ {n}
    BY <1>1 DEF Tables
  <1> QED
    BY <1>2, <1>3 DEF DeleteArtifact, Tables

\* A collector works alone, and neither its own execution nor what LATEST
\* names is among its victims.
LEMMA CollectorsVictims ==
    ASSUME SafeInv, NEW b \in Builders, pc[b] = "collect", NEW n \in victims[b]
    PROVE  /\ Collects
           /\ Exclusive
           /\ latest = num[b]
           /\ n # num[b]
           /\ num[b] \in DOMAIN artifacts
  BY DEF SafeInv, CollectsAlone, Collecting, WriterOwnsNumber, Published

LEMMA PointerNext ==
    ASSUME SafeInv, [Next]_vars
    PROVE  PointerNamesArtifact'
  <1> USE DEF PointerNamesArtifact
  <1>0. Tables /\ PointerNamesArtifact
    BY TablesHold DEF SafeInv
  <1>1. ASSUME NEW b \in Builders, PutArtifact(b) PROVE PointerNamesArtifact'
    BY <1>0, <1>1, PutArtifactStep
  <1>2. ASSUME NEW b \in Builders, PutLatest(b) PROVE PointerNamesArtifact'
    BY <1>0, <1>2, PutLatestStep DEF SafeInv, WriterOwnsNumber, Published
  <1>3. ASSUME NEW b \in Builders, DeleteArtifact(b)
        PROVE  PointerNamesArtifact'
    <2>1. /\ pc[b] = "collect"
          /\ latest' = latest
          /\ \E n \in victims[b] : DOMAIN artifacts' = DOMAIN artifacts \ {n}
      BY <1>0, <1>3, DeleteArtifactStep
    <2>2. \A n \in victims[b] : latest = num[b] /\ n # num[b]
      BY <2>1, CollectorsVictims
    <2> QED
      BY <1>0, <2>1, <2>2
  <1>4. ASSUME NEW b \in Builders, Run(b) \/ Fail(b), ~Writes(b)
        PROVE  PointerNamesArtifact'
    BY <1>0, <1>4, QuietBuilderStep
  <1>5. ASSUME NEW o \in Operators, RollbackPut(o) PROVE PointerNamesArtifact'
    BY <1>5 DEF RollbackPut, SafeInv, TargetsAreArchived
  <1>6. ASSUME NEW o \in Operators, Operate(o), ~RollbackPut(o)
        PROVE  PointerNamesArtifact'
    BY <1>0, <1>6, QuietOperatorStep, OperatorStep
  <1>7. CASE Ship \/ Tick \/ UNCHANGED vars
    BY <1>0, <1>7, OtherStep DEF store
  <1> QED
    BY <1>1, <1>2, <1>3, <1>4, <1>5, <1>6, <1>7, WhoSteps DEF Writes

LEMMA CatalogNext ==
    ASSUME Guarded, SafeInv, [Next]_vars
    PROVE  NumberNamesOneCatalog'
  <1> USE DEF NumberNamesOneCatalog
  <1>0. Tables /\ NumberNamesOneCatalog
    BY TablesHold DEF SafeInv
  <1>1. ASSUME NEW b \in Builders, PutArtifact(b)
        PROVE  NumberNamesOneCatalog'
    <2>1. num[b] \in DOMAIN history => num[b] \in DOMAIN artifacts
      <3>1. CASE ~Collects
        BY <3>1 DEF SafeInv, NumbersAreRemembered
      <3>2. CASE Collects
        <4>1. pc[b] = "put" /\ num[b] \in Nat
          BY <1>0, <1>1, PutArtifactStep DEF Tables
        <4>2. \A n \in DOMAIN history : n < num[b]
          BY <3>2, <4>1 DEF SafeInv, CollectsAlone
        <4>3. ~(num[b] < num[b])
          BY <4>1
        <4> QED
          BY <4>2, <4>3
      <3> QED
        BY <3>1, <3>2
    <2>2. DOMAIN artifacts \subseteq DOMAIN history
      BY DEF SafeInv, NumbersAreRemembered
    <2>3. CASE UNCHANGED <<artifacts, history>>
      BY <1>0, <2>3
    <2>4. CASE /\ num[b] \notin DOMAIN artifacts
               /\ DOMAIN artifacts' = DOMAIN artifacts \cup {num[b]}
               /\ \A n \in DOMAIN artifacts : artifacts'[n] = artifacts[n]
               /\ artifacts'[num[b]].lineage = work[b]
               /\ \A n \in DOMAIN history : history'[n] = history[n]
               /\ num[b] \notin DOMAIN history => history'[num[b]] = work[b]
      BY <1>0, <2>1, <2>2, <2>4
    <2> QED
      BY <1>0, <1>1, <2>3, <2>4, PutArtifactStep
  <1>2. ASSUME NEW b \in Builders, DeleteArtifact(b)
        PROVE  NumberNamesOneCatalog'
    BY <1>0, <1>2, DeleteArtifactStep
  <1>3. CASE UNCHANGED <<artifacts, history>>
    BY <1>0, <1>3
  <1>4. ASSUME NEW b \in Builders, Run(b) \/ Fail(b)
        PROVE  NumberNamesOneCatalog'
    BY <1>0, <1>1, <1>2, <1>3, <1>4, PutLatestStep, QuietBuilderStep
    DEF Writes
  <1> QED
    BY <1>0, <1>3, <1>4, WhoSteps, OperatorStep, OtherStep DEF store

\* A Builder that is past the conditional PUT was so before the step, or has
\* just created its artifact.
LEMMA StillPublished ==
    ASSUME Tables, NEW b \in Builders, Run(b) \/ Fail(b), ~PutArtifact(b),
           pc'[b] \in Published
    PROVE  /\ pc[b] \in Published
           /\ num'[b] = num[b]
           /\ work'[b] = work[b]
  <1> USE DEF Tables, Published
  <1>1. CASE ReadLatest(b) \/ Download(b) \/ Commit(b) \/ Compact(b)
               \/ ListExecutions(b)
    BY <1>1 DEF ReadLatest, Download, Commit, Compact, ListExecutions
  <1>2. CASE PutLatest(b) \/ WriteSummary(b)
    BY <1>2 DEF PutLatest, WriteSummary
  <1>3. CASE ListGarbage(b) \/ DeleteArtifact(b) \/ DeleteSummary(b)
    BY <1>3 DEF ListGarbage, DeleteArtifact, DeleteSummary
  <1>4. CASE FinishRun(b) \/ Bail(b) \/ Fail(b)
    BY <1>4 DEF FinishRun, Bail, Fail, Exit
  <1> QED
    BY <1>1, <1>2, <1>3, <1>4 DEF Run

LEMMA OwnerNext ==
    ASSUME SafeInv, [Next]_vars
    PROVE  WriterOwnsNumber'
  <1>0. Tables /\ WriterOwnsNumber
    BY TablesHold DEF SafeInv
  <1> USE DEF WriterOwnsNumber
  <1>1. ASSUME NEW b \in Builders, PutArtifact(b) PROVE WriterOwnsNumber'
    <2>1. \A c \in Builders \ {b} : pc'[c] = pc[c]
      BY <1>0, <1>1, BuilderStep DEF Run
    <2>2. UNCHANGED <<work, num>>
      BY <1>0, <1>1, PutArtifactStep
    <2>3. CASE artifacts' = artifacts /\ pc'[b] = "list"
      <3>1. pc'[b] \notin Published
        BY <2>3 DEF Published
      <3> QED
        BY <1>0, <2>1, <2>2, <2>3, <3>1
    <2>4. CASE /\ num[b] \notin DOMAIN artifacts
               /\ DOMAIN artifacts' = DOMAIN artifacts \cup {num[b]}
               /\ \A n \in DOMAIN artifacts : artifacts'[n] = artifacts[n]
               /\ artifacts'[num[b]].lineage = work[b]
      BY <1>0, <2>1, <2>2, <2>4
    <2> QED
      BY <1>0, <1>1, <2>3, <2>4, PutArtifactStep
  <1>2. ASSUME NEW b \in Builders, DeleteArtifact(b) PROVE WriterOwnsNumber'
    <2>1. PICK n \in victims[b] :
             /\ DOMAIN artifacts' = DOMAIN artifacts \ {n}
             /\ \A m \in DOMAIN artifacts' : artifacts'[m] = artifacts[m]
      BY <1>0, <1>2, DeleteArtifactStep
    <2>2. /\ Exclusive
          /\ n # num[b]
          /\ pc[b] = "collect"
      BY <1>0, <1>2, DeleteArtifactStep, CollectorsVictims
    <2>3. \A c \in Builders \ {b} : pc'[c] = pc[c] /\ pc[c] = "idle"
      BY <1>0, <1>2, <2>2, BuilderStep DEF Run, Exclusive
    <2>4. UNCHANGED <<num, work>> /\ pc[b] \in Published
      BY <1>0, <1>2, <2>2, DeleteArtifactStep DEF Published
    <2>5. "idle" \notin Published
      BY DEF Published
    <2> QED
      BY <1>0, <2>1, <2>2, <2>3, <2>4, <2>5
  <1>3. ASSUME NEW b \in Builders, Run(b) \/ Fail(b), ~PutArtifact(b),
               ~DeleteArtifact(b)
        PROVE  WriterOwnsNumber'
    <2>1. artifacts' = artifacts
      BY <1>0, <1>3, QuietBuilderStep, PutLatestStep DEF Writes
    <2> QED
      BY <1>0, <1>3, <2>1, BuilderStep, StillPublished
  <1>4. ASSUME NEW o \in Operators, Operate(o) PROVE WriterOwnsNumber'
    BY <1>0, <1>4, OperatorStep DEF builderVars
  <1>5. CASE Ship \/ Tick \/ UNCHANGED vars
    BY <1>0, <1>5, OtherStep DEF store, builderVars
  <1> QED
    BY <1>1, <1>2, <1>3, <1>4, <1>5, WhoSteps

\* What an operator's command is aimed at stays in the archive: only a
\* collector shrinks the archive, and it works alone.
LEMMA OperatorAims ==
    ASSUME Tables, NEW o \in Operators, Operate(o),
           opc[o] = "listed" => listed[o] \subseteq DOMAIN artifacts,
           opc[o] \in {"chosen", "checked"} => target[o] \in DOMAIN artifacts
    PROVE  /\ opc'[o] = "listed" => listed'[o] \subseteq DOMAIN artifacts
           /\ opc'[o] \in {"chosen", "checked"} => target'[o] \in DOMAIN artifacts
  <1> USE DEF Tables
  <1>1. CASE RollbackList(o)
    BY <1>1 DEF RollbackList
  <1>2. CASE RollbackChoose(o)
    BY <1>2 DEF RollbackChoose
  <1>3. CASE RollbackCheck(o)
    BY <1>3 DEF RollbackCheck
  <1>4. CASE ReleaseOpen(o)
    BY <1>4 DEF ReleaseOpen
  <1>5. CASE RollbackPut(o) \/ ReleaseWrite(o) \/ GiveUp(o)
    BY <1>5 DEF RollbackPut, ReleaseWrite, GiveUp, Close
  <1> QED
    BY <1>1, <1>2, <1>3, <1>4, <1>5 DEF Operate

LEMMA TargetsNext ==
    ASSUME SafeInv, [Next]_vars
    PROVE  TargetsAreArchived'
  <1> USE DEF TargetsAreArchived
  <1>0. Tables /\ TargetsAreArchived
    BY TablesHold DEF SafeInv
  <1>1. ASSUME NEW b \in Builders, DeleteArtifact(b) PROVE TargetsAreArchived'
    <2>1. \A o \in Operators : opc[o] = "idle"
      BY <1>0, <1>1, DeleteArtifactStep, CollectorsVictims DEF Exclusive
    <2>2. opc' = opc
      BY <1>0, <1>1, BuilderStep DEF Run, operatorVars
    <2> QED
      BY <2>1, <2>2
  <1>2. ASSUME NEW b \in Builders, Run(b) \/ Fail(b), ~DeleteArtifact(b)
        PROVE  TargetsAreArchived'
    <2>1. DOMAIN artifacts \subseteq DOMAIN artifacts'
      BY <1>0, <1>2, PutArtifactStep, PutLatestStep, QuietBuilderStep
      DEF Writes
    <2> QED
      BY <1>0, <1>2, <2>1, BuilderStep DEF operatorVars
  <1>3. ASSUME NEW o \in Operators, Operate(o) PROVE TargetsAreArchived'
    <2>1. /\ opc'[o] = "listed" => listed'[o] \subseteq DOMAIN artifacts
          /\ opc'[o] \in {"chosen", "checked"} => target'[o] \in DOMAIN artifacts
      BY <1>0, <1>3, OperatorAims
    <2>2. /\ artifacts' = artifacts
          /\ \A q \in Operators \ {o} :
                /\ opc'[q] = opc[q]
                /\ listed'[q] = listed[q]
                /\ target'[q] = target[q]
      BY <1>0, <1>3, OperatorStep
    <2> QED
      BY <1>0, <2>1, <2>2
  <1>4. CASE Ship \/ Tick \/ UNCHANGED vars
    BY <1>0, <1>4, OtherStep DEF store, operatorVars
  <1> QED
    BY <1>1, <1>2, <1>3, <1>4, WhoSteps

\* What a Builder has built on is still the catalog of an archived execution.
LEMMA BuilderBuilds ==
    ASSUME Tables, runs \in Nat, NEW b \in Builders, Run(b) \/ Fail(b),
           pc[b] = "build" => work[b] \in Parents,
           pc[b] \in {"compact", "list", "put"} =>
              \E parent \in Parents, run \in Nat \ {0} :
                  work[b] = Append(parent, run)
    PROVE  /\ pc'[b] = "build" => work'[b] \in Parents
           /\ pc'[b] \in {"compact", "list", "put"} =>
                 \E parent \in Parents, run \in Nat \ {0} :
                     work'[b] = Append(parent, run)
  <1> USE DEF Tables
  <1>1. CASE ReadLatest(b)
    BY <1>1 DEF ReadLatest
  <1>2. CASE Download(b)
    <2>1. \A base \in Bases(b) : base.lineage \in Parents
      BY DEF Bases, Parents, FreshCatalog
    <2> QED
      BY <1>2, <2>1 DEF Download
  <1>3. CASE Commit(b)
    <2>1. runs + 1 \in Nat \ {0} /\ pc[b] = "build"
      BY <1>3 DEF Commit
    <2>2. work'[b] = Append(work[b], runs + 1) /\ pc'[b] # "build"
      BY <1>3 DEF Commit
    <2> QED
      BY <2>1, <2>2
  <1>4. CASE Compact(b) \/ ListExecutions(b)
    BY <1>4 DEF Compact, ListExecutions
  <1>5. CASE PutArtifact(b)
    BY <1>5 DEF PutArtifact
  <1>6. CASE PutLatest(b) \/ WriteSummary(b)
    BY <1>6 DEF PutLatest, WriteSummary
  <1>7. CASE ListGarbage(b) \/ DeleteArtifact(b) \/ DeleteSummary(b)
    BY <1>7 DEF ListGarbage, DeleteArtifact, DeleteSummary
  <1>8. CASE FinishRun(b) \/ Bail(b) \/ Fail(b)
    BY <1>8 DEF FinishRun, Bail, Fail, Exit
  <1> QED
    BY <1>1, <1>2, <1>3, <1>4, <1>5, <1>6, <1>7, <1>8 DEF Run

LEMMA BuildsNext ==
    ASSUME SafeInv, [Next]_vars
    PROVE  BuildsOnArchived'
  <1> USE DEF BuildsOnArchived
  <1>0. Tables /\ BuildsOnArchived /\ runs \in Nat
    BY TablesHold DEF SafeInv, IndType, Typed, TypeOK
  <1>1. ASSUME NEW b \in Builders, DeleteArtifact(b) PROVE BuildsOnArchived'
    <2>1. \A c \in Builders \ {b} : pc'[c] = "idle"
      BY <1>0, <1>1, DeleteArtifactStep, CollectorsVictims, BuilderStep
      DEF Exclusive, Run
    <2>2. pc'[b] = "collectSummary"
      BY <1>0, <1>1, DeleteArtifactStep
    <2> QED
      BY <2>1, <2>2
  <1>2. ASSUME NEW b \in Builders, Run(b) \/ Fail(b), ~DeleteArtifact(b)
        PROVE  BuildsOnArchived'
    <2>1. /\ DOMAIN artifacts \subseteq DOMAIN artifacts'
          /\ \A n \in DOMAIN artifacts : artifacts'[n] = artifacts[n]
      BY <1>0, <1>2, PutArtifactStep, PutLatestStep, QuietBuilderStep
      DEF Writes
    <2>2. Parents \subseteq Parents'
      BY <2>1 DEF Parents
    <2>3. /\ pc'[b] = "build" => work'[b] \in Parents
          /\ pc'[b] \in {"compact", "list", "put"} =>
                \E parent \in Parents, run \in Nat \ {0} :
                    work'[b] = Append(parent, run)
      BY <1>0, <1>2, BuilderBuilds
    <2>4. \A c \in Builders \ {b} : pc'[c] = pc[c] /\ work'[c] = work[c]
      BY <1>0, <1>2, BuilderStep
    <2> QED
      BY <1>0, <2>2, <2>3, <2>4
  <1>3. CASE UNCHANGED <<artifacts, pc, work>>
    BY <1>0, <1>3 DEF Parents
  <1> QED
    BY <1>0, <1>1, <1>2, <1>3, WhoSteps, OperatorStep, OtherStep
    DEF store, builderVars

\* A Builder reaches the collecting steps only where collection is
\* configured, and what it lists excludes its own execution.
LEMMA SparesItsOwn ==
    ASSUME Tables, NEW b \in Builders, Run(b) \/ Fail(b),
           pc[b] \in Collecting => Collects /\ num[b] \notin victims[b],
           pc'[b] \in Collecting
    PROVE  Collects /\ num'[b] \notin victims'[b]
  <1> USE DEF Tables, Collecting
  <1>1. CASE ReadLatest(b) \/ Download(b) \/ Commit(b) \/ Compact(b)
               \/ ListExecutions(b)
    BY <1>1 DEF ReadLatest, Download, Commit, Compact, ListExecutions
  <1>2. CASE PutArtifact(b) \/ PutLatest(b) \/ WriteSummary(b)
    BY <1>2 DEF PutArtifact, PutLatest, WriteSummary
  <1>3. CASE ListGarbage(b)
    BY <1>3 DEF ListGarbage, Garbage
  <1>4. CASE DeleteArtifact(b) \/ DeleteSummary(b)
    BY <1>4 DEF DeleteArtifact, DeleteSummary
  <1>5. CASE FinishRun(b) \/ Bail(b) \/ Fail(b)
    BY <1>5 DEF FinishRun, Bail, Fail, Exit
  <1> QED
    BY <1>1, <1>2, <1>3, <1>4, <1>5 DEF Run

\* While a Builder has the cell to itself, LATEST and the numbers ever used
\* stay in step with the number it publishes under.
InStep(b) ==
    /\ pc[b] \in {"summary", "gc"} \cup Collecting => latest = num[b]
    /\ pc[b] = "put" => \A n \in DOMAIN history : n < num[b]
    /\ pc[b] \in Published => \A n \in DOMAIN history : n <= num[b]

\* A collecting Builder stays in step with what it published.
LEMMA StaysInStep ==
    ASSUME IndType, NumbersAreRemembered, NEW b \in Builders, Run(b) \/ Fail(b),
           InStep(b)
    PROVE  InStep(b)'
  <1> USE DEF InStep, Published, Collecting
  <1>0. /\ Tables
        /\ DOMAIN artifacts \subseteq Nat
        /\ DOMAIN history \subseteq Nat
    BY TablesHold DEF IndType, Typed, TypeOK, Executions
  <1>1. CASE ReadLatest(b) \/ Download(b) \/ Commit(b) \/ Compact(b)
    BY <1>0, <1>1 DEF ReadLatest, Download, Commit, Compact, Tables
  <1>2. CASE ListExecutions(b)
    <2>1. PICK last \in DOMAIN artifacts \cup {NoExecution} :
             /\ \A n \in DOMAIN artifacts : n <= last
             /\ num' = [num EXCEPT ![b] = last + 1]
      BY <1>2 DEF ListExecutions, NextNumber
    <2>2. ASSUME NEW n \in DOMAIN history PROVE n < last + 1
      <3>1. PICK m \in DOMAIN artifacts : n <= m
        BY DEF NumbersAreRemembered
      <3>2. m <= last /\ m \in Nat /\ n \in Nat /\ last \in Nat
        BY <1>0, <2>1 DEF NoExecution
      <3> QED
        BY <3>1, <3>2
    <2>3. /\ pc'[b] = "put"
          /\ history' = history
          /\ num'[b] = last + 1
      BY <1>0, <1>2, <2>1 DEF ListExecutions, Tables
    <2> QED
      BY <2>2, <2>3
  <1>3. CASE PutArtifact(b)
    <2>1. num[b] \in Nat /\ num'[b] = num[b] /\ pc[b] = "put"
      BY <1>0, <1>3, PutArtifactStep DEF Tables
    <2>2. \A n \in DOMAIN history' : n <= num[b]
      <3>1. DOMAIN history' \subseteq DOMAIN history \cup {num[b]}
        BY <1>0, <1>3, PutArtifactStep
      <3> QED
        BY <1>0, <2>1, <3>1
    <2>3. pc'[b] \in {"list", "point"}
      BY <1>0, <1>3, PutArtifactStep
    <2> QED
      BY <2>1, <2>2, <2>3
  <1>4. CASE PutLatest(b)
    BY <1>0, <1>4, PutLatestStep
  <1>5. CASE WriteSummary(b) \/ ListGarbage(b)
    BY <1>0, <1>5 DEF WriteSummary, ListGarbage, Tables, store
  <1>6. CASE DeleteArtifact(b) \/ DeleteSummary(b)
    BY <1>0, <1>6 DEF DeleteArtifact, DeleteSummary, Tables
  <1>7. CASE FinishRun(b) \/ Bail(b) \/ Fail(b)
    BY <1>0, <1>7 DEF FinishRun, Bail, Fail, Exit, Tables
  <1> QED
    BY <1>1, <1>2, <1>3, <1>4, <1>5, <1>6, <1>7 DEF Run

LEMMA AloneNext ==
    ASSUME Guarded, SafeInv, [Next]_vars
    PROVE  CollectsAlone'
  <1>0. Tables /\ CollectsAlone /\ IndType /\ NumbersAreRemembered
    BY TablesHold DEF SafeInv
  <1>1. \A b \in Builders : pc'[b] \in Collecting =>
           Collects /\ num'[b] \notin victims'[b]
    <2>1. ASSUME NEW c \in Builders, Run(c) \/ Fail(c)
          PROVE  \A b \in Builders : pc'[b] \in Collecting =>
                    Collects /\ num'[b] \notin victims'[b]
      BY <1>0, <2>1, BuilderStep, SparesItsOwn DEF CollectsAlone
    <2>2. CASE UNCHANGED <<pc, num, victims>>
      BY <1>0, <2>2 DEF CollectsAlone
    <2> QED
      BY <1>0, <2>1, <2>2, WhoSteps, OperatorStep, OtherStep DEF builderVars
  <1>2. ASSUME Collects PROVE Exclusive'
    BY <1>0, <1>2, ExclusiveNext DEF CollectsAlone, Guarded
  <1>3. ASSUME Collects, NEW b \in Builders PROVE InStep(b)'
    <2>0. /\ Exclusive /\ ~Overlap
          /\ \A c \in Builders : InStep(c)
      BY <1>0, <1>3 DEF CollectsAlone, InStep, Guarded
    <2>1. CASE Run(b) \/ Fail(b)
      BY <1>0, <2>0, <2>1, StaysInStep
    <2>2. ASSUME NEW c \in Builders, Run(c) \/ Fail(c), c # b PROVE InStep(b)'
      <3>1. pc'[b] = "idle"
        BY <1>0, <2>0, <2>2, BuilderStep DEF Exclusive, MayStart, Quiet
      <3> QED
        BY <3>1 DEF InStep, Published, Collecting
    <2>3. ASSUME NEW o \in Operators, RollbackPut(o) PROVE InStep(b)'
      <3>1. opc[o] # "idle" /\ pc' = pc
        BY <2>3 DEF RollbackPut, builderVars
      <3>2. pc'[b] = "idle"
        BY <2>0, <3>1 DEF Exclusive
      <3> QED
        BY <3>2 DEF InStep, Published, Collecting
    <2>4. ASSUME NEW o \in Operators, Operate(o), ~RollbackPut(o)
          PROVE  UNCHANGED <<pc, num, latest, history>>
      BY <1>0, <2>4, OperatorStep, QuietOperatorStep DEF builderVars
    <2>5. CASE UNCHANGED <<pc, num, latest, history>>
      BY <2>0, <2>5 DEF InStep
    <2> QED
      BY <2>1, <2>2, <2>3, <2>4, <2>5, WhoSteps, OtherStep
      DEF store, builderVars
  <1> QED
    BY <1>1, <1>2, <1>3 DEF CollectsAlone, InStep

LEMMA RememberedNext ==
    ASSUME SafeInv, [Next]_vars
    PROVE  NumbersAreRemembered'
  <1> USE DEF NumbersAreRemembered
  <1>0. /\ Tables /\ NumbersAreRemembered
        /\ DOMAIN artifacts \subseteq Nat
        /\ DOMAIN history \subseteq Nat
    BY TablesHold DEF SafeInv, IndType, Typed, TypeOK, Executions
  <1>1. CASE UNCHANGED <<artifacts, history>>
    BY <1>0, <1>1
  <1>2. ASSUME NEW b \in Builders, PutArtifact(b) PROVE NumbersAreRemembered'
    <2>1. CASE /\ DOMAIN artifacts' = DOMAIN artifacts \cup {num[b]}
               /\ DOMAIN history' = DOMAIN history \cup {num[b]}
      <3>1. num[b] \in Nat
        BY <1>0 DEF Tables
      <3>2. num[b] <= num[b]
        BY <3>1
      <3> QED
        BY <1>0, <2>1, <3>2
    <2> QED
      BY <1>0, <1>1, <1>2, <2>1, PutArtifactStep
  <1>3. ASSUME NEW b \in Builders, DeleteArtifact(b)
        PROVE  NumbersAreRemembered'
    <2>1. PICK n \in victims[b] : DOMAIN artifacts' = DOMAIN artifacts \ {n}
      BY <1>0, <1>3, DeleteArtifactStep
    <2>2. history' = history /\ pc[b] = "collect"
      BY <1>0, <1>3, DeleteArtifactStep
    <2>3. Collects /\ n # num[b] /\ num[b] \in DOMAIN artifacts
      BY <2>2, CollectorsVictims
    <2>4. \A m \in DOMAIN history : m <= num[b]
      BY <2>2, <2>3 DEF SafeInv, CollectsAlone, Published
    <2> QED
      BY <1>0, <2>1, <2>2, <2>3, <2>4
  <1>4. ASSUME NEW b \in Builders, Run(b) \/ Fail(b)
        PROVE  NumbersAreRemembered'
    BY <1>0, <1>1, <1>2, <1>3, <1>4, PutLatestStep, QuietBuilderStep DEF Writes
  <1> QED
    BY <1>0, <1>1, <1>4, WhoSteps, OperatorStep, OtherStep DEF store

LEMMA SafeNext == Guarded /\ SafeInv /\ [Next]_vars => SafeInv'
  <1> SUFFICES ASSUME Guarded, SafeInv, [Next]_vars PROVE SafeInv'
    OBVIOUS
  <1>1. IndType'
    BY TypeNext DEF SafeInv
  <1> QED
    BY <1>1, PointerNext, CatalogNext, OwnerNext, TargetsNext, BuildsNext,
       AloneNext, RememberedNext
    DEF SafeInv

LEMMA Safe == ASSUME Guarded PROVE Spec => []SafeInv
  <1>1. SafeInv /\ [Next]_vars => SafeInv'
    BY SafeNext
  <1> QED
    BY <1>1, SafeInit, PTL DEF Spec

\* A reader never observes a pointer to a missing artifact: not with any
\* number of concurrent Builders and operators as long as nothing is
\* collected, and not with a collector as long as commands do not overlap.
THEOREM PointerIsSafe == ASSUME Guarded PROVE Spec => []PointerNamesArtifact
  <1>1. SafeInv => PointerNamesArtifact
    BY DEF SafeInv
  <1> QED
    BY <1>1, Safe, PTL

\* Under the same conditions an execution number names one catalog for ever,
\* through rollbacks, dead runs and collections: numbers do not come back.
THEOREM NumbersAreStable == ASSUME Guarded PROVE Spec => []NumberNamesOneCatalog
  <1>1. SafeInv => NumberNamesOneCatalog
    BY DEF SafeInv
  <1> QED
    BY <1>1, Safe, PTL

\* Under the same conditions what is stored under the number of a run that
\* is publishing is that run's own catalog.
THEOREM WritersOwnTheirNumbers == ASSUME Guarded PROVE Spec => []WriterOwnsNumber
  <1>1. SafeInv => WriterOwnsNumber
    BY DEF SafeInv
  <1> QED
    BY <1>1, Safe, PTL

-----------------------------------------------------------------------------
(* Publication implements ExecutionLog under the same conditions.          *)

Archive == [n \in DOMAIN artifacts |-> artifacts[n].lineage]

\* The refinement mapping: the archive is the lineages of the artifacts.
LEMMA ArchiveHolds ==
    /\ DOMAIN Archive = DOMAIN artifacts
    /\ \A n \in DOMAIN artifacts : Archive[n] = artifacts[n].lineage
  BY DEF Archive

\* The same of the next state.
LEMMA ArchiveHoldsNext ==
    /\ DOMAIN Archive' = DOMAIN artifacts'
    /\ \A n \in DOMAIN artifacts' : Archive'[n] = artifacts'[n].lineage
  BY DEF Archive

LEMMA LogInit == Init => Log!Init
  BY DEF Init, Log!Init, NoExecution

\* A commit puts one snapshot on top of the lineage it builds on.
LEMMA AppendExtends ==
    ASSUME NEW parent \in Lineages, NEW run \in Nat \ {0}
    PROVE  /\ Len(Append(parent, run)) = Len(parent) + 1
           /\ SubSeq(Append(parent, run), 1, Len(parent)) = parent
  BY DEF Lineages

\* What an execution may build on: an archived lineage, or nothing.
LEMMA ParentsAreLineages ==
    ASSUME IndType PROVE Parents \subseteq Lineages
  BY EmptyLineage DEF Parents, IndType, Typed, TypeOK, Artifacts

\* Every step of Publication is one of ExecutionLog, or a stutter.
LEMMA LogNext ==
    ASSUME Guarded, SafeInv, [Next]_vars
    PROVE  Log!Next \/ UNCHANGED <<Archive, latest>>
  <1>0. Tables /\ IndType /\ PointerNamesArtifact
    BY TablesHold DEF SafeInv
  <1>1. ASSUME NEW b \in Builders, PutArtifact(b)
        PROVE  Log!Publish \/ UNCHANGED <<Archive, latest>>
    <2>1. CASE /\ num[b] \notin DOMAIN artifacts
               /\ DOMAIN artifacts' = DOMAIN artifacts \cup {num[b]}
               /\ \A n \in DOMAIN artifacts : artifacts'[n] = artifacts[n]
               /\ artifacts'[num[b]].lineage = work[b]
      <3>1. PICK parent \in Parents, run \in Nat \ {0} :
               work[b] = Append(parent, run)
        BY <1>0, <1>1, PutArtifactStep DEF SafeInv, BuildsOnArchived
      <3>2. /\ Len(Archive'[num[b]]) = Len(parent) + 1
            /\ SubSeq(Archive'[num[b]], 1, Len(parent)) = parent
        <4>1. Archive'[num[b]] = Append(parent, run)
          BY <2>1, <3>1, ArchiveHoldsNext
        <4>2. parent \in Lineages
          BY <1>0, ParentsAreLineages
        <4> QED
          BY <4>1, <4>2, AppendExtends
      <3>3. parent \in {<<>>} \cup {Archive[n] : n \in DOMAIN Archive}
        BY <3>1, ArchiveHolds DEF Parents
      <3>4. /\ num[b] \in DOMAIN Archive' \ DOMAIN Archive
            /\ DOMAIN Archive' = DOMAIN Archive \cup {num[b]}
            /\ \A m \in DOMAIN Archive : Archive'[m] = Archive[m]
        BY <2>1, ArchiveHolds, ArchiveHoldsNext
      <3>5. latest' = latest
        BY <1>0, <1>1, PutArtifactStep
      <3> QED
        BY <3>2, <3>3, <3>4, <3>5 DEF Log!Publish, Log!Parents, Archive
    <2>2. CASE UNCHANGED artifacts
      BY <1>0, <1>1, <2>2, PutArtifactStep DEF Archive
    <2> QED
      BY <1>0, <1>1, <2>1, <2>2, PutArtifactStep
  <1>2. ASSUME NEW b \in Builders, PutLatest(b) PROVE Log!Serve
    <2>1. latest' \in DOMAIN artifacts /\ artifacts' = artifacts
      BY <1>0, <1>2, PutLatestStep DEF SafeInv, WriterOwnsNumber, Published
    <2> QED
      BY <2>1, ArchiveHolds DEF Log!Serve, Archive
  <1>3. ASSUME NEW b \in Builders, DeleteArtifact(b)
        PROVE  Log!Collect \/ UNCHANGED <<Archive, latest>>
    <2>1. PICK n \in victims[b] :
             /\ DOMAIN artifacts' = DOMAIN artifacts \ {n}
             /\ \A m \in DOMAIN artifacts' : artifacts'[m] = artifacts[m]
      BY <1>0, <1>3, DeleteArtifactStep
    <2>2. n # latest /\ latest' = latest
      BY <1>0, <1>3, DeleteArtifactStep, CollectorsVictims
    <2>3. CASE n \in DOMAIN artifacts
      <3>1. Archive' = [m \in DOMAIN Archive \ {n} |-> Archive[m]]
        BY <2>1 DEF Archive
      <3>2. n \in DOMAIN Archive \ {latest}
        BY <2>2, <2>3, ArchiveHolds
      <3> QED
        BY <2>2, <3>1, <3>2 DEF Log!Collect, Archive
    <2>4. CASE n \notin DOMAIN artifacts
      BY <2>1, <2>2, <2>4 DEF Archive
    <2> QED
      BY <2>3, <2>4
  <1>4. ASSUME NEW o \in Operators, RollbackPut(o) PROVE Log!Serve
    <2>1. latest' \in DOMAIN artifacts /\ artifacts' = artifacts
      BY <1>4 DEF RollbackPut, SafeInv, TargetsAreArchived
    <2> QED
      BY <2>1, ArchiveHolds DEF Log!Serve, Archive
  <1>5. CASE UNCHANGED <<artifacts, latest>>
    BY <1>5 DEF Archive
  <1>6. ASSUME NEW b \in Builders, Run(b) \/ Fail(b)
        PROVE  Log!Next \/ UNCHANGED <<Archive, latest>>
    BY <1>1, <1>2, <1>3, <1>5, <1>6, QuietBuilderStep DEF Writes, Log!Next
  <1>7. ASSUME NEW o \in Operators, Operate(o)
        PROVE  Log!Next \/ UNCHANGED <<Archive, latest>>
    BY <1>0, <1>4, <1>5, <1>7, QuietOperatorStep, OperatorStep DEF Log!Next
  <1> QED
    BY <1>5, <1>6, <1>7, WhoSteps, OtherStep DEF store

\* What readers of the store rely on: an archive that only ever gains an
\* execution that adds one snapshot to an archived one, loses one that is
\* not served, or is left alone while the pointer moves inside it.
THEOREM ImplementsLog == ASSUME Guarded PROVE Spec => LogSpec
  <1>1. SafeInv /\ [Next]_vars => [Log!Next]_<<Archive, latest>>
    BY LogNext
  <1>2. SafeInv /\ [Next]_vars => [Log!Next]_(Log!vars)
    BY <1>1 DEF Log!vars, Archive
  <1> QED
    BY <1>2, Safe, LogInit, PTL DEF Spec, LogSpec, Log!Spec
=============================================================================
