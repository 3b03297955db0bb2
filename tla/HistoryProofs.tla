---------------------------- MODULE HistoryProofs ----------------------------
(***************************************************************************)
(* More theorems about Publication, on top of the safety invariant of      *)
(* PublicationProofs: what summaries tell, how runs compete for a number,  *)
(* and what rollback, release and publishing do to the served history.     *)
(***************************************************************************)
EXTENDS PublicationProofs, FiniteSetTheorems

-----------------------------------------------------------------------------
(* Run summaries. One that outlives its artifact (a collector that died    *)
(* between its two deletes) never meets another execution of its number.   *)

SummaryInv ==
    \A n \in DOMAIN summaries :
        /\ n \in DOMAIN history
        /\ summaries[n] = history[n][Len(history[n])]

LEMMA SummaryInit == Init => SummaryInv
  BY DEF Init, SummaryInv

\* What a summary needs of the archive.
Catalogued ==
    /\ IndType
    /\ WriterOwnsNumber
    /\ NumberNamesOneCatalog
    /\ DOMAIN artifacts \subseteq DOMAIN history

LEMMA SafeIsCatalogued == SafeInv => Catalogued
  BY DEF SafeInv, Catalogued, NumbersAreRemembered

\* The number a run narrates is the one it has published under.
LEMMA WriteSummaryStep ==
    ASSUME Catalogued, NEW b \in Builders, WriteSummary(b)
    PROVE  \/ summaries' = summaries
           \/ /\ num[b] \in DOMAIN history
              /\ DOMAIN summaries' = DOMAIN summaries \cup {num[b]}
              /\ \A n \in DOMAIN summaries : summaries'[n] = summaries[n]
              /\ summaries'[num[b]] = history[num[b]][Len(history[num[b]])]
  <1> DEFINE told == work[b][Len(work[b])]
  <1>1. /\ num[b] \in DOMAIN artifacts
        /\ artifacts[num[b]].lineage = work[b]
    BY DEF WriteSummary, Catalogued, WriterOwnsNumber, Published
  <1>2. num[b] \in DOMAIN history /\ history[num[b]] = work[b]
    BY <1>1 DEF Catalogued, NumberNamesOneCatalog
  <1> HIDE DEF told
  <1>3. CASE /\ num[b] \notin DOMAIN summaries
             /\ summaries' = With(summaries, num[b], told)
    BY <1>2, <1>3 DEF With, told
  <1> QED
    BY <1>3 DEF WriteSummary, SummaryNumber, told

LEMMA SummaryNext ==
    ASSUME Catalogued, SummaryInv, [Next]_vars
    PROVE  SummaryInv'
  <1> USE DEF SummaryInv
  <1>0. Tables
    BY TablesHold DEF Catalogued
  <1>1. ASSUME UNCHANGED <<summaries, history>> PROVE SummaryInv'
    BY <1>1
  <1>2. ASSUME NEW b \in Builders, PutArtifact(b) PROVE SummaryInv'
    BY <1>0, <1>2, PutArtifactStep DEF PutArtifact
  <1>3. ASSUME NEW b \in Builders, WriteSummary(b) PROVE SummaryInv'
    <2>1. history' = history
      BY <1>3 DEF WriteSummary
    <2> QED
      BY <1>3, <2>1, WriteSummaryStep
  <1>4. ASSUME NEW b \in Builders, DeleteSummary(b) PROVE SummaryInv'
    BY <1>4 DEF DeleteSummary, Without
  <1>5. ASSUME NEW b \in Builders, Run(b) \/ Fail(b), ~PutArtifact(b),
               ~WriteSummary(b), ~DeleteSummary(b)
        PROVE  UNCHANGED <<summaries, history>>
    BY <1>5
    DEF Run, ReadLatest, Download, Commit, Compact, ListExecutions, PutLatest,
        ListGarbage, DeleteArtifact, FinishRun, Bail, Fail, store
  <1>6. ASSUME NEW o \in Operators, Operate(o)
        PROVE  UNCHANGED <<summaries, history>>
    BY <1>6
    DEF Operate, RollbackList, RollbackChoose, RollbackCheck, RollbackPut,
        ReleaseOpen, ReleaseWrite, GiveUp, store
  <1>7. CASE Ship \/ Tick \/ UNCHANGED vars
    BY <1>1, <1>7, OtherStep DEF store
  <1> QED
    BY <1>1, <1>2, <1>3, <1>4, <1>5, <1>6, <1>7, WhoSteps

\* A summary tells of the run that built the artifact of its number, when
\* nothing is collected or commands do not overlap.
THEOREM SummariesAreTrue ==
    ASSUME Guarded PROVE Spec => []SummaryTellsOfArtifact
  <1>1. SafeInv /\ SummaryInv => SummaryTellsOfArtifact
    BY DEF SafeInv, SummaryInv, NumberNamesOneCatalog, SummaryTellsOfArtifact
  <1>2. SafeInv /\ SummaryInv /\ [Next]_vars => SummaryInv'
    BY SummaryNext, SafeIsCatalogued
  <1> QED
    BY <1>1, <1>2, Safe, SummaryInit, PTL DEF Spec

-----------------------------------------------------------------------------
(* One run at a time, because commands do not overlap or because there is  *)
(* one Builder. Only Builders create artifacts, so the number that the run *)
(* has allocated stays free until it is used, at the first attempt.        *)

OneAtATime == ~Overlap \/ \A b, c \in Builders : b = c

AloneInv ==
    /\ IndType
    /\ IsFiniteSet(DOMAIN artifacts)
    /\ ~Overlap => Exclusive
    /\ LoneBuilderNeverCollides
    /\ \A b \in Builders :
          pc[b] \in {"compact", "list"} => tries[b] = MaxAttempts

LEMMA AloneInit == Init => AloneInv
  <1> SUFFICES ASSUME Init PROVE AloneInv
    OBVIOUS
  <1>1. IndType
    BY TypeInit
  <1>2. IsFiniteSet(DOMAIN artifacts)
    BY FS_EmptySet DEF Init
  <1> QED
    BY <1>1, <1>2 DEF Init, AloneInv, Exclusive, LoneBuilderNeverCollides

\* While one Builder is inside a run, the others are idle.
LEMMA OthersAreIdle ==
    ASSUME OneAtATime, AloneInv, NEW b \in Builders, Run(b) \/ Fail(b)
    PROVE  \A c \in Builders \ {b} : pc[c] = "idle" /\ pc'[c] = "idle"
  <1>1. Tables
    BY TablesHold DEF AloneInv
  <1> QED
    BY <1>1, BuilderStep DEF OneAtATime, AloneInv, Exclusive, MayStart, Quiet

\* The number allocated is free, and used at once.
LEMMA AloneStep ==
    ASSUME OneAtATime, AloneInv, NEW b \in Builders, Run(b) \/ Fail(b)
    PROVE  /\ pc'[b] = "put" => num'[b] \notin DOMAIN artifacts'
           /\ pc'[b] \in {"compact", "list"} => tries'[b] = MaxAttempts
  <1> USE DEF AloneInv, LoneBuilderNeverCollides
  <1>0. /\ Tables
        /\ tries \in [Builders -> 0..MaxAttempts]
        /\ DOMAIN artifacts \subseteq Nat
    BY TablesHold DEF IndType, Typed, TypeOK, Executions
  <1>1. CASE ListExecutions(b)
    <2>1. PICK last \in DOMAIN artifacts \cup {NoExecution} :
             /\ \A n \in DOMAIN artifacts : n <= last
             /\ num' = [num EXCEPT ![b] = last + 1]
      BY <1>1 DEF ListExecutions, NextNumber
    <2>2. last \in Nat /\ last + 1 \notin DOMAIN artifacts
      BY <1>0, <2>1 DEF NoExecution
    <2>3. num'[b] = last + 1 /\ artifacts' = artifacts /\ pc'[b] = "put"
      BY <1>0, <1>1, <2>1 DEF ListExecutions, store, Tables
    <2> QED
      BY <2>2, <2>3
  <1>2. CASE PutArtifact(b)
    <2>1. pc'[b] = "point"
      BY <1>0, <1>2 DEF PutArtifact, Creates, Tables
    <2> QED
      BY <2>1
  <1>3. CASE Commit(b) \/ Compact(b)
    BY <1>0, <1>3 DEF Commit, Compact, Tables
  <1>4. CASE ~ListExecutions(b) /\ ~PutArtifact(b) /\ ~Commit(b) /\ ~Compact(b)
    <2>1. pc'[b] \notin {"put", "compact", "list"}
      BY <1>0, <1>4
      DEF Run, ReadLatest, Download, PutLatest, WriteSummary, ListGarbage,
          DeleteArtifact, DeleteSummary, FinishRun, Bail, Fail, Exit, Tables
    <2> QED
      BY <2>1
  <1> QED
    BY <1>1, <1>2, <1>3, <1>4

\* A step creates or deletes one artifact at most.
LEMMA ArchiveStaysFinite ==
    ASSUME Tables, IsFiniteSet(DOMAIN artifacts), [Next]_vars
    PROVE  IsFiniteSet(DOMAIN artifacts')
  <1>1. ASSUME NEW n, DOMAIN artifacts' = DOMAIN artifacts \cup {n}
        PROVE  IsFiniteSet(DOMAIN artifacts')
    BY <1>1, FS_AddElement
  <1>2. ASSUME NEW n, DOMAIN artifacts' = DOMAIN artifacts \ {n}
        PROVE  IsFiniteSet(DOMAIN artifacts')
    BY <1>2, FS_RemoveElement
  <1>3. ASSUME NEW b \in Builders, Run(b) \/ Fail(b)
        PROVE  IsFiniteSet(DOMAIN artifacts')
    <2>1. CASE PutArtifact(b)
      BY <1>1, <2>1, PutArtifactStep
    <2>2. CASE DeleteArtifact(b)
      BY <1>2, <2>2, DeleteArtifactStep
    <2>3. CASE ~PutArtifact(b) /\ ~DeleteArtifact(b)
      BY <1>3, <2>3, PutLatestStep, QuietBuilderStep DEF Writes
    <2> QED
      BY <2>1, <2>2, <2>3
  <1> QED
    BY <1>3, WhoSteps, OperatorStep, OtherStep DEF store

LEMMA AloneInvNext ==
    ASSUME OneAtATime, AloneInv, [Next]_vars
    PROVE  AloneInv'
  <1>0. Tables
    BY TablesHold DEF AloneInv
  <1>1. /\ IndType' /\ (~Overlap => Exclusive')
        /\ IsFiniteSet(DOMAIN artifacts')
    BY <1>0, TypeNext, ExclusiveNext, ArchiveStaysFinite DEF AloneInv
  <1>2. ASSUME NEW b \in Builders, Run(b) \/ Fail(b) PROVE AloneInv'
    BY <1>1, <1>2, AloneStep, OthersAreIdle
    DEF AloneInv, LoneBuilderNeverCollides
  <1>3. CASE UNCHANGED <<artifacts, builderVars>>
    BY <1>1, <1>3 DEF AloneInv, LoneBuilderNeverCollides, builderVars
  <1> QED
    BY <1>0, <1>2, <1>3, WhoSteps, OperatorStep, OtherStep DEF store

LEMMA Alone == ASSUME OneAtATime PROVE Spec => []AloneInv
  <1>1. AloneInv /\ [Next]_vars => AloneInv'
    BY AloneInvNext
  <1> QED
    BY <1>1, AloneInit, PTL DEF Spec

\* A Builder that has the cell to itself always finds its number free,
\* whatever operators do meanwhile and whatever is collected.
THEOREM LoneBuilderIsNeverWedged ==
    ASSUME OneAtATime PROVE Spec => []LoneBuilderNeverCollides
  <1>1. AloneInv => LoneBuilderNeverCollides
    BY DEF AloneInv
  <1> QED
    BY <1>1, Alone, PTL

\* The executions a Builder has not built on.
Newer(b) == {n \in DOMAIN artifacts : n > seen[b]}

\* Such a Builder never gives up: a run that does was outrun by another one.
THEOREM RunsAloneNeverGiveUp ==
    ASSUME OneAtATime
    PROVE  /\ Spec => [](\A b \in Builders : ~(pc[b] = "list" /\ tries[b] = 0))
           /\ Spec => []GivesUpOnlyWhenOutrun
  <1> DEFINE Never == \A b \in Builders : ~(pc[b] = "list" /\ tries[b] = 0)
  <1>1. AloneInv => Never
    BY DEF AloneInv, MaxAttempts
  <1>2. AloneInv => GivesUpOnlyWhenOutrun
    <2> SUFFICES ASSUME AloneInv, NEW b \in Builders, pc[b] = "list"
                 PROVE  MaxAttempts - tries[b] <= Cardinality(Newer(b))
      BY DEF GivesUpOnlyWhenOutrun, Newer
    <2>1. Cardinality(Newer(b)) \in Nat
      BY FS_Subset, FS_CardinalityType DEF AloneInv, Newer
    <2> QED
      BY <2>1 DEF AloneInv, MaxAttempts
  <1> QED
    BY <1>1, <1>2, Alone, PTL

-----------------------------------------------------------------------------
(* A Builder alone among operators, with collection on and commands that   *)
(* overlap. Only LATEST can suffer there: the only one who collects is the *)
(* one who allocates, and it spares its own number, the highest of all.    *)

HighestIsKept ==
    /\ DOMAIN artifacts \subseteq DOMAIN history
    /\ \A n \in DOMAIN history : \E m \in DOMAIN artifacts : n <= m
    /\ \A b \in Builders :
          /\ pc[b] \in Collecting => Collects /\ num[b] \notin victims[b]
          /\ pc[b] = "put" => \A n \in DOMAIN history : n < num[b]
          /\ pc[b] \in Published => \A n \in DOMAIN history : n <= num[b]

LoneInv == Catalogued /\ HighestIsKept

LEMMA LoneInit == Init => LoneInv
  <1> SUFFICES ASSUME Init PROVE LoneInv
    OBVIOUS
  <1>1. IndType
    BY TypeInit
  <1> QED
    BY <1>1
    DEF Init, LoneInv, Catalogued, HighestIsKept, WriterOwnsNumber,
        NumberNamesOneCatalog, Published, Collecting

\* The allocated number is above every number ever used.
LEMMA ListExecutionsStep ==
    ASSUME IndType, NEW b \in Builders, ListExecutions(b),
           \A n \in DOMAIN history : \E m \in DOMAIN artifacts : n <= m
    PROVE  /\ UNCHANGED <<artifacts, history>>
           /\ pc'[b] = "put"
           /\ \A n \in DOMAIN history : n < num'[b]
  <1>0. /\ Tables
        /\ DOMAIN artifacts \subseteq Nat /\ DOMAIN history \subseteq Nat
    BY TablesHold DEF IndType, Typed, TypeOK, Executions
  <1>1. PICK last \in DOMAIN artifacts \cup {NoExecution} :
           /\ \A n \in DOMAIN artifacts : n <= last
           /\ num' = [num EXCEPT ![b] = last + 1]
    BY DEF ListExecutions, NextNumber
  <1>2. num'[b] = last + 1 /\ last \in Nat
    BY <1>0, <1>1 DEF Tables, NoExecution
  <1>3. ASSUME NEW n \in DOMAIN history PROVE n < num'[b]
    <2>1. PICK m \in DOMAIN artifacts : n <= m
      OBVIOUS
    <2> QED
      BY <1>0, <1>1, <1>2, <2>1
  <1> QED
    BY <1>0, <1>3 DEF ListExecutions, store, Tables

LEMMA LonePut ==
    ASSUME NEW b, Builders = {b}, LoneInv, PutArtifact(b)
    PROVE  WriterOwnsNumber' /\ NumberNamesOneCatalog' /\ HighestIsKept'
  <1>0. /\ Tables
        /\ num[b] \in Nat
        /\ \A n \in DOMAIN history : n \in Nat /\ n < num[b]
    BY PutArtifactStep, TablesHold
    DEF LoneInv, Catalogued, HighestIsKept, IndType, Typed, TypeOK, Executions, Tables
  <1>1. CASE UNCHANGED <<artifacts, history>> /\ pc'[b] = "list"
    BY <1>0, <1>1
    DEF LoneInv, Catalogued, HighestIsKept, WriterOwnsNumber,
        NumberNamesOneCatalog, Published, Collecting
  <1>2. CASE /\ UNCHANGED <<latest, work, num, victims>>
             /\ pc'[b] = "point"
             /\ DOMAIN artifacts' = DOMAIN artifacts \cup {num[b]}
             /\ \A n \in DOMAIN artifacts : artifacts'[n] = artifacts[n]
             /\ artifacts'[num[b]].lineage = work[b]
             /\ DOMAIN history' = DOMAIN history \cup {num[b]}
             /\ \A n \in DOMAIN history : history'[n] = history[n]
             /\ num[b] \notin DOMAIN history => history'[num[b]] = work[b]
    <2>1. num[b] \notin DOMAIN history
      BY <1>0
    <2>2. WriterOwnsNumber'
      BY <1>2 DEF WriterOwnsNumber
    <2>3. NumberNamesOneCatalog'
      BY <1>2, <2>1
      DEF LoneInv, Catalogued, HighestIsKept, NumberNamesOneCatalog
    <2>4. DOMAIN artifacts' \subseteq DOMAIN history'
      BY <1>2 DEF LoneInv, HighestIsKept
    <2>5. \A n \in DOMAIN history' : n <= num'[b]
      BY <1>0, <1>2
    <2>6. num'[b] \in DOMAIN artifacts'
      BY <1>2
    <2>7. pc'[b] # "put" /\ pc'[b] \notin Collecting
      BY <1>2 DEF Collecting
    <2> QED
      BY <2>2, <2>3, <2>4, <2>5, <2>6, <2>7 DEF HighestIsKept
  <1> QED
    BY <1>0, <1>1, <1>2, PutArtifactStep

LEMMA LoneDelete ==
    ASSUME NEW b, Builders = {b}, LoneInv, DeleteArtifact(b)
    PROVE  WriterOwnsNumber' /\ NumberNamesOneCatalog' /\ HighestIsKept'
  <1>0. Tables
    BY TablesHold DEF LoneInv, Catalogued
  <1>1. /\ UNCHANGED <<latest, history, work, num>>
        /\ pc[b] = "collect"
        /\ pc'[b] = "collectSummary"
    BY <1>0, DeleteArtifactStep
  <1>2. PICK n \in victims[b] :
           /\ victims'[b] = victims[b] \ {n}
           /\ DOMAIN artifacts' = DOMAIN artifacts \ {n}
           /\ \A m \in DOMAIN artifacts' : artifacts'[m] = artifacts[m]
    BY <1>0, DeleteArtifactStep
  <1>3. /\ Collects /\ num[b] \notin victims[b]
        /\ \A m \in DOMAIN history : m <= num[b]
        /\ num[b] \in DOMAIN artifacts
        /\ artifacts[num[b]].lineage = work[b]
    BY <1>1
    DEF LoneInv, Catalogued, HighestIsKept, WriterOwnsNumber, Published,
        Collecting
  <1>4. num[b] \in DOMAIN artifacts' /\ num[b] \notin victims'[b]
    BY <1>2, <1>3
  <1>5. WriterOwnsNumber'
    BY <1>1, <1>2, <1>3, <1>4 DEF WriterOwnsNumber
  <1>6. NumberNamesOneCatalog'
    BY <1>1, <1>2 DEF LoneInv, Catalogued, NumberNamesOneCatalog
  <1>7. DOMAIN artifacts' \subseteq DOMAIN history'
    BY <1>1, <1>2 DEF LoneInv, HighestIsKept
  <1>8. pc'[b] # "put"
    BY <1>1
  <1> QED
    BY <1>1, <1>3, <1>4, <1>5, <1>6, <1>7, <1>8 DEF HighestIsKept

\* Every other step of the Builder leaves the archive alone.
LEMMA LoneQuiet ==
    ASSUME NEW b, Builders = {b}, LoneInv, Run(b) \/ Fail(b),
           ~PutArtifact(b), ~DeleteArtifact(b)
    PROVE  WriterOwnsNumber' /\ NumberNamesOneCatalog' /\ HighestIsKept'
  <1>0. Tables
    BY TablesHold DEF LoneInv, Catalogued
  <1>1. UNCHANGED <<artifacts, history>>
    BY <1>0, QuietBuilderStep, PutLatestStep DEF Writes
  <1>2. WriterOwnsNumber'
    BY <1>0, <1>1, StillPublished DEF LoneInv, Catalogued, WriterOwnsNumber
  <1>3. NumberNamesOneCatalog'
    BY <1>1 DEF LoneInv, Catalogued, NumberNamesOneCatalog
  <1>4. pc'[b] \in Collecting => Collects /\ num'[b] \notin victims'[b]
    BY <1>0, SparesItsOwn DEF LoneInv, HighestIsKept
  <1>5. pc'[b] \in Published => \A n \in DOMAIN history' : n <= num'[b]
    BY <1>0, <1>1, StillPublished DEF LoneInv, HighestIsKept
  <1>6. pc'[b] = "put" => \A n \in DOMAIN history' : n < num'[b]
    <2>1. CASE ListExecutions(b)
      BY <2>1, ListExecutionsStep DEF LoneInv, Catalogued, HighestIsKept
    <2>2. CASE ~ListExecutions(b)
      <3>1. pc'[b] # "put"
        BY <1>0, <2>2
        DEF Run, ReadLatest, Download, Commit, Compact, PutLatest, WriteSummary,
            ListGarbage, DeleteSummary, FinishRun, Bail, Fail, Exit, Tables
      <3> QED
        BY <3>1
    <2> QED
      BY <2>1, <2>2
  <1> QED
    BY <1>1, <1>2, <1>3, <1>4, <1>5, <1>6 DEF LoneInv, HighestIsKept

LEMMA LoneInvNext ==
    ASSUME NEW b, Builders = {b}, LoneInv, [Next]_vars
    PROVE  LoneInv'
  <1>0. IndType /\ Tables
    BY TablesHold DEF LoneInv, Catalogued
  <1>1. IndType'
    BY <1>0, TypeNext
  <1>2. CASE Run(b) \/ Fail(b)
    BY <1>1, <1>2, LonePut, LoneDelete, LoneQuiet
    DEF LoneInv, Catalogued, HighestIsKept
  <1>3. CASE UNCHANGED <<artifacts, history, builderVars>>
    BY <1>1, <1>3
    DEF builderVars, LoneInv, Catalogued, HighestIsKept, WriterOwnsNumber,
        NumberNamesOneCatalog
  <1> QED
    BY <1>0, <1>2, <1>3, WhoSteps, OperatorStep, OtherStep DEF store

LEMMA Lone == ASSUME NEW b, Builders = {b} PROVE Spec => []LoneInv
  <1>1. LoneInv /\ [Next]_vars => LoneInv'
    BY LoneInvNext
  <1> QED
    BY <1>1, LoneInit, PTL DEF Spec

\* What is stored under the number of a Builder that has the cell to itself is
\* its own catalog, however operators interfere and whatever is collected.
THEOREM LoneBuilderOwnsItsNumber ==
    ASSUME NEW b, Builders = {b} PROVE Spec => []WriterOwnsNumber
  <1>1. LoneInv => WriterOwnsNumber
    BY DEF LoneInv, Catalogued
  <1> QED
    BY <1>1, Lone, PTL

\* The numbers of such a cell name one catalog for ever: a rollback, even one
\* to an execution that is being collected, brings none of them back.
THEOREM LoneNumbersAreStable ==
    ASSUME NEW b, Builders = {b} PROVE Spec => []NumberNamesOneCatalog
  <1>1. LoneInv => NumberNamesOneCatalog
    BY DEF LoneInv, Catalogued
  <1> QED
    BY <1>1, Lone, PTL

\* The summaries of such a cell tell of the run that built the artifact of
\* their number.
THEOREM LoneSummariesAreTrue ==
    ASSUME NEW b, Builders = {b} PROVE Spec => []SummaryTellsOfArtifact
  <1>1. LoneInv /\ SummaryInv => SummaryTellsOfArtifact
    BY DEF LoneInv, Catalogued, SummaryInv, NumberNamesOneCatalog,
           SummaryTellsOfArtifact
  <1>2. LoneInv /\ SummaryInv /\ [Next]_vars => SummaryInv'
    BY SummaryNext DEF LoneInv
  <1> QED
    BY <1>1, <1>2, Lone, SummaryInit, PTL DEF Spec

-----------------------------------------------------------------------------
(* Several Builders with collection on and commands that overlap. Without  *)
(* an assumption about time nothing holds: a Builder that stands still     *)
(* between two of its PUTs has its artifact collected by another one, and  *)
(* its number is taken again. No number is, as long as no run outlives the *)
(* window: what is stored under its number, or a later one, has been put   *)
(* after the run listed the archive, and is younger than the window until  *)
(* the run is over.                                                        *)

InTime ==
    Collects =>
        \A b \in Builders : pc[b] \in Numbered =>
            \A n \in DOMAIN artifacts :
                n >= num[b] => artifacts[n].mtime >= clock - Retention

\* What no collector has, or is about to delete.
Spared(n) == n \in DOMAIN artifacts /\ \A c \in Builders : n \notin victims[c]

SparedInv ==
    /\ \A c \in Builders : victims[c] \subseteq DOMAIN history
    /\ \A n \in DOMAIN history : \E m \in DOMAIN history : n <= m /\ Spared(m)
    /\ \A b \in Builders : pc[b] \in Numbered =>
          \A n \in DOMAIN history : n >= num[b] => Spared(n)

TimelyInv == Catalogued /\ SparedInv

LEMMA TimelyInit == Init => TimelyInv
  <1> SUFFICES ASSUME Init PROVE TimelyInv
    OBVIOUS
  <1>1. IndType
    BY TypeInit
  <1> QED
    BY <1>1
    DEF Init, TimelyInv, Catalogued, SparedInv, WriterOwnsNumber,
        NumberNamesOneCatalog, Published, Numbered

LEMMA NumbersAreNumbers ==
    ASSUME IndType
    PROVE  /\ Tables
           /\ DOMAIN artifacts \subseteq Nat /\ DOMAIN history \subseteq Nat
           /\ \A b \in Builders : num[b] \in Nat
           /\ clock \in Int /\ Retention \in Int
           /\ \A n \in DOMAIN artifacts : artifacts[n].mtime \in Int
  BY TablesHold, ModeAssumption DEF IndType, Typed, TypeOK, Executions, Artifacts

\* What is spared stays so while the archive stays, no collector has more
\* victims, and no Builder has a number that it had not.
LEMMA SparedStays ==
    ASSUME SparedInv, UNCHANGED <<artifacts, history>>,
           \A c \in Builders : victims'[c] \subseteq victims[c],
           \A b \in Builders : pc'[b] \in Numbered =>
              \/ \A n \in DOMAIN history : n < num'[b]
              \/ pc[b] \in Numbered /\ num'[b] = num[b],
           IndType, IndType'
    PROVE  SparedInv'
  <1>1. \A n : Spared(n) => Spared(n)'
    BY DEF Spared
  <1>2. /\ \A n \in DOMAIN history : n \in Nat
        /\ \A b \in Builders : num'[b] \in Nat
    BY NumbersAreNumbers DEF IndType, Typed, TypeOK
  <1>3. ASSUME NEW b \in Builders, pc'[b] \in Numbered,
               NEW n \in DOMAIN history, n >= num'[b]
        PROVE  Spared(n)'
    BY <1>1, <1>2, <1>3 DEF SparedInv
  <1> QED
    BY <1>1, <1>3 DEF SparedInv

\* A number is free when it is used for the first time, since what has been
\* stored under it since the listing would still be there.
LEMMA TimelyPut ==
    ASSUME TimelyInv, IndType', NEW b \in Builders, PutArtifact(b)
    PROVE  TimelyInv'
  <1>0. /\ Tables /\ DOMAIN history \subseteq Nat
        /\ \A c \in Builders : num[c] \in Nat
    BY NumbersAreNumbers DEF TimelyInv, Catalogued
  <1>1. /\ pc[b] = "put" /\ num' = num /\ victims' = victims /\ work' = work
        /\ \A c \in Builders \ {b} : pc'[c] = pc[c]
    BY <1>0, PutArtifactStep, BuilderStep DEF Run
  <1>2. CASE UNCHANGED <<artifacts, history>> /\ pc'[b] = "list"
    <2>1. SparedInv'
      BY <1>1, <1>2, SparedStays
      DEF TimelyInv, Catalogued, Numbered, Published
    <2>2. WriterOwnsNumber' /\ NumberNamesOneCatalog'
      BY <1>1, <1>2
      DEF TimelyInv, Catalogued, WriterOwnsNumber, NumberNamesOneCatalog,
          Published
    <2> QED
      BY <1>2, <2>1, <2>2 DEF TimelyInv, Catalogued
  <1>3. CASE /\ num[b] \notin DOMAIN artifacts
             /\ pc'[b] = "point"
             /\ DOMAIN artifacts' = DOMAIN artifacts \cup {num[b]}
             /\ \A n \in DOMAIN artifacts : artifacts'[n] = artifacts[n]
             /\ artifacts'[num[b]].lineage = work[b]
             /\ DOMAIN history' = DOMAIN history \cup {num[b]}
             /\ \A n \in DOMAIN history : history'[n] = history[n]
             /\ num[b] \notin DOMAIN history => history'[num[b]] = work[b]
    <2>1. num[b] \notin DOMAIN history
      BY <1>0, <1>1, <1>3 DEF TimelyInv, SparedInv, Spared, Numbered
    <2>2. \A c \in Builders : num[b] \notin victims[c]
      BY <2>1 DEF TimelyInv, SparedInv
    <2>3. Spared(num[b])' /\ \A n : Spared(n) => Spared(n)'
      BY <1>1, <1>3, <2>2 DEF Spared
    <2>4. \A c \in Builders : victims'[c] \subseteq DOMAIN history'
      BY <1>1, <1>3 DEF TimelyInv, SparedInv
    <2>5. ASSUME NEW n \in DOMAIN history'
          PROVE  \E m \in DOMAIN history' : n <= m /\ Spared(m)'
      <3>1. CASE n \in DOMAIN history
        <4>1. PICK m \in DOMAIN history : n <= m /\ Spared(m)
          BY <3>1 DEF TimelyInv, SparedInv
        <4>2. m \in DOMAIN history' /\ Spared(m)'
          BY <1>3, <2>3, <4>1
        <4> QED
          BY <4>1, <4>2
      <3>2. CASE n = num[b]
        BY <1>0, <1>1, <2>3, <3>2
      <3> QED
        BY <1>3, <3>1, <3>2
    <2>6. ASSUME NEW c \in Builders, pc'[c] \in Numbered,
                 NEW n \in DOMAIN history', n >= num'[c]
          PROVE  Spared(n)'
      <3>1. pc[c] \in Numbered
        BY <1>1, <2>6 DEF Numbered
      <3> QED
        BY <1>1, <1>3, <2>3, <2>6, <3>1 DEF TimelyInv, SparedInv
    <2>7. SparedInv'
      BY <2>4, <2>5, <2>6 DEF SparedInv
    <2>8. WriterOwnsNumber'
      BY <1>1, <1>3 DEF TimelyInv, Catalogued, WriterOwnsNumber
    <2>9. NumberNamesOneCatalog' /\ DOMAIN artifacts' \subseteq DOMAIN history'
      BY <1>3, <2>1 DEF TimelyInv, Catalogued, NumberNamesOneCatalog
    <2> QED
      BY <2>7, <2>8, <2>9 DEF TimelyInv, Catalogued
  <1> QED
    BY <1>0, <1>2, <1>3, PutArtifactStep

\* A collector deletes nothing that a run still needs.
LEMMA TimelyDelete ==
    ASSUME TimelyInv, IndType', NEW b \in Builders, DeleteArtifact(b)
    PROVE  TimelyInv'
  <1>0. /\ Tables /\ DOMAIN history \subseteq Nat
        /\ \A c \in Builders : num[c] \in Nat
    BY NumbersAreNumbers DEF TimelyInv, Catalogued
  <1>1. /\ UNCHANGED <<latest, history, work, num>>
        /\ pc[b] = "collect"
        /\ pc'[b] = "collectSummary"
        /\ \A c \in Builders \ {b} : pc'[c] = pc[c] /\ victims'[c] = victims[c]
    BY <1>0, DeleteArtifactStep, BuilderStep DEF Run
  <1>2. PICK n \in victims[b] :
           /\ victims'[b] = victims[b] \ {n}
           /\ DOMAIN artifacts' = DOMAIN artifacts \ {n}
           /\ \A m \in DOMAIN artifacts' : artifacts'[m] = artifacts[m]
    BY <1>0, DeleteArtifactStep
  <1>3. \A c \in Builders : victims'[c] \subseteq victims[c]
    BY <1>1, <1>2
  <1>4. \A m : Spared(m) => Spared(m)'
    BY <1>2, <1>3 DEF Spared
  <1>5. \A c \in Builders : pc'[c] \in Numbered => pc[c] \in Numbered
    BY <1>1 DEF Numbered, Published
  <1>6. SparedInv'
    BY <1>1, <1>3, <1>4, <1>5 DEF TimelyInv, SparedInv
  <1>7. ASSUME NEW c \in Builders, pc'[c] \in Published
        PROVE  /\ num'[c] \in DOMAIN artifacts'
               /\ artifacts'[num'[c]].lineage = work'[c]
    <2>1. /\ pc[c] \in Published
          /\ num[c] \in DOMAIN artifacts
          /\ artifacts[num[c]].lineage = work[c]
      BY <1>1, <1>7 DEF TimelyInv, Catalogued, WriterOwnsNumber, Published
    <2>2. num[c] \in DOMAIN history /\ num[c] >= num[c]
      BY <1>0, <2>1 DEF TimelyInv, Catalogued
    <2>3. Spared(num[c])
      BY <2>1, <2>2 DEF TimelyInv, SparedInv, Numbered
    <2> QED
      BY <1>1, <1>2, <1>4, <2>1, <2>3 DEF Spared
  <1>8. WriterOwnsNumber'
    BY <1>7 DEF WriterOwnsNumber
  <1>9. NumberNamesOneCatalog' /\ DOMAIN artifacts' \subseteq DOMAIN history'
    BY <1>1, <1>2 DEF TimelyInv, Catalogued, NumberNamesOneCatalog
  <1> QED
    BY <1>6, <1>8, <1>9 DEF TimelyInv, Catalogued

\* What is garbage is older than anything that a run in flight has to
\* reckon with, the collecting one among them.
LEMMA TimelyGarbage ==
    ASSUME TimelyInv, InTime, IndType', NEW b \in Builders, ListGarbage(b)
    PROVE  SparedInv'
  <1>0. /\ Tables
        /\ DOMAIN artifacts \subseteq Nat /\ DOMAIN history \subseteq Nat
        /\ \A c \in Builders : num[c] \in Nat
        /\ clock \in Int /\ Retention \in Int
        /\ \A n \in DOMAIN artifacts : artifacts[n].mtime \in Int
    BY NumbersAreNumbers DEF TimelyInv, Catalogued
  <1>1. /\ pc[b] = "gc" /\ pc'[b] = "collect" /\ Collects
        /\ UNCHANGED <<artifacts, history, num>>
        /\ victims'[b] = Garbage(b)
        /\ \A c \in Builders \ {b} : pc'[c] = pc[c] /\ victims'[c] = victims[c]
    BY <1>0, BuilderStep DEF Run, ListGarbage, Tables, store
  <1>2. \A c \in Builders : pc'[c] \in Numbered => pc[c] \in Numbered
    BY <1>1 DEF Numbered, Published
  <1>3. ASSUME NEW c \in Builders, pc[c] \in Numbered,
               NEW n \in DOMAIN artifacts, n >= num[c]
        PROVE  n \notin Garbage(b)
    <2>1. artifacts[n].mtime >= clock - Retention
      BY <1>1, <1>3 DEF InTime
    <2> QED
      BY <1>0, <2>1 DEF Garbage
  <1>4. \A n : Spared(n) /\ n \notin Garbage(b) => Spared(n)'
    BY <1>1 DEF Spared
  <1>5. Garbage(b) \subseteq DOMAIN artifacts
        /\ DOMAIN artifacts \subseteq DOMAIN history
    BY DEF Garbage, TimelyInv, Catalogued
  <1>6. \A c \in Builders : victims'[c] \subseteq DOMAIN history'
    BY <1>1, <1>5 DEF TimelyInv, SparedInv
  <1>7. ASSUME NEW n \in DOMAIN history
        PROVE  \E m \in DOMAIN history : n <= m /\ Spared(m)'
    <2>1. PICK m \in DOMAIN history : n <= m /\ Spared(m)
      BY DEF TimelyInv, SparedInv
    <2>2. CASE m \notin Garbage(b)
      BY <1>4, <2>1, <2>2
    <2>3. CASE m \in Garbage(b)
      <3>1. num[b] \in DOMAIN history /\ m < num[b]
        <4>1. pc[b] \in Numbered /\ pc[b] \in Published
          BY <1>1 DEF Numbered, Published
        <4>2. num[b] \in DOMAIN artifacts
          BY <4>1 DEF TimelyInv, Catalogued, WriterOwnsNumber
        <4>3. ~(m >= num[b])
          BY <1>3, <1>5, <2>3, <4>1
        <4> QED
          BY <1>0, <1>5, <4>2, <4>3
      <3>2. PICK k \in DOMAIN history : num[b] <= k /\ Spared(k)
        BY <3>1 DEF TimelyInv, SparedInv
      <3>3. k \notin Garbage(b)
        BY <1>0, <1>1, <1>3, <3>2 DEF Spared, Numbered, Published
      <3>4. n <= k
        BY <1>0, <2>1, <3>1, <3>2
      <3> QED
        BY <1>4, <3>2, <3>3, <3>4
    <2> QED
      BY <2>2, <2>3
  <1>8. ASSUME NEW c \in Builders, pc'[c] \in Numbered,
               NEW n \in DOMAIN history, n >= num[c]
        PROVE  Spared(n)'
    <2>1. pc[c] \in Numbered /\ Spared(n)
      BY <1>2, <1>8 DEF TimelyInv, SparedInv
    <2> QED
      BY <1>3, <1>4, <1>8, <2>1 DEF Spared
  <1> QED
    BY <1>1, <1>6, <1>7, <1>8 DEF SparedInv

\* The other steps of a Builder.
LEMMA TimelyQuiet ==
    ASSUME TimelyInv, InTime, IndType', NEW b \in Builders, Run(b) \/ Fail(b),
           ~PutArtifact(b), ~DeleteArtifact(b)
    PROVE  TimelyInv'
  <1>0. IndType /\ Tables
    BY NumbersAreNumbers DEF TimelyInv, Catalogued
  <1>1. UNCHANGED <<artifacts, history>>
    BY <1>0, QuietBuilderStep, PutLatestStep DEF Writes
  <1>2. \A c \in Builders \ {b} : /\ pc'[c] = pc[c] /\ num'[c] = num[c]
                                  /\ work'[c] = work[c]
                                  /\ victims'[c] = victims[c]
    BY <1>0, BuilderStep
  <1>3. WriterOwnsNumber' /\ NumberNamesOneCatalog'
    <2>1. \A c \in Builders : pc'[c] \in Published =>
             pc[c] \in Published /\ num'[c] = num[c] /\ work'[c] = work[c]
      BY <1>0, <1>2, StillPublished
    <2> QED
      BY <1>1, <2>1
      DEF TimelyInv, Catalogued, WriterOwnsNumber, NumberNamesOneCatalog
  <1>4. SparedInv'
    <2>1. CASE ListGarbage(b)
      BY <2>1, TimelyGarbage
    <2>2. CASE ~ListGarbage(b)
      <3>1. victims'[b] \subseteq victims[b]
        BY <1>0, <2>2
        DEF Run, ReadLatest, Download, Commit, Compact, ListExecutions, PutLatest,
            WriteSummary, DeleteSummary, FinishRun, Bail, Fail, Exit, Tables
      <3>2. pc'[b] \in Numbered =>
               \/ \A n \in DOMAIN history : n < num'[b]
               \/ pc[b] \in Numbered /\ num'[b] = num[b]
        <4>1. CASE ListExecutions(b)
          <5>1. \A n \in DOMAIN history : \E m \in DOMAIN artifacts : n <= m
            BY DEF TimelyInv, SparedInv, Spared
          <5> QED
            BY <1>0, <4>1, <5>1, ListExecutionsStep
        <4>2. CASE ~ListExecutions(b)
          <5>1. pc'[b] # "put"
            BY <1>0, <4>2
            DEF Run, ReadLatest, Download, Commit, Compact, PutLatest, WriteSummary,
                ListGarbage, DeleteSummary, FinishRun, Bail, Fail, Exit, Tables
          <5> QED
            BY <1>0, <5>1, StillPublished DEF Numbered
        <4> QED
          BY <4>1, <4>2
      <3>3. /\ \A c \in Builders : victims'[c] \subseteq victims[c]
            /\ \A c \in Builders : pc'[c] \in Numbered =>
                  \/ \A n \in DOMAIN history : n < num'[c]
                  \/ pc[c] \in Numbered /\ num'[c] = num[c]
        BY <1>2, <3>1, <3>2
      <3> QED
        BY <1>0, <1>1, <3>3, SparedStays DEF TimelyInv
    <2> QED
      BY <2>1, <2>2
  <1> QED
    BY <1>1, <1>3, <1>4 DEF TimelyInv, Catalogued

LEMMA TimelyNext ==
    ASSUME TimelyInv, InTime, [Next]_vars
    PROVE  TimelyInv'
  <1>0. IndType /\ Tables
    BY TablesHold DEF TimelyInv, Catalogued
  <1>1. IndType'
    BY <1>0, TypeNext
  <1>2. ASSUME NEW b \in Builders, Run(b) \/ Fail(b) PROVE TimelyInv'
    BY <1>1, <1>2, TimelyPut, TimelyDelete, TimelyQuiet
  <1>3. CASE UNCHANGED <<artifacts, history, builderVars>>
    <2>1. WriterOwnsNumber' /\ NumberNamesOneCatalog'
      BY <1>3
      DEF builderVars, TimelyInv, Catalogued, WriterOwnsNumber,
          NumberNamesOneCatalog
    <2>2. SparedInv'
      BY <1>0, <1>1, <1>3, SparedStays DEF builderVars, TimelyInv
    <2> QED
      BY <1>1, <1>3, <2>1, <2>2 DEF TimelyInv, Catalogued
  <1> QED
    BY <1>0, <1>2, <1>3, WhoSteps, OperatorStep, OtherStep DEF store

LEMMA Timely == Spec /\ []InTime => []TimelyInv
  <1>1. TimelyInv /\ InTime /\ [Next]_vars => TimelyInv'
    BY TimelyNext
  <1> QED
    BY <1>1, TimelyInit, PTL DEF Spec

\* Any number of Builders, collecting and overlapping: if no run outlives the
\* window, an execution number names one catalog for ever.
THEOREM TimelyNumbersAreStable == Spec /\ []InTime => []NumberNamesOneCatalog
  <1>1. TimelyInv => NumberNamesOneCatalog
    BY DEF TimelyInv, Catalogued
  <1> QED
    BY <1>1, Timely, PTL

\* And what is stored under a run's number is its own catalog until it ends.
THEOREM TimelyBuildersOwnTheirNumbers ==
    Spec /\ []InTime => []WriterOwnsNumber
  <1>1. TimelyInv => WriterOwnsNumber
    BY DEF TimelyInv, Catalogued
  <1> QED
    BY <1>1, Timely, PTL

\* And a summary tells of the run that built the artifact of its number.
THEOREM TimelySummariesAreTrue ==
    Spec /\ []InTime => []SummaryTellsOfArtifact
  <1>1. TimelyInv /\ SummaryInv => SummaryTellsOfArtifact
    BY DEF TimelyInv, Catalogued, SummaryInv, NumberNamesOneCatalog,
           SummaryTellsOfArtifact
  <1>2. TimelyInv /\ SummaryInv /\ [Next]_vars => SummaryInv'
    BY SummaryNext DEF TimelyInv
  <1> QED
    BY <1>1, <1>2, Timely, SummaryInit, PTL DEF Spec

-----------------------------------------------------------------------------
(* Competing for a number. Every attempt a run loses is an execution that  *)
(* appeared since it opened the cell: the ones newer than what it opened   *)
(* are at least as many as the attempts it has lost.                       *)

Between(b) == {n \in DOMAIN artifacts : n > seen[b] /\ n < num[b]}

Opened == {"download", "build", "list", "put"}

OutrunInv ==
    /\ IsFiniteSet(DOMAIN artifacts)
    /\ \A b \in Builders :
          /\ pc[b] # "compact"
          /\ pc[b] \in Opened => seen[b] \in DOMAIN artifacts \cup {NoExecution}
          /\ pc[b] = "list" => MaxAttempts - tries[b] <= Cardinality(Newer(b))
          /\ pc[b] = "put" =>
                /\ seen[b] < num[b]
                /\ MaxAttempts - tries[b] <= Cardinality(Between(b)) + 1

\* While nothing is collected, the executions in question only become more.
LEMMA ArchiveGrows ==
    ASSUME ~Collects, SafeInv, [Next]_vars
    PROVE  DOMAIN artifacts \subseteq DOMAIN artifacts'
  <1>0. Tables
    BY TablesHold DEF SafeInv
  <1>1. ASSUME NEW b \in Builders, Run(b) \/ Fail(b)
        PROVE  DOMAIN artifacts \subseteq DOMAIN artifacts'
    <2>1. ~DeleteArtifact(b)
      BY CollectorsVictims DEF DeleteArtifact
    <2> QED
      BY <1>0, <1>1, <2>1, PutArtifactStep, PutLatestStep, QuietBuilderStep
      DEF Writes
  <1> QED
    BY <1>0, <1>1, WhoSteps, OperatorStep, OtherStep DEF store

\* More executions, more of them newer than a given one.
LEMMA CountsGrow ==
    ASSUME NEW S, NEW T, IsFiniteSet(T), S \subseteq T
    PROVE  /\ Cardinality(S) \in Nat
           /\ Cardinality(T) \in Nat
           /\ Cardinality(S) <= Cardinality(T)
  BY FS_Subset, FS_CardinalityType

Counted(b) ==
    /\ pc[b] # "compact"
    /\ pc[b] \in Opened => seen[b] \in DOMAIN artifacts \cup {NoExecution}
    /\ pc[b] = "list" => MaxAttempts - tries[b] <= Cardinality(Newer(b))
    /\ pc[b] = "put" =>
          /\ seen[b] < num[b]
          /\ MaxAttempts - tries[b] <= Cardinality(Between(b)) + 1

\* It stays so for a Builder that does not move.
LEMMA CountedElsewhere ==
    ASSUME IndType, NEW b \in Builders, Counted(b),
           DOMAIN artifacts \subseteq DOMAIN artifacts',
           IsFiniteSet(DOMAIN artifacts'),
           pc'[b] = pc[b], seen'[b] = seen[b], tries'[b] = tries[b],
           num'[b] = num[b]
    PROVE  Counted(b)'
  <1>1. /\ Newer(b) \subseteq Newer(b)' /\ Between(b) \subseteq Between(b)'
        /\ Newer(b)' \subseteq DOMAIN artifacts'
        /\ Between(b)' \subseteq DOMAIN artifacts'
    BY DEF Newer, Between
  <1>2. IsFiniteSet(Newer(b)') /\ IsFiniteSet(Between(b)')
    BY <1>1, FS_Subset
  <1>3. /\ Cardinality(Newer(b)) \in Nat /\ Cardinality(Newer(b)') \in Nat
        /\ Cardinality(Newer(b)) <= Cardinality(Newer(b)')
        /\ Cardinality(Between(b)) \in Nat /\ Cardinality(Between(b)') \in Nat
        /\ Cardinality(Between(b)) <= Cardinality(Between(b)')
    BY <1>1, <1>2, CountsGrow
  <1>4. MaxAttempts - tries[b] \in Int
    <2>1. tries[b] \in 0 .. MaxAttempts
      BY DEF IndType, Typed, TypeOK
    <2> QED
      BY <2>1 DEF MaxAttempts
  <1> HIDE DEF MaxAttempts
  <1>5. pc[b] = "list" => MaxAttempts - tries'[b] <= Cardinality(Newer(b)')
    BY <1>3, <1>4 DEF Counted
  <1>6. pc[b] = "put" =>
           /\ seen'[b] < num'[b]
           /\ MaxAttempts - tries'[b] <= Cardinality(Between(b)') + 1
    BY <1>3, <1>4 DEF Counted
  <1>7. pc'[b] \in Opened =>
           seen'[b] \in DOMAIN artifacts' \cup {NoExecution}
    BY DEF Counted
  <1> QED
    BY <1>5, <1>6, <1>7 DEF Counted

\* The number allocated is above every execution, so above the one opened,
\* and the newer ones are all below it.
LEMMA CountedList ==
    ASSUME IndType, OutrunInv, NEW b \in Builders, ListExecutions(b)
    PROVE  Counted(b)'
  <1>0. /\ Tables
        /\ DOMAIN artifacts \subseteq Nat
        /\ seen[b] \in Nat /\ tries[b] \in 0 .. MaxAttempts
        /\ tries \in [Builders -> 0 .. MaxAttempts]
    BY TablesHold DEF IndType, Typed, TypeOK, Executions
  <1>1. PICK last \in DOMAIN artifacts \cup {NoExecution} :
           /\ \A n \in DOMAIN artifacts : n <= last
           /\ num' = [num EXCEPT ![b] = last + 1]
    BY DEF ListExecutions, NextNumber
  <1>2. /\ pc[b] = "list" /\ pc'[b] = "put"
        /\ artifacts' = artifacts /\ seen' = seen
        /\ tries'[b] = tries[b] - 1 /\ num'[b] = last + 1
    BY <1>0, <1>1 DEF ListExecutions, store, Tables
  <1>3. last \in Nat /\ seen[b] \in DOMAIN artifacts \cup {NoExecution}
    BY <1>0, <1>1, <1>2 DEF OutrunInv, Opened, NoExecution
  <1>4. seen[b] < last + 1
    BY <1>0, <1>1, <1>3 DEF NoExecution
  <1>5. Between(b)' = Newer(b)
    BY <1>0, <1>1, <1>2, <1>3 DEF Between, Newer
  <1>6. IsFiniteSet(Newer(b)) /\ Cardinality(Newer(b)) \in Nat
    <2>1. Newer(b) \subseteq DOMAIN artifacts
      BY DEF Newer
    <2> QED
      BY <2>1, FS_Subset, FS_CardinalityType DEF OutrunInv
  <1>7. MaxAttempts - tries[b] <= Cardinality(Newer(b))
    BY <1>2 DEF OutrunInv
  <1>8. MaxAttempts - tries'[b] <= Cardinality(Between(b)') + 1
    BY <1>0, <1>2, <1>5, <1>6, <1>7 DEF MaxAttempts
  <1> QED
    BY <1>2, <1>3, <1>4, <1>8 DEF Counted, Opened

\* A collision is one more execution that is newer than what the run opened:
\* the one that took the number.
LEMMA CountedPut ==
    ASSUME IndType, OutrunInv, NEW b \in Builders, PutArtifact(b)
    PROVE  Counted(b)'
  <1>0. /\ Tables
        /\ tries[b] \in 0 .. MaxAttempts
        /\ seen[b] \in Nat /\ num[b] \in Nat
    BY TablesHold DEF IndType, Typed, TypeOK
  <1>1. /\ pc[b] = "put"
        /\ seen' = seen /\ tries' = tries /\ num' = num
    BY DEF PutArtifact
  <1>2. CASE Creates(b)
    <2>1. pc'[b] = "point"
      BY <1>0, <1>2 DEF PutArtifact, Tables
    <2> QED
      BY <2>1 DEF Counted, Opened
  <1>3. CASE ~Creates(b)
    <2>1. /\ pc'[b] = "list" /\ artifacts' = artifacts
          /\ num[b] \in DOMAIN artifacts
      BY <1>0, <1>3 DEF PutArtifact, Creates, Tables
    <2>2. /\ seen[b] < num[b]
          /\ MaxAttempts - tries[b] <= Cardinality(Between(b)) + 1
          /\ seen[b] \in DOMAIN artifacts \cup {NoExecution}
      BY <1>1 DEF OutrunInv, Opened
    <2>3. /\ num[b] \notin Between(b)
          /\ Between(b) \cup {num[b]} \subseteq Newer(b)
          /\ Newer(b) \subseteq DOMAIN artifacts
          /\ Between(b) \subseteq DOMAIN artifacts
      BY <1>0, <2>1, <2>2 DEF Between, Newer
    <2>4. IsFiniteSet(Newer(b)) /\ IsFiniteSet(Between(b))
      BY <2>3, FS_Subset DEF OutrunInv
    <2>5. Cardinality(Between(b) \cup {num[b]}) = Cardinality(Between(b)) + 1
      BY <2>3, <2>4, FS_AddElement
    <2>6. Cardinality(Between(b)) + 1 <= Cardinality(Newer(b))
          /\ Cardinality(Between(b)) \in Nat /\ Cardinality(Newer(b)) \in Nat
      BY <2>3, <2>4, <2>5, CountsGrow, FS_CardinalityType
    <2>7. MaxAttempts - tries[b] <= Cardinality(Newer(b))
      BY <1>0, <2>2, <2>6 DEF MaxAttempts
    <2>8. Newer(b)' = Newer(b)
      BY <1>1, <2>1 DEF Newer
    <2> QED
      BY <1>1, <2>1, <2>2, <2>7, <2>8 DEF Counted
  <1> QED
    BY <1>2, <1>3

\* The other steps of a Builder: only the commit opens the competition, and
\* with all attempts left.
LEMMA CountedOther ==
    ASSUME ~Collects, SafeInv, OutrunInv, NEW b \in Builders,
           Run(b) \/ Fail(b), ~ListExecutions(b), ~PutArtifact(b),
           DOMAIN artifacts \subseteq DOMAIN artifacts',
           IsFiniteSet(DOMAIN artifacts')
    PROVE  Counted(b)'
  <1>0. /\ Tables /\ seen \in [Builders -> Nat]
        /\ tries \in [Builders -> 0 .. MaxAttempts]
    BY TablesHold DEF SafeInv, IndType, Typed, TypeOK
  <1>1. CASE ReadLatest(b)
    <2>1. seen'[b] = latest /\ pc'[b] = "download" /\ artifacts' = artifacts
      BY <1>0, <1>1 DEF ReadLatest, store, Tables
    <2>2. latest \in DOMAIN artifacts \cup {NoExecution}
      BY DEF SafeInv, PointerNamesArtifact
    <2> QED
      BY <2>1, <2>2 DEF Counted
  <1>2. CASE Download(b)
    <2>1. /\ pc[b] = "download" /\ pc'[b] = "build" /\ seen' = seen
      BY <1>0, <1>2 DEF Download, Tables
    <2> QED
      BY <2>1 DEF Counted, OutrunInv, Opened
  <1>3. CASE Commit(b)
    <2>1. /\ pc[b] = "build" /\ pc'[b] = "list" /\ seen' = seen
          /\ tries'[b] = MaxAttempts
      BY <1>0, <1>3 DEF Commit, Tables
    <2>2. Newer(b)' \subseteq DOMAIN artifacts'
      BY DEF Newer
    <2>3. Cardinality(Newer(b)') \in Nat
      BY <2>2, FS_Subset, FS_CardinalityType
    <2> QED
      BY <2>1, <2>3 DEF Counted, OutrunInv, Opened, MaxAttempts
  <1>4. CASE ~ReadLatest(b) /\ ~Download(b) /\ ~Commit(b)
    <2>1. ~Compact(b)
      BY DEF Compact, OutrunInv
    <2>2. pc'[b] \notin Opened \cup {"compact"}
      BY <1>0, <1>4, <2>1
      DEF Run, PutLatest, WriteSummary, ListGarbage, DeleteArtifact,
          DeleteSummary, FinishRun, Bail, Fail, Exit, Tables, Opened
    <2> QED
      BY <2>2 DEF Counted, Opened
  <1> QED
    BY <1>1, <1>2, <1>3, <1>4

LEMMA OutrunInit == Init => OutrunInv
  BY FS_EmptySet DEF Init, OutrunInv, Opened

LEMMA OutrunNext ==
    ASSUME ~Collects, SafeInv, OutrunInv, [Next]_vars
    PROVE  OutrunInv'
  <1>0. /\ IndType /\ Tables
        /\ seen \in [Builders -> Nat]
        /\ tries \in [Builders -> 0 .. MaxAttempts]
    BY TablesHold DEF SafeInv, IndType, Typed, TypeOK
  <1>1. /\ DOMAIN artifacts \subseteq DOMAIN artifacts'
        /\ IsFiniteSet(DOMAIN artifacts')
    BY <1>0, ArchiveGrows, ArchiveStaysFinite DEF OutrunInv
  <1>2. \A b \in Builders : Counted(b)
    BY DEF OutrunInv, Counted
  <1>3. ASSUME NEW b \in Builders, Run(b) \/ Fail(b), NEW c \in Builders \ {b}
        PROVE  Counted(c)'
    <2>1. pc'[c] = pc[c] /\ num'[c] = num[c]
      BY <1>0, <1>3, BuilderStep
    <2>2. seen'[c] = seen[c] /\ tries'[c] = tries[c]
      BY <1>0, <1>3
      DEF Run, ReadLatest, Download, Commit, Compact, ListExecutions, PutArtifact,
          PutLatest, WriteSummary, ListGarbage, DeleteArtifact, DeleteSummary,
          FinishRun, Bail, Fail, Exit
    <2> QED
      BY <1>0, <1>1, <1>2, <2>1, <2>2, CountedElsewhere
  <1>4. ASSUME NEW b \in Builders, Run(b) \/ Fail(b) PROVE Counted(b)'
    BY <1>0, <1>1, <1>4, CountedList, CountedPut, CountedOther
  <1>5. ASSUME UNCHANGED <<pc, seen, tries, num>>, NEW b \in Builders
        PROVE  Counted(b)'
    BY <1>0, <1>1, <1>2, <1>5, CountedElsewhere
  <1>6. \A b \in Builders : Counted(b)'
    <2>1. CASE \E b \in Builders : Run(b) \/ Fail(b)
      BY <1>3, <1>4, <2>1
    <2>2. CASE \E o \in Operators : Operate(o)
      BY <1>0, <1>5, <2>2, OperatorStep DEF builderVars
    <2>3. CASE Ship \/ Tick \/ UNCHANGED vars
      BY <1>5, <2>3, OtherStep DEF builderVars
    <2> QED
      BY <2>1, <2>2, <2>3, WhoSteps
  <1> QED
    BY <1>1, <1>6 DEF OutrunInv, Counted

\* While nothing is collected, a run that gives up after its attempts was
\* outrun by as many executions, for any number of Builders and operators.
THEOREM GivingUpMeansOutrun ==
    ASSUME ~Collects PROVE Spec => []GivesUpOnlyWhenOutrun
  <1>1. OutrunInv => GivesUpOnlyWhenOutrun
    BY DEF OutrunInv, GivesUpOnlyWhenOutrun, Newer
  <1>2. SafeInv /\ OutrunInv /\ [Next]_vars => OutrunInv'
    BY OutrunNext
  <1>3. Guarded
    BY DEF Guarded
  <1> QED
    BY <1>1, <1>2, <1>3, Safe, OutrunInit, PTL DEF Spec

-----------------------------------------------------------------------------
(* The served history, when commands do not overlap. LATEST then stays     *)
(* where a run found it until that run moves it, so what the run publishes *)
(* carries on what was served, and expires of it what its own compaction   *)
(* may; and it stays where a release found it, and the pin where the guard *)
(* of a rollback found it, until the command ends.                         *)

Building == {"build", "compact", "list", "put", "point"}

\* The runs whose snapshots may be expired.
Past == {r \in 1 .. runs : MayBeForgotten(r)}

\* A catalog carries on a stored one: of what that one knew it has forgotten
\* only what is past and not pinned.
Keeps(lineage, expiries, base, past, pinned) ==
    /\ Extends(lineage, base.lineage)
    /\ \A i \in Known(base.lineage, base.expired) :
          \/ i \in Known(lineage, expiries)
          \/ i # pinned /\ base.lineage[i] \in past

CarriesOn(b) ==
    /\ pc[b] = "compact" => Collects
    /\ pc[b] = "download" => seen[b] = latest
    /\ pc[b] = "point" => artifacts[num[b]].expired = expired[b]
    /\ pc[b] \in {"build", "compact"} /\ latest # NoExecution =>
          expired[b] = artifacts[latest].expired
    /\ pc[b] \in Building /\ latest # NoExecution =>
          Keeps(work[b], expired[b], artifacts[latest], Past, PinnedId)

ServedInv ==
    /\ Exclusive
    /\ \A b \in Builders : CarriesOn(b)
    /\ \A o \in Operators :
          /\ opc[o] = "opened" => target[o] = latest
          /\ opc[o] = "checked" /\ pin # NoPin =>
                /\ target[o] \in DOMAIN artifacts
                /\ pin.id \in Snapshots(target[o])
    /\ pin # NoPin /\ ~InPod =>
          /\ latest \in DOMAIN artifacts
          /\ pin.id \in Snapshots(latest)

LEMMA ServedInit == Init => ServedInv
  BY DEF Init, ServedInv, CarriesOn, Exclusive, Building

\* A catalog carries on itself ...
LEMMA KeepsItself ==
    ASSUME NEW base, base.lineage \in Lineages, NEW past, NEW pinned
    PROVE  Keeps(base.lineage, base.expired, base, past, pinned)
  BY DEF Keeps, Extends, Lineages

\* ... goes on doing so when a run commits ...
LEMMA KeepsAppend ==
    ASSUME NEW base, base.lineage \in Lineages, NEW past, NEW pinned,
           NEW lineage \in Lineages, NEW expiries, NEW run \in Nat \ {0},
           Keeps(lineage, expiries, base, past, pinned)
    PROVE  Keeps(Append(lineage, run), expiries, base, past, pinned)
  <1> DEFINE longer == Append(lineage, run)
             short == base.lineage
  <1>1. /\ Len(longer) = Len(lineage) + 1
        /\ longer \in Lineages
        /\ \A i \in 1 .. Len(lineage) : longer[i] = lineage[i]
    BY DEF Lineages
  <1>2. Len(short) \in Nat /\ Len(lineage) \in Nat /\ Len(short) <= Len(lineage)
    BY DEF Keeps, Extends, Lineages
  <1>3. SubSeq(longer, 1, Len(short)) = SubSeq(lineage, 1, Len(short))
    <2> HIDE DEF longer, short
    <2> QED
      BY <1>1, <1>2 DEF Lineages
  <1>4. SubSeq(lineage, 1, Len(short)) = short
    BY DEF Keeps, Extends
  <1> HIDE DEF longer
  <1>5. Extends(longer, base.lineage)
    BY <1>1, <1>2, <1>3, <1>4 DEF Extends
  <1>6. Known(lineage, expiries) \subseteq Known(longer, expiries)
    BY <1>1, <1>2 DEF Known
  <1> QED
    BY <1>5, <1>6 DEF Keeps, longer

\* ... and as more of the past may be forgotten.
LEMMA KeepsLater ==
    ASSUME NEW base, NEW past, NEW later, past \subseteq later, NEW pinned,
           NEW lineage, NEW expiries,
           Keeps(lineage, expiries, base, past, pinned)
    PROVE  Keeps(lineage, expiries, base, later, pinned)
  BY DEF Keeps

\* A snapshot of a lineage is at the same place in those that extend it.
LEMMA ExtendsPlaces ==
    ASSUME NEW short \in Lineages, NEW long \in Lineages, Extends(long, short)
    PROVE  \A i \in 1 .. Len(short) : i \in 1 .. Len(long) /\ long[i] = short[i]
  <1> SUFFICES ASSUME NEW i \in 1 .. Len(short)
               PROVE  i \in 1 .. Len(long) /\ long[i] = short[i]
    OBVIOUS
  <1>1. Len(short) <= Len(long) /\ SubSeq(long, 1, Len(short)) = short
    BY DEF Extends
  <1>2. Len(short) \in Nat /\ Len(long) \in Nat
    BY DEF Lineages
  <1>3. i \in 1 .. Len(long)
    BY <1>1, <1>2
  <1>4. SubSeq(long, 1, Len(short))[i] = long[i]
    BY <1>1, <1>2, <1>3 DEF Lineages
  <1> QED
    BY <1>1, <1>3, <1>4

\* Time only adds to the past, and no step takes a commit's date from it.
LEMMA PastGrows ==
    ASSUME IndType, [Next]_vars
    PROVE  Past \subseteq Past'
  <1>0. /\ runs \in Nat /\ clock \in Nat /\ Retention \in Nat
        /\ born \in [1 .. runs -> Nat]
    BY ModeAssumption DEF IndType, Typed, TypeOK
  <1>1. CASE UNCHANGED <<clock, runs, born>>
    BY <1>1 DEF Past, MayBeForgotten
  <1>2. ASSUME NEW b \in Builders, Commit(b) PROVE Past \subseteq Past'
    <2>1. clock' = clock /\ runs' = runs + 1 /\ born' = With(born, runs + 1, clock)
      BY <1>2 DEF Commit
    <2>2. \A r \in 1 .. runs : r \in 1 .. runs' /\ born'[r] = born[r]
      <3>1. \A r \in 1 .. runs : r # runs + 1 /\ r \in 1 .. runs + 1
        BY <1>0
      <3> QED
        BY <1>0, <2>1, <3>1 DEF With
    <2> QED
      BY <2>1, <2>2 DEF Past, MayBeForgotten
  <1>3. CASE Tick
    <2>1. clock' = clock + 1 /\ runs' = runs /\ born' = born
      BY <1>3 DEF Tick, commits
    <2> QED
      BY <1>0, <2>1 DEF Past, MayBeForgotten
  <1>4. ASSUME NEW b \in Builders, Run(b) \/ Fail(b), ~Commit(b)
        PROVE  UNCHANGED <<clock, runs, born>>
    BY <1>4
    DEF Run, ReadLatest, Download, Compact, ListExecutions, PutArtifact,
        PutLatest, WriteSummary, ListGarbage, DeleteArtifact, DeleteSummary,
        FinishRun, Bail, Fail, commits
  <1>5. ASSUME NEW o \in Operators, Operate(o)
        PROVE  UNCHANGED <<clock, runs, born>>
    BY <1>5
    DEF Operate, RollbackList, RollbackChoose, RollbackCheck, RollbackPut,
        ReleaseOpen, ReleaseWrite, GiveUp, commits
  <1>6. CASE Ship \/ UNCHANGED vars
    BY <1>1, <1>6 DEF Ship, vars, commits
  <1> QED
    BY <1>1, <1>2, <1>3, <1>4, <1>5, <1>6, WhoSteps

\* A process that takes a step is the only one inside a command.
LEMMA StepsAlone ==
    ASSUME ~Overlap, Tables, Exclusive
    PROVE  /\ \A b \in Builders : Run(b) \/ Fail(b) =>
                 /\ \A c \in Builders \ {b} : pc'[c] = "idle"
                 /\ \A o \in Operators : opc'[o] = "idle"
           /\ \A o \in Operators : Operate(o) =>
                 /\ \A b \in Builders : pc'[b] = "idle"
                 /\ \A q \in Operators \ {o} : opc'[q] = "idle"
  <1>1. ASSUME NEW b \in Builders, Run(b) \/ Fail(b)
        PROVE  /\ \A c \in Builders \ {b} : pc'[c] = "idle"
               /\ \A o \in Operators : opc'[o] = "idle"
    <2>1. /\ opc' = opc
          /\ pc[b] = "idle" => Quiet
          /\ \A c \in Builders \ {b} : pc'[c] = pc[c]
      BY <1>1, BuilderStep DEF operatorVars, MayStart
    <2> QED
      BY <2>1 DEF Exclusive, Quiet
  <1>2. ASSUME NEW o \in Operators, Operate(o)
        PROVE  /\ \A b \in Builders : pc'[b] = "idle"
               /\ \A q \in Operators \ {o} : opc'[q] = "idle"
    <2>1. /\ pc' = pc
          /\ opc[o] = "idle" => Quiet
          /\ \A q \in Operators \ {o} : opc'[q] = opc[q]
      BY <1>2, OperatorStep DEF builderVars, MayStart
    <2> QED
      BY <2>1 DEF Exclusive, Quiet
  <1> QED
    BY <1>1, <1>2

\* No Builder touches a pin.
LEMMA BuilderLeavesPins ==
    ASSUME NEW b \in Builders, Run(b) \/ Fail(b)
    PROVE  UNCHANGED <<pin, shipped>> /\ PinnedId' = PinnedId
  <1>1. UNCHANGED pins
    BY DEF Run, ReadLatest, Download, Commit, Compact, ListExecutions,
           PutArtifact, PutLatest, WriteSummary, ListGarbage, DeleteArtifact,
           DeleteSummary, FinishRun, Bail, Fail
  <1> QED
    BY <1>1 DEF pins, PinnedId

\* What a compaction takes from a catalog is past, and not pinned.
LEMMA CompactKeeps ==
    ASSUME IndType, Collects, NEW b \in Builders, latest \in DOMAIN artifacts,
           Keeps(work[b], expired[b], artifacts[latest], Past, PinnedId)
    PROVE  Keeps(work[b], Scheduled(b), artifacts[latest], Past, PinnedId)
  <1> DEFINE base == artifacts[latest]
  <1>0. /\ work[b] \in Lineages /\ base.lineage \in Lineages
        /\ \A i \in 1 .. Len(work[b]) : work[b][i] \in 1 .. runs
    BY DEF IndType, Typed, TypeOK, Artifacts, CatalogsAreDated, Dated
  <1>1. \A i \in Expirable(b) : i # PinnedId /\ work[b][i] \in Past
    BY <1>0 DEF Expirable, Known, Past, MayBeForgotten
  <1>2. \A i \in Known(work[b], expired[b]) :
           i \in Expirable(b) \/ i \in Known(work[b], Scheduled(b))
    BY DEF Scheduled, Known
  <1>3. Known(base.lineage, base.expired) \subseteq 1 .. Len(base.lineage)
    BY DEF Known
  <1>4. Keeps(work[b], expired[b], base, Past, PinnedId)
    OBVIOUS
  <1> HIDE DEF base
  <1>5. \A i \in Known(base.lineage, base.expired) : base.lineage[i] = work[b][i]
    <2>1. Extends(work[b], base.lineage)
      BY <1>4 DEF Keeps
    <2> QED
      BY <1>0, <1>3, <2>1, ExtendsPlaces
  <1>6. Keeps(work[b], Scheduled(b), base, Past, PinnedId)
    BY <1>1, <1>2, <1>4, <1>5 DEF Keeps
  <1> QED
    BY <1>6 DEF base

\* What the invariant says of the Builder that moves.
LEMMA BuilderCarriesOn ==
    ASSUME SafeInv, ServedInv, NEW b \in Builders, Run(b) \/ Fail(b)
    PROVE  CarriesOn(b)'
  <1>0. /\ Tables
        /\ latest # NoExecution => /\ latest \in DOMAIN artifacts
                                   /\ artifacts[latest].lineage \in Lineages
        /\ seen \in [Builders -> Nat] /\ runs \in Nat
        /\ expired \in [Builders -> Expiries]
        /\ IndType /\ CarriesOn(b)
    BY TablesHold
    DEF SafeInv, ServedInv, PointerNamesArtifact, IndType, Typed, TypeOK, Artifacts
  <1>1. Past \subseteq Past' /\ PinnedId' = PinnedId
    <2>1. [Next]_vars
      BY DEF Next
    <2> QED
      BY <1>0, <2>1, PastGrows, BuilderLeavesPins
  <1>2. ASSUME NEW base, base = artifacts[latest], latest # NoExecution,
               Keeps(work[b], expired[b], base, Past, PinnedId)
        PROVE  Keeps(work[b], expired[b], base, Past', PinnedId')
    BY <1>1, <1>2, KeepsLater
  <1>3. CASE ReadLatest(b)
    BY <1>0, <1>3 DEF ReadLatest, store, Tables, Building, CarriesOn
  <1>4. CASE Download(b)
    <2>1. PICK base \in Bases(b) :
             /\ work' = [work EXCEPT ![b] = base.lineage]
             /\ expired' = [expired EXCEPT ![b] = base.expired]
      BY <1>4 DEF Download
    <2>2. /\ pc[b] = "download" /\ pc'[b] = "build"
          /\ latest' = latest /\ artifacts' = artifacts
      BY <1>0, <1>4 DEF Download, store, Tables
    <2>3. latest # NoExecution => base = artifacts[latest]
      BY <1>0, <2>2 DEF Bases, CarriesOn
    <2>4. work'[b] = base.lineage /\ expired'[b] = base.expired
      BY <1>0, <2>1 DEF Tables
    <2>5. latest # NoExecution =>
             Keeps(work'[b], expired'[b], base, Past', PinnedId')
      BY <1>0, <2>3, <2>4, KeepsItself
    <2> QED
      BY <2>2, <2>3, <2>4, <2>5 DEF CarriesOn, Building
  <1>5. CASE Commit(b)
    <2>1. /\ pc[b] = "build" /\ pc'[b] = IF Collects THEN "compact" ELSE "list"
          /\ latest' = latest /\ artifacts' = artifacts /\ expired' = expired
          /\ work'[b] = Append(work[b], runs + 1)
      BY <1>0, <1>5 DEF Commit, store, Tables
    <2>2. work[b] \in Lineages /\ runs + 1 \in Nat \ {0}
      BY <1>0 DEF Tables
    <2>3. ASSUME latest # NoExecution
          PROVE  Keeps(work'[b], expired[b], artifacts[latest], Past', PinnedId')
      <3>1. Keeps(work[b], expired[b], artifacts[latest], Past', PinnedId')
        BY <1>0, <1>2, <2>1, <2>3 DEF CarriesOn, Building
      <3> QED
        BY <1>0, <2>1, <2>2, <2>3, <3>1, KeepsAppend
    <2> QED
      BY <1>0, <2>1, <2>3 DEF CarriesOn, Building
  <1>6. CASE Compact(b)
    <2>1. /\ pc[b] = "compact" /\ pc'[b] = "list"
          /\ latest' = latest /\ artifacts' = artifacts /\ work' = work
          /\ expired'[b] \in {expired[b], Scheduled(b)}
      BY <1>0, <1>6 DEF Compact, store, Tables
    <2>2. ASSUME latest # NoExecution
          PROVE  Keeps(work[b], expired'[b], artifacts[latest], Past', PinnedId')
      <3>1. Collects /\ Keeps(work[b], expired[b], artifacts[latest], Past, PinnedId)
        BY <1>0, <2>1, <2>2 DEF CarriesOn, Building
      <3>2. Keeps(work[b], Scheduled(b), artifacts[latest], Past, PinnedId)
        BY <1>0, <2>2, <3>1, CompactKeeps
      <3> QED
        BY <1>1, <2>1, <3>1, <3>2, KeepsLater
    <2> QED
      BY <2>1, <2>2 DEF CarriesOn, Building
  <1>7. CASE ListExecutions(b)
    <2>1. /\ pc[b] = "list" /\ pc'[b] = "put"
          /\ latest' = latest /\ artifacts' = artifacts /\ work' = work
          /\ expired' = expired
      BY <1>0, <1>7 DEF ListExecutions, store, Tables
    <2> QED
      BY <1>0, <1>2, <2>1 DEF CarriesOn, Building
  <1>8. CASE PutArtifact(b)
    <2>1. /\ pc[b] = "put" /\ pc'[b] \in {"list", "point"}
          /\ latest' = latest /\ work' = work /\ expired' = expired
          /\ num' = num
          /\ \A n \in DOMAIN artifacts : artifacts'[n] = artifacts[n]
          /\ pc'[b] = "point" => artifacts'[num[b]].expired = expired[b]
      BY <1>0, <1>8, PutArtifactStep
    <2> QED
      BY <1>0, <1>2, <2>1 DEF CarriesOn, Building
  <1>9. CASE \/ PutLatest(b) \/ WriteSummary(b) \/ ListGarbage(b)
             \/ DeleteArtifact(b) \/ DeleteSummary(b)
             \/ FinishRun(b) \/ Bail(b) \/ Fail(b)
    <2>1. pc'[b] \notin {"download"} \cup Building
      BY <1>0, <1>9
      DEF PutLatest, WriteSummary, ListGarbage, DeleteArtifact,
          DeleteSummary, FinishRun, Bail, Fail, Exit, Tables, Building
    <2> QED
      BY <2>1 DEF CarriesOn, Building
  <1> QED
    BY <1>3, <1>4, <1>5, <1>6, <1>7, <1>8, <1>9 DEF Run

\* A Builder never takes the pinned snapshot from what is served.
LEMMA BuilderKeepsPin ==
    ASSUME SafeInv, ServedInv, NEW b \in Builders, Run(b) \/ Fail(b),
           pin # NoPin, ~InPod
    PROVE  /\ latest' \in DOMAIN artifacts'
           /\ pin.id \in Snapshots(latest)'
  <1>0. /\ Tables
        /\ latest \in DOMAIN artifacts /\ pin.id \in Snapshots(latest)
        /\ latest # NoExecution
        /\ PinnedId = pin.id
    BY TablesHold
    DEF SafeInv, ServedInv, IndType, Typed, TypeOK, Artifacts, Executions,
        NoExecution, PinnedId
  <1>1. pin' = pin
    BY BuilderLeavesPins
  <1>2. CASE PutArtifact(b)
    BY <1>0, <1>1, <1>2, PutArtifactStep DEF Snapshots
  <1>3. CASE PutLatest(b)
    <2>1. /\ pc[b] = "point" /\ latest' = num[b] /\ artifacts' = artifacts
      BY <1>0, <1>3, PutLatestStep
    <2>2. /\ num[b] \in DOMAIN artifacts
          /\ artifacts[num[b]].lineage = work[b]
          /\ artifacts[num[b]].expired = expired[b]
      BY <2>1 DEF SafeInv, ServedInv, CarriesOn, WriterOwnsNumber, Published
    <2>3. Keeps(work[b], expired[b], artifacts[latest], Past, PinnedId)
      BY <1>0, <2>1 DEF ServedInv, CarriesOn, Building
    <2>4. pin.id \in Known(work[b], expired[b])
      BY <1>0, <2>3 DEF Keeps, Snapshots
    <2> QED
      BY <1>1, <2>1, <2>2, <2>4 DEF Snapshots
  <1>4. CASE DeleteArtifact(b)
    <2>1. PICK n \in victims[b] :
             /\ DOMAIN artifacts' = DOMAIN artifacts \ {n}
             /\ \A m \in DOMAIN artifacts' : artifacts'[m] = artifacts[m]
      BY <1>0, <1>4, DeleteArtifactStep
    <2>2. latest' = latest /\ n # latest
      BY <1>0, <1>4, DeleteArtifactStep, CollectorsVictims
    <2> QED
      BY <1>0, <1>1, <2>1, <2>2 DEF Snapshots
  <1>5. CASE ~Writes(b)
    BY <1>0, <1>1, <1>5, QuietBuilderStep DEF Snapshots
  <1> QED
    BY <1>2, <1>3, <1>4, <1>5 DEF Writes

\* What a release pins is known, and stays so: the newest snapshot of a
\* catalog is never expired.
LEMMA NewestIsKnown ==
    ASSUME IndType, NEW n \in DOMAIN artifacts
    PROVE  Len(artifacts[n].lineage) \in Snapshots(n)
  <1> DEFINE lineage == artifacts[n].lineage
             expiries == artifacts[n].expired
  <1>1. lineage \in Lineages /\ lineage # <<>> /\ Dated(lineage, expiries, runs)
    BY DEF IndType, Typed, TypeOK, Artifacts, CatalogsAreDated
  <1> HIDE DEF lineage, expiries
  <1>2. Len(lineage) \in Nat \ {0}
    BY <1>1, LastSnapshot
  <1>3. \A e \in expiries : e[1] # Len(lineage)
    BY <1>1, <1>2 DEF Dated
  <1>4. Len(lineage) \in Known(lineage, expiries)
    BY <1>2, <1>3 DEF Known
  <1> QED
    BY <1>4 DEF Snapshots, lineage, expiries

\* What the invariant says of the operator that moves, and of the pin.
LEMMA OperatorKeepsPin ==
    ASSUME SafeInv, ServedInv, NEW o \in Operators, Operate(o)
    PROVE  /\ opc'[o] = "opened" => target'[o] = latest'
           /\ opc'[o] = "checked" /\ pin' # NoPin =>
                 /\ target'[o] \in DOMAIN artifacts'
                 /\ pin'.id \in Snapshots(target[o])'
           /\ pin' # NoPin /\ ~InPod =>
                 /\ latest' \in DOMAIN artifacts'
                 /\ pin'.id \in Snapshots(latest)'
  <1>0. /\ Tables
        /\ artifacts' = artifacts
        /\ pin # NoPin /\ ~InPod => /\ latest \in DOMAIN artifacts
                                    /\ pin.id \in Snapshots(latest)
    BY TablesHold, OperatorStep DEF SafeInv, ServedInv
  <1>1. CASE RollbackList(o) \/ RollbackChoose(o) \/ ReleaseOpen(o)
    BY <1>0, <1>1
    DEF RollbackList, RollbackChoose, ReleaseOpen, store, pins, Tables, Snapshots
  <1>2. CASE RollbackCheck(o)
    BY <1>0, <1>2 DEF RollbackCheck, PinGuard, store, pins, Tables, Snapshots
  <1>3. CASE RollbackPut(o)
    <2>1. /\ opc[o] = "checked" /\ latest' = target[o] /\ opc'[o] = "idle"
          /\ pin' = pin
      BY <1>0, <1>3 DEF RollbackPut, Close, pins, Tables
    <2>2. pin # NoPin => /\ target[o] \in DOMAIN artifacts
                         /\ pin.id \in Snapshots(target[o])
      BY <2>1 DEF ServedInv
    <2> QED
      BY <1>0, <2>1, <2>2 DEF Snapshots
  <1>4. CASE ReleaseWrite(o)
    <2>1. /\ opc[o] = "opened" /\ opc'[o] = "idle" /\ latest' = latest
          /\ target[o] \in DOMAIN artifacts
          /\ pin'.id = Len(artifacts[target[o]].lineage)
      BY <1>0, <1>4 DEF ReleaseWrite, Close, store, Tables
    <2>2. target[o] = latest
      BY <2>1 DEF ServedInv
    <2>3. Len(artifacts[latest].lineage) \in Snapshots(latest)
      BY <2>1, <2>2, NewestIsKnown DEF SafeInv
    <2> QED
      BY <1>0, <2>1, <2>2, <2>3 DEF Snapshots
  <1>5. CASE GiveUp(o)
    BY <1>0, <1>5 DEF GiveUp, Close, store, pins, Tables, Snapshots
  <1> QED
    BY <1>1, <1>2, <1>3, <1>4, <1>5 DEF Operate

\* A Builder at rest has nothing to carry on.
LEMMA IdleCarriesOn ==
    ASSUME NEW b, pc'[b] = "idle" PROVE CarriesOn(b)'
  BY DEF CarriesOn, Building

LEMMA ServedNext ==
    ASSUME ~Overlap, SafeInv, ServedInv, [Next]_vars
    PROVE  ServedInv'
  <1>0. Tables /\ Exclusive /\ Exclusive' /\ IndType
    BY TablesHold, ExclusiveNext DEF SafeInv, ServedInv
  <1>1. ASSUME NEW b \in Builders, Run(b) \/ Fail(b) PROVE ServedInv'
    <2>1. /\ \A c \in Builders \ {b} : pc'[c] = "idle"
          /\ \A o \in Operators : opc'[o] = "idle"
      BY <1>0, <1>1, StepsAlone
    <2>2. \A c \in Builders : CarriesOn(c)'
      BY <1>1, <2>1, BuilderCarriesOn, IdleCarriesOn
    <2>3. pin' = pin
      BY <1>1, BuilderLeavesPins
    <2>4. pin # NoPin /\ ~InPod =>
             latest' \in DOMAIN artifacts' /\ pin.id \in Snapshots(latest)'
      BY <1>1, BuilderKeepsPin
    <2> QED
      BY <1>0, <2>1, <2>2, <2>3, <2>4 DEF ServedInv
  <1>2. ASSUME NEW o \in Operators, Operate(o) PROVE ServedInv'
    <2>1. /\ \A b \in Builders : pc'[b] = "idle"
          /\ \A q \in Operators \ {o} : opc'[q] = "idle"
      BY <1>0, <1>2, StepsAlone
    <2>2. \A c \in Builders : CarriesOn(c)'
      BY <2>1, IdleCarriesOn
    <2> QED
      BY <1>0, <1>2, <2>1, <2>2, OperatorKeepsPin DEF ServedInv
  <1>3. CASE Ship \/ Tick \/ UNCHANGED vars
    <2>1. pin' = pin /\ UNCHANGED <<store, builderVars, operatorVars>>
      BY <1>3, OtherStep DEF Ship, Tick, vars, pins
    <2>2. \A b \in Builders : CarriesOn(b)'
      <3>1. CASE Ship
        <4>1. \A b \in Builders : pc'[b] = "idle"
          BY <2>1, <3>1 DEF Ship, Quiet, builderVars
        <4> QED
          BY <4>1, IdleCarriesOn
      <3>2. CASE Tick \/ UNCHANGED vars
        <4>1. PinnedId' = PinnedId
          BY <3>2 DEF Tick, vars, pins, PinnedId
        <4>2. Past \subseteq Past'
          BY <1>0, PastGrows
        <4>3. ASSUME NEW b \in Builders, latest # NoExecution,
                     Keeps(work[b], expired[b], artifacts[latest], Past, PinnedId)
              PROVE  Keeps(work[b], expired[b], artifacts[latest], Past', PinnedId')
          BY <4>1, <4>2, <4>3, KeepsLater
        <4> QED
          BY <2>1, <4>3 DEF ServedInv, CarriesOn, store, builderVars
      <3> QED
        BY <1>3, <3>1, <3>2
    <2> QED
      BY <1>0, <2>1, <2>2 DEF ServedInv, Snapshots, store, operatorVars
  <1> QED
    BY <1>1, <1>2, <1>3, WhoSteps

\* Without overlap both invariants hold at all times.
LEMMA Served == ASSUME ~Overlap PROVE Spec => [](SafeInv /\ ServedInv)
  <1>1. SafeInv /\ ServedInv /\ [Next]_vars => SafeInv' /\ ServedInv'
    BY SafeNext, ServedNext DEF Guarded
  <1> QED
    BY <1>1, SafeInit, ServedInit, PTL DEF Spec

\* When commands do not overlap and a run reads the release manifest where a
\* release writes it, the served artifact knows the pinned snapshot's id:
\* after any publish, compaction, rollback, release or collection, and any
\* run that died half way. It is false in a pod.
THEOREM PinnedIdStaysServed ==
    ASSUME ~Overlap, ~InPod PROVE Spec => []PinnedIdIsServed
  <1>1. ServedInv => PinnedIdIsServed
    BY DEF ServedInv, PinnedIdIsServed
  <1> QED
    BY <1>1, Served, PTL

\* Under the same conditions what a run moves LATEST to carries on what it
\* named before, and has forgotten of it only what the window gives up and
\* no release has pinned.
THEOREM PublishingForgetsOnlyThePast ==
    ASSUME ~Overlap, ~InPod PROVE Spec => PublishForgetsOnlyThePast
  <1>1. ASSUME SafeInv, ServedInv, [Next]_vars PROVE CarriesOnWhatIsServed
    <2> SUFFICES ASSUME NEW b \in Builders, Publishes(b),
                        latest \in DOMAIN artifacts
                 PROVE  /\ Extends(artifacts'[latest'].lineage,
                                   artifacts[latest].lineage)
                        /\ \A i \in Snapshots(latest) :
                              \/ i \in Snapshots(latest)'
                              \/ /\ i # pin.id
                                 /\ MayBeForgotten(artifacts[latest].lineage[i])
      BY DEF CarriesOnWhatIsServed
    <2>0. Tables /\ latest # NoExecution
      BY <1>1, TablesHold DEF SafeInv, IndType, Typed, TypeOK, Executions, NoExecution
    <2>1. pc[b] = "point" /\ pc'[b] = "summary"
      BY DEF Publishes
    <2>2. PutLatest(b)
      <3>1. \E c \in Builders : Run(c) \/ Fail(c)
        BY <1>1, <2>0, <2>1, WhoSteps, OperatorStep, OtherStep DEF builderVars
      <3>2. Run(b) \/ Fail(b)
        BY <2>0, <2>1, <3>1, BuilderStep
      <3> QED
        BY <2>0, <2>1, <3>2
        DEF Run, ReadLatest, Download, Commit, Compact, ListExecutions, PutArtifact,
            WriteSummary, ListGarbage, DeleteArtifact, DeleteSummary,
            FinishRun, Bail, Fail, Exit, Tables
    <2>3. latest' = num[b] /\ artifacts' = artifacts
      BY <2>0, <2>2, PutLatestStep
    <2>4. /\ artifacts[num[b]].lineage = work[b]
          /\ artifacts[num[b]].expired = expired[b]
      BY <1>1, <2>1 DEF SafeInv, ServedInv, CarriesOn, WriterOwnsNumber, Published
    <2>5. Keeps(work[b], expired[b], artifacts[latest], Past, pin.id)
      BY <1>1, <2>0, <2>1 DEF ServedInv, CarriesOn, Building, PinnedId
    <2>6. Snapshots(latest)' = Known(work[b], expired[b])
      BY <2>3, <2>4 DEF Snapshots
    <2> QED
      BY <2>3, <2>4, <2>5, <2>6 DEF Keeps, Past, Snapshots
  <1>2. SafeInv /\ ServedInv /\ [Next]_vars => [CarriesOnWhatIsServed]_vars
    BY <1>1
  <1> QED
    BY <1>2, Served, PTL DEF Spec, PublishForgetsOnlyThePast

\* When commands do not overlap, in a pod or not, no compaction deletes a
\* file that a snapshot of the served execution reads: those it deletes were
\* expired a window ago, in the very catalog that is served.
THEOREM CleanupIsSafe ==
    ASSUME ~Overlap PROVE Spec => CleanupSparesWhatIsServed
  <1> DEFINE Untouched == (latest \in DOMAIN artifacts) =>
                           Reads(latest) \cap (deleted' \ deleted) = {}
  <1>1. ASSUME SafeInv, ServedInv, [Next]_vars PROVE Untouched
    <2> SUFFICES ASSUME latest \in DOMAIN artifacts, NEW r \in deleted' \ deleted
                 PROVE  r \notin Reads(latest)
      OBVIOUS
    <2>0. /\ Tables /\ IndType /\ latest # NoExecution
          /\ clock \in Nat /\ Retention \in Nat
      BY <1>1, TablesHold, ModeAssumption
      DEF SafeInv, IndType, Typed, TypeOK, Executions, NoExecution
    <2>1. PICK b \in Builders : Compact(b)
      <3>1. ASSUME NEW b \in Builders, Run(b) \/ Fail(b), ~Compact(b)
            PROVE  deleted' = deleted
        BY <3>1
        DEF Run, ReadLatest, Download, Commit, ListExecutions, PutArtifact,
            PutLatest, WriteSummary, ListGarbage, DeleteArtifact,
            DeleteSummary, FinishRun, Bail, Fail
      <3>2. ASSUME NEW o \in Operators, Operate(o) PROVE deleted' = deleted
        BY <3>2
        DEF Operate, RollbackList, RollbackChoose, RollbackCheck, RollbackPut,
            ReleaseOpen, ReleaseWrite, GiveUp
      <3>3. CASE Ship \/ Tick \/ UNCHANGED vars
        BY <3>3 DEF Ship, Tick, vars
      <3> QED
        BY <1>1, <3>1, <3>2, <3>3, WhoSteps
    <2>2. r \in Cleanable(b) /\ pc[b] = "compact"
      BY <2>1 DEF Compact
    <2>3. PICK e \in Scheduled(b) : e[2] < clock - Retention /\ r = work[b][e[1]]
      BY <2>2 DEF Cleanable
    <2>4. e \in expired[b]
      <3>1. ASSUME NEW i, e = <<i, clock>> PROVE FALSE
        <4>1. e[2] = clock
          BY <3>1
        <4> QED
          BY <2>0, <2>3, <4>1
      <3> QED
        BY <3>1 DEF Scheduled
    <2>5. /\ expired[b] = artifacts[latest].expired
          /\ Keeps(work[b], expired[b], artifacts[latest], Past, PinnedId)
      BY <1>1, <2>0, <2>2 DEF ServedInv, CarriesOn, Building
    <2> DEFINE base == artifacts[latest]
    <2>6. base.lineage \in Lineages /\ Dated(base.lineage, base.expired, runs)
      BY <2>0 DEF IndType, Typed, TypeOK, Artifacts, CatalogsAreDated
    <2>7. e \in base.expired /\ Keeps(work[b], expired[b], base, Past, PinnedId)
      BY <2>4, <2>5
    <2>8. Reads(latest) =
             {base.lineage[i] : i \in Known(base.lineage, base.expired)}
      BY DEF Reads, Snapshots
    <2> HIDE DEF base
    <2>9. e[1] \in 1 .. Len(base.lineage) /\ Len(base.lineage) \in Nat
      BY <2>6, <2>7 DEF Dated, Lineages
    <2>10. base.lineage[e[1]] = r
      <3>1. Extends(work[b], base.lineage) /\ work[b] \in Lineages
        BY <2>0, <2>7 DEF Keeps, Tables
      <3> QED
        BY <2>3, <2>6, <2>9, <3>1, ExtendsPlaces
    <2>11. ASSUME NEW i \in Known(base.lineage, base.expired)
           PROVE  base.lineage[i] # r
      <3>1. i \in 1 .. Len(base.lineage) /\ i # e[1]
        BY <2>7 DEF Known
      <3>2. base.lineage[i] \in Nat /\ base.lineage[e[1]] \in Nat
        BY <2>6, <2>9, <3>1 DEF Lineages
      <3>3. i < e[1] \/ e[1] < i
        BY <2>9, <3>1
      <3> QED
        BY <2>6, <2>9, <2>10, <3>1, <3>2, <3>3 DEF Dated
    <2> QED
      BY <2>8, <2>11
  <1>2. SafeInv /\ ServedInv /\ [Next]_vars => [Untouched]_vars
    BY <1>1
  <1> HIDE DEF Untouched
  <1>3. Spec => [][Untouched]_vars
    BY <1>2, Served, PTL DEF Spec
  <1> QED
    BY <1>3 DEF CleanupSparesWhatIsServed, Untouched
=============================================================================
