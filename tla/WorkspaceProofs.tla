----------------------------- MODULE WorkspaceProofs -----------------------------
(***************************************************************************)
(* Theorems about Workspace: its types, the records that the commands      *)
(* leave behind, and what of them still holds when the author edits        *)
(* cell.yaml, the world moves, or a command is killed between two writes.  *)
(***************************************************************************)
EXTENDS Workspace, FiniteSetTheorems, WellFoundedInduction, TLAPS

-----------------------------------------------------------------------------
(* What a list of checks tells.                                            *)

\* A sequence, whatever its elements are.
IsSeq(s) == Len(s) \in Nat /\ DOMAIN s = 1..Len(s)

\* A non-empty set of numbers has a least member, and Min finds it.
LEMMA MinIsLeast ==
    ASSUME NEW S, S \subseteq Nat, S # {}
    PROVE  Min(S) \in S /\ \A y \in S : Min(S) <= y
  <1> DEFINE less == {ss \in Nat \X Nat : ss[1] < ss[2]}
  <1>1. IsWellFoundedOn(less, Nat)
    BY NatLessThanWellFounded DEF OpToRel
  <1> HIDE DEF less
  <1>2. PICK x \in S : \A y \in S : <<y, x>> \notin less
    BY <1>1, WFMin
  <1>3. ASSUME NEW y \in S PROVE x <= y
    <2>1. ~(y < x) /\ x \in Nat /\ y \in Nat
      BY <1>2 DEF less
    <2> QED
      BY <2>1
  <1> QED
    BY <1>3 DEF Min

\* A list of checks accepts exactly when none of them failed, provided that
\* a check that fails has a reason.
LEMMA NoReason ==
    ASSUME NEW checks, IsSeq(checks),
           \A n \in DOMAIN checks : checks[n][2] => checks[n][1] # Accepted
    PROVE  FirstReason(checks) = Accepted
             <=> \A n \in DOMAIN checks : ~checks[n][2]
  <1> DEFINE failed == {i \in 1..Len(checks) : checks[i][2]}
  <1>1. failed # {} => Min(failed) \in failed
    <2> failed \subseteq Nat
      BY DEF IsSeq
    <2> HIDE DEF failed
    <2> QED
      BY MinIsLeast
  <1>2. failed = {} \/ Min(failed) # 0
    BY <1>1 DEF IsSeq
  <1>3. FirstReason(checks)
          = IF failed = {} THEN Accepted ELSE checks[Min(failed)][1]
    BY <1>2 DEF FirstReason, SelectInSeq, IsSeq
  <1> QED
    BY <1>1, <1>3 DEF IsSeq

\* A list of verdicts accepts exactly when each of them does.
LEMMA NoRefusal ==
    ASSUME NEW verdicts, IsSeq(verdicts)
    PROVE  FirstRefusal(verdicts) = Accepted
             <=> \A n \in DOMAIN verdicts : verdicts[n] = Accepted
  <1> DEFINE failed == {i \in 1..Len(verdicts) : verdicts[i] # Accepted}
  <1>1. failed # {} => Min(failed) \in failed
    <2> failed \subseteq Nat
      BY DEF IsSeq
    <2> HIDE DEF failed
    <2> QED
      BY MinIsLeast
  <1>2. failed = {} \/ Min(failed) # 0
    BY <1>1 DEF IsSeq
  <1>3. FirstRefusal(verdicts)
          = IF failed = {} THEN Accepted ELSE verdicts[Min(failed)]
    BY <1>2 DEF FirstRefusal, SelectInSeq, IsSeq
  <1> QED
    BY <1>1, <1>3 DEF IsSeq

-----------------------------------------------------------------------------
(* Types.                                                                  *)

RecordNames == {"catalog", "semantic", "semanticCheck", "sourceCheck",
                "descriptions", "published"}

Commands ==
    {Idle} \cup [verb : {"sync"}, profile : DOMAIN Profiles, file : Files]
      \cup [verb : {"verify"}, profile : DOMAIN Profiles, file : Files,
            at : {"semantic", "source", "descriptions"}]

Checkouts == [at : {"none", "bare", "origin"}, cone : {"", "tree"}]

\* What stands in the directory and outside of it. A profile has no more
\* snapshots than there were moves.
DataType ==
    /\ file \in Files /\ world \in Worlds /\ moves \in 0..MaxMoves
    /\ cache \in Checkouts
    /\ DOMAIN lake = DOMAIN Profiles
    /\ \A p \in DOMAIN Profiles : lake[p].snapshots \in 0..moves

\* What stands under .cell/.
RecordType ==
    /\ DOMAIN records = RecordNames
    /\ \A name \in DOMAIN RecordKinds :
          records[name].kind \in {"none", RecordKinds[name]}
    /\ records.semantic.kind \in {"none", "dir", "commit"}
    /\ records.semantic.kind # "none" =>
          DOMAIN records.semantic =
            {"kind", "digest", "source", "commit", "content", "models"}

\* What the command in hand may count on.
CmdType ==
    /\ cmd \in Commands
    /\ cmd.verb = "sync" => /\ FileOf[cmd.file].cell.discover.on
                            /\ FileOf[cmd.file].semantic.kind # "none"
    /\ At("semantic") => SemanticFreshIn(Opened)
    /\ At("source") \/ At("descriptions") => HasBound(Checked)

IndType == DataType /\ RecordType /\ CmdType

LEMMA TypeFollows == IndType => TypeOK
  <1> SUFFICES ASSUME IndType PROVE TypeOK
    OBVIOUS
  <1>1. cmd.verb \in {"idle", "sync", "verify"}
    BY DEF IndType, CmdType, Commands, Idle
  <1>2. cmd # Idle => cmd.file \in Files /\ cmd.profile \in DOMAIN Profiles
    BY DEF IndType, CmdType, Commands
  <1>3. \A p \in DOMAIN Profiles : lake[p].snapshots \in 0..MaxMoves
    BY MovesAssumption DEF IndType, DataType
  <1> QED
    BY <1>1, <1>2, <1>3 DEF IndType, DataType, RecordType, CmdType, TypeOK,
        Checkouts

\* Nothing is there at first.
LEMMA TypeInit == Init => IndType
  <1> SUFFICES ASSUME Init PROVE IndType
    OBVIOUS
  <1>1. CmdType
    <2>1. cmd = Idle /\ cmd.verb = "idle"
      BY DEF Init, Idle
    <2> QED
      BY <2>1 DEF CmdType, Commands, At
  <1>2. RecordType
    <2>1. records = [catalog |-> None, semantic |-> None, semanticCheck |-> None,
                     sourceCheck |-> None, descriptions |-> None,
                     published |-> None]
      BY DEF Init
    <2>2. DOMAIN records = RecordNames
      BY <2>1 DEF RecordNames
    <2>3. /\ records.catalog.kind = "none" /\ records.semantic.kind = "none"
          /\ records.semanticCheck.kind = "none"
          /\ records.sourceCheck.kind = "none"
          /\ records.descriptions.kind = "none"
      BY <2>1 DEF None
    <2>4. \A name \in DOMAIN RecordKinds :
             records[name].kind \in {"none", RecordKinds[name]}
      BY <2>3 DEF RecordKinds
    <2> QED
      BY <2>2, <2>3, <2>4 DEF RecordType
  <1>3. DataType
    <2>1. file \in Files
      BY FilesAssumption DEF Init
    <2>2. world \in Worlds /\ moves = 0 /\ cache \in Checkouts
      BY DEF Init, NoCheckout, Checkouts
    <2>3. lake = [p \in DOMAIN Profiles |-> [built |-> "", snapshots |-> 0]]
      BY DEF Init
    <2>4. \A p \in DOMAIN Profiles : lake[p].snapshots = 0
      BY <2>3
    <2>5. DOMAIN lake = DOMAIN Profiles
      BY <2>3
    <2>6. 0 \in 0..0 /\ 0 \in 0..MaxMoves
      BY MovesAssumption
    <2> QED
      BY <2>1, <2>2, <2>4, <2>5, <2>6 DEF DataType
  <1> QED
    BY <1>1, <1>2, <1>3 DEF IndType

\* The interface at hand is that of cell.yaml and of the recorded catalog.
LEMMA LoadedStays ==
    ASSUME NEW p, file' = file, records'.catalog = records.catalog
    PROVE  Loaded(p)' = Loaded(p)
  BY DEF Loaded, LoadedIn, Here

\* What a verify has found stays as it is while the semantic model and the
\* catalog stay: it is of the cell.yaml that was loaded.
LEMMA OpenedStays ==
    ASSUME cmd'.profile = cmd.profile, cmd'.file = cmd.file,
           records'.catalog = records.catalog,
           records'.semantic = records.semantic
    PROVE  /\ SemanticFreshIn(Opened)' <=> SemanticFreshIn(Opened)
           /\ HasBound(Checked)' <=> HasBound(Checked)
  <1>1. /\ Opened.file = cmd.file /\ Opened.records = records
        /\ Opened.profile = Profiles[cmd.profile] /\ Opened.name = cmd.profile
    BY DEF Opened, Here
  <1>2. /\ Opened'.file = cmd.file /\ Opened'.records = records'
        /\ Opened'.profile = Profiles[cmd.profile] /\ Opened'.name = cmd.profile
    BY DEF Opened, Here
  <1>3. Checked' = Checked
    <2> HIDE DEF Opened
    <2> QED
      BY <1>1, <1>2 DEF Checked, LoadedIn
  <1>4. SemanticFreshIn(Opened)' <=> SemanticFreshIn(Opened)
    BY <1>1, <1>2 DEF SemanticFreshIn
  <1> QED
    BY <1>3, <1>4 DEF HasBound

LEMMA CmdStays ==
    ASSUME CmdType, records'.catalog = records.catalog,
           records'.semantic = records.semantic, UNCHANGED cmd
    PROVE  CmdType'
  BY OpenedStays DEF CmdType, At

\* With no command in hand there is nothing to count on.
LEMMA CmdIdle == cmd' = Idle => CmdType'
  BY DEF CmdType, Commands, Idle, At

\* A move counts, and leaves no profile with more snapshots than moves.
LEMMA MoveCounts ==
    ASSUME DataType, moves < MaxMoves, moves' = moves + 1
    PROVE  /\ moves' \in 0..MaxMoves
           /\ \A p \in DOMAIN Profiles : lake[p].snapshots \in 0..moves'
           /\ \A p \in DOMAIN Profiles : lake[p].snapshots + 1 \in 0..moves'
  <1>1. moves \in Nat /\ MaxMoves \in Nat
    BY MovesAssumption DEF DataType
  <1>2. \A p \in DOMAIN Profiles : lake[p].snapshots \in 0..moves
    BY DEF DataType
  <1> QED
    BY <1>1, <1>2

\* A record of its kind may replace any of the four that have one.
LEMMA RecordPut ==
    ASSUME RecordType, NEW name \in DOMAIN RecordKinds, NEW record,
           record.kind \in {"none", RecordKinds[name]},
           records' = [records EXCEPT ![name] = record]
    PROVE  RecordType'
  <1>1. /\ DOMAIN RecordKinds \subseteq RecordNames
        /\ "semantic" \notin DOMAIN RecordKinds
        /\ "semantic" \in RecordNames
    BY DEF RecordKinds, RecordNames
  <1>2. DOMAIN records' = RecordNames /\ records'.semantic = records.semantic
    BY <1>1 DEF RecordType
  <1>3. \A other \in DOMAIN RecordKinds :
           records'[other] = IF other = name THEN record ELSE records[other]
    BY <1>1 DEF RecordType
  <1> QED
    BY <1>2, <1>3 DEF RecordType

\* A git checkout is one of six.
LEMMA CacheType ==
    ASSUME cache \in Checkouts, NEW stopped
    PROVE  Fetched(stopped).cache \in Checkouts
  <1>1. /\ cache.at \in {"none", "bare", "origin"}
        /\ cache.cone \in {"", "tree"}
    BY DEF Checkouts
  <1>2. Remote(cache.at, Semantic0.ref, stopped) \in {"none", "bare", "origin"}
    BY <1>1 DEF Remote
  <1>3. Cone(Semantic0.path, cache.cone) \in {"", "tree"}
    BY <1>1 DEF Cone
  <1>4. PICK a \in {"none", "bare", "origin"}, c \in {"", "tree"} :
           Fetched(stopped).cache = [at |-> a, cone |-> c]
    BY <1>1, <1>2, <1>3 DEF Fetched, Fetch
  <1>5. [at |-> a, cone |-> c] \in Checkouts
    BY DEF Checkouts
  <1> QED
    BY <1>4, <1>5

LEMMA SyncSemanticType ==
    ASSUME IndType, NEW p \in DOMAIN Profiles, NEW stopped, NEW refetch,
           SyncSemantic(p, stopped, refetch)
    PROVE  IndType'
  <1>1. DataType'
    <2>1. cache' \in Checkouts
      BY CacheType DEF SyncSemantic, IndType, DataType
    <2>2. moves < MaxMoves /\ moves' = moves + 1
      BY DEF SyncSemantic, Begins
    <2>3. UNCHANGED <<file, world, lake>>
      BY DEF SyncSemantic
    <2> QED
      BY <2>1, <2>2, <2>3, MoveCounts DEF IndType, DataType
  <1>2. RecordType'
    <2>1. CASE Reusable(records.semantic, Semantic0) /\ ~refetch
      <3>1. records' = [records EXCEPT !.semantic.digest = file]
        BY <2>1 DEF SyncSemantic
      <3>2. records.semantic.kind = "commit"
        BY <2>1 DEF Reusable
      <3> QED
        BY <3>1, <3>2 DEF IndType, RecordType, RecordNames, RecordKinds
    <2>2. CASE ~(Reusable(records.semantic, Semantic0) /\ ~refetch)
      <3>1. \/ UNCHANGED records
            \/ \E commit, cone : records' =
                  [records EXCEPT !.semantic = SemanticRecord(commit, cone)]
        BY <2>2 DEF SyncSemantic
      <3>2. CASE UNCHANGED records
        BY <3>2 DEF IndType, RecordType
      <3>3. ASSUME NEW commit, NEW cone, records' =
                     [records EXCEPT !.semantic = SemanticRecord(commit, cone)]
            PROVE  RecordType'
        <4>1. /\ SemanticRecord(commit, cone).kind \in {"dir", "commit"}
              /\ DOMAIN SemanticRecord(commit, cone) =
                   {"kind", "digest", "source", "commit", "content", "models"}
          BY DEF SemanticRecord
        <4> HIDE DEF SemanticRecord
        <4> QED
          BY <3>3, <4>1 DEF IndType, RecordType, RecordNames, RecordKinds
      <3> QED
        BY <3>1, <3>2, <3>3
    <2> QED
      BY <2>1, <2>2
  <1>3. CmdType'
    <2>1. cmd = Idle /\ Semantic0.kind # "none" /\ UNCHANGED file
      BY DEF SyncSemantic, Begins
    <2>2. cmd' = Idle \/ cmd' = Goes(p)
      BY <2>1 DEF SyncSemantic
    <2>3. cmd' = Idle \/ /\ cmd' = [verb |-> "sync", profile |-> p, file |-> file]
                         /\ FileOf[file].cell.discover.on
      BY <2>2 DEF Goes, Cell0
    <2>4. FileOf[file].semantic.kind # "none" /\ file \in Files
      BY <2>1 DEF Semantic0, IndType, DataType
    <2> QED
      BY <2>3, <2>4, CmdIdle DEF CmdType, Commands, At
  <1> QED
    BY <1>1, <1>2, <1>3 DEF IndType

\* What a sync records of a catalog, and of the world it was read in.
LEMMA CatalogOf ==
    ASSUME NEW digest, NEW profile, NEW discover, NEW catalog, NEW at
    PROVE  LET record == CatalogRecord(digest, profile, discover, catalog)
                           ++ [world |-> at]
           IN  /\ record.kind = "catalog" /\ record.pins = Pins(discover)
               /\ record.catalog = catalog /\ record.world = at
  <1> DEFINE made == CatalogRecord(digest, profile, discover, catalog)
             record == made ++ [world |-> at]
  <1>1. /\ made["kind"] = "catalog" /\ made["pins"] = Pins(discover)
        /\ made["catalog"] = catalog
        /\ DOMAIN made = {"kind", "digest", "profile", "pins", "catalog"}
    BY DEF CatalogRecord
  <1> HIDE DEF made
  <1>2. \A field \in DOMAIN made : record[field] = made[field]
    BY DEF ++
  <1>3. /\ record["kind"] = "catalog" /\ record["pins"] = Pins(discover)
        /\ record["catalog"] = catalog
    BY <1>1, <1>2
  <1>4. record["world"] = at
    BY <1>1 DEF ++
  <1> QED
    BY <1>3, <1>4 DEF made

LEMMA SyncDiscoverType ==
    ASSUME IndType, NEW p \in DOMAIN Profiles, SyncDiscover(p)
    PROVE  IndType'
  <1>1. DataType'
    <2>1. \/ moves < MaxMoves /\ moves' = moves + 1
          \/ moves' = moves
      BY DEF SyncDiscover, Begins
    <2>2. UNCHANGED <<file, world, lake, cache>>
      BY DEF SyncDiscover
    <2> QED
      BY <2>1, <2>2, MoveCounts DEF IndType, DataType
  <1>2. RecordType'
    <2> DEFINE begun == IF cmd = Idle THEN file ELSE cmd.file
               cell == FileOf[begun].cell
               made == CatalogRecord(file, p, cell.discover, SyncableCatalog(cell, p))
                         ++ [world |-> world]
    <2>1. UNCHANGED records \/ records' = [records EXCEPT !.catalog = made]
      BY DEF SyncDiscover
    <2>2. made.kind = "catalog"
      BY CatalogOf
    <2> HIDE DEF made
    <2>3. CASE UNCHANGED records
      BY <2>3 DEF IndType, RecordType
    <2>4. CASE records' = [records EXCEPT !.catalog = made]
      <3>1. "catalog" \in DOMAIN RecordKinds /\ RecordKinds["catalog"] = "catalog"
        BY DEF RecordKinds
      <3> QED
        BY <2>2, <2>4, <3>1, RecordPut DEF IndType
    <2> QED
      BY <2>1, <2>3, <2>4
  <1>3. CmdType'
    BY CmdIdle DEF SyncDiscover
  <1> QED
    BY <1>1, <1>2, <1>3 DEF IndType

LEMMA VerifyType ==
    ASSUME IndType, NEW p \in DOMAIN Profiles, Verify(p)
    PROVE  IndType'
  <1>1. /\ UNCHANGED <<file, world, records, cache, lake>>
        /\ moves < MaxMoves /\ moves' = moves + 1
    BY DEF Verify, Begins
  <1>2. DataType'
    BY <1>1, MoveCounts DEF IndType, DataType
  <1>3. RecordType'
    BY <1>1 DEF IndType, RecordType
  <1>4. CmdType'
    <2>1. SemanticFresh \/ HasBound(Loaded(p))
      BY DEF Verify
    <2>2. cmd' = [verb |-> "verify", profile |-> p, file |-> file,
                  at |-> IF SemanticFresh THEN "semantic" ELSE "source"]
      BY DEF Verify
    <2>3. file \in Files
      BY DEF IndType, DataType
    <2>4. /\ Opened'.file = file /\ Opened'.records = records
          /\ Opened'.profile = Profiles[p] /\ Opened'.name = p
      BY <1>1, <2>2 DEF Opened, Here
    <2>5. SemanticFreshIn(Opened)' <=> SemanticFresh
      BY <2>4 DEF SemanticFresh, SemanticFreshIn
    <2>6. Checked' = Loaded(p)
      <3>1. /\ Here(p).file = file /\ Here(p).records = records
            /\ Here(p).profile = Profiles[p] /\ Here(p).name = p
        BY DEF Here
      <3> HIDE DEF Opened, Here
      <3> QED
        BY <2>4, <3>1 DEF Checked, Loaded, LoadedIn
    <2> HIDE DEF SemanticFresh
    <2>7. /\ cmd' \in Commands /\ cmd'.verb = "verify"
          /\ cmd'.at = "semantic" => SemanticFresh
          /\ cmd'.at = "source" => ~SemanticFresh
          /\ cmd'.at # "descriptions"
      BY <2>2, <2>3 DEF Commands
    <2>8. HasBound(Checked)' <=> HasBound(Loaded(p))
      BY <2>6 DEF HasBound
    <2> QED
      BY <2>1, <2>5, <2>7, <2>8 DEF CmdType, At
  <1> QED
    BY <1>2, <1>3, <1>4 DEF IndType

LEMMA WriteType ==
    ASSUME IndType,
           WriteSemanticCheck \/ WriteSourceCheck \/ WriteDescriptions \/ Stop
    PROVE  IndType'
  <1>1. DataType'
    <2>1. UNCHANGED <<file, world, cache, lake, moves>>
      BY DEF WriteSemanticCheck, WriteSourceCheck, WriteDescriptions, Stop
    <2> QED
      BY <2>1 DEF IndType, DataType
  <1>2. RecordType'
    <2>1. DOMAIN RecordKinds = {"catalog", "semanticCheck", "sourceCheck",
                                "descriptions"}
      BY DEF RecordKinds
    <2>2. CASE WriteSemanticCheck
      <3> DEFINE made == SemanticCheckRecord(file, cmd.profile,
                records.semantic.content,
                SemanticOutcome(ModelsIn(Opened), Checked.interface))
      <3>1. records' = [records EXCEPT !.semanticCheck = made]
        BY <2>2 DEF WriteSemanticCheck
      <3>2. made.kind = "semantic_check"
        BY DEF SemanticCheckRecord
      <3> HIDE DEF made
      <3> QED
        BY <2>1, <3>1, <3>2, RecordPut DEF IndType, RecordKinds
    <2>3. CASE WriteSourceCheck
      <3> DEFINE found == SourceCheckRecord(file, cmd.profile,
                Measured(Checked, lake[cmd.profile].built))
                 made == found ++ [of |-> cmd.file]
      <3>1. records' = [records EXCEPT !.sourceCheck = made]
        BY <2>3 DEF WriteSourceCheck
      <3>2. made.kind = "source_check"
        <4>1. found.kind = "source_check" /\ "kind" \in DOMAIN found
          BY DEF SourceCheckRecord
        <4> HIDE DEF found
        <4> QED
          BY <4>1 DEF ++
      <3> HIDE DEF made
      <3> QED
        BY <2>1, <3>1, <3>2, RecordPut DEF IndType, RecordKinds
    <2>4. CASE WriteDescriptions
      <3> DEFINE made == DescriptionsRecord(records.descriptions, file,
                cmd.profile, Checked, Native(Checked, cmd.profile))
      <3>1. records' = [records EXCEPT !.descriptions = made]
        BY <2>4 DEF WriteDescriptions
      <3>2. made.kind \in {"none", "source_descriptions"}
        <4>1. records.descriptions.kind \in {"none", "source_descriptions"}
          BY <2>1 DEF IndType, RecordType, RecordKinds
        <4> QED
          BY <4>1 DEF DescriptionsRecord
      <3> HIDE DEF made
      <3> QED
        BY <2>1, <3>1, <3>2, RecordPut DEF IndType, RecordKinds
    <2>5. CASE Stop
      BY <2>5 DEF Stop, IndType, RecordType
    <2> QED
      BY <2>2, <2>3, <2>4, <2>5
  <1>3. CmdType'
    <2>1. /\ records'.catalog = records.catalog
          /\ records'.semantic = records.semantic
      <3>1. DOMAIN records = RecordNames
        BY DEF IndType, RecordType
      <3> QED
        BY <3>1 DEF WriteSemanticCheck, WriteSourceCheck, WriteDescriptions,
                    Stop, RecordNames
    <2>3. \/ cmd' = Idle
          \/ /\ At("semantic") /\ HasBound(Checked)
             /\ cmd' = [cmd EXCEPT !.at = "source"]
          \/ /\ At("source")
             /\ cmd' = [cmd EXCEPT !.at = "descriptions"]
      BY DEF WriteSemanticCheck, WriteSourceCheck, WriteDescriptions, Stop
    <2>4. CASE cmd' = Idle
      BY <2>4, CmdIdle
    <2>5. ASSUME NEW next \in {"source", "descriptions"},
                 cmd.verb = "verify", cmd' = [cmd EXCEPT !.at = next],
                 HasBound(Checked)
          PROVE  CmdType'
      <3>1. PICK p \in DOMAIN Profiles, f \in Files,
                 at \in {"semantic", "source", "descriptions"} :
               cmd = [verb |-> "verify", profile |-> p, file |-> f, at |-> at]
        BY <2>5 DEF IndType, CmdType, Commands, Idle
      <3>2. cmd' = [verb |-> "verify", profile |-> p, file |-> f, at |-> next]
        BY <2>5, <3>1
      <3>3. HasBound(Checked)'
        BY <2>1, <2>5, <3>1, <3>2, OpenedStays
      <3> QED
        BY <3>2, <3>3 DEF CmdType, Commands, At
    <2>6. ASSUME At("source")
          PROVE  HasBound(Checked) /\ cmd.verb = "verify"
      BY <2>6 DEF IndType, CmdType, At
    <2> QED
      BY <2>3, <2>4, <2>5, <2>6 DEF At
  <1> QED
    BY <1>1, <1>2, <1>3 DEF IndType

\* The commands and the events that begin and end in one step, and leave the
\* records alone but for what a release publishes.
AtOnce ==
    \/ Edit
    \/ Move
    \/ \E p \in DOMAIN Profiles :
          \/ Run(p)
          \/ ReleaseNow(p)
          \/ \E execution \in 0..MaxMoves : AttachCopy(p, execution)
          \/ \E dataMounted \in BOOLEAN : Serve(p, dataMounted)
    \/ \E project \in Projects, cli \in DOMAIN Profiles \cup {""}, noData \in BOOLEAN :
          ServeProject(project, cli, noData)

\* What the commands of a single step leave alone.
LEMMA AtOnceFrame ==
    ASSUME AtOnce
    PROVE  /\ moves < MaxMoves /\ moves' = moves + 1
           /\ UNCHANGED <<cmd, cache>>
           /\ cmd = Idle \/ UNCHANGED records
           /\ \/ UNCHANGED file
              \/ UNCHANGED world /\ \E pair \in Edits : pair[1] = file /\ file' = pair[2]
           /\ \/ UNCHANGED world
              \/ UNCHANGED file /\ \E pair \in Moves : pair[1] = world /\ world' = pair[2]
           /\ \/ UNCHANGED records
              \/ \E p \in DOMAIN Profiles : ReleaseNow(p)
           /\ \/ UNCHANGED lake
              \/ \E p \in DOMAIN Profiles :
                    lake' = [lake EXCEPT ![p] = [built |-> world,
                                                 snapshots |-> @.snapshots + 1]]
  BY DEF AtOnce, Edit, Move, Run, ReleaseNow, AttachCopy, Serve, ServeProject, Begins

LEMMA AtOnceType ==
    ASSUME IndType, AtOnce
    PROVE  IndType'
  <1>1. moves < MaxMoves /\ moves' = moves + 1 /\ UNCHANGED cmd
    BY AtOnceFrame
  <1>2. DataType'
    <2>1. file' \in Files
      BY AtOnceFrame, FilesAssumption DEF IndType, DataType
    <2>2. world' \in Worlds
      BY AtOnceFrame, MovesAssumption DEF IndType, DataType
    <2>3. moves' \in 0..MaxMoves
      BY <1>1, MoveCounts DEF IndType
    <2>4. cache' \in Checkouts
      BY AtOnceFrame DEF IndType, DataType
    <2>5. /\ DOMAIN lake' = DOMAIN Profiles
          /\ \A p \in DOMAIN Profiles : lake'[p].snapshots \in 0..moves'
      <3>1. CASE UNCHANGED lake
        BY <1>1, <3>1, MoveCounts DEF IndType, DataType
      <3>2. ASSUME NEW p \in DOMAIN Profiles,
                   lake' = [lake EXCEPT ![p] =
                              [built |-> world, snapshots |-> @.snapshots + 1]]
            PROVE  /\ DOMAIN lake' = DOMAIN Profiles
                   /\ \A q \in DOMAIN Profiles :
                         lake'[q].snapshots \in 0..moves'
        BY <1>1, <3>2, MoveCounts DEF IndType, DataType
      <3> QED
        BY <3>1, <3>2, AtOnceFrame
    <2> QED
      BY <2>1, <2>2, <2>3, <2>4, <2>5 DEF DataType
  <1>3. RecordType'
    <2>1. CASE UNCHANGED records
      BY <2>1 DEF IndType, RecordType
    <2>2. ASSUME NEW p \in DOMAIN Profiles, ReleaseNow(p)
          PROVE  RecordType'
      <3>1. PICK made : records' = [records EXCEPT !.published = made]
        BY <2>2 DEF ReleaseNow
      <3> QED
        BY <3>1 DEF IndType, RecordType, RecordNames, RecordKinds
    <2> QED
      BY <2>1, <2>2, AtOnceFrame
  <1>4. CmdType'
    <2>1. CASE cmd = Idle
      BY <1>1, <2>1, CmdIdle
    <2>2. CASE UNCHANGED records
      BY <1>1, <2>2, CmdStays DEF IndType
    <2> QED
      BY <2>1, <2>2, AtOnceFrame
  <1> QED
    BY <1>2, <1>3, <1>4 DEF IndType

LEMMA TypeNext == IndType /\ [Next]_vars => IndType'
  <1> SUFFICES ASSUME IndType, [Next]_vars PROVE IndType'
    OBVIOUS
  <1>1. ASSUME NEW p \in DOMAIN Profiles, NEW stopped, NEW refetch,
               SyncSemantic(p, stopped, refetch)
        PROVE  IndType'
    BY <1>1, SyncSemanticType
  <1>2. ASSUME NEW p \in DOMAIN Profiles, SyncDiscover(p)
        PROVE  IndType'
    BY <1>2, SyncDiscoverType
  <1>3. ASSUME NEW p \in DOMAIN Profiles, Verify(p)
        PROVE  IndType'
    BY <1>3, VerifyType
  <1>4. CASE WriteSemanticCheck \/ WriteSourceCheck \/ WriteDescriptions \/ Stop
    BY <1>4, WriteType
  <1>5. CASE AtOnce
    BY <1>5, AtOnceType
  <1>6. CASE UNCHANGED vars
    <2>1. UNCHANGED <<file, world, moves, cache, lake, records, cmd>>
      BY <1>6 DEF vars
    <2>2. CmdType'
      BY <2>1, CmdStays DEF IndType
    <2> QED
      BY <2>1, <2>2 DEF IndType, DataType, RecordType
  <1>7. \/ \E p \in DOMAIN Profiles : SyncDiscover(p) \/ Verify(p)
        \/ \E p \in DOMAIN Profiles : \E stopped, refetch :
              SyncSemantic(p, stopped, refetch)
        \/ WriteSemanticCheck \/ WriteSourceCheck \/ WriteDescriptions \/ Stop
        \/ AtOnce
        \/ UNCHANGED vars
    BY DEF Next, AtOnce
  <1> QED
    BY <1>1, <1>2, <1>3, <1>4, <1>5, <1>6, <1>7

\* Every file is of its kind, and a command that is killed anywhere leaves
\* the next one nothing it cannot count on: a sync in hand is of a cell that
\* discovers, a verify in hand has what it is about to record.
THEOREM TypeCorrect == Spec => []TypeOK
  <1>1. Spec => []IndType
    BY TypeInit, TypeNext, PTL DEF Spec
  <1> QED
    BY <1>1, TypeFollows, PTL

-----------------------------------------------------------------------------
(* The snapshot of the semantic model. A record is of the source that some *)
(* cell.yaml gave; if that source was pinned, what it holds is what the    *)
(* remote holds under the pinned commit, today as on the day it was        *)
(* fetched: all of it under a path, and under the root what of it the      *)
(* checkout had.                                                           *)

Pin(source) == source.kind = "git" /\ source.ref.form = "sha"

ContentAt(commit, path) == Merged(Outside.upstream.trees[<<commit, path>>]).content

IsOfThePin(record) ==
    /\ record.commit = record.source.ref.name
    /\ record.commit \in Outside.upstream.commits
    /\ record.content \subseteq ContentAt(record.commit, record.source.path)
    /\ record.source.path # ""
         => record.content = ContentAt(record.commit, record.source.path)

SnapInv ==
    records.semantic.kind # "none" =>
        /\ records.semantic.digest \in Files
        /\ records.semantic.source = FileOf[records.semantic.digest].semantic
        /\ Pin(records.semantic.source) => IsOfThePin(records.semantic)

\* A fetch that is not refused found what the ref means.
LEMMA FetchFinds ==
    ASSUME NEW stopped, Fetched(stopped).refusal = Accepted,
           Pin(Semantic0)
    PROVE  /\ Fetched(stopped).commit = Semantic0.ref.name
           /\ Semantic0.ref.name \in Outside.upstream.commits
  <1> DEFINE upstream == Outside.upstream
             ref == Semantic0.ref
             list == <<
            UrlRefusal(Semantic0.url), RefRefusal(ref),
            SubpathRefusal(Semantic0.path),
            IF stopped \in {"init", "fetch"} THEN GitError("timeout") ELSE Accepted,
            IF Remote(cache.at, ref, stopped) = "bare"
            THEN GitError("no origin") ELSE Accepted,
            IF ~upstream.reachable THEN GitError("auth") ELSE Accepted,
            IF Target(upstream, ref) = "" THEN GitError("ref") ELSE Accepted>>
             arrives == FirstRefusal(list)
             all == <<arrives, CheckoutRefusal(Semantic0.path),
                      IF stopped = "checkout" THEN GitError("timeout") ELSE Accepted>>
  <1>1. /\ Fetched(stopped).refusal = FirstRefusal(all)
        /\ Fetched(stopped).commit =
             IF FirstRefusal(all) = Accepted THEN Target(upstream, ref) ELSE ""
    BY DEF Fetched, Fetch
  <1>2. arrives = Accepted
    <2>1. IsSeq(all) /\ DOMAIN all = 1..3 /\ all[1] = arrives
      <3> HIDE DEF arrives
      <3> QED
        BY DEF IsSeq
    <2> HIDE DEF all, arrives
    <2> QED
      BY <1>1, <2>1, NoRefusal
  <1>9. IsSeq(list) /\ DOMAIN list = 1..7
    BY DEF IsSeq
  <1>3. list[7] = IF Target(upstream, ref) = "" THEN GitError("ref") ELSE Accepted
    OBVIOUS
  <1>8. FirstRefusal(list) = Accepted
    BY <1>2
  <1> HIDE DEF list, all, arrives
  <1>4. list[7] = Accepted
    BY <1>8, <1>9, NoRefusal
  <1>5. GitError("ref") # Accepted
    BY DEF GitError, Accepted
  <1>6. Target(upstream, ref) # ""
    BY <1>3, <1>4, <1>5
  <1>7. Target(upstream, ref) =
          IF ref.name \in upstream.commits THEN ref.name ELSE ""
    BY DEF Target, Pin
  <1> QED
    BY <1>1, <1>6, <1>7

\* Only a sync writes the snapshot.
LEMMA SemanticStays ==
    ASSUME IndType, [Next]_vars
    PROVE  \/ UNCHANGED records.semantic
           \/ \E p \in DOMAIN Profiles : \E stopped, refetch :
                 SyncSemantic(p, stopped, refetch)
  <1> USE DEF IndType, RecordType, RecordNames
  <1>1. CASE WriteSemanticCheck \/ WriteSourceCheck \/ WriteDescriptions \/ Stop
    BY <1>1 DEF WriteSemanticCheck, WriteSourceCheck, WriteDescriptions, Stop
  <1>2. CASE AtOnce
    BY <1>2, AtOnceFrame DEF ReleaseNow
  <1>3. ASSUME NEW p \in DOMAIN Profiles, SyncDiscover(p) \/ Verify(p)
        PROVE  UNCHANGED records.semantic
    BY <1>3 DEF SyncDiscover, Verify
  <1>4. CASE UNCHANGED vars
    BY <1>4 DEF vars
  <1> QED
    BY <1>1, <1>2, <1>3, <1>4 DEF Next, AtOnce

\* The world moves only when nothing else does, and keeps every commit.
LEMMA WorldMoves ==
    ASSUME IndType, [Next]_vars
    PROVE  \/ UNCHANGED world
           \/ \E pair \in Moves : pair[1] = world /\ world' = pair[2]
  <1>1. CASE AtOnce
    BY <1>1, AtOnceFrame
  <1>2. CASE ~AtOnce
    BY <1>2 DEF Next, AtOnce, SyncSemantic, SyncDiscover, Verify,
                WriteSemanticCheck, WriteSourceCheck, WriteDescriptions, Stop, vars
  <1> QED
    BY <1>1, <1>2

LEMMA CommitsStay ==
    ASSUME IndType, [Next]_vars
    PROVE  /\ Outside.upstream.commits \subseteq Outside'.upstream.commits
           /\ \A commit \in Outside.upstream.commits, path \in Subpaths :
                 Outside'.upstream.trees[<<commit, path>>]
                   = Outside.upstream.trees[<<commit, path>>]
  <1>1. CASE UNCHANGED world
    BY <1>1 DEF Outside
  <1>2. ASSUME NEW pair \in Moves, pair[1] = world, world' = pair[2]
        PROVE  /\ Outside.upstream.commits \subseteq Outside'.upstream.commits
               /\ \A commit \in Outside.upstream.commits, path \in Subpaths :
                     Outside'.upstream.trees[<<commit, path>>]
                       = Outside.upstream.trees[<<commit, path>>]
    BY <1>2, CommitsAssumption DEF Outside
  <1> QED
    BY <1>1, <1>2, WorldMoves

LEMMA SnapInit == Init => SnapInv
  <1> SUFFICES ASSUME Init PROVE SnapInv
    OBVIOUS
  <1>1. records.semantic = None
    BY DEF Init
  <1> QED
    BY <1>1 DEF SnapInv, None

\* What a sync makes of the tree it read.
LEMMA SemanticRecordOf ==
    ASSUME NEW commit, NEW cone
    PROVE  /\ SemanticRecord(commit, cone).digest = file
           /\ SemanticRecord(commit, cone).source = Semantic0
           /\ SemanticRecord(commit, cone).commit = commit
           /\ SemanticRecord(commit, cone).content =
                Merged(SemanticTree(commit, cone)).content
  BY DEF SemanticRecord

\* A checkout has no file that the commit has not, and all those of a path.
LEMMA CheckoutIsPart ==
    ASSUME NEW tree, NEW path, NEW cone
    PROVE  /\ Merged(CheckedOut(tree, path, cone)).content \subseteq Merged(tree).content
           /\ path # "" => Merged(CheckedOut(tree, path, cone)).content
                             = Merged(tree).content
  <1>1. ASSUME NEW t
        PROVE  Merged(t).content = {<<f.order, f.content>> : f \in Walked(t)}
    BY DEF Merged
  <1>2. Walked(CheckedOut(tree, path, cone)) \subseteq Walked(tree)
    BY DEF Walked, CheckedOut
  <1>3. path # "" => CheckedOut(tree, path, cone) = tree
    BY DEF CheckedOut
  <1>4. Merged(CheckedOut(tree, path, cone)).content \subseteq Merged(tree).content
    <2> DEFINE part == CheckedOut(tree, path, cone)
    <2>1. /\ Merged(part).content = {<<f.order, f.content>> : f \in Walked(part)}
          /\ Merged(tree).content = {<<f.order, f.content>> : f \in Walked(tree)}
      BY <1>1
    <2> HIDE DEF part
    <2>2. Walked(part) \subseteq Walked(tree)
      BY <1>2 DEF part
    <2> QED
      BY <2>1, <2>2 DEF part
  <1> QED
    BY <1>3, <1>4

LEMMA SnapNext ==
    ASSUME IndType, SnapInv, [Next]_vars
    PROVE  SnapInv'
  <1>1. CASE UNCHANGED records.semantic
    <2> SUFFICES ASSUME records.semantic.kind # "none", Pin(records.semantic.source)
                 PROVE  IsOfThePin(records.semantic)'
      BY <1>1 DEF SnapInv, Pin
    <2>1. records.semantic.source.path \in Subpaths
      BY DEF SnapInv, Pin, Subpaths
    <2>2. IsOfThePin(records.semantic)
      BY DEF SnapInv
    <2> QED
      BY <1>1, <2>1, <2>2, CommitsStay DEF IsOfThePin, ContentAt
  <1>2. ASSUME NEW p \in DOMAIN Profiles, NEW stopped, NEW refetch,
               SyncSemantic(p, stopped, refetch),
               Reusable(records.semantic, Semantic0), ~refetch
        PROVE  SnapInv'
    <2>1. /\ records' = [records EXCEPT !.semantic.digest = file]
          /\ UNCHANGED world
      BY <1>2 DEF SyncSemantic
    <2>2. /\ records.semantic.kind = "commit" /\ Pin(Semantic0)
          /\ records.semantic.source = Semantic0
      BY <1>2 DEF Reusable, Pin
    <2>3. /\ records'.semantic.digest = file
          /\ records'.semantic.kind = "commit"
          /\ records'.semantic.source = records.semantic.source
          /\ records'.semantic.commit = records.semantic.commit
          /\ records'.semantic.content = records.semantic.content
      BY <2>1, <2>2 DEF IndType, RecordType, RecordNames
    <2>4. IsOfThePin(records.semantic)
      BY <2>2 DEF SnapInv
    <2>5. IsOfThePin(records.semantic)'
      BY <2>1, <2>3, <2>4 DEF IsOfThePin, ContentAt, Outside
    <2> QED
      BY <2>2, <2>3, <2>5 DEF SnapInv, Semantic0, IndType, DataType
  <1>3. ASSUME NEW p \in DOMAIN Profiles, NEW stopped, NEW refetch,
               SyncSemantic(p, stopped, refetch),
               ~(Reusable(records.semantic, Semantic0) /\ ~refetch),
               ~UNCHANGED records.semantic
        PROVE  SnapInv'
    <2> DEFINE git == Semantic0.kind = "git"
               fetched == IF git THEN Fetched(stopped)
                          ELSE [refusal |-> DirRefusal(Semantic0.dir),
                                cache |-> cache, commit |-> ""]
               cone == fetched.cache.cone
    <2>1. /\ fetched.refusal = Accepted
          /\ records' = [records EXCEPT !.semantic =
                             SemanticRecord(fetched.commit, cone)]
          /\ UNCHANGED world
      BY <1>3 DEF SyncSemantic
    <2>2. records'.semantic = SemanticRecord(fetched.commit, cone)
      BY <2>1 DEF IndType, RecordType, RecordNames
    <2>3. /\ records'.semantic.digest = file
          /\ records'.semantic.source = Semantic0
          /\ records'.semantic.commit = fetched.commit
          /\ records'.semantic.content =
               Merged(SemanticTree(fetched.commit, cone)).content
      <3> HIDE DEF fetched, cone
      <3> QED
        BY <2>2, SemanticRecordOf
    <2>4. ASSUME Pin(Semantic0)
          PROVE  IsOfThePin(records.semantic)'
      <3>1. fetched = Fetched(stopped)
        BY <2>4 DEF Pin
      <3>2. /\ fetched.commit = Semantic0.ref.name
            /\ Semantic0.ref.name \in Outside.upstream.commits
        BY <2>1, <2>4, <3>1, FetchFinds
      <3> HIDE DEF fetched, cone
      <3>3. SemanticTree(fetched.commit, cone)
              = CheckedOut(Outside.upstream.trees[<<fetched.commit, Semantic0.path>>],
                           Semantic0.path, cone)
        BY <2>4 DEF SemanticTree, Pin
      <3>4. /\ records'.semantic.content
                 \subseteq ContentAt(fetched.commit, Semantic0.path)
            /\ Semantic0.path # "" => records'.semantic.content
                                       = ContentAt(fetched.commit, Semantic0.path)
        <4> DEFINE tree == Outside.upstream.trees[<<fetched.commit, Semantic0.path>>]
                   path == Semantic0.path
                   part == CheckedOut(tree, path, cone)
        <4>1. /\ Merged(part).content \subseteq Merged(tree).content
              /\ path # "" => Merged(part).content = Merged(tree).content
          <5> HIDE DEF tree, path
          <5> QED
            BY CheckoutIsPart
        <4>2. records'.semantic.content = Merged(part).content
          BY <2>3, <3>3
        <4>3. ContentAt(fetched.commit, Semantic0.path) = Merged(tree).content
          BY DEF ContentAt
        <4> HIDE DEF tree, part
        <4> QED
          BY <4>1, <4>2, <4>3
      <3>5. Outside' = Outside
        BY <2>1 DEF Outside
      <3> QED
        BY <2>3, <3>2, <3>4, <3>5 DEF IsOfThePin, ContentAt
    <2> QED
      BY <2>3, <2>4 DEF SnapInv, Semantic0, IndType, DataType
  <1> QED
    BY <1>1, <1>2, <1>3, SemanticStays

\* A record that passes for the snapshot of a pinned source holds nothing of
\* another source and, under a path, all of this one, whichever edits, syncs
\* and kills it went through: neither the reuse of a record without a fetch
\* (`sync_semantic`) nor a checkout that serves several sources brings it the
\* content of another. Of a source without a path the record may lack files.
THEOREM ReuseIsFaithful == Spec => []SnapshotIsOfItsSource
  <1>1. Spec => [](IndType /\ SnapInv)
    BY TypeInit, TypeNext, SnapInit, SnapNext, PTL DEF Spec
  <1>2. IndType /\ SnapInv => SnapshotIsOfItsSource
    <2> SUFFICES ASSUME SnapInv, SemanticFresh, Pin(Semantic0)
                 PROVE  /\ records.semantic.content \subseteq PinnedContent
                        /\ Semantic0.path # ""
                             => records.semantic.content = PinnedContent
      BY DEF SnapshotIsOfItsSource, PinnedSnapshot, Pin
    <2> DEFINE content == ContentAt(Semantic0.ref.name, Semantic0.path)
    <2>3. content = PinnedContent
      BY DEF ContentAt, PinnedContent
    <2> HIDE DEF content
    <2>1. records.semantic.kind # "none" /\ records.semantic.digest = file
      BY DEF SemanticFresh, SemanticFreshIn
    <2>2. records.semantic.source = Semantic0
      BY <2>1 DEF SnapInv, Semantic0
    <2> QED
      BY <2>1, <2>2, <2>3 DEF SnapInv, IsOfThePin, content
  <1> QED
    BY <1>1, <1>2, PTL

-----------------------------------------------------------------------------
(* The pin of a release: the ref that was released is a commit, the one    *)
(* that was synced, and the remote still has it.                           *)

PublishedInv ==
    records.published.kind # "none" /\ records.published.source.kind = "git" =>
        /\ records.published.source.ref.form = "sha"
        /\ records.published.commit = records.published.source.ref.name
        /\ records.published.commit \in Outside.upstream.commits

\* What a release without a refusal knows of a source in git.
LEMMA PinMeans ==
    ASSUME NEW source, NEW record, source.kind = "git",
           PinRefusal(source, record) = Accepted
    PROVE  /\ record.kind = "commit" /\ source.ref.form = "sha"
           /\ record.commit = source.ref.name
  <1> DEFINE list == <<
        <<"release: semantic model missing or stale", record.kind = "none">>,
        <<"release: semantic model not from git",
          record.kind # "none" /\ record.kind # "commit">>,
        <<"release: ref is not a commit", source.ref.form # "sha">>,
        <<"release: synced at another commit",
          /\ source.ref.form = "sha" /\ record.kind = "commit"
          /\ record.commit # source.ref.name>> >>
  <1>1. FirstReason(list) = Accepted
    BY DEF PinRefusal
  <1>2. IsSeq(list) /\ DOMAIN list = {1, 2, 3, 4}
    BY DEF IsSeq
  <1>3. /\ (record.kind = "none") <=> list[1][2]
        /\ (record.kind # "none" /\ record.kind # "commit") <=> list[2][2]
        /\ (source.ref.form # "sha") <=> list[3][2]
        /\ (/\ source.ref.form = "sha" /\ record.kind = "commit"
            /\ record.commit # source.ref.name) <=> list[4][2]
    OBVIOUS
  <1>4. /\ list[1][1] = "release: semantic model missing or stale"
        /\ list[2][1] = "release: semantic model not from git"
        /\ list[3][1] = "release: ref is not a commit"
        /\ list[4][1] = "release: synced at another commit"
    OBVIOUS
  <1> HIDE DEF list
  <1>5. \A n \in DOMAIN list : list[n][2] => list[n][1] # Accepted
    BY <1>2, <1>4 DEF Accepted
  <1>6. \A n \in DOMAIN list : ~list[n][2]
    BY <1>1, <1>2, <1>5, NoReason
  <1> QED
    BY <1>2, <1>3, <1>6

\* A release that is not refused has passed `check_release_pinned`.
LEMMA ReleaseMeans ==
    ASSUME NEW source, NEW record, NEW snapshots,
           ReleaseRefusal(source, record, snapshots) = Accepted
    PROVE  PinRefusal(source, record) = Accepted
  <1> DEFINE list == <<PinRefusal(source, record),
                       IF snapshots = {} THEN "release: no snapshots" ELSE Accepted>>
  <1>1. FirstRefusal(list) = Accepted
    BY DEF ReleaseRefusal
  <1>2. IsSeq(list) /\ DOMAIN list = {1, 2}
    BY DEF IsSeq
  <1>3. list[1] = PinRefusal(source, record)
    OBVIOUS
  <1> HIDE DEF list
  <1> QED
    BY <1>1, <1>2, <1>3, NoRefusal

\* What is written of a release.
LEMMA PublishedOf ==
    ASSUME NEW cell, NEW snapshots, NEW source, NEW commit
    PROVE  LET record == Release(cell, snapshots)
                           ++ [kind |-> "published", source |-> source,
                               commit |-> commit]
           IN  record.source = source /\ record.commit = commit
  <1> DEFINE made == Release(cell, snapshots)
             more == [kind |-> "published", source |-> source, commit |-> commit]
             record == made ++ more
  <1>1. DOMAIN made = {"snapshot", "routes", "versions", "descriptions",
                       "meaning", "docs"}
    BY DEF Release
  <1>2. /\ DOMAIN more = {"kind", "source", "commit"}
        /\ more["source"] = source /\ more["commit"] = commit
    OBVIOUS
  <1> HIDE DEF made, more
  <1>3. record["source"] = source /\ record["commit"] = commit
    BY <1>1, <1>2 DEF ++
  <1> QED
    BY <1>3 DEF made, more

\* Only a release writes the pin.
LEMMA PublishedStays ==
    ASSUME IndType, [Next]_vars
    PROVE  \/ UNCHANGED records.published
           \/ \E p \in DOMAIN Profiles : ReleaseNow(p)
  <1> USE DEF IndType, RecordType, RecordNames
  <1>1. CASE WriteSemanticCheck \/ WriteSourceCheck \/ WriteDescriptions \/ Stop
    BY <1>1 DEF WriteSemanticCheck, WriteSourceCheck, WriteDescriptions, Stop
  <1>2. CASE AtOnce
    BY <1>2, AtOnceFrame
  <1>3. ASSUME NEW p \in DOMAIN Profiles, SyncDiscover(p) \/ Verify(p)
        PROVE  UNCHANGED records.published
    BY <1>3 DEF SyncDiscover, Verify
  <1>4. ASSUME NEW p \in DOMAIN Profiles, NEW stopped, NEW refetch,
               SyncSemantic(p, stopped, refetch)
        PROVE  UNCHANGED records.published
    BY <1>4 DEF SyncSemantic
  <1>5. CASE UNCHANGED vars
    BY <1>5 DEF vars
  <1> QED
    BY <1>1, <1>2, <1>3, <1>4, <1>5 DEF Next, AtOnce

LEMMA PublishedNext ==
    ASSUME IndType, SnapInv, PublishedInv, [Next]_vars
    PROVE  PublishedInv'
  <1>1. CASE UNCHANGED records.published
    BY <1>1, CommitsStay DEF PublishedInv
  <1>2. ASSUME NEW p \in DOMAIN Profiles, ReleaseNow(p)
        PROVE  PublishedInv'
    <2> DEFINE commit == IF Semantic0.kind = "git"
                         THEN records.semantic.commit ELSE ""
               made == Release(Loaded(p), 1..lake[p].snapshots)
                         ++ [kind |-> "published", source |-> Semantic0,
                             commit |-> commit]
    <2>1. /\ records' = [records EXCEPT !.published = made]
          /\ UNCHANGED world
      BY <1>2 DEF ReleaseNow
    <2>2. made.source = Semantic0 /\ made.commit = commit
      <3> HIDE DEF commit
      <3> QED
        BY PublishedOf, SMTT(20)
    <2> HIDE DEF made
    <2>3. /\ records'.published.source = Semantic0
          /\ records'.published.commit = commit
      BY <2>1, <2>2 DEF IndType, RecordType, RecordNames
    <2>4. ASSUME Semantic0.kind = "git"
          PROVE  /\ Semantic0.ref.form = "sha"
                 /\ commit = Semantic0.ref.name
                 /\ commit \in Outside.upstream.commits
      <3> DEFINE record == IF SemanticFresh THEN records.semantic ELSE None
      <3>1. PinRefusal(Semantic0, record) = Accepted
        BY <1>2, ReleaseMeans DEF ReleaseNow
      <3> HIDE DEF record
      <3>2. /\ record.kind = "commit" /\ Semantic0.ref.form = "sha"
            /\ record.commit = Semantic0.ref.name
        BY <2>4, <3>1, PinMeans
      <3>3. SemanticFresh
        BY <3>2 DEF record, None
      <3>4. record = records.semantic
        BY <3>3 DEF record
      <3>5. /\ records.semantic.kind # "none"
            /\ records.semantic.digest = file
        BY <3>3 DEF SemanticFresh, SemanticFreshIn
      <3>6. records.semantic.source = Semantic0
        BY <3>5 DEF SnapInv, Semantic0
      <3>7. IsOfThePin(records.semantic)
        BY <2>4, <3>2, <3>5, <3>6 DEF SnapInv, Pin
      <3> QED
        BY <2>4, <3>2, <3>4, <3>7 DEF IsOfThePin
    <2>5. Outside' = Outside
      BY <2>1 DEF Outside
    <2> QED
      BY <2>3, <2>4, <2>5 DEF PublishedInv
  <1> QED
    BY <1>1, <1>2, PublishedStays

LEMMA PublishedInit == Init => PublishedInv
  <1> SUFFICES ASSUME Init PROVE PublishedInv
    OBVIOUS
  <1>1. records.published = None
    BY DEF Init
  <1> QED
    BY <1>1 DEF PublishedInv, None

\* ADR 0018 s3: a release of a cell whose model comes from git names a commit,
\* and the remote finds that commit on any later day, whatever was pushed,
\* edited or synced since: `check_release_pinned` is enough.
THEOREM ReleasesStayReproducible == Spec => []ReleaseIsReproducible
  <1>1. Spec => [](IndType /\ SnapInv /\ PublishedInv)
    BY TypeInit, TypeNext, SnapInit, SnapNext, PublishedInit, PublishedNext,
       PTL DEF Spec
  <1>2. PublishedInv => ReleaseIsReproducible
    BY DEF PublishedInv, ReleaseIsReproducible, Target
  <1> QED
    BY <1>1, <1>2, PTL

-----------------------------------------------------------------------------
(* The ratchet of a discovery. In a record no two models are of one object, *)
(* since their exports would share a name; so the first model that a sync   *)
(* finds of an object is the only one, in the record that it replaces as in *)
(* the one that it is about to write.                                       *)

ObjectsOnce(models) ==
    \A m, n \in DOMAIN models : models[m].object = models[n].object => m = n

CatalogInv ==
    records.catalog.kind # "none" => ObjectsOnce(records.catalog.catalog.models)

\* Models that are exported under one name are one model.
LEMMA NamesDiffer ==
    ASSUME NEW discover, NEW models, NamesRefusal(discover, models) = Accepted
    PROVE  \A m, n \in DOMAIN models :
              ExportName(discover, models[m].object)
                = ExportName(discover, models[n].object) => m = n
  <1> DEFINE name(n) == ExportName(discover, models[n].object)
             invalid == \E n \in DOMAIN models : name(n) \notin Identifiers
             shared == \E m, n \in DOMAIN models : m # n /\ name(m) = name(n)
             list == << <<"discover: no valid export name", invalid>>,
                        <<"discover: two models, one name", shared>> >>
  <1>1. FirstReason(list) = Accepted
    BY DEF NamesRefusal
  <1>2. ~shared
    <2> HIDE DEF invalid, shared
    <2>1. IsSeq(list) /\ DOMAIN list = {1, 2}
      BY DEF IsSeq
    <2>2. /\ invalid <=> list[1][2]
          /\ shared <=> list[2][2]
          /\ list[1][1] = "discover: no valid export name"
          /\ list[2][1] = "discover: two models, one name"
      OBVIOUS
    <2> HIDE DEF list
    <2>3. \A n \in DOMAIN list : list[n][2] => list[n][1] # Accepted
      BY <2>1, <2>2 DEF Accepted
    <2>4. \A n \in DOMAIN list : ~list[n][2]
      BY <1>1, <2>1, <2>3, NoReason
    <2> QED
      BY <2>1, <2>2, <2>4
  <1> QED
    BY <1>2

\* A catalog that is not refused for its names has each object once.
LEMMA NamesMean ==
    ASSUME NEW discover, NEW models, NamesRefusal(discover, models) = Accepted
    PROVE  ObjectsOnce(models)
  BY NamesDiffer DEF ObjectsOnce

\* Of an object that occurs once, the first model is the model.
LEMMA ModelOfObject ==
    ASSUME NEW catalog, ObjectsOnce(catalog.models),
           NEW model \in ToSet(catalog.models)
    PROVE  ModelOf(catalog, model.object) = <<model>>
  <1> DEFINE at == {n \in DOMAIN catalog.models :
                       catalog.models[n].object = model.object}
  <1>1. PICK k \in DOMAIN catalog.models : catalog.models[k] = model
    BY DEF ToSet
  <1>2. at = {k}
    BY <1>1 DEF ObjectsOnce
  <1>3. (CHOOSE n \in at : \A m \in at \ {n} : n < m) = k
    BY <1>2
  <1> QED
    BY <1>1, <1>2, <1>3 DEF ModelOf

\* A sync that passes the ratchet keeps the data of an unchanged pin.
LEMMA RatchetMeans ==
    ASSUME NEW previous, NEW discover, NEW catalog, NEW digest,
           previous.kind # "none",
           RatchetRefusal(previous, discover, catalog, digest) = Accepted,
           NEW object \in DOMAIN Pins(discover) \cap DOMAIN previous.pins,
           ModelOf(previous.catalog, object) # <<>>,
           ModelOf(catalog, object) # <<>>,
           Pins(discover)[object] = previous.pins[object]
    PROVE  ModelOf(previous.catalog, object)[1].dataHash
             = ModelOf(catalog, object)[1].dataHash
  <1> DEFINE pins == Pins(discover)
             moved ==
            \E other \in DOMAIN pins \cap DOMAIN previous.pins :
                /\ ModelOf(previous.catalog, other) # <<>>
                /\ ModelOf(catalog, other) # <<>>
                /\ ModelOf(previous.catalog, other)[1].dataHash
                     # ModelOf(catalog, other)[1].dataHash
                /\ pins[other] = previous.pins[other]
             list == << <<"discover: supported model moved", moved>> >>
  <1>1. FirstReason(list) = Accepted
    BY DEF RatchetRefusal
  <1>2. ~moved
    <2> HIDE DEF moved
    <2>1. IsSeq(list) /\ DOMAIN list = {1}
      BY DEF IsSeq
    <2>2. /\ moved <=> list[1][2]
          /\ list[1][1] = "discover: supported model moved"
      OBVIOUS
    <2> HIDE DEF list
    <2>3. \A n \in DOMAIN list : list[n][2] => list[n][1] # Accepted
      BY <2>1, <2>2 DEF Accepted
    <2>4. \A n \in DOMAIN list : ~list[n][2]
      BY <1>1, <2>1, <2>3, NoReason
    <2> QED
      BY <2>1, <2>2, <2>4
  <1> QED
    BY <1>2

\* A discovery that is not refused has passed the ratchet and the names.
LEMMA SyncMeans ==
    ASSUME NEW cell, NEW p, DiscoveryRefusal(cell, p) = Accepted
    PROVE  /\ RatchetRefusal(records.catalog, cell.discover,
                             SyncableCatalog(cell, p), file) = Accepted
           /\ NamesRefusal(cell.discover, SyncableCatalog(cell, p).models) = Accepted
  <1> DEFINE catalog == SyncableCatalog(cell, p)
             names == NamesRefusal(cell.discover, catalog.models)
             ratchet == RatchetRefusal(records.catalog, cell.discover, catalog, file)
             list == <<ratchet, names,
                       IF names = Accepted
                       THEN DocsRefusal(Materialized(cell, catalog, FALSE))
                       ELSE Accepted>>
  <1>1. SyncRefusal(cell, records.catalog, catalog, file) = Accepted
    BY DEF DiscoveryRefusal, Then
  <1>2. FirstRefusal(list) = Accepted
    BY <1>1 DEF SyncRefusal
  <1>3. IsSeq(list) /\ DOMAIN list = {1, 2, 3}
    BY DEF IsSeq
  <1> HIDE DEF names, ratchet
  <1>4. list[1] = ratchet /\ list[2] = names
    OBVIOUS
  <1> HIDE DEF list
  <1>5. ratchet = Accepted /\ names = Accepted
    BY <1>2, <1>3, <1>4, NoRefusal
  <1> QED
    BY <1>5 DEF ratchet, names

\* A sync of the cell it has loaded writes the catalog, for cell.yaml as it
\* is by then.
SyncsCatalog(cell, p) ==
    /\ DiscoveryRefusal(cell, p) = Accepted
    /\ records'.catalog =
         CatalogRecord(file, p, cell.discover, SyncableCatalog(cell, p))
           ++ [world |-> world]

\* Nothing else does.
LEMMA CatalogStays ==
    ASSUME IndType, [Next]_vars
    PROVE  \/ UNCHANGED records.catalog
           \/ \E p \in DOMAIN Profiles : \E cell : SyncsCatalog(cell, p)
  <1> USE DEF IndType, RecordType, RecordNames
  <1>1. CASE WriteSemanticCheck \/ WriteSourceCheck \/ WriteDescriptions \/ Stop
    BY <1>1 DEF WriteSemanticCheck, WriteSourceCheck, WriteDescriptions, Stop
  <1>2. CASE AtOnce
    BY <1>2, AtOnceFrame DEF ReleaseNow
  <1>3. ASSUME NEW p \in DOMAIN Profiles, SyncDiscover(p)
        PROVE  UNCHANGED records.catalog \/ \E cell : SyncsCatalog(cell, p)
    <2> DEFINE begun == IF cmd = Idle THEN file ELSE cmd.file
               cell == FileOf[begun].cell
    <2>1. UNCHANGED records \/ SyncsCatalog(cell, p)
      BY <1>3 DEF SyncDiscover, SyncsCatalog
    <2> QED
      BY <2>1
  <1>4. ASSUME NEW p \in DOMAIN Profiles, Verify(p)
        PROVE  UNCHANGED records.catalog
    BY <1>4 DEF Verify
  <1>5. ASSUME NEW p \in DOMAIN Profiles, NEW stopped, NEW refetch,
               SyncSemantic(p, stopped, refetch)
        PROVE  UNCHANGED records.catalog
    BY <1>5 DEF SyncSemantic
  <1>6. CASE UNCHANGED vars
    BY <1>6 DEF vars
  <1> QED
    BY <1>1, <1>2, <1>3, <1>4, <1>5, <1>6 DEF Next, AtOnce

LEMMA CatalogInit == Init => CatalogInv
  <1> SUFFICES ASSUME Init PROVE CatalogInv
    OBVIOUS
  <1>1. records.catalog = None
    BY DEF Init
  <1> QED
    BY <1>1 DEF CatalogInv, None

LEMMA CatalogNext ==
    ASSUME IndType, CatalogInv, [Next]_vars
    PROVE  CatalogInv'
  <1>1. CASE UNCHANGED records.catalog
    BY <1>1 DEF CatalogInv
  <1>2. ASSUME NEW p \in DOMAIN Profiles, NEW cell, SyncsCatalog(cell, p)
        PROVE  CatalogInv'
    <2>1. records'.catalog.catalog = SyncableCatalog(cell, p)
      BY <1>2, CatalogOf DEF SyncsCatalog
    <2>2. ObjectsOnce(SyncableCatalog(cell, p).models)
      BY <1>2, SyncMeans, NamesMean DEF SyncsCatalog
    <2> QED
      BY <2>1, <2>2 DEF CatalogInv
  <1> QED
    BY <1>1, <1>2, CatalogStays

Ratchets ==
    LET old == records.catalog
        new == records'.catalog
    IN  old.kind # "none" /\ new.kind # "none" =>
          \A object \in DOMAIN old.pins \cap DOMAIN new.pins :
              \A was \in Pinned1(old, object), is \in Pinned1(new, object) :
                  was[1] = is[1] => was[2] = is[2]

\* A record that stays is at odds with nothing; one that a sync replaces was
\* held against it, whoever wrote it.
LEMMA StepRatchets ==
    ASSUME IndType, CatalogInv, CatalogInv', [Next]_vars
    PROVE  Ratchets
  <1> DEFINE old == records.catalog
             new == records'.catalog
  <1> SUFFICES ASSUME old.kind # "none", new.kind # "none",
                      NEW object \in DOMAIN old.pins \cap DOMAIN new.pins,
                      NEW was \in ToSet(old.catalog.models), was.object = object,
                      NEW is \in ToSet(new.catalog.models), is.object = object,
                      old.pins[object] = new.pins[object]
               PROVE  was.dataHash = is.dataHash
    BY DEF Ratchets, Pinned1
  <1>1. ModelOf(old.catalog, object) = <<was>>
    BY ModelOfObject DEF CatalogInv
  <1>2. ModelOf(new.catalog, object) = <<is>>
    BY ModelOfObject DEF CatalogInv
  <1>3. CASE UNCHANGED records.catalog
    BY <1>1, <1>2, <1>3
  <1>4. ASSUME NEW p \in DOMAIN Profiles, NEW cell, SyncsCatalog(cell, p)
        PROVE  was.dataHash = is.dataHash
    <2> DEFINE discover == cell.discover
               catalog == SyncableCatalog(cell, p)
    <2>1. new.catalog = catalog /\ new.pins = Pins(discover)
      BY <1>4, CatalogOf DEF SyncsCatalog
    <2>2. RatchetRefusal(old, discover, catalog, file) = Accepted
      BY <1>4, SyncMeans DEF SyncsCatalog
    <2> HIDE DEF discover, catalog, old, new
    <2>3. ModelOf(old.catalog, object)[1].dataHash
            = ModelOf(catalog, object)[1].dataHash
      BY <1>1, <1>2, <2>1, <2>2, RatchetMeans
    <2> QED
      BY <1>1, <1>2, <2>1, <2>3
  <1> QED
    BY <1>3, <1>4, CatalogStays

\* ADR 0016 s6: no sync replaces the record of a supported model by one of
\* other data under the same version, also when the record it replaces was
\* written for another cell.yaml or another profile, or by a sync that was
\* killed after it.
THEOREM SyncNeverSlips == Spec => RatchetHolds
  <1>1. Spec => [](IndType /\ CatalogInv)
    BY TypeInit, TypeNext, CatalogInit, CatalogNext, PTL DEF Spec
  <1>2. IndType /\ CatalogInv /\ (IndType /\ CatalogInv)' /\ [Next]_vars
          => [Ratchets]_vars
    BY StepRatchets
  <1>3. RatchetHolds <=> [][Ratchets]_vars
    BY DEF RatchetHolds, Ratchets
  <1> HIDE DEF Ratchets
  <1> QED
    BY <1>1, <1>2, <1>3, PTL DEF Spec
=============================================================================
