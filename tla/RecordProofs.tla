----------------------------- MODULE RecordProofs -----------------------------
(***************************************************************************)
(* Theorems about what the commands that write nothing say of a directory: *)
(* the document that `context` prints, and the advice of `status`. The     *)
(* record of a check outlives edits, so that what it says must be read     *)
(* against the interface it was written of; and a semantic model knows of  *)
(* private exports, so that what is said of it is cut to the others. And   *)
(* theorems about what `verify` finds of what `import` wrote, about what a *)
(* sync records of the warehouse, and about the operators that no step     *)
(* calls.                                                                  *)
(***************************************************************************)
EXTENDS SurfaceProofs

-----------------------------------------------------------------------------
(* What `verify` measures of an export.                                    *)

FitsOf(measured, export) ==
    /\ DOMAIN measured.nullRows = ToSet(export.grain)
    /\ measured.columns # <<>>
         => DOMAIN measured.columns = DOMAIN export.schema

\* A measurement is of the grain and of the columns of its export.
LEMMA MeasurementFits ==
    ASSUME NEW export, NEW table, NEW estimates,
           NEW measured \in Measurement(export, table, estimates)
    PROVE  FitsOf(measured, export)
  <1> DEFINE census == IF ~IsBound(export) THEN <<>>
                       ELSE [name \in DOMAIN export.schema |->
                                Census(export, table, ColumnOf(table, name),
                                       estimates[name])]
             counts == GrainCounts(table, export.grain)
  <1>1. census # <<>> => DOMAIN census = DOMAIN export.schema
    OBVIOUS
  <1>2. DOMAIN counts.nullRows = ToSet(export.grain)
    BY DEF GrainCounts
  <1>3. \/ measured = [check |-> "grain_unique", rows |-> counts.total,
                       distinct |-> counts.distinct, nullRows |-> counts.nullRows,
                       columns |-> census]
        \/ /\ export.grain = <<>>
           /\ measured = [check |-> "schema", rows |-> Len(table.rows),
                          distinct |-> -1, nullRows |-> <<>>, columns |-> census]
    BY DEF Measurement
  <1> HIDE DEF census, counts
  <1>4. CASE measured = [check |-> "grain_unique", rows |-> counts.total,
                         distinct |-> counts.distinct,
                         nullRows |-> counts.nullRows, columns |-> census]
    BY <1>1, <1>2, <1>4 DEF FitsOf
  <1>5. CASE /\ export.grain = <<>>
             /\ measured = [check |-> "schema", rows |-> Len(table.rows),
                            distinct |-> -1, nullRows |-> <<>>, columns |-> census]
    BY <1>1, <1>5 DEF FitsOf, ToSet
  <1> QED
    BY <1>3, <1>4, <1>5

\* Where a route names one export, what is recorded of the route is of that
\* export.
LEMMA MeasuredFits ==
    ASSUME NEW cell, DOMAIN cell.interface \subseteq Nat, OnceIn(cell.interface),
           NEW session, NEW estimates,
           NEW route \in DOMAIN Measurements(cell, session, estimates)
    PROVE  \E n \in DOMAIN cell.interface :
              /\ Route(cell.interface[n]) = route
              /\ FitsOf(Measurements(cell, session, estimates)[route],
                        cell.interface[n])
  <1> DEFINE of(export) == Measurement(export, session[ReadsFrom(export)], estimates)
             measured == {n \in DOMAIN cell.interface : of(cell.interface[n]) # {}}
             at(r) == {n \in measured : Route(cell.interface[n]) = r}
             all == [r \in {Route(cell.interface[n]) : n \in measured} |->
                        CHOOSE m \in of(cell.interface[Max(at(r))]) : TRUE]
  <1>1. Measurements(cell, session, estimates) = all
    BY DEF Measurements
  <1>2. PICK n \in measured : Route(cell.interface[n]) = route
    BY <1>1
  <1>3. at(route) = {n}
    BY <1>2 DEF OnceIn
  <1>4. Max({n}) = n
    <2>1. n \in Nat
      BY <1>2
    <2> QED
      BY <2>1 DEF Max
  <1>5. all[route] = CHOOSE m \in of(cell.interface[n]) : TRUE
    <2> HIDE DEF of, at
    <2> QED
      BY <1>1, <1>3, <1>4
  <1>6. all[route] \in of(cell.interface[n])
    <2>1. of(cell.interface[n]) # {}
      BY <1>2
    <2> HIDE DEF of, all
    <2> QED
      BY <1>5, <2>1
  <1>7. FitsOf(all[route], cell.interface[n])
    <2> HIDE DEF all
    <2> QED
      BY <1>6, MeasurementFits
  <1> QED
    BY <1>1, <1>2, <1>7

-----------------------------------------------------------------------------
(* The record of a check, and the interface it was written of.             *)

\* Of an authored cell the record fits what its cell.yaml declares, if that
\* was not edited while `verify` ran. The file may have been edited since: it
\* is found by its digest.
CheckInv ==
    LET record == records.sourceCheck
        cell == FileOf[record.digest].cell
    IN  record.kind # "none" =>
          /\ record.digest \in Files
          /\ record.of = record.digest /\ ~cell.discover.on =>
               \A route \in DOMAIN record.exports :
                  \E n \in DOMAIN WithGrain(cell).interface :
                     /\ Route(WithGrain(cell).interface[n]) = route
                     /\ FitsOf(record.exports[route], WithGrain(cell).interface[n])

\* What an authored cell is loaded as is in its cell.yaml.
LEMMA AuthoredLoads ==
    ASSUME NEW p, ~Cell0.discover.on
    PROVE  Loaded(p) = WithGrain(Cell0)
  BY DEF Loaded, LoadedIn, Here, LoadedInterface, Cell0

\* So it is by a verify in hand, of the cell.yaml that it opened.
LEMMA AuthoredOpens ==
    ASSUME ~Cell0.discover.on, cmd.file = file
    PROVE  Checked = WithGrain(Cell0)
  BY DEF Checked, Opened, LoadedIn, Here, LoadedInterface, Cell0

\* An interface that is written once is loaded once.
LEMMA AuthoredOnce ==
    ASSUME RoutesWrittenOnce, NEW f \in Files
    PROVE  LET cell == WithGrain(FileOf[f].cell)
           IN  OnceIn(cell.interface) /\ DOMAIN cell.interface \subseteq Nat
  <1> DEFINE cell == FileOf[f].cell
  <1>1. /\ "interface" \in DOMAIN cell
        /\ \A n \in DOMAIN cell.interface :
              {"name", "major", "grain"} \subseteq DOMAIN cell.interface[n]
        /\ cell.interface \in Seq(ToSet(cell.interface))
        /\ OnceIn(cell.interface)
    BY InterfacesAssumption DEF RoutesWrittenOnce
  <1> HIDE DEF cell
  <1>2. DOMAIN cell.interface \subseteq Nat
    BY <1>1
  <1>3. DOMAIN WithGrain(cell).interface = DOMAIN cell.interface
    BY <1>1 DEF WithGrain, Verdicts
  <1>4. OnceIn(WithGrain(cell).interface)
    BY <1>1, GrainKeepsRoutes
  <1> QED
    BY <1>2, <1>3, <1>4 DEF cell

\* Only `verify` writes the record of a check.
LEMMA CheckStays ==
    ASSUME IndType, [Next]_vars
    PROVE  UNCHANGED records.sourceCheck \/ WriteSourceCheck
  <1> USE DEF IndType, RecordType, RecordNames
  <1>1. CASE WriteSemanticCheck \/ WriteDescriptions \/ Stop
    BY <1>1 DEF WriteSemanticCheck, WriteDescriptions, Stop
  <1>2. CASE AtOnce
    BY <1>2, AtOnceFrame DEF ReleaseNow
  <1>3. ASSUME NEW p \in DOMAIN Profiles, SyncDiscover(p)
        PROVE  UNCHANGED records.sourceCheck
    BY <1>3 DEF SyncDiscover
  <1>4. ASSUME NEW p \in DOMAIN Profiles, Verify(p)
        PROVE  UNCHANGED records.sourceCheck
    BY <1>4 DEF Verify
  <1>5. ASSUME NEW p \in DOMAIN Profiles, NEW stopped, NEW refetch,
               SyncSemantic(p, stopped, refetch)
        PROVE  UNCHANGED records.sourceCheck
    BY <1>5 DEF SyncSemantic
  <1>6. CASE UNCHANGED vars
    BY <1>6 DEF vars
  <1> QED
    BY <1>1, <1>2, <1>3, <1>4, <1>5, <1>6 DEF Next, AtOnce

LEMMA CheckInit == Init => CheckInv
  <1> SUFFICES ASSUME Init PROVE CheckInv
    OBVIOUS
  <1>1. records.sourceCheck = None
    BY DEF Init
  <1> QED
    BY <1>1 DEF CheckInv, None

LEMMA CheckNext ==
    ASSUME RoutesWrittenOnce, IndType, CheckInv, [Next]_vars
    PROVE  CheckInv'
  <1>1. CASE UNCHANGED records.sourceCheck
    BY <1>1 DEF CheckInv
  <1>2. CASE WriteSourceCheck
    <2> DEFINE p == cmd.profile
               estimates == [name \in UNION {DOMAIN export.schema :
                                export \in ToSet(Checked.interface)} |-> 0]
               session == Session(Checked, lake[p].built)
               exports == Measurements(Checked, session, estimates)
    <2>1. records'.sourceCheck = SourceCheckRecord(file, p, exports)
                                   ++ [of |-> cmd.file]
      BY <1>2 DEF WriteSourceCheck, Measured, IndType, RecordType, RecordNames
    <2> HIDE DEF exports
    <2>2. /\ records'.sourceCheck.digest = file
          /\ records'.sourceCheck.of = cmd.file
          /\ records'.sourceCheck.exports = exports
      BY <2>1 DEF SourceCheckRecord, ++
    <2> USE DEF exports
    <2> HIDE DEF estimates, session
    <2>3. file \in Files
      BY DEF IndType, DataType
    <2>4. ASSUME ~Cell0.discover.on, cmd.file = file
          PROVE  \A route \in DOMAIN exports :
                    \E n \in DOMAIN WithGrain(Cell0).interface :
                       /\ Route(WithGrain(Cell0).interface[n]) = route
                       /\ FitsOf(exports[route], WithGrain(Cell0).interface[n])
      <3>1. Checked = WithGrain(Cell0)
        BY <2>4, AuthoredOpens
      <3>2. /\ OnceIn(WithGrain(Cell0).interface)
            /\ DOMAIN WithGrain(Cell0).interface \subseteq Nat
        BY <2>3, AuthoredOnce DEF Cell0
      <3> QED
        BY <3>1, <3>2, MeasuredFits
    <2> HIDE DEF exports
    <2> QED
      BY <2>2, <2>3, <2>4 DEF CheckInv, Cell0
  <1> QED
    BY <1>1, <1>2, CheckStays

-----------------------------------------------------------------------------
(* What `context` shows of it.                                             *)

\* A record that is fresh is of this file, and of this profile.
LEMMA FreshMeans ==
    ASSUME NEW record, NEW digest, NEW profile, Fresh(record, digest, profile)
    PROVE  record.kind # "none" /\ record.digest = digest
  <1> DEFINE missing == record.kind = "none"
             changed == record.kind # "none" /\ record.digest # digest
             other == record.kind # "none" /\ record.profile # profile
             list == << <<"record: missing", missing>>,
                        <<"record: cell.yaml changed", changed>>,
                        <<"record: another profile", other>> >>
  <1>1. FirstReason(list) = Accepted
    BY DEF Fresh, Staleness
  <1>2. IsSeq(list) /\ DOMAIN list = {1, 2, 3}
    BY DEF IsSeq
  <1>3. /\ list[1][2] <=> missing
        /\ list[2][2] <=> changed
        /\ list[1][1] # Accepted /\ list[2][1] # Accepted /\ list[3][1] # Accepted
    <2> HIDE DEF missing, changed, other
    <2> QED
      BY DEF Accepted
  <1> HIDE DEF list
  <1>4. \A n \in DOMAIN list : ~list[n][2]
    <2>1. \A n \in DOMAIN list : list[n][1] # Accepted
      BY <1>2, <1>3
    <2> QED
      BY <1>1, <1>2, <2>1, NoReason
  <1> QED
    BY <1>2, <1>3, <1>4

\* The exports that are shown are those of the interface, each with what the
\* record says of its route.
LEMMA ShownExports ==
    ASSUME NEW d, NEW cell, NEW e \in ShownIn(d, cell).exports
    PROVE  \E export \in ToSet(cell.interface) :
              /\ e.grain = export.grain
              /\ DOMAIN e.schema = DOMAIN export.schema
              /\ \A measured \in e.check :
                    LET check == FreshIn(d, d.records.sourceCheck)
                    IN  /\ check.kind # "none"
                        /\ Route(export) \in DOMAIN check.exports
                        /\ measured = check.exports[Route(export)]
  <1> DEFINE interface == Interface(cell, DescribedIn(d), ModelsIn(d))
             check == FreshIn(d, d.records.sourceCheck)
             told == Told(check, RouteKeys(cell), TRUE)
             semantic == FreshIn(d, d.records.semanticCheck)
             over(x) == Overlaid(x.semantic, x.route, semantic)
             whole == Assemble(interface, ExecutionIn(d), told, semantic, <<>>,
                               BuildsNoSnapshot(cell), DirectAttach(d.profile), <<>>)
             measured(route) == IF told.kind # "none" /\ route \in DOMAIN told.exports
                                THEN {told.exports[route]} ELSE {}
  <1>1. ShownIn(d, cell) = Emitted(whole, <<>>, Everything, {}, {})
    BY DEF ShownIn
  <1>2. whole.exports = {With(x, measured(x.route), {}, over(x))
                           : x \in interface.exports}
    <2> HIDE DEF interface, told, semantic
    <2> QED
      BY DEF Assemble, With
  <1>3. "exports" \in DOMAIN whole
    BY DEF Assemble
  <1>4. Emitted(whole, <<>>, Everything, {}, {}).exports = whole.exports
    <2> HIDE DEF whole
    <2> QED
      BY <1>3 DEF Emitted, Everything, Including
  <1> HIDE DEF whole
  <1> HIDE DEF over
  <1>5. PICK x \in interface.exports : e = With(x, measured(x.route), {}, over(x))
    <2> HIDE DEF interface, measured
    <2> QED
      BY <1>1, <1>2, <1>4
  <1> DEFINE index == RestrictedTo(Index(ModelsIn(d), cell.interface),
                                   RouteKeys(cell))
  <1>6. interface.exports =
           {ExportDoc(cell, export, DescribedIn(d), ModelsIn(d), index)
              : export \in Routes(cell)}
    BY DEF Interface
  <1> HIDE DEF interface, index
  <1>7. PICK export \in Routes(cell) :
           x = ExportDoc(cell, export, DescribedIn(d), ModelsIn(d), index)
    BY <1>5, <1>6
  <1>8. /\ x.route = Route(export) /\ x.grain = export.grain
        /\ DOMAIN x.schema = DOMAIN export.schema
        /\ IsExportDoc(x)
    BY <1>7, ExportDocHolds DEF ExportDoc
  <1>9. /\ e.grain = x.grain /\ e.schema = x.schema
        /\ e.check = measured(x.route)
    <2> HIDE DEF measured
    <2> QED
      BY <1>5, <1>8 DEF With, IsExportDoc, ExportFields
  <1>10. /\ told.kind = check.kind
         /\ \A route : told.kind # "none" /\ route \in DOMAIN told.exports
              => /\ route \in DOMAIN check.exports
                 /\ told.exports[route] = check.exports[route]
    <2> HIDE DEF check
    <2> QED
      BY DEF Told
  <1>11. export \in ToSet(cell.interface)
    BY <1>7 DEF Routes, Discoverable
  <1> HIDE DEF told, check
  <1>12. \A m \in e.check : /\ check.kind # "none"
                            /\ Route(export) \in DOMAIN check.exports
                            /\ m = check.exports[Route(export)]
    BY <1>8, <1>9, <1>10
  <1> QED
    BY <1>8, <1>9, <1>11, <1>12 DEF check

\* `datamk context` of an authored cell never shows a measurement that was
\* taken of another interface than the one it stands in, whatever was edited,
\* rebuilt or interrupted since `verify` wrote it (manifest.rs 64-69), as long
\* as cell.yaml was not edited between the measuring and the write: the run
\* WorkspaceVCheck shows that the code has no answer to such an edit.
THEOREM MeasurementsFitWhatIsShown ==
    RoutesWrittenOnce => (Spec => []CheckFitsTheInterface)
  <1> SUFFICES ASSUME RoutesWrittenOnce PROVE Spec => []CheckFitsTheInterface
    OBVIOUS
  <1>1. ASSUME IndType, CheckInv PROVE CheckFitsTheInterface
    <2> SUFFICES ASSUME NEW p \in DOMAIN Profiles, ~Cell0.discover.on,
                        records.sourceCheck.kind # "none"
                          => records.sourceCheck.of = records.sourceCheck.digest,
                        NEW e \in Shown(p).exports, NEW measured \in e.check
                 PROVE  FitsOf(measured, e)
      BY <1>1 DEF CheckFitsTheInterface, CheckFits, FitsOf
    <2> DEFINE cell == WithGrain(Cell0)
               record == records.sourceCheck
               check == FreshIn(Here(p), record)
    <2>1. Shown(p) = ShownIn(Here(p), cell)
      BY AuthoredLoads DEF Shown
    <2>2. Here(p).records = records /\ Here(p).file = file /\ Here(p).name = p
      BY DEF Here
    <2>3. PICK export \in ToSet(cell.interface) :
              /\ e.grain = export.grain
              /\ DOMAIN e.schema = DOMAIN export.schema
              /\ check.kind # "none"
              /\ Route(export) \in DOMAIN check.exports
              /\ measured = check.exports[Route(export)]
      <3> HIDE DEF cell
      <3> QED
        BY <2>1, <2>2, ShownExports
    <2>4. check = record /\ record.kind # "none" /\ record.digest = file
      <3>1. Fresh(record, file, p)
        BY <2>2, <2>3 DEF FreshIn, None
      <3> QED
        BY <2>2, <3>1, FreshMeans DEF FreshIn
    <2>5. PICK n \in DOMAIN cell.interface :
              /\ Route(cell.interface[n]) = Route(export)
              /\ FitsOf(record.exports[Route(export)], cell.interface[n])
      BY <1>1, <2>3, <2>4 DEF CheckInv, Cell0
    <2>6. OnceIn(cell.interface)
      BY <1>1, AuthoredOnce DEF IndType, DataType, Cell0
    <2> HIDE DEF cell, check
    <2>7. PICK m \in DOMAIN cell.interface : cell.interface[m] = export
      BY DEF ToSet
    <2>8. cell.interface[n] = export
      BY <2>5, <2>6, <2>7 DEF OnceIn
    <2>9. FitsOf(measured, export)
      BY <2>3, <2>4, <2>5, <2>8
    <2> QED
      BY <2>3, <2>9 DEF FitsOf
  <1>2. RoutesWrittenOnce /\ IndType /\ CheckInv /\ [Next]_vars => CheckInv'
    BY CheckNext
  <1>3. Spec => [](IndType /\ CheckInv)
    BY <1>2, TypeInit, TypeNext, CheckInit, PTL DEF Spec
  <1> QED
    BY <1>1, <1>3, PTL

-----------------------------------------------------------------------------
(* The advice of `status`.                                                 *)

\* Where a cell builds nothing, nothing but `verify` needs its credentials,
\* and no earlier command has shown that they are there.
CredentialsGiven ==
    \A f \in Files, p \in DOMAIN Profiles :
        BuildsNoSnapshot(FileOf[f].cell)
          => SessionRefusal(FileOf[f].cell, Profiles[p]) = Accepted

\* A discovered cell that loads has no transforms.
LEMMA DiscoveredBuildsNothing ==
    ASSUME NEW cell, LoadRefusal(cell) = Accepted, cell.discover.on
    PROVE  BuildsNoSnapshot(cell)
  <1> DEFINE verdicts == <<
               ParseRefusal(cell), ProseRefusal(cell), DiscoverRefusal(cell),
               IF cell.definitions.yaml = "file"
               THEN DefinitionsFileRefusal(cell.definitions.page) ELSE Accepted,
               GlossaryRefusal(cell), DocsRefusal(cell),
               IF cell.discover.on THEN Accepted ELSE AppliesToRefusal(cell)>>
  <1>1. FirstRefusal(verdicts) = Accepted
    BY DEF LoadRefusal
  <1>2. DiscoverRefusal(cell) = Accepted
    <2>1. IsSeq(verdicts) /\ DOMAIN verdicts = 1..7
      BY DEF IsSeq
    <2>2. verdicts[3] = DiscoverRefusal(cell)
      OBVIOUS
    <2> HIDE DEF verdicts
    <2> QED
      BY <1>1, <2>1, <2>2, NoRefusal
  <1> DEFINE discover == cell.discover
             overrides == ToSet(discover.overrides)
             c1 == cell.transforms # <<>>
             c2 == DOMAIN cell.sources # {}
             c3 == cell.interface # <<>>
             c4 == discover.select.tags \cup discover.select.schemas
                     \cup discover.select.models = {}
             c5 == "" \in {discover.state, discover.warehouse}
             c6 == Len(discover.overrides)
                     # Cardinality({override.model : override \in overrides})
             c7 == \E override \in overrides : override.major = -1
             c8 == \E override \in overrides :
                      override.as # "" /\ override.as \notin Identifiers
             list == << <<"discover: transforms declared", c1>>,
                        <<"discover: sources declared", c2>>,
                        <<"discover: interface declared", c3>>,
                        <<"discover: nothing selected", c4>>,
                        <<"discover: no connection", c5>>,
                        <<"discover: model overridden twice", c6>>,
                        <<"discover: version is not semver", c7>>,
                        <<"discover: name is no identifier", c8>> >>
  <1>3. FirstReason(list) = Accepted
    BY <1>2 DEF DiscoverRefusal
  <1> HIDE DEF c1, c2, c3, c4, c5, c6, c7, c8
  <1>4. IsSeq(list) /\ DOMAIN list = {1, 2, 3, 4, 5, 6, 7, 8}
    BY DEF IsSeq
  <1>5. /\ list[1][1] # Accepted /\ list[2][1] # Accepted /\ list[3][1] # Accepted
        /\ list[4][1] # Accepted /\ list[5][1] # Accepted /\ list[6][1] # Accepted
        /\ list[7][1] # Accepted /\ list[8][1] # Accepted
    BY DEF Accepted
  <1>6. list[1][2] <=> c1
    OBVIOUS
  <1> HIDE DEF list
  <1>7. \A n \in DOMAIN list : list[n][1] # Accepted
    BY <1>4, <1>5
  <1>8. ~c1
    BY <1>3, <1>4, <1>6, <1>7, NoReason
  <1> QED
    BY <1>8 DEF c1, BuildsNoSnapshot

\* What a load that is not refused has passed.
LEMMA ConfigMeans ==
    ASSUME NEW d, ConfigRefusalIn(d) = Accepted
    PROVE  LoadRefusal(FileOf[d.file].cell) = Accepted
  <1> DEFINE cell == FileOf[d.file].cell
             r1 == LoadRefusal(cell)
             r2 == LoadedRefusal(cell, d.records.catalog, d.file, d.name)
             r3 == ResolveRefusal(cell, d.profile)
             r4 == StaticRefusal(LoadedInterface(cell, d.records.catalog, d.file,
                                                 d.profile, d.name))
             list == <<r1, r2, r3, r4>>
  <1>1. FirstRefusal(list) = Accepted
    BY DEF ConfigRefusalIn
  <1> HIDE DEF r1, r2, r3, r4
  <1>2. IsSeq(list) /\ DOMAIN list = 1..4 /\ list[1] = r1
    BY DEF IsSeq
  <1> HIDE DEF list
  <1>3. r1 = Accepted
    BY <1>1, <1>2, NoRefusal
  <1> QED
    BY <1>3 DEF r1

\* A session over a bucket of Google's has a secret to read it with.
LEMMA SessionMeans ==
    ASSUME NEW cell, NEW profile, SessionRefusal(cell, profile) = Accepted,
           profile.storage = "gs"
    PROVE  GcsSecretRefusal(profile.gcs) = Accepted
  <1> DEFINE secret == GcsSecretRefusal(profile.gcs)
             missing == profile.gcs.extension = "missing"
             none == secret # Accepted
             list == << <<"gcs: no such extension", missing>>, <<secret, none>> >>
  <1>1. "gs" \in SecretsNeeded(cell, profile)
    BY DEF SecretsNeeded
  <1>2. FirstReason(list) = Accepted
    BY <1>1 DEF SessionRefusal
  <1> HIDE DEF secret, missing
  <1>3. IsSeq(list) /\ DOMAIN list = {1, 2}
    BY DEF IsSeq
  <1>4. /\ list[1][1] # Accepted
        /\ list[2][1] = secret
        /\ list[2][2] <=> secret # Accepted
    BY DEF Accepted
  <1> HIDE DEF list
  <1>5. secret = Accepted
    BY <1>2, <1>3, <1>4, NoReason
  <1> QED
    BY <1>5 DEF secret

\* What has been built was built over storage that can be read.
LakeInv ==
    \A p \in DOMAIN Profiles :
        lake[p].snapshots > 0 /\ Profiles[p].storage = "gs"
          => GcsSecretRefusal(Profiles[p].gcs) = Accepted

\* Only a run builds.
LEMMA LakeStays ==
    ASSUME [Next]_vars
    PROVE  UNCHANGED lake \/ \E p \in DOMAIN Profiles : Run(p)
  BY DEF Next, vars, Edit, Move, SyncSemantic, SyncDiscover, Verify, Serve,
         ServeProject, ReleaseNow, AttachCopy, WriteSemanticCheck,
         WriteSourceCheck, WriteDescriptions, Stop

LEMMA LakeInit == Init => LakeInv
  <1> SUFFICES ASSUME Init PROVE LakeInv
    OBVIOUS
  <1>1. \A p \in DOMAIN Profiles : lake[p].snapshots = 0
    BY DEF Init
  <1> QED
    BY <1>1 DEF LakeInv

LEMMA LakeNext ==
    ASSUME IndType, LakeInv, [Next]_vars
    PROVE  LakeInv'
  <1>1. CASE UNCHANGED lake
    BY <1>1 DEF LakeInv
  <1>2. ASSUME NEW p \in DOMAIN Profiles, Run(p) PROVE LakeInv'
    <2>1. SessionRefusal(Cell0, Profiles[p]) = Accepted
      BY <1>2 DEF Run, Then
    <2>2. Profiles[p].storage = "gs" => GcsSecretRefusal(Profiles[p].gcs) = Accepted
      BY <2>1, SessionMeans
    <2>3. \A q \in DOMAIN Profiles \ {p} : lake'[q] = lake[q]
      BY <1>2 DEF Run, IndType, DataType
    <2> QED
      BY <2>2, <2>3 DEF LakeInv
  <1> QED
    BY <1>1, <1>2, LakeStays

\* `attach` of what is published is answered, with the copy that a native
\* profile needs.
LEMMA PublishedIsAttached ==
    ASSUME NEW cell, ~cell.discover.on, NEW profile, ~DirectAttach(profile),
           StoreRefusal(profile.storage) = Accepted,
           profile.storage = "gs" => GcsSecretRefusal(profile.gcs) = Accepted,
           NEW store, 0 \notin store.executions,
           NEW n, n \in store.executions \/ (n = 0 /\ store.latest # 0),
           NEW catalog
    PROVE  AttachRefusal(cell, profile, store, n, NativeGcs(profile), catalog)
             = Accepted
  <1> DEFINE direct == DirectAttach(profile)
             native == NativeGcs(profile)
             sql == IF profile.storage = "gs" THEN GcsSecretRefusal(profile.gcs)
                    ELSE Accepted
             r5 == StoreRefusal(profile.storage)
             c1 == cell.discover.on
             c2 == native /\ ~native
             c3 == direct /\ n # 0
             c4 == direct /\ ~catalog
             c5 == ~direct /\ r5 # Accepted
             c6 == ~direct /\ n # 0 /\ n \notin store.executions
             c7 == ~direct /\ n = 0 /\ store.latest = 0
             c8 == native /\ ~native
             c9 == sql # Accepted
             list == << <<"attach: discovered", c1>>,
                        <<"attach: download of no native profile", c2>>,
                        <<"attach: execution of a catalog", c3>>,
                        <<"attach: no catalog", c4>>,
                        <<r5, c5>>,
                        <<"attach: no such execution", c6>>,
                        <<"attach: nothing published", c7>>,
                        <<"attach: native without download", c8>>,
                        <<sql, c9>> >>
  <1>1. ~c1 /\ ~c2 /\ ~c3 /\ ~c4 /\ ~c5 /\ ~c6 /\ ~c7 /\ ~c8 /\ ~c9
    <2>1. ~c1 /\ ~c2 /\ ~c8
      OBVIOUS
    <2>2. ~direct
      OBVIOUS
    <2>3. r5 = Accepted /\ sql = Accepted
      OBVIOUS
    <2>4. ~c6 /\ ~c7
      OBVIOUS
    <2> HIDE DEF direct, r5, sql, c6, c7
    <2> QED
      BY <2>1, <2>2, <2>3, <2>4
  <1>2. AttachRefusal(cell, profile, store, n, native, catalog) = FirstReason(list)
    BY DEF AttachRefusal
  <1> HIDE DEF c1, c2, c3, c4, c5, c6, c7, c8, c9, r5, sql
  <1>3. IsSeq(list) /\ DOMAIN list = {1, 2, 3, 4, 5, 6, 7, 8, 9}
    BY DEF IsSeq
  <1>4. /\ ~list[1][2] /\ ~list[2][2] /\ ~list[3][2] /\ ~list[4][2] /\ ~list[5][2]
        /\ ~list[6][2] /\ ~list[7][2] /\ ~list[8][2] /\ ~list[9][2]
    BY <1>1
  <1> HIDE DEF list
  <1>5. \A k \in DOMAIN list : ~list[k][2]
    BY <1>3, <1>4
  <1>6. FirstReason(list) = Accepted
    BY <1>3, <1>5, NoReason
  <1> QED
    BY <1>2, <1>6

\* A server looks at the discovery first.
LEMMA DiscoveryFirst ==
    ASSUME NEW stale \in BOOLEAN, NEW semantic \in BOOLEAN
    PROVE  FirstReason(<< <<"serve: discovery", stale>>,
                          <<"serve: semantic model", semantic>> >>)
             = "serve: discovery" <=> stale
  <1> DEFINE list == << <<"serve: discovery", stale>>,
                        <<"serve: semantic model", semantic>> >>
             failed == {i \in 1..Len(list) : list[i][2]}
  <1>1. /\ IsSeq(list) /\ Len(list) = 2
        /\ list[1][2] <=> stale
        /\ list[1][1] = "serve: discovery"
        /\ list[2][1] = "serve: semantic model"
    BY DEF IsSeq
  <1> HIDE DEF list
  <1> HIDE DEF failed
  <1>2. failed \subseteq {1, 2} /\ (1 \in failed <=> stale)
    <2>1. 1..Len(list) = {1, 2}
      <3>1. Len(list) = 2
        BY <1>1
      <3>2. 1..2 = {1, 2}
        OBVIOUS
      <3> QED
        BY <3>1, <3>2
    <2>2. \A i : i \in failed <=> i \in {1, 2} /\ list[i][2]
      BY <2>1 DEF failed
    <2> QED
      BY <1>1, <2>2
  <1>3. failed # {} => Min(failed) \in failed /\ \A y \in failed : Min(failed) <= y
    <2>1. failed \subseteq Nat
      BY <1>2
    <2> QED
      BY <2>1, MinIsLeast
  <1>4. FirstReason(list) = IF failed = {} THEN Accepted ELSE list[Min(failed)][1]
    <2>1. failed = {} \/ Min(failed) # 0
      BY <1>2, <1>3
    <2> QED
      BY <2>1 DEF FirstReason, SelectInSeq, failed
  <1>5. CASE stale
    <2>1. Min(failed) \in {1, 2} /\ Min(failed) <= 1
      BY <1>2, <1>3, <1>5
    <2>2. failed # {} /\ Min(failed) = 1
      BY <1>2, <1>5, <2>1
    <2> QED
      BY <1>1, <1>4, <1>5, <2>2 DEF list
  <1>6. CASE ~stale
    <2>1. failed # {} => Min(failed) = 2
      BY <1>2, <1>3, <1>6
    <2>2. FirstReason(list) # "serve: discovery"
      BY <1>1, <1>4, <2>1 DEF Accepted
    <2> QED
      BY <1>6, <2>2 DEF list
  <1> QED
    BY <1>5, <1>6

\* `status` points the way (ops.rs 142-148): what it advises is not refused,
\* a discovery is stale when the server says so, and what it lists can be
\* attached, whatever was edited since it was built.
THEOREM StatusIsAGuide == CredentialsGiven => (Spec => []StatusPointsTheWay)
  <1> SUFFICES ASSUME CredentialsGiven PROVE Spec => []StatusPointsTheWay
    OBVIOUS
  <1>1. ASSUME IndType, LakeInv PROVE StatusPointsTheWay
    <2> SUFFICES ASSUME NEW p \in DOMAIN Profiles, StatusRefusal(p) = Accepted
                 PROVE  LET status == StatusOf(p)
                        IN  CASE status.kind = "published" ->
                                   /\ "run" \in status.advice
                                        => RunStartRefusal(Cell0) = Accepted
                                   /\ "verify" \in status.advice
                                        => OpenRefusal(p) = Accepted
                                   /\ \A n \in status.executions
                                        \cup IF status.latest = 0 THEN {} ELSE {0} :
                                         \E download \in BOOLEAN :
                                            AttachAnswer(p, n, download) = Accepted
                              [] OTHER ->
                                   status.stale = Accepted
                                     <=> ServeRefusalIn(Here(p)) # "serve: discovery"
      BY DEF StatusPointsTheWay
    <2>1. /\ ConfigRefusal(p) = Accepted
          /\ ~Cell0.discover.on => PublishedRefusal(Profiles[p]) = Accepted
      BY DEF StatusRefusal, Then
    <2>2. Here(p).file = file /\ Here(p).profile = Profiles[p]
      BY DEF Here
    <2>3. ASSUME BuildsNoSnapshot(Cell0)
          PROVE  OpenRefusal(p) = Accepted
      <3>1. SessionRefusal(Cell0, Profiles[p]) = Accepted
        BY <1>1, <2>3 DEF CredentialsGiven, Cell0, IndType, DataType
      <3> QED
        BY <2>1, <2>2, <2>3, <3>1
        DEF OpenRefusal, OpenRefusalIn, ConfigRefusal, Then, Cell0
    <2>4. CASE Cell0.discover.on
      <3>1. StatusOf(p).kind = "discovered"
            /\ StatusOf(p).stale = Staleness(records.catalog, file, p)
        BY <2>4 DEF StatusOf, DiscoveredStatus
      <3>2. OpenRefusal(p) = Accepted
        <4>1. LoadRefusal(Cell0) = Accepted
          BY <2>1, <2>2, ConfigMeans DEF ConfigRefusal, Cell0
        <4> QED
          BY <2>3, <2>4, <4>1, DiscoveredBuildsNothing
      <3> DEFINE stale == ~Fresh(records.catalog, file, p)
                 semantic == FileOf[file].semantic.kind # "none"
                               /\ ~SemanticFreshIn(Here(p))
                 list == << <<"serve: discovery", stale>>,
                            <<"serve: semantic model", semantic>> >>
      <3>3. ServeRefusalIn(Here(p)) = FirstReason(list)
        BY <2>4, <3>2 DEF ServeRefusalIn, OpenRefusal, Then, Here, Cell0
      <3>4. FirstReason(list) = "serve: discovery" <=> stale
        <4>1. stale \in BOOLEAN /\ semantic \in BOOLEAN
          OBVIOUS
        <4> HIDE DEF stale, semantic
        <4> QED
          BY <4>1, DiscoveryFirst
      <3> HIDE DEF stale, semantic
      <3> QED
        BY <3>1, <3>3, <3>4 DEF stale, Fresh
    <2>5. CASE ~Cell0.discover.on
      <3>1. StatusOf(p) = PublishedStatus(Cell0, StoreOf(p), <<>>, <<>>)
        BY <2>5 DEF StatusOf
      <3>2. /\ StatusOf(p).kind = "published"
            /\ StatusOf(p).executions = StoreOf(p).executions
            /\ StatusOf(p).latest = StoreOf(p).latest
            /\ StatusOf(p).advice \subseteq Advice(Cell0)
        BY <3>1 DEF PublishedStatus
      <3>3. ~DirectAttach(Profiles[p]) /\ StoreRefusal(Profiles[p].storage) = Accepted
        BY <2>1, <2>5 DEF PublishedRefusal, Accepted
      <3>4. ASSUME "run" \in Advice(Cell0)
            PROVE  RunStartRefusal(Cell0) = Accepted
        <4>1. ~BuildsNoSnapshot(Cell0)
          BY <3>4 DEF Advice
        <4> DEFINE c1 == Cell0.discover.on
                   c2 == BuildsNoSnapshot(Cell0)
                   list == << <<"run: discovered", c1>>,
                              <<"run: builds no snapshot", c2>> >>
        <4>2. RunStartRefusal(Cell0) = FirstReason(list)
          BY DEF RunStartRefusal
        <4>3. ~c1 /\ ~c2
          BY <2>5, <4>1
        <4> HIDE DEF c1, c2
        <4>4. IsSeq(list) /\ DOMAIN list = {1, 2} /\ ~list[1][2] /\ ~list[2][2]
          BY <4>3 DEF IsSeq
        <4> HIDE DEF list
        <4> QED
          BY <4>2, <4>4, NoReason
      <3>5. ASSUME "verify" \in Advice(Cell0)
            PROVE  OpenRefusal(p) = Accepted
        BY <2>3, <3>5 DEF Advice
      <3>6. ASSUME NEW n \in StoreOf(p).executions
                     \cup IF StoreOf(p).latest = 0 THEN {} ELSE {0}
            PROVE  \E download \in BOOLEAN : AttachAnswer(p, n, download) = Accepted
        <4>1. lake[p].snapshots > 0
          BY <1>1, <3>3, <3>6 DEF StoreOf, IndType, DataType
        <4>2. /\ n \in StoreOf(p).executions \/ (n = 0 /\ StoreOf(p).latest # 0)
              /\ 0 \notin StoreOf(p).executions
          <5>1. n \in StoreOf(p).executions \/ (n = 0 /\ StoreOf(p).latest # 0)
            BY <3>6
          <5>2. 0 \notin StoreOf(p).executions
            BY DEF StoreOf
          <5> QED
            BY <5>1, <5>2
        <4>3. AttachRefusal(Cell0, Profiles[p], StoreOf(p), n,
                            NativeGcs(Profiles[p]), lake[p].snapshots > 0) = Accepted
          BY <1>1, <2>5, <3>3, <4>1, <4>2, PublishedIsAttached DEF LakeInv
        <4>4. AttachAnswer(p, n, NativeGcs(Profiles[p])) = Accepted
          BY <2>1, <4>3 DEF AttachAnswer, Then
        <4>5. NativeGcs(Profiles[p]) \in BOOLEAN
          BY DEF NativeGcs
        <4> QED
          BY <4>4, <4>5
      <3> QED
        BY <3>2, <3>4, <3>5, <3>6
    <2> QED
      BY <2>4, <2>5
  <1>2. Spec => [](IndType /\ LakeInv)
    BY TypeInit, TypeNext, LakeInit, LakeNext, PTL DEF Spec
  <1> QED
    BY <1>1, <1>2, PTL

-----------------------------------------------------------------------------
(* What is private.                                                        *)

\* The first route of a dataset that has some is one of its routes.
LEMMA FirstIsOne ==
    ASSUME NEW routes, DOMAIN routes \subseteq Nat, DOMAIN routes # {}
    PROVE  FirstRoute(routes) \in ToSet(routes)
  BY MinIsLeast DEF FirstRoute, ToSet

\* Of a restricted index no dataset has a route beyond it.
LEMMA RestrictedRoutes ==
    ASSUME NEW models, NEW interface, DOMAIN interface \subseteq Nat, NEW routes,
           NEW model, NEW name
    PROVE  LET kept == RouteFor(RestrictedTo(Index(models, interface), routes),
                                model, name)
           IN  /\ ToSet(kept) \subseteq routes
               /\ kept = <<>> \/ FirstRoute(kept) \in routes
  <1> DEFINE index == Index(models, interface)
             restricted == RestrictedTo(index, routes)
             key == <<model.name, name>>
             kept == RouteFor(restricted, model, name)
  <1>1. \A k \in DOMAIN index : DOMAIN index[k] \subseteq Nat
    BY DEF Index, RoutesOf
  <1> HIDE DEF index
  <1>2. ASSUME key \notin DOMAIN restricted
        PROVE  ToSet(kept) = {} /\ kept = <<>>
    BY <1>2 DEF RouteFor, ToSet
  <1>3. ASSUME key \in DOMAIN restricted
        PROVE  ToSet(kept) \subseteq routes /\ FirstRoute(kept) \in routes
    <2> DEFINE all == index[key]
               at == {n \in DOMAIN all : all[n] \in routes}
    <2>1. key \in DOMAIN index /\ ToSet(all) \cap routes # {}
      BY <1>3 DEF RestrictedTo
    <2>2. kept = [n \in at |-> all[n]]
      BY <1>3 DEF RouteFor, RestrictedTo, Restrict
    <2>3. at # {} /\ at \subseteq Nat
      BY <1>1, <2>1 DEF ToSet
    <2> HIDE DEF all, kept
    <2>4. DOMAIN kept = at /\ ToSet(kept) \subseteq routes
      BY <2>2 DEF ToSet
    <2>5. FirstRoute(kept) \in ToSet(kept)
      BY <2>3, <2>4, FirstIsOne
    <2> QED
      BY <2>4, <2>5
  <1> QED
    BY <1>2, <1>3 DEF index

\* Nor does the document of a dataset name one.
LEMMA DatasetKeeps ==
    ASSUME NEW models, NEW interface, DOMAIN interface \subseteq Nat, NEW routes,
           NEW model, NEW dataset
    PROVE  SemanticRoutes(DatasetDoc(model, dataset,
               RestrictedTo(Index(models, interface), routes))) \subseteq routes
  <1> DEFINE index == RestrictedTo(Index(models, interface), routes)
             doc == DatasetDoc(model, dataset, index)
             rels == {r \in ToSet(model.relationships) :
                        dataset.name \in {r.from, r.to}}
  <1>1. \A name : /\ ToSet(RouteFor(index, model, name)) \subseteq routes
                  /\ \/ RouteFor(index, model, name) = <<>>
                     \/ FirstRoute(RouteFor(index, model, name)) \in routes
    BY RestrictedRoutes
  <1> HIDE DEF index
  <1>2. doc.routes = ToSet(RouteFor(index, model, dataset.name))
    BY DEF DatasetDoc
  <1>3. doc.relationships = {RelationshipDoc(rel, model, index) : rel \in rels}
    BY DEF DatasetDoc
  <1>4. ASSUME NEW rel
        PROVE  {RelationshipDoc(rel, model, index).fromRoute,
                RelationshipDoc(rel, model, index).toRoute} \ {<<>>} \subseteq routes
    BY <1>1 DEF RelationshipDoc
  <1> HIDE DEF doc, rels
  <1>5. \A rel \in doc.relationships :
           {rel.fromRoute, rel.toRoute} \ {<<>>} \subseteq routes
    BY <1>3, <1>4
  <1>6. doc.routes \subseteq routes
    BY <1>1, <1>2
  <1>7. SemanticRoutes(doc) \subseteq routes
    BY <1>5, <1>6 DEF SemanticRoutes
  <1> QED
    BY <1>7 DEF doc, index

\* The datasets of a whole model are told as everywhere else.
LEMMA ModelDocs ==
    ASSUME NEW model, NEW index, NEW record,
           NEW dataset \in ModelDoc(model, index, record).datasets
    PROVE  \E it : dataset.doc = DatasetDoc(model, it, index)
  <1> DEFINE metrics(it) ==
               {metric.name : metric \in {m \in ToSet(model.metrics) : Ansi(m) # <<>>
                   /\ it.name \in MetricTargets(m, model, index)}}
             first(it) == LET routes == RouteFor(index, model, it.name)
                          IN  IF routes = <<>> THEN <<>> ELSE FirstRoute(routes)
             told(it) == [doc |-> DatasetDoc(model, it, index),
                          metrics |-> metrics(it),
                          verified |-> Verified(record, DatasetDoc(model, it, index),
                                                first(it), metrics(it))]
  <1>1. ModelDoc(model, index, record).datasets
          = {told(it) : it \in ToSet(model.datasets)}
    BY Zenon DEF ModelDoc
  <1>2. \A it : told(it).doc = DatasetDoc(model, it, index)
    OBVIOUS
  <1> HIDE DEF told
  <1> QED
    BY <1>1, <1>2

\* What `verify` found of a dataset leaves its document as it was.
LEMMA OverlaidDocs ==
    ASSUME NEW models, NEW at, NEW index, NEW route, NEW record,
           NEW s \in Overlaid(RouteSemantics(models, at, index), route, record)
    PROVE  \E model, dataset : s.doc = DatasetDoc(model, dataset, index)
  <1> DEFINE over(t) == Verified(record, t.doc, route, t.metrics.full)
  <1>1. PICK t \in RouteSemantics(models, at, index) :
          s = [t EXCEPT !["verified"] = over(t)]
    BY DEF Overlaid
  <1> HIDE DEF over
  <1>2. PICK pair, metrics :
          t = [doc |-> DatasetDoc(pair[1], pair[2], index),
               metrics |-> metrics, verified |-> {}]
    BY <1>1 DEF RouteSemantics
  <1>3. s.doc = t.doc /\ t.doc = DatasetDoc(pair[1], pair[2], index)
    BY <1>1, <1>2
  <1> QED
    BY <1>3

\* A document shows an interface: its exports, with what a record of `verify`
\* tells of their models, its pages and its definitions.
Shows(document, interface, record) ==
    /\ \A e \in document.exports : \E x \in interface.exports :
          /\ e.route = x.route
          /\ e.semantic = Overlaid(x.semantic, x.route, record)
    /\ document.docs = interface.docs
    /\ document.definitions = interface.definitions

\* Such a document names no private route either.
LEMMA InterfaceKeeps ==
    ASSUME NEW cell, DOMAIN cell.interface \subseteq Nat, NEW described, NEW models,
           NEW document, NEW record,
           Shows(document, Interface(cell, described, models), record)
    PROVE  NamedRoutes(document) \subseteq RouteKeys(cell)
  <1> DEFINE index == RestrictedTo(Index(models, cell.interface), RouteKeys(cell))
             interface == Interface(cell, described, models)
  <1>1. \A model, dataset :
           SemanticRoutes(DatasetDoc(model, dataset, index)) \subseteq RouteKeys(cell)
    BY DatasetKeeps
  <1>2. /\ interface.exports = {ExportDoc(cell, export, described, models, index)
                                  : export \in Routes(cell)}
        /\ interface.docs = Documented(DocsEntries(cell, Routes(cell)))
    BY DEF Interface
  <1> HIDE DEF index, interface
  <1>3. ASSUME NEW e \in document.exports
        PROVE  /\ e.route \in RouteKeys(cell)
               /\ \A s \in e.semantic : SemanticRoutes(s.doc) \subseteq RouteKeys(cell)
    <2>1. PICK x \in interface.exports :
            /\ e.route = x.route
            /\ e.semantic = Overlaid(x.semantic, x.route, record)
      BY DEF interface, Shows
    <2>2. PICK export \in Routes(cell) :
            x = ExportDoc(cell, export, described, models, index)
      BY <1>2, <2>1
    <2>3. /\ x.route = Route(export)
          /\ x.semantic = RouteSemantics(models, Route(export), index)
      BY <2>2 DEF ExportDoc
    <2>4. \A s \in e.semantic :
            \E model, dataset : s.doc = DatasetDoc(model, dataset, index)
      BY <2>1, <2>3, OverlaidDocs
    <2> QED
      BY <1>1, <2>1, <2>2, <2>3, <2>4 DEF RouteKeys
  <1>4. \A entry \in document.docs : entry[1] = "route" => entry[2] \in RouteKeys(cell)
    <2>1. document.docs \subseteq DocsEntries(cell, Routes(cell))
      BY <1>2 DEF interface, Documented, Shows
    <2>2. \A entry \in DocsEntries(cell, Routes(cell)) :
             entry[1] = "route" => entry[2] \in RouteKeys(cell)
      BY DEF DocsEntries, RouteKeys
    <2> QED
      BY <2>1, <2>2
  <1> QED
    BY <1>3, <1>4 DEF NamedRoutes

\* A list of definitions that is not refused names discoverable exports only.
LEMMA AppliesMeans ==
    ASSUME NEW cell, AppliesToRefusal(cell) = Accepted,
           NEW term \in ToSet(Terms(cell)), NEW entry \in term.appliesTo
    PROVE  <<entry.name, entry.major>> \in RouteKeys(cell)
  <1> DEFINE entries == UNION {t.appliesTo : t \in ToSet(Terms(cell))}
             named(e) == {export \in Discoverable(cell) :
                            Route(export) = <<e.name, e.major>>}
             c1 == Terms(cell) # <<>> /\ \E export \in Discoverable(cell) :
                                            export.major = -1
             c2 == \E e \in entries : named(e) = {}
             c3 == \E e \in entries : e.column # ""
                     /\ \E export \in named(e) :
                           e.column \notin DOMAIN export.schema
             list == << <<"export: version is not semver", c1>>,
                        <<"applies_to: no discoverable export", c2>>,
                        <<"applies_to: no declared column", c3>> >>
  <1>1. FirstReason(list) = Accepted
    BY DEF AppliesToRefusal
  <1>2. entry \in entries
    OBVIOUS
  <1>3. ~c2
    <2> HIDE DEF c1, c2, c3
    <2>1. IsSeq(list) /\ DOMAIN list = {1, 2, 3}
      BY DEF IsSeq
    <2>2. /\ list[2][2] <=> c2
          /\ list[1][1] # Accepted /\ list[2][1] # Accepted /\ list[3][1] # Accepted
      BY DEF Accepted
    <2> HIDE DEF list
    <2>3. \A n \in DOMAIN list : ~list[n][2]
      <3>1. \A n \in DOMAIN list : list[n][1] # Accepted
        BY <2>1, <2>2
      <3> QED
        BY <1>1, <2>1, <3>1, NoReason
    <2> QED
      BY <2>1, <2>2, <2>3
  <1>4. named(entry) # {}
    <2> HIDE DEF named, entries
    <2> QED
      BY <1>2, <1>3
  <1> QED
    BY <1>4 DEF RouteKeys, Routes

\* What applies_to says is checked before the interface is shown: when the
\* file is loaded, or once the interface is discovered.
LEMMA AppliesChecked ==
    ASSUME NEW d, ConfigRefusalIn(d) = Accepted,
           \/ ~FileOf[d.file].cell.discover.on
           \/ Fresh(d.records.catalog, d.file, d.name)
    PROVE  LET cell == FileOf[d.file].cell
           IN  IF cell.discover.on
               THEN AppliesToRefusal(Materialized(cell, d.records.catalog.catalog,
                                                  FALSE)) = Accepted
               ELSE AppliesToRefusal(cell) = Accepted
  <1> DEFINE cell == FileOf[d.file].cell
             record == d.records.catalog
             r1 == LoadRefusal(cell)
             r2 == LoadedRefusal(cell, record, d.file, d.name)
             r3 == ResolveRefusal(cell, d.profile)
             r4 == StaticRefusal(LoadedInterface(cell, record, d.file, d.profile,
                                                 d.name))
  <1>1. r1 = Accepted /\ r2 = Accepted
    <2> DEFINE list == <<r1, r2, r3, r4>>
    <2>1. FirstRefusal(list) = Accepted
      BY DEF ConfigRefusalIn
    <2> HIDE DEF r1, r2, r3, r4
    <2>2. IsSeq(list) /\ DOMAIN list = 1..4 /\ list[1] = r1 /\ list[2] = r2
      BY DEF IsSeq
    <2> HIDE DEF list
    <2> QED
      BY <2>1, <2>2, NoRefusal
  <1> HIDE DEF r3, r4
  <1>2. CASE ~cell.discover.on
    <2> DEFINE s1 == ParseRefusal(cell)
               s2 == ProseRefusal(cell)
               s3 == DiscoverRefusal(cell)
               s4 == IF cell.definitions.yaml = "file"
                     THEN DefinitionsFileRefusal(cell.definitions.page)
                     ELSE Accepted
               s5 == GlossaryRefusal(cell)
               s6 == DocsRefusal(cell)
               s7 == IF cell.discover.on THEN Accepted ELSE AppliesToRefusal(cell)
               list == <<s1, s2, s3, s4, s5, s6, s7>>
    <2>1. FirstRefusal(list) = Accepted
      BY <1>1 DEF LoadRefusal
    <2> HIDE DEF s1, s2, s3, s4, s5, s6, s7
    <2>2. IsSeq(list) /\ DOMAIN list = 1..7 /\ list[7] = s7
      BY DEF IsSeq
    <2> HIDE DEF list
    <2>3. s7 = Accepted
      BY <2>1, <2>2, NoRefusal
    <2> QED
      BY <1>2, <2>3 DEF s7
  <1>3. CASE cell.discover.on
    <2> DEFINE made == Materialized(cell, record.catalog, FALSE)
               s1 == DocsRefusal(made)
               s2 == AppliesToRefusal(made)
               list == <<s1, s2>>
    <2>1. FirstRefusal(list) = Accepted
      BY <1>1, <1>3 DEF LoadedRefusal
    <2> HIDE DEF s1, s2
    <2>2. IsSeq(list) /\ DOMAIN list = 1..2 /\ list[2] = s2
      BY DEF IsSeq
    <2> HIDE DEF list
    <2>3. s2 = Accepted
      BY <2>1, <2>2, NoRefusal
    <2> QED
      BY <1>3, <2>3 DEF s2
  <1> QED
    BY <1>2, <1>3

\* A grain that is inherited moves no route, hides none and defines nothing.
LEMMA GrainKeepsKeys ==
    ASSUME NEW cell, {"interface", "definitions"} \subseteq DOMAIN cell,
           \A n \in DOMAIN cell.interface :
              {"name", "major", "grain", "visibility"}
                \subseteq DOMAIN cell.interface[n]
    PROVE  /\ Terms(WithGrain(cell)) = Terms(cell)
           /\ RouteKeys(WithGrain(cell)) = RouteKeys(cell)
           /\ DOMAIN WithGrain(cell).interface = DOMAIN cell.interface
  <1> DEFINE grain(export) == IF export.grain = <<>> THEN InheritedKey(export, cell)
                              ELSE export.grain
             interface == [n \in DOMAIN cell.interface |->
                [cell.interface[n] EXCEPT !["grain"] = grain(cell.interface[n])]]
  <1>1. /\ WithGrain(cell).interface = interface
        /\ WithGrain(cell).definitions = cell.definitions
    BY DEF WithGrain, Verdicts
  <1> HIDE DEF grain
  <1>2. /\ DOMAIN interface = DOMAIN cell.interface
        /\ \A n \in DOMAIN cell.interface :
              /\ Route(interface[n]) = Route(cell.interface[n])
              /\ interface[n].visibility = cell.interface[n].visibility
    BY DEF Route
  <1> HIDE DEF interface
  <1>3. RouteKeys(WithGrain(cell)) = RouteKeys(cell)
    BY <1>1, <1>2 DEF RouteKeys, Routes, Discoverable, ToSet
  <1> QED
    BY <1>1, <1>2, <1>3 DEF Terms

\* Where the warehouse keeps its tables changes nothing of what is shown.
LEMMA MadeKeeps ==
    ASSUME NEW cell, {"interface", "sources", "definitions"} \subseteq DOMAIN cell,
           NEW catalog, NEW keep
    PROVE  LET made == Materialized(cell, catalog, keep)
           IN  /\ Terms(made) = Terms(cell)
               /\ RouteKeys(made) = RouteKeys(Materialized(cell, catalog, FALSE))
               /\ {"interface", "definitions"} \subseteq DOMAIN made
               /\ DOMAIN made.interface = DOMAIN catalog.models
               /\ \A n \in DOMAIN made.interface :
                     {"name", "major", "grain", "visibility"}
                       \subseteq DOMAIN made.interface[n]
  <1> DEFINE models == catalog.models
             interface == [n \in DOMAIN models |->
                DiscoveredExport(cell.discover, models[n], models)]
  <1>1. ASSUME NEW k
        PROVE  LET made == Materialized(cell, catalog, k)
               IN  /\ made.interface = interface
                   /\ made.definitions = cell.definitions
                   /\ {"interface", "definitions"} \subseteq DOMAIN made
    BY DEF Materialized, Verdicts
  <1>2. \A n \in DOMAIN interface :
           {"name", "major", "grain", "visibility"} \subseteq DOMAIN interface[n]
    BY DEF DiscoveredExport
  <1>3. DOMAIN interface = DOMAIN models
    OBVIOUS
  <1> HIDE DEF interface
  <1> QED
    BY <1>1, <1>2, <1>3 DEF Terms, RouteKeys, Routes, Discoverable

\* A catalog that is recorded has a list of models.
Listed(catalog) ==
    catalog.kind # "none" => DOMAIN catalog.catalog.models \subseteq Nat

\* What is loaded of a directory.
LEMMA LoadedKeeps ==
    ASSUME NEW d, d.file \in Files
    PROVE  LET cell == FileOf[d.file].cell
               made == Materialized(cell, d.records.catalog.catalog, FALSE)
           IN  /\ Listed(d.records.catalog)
                    => DOMAIN LoadedIn(d).interface \subseteq Nat
               /\ Terms(LoadedIn(d)) = Terms(cell) /\ Terms(made) = Terms(cell)
               /\ RouteKeys(LoadedIn(d))
                    = IF cell.discover.on /\ Fresh(d.records.catalog, d.file, d.name)
                      THEN RouteKeys(made) ELSE RouteKeys(cell)
  <1> DEFINE cell == FileOf[d.file].cell
             record == d.records.catalog
             loaded == LoadedInterface(cell, record, d.file, d.profile, d.name)
             made == Materialized(cell, record.catalog, FALSE)
             found == cell.discover.on /\ Fresh(record, d.file, d.name)
  <1>1. /\ {"interface", "sources", "definitions"} \subseteq DOMAIN cell
        /\ cell.interface \in Seq(ToSet(cell.interface))
        /\ \A n \in DOMAIN cell.interface :
              {"name", "major", "grain", "visibility"}
                \subseteq DOMAIN cell.interface[n]
    BY InterfacesAssumption
  <1>2. DOMAIN cell.interface \subseteq Nat
    <2> HIDE DEF cell
    <2> QED
      BY <1>1
  <1>3. LoadedIn(d) = WithGrain(loaded)
    BY DEF LoadedIn
  <1>4. CASE ~found
    <2>1. loaded = cell
      BY <1>4 DEF LoadedInterface
    <2> HIDE DEF cell, loaded
    <2>2. Terms(made) = Terms(cell)
      BY <1>1, MadeKeeps
    <2> QED
      BY <1>1, <1>2, <1>3, <1>4, <2>1, <2>2, GrainKeepsKeys DEF cell
  <1>5. CASE found
    <2>1. PICK keep : loaded = Materialized(cell, record.catalog, keep)
      BY <1>5 DEF LoadedInterface
    <2>2. record.kind # "none"
      BY <1>5, FreshMeans
    <2> HIDE DEF cell, loaded
    <2>3. /\ Terms(loaded) = Terms(cell) /\ Terms(made) = Terms(cell)
          /\ RouteKeys(loaded) = RouteKeys(made)
          /\ {"interface", "definitions"} \subseteq DOMAIN loaded
          /\ DOMAIN loaded.interface = DOMAIN record.catalog.models
          /\ \A n \in DOMAIN loaded.interface :
                {"name", "major", "grain", "visibility"}
                  \subseteq DOMAIN loaded.interface[n]
      <3> DEFINE catalog == record.catalog
      <3>1. loaded = Materialized(cell, catalog, keep)
        BY <2>1
      <3> HIDE DEF catalog
      <3>2. LET it == Materialized(cell, catalog, keep)
            IN  /\ Terms(it) = Terms(cell)
                /\ RouteKeys(it) = RouteKeys(Materialized(cell, catalog, FALSE))
                /\ {"interface", "definitions"} \subseteq DOMAIN it
                /\ DOMAIN it.interface = DOMAIN catalog.models
                /\ \A n \in DOMAIN it.interface :
                      {"name", "major", "grain", "visibility"}
                        \subseteq DOMAIN it.interface[n]
        BY <1>1, MadeKeeps
      <3>3. Terms(Materialized(cell, catalog, FALSE)) = Terms(cell)
        BY <1>1, MadeKeeps
      <3> QED
        BY <3>1, <3>2, <3>3 DEF catalog
    <2> HIDE DEF made
    <2>4. /\ Terms(WithGrain(loaded)) = Terms(loaded)
          /\ RouteKeys(WithGrain(loaded)) = RouteKeys(loaded)
          /\ DOMAIN WithGrain(loaded).interface = DOMAIN loaded.interface
      BY <2>3, GrainKeepsKeys
    <2> QED
      BY <1>3, <1>5, <2>2, <2>3, <2>4 DEF cell, made, Listed
  <1> QED
    BY <1>4, <1>5

\* So a definition that is shown applies to what is shown.
LEMMA DefinitionsKeep ==
    ASSUME NEW d, d.file \in Files, ConfigRefusalIn(d) = Accepted,
           \/ ~FileOf[d.file].cell.discover.on
           \/ Fresh(d.records.catalog, d.file, d.name),
           NEW document,
           document.definitions = Verdicts(DefinitionDoc, Terms(LoadedIn(d)))
    PROVE  DefinedRoutes(document) \subseteq RouteKeys(LoadedIn(d))
  <1> DEFINE cell == FileOf[d.file].cell
             made == Materialized(cell, d.records.catalog.catalog, FALSE)
  <1>1. PICK shown : /\ shown \in {cell, made}
                     /\ AppliesToRefusal(shown) = Accepted
                     /\ Terms(LoadedIn(d)) = Terms(shown)
                     /\ RouteKeys(LoadedIn(d)) = RouteKeys(shown)
    BY AppliesChecked, LoadedKeeps
  <1>2. ASSUME NEW t \in ToSet(document.definitions)
        PROVE  \E term \in ToSet(Terms(shown)) : t.appliesTo = term.appliesTo
    BY <1>1 DEF ToSet, Verdicts, DefinitionDoc
  <1> HIDE DEF cell, made
  <1>3. ASSUME NEW t \in ToSet(document.definitions), NEW entry \in t.appliesTo
        PROVE  <<entry.name, entry.major>> \in RouteKeys(shown)
    BY <1>1, <1>2, AppliesMeans
  <1> QED
    BY <1>1, <1>3 DEF DefinedRoutes

-----------------------------------------------------------------------------
\* `context` shows the interface, with what was measured and verified of it.
LEMMA ShownInterface ==
    ASSUME NEW d, NEW cell
    PROVE  Shows(ShownIn(d, cell), Interface(cell, DescribedIn(d), ModelsIn(d)),
                 FreshIn(d, d.records.semanticCheck))
  <1> DEFINE interface == Interface(cell, DescribedIn(d), ModelsIn(d))
             told == Told(FreshIn(d, d.records.sourceCheck), RouteKeys(cell), TRUE)
             semantic == FreshIn(d, d.records.semanticCheck)
             over(x) == Overlaid(x.semantic, x.route, semantic)
             whole == Assemble(interface, ExecutionIn(d), told, semantic, <<>>,
                               BuildsNoSnapshot(cell), DirectAttach(d.profile), <<>>)
             measured(route) == IF told.kind # "none" /\ route \in DOMAIN told.exports
                                THEN {told.exports[route]} ELSE {}
  <1>1. ShownIn(d, cell) = Emitted(whole, <<>>, Everything, {}, {})
    BY DEF ShownIn
  <1>2. /\ whole.exports = {With(x, measured(x.route), {}, over(x))
                              : x \in interface.exports}
        /\ whole.docs = interface.docs /\ whole.definitions = interface.definitions
        /\ {"exports", "docs", "definitions"} \subseteq DOMAIN whole
    <2> HIDE DEF interface, told, semantic
    <2> QED
      BY DEF Assemble, With
  <1>3. ASSUME NEW x \in interface.exports PROVE IsExportDoc(x)
    BY ExportDocHolds DEF Interface
  <1>4. /\ ShownIn(d, cell).exports = whole.exports
        /\ ShownIn(d, cell).docs = whole.docs
        /\ ShownIn(d, cell).definitions = whole.definitions
    <2> HIDE DEF whole
    <2> QED
      BY <1>1, <1>2 DEF Emitted, Everything, Including
  <1> HIDE DEF whole, interface, measured, over
  <1>5. ASSUME NEW x \in interface.exports
        PROVE  LET e == With(x, measured(x.route), {}, over(x))
               IN  e.route = x.route /\ e.semantic = over(x)
    BY <1>3 DEF With, IsExportDoc, ExportFields
  <1>6. Shows(ShownIn(d, cell), interface, semantic)
    <2> HIDE DEF semantic
    <2> QED
      BY <1>2, <1>4, <1>5 DEF over, Shows
  <1> QED
    BY <1>6 DEF interface

\* So does a server.
LEMMA ServedInterface ==
    ASSUME NEW m, NEW d, NEW dataMounted, m = MountIn(d, dataMounted)
    PROVE  Shows(Document(m), Interface(m.cell, DescribedIn(d), ModelsIn(d)),
                 m.semantic)
  <1> DEFINE interface == Interface(m.cell, DescribedIn(d), ModelsIn(d))
  <1>1. m.interface = interface
    BY MountHolds
  <1>2. ASSUME NEW x \in interface.exports PROVE IsExportDoc(x)
    BY ExportDocHolds DEF Interface
  <1> HIDE DEF interface
  <1>3. ASSUME NEW x \in interface.exports
        PROVE  /\ AsShown(m, x).route = x.route
               /\ AsShown(m, x).semantic
                    = Overlaid(x.semantic, x.route, m.semantic)
    BY <1>2 DEF AsShown, With, IsExportDoc, ExportFields
  <1> QED
    BY <1>1, <1>3, DocumentShows, DocumentHolds DEF interface, Shows

\* The definitions of an interface are those of its cell.
LEMMA InterfaceDefines ==
    ASSUME NEW cell, NEW described, NEW models
    PROVE  Interface(cell, described, models).definitions
             = Verdicts(DefinitionDoc, Terms(cell))
  BY DEF Interface

\* What a sync keeps of an environment is a list.
LEMMA DeployedListed ==
    ASSUME NEW discover, NEW store, NEW c, NEW warehouse
    PROVE  DOMAIN DeployedCatalog(discover, store, c, warehouse).models
             \subseteq Nat
  <1> DEFINE selected == SelectedModels(discover, store)
             kept == Picked(selected,
                        DOMAIN selected \ Unresolvable(selected, c, warehouse))
             models == [n \in 1..Len(kept) |->
                          Deployed(store, kept[n],
                                   ReadColumns(c, kept[n].view, warehouse))]
             plan == store.environments[discover.environment].plan
  <1>1. DeployedCatalog(discover, store, c, warehouse)
          = [plan |-> plan, models |-> models]
    BY Zenon DEF DeployedCatalog
  <1> HIDE DEF kept
  <1>2. DOMAIN models \subseteq Nat
    OBVIOUS
  <1> HIDE DEF models, plan
  <1> QED
    BY <1>1, <1>2

\* What is recorded, and what is mounted, is a list.
ListedInv ==
    /\ Listed(records.catalog)
    /\ mount # None => DOMAIN mount.cell.interface \subseteq Nat

\* There are no records at first.
LEMMA ListedInit == Init => ListedInv
  <1> SUFFICES ASSUME Init PROVE ListedInv
    OBVIOUS
  <1>1. records.catalog = None /\ mount = None
    BY DEF Init
  <1> QED
    BY <1>1 DEF ListedInv, Listed, None

\* A server mounts what it has loaded, a sync records what it has read.
LEMMA ListedNext ==
    ASSUME IndType, ListedInv, [Next]_vars
    PROVE  ListedInv'
  <1>1. Listed(records.catalog)'
    <2>1. CASE UNCHANGED records.catalog
      BY <2>1 DEF ListedInv, Listed
    <2>2. ASSUME NEW p \in DOMAIN Profiles,
                 NEW cell, SyncsCatalog(cell, p)
          PROVE  Listed(records.catalog)'
      <3>1. records'.catalog.catalog = SyncableCatalog(cell, p)
        BY <2>2, CatalogOf DEF SyncsCatalog
      <3>2. DOMAIN SyncableCatalog(cell, p).models \subseteq Nat
        BY DeployedListed DEF SyncableCatalog
      <3> QED
        BY <3>1, <3>2 DEF Listed
    <2> QED
      BY <2>1, <2>2, CatalogStays
  <1>2. ASSUME NEW name, NEW dataMounted, mount' = MountIn(Here(name), dataMounted)
        PROVE  DOMAIN mount'.cell.interface \subseteq Nat
    <2>1. Here(name).file \in Files /\ Here(name).records = records
      BY DEF Here, IndType, DataType
    <2>2. mount'.cell = LoadedIn(Here(name))
      BY <1>2, MountHolds
    <2> QED
      BY <2>1, <2>2, LoadedKeeps DEF ListedInv
  <1>3. ASSUME NEW p \in DOMAIN Profiles, NEW dataMounted \in BOOLEAN,
               Serve(p, dataMounted)
        PROVE  DOMAIN mount'.cell.interface \subseteq Nat
    BY <1>2, <1>3 DEF Serve
  <1>4. ASSUME NEW project \in Projects, NEW cli, NEW noData,
               ServeProject(project, cli, noData)
        PROVE  DOMAIN mount'.cell.interface \subseteq Nat
    BY <1>2, <1>4 DEF ServeProject
  <1>5. mount' # None => DOMAIN mount'.cell.interface \subseteq Nat
    BY <1>3, <1>4, MountStays DEF ListedInv
  <1> QED
    BY <1>1, <1>5 DEF ListedInv

\* What is served is loaded without a refusal, and discovered.
LEMMA ServedMeans ==
    ASSUME NEW d, ServeRefusalIn(d) = Accepted
    PROVE  /\ ConfigRefusalIn(d) = Accepted
           /\ \/ ~FileOf[d.file].cell.discover.on
              \/ Fresh(d.records.catalog, d.file, d.name)
  <1> DEFINE of == FileOf[d.file]
             c1 == /\ of.cell.discover.on
                   /\ ~Fresh(d.records.catalog, d.file, d.name)
             c2 == of.semantic.kind # "none" /\ ~SemanticFreshIn(d)
             list == << <<"serve: discovery", c1>>,
                        <<"serve: semantic model", c2>> >>
  <1>1. ConfigRefusalIn(d) = Accepted /\ FirstReason(list) = Accepted
    BY DEF ServeRefusalIn, OpenRefusalIn, Then
  <1>2. ~c1
    <2> HIDE DEF c1, c2
    <2>1. IsSeq(list) /\ DOMAIN list = {1, 2}
      BY DEF IsSeq
    <2>2. /\ list[1][2] <=> c1
          /\ list[1][1] # Accepted /\ list[2][1] # Accepted
      BY DEF Accepted
    <2> HIDE DEF list
    <2>3. \A n \in DOMAIN list : list[n][1] # Accepted
      BY <2>1, <2>2
    <2>4. ~list[1][2]
      BY <1>1, <2>1, <2>3, NoReason
    <2> QED
      BY <2>2, <2>4
  <1> QED
    BY <1>1, <1>2

\* ADR 0012: a private export appears nowhere, not even as a name. Not as an
\* export, a page, what a definition applies to, or the route of a dataset or
\* of an end of a relationship: neither in the document that `context` prints,
\* nor in one of a server, whatever was synced, edited or released before.
THEOREM PrivateIsNeverNamed == Spec => []PrivateStaysPrivate
  <1>1. ASSUME IndType, MountInv, ListedInv PROVE PrivateStaysPrivate
    <2>1. ASSUME NEW p \in DOMAIN Profiles, Loads(p)
          PROVE  /\ NamedRoutes(Shown(p)) \subseteq RouteKeys(Loaded(p))
                 /\ ~Cell0.discover.on \/ Fresh(records.catalog, file, p)
                      => DefinedRoutes(Shown(p)) \subseteq RouteKeys(Loaded(p))
      <3> DEFINE d == Here(p)
      <3>1. /\ d.file = file /\ d.records = records /\ d.name = p
            /\ d.file \in Files
        BY <1>1 DEF Here, IndType, DataType
      <3>2. ConfigRefusalIn(d) = Accepted
        BY <2>1 DEF Loads, ConfigRefusal
      <3> HIDE DEF d
      <3>3. DOMAIN LoadedIn(d).interface \subseteq Nat
        BY <1>1, <3>1, LoadedKeeps DEF ListedInv
      <3>4. NamedRoutes(ShownIn(d, LoadedIn(d))) \subseteq RouteKeys(LoadedIn(d))
        BY <3>3, ShownInterface, InterfaceKeeps
      <3>5. ASSUME ~Cell0.discover.on \/ Fresh(records.catalog, file, p)
            PROVE  DefinedRoutes(ShownIn(d, LoadedIn(d))) \subseteq RouteKeys(LoadedIn(d))
        BY <3>1, <3>2, <3>5, ShownInterface, InterfaceDefines, DefinitionsKeep
           DEF Cell0, Shows
      <3> QED
        BY <3>4, <3>5 DEF Shown, Loaded, d
    <2>2. ASSUME mount.kind # "none"
          PROVE  /\ NamedRoutes(Document(mount)) \cup DefinedRoutes(Document(mount))
                      \subseteq RouteKeys(mount.cell)
                 /\ \A model \in ToSet(mount.models) :
                       \A dataset \in ModelDoc(model, mount.index,
                                               mount.semantic).datasets :
                          SemanticRoutes(dataset.doc) \subseteq RouteKeys(mount.cell)
      <3>1. PICK d, dataMounted : IsMountOf(mount, d, dataMounted)
        BY <1>1, <2>2 DEF MountInv, IsMount, None
      <3>2. /\ mount = MountIn(d, dataMounted)
            /\ d.file \in Files /\ ServeRefusalIn(d) = Accepted
        BY <3>1 DEF IsMountOf
      <3>3. /\ mount.cell = LoadedIn(d)
            /\ mount.index = RestrictedTo(Index(mount.models, mount.cell.interface),
                                          RouteKeys(mount.cell))
            /\ mount # None
        BY <3>2, MountHolds
      <3>4. DOMAIN mount.cell.interface \subseteq Nat
        BY <1>1, <3>3 DEF ListedInv
      <3>5. NamedRoutes(Document(mount)) \subseteq RouteKeys(mount.cell)
        BY <3>2, <3>4, ServedInterface, InterfaceKeeps
      <3>6. /\ ConfigRefusalIn(d) = Accepted
            /\ ~FileOf[d.file].cell.discover.on
                 \/ Fresh(d.records.catalog, d.file, d.name)
        BY <3>2, ServedMeans
      <3>7. DefinedRoutes(Document(mount)) \subseteq RouteKeys(mount.cell)
        BY <3>2, <3>3, <3>6, ServedInterface, InterfaceDefines, DefinitionsKeep
           DEF Shows
      <3>8. ASSUME NEW model,
                   NEW dataset \in ModelDoc(model, mount.index,
                                           mount.semantic).datasets
            PROVE  SemanticRoutes(dataset.doc) \subseteq RouteKeys(mount.cell)
        <4>1. PICK it : dataset.doc = DatasetDoc(model, it, mount.index)
          BY ModelDocs
        <4> QED
          BY <3>3, <3>4, <4>1, DatasetKeeps
      <3> QED
        BY <3>5, <3>7, <3>8
    <2> QED
      BY <2>1, <2>2 DEF PrivateStaysPrivate
  <1>2. Spec => []ListedInv
    BY TypeInit, TypeNext, ListedInit, ListedNext, PTL DEF Spec
  <1> QED
    BY <1>1, <1>2, MountAlways, PTL

-----------------------------------------------------------------------------
(* What `verify` finds of an export that `import` has written.             *)

\* The first check that fails says why.
LEMMA FirstSays ==
    ASSUME NEW checks, IsSeq(checks)
    PROVE  \/ FirstReason(checks) = Accepted
           \/ \E n \in DOMAIN checks :
                 checks[n][2] /\ FirstReason(checks) = checks[n][1]
  <1> DEFINE failed == {i \in 1..Len(checks) : checks[i][2]}
  <1>1. failed # {} => Min(failed) \in failed
    <2> failed \subseteq Nat
      BY DEF IsSeq
    <2> HIDE DEF failed
    <2> QED
      BY MinIsLeast
  <1>2. failed = {} \/ Min(failed) # 0
    BY <1>1 DEF IsSeq
  <1>3. FirstReason(checks)
          = IF failed = {} THEN Accepted ELSE checks[Min(failed)][1]
    BY <1>2 DEF FirstReason, SelectInSeq, IsSeq
  <1> QED
    BY <1>1, <1>3 DEF IsSeq

\* A type that is suggested for DuckDB's is one that is read as DuckDB's.
LEMMA SuggestedDuckFits ==
    ASSUME NEW actual, SuggestDuck(actual) # ""
    PROVE  TypeCompatible(SuggestDuck(actual), actual)
  <1> DEFINE fits == {family \in DOMAIN DuckTypes : actual \in DuckTypes[family]}
             suggested == SuggestDuck(actual)
  <1>1. suggested \in fits
    BY DEF SuggestDuck
  <1>2. /\ suggested \in DOMAIN DuckTypes
        /\ actual \in DuckTypes[suggested]
    BY <1>1
  <1>3. \A family \in DOMAIN DuckTypes : Family(family) = family
    BY DEF DuckTypes, Family
  <1> HIDE DEF suggested
  <1>4. Family(suggested) = suggested
    BY <1>2, <1>3
  <1>5. TypeCompatible(suggested, actual)
    BY <1>2, <1>4 DEF TypeCompatible
  <1> QED
    BY <1>5 DEF suggested

\* And one for BigQuery's is one that is read as BigQuery's.
LEMMA SuggestedNativeFits ==
    ASSUME NEW native, SuggestNative(native) # ""
    PROVE  NativeCompatible(SuggestNative(native), native)
  <1> DEFINE fits == {family \in DOMAIN NativeTypes \ {"integer"} :
                         native \in NativeTypes[family]}
             suggested == SuggestNative(native)
  <1>1. suggested \in fits
    BY DEF SuggestNative
  <1>2. /\ suggested \in DOMAIN NativeTypes
        /\ native \in NativeTypes[suggested]
    BY <1>1
  <1>3. \A family \in DOMAIN NativeTypes : Family(family) = family
    BY DEF NativeTypes, Family
  <1> HIDE DEF suggested
  <1>4. Family(suggested) = suggested
    BY <1>2, <1>3
  <1>5. NativeCompatible(suggested, native)
    BY <1>2, <1>4 DEF NativeCompatible
  <1> QED
    BY <1>5 DEF suggested

\* A type that import writes is compatible with what it was found for: the
\* warehouse's type where it is known, else DuckDB's.
LEMMA ImportedTypeFits ==
    ASSUME NEW warehouse, NEW name, NEW actual,
           ImportedType(warehouse, name, actual) # "unmapped"
    PROVE  ColumnTypeOk(warehouse.connector, NativeType(warehouse, name),
                        ImportedType(warehouse, name, actual), actual)
  <1> DEFINE native == NativeType(warehouse, name)
             type == ImportedType(warehouse, name, actual)
             known == NativeKnown(warehouse.connector)
  <1>1. CASE known /\ native # ""
    <2>1. type = SuggestNative(native) /\ SuggestNative(native) # ""
      BY <1>1 DEF ImportedType
    <2> QED
      BY <1>1, <2>1, SuggestedNativeFits DEF ColumnTypeOk
  <1>2. CASE ~known /\ native # ""
    BY <1>2 DEF ImportedType
  <1>3. CASE native = ""
    <2>1. type = SuggestDuck(actual) /\ SuggestDuck(actual) # ""
      BY <1>3 DEF ImportedType
    <2> QED
      BY <1>3, <2>1, SuggestedDuckFits DEF ColumnTypeOk
  <1> QED
    BY <1>1, <1>2, <1>3

\* What import writes of a table is found in it, with its types.
LEMMA ImportIsVerified ==
    ASSUME NEW table, NEW warehouse,
           \A one, other \in DOMAIN table.columns : Same(one, other) => one = other,
           NEW mapped, mapped \subseteq DOMAIN table.columns,
           \A name \in mapped :
              ImportedType(warehouse, name, table.columns[name]) # "unmapped"
    PROVE  SchemaRefusal(
             [schema |-> [name \in mapped |->
                [type |-> ImportedType(warehouse, name, table.columns[name])]]],
             table, warehouse) = Accepted
  <1> DEFINE type(name) == ImportedType(warehouse, name, table.columns[name])
             export == [schema |-> [name \in mapped |-> [type |-> type(name)]]]
             c1 == \E name \in DOMAIN export.schema : ColumnLike(table, name) = {}
             c2 == \E name \in DOMAIN export.schema :
                      /\ ~(ColumnLike(table, name) = {})
                      /\ ~ColumnTypeOk(warehouse.connector,
                                       NativeType(warehouse, name),
                                       export.schema[name].type,
                                       table.columns[ColumnOf(table, name)])
             list == << <<"verify: declared column missing", c1>>,
                        <<"verify: declared type does not match", c2>> >>
  <1>1. SchemaRefusal(export, table, warehouse) = FirstReason(list)
    BY DEF SchemaRefusal
  <1>2. \A name \in mapped : ColumnLike(table, name) = {name}
    BY DEF ColumnLike, Same
  <1>3. \A name \in mapped : ColumnOf(table, name) = name
    BY <1>2 DEF ColumnOf
  <1>4. \A name \in mapped :
           ColumnTypeOk(warehouse.connector, NativeType(warehouse, name),
                        type(name), table.columns[name])
    BY ImportedTypeFits
  <1> HIDE DEF type
  <1>5. /\ DOMAIN export.schema = mapped
        /\ \A name \in mapped : export.schema[name].type = type(name)
    OBVIOUS
  <1> HIDE DEF export
  <1>6. ~c1 /\ ~c2
    BY <1>2, <1>3, <1>4, <1>5
  <1> HIDE DEF c1, c2
  <1>7. /\ IsSeq(list) /\ DOMAIN list = {1, 2}
        /\ ~list[1][2] /\ ~list[2][2]
    BY <1>6 DEF IsSeq
  <1> HIDE DEF list
  <1>8. FirstReason(list) = Accepted
    BY <1>7, FirstSays
  <1> QED
    BY <1>1, <1>8 DEF export, type

\* What `import` writes of a live source, `verify` accepts of it, whichever
\* types the source has, and whether the warehouse's are known or DuckDB's.
THEOREM ImportsAreVerified == Spec => []ImportedTypesHold
  <1>1. ASSUME IndType PROVE ImportedTypesHold
    <2> SUFFICES ASSUME NEW p \in DOMAIN Profiles,
                        NEW name \in DOMAIN SourceTables(Loaded(p)), NEW warehouse
                 PROVE  ImportHolds(Loaded(p), name, warehouse,
                                    ImportedExport("imported", name,
                                       SourceTables(Loaded(p))[name], warehouse))
      BY DEF ImportedTypesHold, ImportsHold
    <2> DEFINE table == SourceTables(Loaded(p))[name]
               import == ImportedExport("imported", name, table, warehouse)
               mapped == {column \in DOMAIN import.schema :
                             import.schema[column] # "unmapped"}
    <2>1. \A one, other \in DOMAIN table.columns : Same(one, other) => one = other
      <3>1. world \in Worlds
        BY <1>1 DEF IndType, DataType
      <3>2. PICK at \in DOMAIN Outside.tables : table = Outside.tables[at]
        BY DEF SourceTables
      <3> QED
        BY <3>1, <3>2, TablesAssumption DEF Outside
    <2> HIDE DEF table
    <2>2. import.schema = [column \in DOMAIN table.columns |->
                             ImportedType(warehouse, column, table.columns[column])]
      BY DEF ImportedExport
    <2>3. /\ mapped \subseteq DOMAIN table.columns
          /\ \A column \in mapped :
                /\ import.schema[column]
                     = ImportedType(warehouse, column, table.columns[column])
                /\ ImportedType(warehouse, column, table.columns[column]) # "unmapped"
      BY <2>2
    <2> HIDE DEF import, mapped
    <2>4. SchemaRefusal(
            [schema |-> [column \in mapped |->
               [type |-> ImportedType(warehouse, column, table.columns[column])]]],
            table, warehouse) = Accepted
      BY <2>1, <2>3, ImportIsVerified
    <2>5. [column \in mapped |-> [type |-> import.schema[column]]]
            = [column \in mapped |->
                 [type |-> ImportedType(warehouse, column, table.columns[column])]]
      BY <2>3
    <2>6. SchemaRefusal([schema |-> [column \in mapped |->
                                       [type |-> import.schema[column]]]],
                        table, warehouse) = Accepted
      BY <2>4, <2>5
    <2> QED
      BY <2>6 DEF ImportHolds, mapped, import, table
  <1> QED
    BY <1>1, TypeInit, TypeNext, PTL DEF Spec

-----------------------------------------------------------------------------
(* What a sync records of the warehouse.                                   *)

\* Every element that is picked of a list is one of its elements.
LEMMA PickedElements ==
    ASSUME NEW list, NEW positions \in SUBSET Nat, IsFiniteSet(positions),
           NEW k \in DOMAIN Picked(list, positions)
    PROVE  \E n \in positions : Picked(list, positions)[k] = list[n]
  <1> DEFINE upTo(n) == {m \in positions : m <= n}
             size == Cardinality(positions)
             rank == [n \in positions |-> Cardinality(upTo(n))]
             nth(j) == CHOOSE n \in positions : Cardinality(upTo(n)) = j
  <1>1. size \in Nat
    BY FS_CardinalityType
  <1>2. ASSUME NEW n \in positions
        PROVE  rank[n] \in 1..size
    <2>1. IsFiniteSet(upTo(n)) /\ Cardinality(upTo(n)) <= size
      BY FS_Subset
    <2>2. n \in upTo(n)
      OBVIOUS
    <2>3. Cardinality(upTo(n)) \in Nat /\ Cardinality(upTo(n)) # 0
      BY <2>1, <2>2, FS_CardinalityType, FS_EmptySet
    <2> QED
      BY <1>1, <2>1, <2>3
  <1>3. ASSUME NEW n \in positions, NEW m \in positions, n < m
        PROVE  rank[n] # rank[m]
    <2>0. \A l \in positions : l <= n => l <= m
      BY <1>3
    <2>1. IsFiniteSet(upTo(m)) /\ upTo(n) \in SUBSET upTo(m)
      <3>1. IsFiniteSet(upTo(m))
        BY FS_Subset
      <3> QED
        BY <2>0, <3>1
    <2>2. m \in upTo(m) /\ m \notin upTo(n)
      BY <1>3
    <2>3. Cardinality(upTo(n)) # Cardinality(upTo(m))
      BY <2>1, <2>2, FS_Subset
    <2> QED
      BY <2>3
  <1>4. rank \in Injection(positions, 1..size)
    <2>1. rank \in [positions -> 1..size]
      BY <1>2
    <2>2. \A n, m \in positions : rank[n] = rank[m] => n = m
      BY <1>3
    <2> HIDE DEF rank
    <2> QED
      BY <2>1, <2>2 DEF Injection, IsInjective
  <1>5. IsFiniteSet(1..size) /\ Cardinality(1..size) = size
    BY <1>1, FS_Interval
  <1>6. rank \in Surjection(positions, 1..size)
    BY <1>4, <1>5, FS_Injection
  <1>7. Picked(list, positions) = [j \in 1..size |-> list[nth(j)]]
    BY DEF Picked
  <1>8. k \in 1..size
    BY <1>7
  <1>9. \E n \in positions : Cardinality(upTo(n)) = k
    BY <1>6, <1>8 DEF Surjection
  <1> QED
    BY <1>7, <1>8, <1>9

\* What is picked is a list again.
LEMMA PickedIsList ==
    ASSUME NEW list, NEW positions, IsFiniteSet(positions)
    PROVE  /\ DOMAIN Picked(list, positions) \in SUBSET Nat
           /\ IsFiniteSet(DOMAIN Picked(list, positions))
           /\ DOMAIN Picked(list, positions) = 1..Len(Picked(list, positions))
  <1> DEFINE size == Cardinality(positions)
             nth(k) == CHOOSE n \in positions :
                          Cardinality({m \in positions : m <= n}) = k
             picked == [k \in 1..size |-> list[nth(k)]]
  <1>1. Picked(list, positions) = picked
    BY DEF Picked
  <1>2. size \in Nat
    BY FS_CardinalityType
  <1>3. DOMAIN picked = 1..size
    OBVIOUS
  <1>4. Len(picked) = size
    <2> HIDE DEF size, nth
    <2> QED
      BY <1>2
  <1> QED
    BY <1>1, <1>2, <1>3, <1>4, FS_Interval

\* Every model that a sync records is one of the environment.
LEMMA KeptModels ==
    ASSUME NEW discover, NEW store, NEW c, NEW warehouse,
           NEW models,
           models = StateModels(store, store.environments[discover.environment]),
           DOMAIN models \in SUBSET Nat, IsFiniteSet(DOMAIN models),
           NEW kept \in ToSet(DeployedCatalog(discover, store, c, warehouse).models)
    PROVE  \E n \in DOMAIN models : kept.view = models[n].view
  <1> DEFINE chosen == {n \in DOMAIN models : Selected(discover, models[n])}
             selected == Picked(models, chosen)
             positions == DOMAIN selected \ Unresolvable(selected, c, warehouse)
             left == Picked(selected, positions)
             told(n) == ReadColumns(c, left[n].view, warehouse)
             recorded == [n \in 1..Len(left) |-> Deployed(store, left[n], told(n))]
             plan == store.environments[discover.environment].plan
  <1>1. chosen \in SUBSET Nat /\ IsFiniteSet(chosen)
    BY FS_Subset
  <1>2. DOMAIN selected \in SUBSET Nat /\ IsFiniteSet(DOMAIN selected)
    BY <1>1, PickedIsList
  <1>3. positions \in SUBSET Nat /\ IsFiniteSet(positions)
    BY <1>2, FS_Subset
  <1>4. SelectedModels(discover, store) = selected
    BY DEF SelectedModels
  <1>5. DeployedCatalog(discover, store, c, warehouse)
          = [plan |-> plan, models |-> recorded]
    BY <1>4, Zenon DEF DeployedCatalog
  <1>6. DOMAIN left = 1..Len(left)
    BY <1>3, PickedIsList
  <1> HIDE DEF recorded, plan, left, selected, chosen, positions
  <1>8. kept \in ToSet(recorded)
    BY <1>5
  <1>9. PICK k \in 1..Len(left) : kept = Deployed(store, left[k], told(k))
    BY <1>8 DEF ToSet, recorded
  <1>10. kept.view = left[k].view
    BY <1>9 DEF Deployed
  <1>11. PICK m \in positions : left[k] = selected[m]
    BY <1>3, <1>6, <1>9, PickedElements DEF left
  <1>12. m \in DOMAIN selected
    BY DEF positions
  <1>13. PICK n \in chosen : selected[m] = models[n]
    BY <1>1, <1>12, PickedElements DEF selected
  <1> QED
    BY <1>10, <1>11, <1>13 DEF chosen


\* What SQLMesh does for an environment: it lists models, and once the plan
\* is finalized the view of each stands in the warehouse, the environment's
\* own of a model that is promoted, production's of another.
PlansAreCarriedOut ==
    \A w \in Worlds :
        \A name \in DOMAIN WorldOf[w].store.environments :
            LET env == WorldOf[w].store.environments[name]
            IN  /\ env.snapshots \in Seq(ToSet(env.snapshots))
                /\ ~InFlight(env) =>
                     \A entry \in ToSet(env.snapshots) :
                        \/ /\ Promoted(env, entry)
                           /\ ViewOf(env, entry.name, TRUE)
                                \in DOMAIN WorldOf[w].views
                        \/ /\ ~Promoted(env, entry)
                           /\ ViewOf(env, entry.name, FALSE)
                                \in DOMAIN WorldOf[w].views

\* A sync that records anything has found its environment, and no plan in
\* flight.
LEMMA DiscoverySettled ==
    ASSUME NEW cell, NEW p, DiscoveryRefusal(cell, p) = Accepted
    PROVE  /\ cell.discover.environment \in DOMAIN Outside.store.environments
           /\ ~InFlight(Outside.store.environments[cell.discover.environment])
  <1> DEFINE discover == cell.discover
             store == Outside.store
             env == store.environments[discover.environment]
             c == Profiles[p].connections[discover.warehouse]
  <1>1. ReadRefusal(discover, store, c, Outside.views) = Accepted
    BY DEF DiscoveryRefusal, Then
  <1>2. /\ EnvironmentRefusal(store, discover.environment) = Accepted
        /\ ~InFlight(env)
    BY <1>1 DEF ReadRefusal, Then, Accepted
  <1>3. discover.environment \in DOMAIN store.environments
    BY <1>2 DEF EnvironmentRefusal, Accepted
  <1> QED
    BY <1>2, <1>3

\* A model of an environment has the view that its plan gave it.
LEMMA ViewOfModel ==
    ASSUME NEW store, NEW env, NEW entry
    PROVE  StateModel(store, env, entry).view
             = ViewOf(env, entry.name, Promoted(env, entry))
  BY Zenon DEF StateModel

LEMMA ViewsOfModels ==
    ASSUME NEW store, NEW env, env.snapshots \in Seq(ToSet(env.snapshots)),
           NEW models, models = StateModels(store, env)
    PROVE  /\ DOMAIN models \in SUBSET Nat
           /\ IsFiniteSet(DOMAIN models)
           /\ \A n \in DOMAIN models :
                 \E entry \in ToSet(env.snapshots) :
                    models[n].view = ViewOf(env, entry.name, Promoted(env, entry))
  <1>1. DOMAIN models = 1..Len(env.snapshots) /\ Len(env.snapshots) \in Nat
    BY DEF StateModels
  <1>2. ASSUME NEW n \in DOMAIN models
        PROVE  \E entry \in ToSet(env.snapshots) :
                  models[n].view = ViewOf(env, entry.name, Promoted(env, entry))
    <2>1. models[n] = StateModel(store, env, env.snapshots[n])
      BY DEF StateModels
    <2>2. env.snapshots[n] \in ToSet(env.snapshots)
      BY <1>1 DEF ToSet
    <2> QED
      BY <2>1, <2>2, ViewOfModel
  <1> QED
    BY <1>1, <1>2, FS_Interval

\* Once a plan is finalized, the view of every model of it stands.
LEMMA ViewsStand ==
    ASSUME PlansAreCarriedOut, NEW w \in Worlds,
           NEW name \in DOMAIN WorldOf[w].store.environments,
           NEW env, env = WorldOf[w].store.environments[name], ~InFlight(env)
    PROVE  /\ env.snapshots \in Seq(ToSet(env.snapshots))
           /\ \A entry \in ToSet(env.snapshots) :
                 ViewOf(env, entry.name, Promoted(env, entry))
                   \in DOMAIN WorldOf[w].views
  <1>1. \A entry : Promoted(env, entry) \in BOOLEAN
    BY DEF Promoted
  <1> QED
    BY <1>1 DEF PlansAreCarriedOut

\* Every view a sync is about to record stands.
LEMMA SyncableViews ==
    ASSUME PlansAreCarriedOut, world \in Worlds,
           NEW cell, NEW p, DiscoveryRefusal(cell, p) = Accepted,
           NEW model \in ToSet(SyncableCatalog(cell, p).models)
    PROVE  model.view \in DOMAIN Outside.views
  <1> DEFINE discover == cell.discover
             store == Outside.store
             env == store.environments[discover.environment]
             models == StateModels(store, env)
             c == Profiles[p].connections[discover.warehouse]
  <1>1. /\ env.snapshots \in Seq(ToSet(env.snapshots))
        /\ \A entry \in ToSet(env.snapshots) :
              ViewOf(env, entry.name, Promoted(env, entry))
                \in DOMAIN Outside.views
    BY DiscoverySettled, ViewsStand DEF Outside
  <1>2. model \in ToSet(DeployedCatalog(discover, store, c, Outside.views).models)
    BY DEF SyncableCatalog
  <1>3. /\ models = StateModels(store, env)
        /\ env = store.environments[discover.environment]
    OBVIOUS
  <1> HIDE DEF models, env, c, store, discover
  <1>4. /\ DOMAIN models \in SUBSET Nat
        /\ IsFiniteSet(DOMAIN models)
        /\ \A n \in DOMAIN models :
              \E entry \in ToSet(env.snapshots) :
                 models[n].view = ViewOf(env, entry.name, Promoted(env, entry))
    <2>1. env.snapshots \in Seq(ToSet(env.snapshots))
      BY <1>1
    <2>2. models = StateModels(store, env)
      BY <1>3
    <2> QED
      BY <2>1, <2>2, ViewsOfModels
  <1>5. PICK n \in DOMAIN models : model.view = models[n].view
    BY <1>2, <1>3, <1>4, KeptModels
  <1> QED
    BY <1>1, <1>4, <1>5

\* A record of a discovery is replaced as a whole.
LEMMA ViewsNext ==
    ASSUME PlansAreCarriedOut, IndType, DiscoveredViewsExist, [Next]_vars
    PROVE  DiscoveredViewsExist'
  <1>1. CASE UNCHANGED records.catalog
    BY <1>1 DEF DiscoveredViewsExist
  <1>2. ASSUME NEW p \in DOMAIN Profiles, NEW cell, SyncsCatalog(cell, p)
        PROVE  DiscoveredViewsExist'
    <2>1. /\ records'.catalog.catalog = SyncableCatalog(cell, p)
          /\ records'.catalog.world = world
      BY <1>2, CatalogOf DEF SyncsCatalog
    <2>2. world \in Worlds
      BY DEF IndType, DataType
    <2> QED
      BY <1>2, <2>1, <2>2, SyncableViews
         DEF DiscoveredViewsExist, Outside, SyncsCatalog
  <1> QED
    BY <1>1, <1>2, CatalogStays

\* A sync records no view that was not in the warehouse of the environment it
\* read: it asks again while a plan is in flight, and looks for a model that
\* the plan has not promoted where production has it.
THEOREM RecordedViewsExist ==
    ASSUME PlansAreCarriedOut PROVE Spec => []DiscoveredViewsExist
  <1>1. Init => DiscoveredViewsExist
    <2> SUFFICES ASSUME Init PROVE DiscoveredViewsExist
      OBVIOUS
    <2>1. records.catalog = None
      BY DEF Init
    <2> QED
      BY <2>1 DEF DiscoveredViewsExist, None
  <1>2. IndType /\ DiscoveredViewsExist /\ [Next]_vars => DiscoveredViewsExist'
    BY ViewsNext
  <1> QED
    BY <1>1, <1>2, TypeInit, TypeNext, PTL DEF Spec

-----------------------------------------------------------------------------
(* What no step of Workspace calls.                                        *)

\* The greater of two numbers is one of them, and no less than either.
LEMMA MaxOfTwo ==
    ASSUME NEW m \in Nat, NEW n \in Nat
    PROVE  Max({m, n}) \in {m, n} /\ Max({m, n}) >= m /\ Max({m, n}) >= n
  <1>1. \E x \in {m, n} : \A y \in {m, n} : x >= y
    <2>1. CASE m >= n
      BY <2>1
    <2>2. CASE ~(m >= n)
      BY <2>2
    <2> QED
      BY <2>1, <2>2
  <1> DEFINE greatest == CHOOSE x \in {m, n} : \A y \in {m, n} : x >= y
  <1>2. greatest \in {m, n} /\ \A y \in {m, n} : greatest >= y
    BY <1>1
  <1>3. Max({m, n}) = greatest
    BY DEF Max
  <1> QED
    BY <1>2, <1>3

\* `project_budget`: the memory of a project's server is not given away
\* twice, as long as there is a MiB of it for each cell.
THEOREM BudgetIsGivenOnce ==
    ASSUME NEW memory \in Nat, NEW cells \in Nat, cells <= memory
    PROVE  cells * BudgetEach(memory, cells) <= memory
  <1>1. CASE memory = 0
    BY <1>1 DEF BudgetEach
  <1>2. CASE memory # 0 /\ cells = 0
    <2>1. Max({cells, 1}) = 1
      BY <1>2, MaxOfTwo
    <2>2. memory \div 1 \in Nat
      OBVIOUS
    <2>3. BudgetEach(memory, cells) \in Nat
      BY <1>2, <2>1, <2>2, MaxOfTwo DEF BudgetEach
    <2> QED
      BY <1>2, <2>3
  <1>3. CASE memory # 0 /\ cells # 0
    <2> DEFINE share == memory \div cells
    <2>1. Max({cells, 1}) = cells
      BY <1>3, MaxOfTwo
    <2>2. share \in Nat /\ cells * share <= memory
      BY <1>3
    <2>3. share >= 1
      BY <1>3
    <2> HIDE DEF share
    <2>4. Max({share, 1}) = share
      BY <2>2, <2>3, MaxOfTwo
    <2>5. BudgetEach(memory, cells) = share
      BY <1>3, <2>1, <2>4 DEF BudgetEach, share
    <2> QED
      BY <2>2, <2>5
  <1> QED
    BY <1>1, <1>2, <1>3

\* `attach_sql`: a recipe that is printed can be run. It loads no extension to
\* attach a remote catalog, which a native extension cannot; it makes no
\* secret of keys that are not there; and the execution it names is the one
\* asked for, which is published, or the one that LATEST names.
THEOREM RecipesCanBeRun ==
    ASSUME NEW cell, NEW profile, NEW store, NEW execution,
           NEW download \in BOOLEAN, NEW catalog \in BOOLEAN,
           AttachRefusal(cell, profile, store, execution, download, catalog)
             = Accepted,
           NEW recipe,
           recipe = Recipe(profile, AttachedExecution(store, execution), download)
    PROVE  /\ ~(recipe.load /\ recipe.catalog[1] = "remote")
           /\ <<"gs", "hmac">> \in recipe.secrets => profile.gcs.hmac
           /\ recipe.catalog[1] # "file" =>
                /\ recipe.catalog[2] = AttachedExecution(store, execution)
                /\ \/ recipe.catalog[2] \in store.executions
                   \/ recipe.catalog[2] = store.latest /\ store.latest # 0
  <1> DEFINE direct == DirectAttach(profile)
             native == NativeGcs(profile)
             sql == IF profile.storage = "gs" THEN GcsSecretRefusal(profile.gcs)
                    ELSE Accepted
             r5 == StoreRefusal(profile.storage)
             c1 == cell.discover.on
             c2 == download /\ ~native
             c3 == direct /\ execution # 0
             c4 == direct /\ ~catalog
             c5 == ~direct /\ r5 # Accepted
             c6 == ~direct /\ execution # 0 /\ execution \notin store.executions
             c7 == ~direct /\ execution = 0 /\ store.latest = 0
             c8 == native /\ ~download
             c9 == sql # Accepted
             list == << <<"attach: discovered", c1>>,
                        <<"attach: download of no native profile", c2>>,
                        <<"attach: execution of a catalog", c3>>,
                        <<"attach: no catalog", c4>>,
                        <<r5, c5>>,
                        <<"attach: no such execution", c6>>,
                        <<"attach: nothing published", c7>>,
                        <<"attach: native without download", c8>>,
                        <<sql, c9>> >>
             n == AttachedExecution(store, execution)
  <1>1. FirstReason(list) = Accepted
    BY DEF AttachRefusal
  <1>2. ~c6 /\ ~c7 /\ ~c8 /\ ~c9
    <2>1. (c5 => r5 # Accepted) /\ (c9 => sql # Accepted)
      OBVIOUS
    <2> HIDE DEF c1, c2, c3, c4, c5, c6, c7, c8, c9, r5, sql
    <2>2. IsSeq(list) /\ DOMAIN list = {1, 2, 3, 4, 5, 6, 7, 8, 9}
      BY DEF IsSeq
    <2>3. /\ list[1][1] # Accepted /\ list[2][1] # Accepted
          /\ list[3][1] # Accepted /\ list[4][1] # Accepted
          /\ list[5][1] = r5 /\ list[6][1] # Accepted
          /\ list[7][1] # Accepted /\ list[8][1] # Accepted
          /\ list[9][1] = sql
      BY DEF Accepted
    <2>4. /\ list[5][2] <=> c5
          /\ list[6][2] <=> c6
          /\ list[7][2] <=> c7
          /\ list[8][2] <=> c8
          /\ list[9][2] <=> c9
      OBVIOUS
    <2> HIDE DEF list
    <2>5. \A k \in DOMAIN list : list[k][2] => list[k][1] # Accepted
      BY <2>1, <2>2, <2>3, <2>4
    <2> QED
      BY <1>1, <2>2, <2>4, <2>5, NoReason
  <1>3. /\ recipe.load <=> profile.storage = "gs" /\ profile.gcs.extension # ""
        /\ <<"gs", "hmac">> \in recipe.secrets
             => profile.storage = "gs" /\ GcsSecret(profile.gcs) = "hmac"
    BY DEF Recipe
  <1>4. /\ direct => recipe.catalog = <<"file">>
        /\ ~direct /\ download => recipe.catalog = <<"copy", n>>
        /\ ~direct /\ ~download => recipe.catalog = <<"remote", n>>
    BY DEF Recipe
  <1>5. /\ ~direct => execution = 0 \/ execution \in store.executions
        /\ ~direct => execution # 0 \/ store.latest # 0
        /\ profile.storage = "gs" => GcsSecretRefusal(profile.gcs) = Accepted
        /\ ~direct /\ profile.storage = "gs" /\ profile.gcs.extension # ""
             => download
    BY <1>2 DEF NativeGcs
  <1>6. <<"gs", "hmac">> \in recipe.secrets => profile.gcs.hmac
    BY <1>3, <1>5 DEF GcsSecret, GcsSecretRefusal, Accepted
  <1> HIDE DEF n
  <1>7. CASE direct
    <2>1. recipe.catalog[1] = "file"
      BY <1>4, <1>7
    <2> QED
      BY <1>6, <2>1
  <1>8. CASE ~direct /\ download
    <2>1. recipe.catalog = <<"copy", n>>
      BY <1>4, <1>8
    <2>2. recipe.catalog[1] = "copy" /\ recipe.catalog[2] = n
      BY <2>1
    <2> QED
      BY <1>5, <1>6, <1>8, <2>2 DEF n, AttachedExecution
  <1>9. CASE ~direct /\ ~download
    <2>1. recipe.catalog = <<"remote", n>>
      BY <1>4, <1>9
    <2>2. recipe.catalog[1] = "remote" /\ recipe.catalog[2] = n
      BY <2>1
    <2> QED
      BY <1>3, <1>5, <1>6, <1>9, <2>2 DEF n, AttachedExecution
  <1> QED
    BY <1>7, <1>8, <1>9
=============================================================================
