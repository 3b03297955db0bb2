------------------------------ MODULE SurfaceProofs ------------------------------
(***************************************************************************)
(* Theorems about what a server shows. They are about Workspace, whose     *)
(* `serve` mounts what the commands before it have left; each of them      *)
(* holds for any directory that `serve` does not refuse, so the invariant  *)
(* is only that the mounts are made of such directories.                   *)
(***************************************************************************)
EXTENDS WorkspaceProofs

\* A mount is made by `serve`, of a directory that it did not refuse.
IsMountOf(m, d, dataMounted) ==
    /\ m = MountIn(d, dataMounted)
    /\ d.file \in Files /\ ServeRefusalIn(d) = Accepted

IsMount(m) == \E d, dataMounted : IsMountOf(m, d, dataMounted)

MountInv ==
    /\ mount = None \/ IsMount(mount)
    /\ before = None \/ IsMount(before)
    /\ before # None => mount # None

\* What a mount holds of what it was made of.
LEMMA MountHolds ==
    ASSUME NEW m, NEW d, NEW dataMounted, m = MountIn(d, dataMounted)
    PROVE  LET cell == LoadedIn(d)
           IN  /\ m.kind = "mount" /\ m # None
               /\ m.cell = cell
               /\ m.interface = Interface(cell, DescribedIn(d), ModelsIn(d))
               /\ m.models = ModelsIn(d)
               /\ m.index = RestrictedTo(Index(m.models, cell.interface),
                                         RouteKeys(cell))
               /\ m.check = Told(FreshIn(d, d.records.sourceCheck),
                                 RouteKeys(cell), dataMounted)
               /\ m.semantic = FreshIn(d, d.records.semanticCheck)
               /\ m.described = DescribedIn(d)
               /\ m.dataMounted = dataMounted
               /\ m.probes = Probes(cell, LakeTables(cell, d.built), dataMounted)
  <1> DEFINE cell == LoadedIn(d)
             index == RestrictedTo(Index(ModelsIn(d), cell.interface),
                                   RouteKeys(cell))
             check == Told(FreshIn(d, d.records.sourceCheck), RouteKeys(cell),
                           dataMounted)
             semantic == FreshIn(d, d.records.semanticCheck)
             probes == Probes(cell, LakeTables(cell, d.built), dataMounted)
             interface == Interface(cell, DescribedIn(d), ModelsIn(d))
  <1>1. m = [cell |-> cell, interface |-> interface, models |-> ModelsIn(d),
             index |-> index, check |-> check, semantic |-> semantic,
             described |-> DescribedIn(d), dataMounted |-> dataMounted,
             execution |-> ExecutionIn(d), probes |-> probes] ++ [kind |-> "mount"]
    BY DEF MountIn, Mount
  <1> HIDE DEF cell, index, check, semantic, probes, interface
  <1>2. /\ m.kind = "mount" /\ m.cell = cell /\ m.interface = interface
        /\ m.models = ModelsIn(d) /\ m.index = index /\ m.check = check
        /\ m.semantic = semantic /\ m.probes = probes
        /\ m.described = DescribedIn(d) /\ m.dataMounted = dataMounted
    BY <1>1 DEF ++
  <1> QED
    BY <1>2 DEF cell, index, check, semantic, probes, interface, None

\* Only `serve` mounts anything.
LEMMA MountStays ==
    ASSUME [Next]_vars
    PROVE  \/ UNCHANGED <<mount, before>>
           \/ \E p \in DOMAIN Profiles, dataMounted \in BOOLEAN :
                 Serve(p, dataMounted)
           \/ \E project \in Projects, cli \in DOMAIN Profiles \cup {""},
                 noData \in BOOLEAN : ServeProject(project, cli, noData)
  BY DEF Next, vars, Edit, Move, SyncSemantic, SyncDiscover, Verify, Run,
         ReleaseNow, AttachCopy, WriteSemanticCheck, WriteSourceCheck,
         WriteDescriptions, Stop

\* A project is not served when one of its cells cannot be.
LEMMA ProjectOpens ==
    ASSUME NEW project, NEW opens, NEW cellAt, IsSeq(project.entries),
           MountsRefusal(project, opens, cellAt) = Accepted,
           NEW entry \in ToSet(project.entries)
    PROVE  opens[entry] = Accepted
  <1> DEFINE derived(e) ==
               IF MountName(e, cellAt[e]) \in Mountable THEN Accepted
               ELSE "project: name is no segment"
             opened(e) == Then(opens[e], derived(e))
             list == [n \in DOMAIN project.entries |-> opened(project.entries[n])]
             names == Verdicts(LAMBDA e : MountName(e, cellAt[e]), project.entries)
             twice == IF IsInjective(names) THEN Accepted
                      ELSE "project: mounted twice"
  <1>1. Then(FirstRefusal(list), twice) = Accepted
    BY DEF MountsRefusal, Verdicts
  <1>2. FirstRefusal(list) = Accepted
    <2> HIDE DEF list, twice
    <2> QED
      BY <1>1 DEF Then
  <1>3. IsSeq(list)
    BY DEF IsSeq
  <1>4. PICK n \in DOMAIN project.entries : project.entries[n] = entry
    BY DEF ToSet
  <1>5. opened(entry) = Accepted
    <2>1. DOMAIN list = DOMAIN project.entries /\ list[n] = opened(entry)
      BY <1>4
    <2> HIDE DEF list, opened
    <2> QED
      BY <1>2, <1>3, <2>1, NoRefusal
  <1> QED
    BY <1>5 DEF Then

LEMMA MountInit == Init => MountInv
  BY DEF Init, MountInv

LEMMA MountNext == IndType /\ MountInv /\ [Next]_vars => MountInv'
  <1> SUFFICES ASSUME IndType, MountInv, [Next]_vars PROVE MountInv'
    OBVIOUS
  <1> USE DEF IsMountOf, IsMount
  <1>1. CASE UNCHANGED <<mount, before>>
    BY <1>1 DEF MountInv
  <1>2. ASSUME before' = mount, IsMount(mount')
        PROVE  MountInv'
    <2>1. mount' # None
      <3>1. PICK d, dataMounted : IsMountOf(mount', d, dataMounted)
        BY <1>2
      <3> QED
        BY <3>1, MountHolds
    <2> QED
      BY <1>2, <2>1 DEF MountInv
  <1>3. ASSUME NEW p \in DOMAIN Profiles, NEW dataMounted \in BOOLEAN,
               Serve(p, dataMounted)
        PROVE  MountInv'
    <2>1. Here(p).file \in Files
      BY DEF Here, IndType, DataType
    <2>2. IsMountOf(mount', Here(p), dataMounted) /\ before' = mount
      BY <1>3, <2>1 DEF Serve
    <2> QED
      BY <1>2, <2>2
  <1>4. ASSUME NEW project \in Projects, NEW cli, NEW noData,
               ServeProject(project, cli, noData)
        PROVE  MountInv'
    <2> DEFINE entries == ToSet(project.entries)
               profile(entry) == ProfileOf(project, entry, cli)
               known == {entry \in entries : profile(entry) \in DOMAIN Profiles}
               opens == [entry \in entries |->
                           IF entry \in known
                           THEN ServeRefusalIn(Here(profile(entry)))
                           ELSE "profile: missing"]
               cellAt == [entry \in known |-> Loaded(profile(entry))]
    <2>1. /\ MountsRefusal(project, opens, cellAt) = Accepted
          /\ \E entry \in entries :
                mount' = MountIn(Here(profile(entry)), ~(noData \/ entry.noData))
          /\ before' = mount
      BY <1>4 DEF ServeProject
    <2>2. IsSeq(project.entries)
      BY ProjectsAssumption DEF IsSeq
    <2>3. PICK entry \in entries :
            mount' = MountIn(Here(profile(entry)), ~(noData \/ entry.noData))
      BY <2>1
    <2>4. opens[entry] = Accepted
      <3> HIDE DEF opens, cellAt
      <3> QED
        BY <2>1, <2>2, ProjectOpens
    <2>5. ServeRefusalIn(Here(profile(entry))) = Accepted
      BY <2>4 DEF Accepted
    <2>6. Here(profile(entry)).file \in Files
      BY DEF Here, IndType, DataType
    <2>7. IsMountOf(mount', Here(profile(entry)), ~(noData \/ entry.noData))
      <3> HIDE DEF profile
      <3> QED
        BY <2>3, <2>5, <2>6
    <2> HIDE DEF profile
    <2> QED
      BY <1>2, <2>1, <2>7
  <1> QED
    BY <1>1, <1>3, <1>4, MountStays

LEMMA MountAlways == Spec => [](IndType /\ MountInv)
  BY TypeInit, TypeNext, MountInit, MountNext, PTL DEF Spec

-----------------------------------------------------------------------------
(* The document. Every export in it is one of the interface, with what was *)
(* measured and probed of its route, and what was verified of its models.  *)

\* What the record of `verify` in a mount says of a route, and what the
\* probes do.
MeasuredOf(m, route) ==
    IF m.check.kind # "none" /\ route \in DOMAIN m.check.exports
    THEN {m.check.exports[route]} ELSE {}

ProbedOf(m, route) ==
    IF route \in DOMAIN m.probes THEN {m.probes[route]} ELSE {}

With(e, measured, probe, semantic) ==
    [e EXCEPT !.check = measured, !.probe = probe, !.semantic = semantic]

AsShown(m, e) == With(e, MeasuredOf(m, e.route), ProbedOf(m, e.route),
                      Overlaid(e.semantic, e.route, m.semantic))

\* The exports of a document are those of the interface, as probed and
\* checked.
LEMMA DocumentShows ==
    ASSUME NEW m
    PROVE  Document(m).exports = {AsShown(m, e) : e \in m.interface.exports}
  BY DEF Document, Assemble, MeasuredOf, ProbedOf, AsShown, With

\* The rest of a document is the interface of the mount.
LEMMA DocumentHolds ==
    ASSUME NEW m
    PROVE  /\ Document(m).docs = m.interface.docs
           /\ Document(m).lookup = m.interface.lookup
           /\ Document(m).definitions = m.interface.definitions
           /\ {"exports", "docs", "lookup", "definitions", "model", "included",
               "matches", "missing"} \subseteq DOMAIN Document(m)
  BY DEF Document, Assemble

\* An export of a document is a record with these fields.
ExportFields ==
    {"name", "route", "contract", "description", "grain", "schema", "query",
     "binding", "dependsOn", "semantic", "check", "columns", "probe"}

IsExportDoc(e) == e = [x \in ExportFields |-> e[x]]

\* An export of the interface has all the fields, and is bound or can be
\* queried.
LEMMA ExportDocHolds ==
    ASSUME NEW cell, NEW export, NEW described, NEW models, NEW index
    PROVE  LET e == ExportDoc(cell, export, described, models, index)
           IN  /\ IsExportDoc(e) /\ e.route = Route(export)
               /\ e.query = {} <=> IsBound(export)
               /\ e.binding = {} <=> ~IsBound(export)
  BY DEF ExportDoc, IsExportDoc, ExportFields

\* The exports of the interface of a mount are those of its cell.
LEMMA InterfaceHolds ==
    ASSUME NEW m, NEW d, NEW dataMounted, m = MountIn(d, dataMounted)
    PROVE  /\ m.interface.exports =
                {ExportDoc(m.cell, export, m.described, m.models, m.index)
                   : export \in Routes(m.cell)}
           /\ m.interface.lookup = Lookup(m.models)
           /\ m.interface.docs = Documented(DocsEntries(m.cell, Routes(m.cell)))
  <1>1. ASSUME NEW cell, NEW described, NEW models
        PROVE  LET index == RestrictedTo(Index(models, cell.interface),
                                         RouteKeys(cell))
                   interface == Interface(cell, described, models)
               IN  /\ interface.exports =
                        {ExportDoc(cell, export, described, models, index)
                           : export \in Routes(cell)}
                   /\ interface.lookup = Lookup(models)
                   /\ interface.docs = Documented(DocsEntries(cell, Routes(cell)))
    BY DEF Interface
  <1>2. /\ m.interface = Interface(m.cell, m.described, m.models)
        /\ m.index = RestrictedTo(Index(m.models, m.cell.interface),
                                  RouteKeys(m.cell))
    BY MountHolds
  <1> QED
    BY <1>1, <1>2

-----------------------------------------------------------------------------
(* `--no-data`.                                                            *)

\* No probe of a server without data holds a value.
LEMMA ProbesWithhold ==
    ASSUME NEW cell, NEW tables, NEW includeValues, ~includeValues,
           NEW route \in DOMAIN Probes(cell, tables, includeValues)
    PROVE  LET probe == Probes(cell, tables, includeValues)[route]
           IN  probe.values = <<>> /\ probe.example = {}
  <1>1. PICK export, table : Probes(cell, tables, includeValues)[route]
                               = ProbeOf(export, table, includeValues)
    BY DEF Probes
  <1>2. /\ ProbeOf(export, table, includeValues).values = <<>>
        /\ ProbeOf(export, table, includeValues).example = {}
    BY DEF ProbeOf
  <1> QED
    BY <1>1, <1>2

\* No measurement does.
LEMMA ToldWithholds ==
    ASSUME NEW check, NEW routes, NEW dataMounted, ~dataMounted,
           Told(check, routes, dataMounted).kind # "none",
           NEW route \in DOMAIN Told(check, routes, dataMounted).exports
    PROVE  LET measured == Told(check, routes, dataMounted).exports[route]
           IN  \A name \in DOMAIN measured.columns :
                   measured.columns[name].top = 0
  <1> DEFINE was == check.exports[route]
             columns == [name \in DOMAIN was.columns |->
                            [top |-> 0] ++ was.columns[name]]
             is == Told(check, routes, dataMounted).exports[route]
  <1>1. check.kind # "none"
    BY DEF Told
  <1>2. is = [columns |-> columns] ++ was
    BY <1>1 DEF Told
  <1>3. is["columns"] = columns
    <2> HIDE DEF columns, was, is
    <2> QED
      BY <1>2 DEF ++
  <1>4. \A name \in DOMAIN columns : columns[name]["top"] = 0
    BY DEF ++
  <1> QED
    BY <1>3, <1>4

\* The server was told to show no data: neither a probe nor a record of
\* `verify` tells a value that stands in a row, whatever was recorded before
\* (serve/mod.rs 740-742).
THEOREM NoValueLeavesWithoutData == Spec => []NoDataShowsNoValues
  <1>1. MountInv => NoDataShowsNoValues
    <2> SUFFICES ASSUME MountInv, mount.kind # "none", ~mount.dataMounted,
                        NEW export \in Document(mount).exports
                 PROVE  /\ \A probe \in export.probe :
                              probe.values = <<>> /\ probe.example = {}
                        /\ \A measured \in export.check :
                              \A name \in DOMAIN measured.columns :
                                  measured.columns[name].top = 0
      BY DEF NoDataShowsNoValues
    <2>1. PICK d, dataMounted : mount = MountIn(d, dataMounted)
      BY DEF MountInv, IsMount, IsMountOf, None
    <2>2. /\ mount.check = Told(FreshIn(d, d.records.sourceCheck),
                                RouteKeys(LoadedIn(d)), dataMounted)
          /\ mount.probes = Probes(LoadedIn(d),
                                LakeTables(LoadedIn(d), d.built), dataMounted)
          /\ ~dataMounted
      BY <2>1, MountHolds
    <2>3. PICK e \in mount.interface.exports : export = AsShown(mount, e)
      BY DocumentShows
    <2>4. IsExportDoc(e)
      BY <2>1, <2>3, InterfaceHolds, ExportDocHolds
    <2>5. /\ export.check = MeasuredOf(mount, e.route)
          /\ export.probe = ProbedOf(mount, e.route)
      BY <2>3, <2>4 DEF IsExportDoc, ExportFields, AsShown, With
    <2>6. \A probe \in export.probe : probe.values = <<>> /\ probe.example = {}
      BY <2>2, <2>5, ProbesWithhold DEF ProbedOf
    <2>7. \A measured \in export.check :
              \A name \in DOMAIN measured.columns :
                  measured.columns[name].top = 0
      BY <2>2, <2>5, ToldWithholds DEF MeasuredOf
    <2> QED
      BY <2>6, <2>7
  <1> QED
    BY <1>1, MountAlways, PTL

-----------------------------------------------------------------------------
(* ETags.                                                                  *)

WithCheck == [Everything EXCEPT !.include = {"check"}]

RoutePages(docs) == {entry[2] : entry \in {e \in docs : e[1] = "route"}}

\* What GET /context/:route makes of the document.
LEMMA ContextExportHolds ==
    ASSUME NEW m, NEW route
    PROVE  LET document == ContextExport(m, route, WithCheck)
           IN  /\ document.exports = {e \in Document(m).exports : e.route = route}
               /\ RoutePages(document.docs)
                    = {entry \in RoutePages(m.interface.docs) : entry = route}
               /\ document.lookup = m.interface.lookup
  <1> DEFINE whole == Document(m)
             narrowed == NarrowedTo(whole, route)
             document == Including(narrowed, {"check"})
  <1>1. ContextExport(m, route, WithCheck) = document
    BY DEF ContextExport, WithCheck, Everything
  <1>2. /\ {"exports", "docs", "lookup", "definitions", "model", "included"}
             \subseteq DOMAIN whole
        /\ whole.docs = m.interface.docs /\ whole.lookup = m.interface.lookup
    BY DocumentHolds
  <1> HIDE DEF whole
  <1>3. /\ {"exports", "docs", "lookup", "included"} \subseteq DOMAIN narrowed
        /\ narrowed.exports = {e \in whole.exports : e.route = route}
        /\ narrowed.lookup = whole.lookup
    BY <1>2 DEF NarrowedTo
  <1>4. RoutePages(narrowed.docs)
          = {entry \in RoutePages(whole.docs) : entry = route}
    <2>1. PICK terms : narrowed.docs =
            {entry \in whole.docs : \/ entry[1] = "cell"
                                    \/ entry[1] = "route" /\ entry[2] = route
                                    \/ entry[1] = "definition" /\ entry[2] \in terms}
      BY <1>2 DEF NarrowedTo
    <2> QED
      BY <2>1 DEF RoutePages
  <1> HIDE DEF narrowed
  <1>5. /\ document.exports = narrowed.exports /\ document.docs = narrowed.docs
        /\ document.lookup = narrowed.lookup
    BY <1>3 DEF Including
  <1> HIDE DEF document
  <1> QED
    BY <1>1, <1>2, <1>3, <1>4, <1>5 DEF whole

\* What the digest keeps of an export, and what an ETag stands for.
Digested(e) ==
    [e EXCEPT !.semantic = {}, !.schema =
        [name \in DOMAIN e.schema |->
           [type |-> e.schema[name].type, unit |-> e.schema[name].unit,
            description |-> e.schema[name].description]]]

Standing(e) ==
    [e EXCEPT !.semantic = {}, !.probe = {}, !.schema =
        [name \in DOMAIN e.schema |->
           <<e.schema[name].type, e.schema[name].description>>]]

\* With one digest and one measurement, an export stands for the same.
LEMMA DigestTells ==
    ASSUME NEW e, NEW f, IsExportDoc(e), IsExportDoc(f), Digested(e) = Digested(f),
           NEW measured, NEW probe, NEW other, NEW semantic, NEW another
    PROVE  /\ e.route = f.route
           /\ Standing(With(e, measured, probe, semantic))
                = Standing(With(f, measured, other, another))
  <1> DEFINE typed(x) ==
               [name \in DOMAIN x.schema |->
                  [type |-> x.schema[name].type, unit |-> x.schema[name].unit,
                   description |-> x.schema[name].description]]
             told(x) == [name \in DOMAIN x.schema |->
                           <<x.schema[name].type, x.schema[name].description>>]
             stands(x, y) ==
               IF y = "schema" THEN told(x)
               ELSE IF y \in {"semantic", "probe"} THEN {}
               ELSE IF y = "check" THEN measured ELSE x[y]
             digest(x, y) ==
               IF y = "schema" THEN typed(x)
               ELSE IF y = "semantic" THEN {} ELSE x[y]
  <1>1. \A x : IsExportDoc(x) =>
          Digested(x) = [y \in ExportFields |-> digest(x, y)]
    <2> SUFFICES ASSUME NEW x, IsExportDoc(x)
                 PROVE  Digested(x) = [y \in ExportFields |-> digest(x, y)]
      OBVIOUS
    <2>1. Digested(x) = [x EXCEPT !["semantic"] = {}, !["schema"] = typed(x)]
      BY DEF Digested
    <2>2. DOMAIN x = ExportFields
      BY DEF IsExportDoc
    <2> HIDE DEF typed
    <2> QED
      BY <2>1, <2>2
  <1>2. ASSUME NEW x, IsExportDoc(x), NEW p, NEW s
        PROVE  Standing(With(x, measured, p, s))
                 = [y \in ExportFields |-> stands(x, y)]
    <2> DEFINE shown == [x EXCEPT !["check"] = measured, !["probe"] = p,
                                  !["semantic"] = s]
    <2>1. DOMAIN x = ExportFields
      BY <1>2 DEF IsExportDoc
    <2>2. shown["schema"] = x["schema"] /\ DOMAIN shown = ExportFields
      BY <2>1 DEF ExportFields
    <2>3. Standing(shown) = [shown EXCEPT !["semantic"] = {}, !["probe"] = {},
                                          !["schema"] = told(shown)]
      BY DEF Standing
    <2>4. told(shown) = told(x)
      <3> HIDE DEF shown
      <3> QED
        BY <2>2
    <2>5. ASSUME NEW y \in ExportFields
          PROVE  Standing(shown)[y] = stands(x, y)
      <3>1. shown[y] = IF y = "semantic" THEN s ELSE IF y = "probe" THEN p
                       ELSE IF y = "check" THEN measured ELSE x[y]
        BY <2>1, <2>5
      <3>2. Standing(shown)[y] =
              IF y = "schema" THEN told(x) ELSE IF y = "probe" THEN {}
              ELSE IF y = "semantic" THEN {} ELSE shown[y]
        <4> HIDE DEF shown, told
        <4> QED
          BY <2>2, <2>3, <2>4
      <3> HIDE DEF shown, told
      <3> QED
        BY <3>1, <3>2
    <2>6. Standing(shown) = [y \in ExportFields |-> Standing(shown)[y]]
      <3> HIDE DEF shown, told
      <3> QED
        BY <2>2, <2>3
    <2> HIDE DEF stands
    <2>7. Standing(shown) = [y \in ExportFields |-> stands(x, y)]
      <3> HIDE DEF shown
      <3> QED
        BY <2>5, <2>6
    <2> QED
      BY <2>7 DEF With
  <1>3. \A y \in ExportFields : digest(e, y) = digest(f, y)
    <2> HIDE DEF digest
    <2> QED
      BY <1>1
  <1>4. typed(e) = typed(f)
    <2>1. digest(e, "schema") = digest(f, "schema")
      <3> HIDE DEF digest
      <3> QED
        BY <1>3 DEF ExportFields
    <2> HIDE DEF typed
    <2> QED
      BY <2>1
  <1>5. told(e) = told(f)
    <2>1. DOMAIN e.schema = DOMAIN f.schema
      BY <1>4
    <2>2. ASSUME NEW name \in DOMAIN e.schema
          PROVE  /\ e.schema[name].type = f.schema[name].type
                 /\ e.schema[name].description = f.schema[name].description
      <3>1. typed(e)[name] = typed(f)[name]
        BY <1>4
      <3>2. [type |-> e.schema[name].type, unit |-> e.schema[name].unit,
             description |-> e.schema[name].description]
              = [type |-> f.schema[name].type, unit |-> f.schema[name].unit,
                 description |-> f.schema[name].description]
        BY <2>1, <3>1
      <3> QED
        BY <3>2
    <2> QED
      BY <2>1, <2>2
  <1>6. \A y \in ExportFields \ {"schema", "semantic"} : e[y] = f[y]
    <2> HIDE DEF typed
    <2> QED
      BY <1>3
  <1>7. \A y \in ExportFields : stands(e, y) = stands(f, y)
    <2> HIDE DEF told
    <2> QED
      BY <1>5, <1>6
  <1>8. e.route = f.route
    BY <1>6 DEF ExportFields
  <1> HIDE DEF stands
  <1>9. [y \in ExportFields |-> stands(e, y)] = [y \in ExportFields |-> stands(f, y)]
    BY <1>7
  <1>10. Standing(With(e, measured, probe, semantic))
           = [y \in ExportFields |-> stands(e, y)]
    BY <1>2
  <1>11. Standing(With(f, measured, other, another))
           = [y \in ExportFields |-> stands(f, y)]
    BY <1>2
  <1> QED
    BY <1>8, <1>9, <1>10, <1>11

\* Of two mounts with one digest, one record and one described warehouse, the
\* first shows nothing of a route that the second does not.
LEMMA DigestsAgree ==
    ASSUME NEW m, NEW n, NEW d, NEW e, NEW dataMounted, NEW otherMounted,
           m = MountIn(d, dataMounted), n = MountIn(e, otherMounted),
           InterfaceDigest(m.interface, m.dataMounted, m.cell)
             = InterfaceDigest(n.interface, n.dataMounted, n.cell),
           m.check = n.check,
           NEW route
    PROVE  /\ {Standing(x) : x \in {y \in Document(m).exports : y.route = route}}
                \subseteq
              {Standing(x) : x \in {y \in Document(n).exports : y.route = route}}
           /\ {page \in RoutePages(m.interface.docs) : page = route}
                \subseteq {page \in RoutePages(n.interface.docs) : page = route}
           /\ m.interface.lookup = n.interface.lookup
  <1> DEFINE digest(x) == InterfaceDigest(x.interface, x.dataMounted, x.cell)
  <1>1. \A x : /\ digest(x).exports = {Digested(y) : y \in x.interface.exports}
               /\ digest(x).docs = {<<page[1], page[2]>> : page \in x.interface.docs}
               /\ digest(x).lookup = x.interface.lookup
    BY DEF InterfaceDigest, Digested
  <1>2. digest(m) = digest(n)
    OBVIOUS
  <1> HIDE DEF digest
  <1>3. /\ {Digested(y) : y \in m.interface.exports}
             = {Digested(y) : y \in n.interface.exports}
        /\ {<<page[1], page[2]>> : page \in m.interface.docs}
             = {<<page[1], page[2]>> : page \in n.interface.docs}
        /\ m.interface.lookup = n.interface.lookup
    BY <1>1, <1>2
  <1>4. \A r : MeasuredOf(m, r) = MeasuredOf(n, r)
    BY DEF MeasuredOf
  <1>5. /\ \A y \in m.interface.exports : IsExportDoc(y)
        /\ \A y \in n.interface.exports : IsExportDoc(y)
    BY InterfaceHolds, ExportDocHolds
  <1>6. ASSUME NEW x \in Document(m).exports, x.route = route
        PROVE  \E z \in Document(n).exports :
                  z.route = route /\ Standing(x) = Standing(z)
    <2>1. PICK y \in m.interface.exports : x = AsShown(m, y)
      BY <1>6, DocumentShows
    <2>2. PICK z \in n.interface.exports : Digested(y) = Digested(z)
      BY <1>3
    <2>3. y.route = z.route /\ IsExportDoc(y) /\ IsExportDoc(z)
      BY <1>5, <2>2, DigestTells
    <2>4. Standing(x) = Standing(AsShown(n, z))
      <3>1. \A measured, probe, other, semantic, another :
              Standing(With(y, measured, probe, semantic))
                = Standing(With(z, measured, other, another))
        BY <2>2, <2>3, DigestTells
      <3>2. MeasuredOf(m, y.route) = MeasuredOf(n, z.route)
        BY <1>4, <2>3
      <3> QED
        BY <2>1, <3>1, <3>2 DEF AsShown
    <2>5. x.route = y.route /\ AsShown(n, z).route = z.route
      BY <2>1, <2>3 DEF IsExportDoc, ExportFields, AsShown, With
    <2>6. AsShown(n, z) \in Document(n).exports
      BY DocumentShows
    <2> QED
      BY <1>6, <2>3, <2>4, <2>5, <2>6
  <1>7. {page \in RoutePages(m.interface.docs) : page = route}
          \subseteq {page \in RoutePages(n.interface.docs) : page = route}
    <2> SUFFICES ASSUME NEW page \in m.interface.docs, page[1] = "route",
                        page[2] = route
                 PROVE  route \in RoutePages(n.interface.docs)
      BY DEF RoutePages
    <2>1. PICK other \in n.interface.docs :
            <<page[1], page[2]>> = <<other[1], other[2]>>
      BY <1>3
    <2> QED
      BY <2>1 DEF RoutePages
  <1> QED
    BY <1>3, <1>6, <1>7

\* Two starts of the server never answer with one ETag for two interfaces of
\* an export, or for two sets of what `verify` measured and was told of its
\* sources, whatever was edited, synced, verified or rebuilt between them
\* (`context_etag`, ADR 0017). The prose of the semantic models, and what
\* `verify` found of them, are not among what an ETag stands for: ADR 0018 s7
\* leaves them out of the digest, and the code puts them in no other part.
THEOREM ETagsTellTheContent == Spec => []ETagTellsTheContent
  <1>1. MountInv => ETagTellsTheContent
    <2> SUFFICES ASSUME MountInv, before.kind # "none", NEW route,
                        ETag(before, route, WithCheck) = ETag(mount, route, WithCheck)
                 PROVE  Stands(ContextExport(before, route, WithCheck))
                          = Stands(ContextExport(mount, route, WithCheck))
      BY DEF ETagTellsTheContent, WithCheck
    <2>1. PICK d, e, dataMounted, otherMounted :
            before = MountIn(d, dataMounted) /\ mount = MountIn(e, otherMounted)
      BY DEF MountInv, IsMount, IsMountOf, None
    <2>2. /\ InterfaceDigest(before.interface, before.dataMounted, before.cell)
               = InterfaceDigest(mount.interface, mount.dataMounted, mount.cell)
          /\ before.check = mount.check
      BY DEF ETag
    <2>3. \A m : Stands(ContextExport(m, route, WithCheck)) =
            <<{Standing(x) : x \in {y \in Document(m).exports : y.route = route}},
              {page \in RoutePages(m.interface.docs) : page = route},
              m.interface.lookup>>
      <3> SUFFICES ASSUME NEW m
                   PROVE  Stands(ContextExport(m, route, WithCheck)) =
            <<{Standing(x) : x \in {y \in Document(m).exports : y.route = route}},
              {page \in RoutePages(m.interface.docs) : page = route},
              m.interface.lookup>>
        OBVIOUS
      <3>1. \A document : Stands(document) =
              <<{Standing(x) : x \in document.exports},
                RoutePages(document.docs), document.lookup>>
        BY DEF Stands, Standing, RoutePages
      <3> DEFINE document == ContextExport(m, route, WithCheck)
      <3>2. /\ document.exports = {y \in Document(m).exports : y.route = route}
            /\ RoutePages(document.docs)
                 = {page \in RoutePages(m.interface.docs) : page = route}
            /\ document.lookup = m.interface.lookup
        BY ContextExportHolds
      <3> HIDE DEF document
      <3>3. Stands(document) =
            <<{Standing(x) : x \in {y \in Document(m).exports : y.route = route}},
              {page \in RoutePages(m.interface.docs) : page = route},
              m.interface.lookup>>
        BY <3>1, <3>2
      <3> QED
        BY <3>3 DEF document
    <2> DEFINE exports(m) ==
          {Standing(x) : x \in {y \in Document(m).exports : y.route = route}}
               pages(m) == {page \in RoutePages(m.interface.docs) : page = route}
    <2>4. /\ exports(before) \subseteq exports(mount)
          /\ pages(before) \subseteq pages(mount)
          /\ before.interface.lookup = mount.interface.lookup
      BY <2>1, <2>2, DigestsAgree
    <2>5. exports(mount) \subseteq exports(before) /\ pages(mount) \subseteq pages(before)
      BY <2>1, <2>2, DigestsAgree
    <2>6. Stands(ContextExport(before, route, WithCheck))
            = <<exports(before), pages(before), before.interface.lookup>>
      BY <2>3
    <2>7. Stands(ContextExport(mount, route, WithCheck))
            = <<exports(mount), pages(mount), mount.interface.lookup>>
      BY <2>3
    <2> HIDE DEF exports, pages
    <2>8. exports(before) = exports(mount) /\ pages(before) = pages(mount)
      BY <2>4, <2>5
    <2> QED
      BY <2>4, <2>6, <2>7, <2>8
  <1> QED
    BY <1>1, MountAlways, PTL

-----------------------------------------------------------------------------
(* Which routes are read. A route must name one export: a discovered       *)
(* interface is checked for it, what an author writes is not, so it is a   *)
(* hypothesis of the theorems below.                                       *)

OnceIn(interface) ==
    \A m, n \in DOMAIN interface :
        Route(interface[m]) = Route(interface[n]) => m = n

RoutesWrittenOnce == \A f \in Files : OnceIn(FileOf[f].cell.interface)

\* A grain that is inherited moves no route.
LEMMA GrainKeepsRoutes ==
    ASSUME NEW cell, "interface" \in DOMAIN cell,
           \A n \in DOMAIN cell.interface :
              {"name", "major", "grain"} \subseteq DOMAIN cell.interface[n],
           OnceIn(cell.interface)
    PROVE  OnceIn(WithGrain(cell).interface)
  <1> DEFINE grain(export) == IF export.grain = <<>> THEN InheritedKey(export, cell)
                              ELSE export.grain
             interface == [n \in DOMAIN cell.interface |->
                [cell.interface[n] EXCEPT !["grain"] = grain(cell.interface[n])]]
  <1>1. WithGrain(cell).interface = interface
    BY DEF WithGrain, Verdicts
  <1> HIDE DEF grain
  <1>2. /\ DOMAIN interface = DOMAIN cell.interface
        /\ \A n \in DOMAIN cell.interface :
              Route(interface[n]) = Route(cell.interface[n])
    BY DEF Route
  <1> HIDE DEF interface
  <1> QED
    BY <1>1, <1>2 DEF OnceIn

\* What `serve` has mounted was loaded without a refusal, and a discovered
\* interface was checked for its names.
LEMMA MountedOnce ==
    ASSUME RoutesWrittenOnce, NEW d, d.file \in Files, ServeRefusalIn(d) = Accepted
    PROVE  OnceIn(LoadedIn(d).interface)
  <1> DEFINE cell == FileOf[d.file].cell
             record == d.records.catalog
             loaded == LoadedInterface(cell, record, d.file, d.profile, d.name)
             list == << LoadRefusal(cell), LoadedRefusal(cell, record, d.file, d.name),
                        ResolveRefusal(cell, d.profile), StaticRefusal(loaded) >>
  <1>1. FirstRefusal(list) = Accepted
    <2>1. ConfigRefusalIn(d) = Accepted
      BY DEF ServeRefusalIn, OpenRefusalIn, Then
    <2>2. ConfigRefusalIn(d) = FirstRefusal(list)
      BY DEF ConfigRefusalIn
    <2> QED
      BY <2>1, <2>2
  <1>2. LoadedRefusal(cell, record, d.file, d.name) = Accepted
    <2>1. IsSeq(list) /\ DOMAIN list = 1..4
      BY DEF IsSeq
    <2>2. list[2] = LoadedRefusal(cell, record, d.file, d.name)
      OBVIOUS
    <2> HIDE DEF list
    <2> QED
      BY <1>1, <2>1, <2>2, NoRefusal
  <1>3. /\ {"interface", "sources"} \subseteq DOMAIN cell
        /\ \A n \in DOMAIN cell.interface :
              {"name", "major", "grain"} \subseteq DOMAIN cell.interface[n]
        /\ OnceIn(cell.interface)
    BY InterfacesAssumption DEF RoutesWrittenOnce
  <1> HIDE DEF cell
  <1>4. /\ "interface" \in DOMAIN loaded
        /\ \A n \in DOMAIN loaded.interface :
              {"name", "major", "grain"} \subseteq DOMAIN loaded.interface[n]
        /\ OnceIn(loaded.interface)
    <2>1. CASE ~(cell.discover.on /\ Fresh(record, d.file, d.name))
      BY <1>3, <2>1 DEF LoadedInterface
    <2>2. CASE cell.discover.on /\ Fresh(record, d.file, d.name)
      <3> DEFINE models == record.catalog.models
                 interface == [n \in DOMAIN models |->
                    DiscoveredExport(cell.discover, models[n], models)]
      <3>1. NamesRefusal(cell.discover, models) = Accepted
        BY <1>2, <2>2 DEF LoadedRefusal
      <3>2. PICK keep : loaded = Materialized(cell, record.catalog, keep)
        BY <2>2 DEF LoadedInterface
      <3>3. "interface" \in DOMAIN loaded /\ loaded.interface = interface
        <4> HIDE DEF loaded
        <4> QED
          BY <1>3, <3>2 DEF Materialized, Verdicts
      <3>4. \A n \in DOMAIN models :
              /\ {"name", "major", "grain"} \subseteq DOMAIN interface[n]
              /\ interface[n].name = ExportName(cell.discover, models[n].object)
        BY DEF DiscoveredExport
      <3>5. OnceIn(interface)
        <4>1. DOMAIN interface = DOMAIN models
          OBVIOUS
        <4> HIDE DEF interface, models
        <4> QED
          BY <3>1, <3>4, <4>1, NamesDiffer DEF OnceIn, Route
      <3>6. DOMAIN interface = DOMAIN models
        OBVIOUS
      <3> HIDE DEF interface, loaded, models
      <3> QED
        BY <3>3, <3>4, <3>5, <3>6
    <2> QED
      BY <2>1, <2>2
  <1>5. LoadedIn(d) = WithGrain(loaded)
    BY DEF LoadedIn, cell
  <1> HIDE DEF loaded
  <1> QED
    BY <1>4, <1>5, GrainKeepsRoutes

\* The export of a route that names one.
LEMMA ExportOfRoute ==
    ASSUME NEW interface, OnceIn(interface), NEW export \in ToSet(interface)
    PROVE  ExportOf(interface, Route(export)) = export
  <1> DEFINE at == {n \in DOMAIN interface : Route(interface[n]) = Route(export)}
  <1>1. PICK k \in DOMAIN interface : interface[k] = export
    BY DEF ToSet
  <1>2. at = {k}
    BY <1>1 DEF OnceIn
  <1>3. (CHOOSE n \in at : \A m \in at \ {n} : n < m) = k
    BY <1>2
  <1> QED
    BY <1>1, <1>2, <1>3 DEF ExportOf

\* A read without parameters is answered of an export with rows of its own,
\* where data is served.
LEMMA ReadAnswers ==
    ASSUME NEW m, OnceIn(m.cell.interface), NEW export \in Routes(m.cell)
    PROVE  ReadRefusalAt(m, Route(export), <<>>) = Accepted
             <=> m.dataMounted /\ ~IsBound(export)
  <1> DEFINE route == Route(export)
             found == ExportOf(m.cell.interface, route)
             known == route \in RouteKeys(m.cell)
             params == ParamsRefusal(found, <<>>)
             list == << <<"404: no data", ~m.dataMounted>>,
                        <<"404: no such export", ~known>>,
                        <<"404: bound", known /\ IsBound(found)>>,
                        <<params, known /\ params # Accepted>> >>
  <1>1. ReadRefusalAt(m, route, <<>>) = FirstReason(list)
    BY DEF ReadRefusalAt
  <1>2. known /\ found = export
    BY ExportOfRoute DEF RouteKeys, Routes, Discoverable
  <1>3. params = Accepted
    <2> DEFINE checks == <<
                 <<"400: not a grain column",
                   ~(DOMAIN <<>> \subseteq ToSet(found.grain) \cup {"limit", "offset"})>>,
                 <<"400: limit", "limit" \in DOMAIN <<>> /\ (<<>>).limit < 0>>,
                 <<"400: offset", "offset" \in DOMAIN <<>> /\ (<<>>).offset < 0>>,
                 <<"400: offset too deep",
                   "offset" \in DOMAIN <<>> /\ (<<>>).offset > MaxOffset>> >>
    <2>1. params = FirstReason(checks)
      BY DEF ParamsRefusal
    <2>2. IsSeq(checks) /\ DOMAIN checks = {1, 2, 3, 4}
      BY DEF IsSeq
    <2>3. ~checks[1][2] /\ ~checks[2][2] /\ ~checks[3][2] /\ ~checks[4][2]
      <3>1. DOMAIN <<>> = {}
        OBVIOUS
      <3>2. /\ checks[1][2] <=>
                 ~(DOMAIN <<>> \subseteq ToSet(found.grain) \cup {"limit", "offset"})
            /\ checks[2][2] <=> "limit" \in DOMAIN <<>> /\ (<<>>).limit < 0
            /\ checks[3][2] <=> "offset" \in DOMAIN <<>> /\ (<<>>).offset < 0
            /\ checks[4][2] <=>
                 "offset" \in DOMAIN <<>> /\ (<<>>).offset > MaxOffset
        <4> HIDE DEF found
        <4> QED
          BY Zenon
      <3> HIDE DEF checks, found
      <3> QED
        BY <3>1, <3>2
    <2> HIDE DEF checks, params
    <2>4. \A n \in DOMAIN checks : ~checks[n][2]
      BY <2>2, <2>3
    <2> QED
      BY <2>1, <2>2, <2>4, NoReason
  <1>4. IsSeq(list) /\ DOMAIN list = {1, 2, 3, 4}
    BY DEF IsSeq
  <1>5. /\ list[1][2] <=> ~m.dataMounted
        /\ list[2][2] <=> ~known
        /\ list[3][2] <=> known /\ IsBound(found)
        /\ list[4][2] <=> known /\ params # Accepted
        /\ list[1][1] = "404: no data" /\ list[2][1] = "404: no such export"
        /\ list[3][1] = "404: bound" /\ list[4][1] = params
    <2> HIDE DEF known, params, found, route
    <2> QED
      OBVIOUS
  <1> HIDE DEF list, known, params, found, route
  <1>6. \A n \in DOMAIN list : list[n][2] => list[n][1] # Accepted
    BY <1>4, <1>5 DEF Accepted
  <1>7. FirstReason(list) = Accepted <=> \A n \in DOMAIN list : ~list[n][2]
    BY <1>4, <1>6, NoReason
  <1>8. (\A n \in DOMAIN list : ~list[n][2])
          <=> m.dataMounted /\ ~IsBound(export)
    BY <1>2, <1>3, <1>4, <1>5
  <1> QED
    BY <1>1, <1>7, <1>8 DEF route

\* The exports of a document are those of the cell, route for route.
LEMMA DocumentLists ==
    ASSUME NEW m, NEW d, NEW dataMounted, m = MountIn(d, dataMounted)
    PROVE  /\ \A e \in Document(m).exports : \E export \in Routes(m.cell) :
                /\ e.route = Route(export)
                /\ e.query = {} <=> IsBound(export)
                /\ e.binding = {} <=> ~IsBound(export)
           /\ \A export \in Routes(m.cell) : \E e \in Document(m).exports :
                /\ e.route = Route(export)
                /\ e.query = {} <=> IsBound(export)
  <1> DEFINE doc(export) == ExportDoc(m.cell, export, m.described, m.models, m.index)
  <1>1. m.interface.exports = {doc(export) : export \in Routes(m.cell)}
    BY InterfaceHolds
  <1>2. \A export : /\ IsExportDoc(doc(export))
                    /\ doc(export).route = Route(export)
                    /\ doc(export).query = {} <=> IsBound(export)
                    /\ doc(export).binding = {} <=> ~IsBound(export)
    BY ExportDocHolds
  <1> HIDE DEF doc
  <1>3. \A e : IsExportDoc(e) => /\ AsShown(m, e).route = e.route
                                /\ AsShown(m, e).query = e.query
                                /\ AsShown(m, e).binding = e.binding
    BY DEF AsShown, With, IsExportDoc, ExportFields
  <1>4. Document(m).exports = {AsShown(m, doc(export)) : export \in Routes(m.cell)}
    BY <1>1, DocumentShows
  <1>5. \A export : /\ AsShown(m, doc(export)).route = Route(export)
                    /\ AsShown(m, doc(export)).query = {} <=> IsBound(export)
                    /\ AsShown(m, doc(export)).binding = {} <=> ~IsBound(export)
    BY <1>2, <1>3
  <1> QED
    BY <1>4, <1>5

\* Five checks of which none fails.
LEMMA FivePass ==
    ASSUME NEW r1, NEW r2, NEW r3, NEW r4, NEW r5,
           NEW c1, NEW c2, NEW c3, NEW c4, NEW c5,
           ~c1, ~c2, ~c3, ~c4, ~c5
    PROVE  FirstReason(<< <<r1, c1>>, <<r2, c2>>, <<r3, c3>>, <<r4, c4>>,
                          <<r5, c5>> >>) = Accepted
  <1> DEFINE list == << <<r1, c1>>, <<r2, c2>>, <<r3, c3>>, <<r4, c4>>, <<r5, c5>> >>
  <1>1. IsSeq(list) /\ DOMAIN list = {1, 2, 3, 4, 5}
    BY DEF IsSeq
  <1>2. ~list[1][2] /\ ~list[2][2] /\ ~list[3][2] /\ ~list[4][2] /\ ~list[5][2]
    OBVIOUS
  <1> HIDE DEF list
  <1>3. \A n \in DOMAIN list : ~list[n][2]
    BY <1>1, <1>2
  <1>4. FirstReason(list) = Accepted
    BY <1>1, <1>3, NoReason
  <1> QED
    BY <1>4 DEF list

\* A query for tokens that can be spelled, and for nothing else, is one.
LEMMA QueryPasses ==
    ASSUME NEW query, query.params = {}, query.include = {}, query.view = "",
           query.terms \subseteq Addressable,
           ~(Cardinality(query.terms) > MaxTerms)
    PROVE  QueryRefusal(query) = Accepted
  <1> DEFINE other == ~(query.params \subseteq {"include", "terms", "model", "view"})
             section == ~(query.include \subseteq {"docs", "check"})
             token == ~(query.terms \subseteq Addressable)
             many == Cardinality(query.terms) > MaxTerms
             view == query.view \notin {"", "full", "index"}
  <1>1. ~other /\ ~section /\ ~token /\ ~many /\ ~view
    OBVIOUS
  <1>2. QueryRefusal(query) = FirstReason(
            << <<"400: unknown parameter", other>>,
               <<"400: unknown section", section>>, <<"400: bad token", token>>,
               <<"400: too many terms", many>>, <<"400: unknown view", view>> >>)
    BY DEF QueryRefusal
  <1> HIDE DEF other, section, token, many, view
  <1> QED
    BY <1>1, <1>2, FivePass

\* A request without parameters is never refused for them.
LEMMA PlainQuery == QueryRefusal(Everything) = Accepted
  <1>1. Cardinality({}) = 0
    BY FS_EmptySet
  <1>2. ~(Cardinality({}) > MaxTerms)
    BY <1>1 DEF MaxTerms
  <1>3. /\ Everything.params = {} /\ Everything.include = {}
        /\ Everything.view = "" /\ Everything.terms = {}
    BY DEF Everything
  <1> QED
    BY <1>2, <1>3, QueryPasses

\* GET /context/:route is answered of every route there is, and of no other.
LEMMA ContextAnswers ==
    ASSUME NEW m, NEW route
    PROVE  ContextExportRefusal(m, route, Everything) = Accepted
             <=> route \in RouteKeys(m.cell)
  <1> DEFINE query == QueryRefusal(Everything)
             known == route \in RouteKeys(m.cell)
             list == << <<query, query # Accepted>>,
                        <<"400: model is of the whole cell", Everything.model # "">>,
                        <<"400: view is of the whole cell", Everything.view = "index">>,
                        <<"404: no such export", ~known>> >>
  <1>1. ContextExportRefusal(m, route, Everything) = FirstReason(list)
    BY DEF ContextExportRefusal
  <1>2. query = Accepted
    BY PlainQuery
  <1>3. IsSeq(list) /\ DOMAIN list = {1, 2, 3, 4}
    BY DEF IsSeq
  <1>4. /\ list[1][2] <=> query # Accepted
        /\ ~list[2][2] /\ ~list[3][2]
        /\ list[4][2] <=> ~known
        /\ list[4][1] = "404: no such export"
    <2> HIDE DEF query, known
    <2> QED
      BY DEF Everything
  <1> HIDE DEF list, query, known
  <1>5. \A n \in DOMAIN list : list[n][2] => list[n][1] # Accepted
    BY <1>2, <1>3, <1>4 DEF Accepted
  <1>6. FirstReason(list) = Accepted <=> \A n \in DOMAIN list : ~list[n][2]
    BY <1>3, <1>5, NoReason
  <1> QED
    BY <1>1, <1>2, <1>3, <1>4, <1>6 DEF known

\* All doors tell of the same routes: /openapi.json, MCP, the reads and the
\* context documents, whatever directory the server was started in.
THEOREM DoorsAgree == RoutesWrittenOnce => (Spec => []SurfacesAgree)
  <1> SUFFICES ASSUME RoutesWrittenOnce PROVE Spec => []SurfacesAgree
    OBVIOUS
  <1>1. MountInv => SurfacesAgree
    <2> SUFFICES ASSUME MountInv, mount.kind # "none" PROVE SurfacesAgree
      BY DEF SurfacesAgree
    <2>1. PICK d, dataMounted : IsMountOf(mount, d, dataMounted)
      BY DEF MountInv, IsMount, None
    <2>2. mount = MountIn(d, dataMounted) /\ OnceIn(mount.cell.interface)
      <3>1. mount.cell = LoadedIn(d)
        BY <2>1, MountHolds DEF IsMountOf
      <3> QED
        BY <2>1, <3>1, MountedOnce DEF IsMountOf
    <2> DEFINE open == OpenApi(mount).data
               routes == RouteKeys(mount.cell)
               reads(route) == ReadRefusalAt(mount, route, <<>>) = Accepted
    <2>3. /\ open = IF mount.dataMounted
                    THEN {Route(e) : e \in MountedRoutes(mount.cell)} ELSE {}
          /\ OpenApi(mount).routes = routes
      BY DEF OpenApi
    <2>4. \A export \in Routes(mount.cell) :
              reads(Route(export)) <=> mount.dataMounted /\ ~IsBound(export)
      BY <2>2, ReadAnswers
    <2>5. \A export \in Routes(mount.cell) :
              Route(export) \in open <=> mount.dataMounted /\ ~IsBound(export)
      <3>1. \A one, other \in Routes(mount.cell) :
                Route(one) = Route(other) => one = other
        BY <2>2, ExportOfRoute DEF Routes, Discoverable
      <3> QED
        BY <2>3, <3>1 DEF MountedRoutes
    <2>6. open \subseteq routes
      BY <2>3 DEF MountedRoutes, RouteKeys
    <2>7. routes = {Route(export) : export \in Routes(mount.cell)}
      BY DEF RouteKeys
    <2>8. open = {route \in routes : reads(route)}
      <3> HIDE DEF open, routes, reads
      <3> QED
        BY <2>4, <2>5, <2>6, <2>7
    <2> DEFINE listed(e) == [route |-> e.route, grain |-> e.grain,
                            queryable |-> e.query # {} /\ mount.dataMounted]
    <2>9. /\ ListExports(mount) = {listed(e) : e \in Document(mount).exports}
          /\ \A e : /\ listed(e).route = e.route
                    /\ listed(e).queryable <=> e.query # {} /\ mount.dataMounted
      BY DEF ListExports
    <2> HIDE DEF listed
    <2>10. open = {e.route : e \in {e \in ListExports(mount) : e.queryable}}
      <3>1. {e.route : e \in {e \in ListExports(mount) : e.queryable}}
              = {e.route : e \in {e \in Document(mount).exports :
                                    e.query # {} /\ mount.dataMounted}}
        BY <2>9
      <3>2. {e.route : e \in {e \in Document(mount).exports :
                                    e.query # {} /\ mount.dataMounted}}
              = IF mount.dataMounted
                THEN {Route(e) : e \in MountedRoutes(mount.cell)} ELSE {}
        BY <2>2, DocumentLists DEF MountedRoutes
      <3> QED
        BY <2>3, <3>1, <3>2
    <2>11. routes = {e.route : e \in ListExports(mount)}
      <3>1. {e.route : e \in ListExports(mount)}
              = {e.route : e \in Document(mount).exports}
        BY <2>9
      <3>2. {e.route : e \in Document(mount).exports} = routes
        BY <2>2, <2>7, DocumentLists
      <3> QED
        BY <3>1, <3>2
    <2>12. \A export \in ToSet(mount.cell.interface) :
              (ContextExportRefusal(mount, Route(export), Everything) = Accepted)
                <=> Route(export) \in routes
      BY ContextAnswers
    <2> QED
      BY <2>3, <2>8, <2>10, <2>11, <2>12 DEF SurfacesAgree
  <1> QED
    BY <1>1, MountAlways, PTL

\* What a token can find in the models, the token can spell.
LEMMA LookupSpells ==
    ASSUME NEW models, NEW entry \in Lookup(models)
    PROVE  entry.token \in Addressable
  <1> DEFINE spelled(kind, model, dataset, field, token) ==
               IF token \in Addressable
               THEN {[kind |-> kind, model |-> model, dataset |-> dataset,
                      field |-> field, token |-> token]} ELSE {}
             datasets(model) == {ds \in ToSet(model.datasets) : ds.name \in Addressable}
             within(model) ==
               spelled("model", model.name, "", "", model.name)
               \cup (UNION {spelled("dataset", model.name, ds.name, "", ds.name)
                              : ds \in datasets(model)})
               \cup (UNION {UNION {spelled("field", model.name, ds.name, f.name, f.name)
                                     : f \in ToSet(ds.fields)} : ds \in datasets(model)})
               \cup (UNION {spelled("metric", model.name, "", "", m.name)
                              : m \in ToSet(model.metrics)})
  <1>1. \A kind, model, dataset, field, token :
          \A x \in spelled(kind, model, dataset, field, token) :
              x.token \in Addressable
    OBVIOUS
  <1>2. PICK model \in ToSet(models) : entry \in within(model)
    BY DEF Lookup
  <1> HIDE DEF spelled, datasets
  <1> DEFINE ofModel   == spelled("model", model.name, "", "", model.name)
             ofDataset == UNION {spelled("dataset", model.name, ds.name, "", ds.name)
                                   : ds \in datasets(model)}
             ofField   == UNION {UNION {spelled("field", model.name, ds.name, f.name, f.name)
                                          : f \in ToSet(ds.fields)}
                                   : ds \in datasets(model)}
             ofMetric  == UNION {spelled("metric", model.name, "", "", m.name)
                                   : m \in ToSet(model.metrics)}
  <1>3. \A x \in ofModel : x.token \in Addressable
    BY <1>1
  <1>4. \A x \in ofDataset : x.token \in Addressable
    <2>1. SUFFICES ASSUME NEW x \in ofDataset
                   PROVE  x.token \in Addressable
      OBVIOUS
    <2>2. PICK ds \in datasets(model) :
              x \in spelled("dataset", model.name, ds.name, "", ds.name)
      BY <2>1
    <2> QED
      BY <1>1, <2>2
  <1>5. \A x \in ofField : x.token \in Addressable
    BY <1>1
  <1>6. \A x \in ofMetric : x.token \in Addressable
    <2>1. SUFFICES ASSUME NEW x \in ofMetric
                   PROVE  x.token \in Addressable
      OBVIOUS
    <2>2. PICK m \in ToSet(model.metrics) :
              x \in spelled("metric", model.name, "", "", m.name)
      BY <2>1
    <2> QED
      BY <1>1, <2>2
  <1>7. entry \in ofModel \cup ofDataset \cup ofField \cup ofMetric
    BY <1>2
  <1> HIDE DEF ofModel, ofDataset, ofField, ofMetric
  <1> QED
    BY <1>3, <1>4, <1>5, <1>6, <1>7

\* A token that is in the lookup of a document is not missing from it.
LEMMA TokenFound ==
    ASSUME NEW document, "missing" \in DOMAIN document,
           NEW entry \in document.lookup, NEW definitions, NEW docs
    PROVE  /\ NarrowedTerms(document, {entry.token}, definitions, docs).missing = {}
           /\ DOMAIN NarrowedTerms(document, {entry.token}, definitions, docs)
                = DOMAIN document
  <1> DEFINE token == entry.token
             semantic == SemanticMatches({token}, document.lookup)
             hit(t) == DefinitionOf(t, definitions)
             missing == {t \in {token} : hit(t) = 0 /\ \A m \in semantic : m[1] # t}
  <1>1. <<token, entry>> \in semantic
    BY DEF SemanticMatches
  <1>2. missing = {}
    <2> HIDE DEF semantic, hit, token
    <2> QED
      BY <1>1
  <1>3. /\ NarrowedTerms(document, {token}, definitions, docs).missing = missing
        /\ DOMAIN NarrowedTerms(document, {token}, definitions, docs)
             = DOMAIN document
    BY DEF NarrowedTerms
  <1> QED
    BY <1>2, <1>3

\* A term that /openapi.json lists is accepted, and found.
LEMMA TermAnswered ==
    ASSUME NEW m, NEW d, NEW dataMounted, m = MountIn(d, dataMounted),
           NEW token \in OpenApi(m).terms, NEW query,
           query = [Everything EXCEPT !.terms = {token}]
    PROVE  /\ ContextRefusal(m, query) = Accepted
           /\ ContextDoc(m, query).missing = {}
  <1>1. PICK entry \in m.interface.lookup : token = entry.token
    BY DEF OpenApi
  <1>2. token \in Addressable
    BY <1>1, InterfaceHolds, LookupSpells
  <1>3. /\ query.params = {} /\ query.include = {} /\ query.view = ""
        /\ query.model = "" /\ query.terms = {token}
    BY DEF Everything
  <1>4. ~(Cardinality({token}) > MaxTerms)
    <2>1. Cardinality({token}) = 1
      BY FS_Singleton
    <2> QED
      BY <2>1 DEF MaxTerms
  <1>5. QueryRefusal(query) = Accepted
    BY <1>2, <1>3, <1>4, QueryPasses
  <1>6. ContextRefusal(m, query) = Accepted
    BY <1>3, <1>5 DEF ContextRefusal
  <1> DEFINE whole == Document(m)
             termed == NarrowedTerms(whole, {token}, whole.definitions, whole.docs)
             modelled == [termed EXCEPT !.model =
                            {ModelDoc(model, m.index, m.semantic)
                               : model \in ModelNamed(m, query.model)}]
  <1>7. entry \in whole.lookup
        /\ {"model", "missing", "exports", "included"} \subseteq DOMAIN whole
    BY DocumentHolds
  <1> HIDE DEF whole
  <1>8. termed.missing = {} /\ DOMAIN termed = DOMAIN whole
    BY <1>1, <1>7, TokenFound
  <1> HIDE DEF termed
  <1>9. modelled.missing = {} /\ DOMAIN modelled = DOMAIN whole
    BY <1>7, <1>8
  <1>10. ContextDoc(m, query) = Including(IndexView(modelled), query.include)
    <2>1. {token} # {}
      OBVIOUS
    <2> QED
      BY <1>3, <2>1 DEF ContextDoc, termed, whole
  <1> HIDE DEF modelled
  <1>11. IndexView(modelled).missing = {} /\ DOMAIN IndexView(modelled) = DOMAIN whole
    BY <1>7, <1>9 DEF IndexView
  <1>12. Including(IndexView(modelled), query.include).missing = {}
    BY <1>7, <1>11 DEF Including
  <1> QED
    BY <1>6, <1>10, <1>12

\* A resource that MCP lists is answered.
LEMMA ResourceAnswered ==
    ASSUME NEW m, NEW d, NEW dataMounted, m = MountIn(d, dataMounted),
           NEW uri \in Resources(m)
    PROVE  ResourceRefusal(m, uri) = Accepted
  <1>1. CASE uri \in {<<"context">>, <<"index">>}
    <2>1. uri[1] \in {"context", "index"}
      BY <1>1
    <2> QED
      BY <2>1 DEF ResourceRefusal
  <1>2. CASE uri \in {<<"route", e.route>> : e \in Document(m).exports}
    <2>1. PICK e \in Document(m).exports : uri = <<"route", e.route>>
      BY <1>2
    <2>2. e.route \in RouteKeys(m.cell)
      BY DocumentLists DEF RouteKeys
    <2>3. uri[1] = "route" /\ uri[2] = e.route
      BY <2>1
    <2> QED
      BY <2>2, <2>3 DEF ResourceRefusal
  <1>3. CASE uri \in {<<"docs", entry[1], entry[2]>> : entry \in m.interface.docs}
    <2>1. PICK entry \in m.interface.docs : uri = <<"docs", entry[1], entry[2]>>
      BY <1>3
    <2>2. uri[1] = "docs" /\ <<entry[1], entry[2]>> = <<uri[2], uri[3]>>
      BY <2>1
    <2> QED
      BY <2>2 DEF ResourceRefusal
  <1>4. CASE uri \in {<<"semantic", model.name>> : model \in ToSet(m.models)}
    <2>1. PICK model \in ToSet(m.models) : uri = <<"semantic", model.name>>
      BY <1>4
    <2>2. uri[1] = "semantic" /\ model \in ModelNamed(m, uri[2])
      BY <2>1 DEF ModelNamed
    <2> QED
      BY <2>2 DEF ResourceRefusal
  <1> QED
    BY <1>1, <1>2, <1>3, <1>4 DEF Resources

\* What a door lists can be asked for: a term of /openapi.json, a resource of
\* MCP, and, where data is served, the rows of an export that a mesh
\* manifest does not call bound.
THEOREM ListedIsAnswered == RoutesWrittenOnce => (Spec => []WhatIsListedIsAnswered)
  <1> SUFFICES ASSUME RoutesWrittenOnce PROVE Spec => []WhatIsListedIsAnswered
    OBVIOUS
  <1>1. MountInv => WhatIsListedIsAnswered
    <2> SUFFICES ASSUME MountInv, mount.kind # "none"
                 PROVE  WhatIsListedIsAnswered
      BY DEF WhatIsListedIsAnswered
    <2>1. PICK d, dataMounted : IsMountOf(mount, d, dataMounted)
      BY DEF MountInv, IsMount, None
    <2>2. mount = MountIn(d, dataMounted) /\ OnceIn(mount.cell.interface)
      <3>1. mount.cell = LoadedIn(d)
        BY <2>1, MountHolds DEF IsMountOf
      <3> QED
        BY <2>1, <3>1, MountedOnce DEF IsMountOf
    <2>3. ASSUME NEW token \in OpenApi(mount).terms
          PROVE  LET query == [Everything EXCEPT !.terms = {token}]
                 IN  /\ ContextRefusal(mount, query) = Accepted
                     /\ ContextDoc(mount, query).missing = {}
      BY <2>2, TermAnswered
    <2>4. \A uri \in Resources(mount) : ResourceRefusal(mount, uri) = Accepted
      BY <2>2, ResourceAnswered
    <2>5. ASSUME mount.dataMounted, NEW etag, NEW export \in Summarized("cell",
                     {[version |-> 4, document |-> Document(mount),
                       etag |-> etag]}).exports, ~export.bound
          PROVE  ReadRefusalAt(mount, export.route, <<>>) = Accepted
      <3>1. PICK e \in Document(mount).exports :
              export = [name |-> e.name, route |-> e.route,
                        contract |-> e.contract, bound |-> e.binding # {}]
        BY <2>5 DEF Summarized
      <3>2. export.route = e.route /\ e.binding = {}
        BY <2>5, <3>1
      <3>3. PICK listed \in Routes(mount.cell) :
              e.route = Route(listed) /\ ~IsBound(listed)
        BY <2>2, <3>2, DocumentLists
      <3> QED
        BY <2>2, <2>5, <3>2, <3>3, ReadAnswers
    <2> QED
      BY <2>3, <2>4, <2>5 DEF WhatIsListedIsAnswered
  <1> QED
    BY <1>1, MountAlways, PTL
=============================================================================
