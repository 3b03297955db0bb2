------------------------------ MODULE MCWorkspace ------------------------------
(***************************************************************************)
(* Small instances of Workspace: a cell that builds and has a semantic     *)
(* model in a directory ("built"), which an edit turns into one that binds *)
(* all it shows ("bound"), one that has its model in git ("git"), and one  *)
(* that discovers its interface ("found"), each with the edits that matter *)
(* to it; and an outside that is "changed", where files, a branch and a    *)
(* supported model have moved, then "new", where the model is back and     *)
(* another has moved, or "out": a plan in flight, a table dropped, a remote *)
(* that does not answer.                                                   *)
(***************************************************************************)
EXTENDS Workspace

NoPage == [at |-> "", size |-> 0, utf8 |-> TRUE]
Page == [at |-> "inside", size |-> 4, utf8 |-> TRUE]
Names == {"id", "ID", "amount", "region", "orders", "feed", "log", "ev", "a", "b", "c",
          "sales", "a,b", "total", "revenue", "s.a", "s.b", "s.c", "__datamk_x"}

MCIdentifiers == Names \ {"a,b", "s.a", "s.b", "s.c"}
MCReserved == {"__datamk_x"}
MCSame == [name \in Names |-> name]
MCLower == [name \in Names |-> IF name = "ID" THEN "id" ELSE name]
MCSuffixed == [pair \in {<<"s", "dev">>} |-> "s__dev"]
Objects == {<<"s", "a">>, <<"s", "b">>, <<"s", "c">>}
MCMangled == [object \in Objects |-> object[2]]
MCDotted == [object \in Objects |->
                CASE object[2] = "a" -> "s.a" [] object[2] = "b" -> "s.b"
                  [] OTHER -> "s.c"]
MCWords == [text \in {"fits"} |-> <<"fits">>]
MCAddressable == {"sales", "orders", "feed", "id", "amount", "total", "revenue"}

(* The semantic model; the second content renames a metric's field away. *)
Item(name, form, refers) ==
    [name |-> name, dialects |->
        <<[dialect |-> "ANSI_SQL", form |-> form, column |-> name,
           refers |-> refers, plan |-> "fine"]>>]
Dataset(name, source, major, key, fields) ==
    [name |-> name, source |-> [name |-> source, major |-> major],
     primaryKey |-> key, fields |-> fields]
SalesModel(fields) ==
    [name |-> "sales",
     datasets |-> <<Dataset("orders", "orders", 0, <<"id", "amount">>, fields),
                    Dataset("feed", "feed", 0, <<"id">>, fields),
                    Dataset("a,b", "feed", 1, <<>>, fields)>>,
     relationships |-> <<[name |-> "of", from |-> "orders", to |-> "feed",
                          fromColumns |-> <<"id">>, toColumns |-> <<"id">>]>>,
     metrics |-> <<Item("total", "expression", {"orders"})>>]
Tree(content, fields) ==
    {[order |-> 1, at |-> "", under |-> "tree", extension |-> "yaml", size |-> 1, utf8 |-> TRUE,
      content |-> content,
      document |-> [parses |-> TRUE, keys |-> {"version", "semantic_model"},
                    version |-> "0.1.1", models |-> <<SalesModel(fields)>>]],
     [order |-> 2, at |-> "hidden", under |-> "tree", extension |-> "yaml", size |-> 1,
      utf8 |-> TRUE, content |-> "hidden", document |-> <<>>]}
Both == <<Item("id", "column", {}), Item("amount", "column", {})>>
OneTree == Tree("one", Both)
TwoTree == Tree("two", <<Item("id", "column", {})>>)
\* A repository has more than the directory that a path names.
Repository ==
    OneTree \cup
    {[order |-> 3, at |-> "", under |-> "other", extension |-> "yaml", size |-> 1,
      utf8 |-> TRUE, content |-> "other",
      document |-> [parses |-> TRUE, keys |-> {"version", "semantic_model"},
                    version |-> "0.1.1",
                    models |-> <<[SalesModel(Both) EXCEPT !.name = "total"]>>]]}

(* The cells. *)
Column(type) == [yaml |-> "mapping", keys |-> {"type"}, type |-> type,
                 unit |-> "", description |-> ""]
Typed(types) == [name \in DOMAIN types |-> Column(types[name])]
Export(name, major, bind, grain, types, visibility, contract) ==
    [name |-> name, major |-> major, version |-> "1.0.0", source |-> "",
     bind |-> bind, grain |-> grain, schema |-> Typed(types),
     visibility |-> visibility, contract |-> contract, description |-> "fits",
     docs |-> NoPage, model |-> ""]
EvTypes == [id |-> "bigint", amount |-> "decimal"]
OrdersTypes == [id |-> "bigint", amount |-> "string"]
Feed(major, grain, visibility) ==
    Export("feed", major, "ev", grain, EvTypes, visibility, "experimental")
TableSource(table, keys, cursor) ==
    [yaml |-> "mapping", keys |-> {"connection", "table"} \cup keys,
     cursor |-> cursor, connection |-> "wh", cell |-> "", version |-> 0,
     lookback |-> [given |-> FALSE, digits |-> 0, suffix |-> ""],
     text |-> "plain", placeholders |-> {},
     path |-> [project |-> "", dataset |-> "raw", table |-> table,
               quoted |-> FALSE]]
RawSource == [yaml |-> "string", keys |-> {}, cursor |-> "", text |-> "plain",
              connection |-> "", placeholders |-> {}]
Ev == TableSource("ev", {}, "")
Log == TableSource("log", {"incremental"}, "id")
OrdersSql == [yaml |-> "mapping", keys |-> {"sql", "materialize", "key"},
              strategy |-> "upsert", columns |-> <<"id", "amount">>, stem |-> "orders",
              reads |-> {"log"}]
Undiscovered == [on |-> FALSE]
Revenue == [name |-> [key |-> "revenue", wellFormed |-> TRUE], aliases |-> <<>>,
            description |-> "fits",
            appliesTo |-> {[name |-> "feed", major |-> 1, column |-> "amount"]},
            docs |-> Page]
\* A discovered cell may say of an export what it has still to find.
Found(major) == [yaml |-> "terms", page |-> NoPage,
                 terms |-> <<[Revenue EXCEPT !.appliesTo =
                                {[name |-> "a", major |-> major, column |-> "id"]}]>>]
NoTerms == [yaml |-> "", page |-> NoPage, terms |-> <<>>]
Terms1 == [yaml |-> "terms", page |-> NoPage, terms |-> <<Revenue>>]
CellWith(sources, transforms, interface, definitions, discover) ==
    [name |-> "sales", description |-> "fits", docs |-> NoPage, sources |-> sources,
     transforms |-> transforms, interface |-> interface,
     definitions |-> definitions, discover |-> discover]

BoundCell(grain) ==
    CellWith([ev |-> Ev], <<>>,
             <<Feed(1, grain, "discoverable"), Feed(2, <<>>, "private")>>,
             Terms1, Undiscovered)
BuiltCell(grain) ==
    CellWith([ev |-> Ev, log |-> Log], <<OrdersSql>>,
             <<Export("orders", 1, "", grain, OrdersTypes, "discoverable", "supported"),
               Feed(1, <<"id">>, "discoverable"), Feed(2, <<"id">>, "private")>>,
             Terms1, Undiscovered)
GitCell ==
    CellWith([log |-> RawSource], <<OrdersSql>>,
             <<Export("orders", 1, "", <<>>, OrdersTypes, "discoverable", "supported")>>,
             NoTerms, Undiscovered)

Override(object, major, version, contract, visibility) ==
    [model |-> object, as |-> "", major |-> major, version |-> version,
     contract |-> contract, visibility |-> visibility, description |-> "fits",
     grain |-> <<>>, docs |-> NoPage]
FoundCell(major, version, hidden) ==
    CellWith(<<>>, <<>>, <<>>, Found(major),
        [on |-> TRUE,
         select |-> [tags |-> {}, schemas |-> {"s"}, models |-> {}, kinds |-> {}],
         exclude |-> [tags |-> {}, schemas |-> {}, models |-> {}],
         state |-> "st", warehouse |-> "dw", environment |-> "dev",
         overrides |-> <<Override(<<"s", "a">>, major, version, "supported", ""),
                         Override(<<"s", "b">>, 1, "1.0.0", "", hidden)>>,
         onMissing |-> "warn", onUnresolvable |-> "fail"])

Dir == [kind |-> "dir", dir |-> "inside"]
Git(form, name, path) ==
    [kind |-> "git", url |-> [form |-> "https", userinfo |-> FALSE],
     ref |-> [form |-> form, name |-> name], path |-> path]
NoModel == [kind |-> "none"]

MCFileOf ==
    [bound1 |-> [cell |-> BoundCell(<<"id">>), semantic |-> NoModel],
     bound2 |-> [cell |-> BoundCell(<<"id", "amount">>), semantic |-> NoModel],
     built1 |-> [cell |-> BuiltCell(<<"amount", "ID">>), semantic |-> Dir],
     built2 |-> [cell |-> BuiltCell(<<"id">>), semantic |-> Dir],
     git1   |-> [cell |-> GitCell, semantic |-> Git("sha", "c1", "tree")],
     git2   |-> [cell |-> GitCell, semantic |-> Git("sha", "c1", "file")],
     git3   |-> [cell |-> GitCell, semantic |-> Git("name", "main", "tree")],
     git4   |-> [cell |-> GitCell, semantic |-> Git("sha", "c1", "")],
     found1 |-> [cell |-> FoundCell(1, "1.0.0", "private"), semantic |-> NoModel],
     found2 |-> [cell |-> FoundCell(2, "2.0.0", "private"), semantic |-> NoModel],
     found3 |-> [cell |-> FoundCell(1, "1.0.0", ""), semantic |-> Dir]]
MCFiles == DOMAIN MCFileOf
MCFirst == {"built1", "git3", "found1"}
MCBuilt == {"built1"}
MCEdits == {<<"built1", "built2">>, <<"built1", "bound1">>, <<"bound1", "bound2">>,
            <<"git3", "git1">>, <<"git1", "git2">>, <<"git1", "git4">>,
            <<"found1", "found2">>, <<"found1", "found3">>}

(* The profiles. *)
Conn(type) ==
    [type |-> type, user |-> "plain", port |-> "", password |-> "",
     sslmode |-> "", passphrase |-> "", key |-> "", authenticator |-> "",
     project |-> "acme", credentials |-> "", path |-> "plain", billing |-> "",
     staging |-> "", mayRunJobs |-> TRUE, database |-> ""]
Profile1(catalog) ==
    [connections |-> [wh |-> Conn("bigquery"), st |-> Conn("duckdb"),
                      dw |-> Conn("duckdb")],
     cells |-> {}, store |-> <<"plain">>, principals |-> "", storage |-> "plain",
     s3 |-> [given |-> FALSE, keys |-> FALSE],
     gcs |-> [extension |-> "", hmac |-> FALSE, keyFile |-> TRUE],
     catalog |-> catalog]
NativeProfile(storage) == [Profile1("") EXCEPT !.storage = storage, !.gcs.extension = "file"]
MCProfiles == [local |-> Profile1("plain"), prod |-> NativeProfile("gs")]

(* The project files: one entry; two profiles of the cell, the one without  *)
(* data; and two entries that would answer at one URL.                     *)
MCMountable == {"sales", "second"}
Entry(under, profile, noData) ==
    [at |-> "here", mount |-> under, profile |-> profile, noData |-> noData]
ProjectOf(entries) ==
    [keys |-> {"datamk", "cells"}, version |-> 1, profile |-> "", entries |-> entries]
MCProjects ==
    {ProjectOf(<<Entry("", "", FALSE)>>),
     ProjectOf(<<Entry("", "", FALSE), Entry("second", "prod", TRUE)>>),
     ProjectOf(<<Entry("", "", FALSE), Entry("sales", "prod", FALSE)>>)}

(* The outside. *)
RowOf(id, amount) == [id |-> id, amount |-> amount]
EvTable == [columns |-> [id |-> "BIGINT", amount |-> "VARCHAR"],
            rows |-> <<RowOf("1", "5"), RowOf("2", "5")>>]
OrdersTable == [columns |-> [id |-> "BIGINT", amount |-> "VARCHAR"],
                rows |-> <<RowOf("1", "5"), RowOf("1", "6"), RowOf("2", "5")>>]
ViewTable == [EvTable EXCEPT !.columns.amount = "DECIMAL(18,2)"]
EvObject == [type |-> "BASE TABLE", described |-> {"amount"},
             columns |-> [id |-> "INT64", amount |-> "BIGNUMERIC"]]

ModelName(table) == [catalog |-> "", schema |-> "s", table |-> table]
Print1(data) == [data |-> data, metadata |-> 0, parentData |-> 0,
                 parentMetadata |-> 0]
Word(word, text) == [kind |-> "word", word |-> word, text |-> text, line |-> 1,
                     comments |-> <<>>]
Query1 == <<Word("SELECT", "SELECT"), Word("", "id"),
            [kind |-> "comment", text |-> "fits", line |-> 1],
            Word("FROM", "FROM"), Word("", "t")>>
SnapshotRow(table, data, grain, parents) ==
    [name |-> ModelName(table), fingerprint |-> Print1(data), version |-> data,
     kind |-> "FULL", tags |-> {}, description |-> "fits",
     columns |-> IF table = "b" THEN EvTypes ELSE <<>>,
     descriptions |-> <<>>, query |-> IF table = "c" THEN Query1 ELSE
        <<Word("SELECT", "SELECT"), Word("", "id")>>,
     grains |-> <<grain>>, parents |-> parents]
Rows(a, c, grain) ==
    {SnapshotRow("a", a, <<"id">>, {}),
     SnapshotRow("b", 1, <<"id">>, {ModelName("a")}),
     SnapshotRow("c", c, grain, {ModelName("a"), ModelName("b")})}
Store(a, c, grain, finalized) ==
    [versions |-> <<100>>, snapshots |-> Rows(a, c, grain), intervals |-> {},
     environments |-> [dev |->
        [plan |-> 1, suffix |-> "", name |-> "dev", catalog |-> "",
         finalized |-> finalized,
         promoted |-> [given |-> TRUE, ids |->
            {<<ModelName("a"), Identifier(Print1(a))>>,
             <<ModelName("c"), Identifier(Print1(c))>>}],
         snapshots |-> <<[name |-> ModelName("a"), fingerprint |-> Print1(a)],
                         [name |-> ModelName("b"), fingerprint |-> Print1(1)],
                         [name |-> ModelName("c"), fingerprint |-> Print1(c)]>>]]]
View(table) == [catalog |-> "", schema |-> IF table = "b" THEN "s" ELSE "s__dev",
                table |-> table]
Views == [view \in {View("a"), View("b"), View("c")} |->
             [columns |-> EvTypes, described |-> <<>>, table |-> ""]]
FileObject == [type |-> "", columns |-> [id |-> "BIGINT", amount |-> "DECIMAL(18,2)"],
               described |-> {}]
ViewObjects == {<<"", view.schema, view.table>> : view \in DOMAIN Views}
ObjectsWith(ev) ==
    [object \in ViewObjects \cup {<<"acme", "raw", t>> : t \in ev} |->
        IF object[1] = "" THEN FileObject ELSE EvObject]
TablesOf ==
    [key \in {<<v.schema, v.table>> : v \in DOMAIN Views}
               \cup {<<"raw", "ev">>, <<"raw", "log">>, <<"raw", "plain">>} |->
        IF key[1] = "raw" THEN EvTable ELSE ViewTable]
Facts == [readable |-> TRUE, remote |-> TRUE, latest |-> 0, snapshots |-> <<>>,
          direct |-> FALSE, failure |-> "", export |-> "done",
          exportReadable |-> TRUE, cleanup |-> TRUE, exported |-> {},
          dryRun |-> "", bytes |-> 0, rows |-> 2, isView |-> FALSE,
          columns |-> EvTable.columns]
Upstream(reachable, main) ==
    [reachable |-> reachable, branches |-> [main |-> main], head |-> main,
     commits |-> {"c1", "c2"},
     trees |-> [at \in {"c1", "c2"} \X {"", "tree", "file"} |->
                   CASE at[2] = "file" -> TwoTree
                     [] at[2] = "tree" -> OneTree
                     [] OTHER -> Repository]]
Outer(store, tree, upstream, ev) ==
    [store |-> store, tree |-> tree, upstream |-> upstream, views |-> Views,
     objects |-> ObjectsWith(ev), tables |-> TablesOf, facts |-> Facts,
     builds |-> [orders |-> OrdersTable]]

MCWorldOf ==
    [first   |-> Outer(Store(1, 1, <<"id">>, 1), OneTree, Upstream(TRUE, "c1"),
                       {"ev", "log"}),
     changed |-> Outer(Store(2, 1, <<"id">>, 1), TwoTree, Upstream(TRUE, "c2"),
                       {"ev", "log"}),
     new     |-> Outer(Store(1, 2, <<"id", "amount">>, 1), TwoTree,
                       Upstream(TRUE, "c2"), {"ev", "log"}),
     out     |-> Outer(Store(1, 1, <<"id">>, 0), {}, Upstream(FALSE, "c1"), {"log"})]
MCWorlds == DOMAIN MCWorldOf
MCMoves == {<<"first", "changed">>, <<"changed", "new">>, <<"first", "out">>}

-----------------------------------------------------------------------------
(* What no step of Workspace calls, over small inputs. *)

\* A budget is not given away twice, as long as there is a MiB for each cell.
ASSUME BudgetAssumption ==
    \A memory \in 1..9, cells \in 1..9 : cells <= memory =>
        cells * BudgetEach(memory, cells) <= memory

Marks == UNION {[given -> 1..3] : given \in SUBSET {"ev", "log"}}

\* A rollback that says nothing of a source rewinds nothing of it: the next
\* run reads no row again that the run before the rollback had read.
ASSUME RewindAssumption ==
    LET cell == BuiltCell(<<>>)
    IN  \A current \in Marks, target \in Marks :
            \A name \in Incrementals(cell) \ DOMAIN RollbackChanges(cell, current, target) :
                name \in DOMAIN current =>
                    name \in DOMAIN target /\ target[name] = current[name]

Stores ==
    {[NativeProfile(storage) EXCEPT !.catalog = catalog, !.gcs.extension = extension,
                                    !.gcs.hmac = hmac] :
        storage \in {"plain", "s3", "gs"}, catalog \in {"", "plain"},
        extension \in {"", "file"}, hmac \in BOOLEAN}

\* A recipe that is printed can be run: no extension is loaded to attach a
\* remote catalog, and no secret is made of keys that are not there.
ASSUME RecipeAssumption ==
    \A profile \in Stores, download \in BOOLEAN :
        LET cell == BuiltCell(<<>>)
            store == [executions |-> {1}, latest |-> 1]
            recipe == Recipe(profile, 1, download)
        IN  AttachRefusal(cell, profile, store, 0, download, TRUE) = Accepted =>
                /\ ~(recipe.load /\ recipe.catalog[1] = "remote")
                /\ <<"gs", "hmac">> \in recipe.secrets => profile.gcs.hmac
                /\ SessionRefusal(cell, profile) = Accepted

\* One page of an export begins where the one before it ended.
ASSUME PagesAssumption ==
    \A limit \in 0..3, offset \in 0..3, rows \in 0..3 :
        \A next \in NextOffset(limit, offset, rows) :
            next > offset /\ next = offset + rows

\* Nobody reads a guarded cell without a token that has one of its roles.
ASSUME DoorAssumption ==
    \A shareable \in BOOLEAN, roles \in SUBSET {"reader", "owner"} :
        LET access == [shareable |-> shareable, roles |-> roles]
            principals == [ann |-> {"reader"}]
        IN  \A token \in {"", "ann", "eve"} :
                Authorize(access, principals, token) = Accepted =>
                    /\ shareable
                    /\ roles # {} => token = "ann" /\ "reader" \in roles

\* A mesh has one source of names.
ASSUME MeshAssumption ==
    \A cells \in BOOLEAN, prefix \in {"", "s3"}, template \in {"", "plain", "named"} :
        MeshRefusal(cells, prefix, template) = Accepted => cells = (prefix = "")
=============================================================================
