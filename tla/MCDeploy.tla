------------------------------- MODULE MCDeploy -------------------------------
(***************************************************************************)
(* Small instances of Deploy: the bound cell and the built one of          *)
(* MCWorkspace, the one open to anybody and the other guarded by roles,    *)
(* and a cell that discovers in a file ("found1").                         *)
(***************************************************************************)
EXTENDS Deploy, MCWorkspace

OpenAccess == [shareable |-> TRUE, roles |-> {}]
Guarded == [shareable |-> TRUE, roles |-> {"reader"}]

DFileOf ==
    [bound1 |-> MCFileOf.bound1 @@ [access |-> OpenAccess],
     built4 |-> [cell |-> BuiltCell(<<>>), semantic |-> NoModel, access |-> Guarded],
     built1 |-> [cell |-> BuiltCell(<<>>), semantic |-> Dir, access |-> Guarded],
     found1 |-> MCFileOf.found1 @@ [access |-> OpenAccess]]
DFiles == DOMAIN DFileOf
DFirst == {"bound1", "built4", "found1"}
DEdits == {<<"built4", "built1">>}

DProfiles == [prod |-> [Profile1("") EXCEPT !.storage = "s3", !.principals = "mount"]]

DWorldOf == MCWorldOf
DWorlds == {"first", "new"}
DMoves == {}

(* The overlays: all there is, with another image, and without a Server. *)
Serving(port) == [on |-> TRUE, port |-> port, replicas |-> Absent, poll |-> Absent]
NotServing == [on |-> FALSE]
OverlayWith(image, schedule, serve, builder) ==
    [readable |-> TRUE, target |-> "kubernetes", allowAnonymous |-> TRUE,
     namespace |-> "", schedule |-> schedule, retention |-> Absent, serve |-> serve,
     image |-> image, pullSecret |-> "", builder |-> builder, server |-> ""]
DOverlayOf ==
    [all    |-> OverlayWith("", "cron", Serving(Absent), "runner"),
     newer  |-> OverlayWith("v2", "", Serving(80), ""),
     headed |-> OverlayWith("", "", Serving(Absent), ""),
     wrong  |-> OverlayWith("", "cron", Serving(0), "")]
DOverlays == DOMAIN DOverlayOf

SecretsWith(version, connections) ==
    [builder |-> TRUE, pull |-> FALSE,
     server |-> [there |-> TRUE, parses |-> TRUE, connections |-> connections],
     principals |-> [parses |-> version > 0, version |-> version]]
DSecretsOf == [good |-> SecretsWith(1, <<>>), rotated |-> SecretsWith(2, <<>>),
               full |-> SecretsWith(1, DProfiles.prod.connections)]
DSecrets == DOMAIN DSecretsOf

DFirstDeploys == {<<"all", "good">>, <<"headed", "rotated">>}

DPaths == {<<"cell.yaml">>, <<"sql", "orders">>, <<"docs", "cell">>,
           <<"docs", "definitions">>, <<".cell", "published">>}
            \cup {<<".cell", name>> : name \in {"sourceCheck", "descriptions",
                    "catalog", "semantic", "semanticCheck"}}
DMapKey == [path \in DPaths |-> path]

(* The third version of the SQL files shares its digits with the first. *)
DDigest(artifact) ==
    [path \in DOMAIN artifact |->
        IF path[1] \in {"sql", "docs"} /\ artifact[path] = 3 THEN 1 ELSE artifact[path]]

(* A cell that is edited and edited back, of a Server and no schedule. *)
BackEdits == DEdits \cup {<<"built1", "built4">>}
BackFirst == {"built4"}
BackDeploys == {<<"newer", "good">>}
BackOverlays == {"newer"}
BackSecrets == {"good"}
=============================================================================
