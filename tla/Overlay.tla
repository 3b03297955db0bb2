-------------------------------- MODULE Overlay --------------------------------
(***************************************************************************)
(* deploy/<profile>.yaml, and what `datamk deploy` makes of it and of the  *)
(* directory: the refusals, in their order; the artifact, which is the     *)
(* content a pod is given; and the manifests rendered from both. Nothing   *)
(* here asks a cluster; what is asked of it comes in as an argument.       *)
(*                                                                         *)
(* An overlay is a record [readable, target, allowAnonymous, namespace,    *)
(* schedule, retention, serve, image, pullSecret, builder, server]. A name *)
(* is abstracted to "" (absent), "bad" (no Kubernetes name) or itself, a   *)
(* number that is absent is -1. An artifact is a function from the paths   *)
(* of its files to what they hold.                                         *)
(***************************************************************************)
EXTENDS Surface

CONSTANTS
    MapKey,      \* a function: paths to their keys in a ConfigMap
    OwnImage,    \* the image of this version of datamk
    Digest(_)    \* of an artifact: the twelve digits its objects are named by

Absent == -1
OrElse(number, default) == IF number = Absent THEN default ELSE number

-----------------------------------------------------------------------------
(* The schema of the overlay. *)

Port(o) == OrElse(o.serve.port, 8080)
Replicas(o) == OrElse(o.serve.replicas, 1)
PollInterval(o) == OrElse(o.serve.poll, 15)
RetentionDays(o) == OrElse(o.retention, 30)
ImageRef(o) == IF o.image = "" THEN OwnImage ELSE o.image

\* `serves`: a Server is deployed where `serve:` is there at all.
Serves(o) == o.serve.on

\* `KubernetesConfig::validate`.
OverlayRefusal(o) ==
    FirstReason(<<
        <<"overlay: namespace", o.namespace = "bad">>,
        <<"overlay: schedule has not five fields", o.schedule = "bad">>,
        <<"overlay: port zero", Serves(o) /\ o.serve.port = 0>>,
        <<"overlay: poll interval zero", Serves(o) /\ o.serve.poll = 0>>,
        <<"overlay: nothing runs", ~Serves(o) /\ o.schedule = "">>,
        <<"overlay: pull secret", o.pullSecret = "bad">>,
        <<"overlay: service account", "bad" \in {o.builder, o.server}>>,
        <<"overlay: account of no Server", o.server # "" /\ ~Serves(o)>> >>)

-----------------------------------------------------------------------------
(* The checks before a target is asked. *)

\* `is_remote`.
IsRemote(storage) == storage \in {"s3", "gs"}

\* `check_no_interactive_connections`: a pod has no browser.
Interactive(cell, profile) ==
    \E source \in Range(cell.sources) :
        /\ SourceKind(source) \in {"table", "query"}
        /\ source.connection \in DOMAIN profile.connections
        /\ LET c == profile.connections[source.connection]
           IN  c.type = "snowflake" /\ c.authenticator \in Browser

\* `check_servable` and `check_auth`, of a deploy with a Server.
ServerRefusal(cell, access, profile, o) ==
    FirstReason(<<
        <<"deploy: not shareable", ~access.shareable>>,
        <<"deploy: nothing to serve", cell.interface = <<>> >>,
        <<"deploy: roles without principals",
          access.roles # {} /\ profile.principals = "">>,
        <<"deploy: open to anybody",
          access.roles = {} /\ ~o.allowAnonymous>> >>)

\* `preflight::check`. Kubernetes hosts both workloads, so a cell that builds
\* nothing is not refused here; `pinned` is `check_release_pinned`.
PreflightRefusal(cell, access, profile, o, pinned) ==
    FirstRefusal(<<
        IF IsRemote(profile.storage) THEN Accepted ELSE "deploy: local storage",
        IF DirectAttach(profile) THEN "deploy: catalog" ELSE Accepted,
        UnboundRefusal(cell, profile),
        IF Interactive(cell, profile) THEN "deploy: browser" ELSE Accepted,
        pinned,
        IF Serves(o) THEN ServerRefusal(cell, access, profile, o)
        ELSE Accepted>>)

\* `deploy_impl`, before it connects: an all-bound cell has nothing but a
\* Server.
TopologyRefusal(o, allBound) ==
    FirstRefusal(<<
        IF allBound /\ ~Serves(o) THEN "deploy: no workload left" ELSE Accepted,
        OverlayRefusal(o),
        IF allBound /\ o.schedule # "" THEN "deploy: nothing to schedule"
        ELSE Accepted,
        IF allBound /\ o.builder # "" THEN "deploy: account of no Builder"
        ELSE Accepted>>)

\* `deploy::run`, up to the backend. `probe` is what the store's conditional
\* PUT showed: "enforced", "not enforced", or "unreachable", which the build
\* in the cluster will find out; a dry run does not ask.
DeployRefusal(profileName, config, o, preflight, dryRun, probe) ==
    FirstRefusal(<<
        IF profileName = "local" THEN "deploy: local" ELSE Accepted,
        config,
        IF o.readable THEN Accepted ELSE "deploy: no overlay",
        IF o.target = "" THEN "deploy: no target" ELSE Accepted,
        preflight,
        IF ~dryRun /\ probe = "not enforced" THEN "deploy: conditional PUT"
        ELSE Accepted>>)

-----------------------------------------------------------------------------
(* The checks that ask the cluster for its Secrets. *)

\* `check_server_profile_secret`: a profile without connections.
ServerSecretRefusal(secret) ==
    FirstReason(<<
        <<"secret: server missing", ~secret.there>>,
        <<"secret: server malformed", secret.there /\ ~secret.parses>>,
        <<"secret: server has connections",
          secret.there /\ secret.parses /\ secret.connections # <<>> >> >>)

\* `kubernetes::preflight::check`. A Secret is needed where a pod mounts it.
SecretsRefusal(secrets, profile, o, roles, allBound) ==
    LET guarded == roles # {} /\ Serves(o)
    IN  FirstRefusal(<<
            IF guarded /\ profile.principals # "mount"
            THEN "secret: principals are mounted elsewhere" ELSE Accepted,
            IF ~allBound /\ ~secrets.builder THEN "secret: builder missing"
            ELSE Accepted,
            IF Serves(o) THEN ServerSecretRefusal(secrets.server) ELSE Accepted,
            IF o.pullSecret # "" /\ ~secrets.pull THEN "secret: pull missing"
            ELSE Accepted,
            IF guarded /\ ~secrets.principals.parses
            THEN "secret: principals missing or malformed" ELSE Accepted>>)

\* The version of the principals that the pods are rolled by; 0 for none.
SecretChecksum(secrets, o, roles) ==
    IF roles # {} /\ Serves(o) THEN secrets.principals.version ELSE 0

-----------------------------------------------------------------------------
(* `CellArtifact::collect`. *)

Sidecars_before ==       \* mutant: descriptions came later
    <<"sourceCheck", "catalog", "semantic", "semanticCheck">>

\* The records that are sent along, besides the pin of a release.
Sidecars == <<"sourceCheck", "descriptions", "catalog", "semantic",
              "semanticCheck">>

\* `sidecar`: a record ships when it is of this cell.yaml; of which profile
\* it is, whoever reads it asks. The pin of a release ships as it is.
Ships(record, digest) == record.kind # "none" /\ record.digest = digest

\* The pages: of the cell, of its exports, and of its definitions.
DocPaths(cell) ==
    {<<"docs", "cell">> : page \in {cell.docs.at} \ {""}}
    \cup {<<"docs", Route(export)>> :
            export \in {e \in ToSet(cell.interface) : e.docs.at # ""}}
    \cup {<<"docs", "definitions">> :
            page \in ({cell.definitions.page.at}
                        \cup {term.docs.at : term \in ToSet(Terms(cell))}) \ {""}}

\* What is on disk, as it is read: `texts` are the SQL and the pages.
Collect(digest, cell, records, texts) ==
    LET sql == {<<"sql", t.table>> : t \in ToSet(Transforms(cell))}
        shipped == {name \in ToSet(Sidecars) : Ships(records[name], digest)}
    IN  [path \in {<<"cell.yaml">>} |-> digest]
        ++ [path \in sql \cup DocPaths(cell) |-> texts]
        ++ [path \in {<<".cell", name>> : name \in shipped} |-> records[path[2]]]
        ++ [path \in {<<".cell", "published">> :
                        pin \in {records.published.kind} \ {"none"}} |->
              records.published]

\* `content_hash` and `content_hash_short`: a SHA-256 over every file, path and
\* bytes, cut to twelve digits. It is of the artifact and nothing else, and two
\* artifacts may share one.
ContentHash(artifact) == Digest(artifact)

\* What a pod finds under /cell: `cell_volume` puts every file back where it
\* came from. A record that was not shipped is not there.
Unpacked(artifact) ==
    [file |-> artifact[<<"cell.yaml">>],
     records |-> [name \in {"catalog", "semantic", "semanticCheck",
                            "sourceCheck", "descriptions", "published"} |->
        IF <<".cell", name>> \in DOMAIN artifact
        THEN artifact[<<".cell", name>>] ELSE None]]

-----------------------------------------------------------------------------
(* `render::manifests`. One that is not rendered is None. *)

\* `render_configmap`: keys are paths without their separators.
RenderRefusal(artifact) ==
    IF \E a, b \in DOMAIN artifact : a # b /\ MapKey[a] = MapKey[b]
    THEN "render: two files share a key" ELSE Accepted

ConfigMap(artifact) ==
    [kind |-> "configmap", name |-> ContentHash(artifact), data |-> artifact]

\* The pod of either workload: `volumes`, `service_account_name`. The profile
\* is another Secret for each; only a Server is given the principals.
Pod(role, profileName, artifact, o, guarded) ==
    [role |-> role, image |-> ImageRef(o), config |-> ContentHash(artifact),
     profile |-> <<profileName, role>>, pullSecret |-> o.pullSecret,
     account |-> IF role = "server" THEN o.server ELSE o.builder,
     principals |-> guarded /\ role = "server"]

\* `builder_args` of the init Job and of the CronJob.
BuilderPod(profileName, artifact, o) ==
    Pod("builder", profileName, artifact, o, FALSE)
      ++ [retention |-> RetentionDays(o)]

\* `render_init_job`: named for the content, which is not all its template
\* depends on.
InitJob(profileName, artifact, o, allBound) ==
    IF allBound THEN None
    ELSE [kind |-> "job", name |-> ContentHash(artifact),
          template |-> BuilderPod(profileName, artifact, o)]

\* `render_cronjob`.
CronJob(profileName, artifact, o, allBound) ==
    IF allBound \/ o.schedule = "" THEN None
    ELSE [kind |-> "cronjob", schedule |-> o.schedule,
          template |-> BuilderPod(profileName, artifact, o)]

\* `render_deployment`: the checksums of its template roll it.
Deployment(profileName, artifact, o, roles, checksum) ==
    IF ~Serves(o) THEN None
    ELSE [kind |-> "deployment", replicas |-> Replicas(o),
          template |->
            Pod("server", profileName, artifact, o, roles # {})
              ++ [port |-> Port(o), poll |-> PollInterval(o),
                  checksum |-> checksum]]

\* `render_service`: in the cluster only.
ServiceObject(o) ==
    IF Serves(o) THEN [kind |-> "service", port |-> Port(o)] ELSE None

\* `render_service_account`.
Accounts(o, allBound) ==
    LET names == (IF allBound THEN {} ELSE {o.builder})
                   \cup (IF Serves(o) THEN {o.server} ELSE {})
    IN  IF names \ {""} = {} THEN None
        ELSE [kind |-> "accounts", names |-> names \ {""}]

Manifests(profileName, artifact, o, roles, checksum, allBound) ==
    [accounts   |-> Accounts(o, allBound),
     configmap  |-> ConfigMap(artifact),
     job        |-> InitJob(profileName, artifact, o, allBound),
     service    |-> ServiceObject(o),
     deployment |-> Deployment(profileName, artifact, o, roles, checksum),
     cronjob    |-> CronJob(profileName, artifact, o, allBound)]

\* `DeployReport`: the workloads it names.
Workloads(o, allBound) ==
    (IF Serves(o) THEN {"server"} ELSE {})
    \cup (IF o.schedule # "" /\ ~allBound THEN {"builder"} ELSE {})
=============================================================================
