--------------------------------- MODULE Deploy ---------------------------------
(***************************************************************************)
(* `datamk deploy` of the directory of Workspace to a Kubernetes cluster.  *)
(* The command refuses, or renders its manifests and applies them one by   *)
(* one, waiting in between for the init Job to build; it may be killed at  *)
(* every step. The cluster runs, fails, deletes and collects the Job in    *)
(* its own time, and the CronJob builds when it ticks. One deploy runs at  *)
(* a time, and the directory is left alone meanwhile.                      *)
(*                                                                         *)
(* The cluster (server-side apply, the Job controller, the immutability of *)
(* a ConfigMap and of a Job's template) is modelled as apply.rs uses it.   *)
(***************************************************************************)
EXTENDS Workspace, Overlay

CONSTANTS
    Overlays,      \* the contents of deploy/<profile>.yaml
    OverlayOf,     \* of each, what it parses to
    FirstDeploys,  \* the pairs of an overlay and of Secrets to begin with
    Secrets,       \* the states of the Secrets in the cluster
    SecretsOf,     \* of each: [builder, server, pull, principals]
    Deployed1,     \* the profile that is deployed
    MaxDeploys,    \* bound: how often
    MaxTicks       \* bound: a schedule builds until there are so many snapshots

ASSUME DeployAssumption ==
    /\ FirstDeploys \subseteq Overlays \X Secrets
    /\ Deployed1 \in DOMAIN Profiles /\ MaxDeploys \in Nat /\ MaxTicks \in Nat

VARIABLES
    overlay,   \* the content of deploy/<profile>.yaml
    texts,     \* the version of the SQL files and the pages
    secrets,   \* what an operator has put into the cluster
    cluster,   \* the objects applied, None for one that is not there
    plan,      \* the deploy in hand: what it renders, the kinds left to apply
    outcome,   \* how the last deploy ended
    built,     \* the templates of which a Job has succeeded
    latest,    \* the template of the last build, which the store holds
    deploys

deployVars ==
    <<overlay, texts, secrets, cluster, plan, outcome, built, latest, deploys>>

NoPlan == [left |-> {}]
Deploying == plan.left # {}

D == Here(Deployed1)
O == OverlayOf[overlay]
Access == FileOf[file].access
AllBound == BuildsNoSnapshot(Cell0)

-----------------------------------------------------------------------------
(* The command, up to its first write. *)

DeployedCell == LoadedIn(D)

Artifact == Collect(file, DeployedCell, records, texts)

Pinned2 == PinRefusal(Semantic0, IF SemanticFresh THEN records.semantic ELSE None)

\* `deploy::run` and `deploy_impl`, in their order.
RunRefusal(probe) ==
    FirstRefusal(<<
        DeployRefusal(Deployed1, ConfigRefusalIn(D), O,
            IF ConfigRefusalIn(D) # Accepted THEN Accepted
            ELSE PreflightRefusal(DeployedCell, Access, D.profile, O, Pinned2),
            FALSE, probe),
        TopologyRefusal(O, AllBound),
        SecretsRefusal(SecretsOf[secrets], D.profile, O, Access.roles, AllBound),
        RenderRefusal(Artifact)>>)

Rendered == Manifests(Deployed1, Artifact, O, Access.roles,
                      SecretChecksum(SecretsOf[secrets], O, Access.roles),
                      AllBound)

\* `apply_all`: what is applied; `datamk deploy --skip-init` leaves the Job
\* out.
ToApply(manifests, skipInit) ==
    {kind \in DOMAIN manifests : /\ manifests[kind].kind # "none"
                                 /\ ~(skipInit /\ kind = "job")}

\* The order it is applied in, and what comes next.
Turn == [accounts |-> 1, configmap |-> 2, job |-> 3, service |-> 4,
         deployment |-> 5, cronjob |-> 6]

Due == CHOOSE kind \in plan.left :
           \A other \in plan.left : Turn[kind] <= Turn[other]

-----------------------------------------------------------------------------
(* The API server. *)

\* The key an object is applied under: a ConfigMap and a Job are named for
\* their content, of the others the cell has one each.
KeyOf(kind, manifest) ==
    IF kind \in {"configmap", "job"} THEN <<kind, manifest.name>> ELSE <<kind>>

Applied(key) == key \in DOMAIN cluster

\* "field is immutable": the data of a ConfigMap, the template of a Job.
Immutable(kind, manifest) ==
    LET key == KeyOf(kind, manifest)
    IN  /\ Applied(key)
        /\ \/ kind = "configmap" /\ cluster[key].data # manifest.data
           \/ kind = "job" /\ cluster[key].template # manifest.template

PatchedInto_new(objects, key, object) ==     \* mutant: created, never updated
    IF key \in DOMAIN objects THEN objects ELSE objects @@ (key :> object)

\* `apply_one`: a forced server-side apply creates or updates.
PatchedInto(objects, key, object) ==
    [other \in DOMAIN objects \cup {key} |->
        IF other = key THEN object ELSE objects[other]]

\* What is there after an apply. That the build was skipped is history.
ObjectOf(kind, manifest) ==
    IF kind = "deployment" THEN manifest ++ [skipped |-> plan.skipped] ELSE manifest

Without(objects, key) ==
    [other \in DOMAIN objects \ {key} |-> objects[other]]

JobKey == KeyOf("job", plan.manifests.job)

\* The status of a Job; one that is being deleted keeps what it had.
NewJob(manifest) == manifest ++ [status |-> "active", deleting |-> FALSE]

-----------------------------------------------------------------------------
DeployInit ==
    /\ Init
    /\ \E pair \in FirstDeploys : overlay = pair[1] /\ secrets = pair[2]
    /\ texts = 1
    /\ cluster = <<>>
    /\ plan = NoPlan
    /\ outcome = "none"
    /\ built = {}
    /\ latest = None
    /\ deploys = 0

\* The author and the other commands, between two deploys.
Author ==
    /\ ~Deploying
    /\ \/ Edit
       \/ SyncSemantic(Deployed1, "", FALSE)
       \/ SyncDiscover(Deployed1)
       \/ Verify(Deployed1)
       \/ WriteSemanticCheck
       \/ WriteSourceCheck
       \/ WriteDescriptions
       \/ Stop
       \/ ReleaseNow(Deployed1)
    /\ UNCHANGED deployVars

\* A SQL file or a page is edited, which cell.yaml does not tell.
EditTexts ==
    /\ ~Deploying /\ Begins
    /\ texts' = texts + 1
    /\ UNCHANGED <<file, world, records, cache, lake, copies, cmd, mount, before, overlay,
                   secrets, cluster, plan, outcome, built, latest, deploys>>

EditOverlay ==
    /\ ~Deploying /\ Begins
    /\ overlay' \in Overlays \ {overlay}
    /\ UNCHANGED <<file, world, records, cache, lake, copies, cmd, mount, before, texts,
                   secrets, cluster, plan, outcome, built, latest, deploys>>

\* An operator replaces the Secrets; no object of the deploy notices.
ReplaceSecrets ==
    /\ ~Deploying /\ Begins
    /\ secrets' \in Secrets \ {secrets}
    /\ UNCHANGED <<file, world, records, cache, lake, copies, cmd, mount, before, overlay,
                   texts, cluster, plan, outcome, built, latest, deploys>>

Outside2 == <<file, world, records, cache, copies, cmd, mount, before, moves, overlay, texts,
              secrets>>

\* `datamk deploy`, until it knows what to apply.
Start(skipInit, probe) ==
    /\ cmd = Idle /\ ~Deploying /\ deploys < MaxDeploys
    /\ RunRefusal(probe) = Accepted
    /\ deploys' = deploys + 1
    /\ outcome' = "running"
    /\ plan' = [manifests |-> Rendered, skipped |-> skipInit,
                left |-> ToApply(Rendered, skipInit), waiting |-> FALSE]
    /\ UNCHANGED <<Outside2, lake, cluster, built, latest>>

Next1 == plan.left \ {Due}

\* The step is done; after the last one so is the deploy.
Advance ==
    /\ plan' = [plan EXCEPT !.left = Next1, !.waiting = FALSE]
    /\ outcome' = IF Next1 = {} THEN "done" ELSE outcome

Fails == plan' = [plan EXCEPT !.left = {}] /\ outcome' = "failed"

\* `apply_one`, of everything but the Job.
Apply ==
    /\ Deploying /\ Due # "job"
    /\ LET kind == Due
           manifest == plan.manifests[kind]
       IN  IF Immutable(kind, manifest)
           THEN Fails /\ UNCHANGED cluster
           ELSE /\ cluster' = PatchedInto(cluster, KeyOf(kind, manifest),
                                        ObjectOf(kind, manifest))
                /\ Advance
    /\ UNCHANGED <<Outside2, lake, built, latest, deploys>>

AtJob == Deploying /\ Due = "job"

\* `is_immutable_error`: a Job of the same content and another template.
Replaces(manifest) == Immutable("job", manifest)

\* `apply_and_wait_init`: the Job is created; one with this template is left
\* as it is, whatever became of it.
ApplyJob ==
    /\ AtJob /\ ~plan.waiting
    /\ ~Replaces(plan.manifests.job)
    /\ cluster' = IF Applied(JobKey) THEN cluster
                  ELSE PatchedInto(cluster, JobKey, NewJob(plan.manifests.job))
    /\ plan' = [plan EXCEPT !.waiting = TRUE]
    /\ UNCHANGED <<Outside2, lake, outcome, built, latest, deploys>>

\* `delete_job_and_wait_gone`: a second apply waits until it is gone.
ReplaceJob ==
    /\ AtJob /\ ~plan.waiting
    /\ Replaces(plan.manifests.job)
    /\ ~cluster[JobKey].deleting
    /\ cluster' = [cluster EXCEPT ![JobKey].deleting = TRUE]
    /\ UNCHANGED <<Outside2, lake, plan, outcome, built, latest, deploys>>

Verdict_any(job) ==      \* mutant: a Job that is over has built
    IF job.status # "active" THEN "succeeded" ELSE "active"

\* `status.succeeded`, `job_failed`.
Verdict(job) == job.status

\* One poll of the wait, which finds something.
PollJob ==
    /\ AtJob /\ plan.waiting
    /\ CASE ~Applied(JobKey) -> Fails
         [] Applied(JobKey) /\ Verdict(cluster[JobKey]) = "succeeded" -> Advance
         [] Applied(JobKey) /\ Verdict(cluster[JobKey]) = "failed" -> Fails
         [] OTHER -> FALSE
    /\ UNCHANGED <<Outside2, lake, cluster, built, latest, deploys>>

\* The deploy ends where it stands: it is killed, a request fails, or
\* --init-timeout runs out.
Abandon ==
    /\ Deploying
    /\ Fails
    /\ UNCHANGED <<Outside2, lake, cluster, built, latest, deploys>>

-----------------------------------------------------------------------------
(* The cluster, in its own time. *)

\* What a pod has of a directory: the files of its ConfigMap, the profile of
\* its Secret, and the store.
PodDirectory(template) ==
    LET content == Unpacked(cluster[<<"configmap", template.config>>].data)
        name == template.profile[1]
    IN  [file |-> content.file, records |-> content.records, name |-> name,
         profile |-> IF template.role = "server"
                     THEN [Profiles[name] EXCEPT
                             !.connections = SecretsOf[secrets].server.connections]
                     ELSE Profiles[name],
         built |-> lake[name].built, snapshots |-> lake[name].snapshots]

\* `datamk run` in a pod: it publishes when the load allows it.
PodBuilds(template) ==
    /\ <<"configmap", template.config>> \in DOMAIN cluster
    /\ ConfigRefusalIn(PodDirectory(template)) = Accepted
    /\ lake' = [lake EXCEPT ![template.profile[1]] =
                  [built |-> world, snapshots |-> @.snapshots + 1]]

Jobs == {key \in DOMAIN cluster : key[1] = "job"}

JobSucceeds(key) ==
    /\ cluster[key].status = "active"
    /\ PodBuilds(cluster[key].template)
    /\ cluster' = [cluster EXCEPT ![key].status = "succeeded"]
    /\ built' = built \cup {cluster[key].template}
    /\ latest' = cluster[key].template
    /\ UNCHANGED <<Outside2, plan, outcome, deploys>>

\* `backoffLimit` runs out.
JobFails(key) ==
    /\ cluster[key].status = "active"
    /\ cluster' = [cluster EXCEPT ![key].status = "failed"]
    /\ UNCHANGED <<Outside2, lake, plan, outcome, built, latest, deploys>>

\* `ttlSecondsAfterFinished`, or the end of a foreground deletion.
JobGoes(key) ==
    /\ cluster[key].status # "active" \/ cluster[key].deleting
    /\ cluster' = Without(cluster, key)
    /\ UNCHANGED <<Outside2, lake, plan, outcome, built, latest, deploys>>

\* The CronJob builds what it was applied with, whatever was applied since.
CronTick ==
    /\ Applied(<<"cronjob">>)
    /\ lake[Deployed1].snapshots < MaxTicks
    /\ PodBuilds(cluster[<<"cronjob">>].template)
    /\ latest' = cluster[<<"cronjob">>].template
    /\ UNCHANGED <<Outside2, cluster, plan, outcome, built, deploys>>

DeployNext ==
    \/ Author
    \/ EditTexts
    \/ EditOverlay
    \/ ReplaceSecrets
    \/ \E skipInit \in BOOLEAN, probe \in {"enforced", "unreachable"} :
          Start(skipInit, probe)
    \/ Apply
    \/ ApplyJob
    \/ ReplaceJob
    \/ PollJob
    \/ Abandon
    \/ \E key \in Jobs : JobSucceeds(key) \/ JobFails(key) \/ JobGoes(key)
    \/ CronTick

DeploySpec == DeployInit /\ [][DeployNext]_<<vars, deployVars>>

-----------------------------------------------------------------------------
(* Properties. *)

\* The Server never starts against a catalog that nothing has initialised
\* (apply.rs 36-42): whichever deploys were killed, timed out or failed before
\* it, and though a Job is kept, replaced, collected or deleted meanwhile, a
\* build of its own content by its own image has succeeded, unless the operator
\* skipped the build or there is nothing to build. That the store still holds
\* this build is another matter, see CompleteJobIsWhatTheStoreHolds.
ServerHasBeenBuilt ==
    Applied(<<"deployment">>) =>
        LET pod == cluster[<<"deployment">>].template
            cell == FileOf[Unpacked(cluster[<<"configmap", pod.config>>].data).file].cell
        IN  \/ BuildsNoSnapshot(cell)
            \/ cluster[<<"deployment">>].skipped
            \/ /\ lake[pod.profile[1]].snapshots > 0
               /\ \E template \in built :
                     /\ template.config = pod.config
                     /\ template.image = pod.image
                     /\ template.profile[1] = pod.profile[1]

\* A deploy that finds its Job Complete has its build already: "re-deploying
\* identical content is an idempotent no-op" (ADR 0002, 57-58; render.rs
\* 243-245). It is one only while the store holds what that Job left.
FindsItsJobComplete ==
    /\ AtJob /\ ~plan.waiting /\ plan'.waiting
    /\ Applied(JobKey) /\ Verdict(cluster[JobKey]) = "succeeded"

CompleteJobIsWhatTheStoreHolds ==
    [][FindsItsJobComplete => latest.config = plan.manifests.job.template.config]_deployVars

\* docs/guides/kubernetes.md 100: exit 0 means that every object is applied,
\* as it was rendered now, and that the init build finished.
DoneMeansApplied ==
    outcome = "done" =>
        /\ \A kind \in DOMAIN plan.manifests \ {"job"} :
              LET manifest == plan.manifests[kind]
              IN  manifest.kind # "none" =>
                    /\ Applied(KeyOf(kind, manifest))
                    /\ cluster[KeyOf(kind, manifest)] = ObjectOf(kind, manifest)
        /\ plan.manifests.job.kind # "none" /\ ~plan.skipped
             => plan.manifests.job.template \in built

\* What the deployed Server starts with, and what it would start with in the
\* directory it was deployed from.
PodMount == MountIn(PodDirectory(cluster[<<"deployment">>].template), TRUE)

SameAsHere ==
    /\ outcome = "done" /\ ~Deploying /\ cmd = Idle
    /\ Applied(<<"deployment">>)
    /\ ConfigRefusalIn(D) = Accepted
    /\ LET pod == cluster[<<"deployment">>].template
       IN  cluster[<<"configmap", pod.config>>].data = Artifact

ShowsTheSame ==
    LET pod == PodDirectory(cluster[<<"deployment">>].template)
    IN  /\ ServeRefusalIn(pod) = ServeRefusalIn(D)
        /\ ServeRefusalIn(pod) = Accepted =>
              /\ ContextDoc(PodMount, Everything)
                   = ContextDoc(MountIn(D, TRUE), Everything)
              /\ \A route \in RouteKeys(PodMount.cell) :
                    ETag(PodMount, route, Everything)
                      = ETag(MountIn(D, TRUE), route, Everything)

OnBigQuery ==
    /\ Cell0.discover.on
    /\ D.profile.connections[Cell0.discover.warehouse].type = "bigquery"

\* The artifact carries all that the Server shows: while the directory is as
\* it was deployed, a Server of either starts or refuses as the other would,
\* and answers /context with the same document under the same ETag, though the
\* one profile has connections and the other none. A cell that is discovered
\* on BigQuery is left out: its bindings name the project of a connection
\* (context.rs 1829-1850), which the reduced profile of a pod does not have.
DeployedShowsWhatTheDirectoryShows == SameAsHere /\ ~OnBigQuery => ShowsTheSame
=============================================================================
