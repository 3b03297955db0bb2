------------------------------- MODULE DeployProofs -------------------------------
(***************************************************************************)
(* Theorems about Deploy: what a deploy has applied when it says that it   *)
(* is done, what has been built before a Server runs, and that the Server  *)
(* shows what the directory shows, whichever deploys were killed, failed   *)
(* or replaced by the next, and whatever the Job controller and the        *)
(* schedule do meanwhile. Of the digest that content is named by nothing   *)
(* is assumed: two contents may share one.                                 *)
(***************************************************************************)
EXTENDS Deploy, RecordProofs, SequenceTheorems

Kinds == {"accounts", "configmap", "job", "service", "deployment", "cronjob"}

LoneKeys == {<<"accounts">>, <<"service">>, <<"deployment">>, <<"cronjob">>}

-----------------------------------------------------------------------------
(* The inductive invariant.                                                *)

\* What is applied is applied under a key of its kind.
KeysInv ==
    \A key \in DOMAIN cluster :
        \/ key \in LoneKeys
        \/ key = <<"configmap", key[2]>>
        \/ key = <<"job", key[2]>>

\* A Job that has succeeded has built.
JobsInv ==
    \A name : Applied(<<"job", name>>) =>
        LET job == cluster[<<"job", name>>]
        IN  /\ DOMAIN job = {"kind", "name", "template", "status", "deleting"}
            /\ job.status = "succeeded" => job.template \in built

\* A build of the template's content, by its image and under its profile.
Covers(templates, pod) ==
    \E template \in templates :
        /\ template.config = pod.config
        /\ template.image = pod.image
        /\ template.profile[1] = pod.profile[1]

CellOf(content) == FileOf[content[<<"cell.yaml">>]].cell

\* The objects of one deploy are of one content: the ConfigMap they mount is
\* among them, and without a Job there is nothing to build.
OfOneContent(manifests) ==
    /\ DOMAIN manifests = Kinds
    /\ manifests.configmap.kind = "configmap"
    /\ IF manifests.job.kind = "none"
       THEN BuildsNoSnapshot(CellOf(manifests.configmap.data))
       ELSE DOMAIN manifests.job = {"kind", "name", "template"}
    /\ manifests.deployment.kind # "none" =>
          /\ DOMAIN manifests.deployment = {"kind", "replicas", "template"}
          /\ manifests.deployment.template.config = manifests.configmap.name
          /\ manifests.job.kind # "none" =>
                Covers({manifests.job.template}, manifests.deployment.template)

\* What of a deploy is done.
IsDone(kind) ==
    LET manifest == plan.manifests[kind]
    IN  \/ manifest.kind = "none"
        \/ kind = "job" /\ (plan.skipped \/ manifest.template \in built)
        \/ /\ kind # "job"
           /\ Applied(KeyOf(kind, manifest))
           /\ cluster[KeyOf(kind, manifest)] = ObjectOf(kind, manifest)

PlanInv ==
    /\ outcome \in {"none", "running", "done", "failed"}
    /\ Deploying <=> outcome = "running"
    /\ plan.left \subseteq Kinds
    /\ outcome # "none" =>
          /\ DOMAIN plan = {"manifests", "skipped", "left", "waiting"}
          /\ OfOneContent(plan.manifests)
    /\ \A kind \in plan.left : plan.manifests[kind].kind # "none"
    /\ outcome \in {"running", "done"} =>
          \A kind \in Kinds \ plan.left : IsDone(kind)

\* The Job that is waited for, if it is still there, is the one of this plan.
WaitInv ==
    AtJob /\ plan.waiting /\ Applied(JobKey) =>
        cluster[JobKey].template = plan.manifests.job.template

\* The Deployment runs over the content of a ConfigMap that is there, and
\* over a build of it.
ServerInv ==
    Applied(<<"deployment">>) =>
        LET object == cluster[<<"deployment">>]
            pod == object.template
        IN  /\ Applied(<<"configmap", pod.config>>)
            /\ \/ BuildsNoSnapshot(CellOf(cluster[<<"configmap", pod.config>>].data))
               \/ object.skipped
               \/ Covers(built, pod)

IndInv == KeysInv /\ JobsInv /\ PlanInv /\ WaitInv /\ ServerInv

-----------------------------------------------------------------------------
(* What a deploy renders, and the order it applies it in.                  *)

\* An artifact carries the cell.yaml it was collected under.
LEMMA ContentOf ==
    ASSUME NEW digest, NEW cell, NEW recs, NEW pages
    PROVE  LET artifact == Collect(digest, cell, recs, pages)
           IN  artifact[<<"cell.yaml">>] = digest
  <1> DEFINE artifact == Collect(digest, cell, recs, pages)
  <1>1. ASSUME NEW f, NEW g
        PROVE  /\ DOMAIN f \subseteq DOMAIN (f ++ g)
               /\ \A x \in DOMAIN f : (f ++ g)[x] = f[x]
    BY DEF ++
  <1>2. PICK f, g, h : artifact = (([path \in {<<"cell.yaml">>} |-> digest] ++ f) ++ g) ++ h
    BY DEF Collect
  <1>3. artifact[<<"cell.yaml">>] = digest
    <2> DEFINE a == [path \in {<<"cell.yaml">>} |-> digest]
               b == a ++ f
               c == b ++ g
    <2>1. <<"cell.yaml">> \in DOMAIN a /\ a[<<"cell.yaml">>] = digest
      OBVIOUS
    <2> HIDE DEF a
    <2>2. <<"cell.yaml">> \in DOMAIN b /\ b[<<"cell.yaml">>] = digest
      BY <1>1, <2>1
    <2> HIDE DEF b
    <2>3. <<"cell.yaml">> \in DOMAIN c /\ c[<<"cell.yaml">>] = digest
      BY <1>1, <2>2
    <2>4. artifact = c ++ h
      BY <1>2 DEF a, b
    <2> HIDE DEF c, artifact
    <2> QED
      BY <1>1, <2>3, <2>4
  <1> QED
    BY <1>3

\* The Server's pod runs what the build Job of the same deploy builds.
LEMMA PodsOf ==
    ASSUME NEW name, NEW artifact, NEW o, NEW guarded, NEW port, NEW poll,
           NEW checksum
    PROVE  LET job == BuilderPod(name, artifact, o)
               pod == Pod("server", name, artifact, o, guarded)
                        ++ [port |-> port, poll |-> poll, checksum |-> checksum]
           IN  /\ pod.config = ContentHash(artifact)
               /\ Covers({job}, pod)
  <1> DEFINE fields == {"role", "image", "config", "profile", "pullSecret",
                        "account", "principals"}
  <1>1. ASSUME NEW role, NEW mine
        PROVE  LET base == Pod(role, name, artifact, o, mine)
               IN  /\ DOMAIN base = fields
                   /\ base["config"] = ContentHash(artifact)
                   /\ base["image"] = ImageRef(o)
                   /\ base["profile"] = <<name, role>>
    BY DEF Pod
  <1>2. ASSUME NEW f, NEW g
        PROVE  \A x \in DOMAIN f : (f ++ g)[x] = f[x]
    BY DEF ++
  <1> DEFINE job == BuilderPod(name, artifact, o)
             pod == Pod("server", name, artifact, o, guarded)
                      ++ [port |-> port, poll |-> poll, checksum |-> checksum]
  <1>3. /\ job["config"] = ContentHash(artifact)
        /\ job["image"] = ImageRef(o) /\ job["profile"] = <<name, "builder">>
    <2> DEFINE base == Pod("builder", name, artifact, o, FALSE)
    <2>1. /\ DOMAIN base = fields
          /\ base["config"] = ContentHash(artifact)
          /\ base["image"] = ImageRef(o)
          /\ base["profile"] = <<name, "builder">>
      BY <1>1
    <2>2. job = base ++ [retention |-> RetentionDays(o)]
      BY DEF BuilderPod
    <2> HIDE DEF base, job
    <2> QED
      BY <1>2, <2>1, <2>2
  <1>4. /\ pod["config"] = ContentHash(artifact)
        /\ pod["image"] = ImageRef(o) /\ pod["profile"] = <<name, "server">>
    BY <1>1, <1>2
  <1> HIDE DEF job, pod
  <1>5. pod.config = ContentHash(artifact) /\ Covers({job}, pod)
    BY <1>3, <1>4 DEF Covers
  <1> QED
    BY <1>5 DEF job, pod

\* All that a deploy renders is of one artifact.
LEMMA RenderedIsOfOneContent == OfOneContent(Rendered)
  <1> DEFINE artifact == Artifact
             none == BuildsNoSnapshot(Cell0)
             checksum == SecretChecksum(SecretsOf[secrets], O, Access.roles)
             job == InitJob(Deployed1, artifact, O, none)
             server == Deployment(Deployed1, artifact, O, Access.roles, checksum)
  <1>1. /\ DOMAIN Rendered = Kinds
        /\ Rendered.configmap = ConfigMap(artifact)
        /\ Rendered.job = job
        /\ Rendered.deployment = server
    BY DEF Rendered, Manifests, Kinds, AllBound
  <1>2. artifact[<<"cell.yaml">>] = file
    BY ContentOf DEF Artifact
  <1> HIDE DEF artifact
  <1>3. /\ ConfigMap(artifact).kind = "configmap"
        /\ ConfigMap(artifact).name = ContentHash(artifact)
        /\ ConfigMap(artifact).data = artifact
    BY DEF ConfigMap
  <1>4. CellOf(artifact) = Cell0
    BY <1>2 DEF CellOf, Cell0
  <1>5. IF job.kind = "none" THEN none
        ELSE /\ DOMAIN job = {"kind", "name", "template"}
             /\ job.template = BuilderPod(Deployed1, artifact, O)
    <2> HIDE DEF none
    <2> QED
      BY DEF InitJob, None
  <1>6. server.kind # "none" =>
           /\ DOMAIN server = {"kind", "replicas", "template"}
           /\ server.template =
                Pod("server", Deployed1, artifact, O, Access.roles # {})
                  ++ [port |-> Port(O), poll |-> PollInterval(O),
                      checksum |-> checksum]
    <2> HIDE DEF checksum
    <2> QED
      BY DEF Deployment, None
  <1> HIDE DEF job, server, none, checksum
  <1>7. server.kind # "none" =>
           /\ server.template.config = ContentHash(artifact)
           /\ job.kind # "none" => Covers({job.template}, server.template)
    <2> DEFINE guarded == Access.roles # {}
               port == Port(O)
               poll == PollInterval(O)
               o == O
    <2> HIDE DEF guarded, port, poll, o
    <2>1. LET pod == Pod("server", Deployed1, artifact, o, guarded)
                       ++ [port |-> port, poll |-> poll, checksum |-> checksum]
          IN  /\ pod.config = ContentHash(artifact)
              /\ Covers({BuilderPod(Deployed1, artifact, o)}, pod)
      BY PodsOf
    <2> QED
      BY <1>5, <1>6, <2>1 DEF guarded, port, poll, o
  <1> QED
    BY <1>1, <1>3, <1>4, <1>5, <1>6, <1>7 DEF OfOneContent, none

\* Of what is left the earliest is due.
LEMMA DueIsEarliest ==
    ASSUME plan.left \subseteq Kinds, plan.left # {}
    PROVE  /\ Due \in plan.left
           /\ \A other \in plan.left : Turn[Due] <= Turn[other]
  <1>1. \E kind \in plan.left : \A other \in plan.left : Turn[kind] <= Turn[other]
    BY DEF Kinds, Turn
  <1> QED
    BY <1>1 DEF Due

-----------------------------------------------------------------------------
(* Every step keeps it.                                                    *)

LEMMA DeployInitially == DeployInit => IndInv
  <1> SUFFICES ASSUME DeployInit PROVE IndInv
    OBVIOUS
  <1>1. /\ cluster = <<>> /\ plan = NoPlan /\ outcome = "none"
    BY DEF DeployInit
  <1>2. DOMAIN cluster = {}
    BY <1>1
  <1>3. plan.left = {}
    BY <1>1 DEF NoPlan
  <1> QED
    BY <1>1, <1>2, <1>3 DEF IndInv, KeysInv, JobsInv, PlanInv,
        WaitInv, ServerInv, Applied, AtJob, Deploying

\* Whatever touches neither the cluster nor the deploy.
LEMMA QuietStep ==
    ASSUME IndInv, UNCHANGED <<cluster, plan, outcome, built>>
    PROVE  IndInv'
  <1>1. \A key : Applied(key)' = Applied(key)
    BY DEF Applied
  <1>2. AtJob' = AtJob /\ Deploying' = Deploying /\ JobKey' = JobKey
    BY DEF AtJob, Deploying, Due, JobKey
  <1>3. \A kind \in Kinds : IsDone(kind)' = IsDone(kind)
    BY DEF IsDone, Applied, ObjectOf
  <1>4. KeysInv' /\ JobsInv'
    BY DEF IndInv, KeysInv, JobsInv, Applied
  <1>5. PlanInv'
    <2> HIDE DEF Deploying
    <2> QED
      BY <1>2, <1>3 DEF IndInv, PlanInv
  <1>6. WaitInv' /\ ServerInv'
    BY <1>1, <1>2 DEF IndInv, WaitInv, ServerInv
  <1> QED
    BY <1>4, <1>5, <1>6 DEF IndInv

\* The keys of two kinds are two, and none of them is the key of a Job but
\* that of the Job.
LEMMA KeysDiffer ==
    ASSUME NEW kind \in Kinds, NEW other \in Kinds, kind # other,
           NEW m, NEW n
    PROVE  KeyOf(kind, m) # KeyOf(other, n)
  BY DEF KeyOf, Kinds

\* What is done stays done while its object stays.
LEMMA DoneStays ==
    ASSUME NEW kind \in Kinds, IsDone(kind),
           plan'.manifests = plan.manifests, plan'.skipped = plan.skipped,
           built \subseteq built',
           kind # "job" /\ Applied(KeyOf(kind, plan.manifests[kind])) =>
              LET key == KeyOf(kind, plan.manifests[kind])
              IN  key \in DOMAIN cluster' /\ cluster'[key] = cluster[key]
    PROVE  IsDone(kind)'
  BY DEF IsDone, ObjectOf, KeyOf, Applied

\* A deploy that starts has everything left to apply.
LEMMA StartStep ==
    ASSUME IndInv, NEW skipInit, NEW probe, Start(skipInit, probe)
    PROVE  IndInv'
  <1> DEFINE manifests == Rendered
             left == ToApply(manifests, skipInit)
  <1>1. /\ UNCHANGED <<cluster, built>> /\ outcome' = "running"
        /\ plan' = [manifests |-> manifests, skipped |-> skipInit,
                    left |-> left, waiting |-> FALSE]
    BY DEF Start
  <1>2. OfOneContent(manifests)
    BY RenderedIsOfOneContent
  <1> HIDE DEF manifests
  <1>3. /\ left \subseteq Kinds /\ "configmap" \in left
        /\ \A kind \in left : manifests[kind].kind # "none"
        /\ \A kind \in Kinds \ left :
              manifests[kind].kind = "none" \/ (skipInit /\ kind = "job")
    BY <1>2 DEF ToApply, OfOneContent, Kinds
  <1> HIDE DEF left
  <1>4. /\ plan'.manifests = manifests /\ plan'.skipped = skipInit
        /\ plan'.left = left /\ plan'.waiting = FALSE
        /\ DOMAIN plan' = {"manifests", "skipped", "left", "waiting"}
    BY <1>1
  <1>5. \A kind \in Kinds \ left : IsDone(kind)'
    BY <1>3, <1>4 DEF IsDone
  <1>6. PlanInv'
    BY <1>1, <1>2, <1>3, <1>4, <1>5 DEF PlanInv, Deploying
  <1>7. WaitInv'
    BY <1>4 DEF WaitInv
  <1>8. KeysInv' /\ JobsInv' /\ ServerInv'
    BY <1>1 DEF IndInv, KeysInv, JobsInv, ServerInv, Applied
  <1> QED
    BY <1>6, <1>7, <1>8 DEF IndInv

\* A deploy that ends before it is done leaves the cluster as it is.
LEMMA FailsStep ==
    ASSUME IndInv, Deploying, Fails, UNCHANGED <<cluster, built>>
    PROVE  IndInv'
  <1>1. outcome' = "failed" /\ outcome = "running"
    BY DEF Fails, IndInv, PlanInv
  <1>2. /\ DOMAIN plan' = {"manifests", "skipped", "left", "waiting"}
        /\ plan'.left = {} /\ plan'.manifests = plan.manifests
    BY <1>1 DEF Fails, IndInv, PlanInv
  <1>3. PlanInv'
    BY <1>1, <1>2 DEF PlanInv, IndInv, Deploying
  <1>4. WaitInv'
    BY <1>2 DEF WaitInv, AtJob, Deploying
  <1>5. KeysInv' /\ JobsInv' /\ ServerInv'
    BY DEF IndInv, KeysInv, JobsInv, ServerInv, Applied
  <1> QED
    BY <1>3, <1>4, <1>5 DEF IndInv

\* The plan goes on when what is due is done, and nothing that was done is
\* undone.
LEMMA AdvanceStep ==
    ASSUME IndInv, Deploying, Advance, NEW due \in Kinds, due = Due,
           IsDone(due)',
           \A kind \in Kinds \ {due} : IsDone(kind) => IsDone(kind)'
    PROVE  PlanInv' /\ WaitInv'
  <1>1. Due \in plan.left /\ plan.left \subseteq Kinds
    BY DueIsEarliest DEF Deploying, IndInv, PlanInv
  <1>2. /\ outcome = "running"
        /\ DOMAIN plan = {"manifests", "skipped", "left", "waiting"}
        /\ OfOneContent(plan.manifests)
        /\ \A kind \in plan.left : plan.manifests[kind].kind # "none"
        /\ \A kind \in Kinds \ plan.left : IsDone(kind)
    BY DEF IndInv, PlanInv
  <1>3. /\ plan'.left = plan.left \ {Due} /\ plan'.waiting = FALSE
        /\ plan'.manifests = plan.manifests
        /\ DOMAIN plan' = {"manifests", "skipped", "left", "waiting"}
    BY <1>2 DEF Advance, Next1
  <1>4. outcome' = IF plan'.left = {} THEN "done" ELSE "running"
    BY <1>2, <1>3 DEF Advance, Next1
  <1>5. ASSUME NEW kind \in Kinds \ plan'.left PROVE IsDone(kind)'
    BY <1>2, <1>3
  <1>6. PlanInv'
    BY <1>1, <1>2, <1>3, <1>4, <1>5 DEF PlanInv, Deploying
  <1>7. WaitInv'
    BY <1>3 DEF WaitInv
  <1> QED
    BY <1>6, <1>7

\* Of an object that is applied, all the others stay.
LEMMA PatchKeeps ==
    ASSUME NEW key, NEW object, cluster' = PatchedInto(cluster, key, object)
    PROVE  /\ DOMAIN cluster' = DOMAIN cluster \cup {key}
           /\ cluster'[key] = object
           /\ \A other \in DOMAIN cluster \ {key} : cluster'[other] = cluster[other]
  BY DEF PatchedInto

\* The Server is rolled out only once its ConfigMap is there and its build is
\* over.
LEMMA ServerHasItsBuild ==
    ASSUME IndInv, Deploying, Due = "deployment",
           plan.manifests.deployment.kind # "none"
    PROVE  LET pod == plan.manifests.deployment.template
           IN  /\ Applied(<<"configmap", pod.config>>)
               /\ \/ BuildsNoSnapshot(CellOf(cluster[<<"configmap", pod.config>>].data))
                  \/ plan.skipped
                  \/ Covers(built, pod)
  <1>1. \A other \in plan.left : Turn["deployment"] <= Turn[other]
    BY DueIsEarliest DEF Deploying, IndInv, PlanInv
  <1>2. "configmap" \notin plan.left /\ "job" \notin plan.left
    BY <1>1 DEF Turn
  <1>3. IsDone("configmap") /\ IsDone("job") /\ OfOneContent(plan.manifests)
    BY <1>2 DEF IndInv, PlanInv, Kinds
  <1> DEFINE pod == plan.manifests.deployment.template
             config == plan.manifests.configmap
             job == plan.manifests.job
  <1>4. /\ config.kind = "configmap" /\ pod.config = config.name
        /\ job.kind = "none" => BuildsNoSnapshot(CellOf(config.data))
        /\ job.kind # "none" => Covers({job.template}, pod)
    BY <1>3 DEF OfOneContent
  <1>5. /\ Applied(<<"configmap", config.name>>)
        /\ cluster[<<"configmap", config.name>>] = config
    BY <1>3, <1>4 DEF IsDone, KeyOf, ObjectOf
  <1>6. job.kind = "none" \/ plan.skipped \/ job.template \in built
    BY <1>3 DEF IsDone
  <1>7. job.kind # "none" /\ job.template \in built => Covers(built, pod)
    BY <1>4 DEF Covers
  <1> QED
    BY <1>4, <1>5, <1>6, <1>7

\* An object that is applied stands as rendered, and disturbs no other.
LEMMA ApplyStep ==
    ASSUME IndInv, Apply
    PROVE  IndInv'
  <1> DEFINE kind == Due
             manifest == plan.manifests[kind]
             key == KeyOf(kind, manifest)
             object == ObjectOf(kind, manifest)
  <1>1. /\ Deploying /\ kind # "job" /\ UNCHANGED built
        /\ IF Immutable(kind, manifest)
           THEN Fails /\ UNCHANGED cluster
           ELSE cluster' = PatchedInto(cluster, key, object) /\ Advance
    BY DEF Apply
  <1>2. CASE Immutable(kind, manifest)
    BY <1>1, <1>2, FailsStep
  <1>3. ASSUME cluster' = PatchedInto(cluster, key, object), Advance,
               NEW due \in Kinds \ {"job"}, due = kind,
               ~Immutable(due, plan.manifests[due])
        PROVE  IndInv'
    <2> DEFINE m == plan.manifests[due]
               k == KeyOf(due, m)
               o == ObjectOf(due, m)
    <2>1. cluster' = PatchedInto(cluster, k, o)
      BY <1>3
    <2> HIDE DEF o
    <2>2. /\ DOMAIN cluster' = DOMAIN cluster \cup {k}
          /\ cluster'[k] = o
          /\ \A other \in DOMAIN cluster \ {k} : cluster'[other] = cluster[other]
      <3> HIDE DEF k
      <3> QED
        BY <2>1, PatchKeeps
    <2>3. /\ plan'.manifests = plan.manifests /\ plan'.skipped = plan.skipped
          /\ OfOneContent(plan.manifests)
          /\ due \in plan.left /\ m.kind # "none"
      <3>1. /\ DOMAIN plan = {"manifests", "skipped", "left", "waiting"}
            /\ OfOneContent(plan.manifests)
        BY <1>1 DEF IndInv, PlanInv
      <3>2. due \in plan.left
        BY <1>1, <1>3, DueIsEarliest DEF Deploying, IndInv, PlanInv
      <3> QED
        BY <1>3, <3>1, <3>2 DEF Advance, IndInv, PlanInv
    <2>4. k \in LoneKeys \/ (due = "configmap" /\ k = <<"configmap", m.name>>)
      BY DEF KeyOf, Kinds, LoneKeys
    <2>5. KeysInv'
      BY <2>2, <2>4 DEF IndInv, KeysInv
    <2>7. JobsInv'
      <3>1. \A name : k # <<"job", name>>
        BY <2>4 DEF LoneKeys
      <3> HIDE DEF k
      <3> QED
        BY <1>1, <2>2, <3>1 DEF IndInv, JobsInv, Applied
    <2>8. PlanInv' /\ WaitInv'
      <3>1. IsDone(due)'
        <4>1. plan'.manifests[due] = m
          BY <2>3
        <4>2. ObjectOf(due, m)' = o
          BY <2>3 DEF o, ObjectOf
        <4> QED
          BY <2>2, <2>3, <4>1, <4>2 DEF IsDone, Applied
      <3>2. ASSUME NEW other \in Kinds \ {due}, IsDone(other)
            PROVE  IsDone(other)'
        <4>1. k # KeyOf(other, plan.manifests[other])
          BY KeysDiffer
        <4> HIDE DEF k
        <4> QED
          BY <1>1, <2>2, <2>3, <3>2, <4>1, DoneStays DEF Applied
      <3> QED
        BY <1>1, <1>3, <3>1, <3>2, AdvanceStep
    <2>9. ServerInv'
      <3>1. ASSUME NEW name, Applied(<<"configmap", name>>)
            PROVE  /\ <<"configmap", name>> \in DOMAIN cluster'
                   /\ cluster'[<<"configmap", name>>].data
                        = cluster[<<"configmap", name>>].data
        <4>1. CASE k = <<"configmap", name>>
          <5>1. due = "configmap"
            BY <2>4, <4>1 DEF LoneKeys
          <5>2. cluster[k].data = m.data
            BY <1>3, <3>1, <4>1, <5>1 DEF Immutable
          <5>3. o = m
            BY <5>1 DEF o, ObjectOf
          <5> HIDE DEF k, m
          <5> QED
            BY <2>2, <4>1, <5>2, <5>3
        <4>2. CASE k # <<"configmap", name>>
          <5> HIDE DEF k
          <5> QED
            BY <2>2, <3>1, <4>2 DEF Applied
        <4> QED
          BY <4>1, <4>2
      <3>2. CASE due = "deployment"
        <4>1. o = m ++ [skipped |-> plan.skipped]
          BY <3>2 DEF o, ObjectOf
        <4>2. DOMAIN m = {"kind", "replicas", "template"}
          BY <2>3, <3>2 DEF OfOneContent
        <4>3. o["template"] = m["template"] /\ o["skipped"] = plan.skipped
          BY <4>1, <4>2 DEF ++
        <4>4. k = <<"deployment">>
          BY <3>2 DEF KeyOf
        <4>5. /\ Applied(<<"configmap", m.template.config>>)
              /\ \/ BuildsNoSnapshot(CellOf(cluster[<<"configmap", m.template.config>>].data))
                 \/ plan.skipped
                 \/ Covers(built, m.template)
          BY <1>1, <1>3, <2>3, <3>2, ServerHasItsBuild
        <4>6. cluster'[<<"deployment">>] = o
          BY <2>2, <4>4
        <4> HIDE DEF k, m
        <4>7. /\ <<"configmap", m.template.config>> \in DOMAIN cluster'
              /\ cluster'[<<"configmap", m.template.config>>].data
                   = cluster[<<"configmap", m.template.config>>].data
          BY <3>1, <4>5
        <4> QED
          BY <1>1, <4>3, <4>5, <4>6, <4>7 DEF ServerInv, Applied
      <3>3. CASE due # "deployment"
        <4>1. k # <<"deployment">>
          BY <3>3 DEF KeyOf, Kinds
        <4> HIDE DEF k
        <4> SUFFICES ASSUME Applied(<<"deployment">>)'
                     PROVE  ServerInv'
          BY DEF ServerInv
        <4>2. /\ Applied(<<"deployment">>)
              /\ cluster'[<<"deployment">>] = cluster[<<"deployment">>]
          BY <2>2, <4>1 DEF Applied
        <4>3. LET pod == cluster[<<"deployment">>].template
              IN  /\ <<"configmap", pod.config>> \in DOMAIN cluster'
                  /\ cluster'[<<"configmap", pod.config>>].data
                       = cluster[<<"configmap", pod.config>>].data
          BY <3>1, <4>2 DEF IndInv, ServerInv
        <4> QED
          BY <1>1, <4>2, <4>3 DEF IndInv, ServerInv, Applied
      <3> QED
        BY <3>2, <3>3
    <2> QED
      BY <2>5, <2>7, <2>8, <2>9 DEF IndInv
  <1>4. Due \in Kinds
    BY <1>1, DueIsEarliest DEF Deploying, IndInv, PlanInv
  <1> QED
    BY <1>1, <1>2, <1>3, <1>4

\* A step that touches nothing in the cluster but the Job of one content.
LEMMA OneJobStep ==
    ASSUME IndInv, NEW name,
           \A key : key # <<"job", name>> =>
              /\ key \in DOMAIN cluster' <=> key \in DOMAIN cluster
              /\ key \in DOMAIN cluster => cluster'[key] = cluster[key],
           built \subseteq built'
    PROVE  /\ KeysInv' /\ ServerInv'
           /\ \A other : other # name /\ <<"job", other>> \in DOMAIN cluster' =>
                 LET job == cluster'[<<"job", other>>]
                 IN  /\ DOMAIN job =
                          {"kind", "name", "template", "status", "deleting"}
                     /\ job.status = "succeeded" => job.template \in built'
           /\ plan'.manifests = plan.manifests /\ plan'.skipped = plan.skipped
                => \A kind \in Kinds : IsDone(kind) => IsDone(kind)'
  <1>1. KeysInv'
    <2> SUFFICES ASSUME NEW key \in DOMAIN cluster'
                 PROVE  \/ key \in LoneKeys
                        \/ key = <<"configmap", key[2]>>
                        \/ key = <<"job", key[2]>>
      BY DEF KeysInv
    <2>1. CASE key = <<"job", name>>
      BY <2>1
    <2>2. CASE key # <<"job", name>>
      BY <2>2 DEF IndInv, KeysInv
    <2> QED
      BY <2>1, <2>2
  <1>3. ServerInv'
    <2> SUFFICES ASSUME <<"deployment">> \in DOMAIN cluster'
                 PROVE  LET object == cluster'[<<"deployment">>]
                            pod == object.template
                        IN  /\ <<"configmap", pod.config>> \in DOMAIN cluster'
                            /\ \/ BuildsNoSnapshot(CellOf(cluster'[<<"configmap", pod.config>>].data))
                               \/ object.skipped
                               \/ Covers(built', pod)
      BY DEF ServerInv, Applied
    <2>1. /\ <<"deployment">> # <<"job", name>>
          /\ \A other : <<"configmap", other>> # <<"job", name>>
      OBVIOUS
    <2>2. /\ <<"deployment">> \in DOMAIN cluster
          /\ cluster'[<<"deployment">>] = cluster[<<"deployment">>]
      BY <2>1
    <2>3. \A pod : Covers(built, pod) => Covers(built', pod)
      BY DEF Covers
    <2> QED
      BY <2>1, <2>2, <2>3 DEF IndInv, ServerInv, Applied
  <1>4. ASSUME NEW other, other # name, <<"job", other>> \in DOMAIN cluster'
        PROVE  LET job == cluster'[<<"job", other>>]
               IN  /\ DOMAIN job =
                        {"kind", "name", "template", "status", "deleting"}
                   /\ job.status = "succeeded" => job.template \in built'
    <2>1. <<"job", other>> # <<"job", name>>
      BY <1>4
    <2> QED
      BY <1>4, <2>1 DEF IndInv, JobsInv, Applied
  <1>5. ASSUME plan'.manifests = plan.manifests, plan'.skipped = plan.skipped,
               NEW kind \in Kinds, IsDone(kind)
        PROVE  IsDone(kind)'
    <2> DEFINE key == KeyOf(kind, plan.manifests[kind])
    <2>1. kind # "job" => key # <<"job", name>>
      BY DEF KeyOf, Kinds
    <2> HIDE DEF key
    <2>2. kind # "job" /\ key \in DOMAIN cluster =>
            key \in DOMAIN cluster' /\ cluster'[key] = cluster[key]
      BY <2>1
    <2> QED
      BY <1>5, <2>2, DoneStays DEF key, Applied
  <1> QED
    BY <1>1, <1>3, <1>4, <1>5

\* The plan as a step leaves it that does nothing of it.
LEMMA PlanStays ==
    ASSUME IndInv, plan'.manifests = plan.manifests, plan'.left = plan.left,
           plan'.skipped = plan.skipped, DOMAIN plan' = DOMAIN plan,
           UNCHANGED outcome,
           \A kind \in Kinds : IsDone(kind) => IsDone(kind)'
    PROVE  PlanInv'
  <1>1. Deploying' = Deploying
    BY DEF Deploying
  <1> HIDE DEF Deploying
  <1> QED
    BY <1>1 DEF IndInv, PlanInv

\* The Job is created, or one of this template is left as it is.
LEMMA ApplyJobStep ==
    ASSUME IndInv, ApplyJob
    PROVE  IndInv'
  <1> DEFINE job == plan.manifests.job
             name == job.name
             key == <<"job", name>>
  <1>1. /\ JobKey = key
        /\ key \in DOMAIN cluster => cluster[key].template = job.template
    BY DEF ApplyJob, JobKey, Replaces, Immutable, KeyOf, Applied
  <1>2. /\ plan'.left = plan.left /\ plan'.manifests = plan.manifests
        /\ plan'.skipped = plan.skipped /\ DOMAIN plan' = DOMAIN plan
        /\ UNCHANGED <<outcome, built>>
        /\ DOMAIN job = {"kind", "name", "template"}
    <2>1. Deploying /\ Due = "job"
      BY DEF ApplyJob, AtJob
    <2>2. "job" \in plan.left
      BY <2>1, DueIsEarliest DEF Deploying, IndInv, PlanInv
    <2>3. /\ DOMAIN plan = {"manifests", "skipped", "left", "waiting"}
          /\ OfOneContent(plan.manifests) /\ job.kind # "none"
      BY <2>1, <2>2 DEF IndInv, PlanInv
    <2> QED
      BY <2>3 DEF ApplyJob, OfOneContent
  <1>3. /\ \A other : other # key =>
              /\ other \in DOMAIN cluster' <=> other \in DOMAIN cluster
              /\ other \in DOMAIN cluster => cluster'[other] = cluster[other]
        /\ cluster'[key] = IF key \in DOMAIN cluster THEN cluster[key]
                           ELSE NewJob(job)
    <2> HIDE DEF key
    <2>1. cluster' = IF key \in DOMAIN cluster THEN cluster
                     ELSE PatchedInto(cluster, key, NewJob(job))
      BY <1>1 DEF ApplyJob, Applied
    <2> QED
      BY <2>1 DEF PatchedInto
  <1>4. /\ DOMAIN NewJob(job) =
             {"kind", "name", "template", "status", "deleting"}
        /\ NewJob(job)["status"] = "active"
        /\ NewJob(job)["template"] = job.template
    BY <1>2 DEF NewJob, ++
  <1> HIDE DEF job
  <1>5. /\ KeysInv' /\ ServerInv'
        /\ \A kind \in Kinds : IsDone(kind) => IsDone(kind)'
        /\ \A other : other # name /\ <<"job", other>> \in DOMAIN cluster' =>
              LET one == cluster'[<<"job", other>>]
              IN  /\ DOMAIN one =
                       {"kind", "name", "template", "status", "deleting"}
                  /\ one.status = "succeeded" => one.template \in built'
    <2> HIDE DEF name
    <2> QED
      BY <1>2, <1>3, OneJobStep
  <1>6. JobsInv'
    <2>1. ASSUME NEW other, <<"job", other>> \in DOMAIN cluster'
          PROVE  LET one == cluster'[<<"job", other>>]
                 IN  /\ DOMAIN one =
                          {"kind", "name", "template", "status", "deleting"}
                     /\ one.status = "succeeded" => one.template \in built'
      <3>1. CASE other = name
        BY <1>2, <1>3, <1>4, <3>1 DEF IndInv, JobsInv, Applied
      <3>2. CASE other # name
        BY <1>5, <2>1, <3>2
      <3> QED
        BY <3>1, <3>2
    <2> QED
      BY <2>1 DEF JobsInv, Applied
  <1>7. PlanInv'
    BY <1>2, <1>5, PlanStays
  <1>8. WaitInv'
    <2>1. JobKey' = key
      BY <1>1, <1>2 DEF JobKey
    <2>2. plan'.manifests.job = job
      BY <1>2 DEF job
    <2>3. cluster'[key].template = job.template
      BY <1>1, <1>3, <1>4
    <2> QED
      BY <2>1, <2>2, <2>3 DEF WaitInv
  <1> QED
    BY <1>5, <1>6, <1>7, <1>8 DEF IndInv

\* A Job keeps its template as long as it is there.
LEMMA JobStays ==
    ASSUME IndInv, NEW name, <<"job", name>> \in DOMAIN cluster,
           built \subseteq built', UNCHANGED <<plan, outcome>>,
           \/ \E job :
                 /\ cluster' = [cluster EXCEPT ![<<"job", name>>] = job]
                 /\ DOMAIN job = {"kind", "name", "template", "status", "deleting"}
                 /\ job.template = cluster[<<"job", name>>].template
                 /\ job.status = "succeeded" => job.template \in built'
           \/ cluster' = Without(cluster, <<"job", name>>)
    PROVE  IndInv'
  <1> DEFINE key == <<"job", name>>
  <1>1. \A other : other # key =>
           /\ other \in DOMAIN cluster' <=> other \in DOMAIN cluster
           /\ other \in DOMAIN cluster => cluster'[other] = cluster[other]
    <2> HIDE DEF key
    <2> QED
      BY DEF Without, key
  <1>2. /\ KeysInv' /\ ServerInv'
        /\ \A kind \in Kinds : IsDone(kind) => IsDone(kind)'
        /\ \A other : other # name /\ <<"job", other>> \in DOMAIN cluster' =>
              LET one == cluster'[<<"job", other>>]
              IN  /\ DOMAIN one =
                       {"kind", "name", "template", "status", "deleting"}
                  /\ one.status = "succeeded" => one.template \in built'
    BY <1>1, OneJobStep
  <1>3. key \in DOMAIN cluster' =>
          /\ DOMAIN cluster'[key] =
               {"kind", "name", "template", "status", "deleting"}
          /\ cluster'[key].status = "succeeded" =>
                cluster'[key].template \in built'
          /\ cluster'[key].template = cluster[key].template
    <2>1. DOMAIN cluster[key] = {"kind", "name", "template", "status", "deleting"}
      BY DEF IndInv, JobsInv, Applied
    <2> HIDE DEF key
    <2> QED
      BY <2>1 DEF Without, key
  <1>4. JobsInv'
    <2>1. ASSUME NEW other, <<"job", other>> \in DOMAIN cluster'
          PROVE  LET one == cluster'[<<"job", other>>]
                 IN  /\ DOMAIN one =
                          {"kind", "name", "template", "status", "deleting"}
                     /\ one.status = "succeeded" => one.template \in built'
      <3>1. CASE other = name
        BY <1>3, <2>1, <3>1
      <3>2. CASE other # name
        BY <1>2, <2>1, <3>2
      <3> QED
        BY <3>1, <3>2
    <2> QED
      BY <2>1 DEF JobsInv, Applied
  <1>5. PlanInv'
    BY <1>2, PlanStays
  <1>6. WaitInv'
    <2>1. JobKey' = JobKey /\ AtJob' = AtJob
      BY DEF JobKey, AtJob, Deploying, Due
    <2>2. JobKey \in DOMAIN cluster' =>
             /\ JobKey \in DOMAIN cluster
             /\ cluster'[JobKey].template = cluster[JobKey].template
      BY <1>1, <1>3
    <2> QED
      BY <2>1, <2>2 DEF WaitInv, IndInv, Applied
  <1> QED
    BY <1>2, <1>4, <1>5, <1>6 DEF IndInv

\* A Job of another template is marked for deletion, and nothing else.
LEMMA ReplaceJobStep ==
    ASSUME IndInv, ReplaceJob
    PROVE  IndInv'
  <1> DEFINE name == plan.manifests.job.name
             key == <<"job", name>>
             job == [cluster[key] EXCEPT !.deleting = TRUE]
  <1>1. JobKey = key
    BY DEF JobKey, KeyOf
  <1>2. /\ key \in DOMAIN cluster /\ cluster' = [cluster EXCEPT ![key] = job]
        /\ UNCHANGED <<plan, outcome, built>>
    BY <1>1 DEF ReplaceJob, Replaces, Immutable, Applied, JobKey
  <1>3. /\ DOMAIN cluster[key] = {"kind", "name", "template", "status", "deleting"}
        /\ cluster[key].status = "succeeded" => cluster[key].template \in built
    BY <1>2 DEF IndInv, JobsInv, Applied
  <1>4. /\ DOMAIN job = {"kind", "name", "template", "status", "deleting"}
        /\ job.template = cluster[key].template
        /\ job.status = "succeeded" => job.template \in built'
    BY <1>2, <1>3
  <1> HIDE DEF name, job
  <1> QED
    BY <1>2, <1>4, JobStays

\* The wait ends with a build of this very template, or the deploy fails.
LEMMA PollJobStep ==
    ASSUME IndInv, PollJob
    PROVE  IndInv'
  <1>1. /\ Deploying /\ Due = "job" /\ plan.waiting /\ AtJob
        /\ UNCHANGED <<cluster, built>>
        /\ \/ Fails
           \/ /\ Advance /\ Applied(JobKey)
              /\ cluster[JobKey].status = "succeeded"
    BY DEF PollJob, AtJob, Verdict
  <1>2. CASE Fails
    BY <1>1, <1>2, FailsStep
  <1>3. CASE Advance /\ Applied(JobKey) /\ cluster[JobKey].status = "succeeded"
    <2>1. DOMAIN plan = {"manifests", "skipped", "left", "waiting"}
      BY <1>1 DEF IndInv, PlanInv
    <2>2. plan'.manifests = plan.manifests /\ plan'.skipped = plan.skipped
      BY <1>3, <2>1 DEF Advance
    <2>3. plan.manifests.job.template \in built
      <3>1. cluster[JobKey].template = plan.manifests.job.template
        BY <1>1, <1>3 DEF IndInv, WaitInv
      <3>2. JobKey = <<"job", plan.manifests.job.name>>
        BY DEF JobKey, KeyOf
      <3>3. cluster[JobKey].template \in built
        BY <1>3, <3>2 DEF IndInv, JobsInv
      <3> QED
        BY <3>1, <3>3
    <2>4. IsDone("job")'
      BY <1>1, <2>2, <2>3 DEF IsDone
    <2>5. \A kind \in Kinds : IsDone(kind) => IsDone(kind)'
      BY <1>1, <2>2, DoneStays DEF Applied
    <2>6. PlanInv' /\ WaitInv'
      BY <1>1, <1>3, <2>4, <2>5, AdvanceStep DEF Kinds
    <2>7. KeysInv' /\ JobsInv' /\ ServerInv'
      BY <1>1 DEF IndInv, KeysInv, JobsInv, ServerInv, Applied
    <2> QED
      BY <2>6, <2>7 DEF IndInv
  <1> QED
    BY <1>1, <1>2, <1>3

\* The Job controller, in its own time.
LEMMA ClusterStep ==
    ASSUME IndInv, NEW key \in Jobs,
           JobSucceeds(key) \/ JobFails(key) \/ JobGoes(key)
    PROVE  IndInv'
  <1>1. PICK name : key = <<"job", name>>
    BY DEF Jobs, IndInv, KeysInv, LoneKeys
  <1>2. /\ key \in DOMAIN cluster
        /\ DOMAIN cluster[key] = {"kind", "name", "template", "status", "deleting"}
    BY <1>1 DEF Jobs, IndInv, JobsInv, Applied
  <1>3. CASE JobSucceeds(key)
    <2> DEFINE job == [cluster[key] EXCEPT !.status = "succeeded"]
    <2>1. /\ cluster' = [cluster EXCEPT ![key] = job]
          /\ built' = built \cup {cluster[key].template}
          /\ UNCHANGED <<plan, outcome>>
      BY <1>3 DEF JobSucceeds
    <2>2. /\ DOMAIN job = {"kind", "name", "template", "status", "deleting"}
          /\ job.template = cluster[key].template
          /\ job.template \in built'
      BY <1>2, <2>1
    <2> HIDE DEF job
    <2> QED
      BY <1>1, <1>2, <2>1, <2>2, JobStays
  <1>4. CASE JobFails(key)
    <2> DEFINE job == [cluster[key] EXCEPT !.status = "failed"]
    <2>1. /\ cluster' = [cluster EXCEPT ![key] = job]
          /\ UNCHANGED <<plan, outcome, built>>
      BY <1>4 DEF JobFails
    <2>2. /\ DOMAIN job = {"kind", "name", "template", "status", "deleting"}
          /\ job.template = cluster[key].template
          /\ job.status # "succeeded"
      BY <1>2
    <2> HIDE DEF job
    <2> QED
      BY <1>1, <1>2, <2>1, <2>2, JobStays
  <1>5. CASE JobGoes(key)
    <2>1. /\ cluster' = Without(cluster, key)
          /\ UNCHANGED <<plan, outcome, built>>
      BY <1>5 DEF JobGoes
    <2> QED
      BY <1>1, <1>2, <2>1, JobStays
  <1> QED
    BY <1>3, <1>4, <1>5

\* Every step of a deploy and of the cluster preserves the invariant.
LEMMA DeployStep == IndInv /\ [DeployNext]_<<vars, deployVars>> => IndInv'
  <1> SUFFICES ASSUME IndInv, [DeployNext]_<<vars, deployVars>> PROVE IndInv'
    OBVIOUS
  <1>1. CASE Author \/ EditTexts \/ EditOverlay \/ ReplaceSecrets \/ CronTick
             \/ UNCHANGED <<vars, deployVars>>
    <2>1. UNCHANGED <<cluster, plan, outcome, built>>
      BY <1>1 DEF Author, EditTexts, EditOverlay, ReplaceSecrets, CronTick,
                  deployVars
    <2> QED
      BY <2>1, QuietStep
  <1>2. ASSUME NEW skipInit, NEW probe, Start(skipInit, probe)
        PROVE  IndInv'
    BY <1>2, StartStep
  <1>3. CASE Apply
    BY <1>3, ApplyStep
  <1>4. CASE ApplyJob
    BY <1>4, ApplyJobStep
  <1>5. CASE ReplaceJob
    BY <1>5, ReplaceJobStep
  <1>6. CASE PollJob
    BY <1>6, PollJobStep
  <1>7. CASE Abandon
    BY <1>7, FailsStep DEF Abandon
  <1>8. ASSUME NEW key \in Jobs, JobSucceeds(key) \/ JobFails(key) \/ JobGoes(key)
        PROVE  IndInv'
    BY <1>8, ClusterStep
  <1> QED
    BY <1>1, <1>2, <1>3, <1>4, <1>5, <1>6, <1>7, <1>8 DEF DeployNext

LEMMA AlwaysInd == DeploySpec => []IndInv
  BY DeployInitially, DeployStep, PTL DEF DeploySpec

-----------------------------------------------------------------------------
(* Theorems.                                                               *)

\* docs/guides/kubernetes.md 100: when `datamk deploy` exits with 0, every
\* object stands as this deploy rendered it, though others of the cell were
\* there, and the build of this very template has finished, though its Job
\* may have been another's, or be gone.
THEOREM ExitZeroMeansApplied == DeploySpec => []DoneMeansApplied
  <1>1. IndInv => DoneMeansApplied
    <2> SUFFICES ASSUME IndInv, outcome = "done"
                 PROVE  /\ \A kind \in DOMAIN plan.manifests \ {"job"} :
                              LET manifest == plan.manifests[kind]
                              IN  manifest.kind # "none" =>
                                    /\ Applied(KeyOf(kind, manifest))
                                    /\ cluster[KeyOf(kind, manifest)]
                                         = ObjectOf(kind, manifest)
                        /\ plan.manifests.job.kind # "none" /\ ~plan.skipped
                             => plan.manifests.job.template \in built
      BY DEF DoneMeansApplied
    <2>1. plan.left = {}
      BY DEF IndInv, PlanInv, Deploying
    <2>2. \A kind \in Kinds : IsDone(kind)
      BY <2>1 DEF IndInv, PlanInv
    <2>3. DOMAIN plan.manifests = Kinds /\ "job" \in Kinds
      BY DEF IndInv, PlanInv, OfOneContent, Kinds
    <2> QED
      BY <2>2, <2>3 DEF IsDone
  <1> QED
    BY <1>1, AlwaysInd, PTL

-----------------------------------------------------------------------------
(* What a pod finds, beside the directory that was deployed.               *)

SidecarNames == {"sourceCheck", "descriptions", "catalog", "semantic",
                 "semanticCheck"}

\* A directory that has of another the same file and store, the records that
\* are of that file, and a profile that differs in its connections only, and
\* in those has none that the other has not.
Carries(e, d) ==
    /\ e.file = d.file /\ e.name = d.name
    /\ e.built = d.built /\ e.snapshots = d.snapshots
    /\ \A name \in SidecarNames :
          e.records[name] = IF Ships(d.records[name], d.file) THEN d.records[name]
                            ELSE None
    /\ \A field \in {"store", "cells", "principals", "storage", "catalog", "s3",
                     "gcs"} : e.profile[field] = d.profile[field]
    /\ \A name \in DOMAIN e.profile.connections :
          /\ name \in DOMAIN d.profile.connections
          /\ e.profile.connections[name] = d.profile.connections[name]

\* A path is looked up on the left first.
LEMMA Laid ==
    ASSUME NEW f, NEW g, NEW x
    PROVE  /\ x \in DOMAIN (f ++ g) <=> x \in DOMAIN f \/ x \in DOMAIN g
           /\ x \in DOMAIN f => (f ++ g)[x] = f[x]
           /\ x \notin DOMAIN f /\ x \in DOMAIN g => (f ++ g)[x] = g[x]
  BY DEF ++

\* A ConfigMap holds the records that are of its cell.yaml, as they are.
LEMMA SidecarsCarried ==
    ASSUME NEW digest, NEW cell, NEW recs, NEW pages, NEW name \in SidecarNames
    PROVE  Unpacked(Collect(digest, cell, recs, pages)).records[name]
             = IF Ships(recs[name], digest) THEN recs[name] ELSE None
  <1> DEFINE path == <<".cell", name>>
             shipped == {n \in ToSet(Sidecars) : Ships(recs[n], digest)}
             a == [p \in {<<"cell.yaml">>} |-> digest]
             sql == {<<"sql", t.table>> : t \in ToSet(Transforms(cell))}
             b == [p \in sql \cup DocPaths(cell) |-> pages]
             c == [p \in {<<".cell", n>> : n \in shipped} |-> recs[p[2]]]
             h == [p \in {<<".cell", "published">> :
                            pin \in {recs.published.kind} \ {"none"}} |->
                     recs.published]
             artifact == Collect(digest, cell, recs, pages)
  <1>1. artifact = ((a ++ b) ++ c) ++ h
    BY DEF Collect
  <1>2. path \notin DOMAIN a
    OBVIOUS
  <1>3. path \notin DOMAIN b
    <2>1. path \notin sql
      OBVIOUS
    <2>2. path \notin DocPaths(cell)
      BY DEF DocPaths
    <2> HIDE DEF sql
    <2> QED
      BY <2>1, <2>2
  <1>4. path \notin DOMAIN h
    BY DEF SidecarNames
  <1>5. name \in ToSet(Sidecars)
    <2>1. /\ DOMAIN Sidecars = 1..5
          /\ Sidecars[1] = "sourceCheck" /\ Sidecars[2] = "descriptions"
          /\ Sidecars[3] = "catalog" /\ Sidecars[4] = "semantic"
          /\ Sidecars[5] = "semanticCheck"
      BY DEF Sidecars
    <2>2. /\ Sidecars[1] \in ToSet(Sidecars) /\ Sidecars[2] \in ToSet(Sidecars)
          /\ Sidecars[3] \in ToSet(Sidecars) /\ Sidecars[4] \in ToSet(Sidecars)
          /\ Sidecars[5] \in ToSet(Sidecars)
      BY <2>1 DEF ToSet
    <2> QED
      BY <2>1, <2>2 DEF SidecarNames
  <1>6. path \in DOMAIN c <=> Ships(recs[name], digest)
    <2>1. name \in shipped <=> Ships(recs[name], digest)
      BY <1>5
    <2> HIDE DEF shipped
    <2> QED
      BY <2>1
  <1>7. path \in DOMAIN c => c[path] = recs[name]
    <2> HIDE DEF shipped
    <2> QED
      OBVIOUS
  <1> HIDE DEF a, b, c, h
  <1>8. /\ path \in DOMAIN artifact <=> Ships(recs[name], digest)
        /\ path \in DOMAIN artifact => artifact[path] = recs[name]
    <2> HIDE DEF path, artifact
    <2>1. path \notin DOMAIN (a ++ b)
      BY <1>2, <1>3, Laid
    <2>2. /\ path \in DOMAIN ((a ++ b) ++ c) <=> path \in DOMAIN c
          /\ path \in DOMAIN c => ((a ++ b) ++ c)[path] = c[path]
      BY <2>1, Laid
    <2>3. /\ path \in DOMAIN artifact <=> path \in DOMAIN ((a ++ b) ++ c)
          /\ path \in DOMAIN ((a ++ b) ++ c) => artifact[path] = ((a ++ b) ++ c)[path]
      BY <1>1, <1>4, Laid
    <2> QED
      BY <1>6, <1>7, <2>2, <2>3
  <1>9. \A art : Unpacked(art).records[name]
                   = IF path \in DOMAIN art THEN art[path] ELSE None
    BY DEF Unpacked, SidecarNames
  <1> HIDE DEF path
  <1> QED
    BY <1>8, <1>9

\* Where the elements of three joined sequences are.
Joins(s, a, b, c) ==
    /\ IsSeq(s) /\ Len(s) = Len(a) + Len(b) + Len(c)
    /\ \A n \in 1..Len(a) + Len(b) + Len(c) :
          s[n] = IF n <= Len(a) THEN a[n]
                 ELSE IF n <= Len(a) + Len(b) THEN b[n - Len(a)]
                 ELSE c[n - Len(a) - Len(b)]

\* Three sequences are joined one after the other.
LEMMA JoinedOfThree ==
    ASSUME NEW S, NEW a \in Seq(S), NEW b \in Seq(S), NEW c \in Seq(S)
    PROVE  Joins(a \o b \o c, a, b, c)
  <1>1. Len(a) \in Nat /\ Len(b) \in Nat /\ Len(c) \in Nat
    OBVIOUS
  <1> DEFINE f == a \o b
             s == f \o c
  <1>2. /\ f \in Seq(S) /\ Len(f) = Len(a) + Len(b)
        /\ \A n \in 1..Len(a) + Len(b) :
              f[n] = IF n <= Len(a) THEN a[n] ELSE b[n - Len(a)]
    OBVIOUS
  <1> HIDE DEF f
  <1>3. /\ s \in Seq(S) /\ Len(s) = Len(f) + Len(c)
        /\ \A n \in 1..Len(f) + Len(c) :
              s[n] = IF n <= Len(f) THEN f[n] ELSE c[n - Len(f)]
    <2>1. f \in Seq(S)
      BY <1>2
    <2> QED
      BY <2>1
  <1> HIDE DEF s
  <1>4. IsSeq(s) /\ Len(s) = Len(a) + Len(b) + Len(c)
    BY <1>2, <1>3 DEF IsSeq
  <1>5. ASSUME NEW n \in 1..Len(a) + Len(b) + Len(c)
        PROVE  s[n] = IF n <= Len(a) THEN a[n]
                      ELSE IF n <= Len(a) + Len(b) THEN b[n - Len(a)]
                      ELSE c[n - Len(a) - Len(b)]
    <2>1. s[n] = IF n <= Len(a) + Len(b) THEN f[n] ELSE c[n - (Len(a) + Len(b))]
      BY <1>2, <1>3
    <2>2. n - (Len(a) + Len(b)) = n - Len(a) - Len(b)
      BY <1>1
    <2>3. n <= Len(a) + Len(b) => f[n] = IF n <= Len(a) THEN a[n] ELSE b[n - Len(a)]
      BY <1>1, <1>2
    <2>4. n <= Len(a) => n <= Len(a) + Len(b)
      BY <1>1
    <2> QED
      BY <2>1, <2>2, <2>3, <2>4
  <1> QED
    BY <1>4, <1>5 DEF s, f, Joins

\* In a list of verdicts, some that were accepted may be exchanged for others.
LEMMA VerdictsExchanged ==
    ASSUME NEW S, NEW a \in Seq(S), NEW b \in Seq(S), NEW other \in Seq(S),
           NEW c \in Seq(S), Len(other) = Len(b),
           \A n \in 1..Len(b) : b[n] = Accepted => other[n] = Accepted,
           FirstRefusal(a \o b \o c) = Accepted
    PROVE  FirstRefusal(a \o other \o c) = Accepted
  <1> DEFINE list == a \o b \o c
             next == a \o other \o c
  <1>1. Len(a) \in Nat /\ Len(b) \in Nat /\ Len(c) \in Nat
    OBVIOUS
  <1>2. Joins(list, a, b, c) /\ Joins(next, a, other, c)
    BY JoinedOfThree
  <1> HIDE DEF list, next
  <1>3. /\ IsSeq(list) /\ Len(list) = Len(a) + Len(b) + Len(c)
        /\ \A n \in 1..Len(a) + Len(b) + Len(c) :
              list[n] = IF n <= Len(a) THEN a[n]
                        ELSE IF n <= Len(a) + Len(b) THEN b[n - Len(a)]
                        ELSE c[n - Len(a) - Len(b)]
    BY <1>2 DEF Joins
  <1>4. /\ IsSeq(next) /\ Len(next) = Len(a) + Len(b) + Len(c)
        /\ \A n \in 1..Len(a) + Len(b) + Len(c) :
              next[n] = IF n <= Len(a) THEN a[n]
                        ELSE IF n <= Len(a) + Len(b) THEN other[n - Len(a)]
                        ELSE c[n - Len(a) - Len(b)]
    BY <1>2 DEF Joins
  <1>5. \A n \in DOMAIN list : list[n] = Accepted
    BY <1>3, NoRefusal DEF list
  <1>6. ASSUME NEW n \in DOMAIN next PROVE next[n] = Accepted
    <2>1. n \in 1..Len(a) + Len(b) + Len(c) /\ list[n] = Accepted
      BY <1>3, <1>4, <1>5 DEF IsSeq
    <2>2. CASE n <= Len(a) \/ n > Len(a) + Len(b)
      <3>1. n <= Len(a) => list[n] = a[n] /\ next[n] = a[n]
        BY <1>3, <1>4, <2>1
      <3>2. n > Len(a) + Len(b) => ~(n <= Len(a)) /\ ~(n <= Len(a) + Len(b))
        BY <1>1, <2>1
      <3>3. n > Len(a) + Len(b) => list[n] = next[n]
        BY <1>3, <1>4, <2>1, <3>2
      <3> QED
        BY <2>1, <2>2, <3>1, <3>3
    <2>3. CASE n > Len(a) /\ n <= Len(a) + Len(b)
      <3>1. n - Len(a) \in 1..Len(b)
        BY <1>1, <2>1, <2>3
      <3>2. list[n] = b[n - Len(a)] /\ next[n] = other[n - Len(a)]
        BY <1>1, <1>3, <1>4, <2>1, <2>3
      <3> QED
        BY <2>1, <3>1, <3>2
    <2> QED
      BY <1>1, <2>1, <2>2, <2>3
  <1>7. FirstRefusal(next) = Accepted
    BY <1>4, <1>6, NoRefusal
  <1> QED
    BY <1>7 DEF next

\* A profile that is resolved is so with fewer connections as well.
LEMMA ResolvesWithFewer ==
    ASSUME NEW cell, IsFiniteSet(Range(cell.sources)), NEW d, NEW e,
           d.profile.store \in Seq(ToSet(d.profile.store)), Carries(e, d),
           ResolveRefusal(cell, d.profile) = Accepted
    PROVE  ResolveRefusal(cell, e.profile) = Accepted
  <1> DEFINE p == d.profile
             q == e.profile
             sources == SetToSeq(Range(cell.sources))
             A(x) == Verdicts(ExpandRefusal, x.store)
             B(x) == Verdicts(LAMBDA source : BindingRefusal(source, x), sources)
             C(x) == <<ExpandRefusal(x.principals), ExpandRefusal(x.storage),
                       ExpandRefusal(x.catalog)>>
  <1>1. sources \in Seq(Range(cell.sources))
    <2> DEFINE S == Range(cell.sources)
    <2>1. Cardinality(S) \in Nat /\ ExistsBijection(1..Cardinality(S), S)
      BY FS_CardinalityType
    <2>2. \E f \in [1..Cardinality(S) -> S] : IsInjective(f)
      BY <2>1 DEF ExistsBijection, Bijection, Injection
    <2>3. sources \in [1..Cardinality(S) -> S]
      BY <2>2 DEF SetToSeq
    <2> QED
      BY <2>1, <2>3
  <1>2. A(p) = A(q) /\ C(p) = C(q)
    BY DEF Carries
  <1>3. ASSUME NEW source, BindingRefusal(source, p) = Accepted
        PROVE  BindingRefusal(source, q) = Accepted
    BY <1>3 DEF BindingRefusal, Carries
  <1> HIDE DEF sources
  <1>4. /\ A(p) = [n \in DOMAIN p.store |-> ExpandRefusal(p.store[n])]
        /\ B(p) = [n \in DOMAIN sources |-> BindingRefusal(sources[n], p)]
        /\ B(q) = [n \in DOMAIN sources |-> BindingRefusal(sources[n], q)]
    BY DEF Verdicts
  <1> DEFINE a == A(p)
             b == B(p)
             other == B(q)
             c == C(p)
             S == {a[n] : n \in DOMAIN a} \cup {b[n] : n \in DOMAIN b}
                    \cup {other[n] : n \in DOMAIN other}
                    \cup {c[n] : n \in DOMAIN c}
  <1>5. /\ FirstRefusal(a \o b \o c) = Accepted
        /\ ResolveRefusal(cell, q) = FirstRefusal(a \o other \o c)
    BY <1>2 DEF ResolveRefusal, sources
  <1>6. /\ DOMAIN p.store = 1..Len(p.store) /\ Len(p.store) \in Nat
        /\ DOMAIN sources = 1..Len(sources) /\ Len(sources) \in Nat
    BY <1>1
  <1>7. /\ DOMAIN a = 1..Len(p.store)
        /\ DOMAIN b = 1..Len(sources) /\ DOMAIN other = 1..Len(sources)
        /\ DOMAIN c = 1..3
        /\ \A n \in 1..Len(sources) : b[n] = Accepted => other[n] = Accepted
        /\ a = [n \in DOMAIN a |-> a[n]] /\ b = [n \in DOMAIN b |-> b[n]]
        /\ other = [n \in DOMAIN other |-> other[n]] /\ c = [n \in DOMAIN c |-> c[n]]
    <2>1. /\ a = [n \in 1..Len(p.store) |-> ExpandRefusal(p.store[n])]
          /\ b = [n \in 1..Len(sources) |-> BindingRefusal(sources[n], p)]
          /\ other = [n \in 1..Len(sources) |-> BindingRefusal(sources[n], q)]
      BY <1>4, <1>6
    <2>2. DOMAIN c = 1..3 /\ c = [n \in DOMAIN c |-> c[n]]
      OBVIOUS
    <2> HIDE DEF A, B, C, a, b, other, c
    <2>3. \A n \in 1..Len(sources) : b[n] = Accepted => other[n] = Accepted
      BY <1>3, <2>1
    <2> QED
      BY <2>1, <2>2, <2>3
  <1> HIDE DEF a, b, other, c
  <1>8. /\ a \in Seq(S) /\ b \in Seq(S) /\ other \in Seq(S) /\ c \in Seq(S)
        /\ Len(b) = Len(sources) /\ Len(other) = Len(sources)
    <2>1. /\ a \in [1..Len(p.store) -> S]
          /\ b \in [1..Len(sources) -> S]
          /\ other \in [1..Len(sources) -> S]
          /\ c \in [1..3 -> S]
      BY <1>7
    <2> HIDE DEF S
    <2>2. Len(p.store) \in Nat /\ Len(sources) \in Nat /\ 3 \in Nat
      BY <1>6
    <2>3. \A m \in Nat : \A s \in [1..m -> S] : s \in Seq(S) /\ Len(s) = m
      OBVIOUS
    <2> QED
      BY <2>1, <2>2, <2>3
  <1> HIDE DEF S
  <1> QED
    BY <1>5, <1>7, <1>8, VerdictsExchanged

\* A Server of such a directory starts as it would in the other, and holds
\* the same.
LEMMA ServesTheSame ==
    ASSUME NEW d, NEW e, Carries(e, d), ConfigRefusalIn(d) = Accepted,
           d.profile.store \in Seq(ToSet(d.profile.store)),
           IsFiniteSet(Range(FileOf[d.file].cell.sources)),
           FileOf[d.file].cell.discover.on =>
              LET discover == FileOf[d.file].cell.discover
              IN  ~(/\ discover.warehouse \in DOMAIN d.profile.connections
                    /\ d.profile.connections[discover.warehouse].type = "bigquery")
    PROVE  ServeRefusalIn(e) = ServeRefusalIn(d) /\ MountIn(e, TRUE) = MountIn(d, TRUE)
  <1> DEFINE cell == FileOf[d.file].cell
  <1>1. /\ e.file = d.file /\ e.name = d.name
        /\ e.built = d.built /\ e.snapshots = d.snapshots
    BY DEF Carries
  <1>2. ASSUME NEW name \in SidecarNames
        PROVE  /\ Fresh(e.records[name], d.file, d.name)
                    <=> Fresh(d.records[name], d.file, d.name)
               /\ Fresh(d.records[name], d.file, d.name)
                    => e.records[name] = d.records[name]
    <2>1. e.records[name] = IF Ships(d.records[name], d.file) THEN d.records[name]
                            ELSE None
      BY DEF Carries
    <2>2. Fresh(d.records[name], d.file, d.name) => Ships(d.records[name], d.file)
      BY FreshMeans DEF Ships
    <2>3. ~Fresh(None, d.file, d.name)
      BY FreshMeans DEF None
    <2> QED
      BY <2>1, <2>2, <2>3
  <1>3. /\ LoadedInterface(cell, e.records.catalog, d.file, e.profile, d.name)
             = LoadedInterface(cell, d.records.catalog, d.file, d.profile, d.name)
        /\ LoadedRefusal(cell, e.records.catalog, d.file, d.name)
             = LoadedRefusal(cell, d.records.catalog, d.file, d.name)
    <2> DEFINE w == cell.discover.warehouse
               big(p) == w \in DOMAIN p.connections /\ p.connections[w].type = "bigquery"
               r == d.records.catalog
               s == e.records.catalog
    <2>1. /\ Fresh(s, d.file, d.name) <=> Fresh(r, d.file, d.name)
          /\ Fresh(r, d.file, d.name) => s = r
      BY <1>2 DEF SidecarNames
    <2>2. cell.discover.on => ~big(d.profile) /\ ~big(e.profile)
      BY DEF Carries
    <2>3. CASE cell.discover.on /\ Fresh(r, d.file, d.name)
      <3>1. big(d.profile) = FALSE /\ big(e.profile) = FALSE /\ s = r
        BY <2>1, <2>2, <2>3
      <3>2. /\ LoadedInterface(cell, s, d.file, e.profile, d.name)
                 = Materialized(cell, s.catalog, big(e.profile))
            /\ LoadedInterface(cell, r, d.file, d.profile, d.name)
                 = Materialized(cell, r.catalog, big(d.profile))
        <4> HIDE DEF cell, r, s
        <4> QED
          BY <2>1, <2>3 DEF LoadedInterface
      <3> HIDE DEF cell, r, s, big
      <3>3. LoadedInterface(cell, s, d.file, e.profile, d.name)
              = LoadedInterface(cell, r, d.file, d.profile, d.name)
        BY <3>1, <3>2
      <3> QED
        BY <3>1, <3>3 DEF r, s
    <2>4. CASE ~(cell.discover.on /\ Fresh(r, d.file, d.name))
      <3> HIDE DEF cell, r, s
      <3>1. /\ LoadedInterface(cell, s, d.file, e.profile, d.name) = cell
            /\ LoadedInterface(cell, r, d.file, d.profile, d.name) = cell
            /\ LoadedRefusal(cell, s, d.file, d.name) = Accepted
            /\ LoadedRefusal(cell, r, d.file, d.name) = Accepted
        BY <2>1, <2>4 DEF LoadedInterface, LoadedRefusal
      <3> QED
        BY <3>1 DEF r, s
    <2> QED
      BY <2>3, <2>4
  <1>4. ConfigRefusalIn(e) = Accepted
    <2> DEFINE r1 == LoadRefusal(cell)
               r2 == LoadedRefusal(cell, d.records.catalog, d.file, d.name)
               r3 == ResolveRefusal(cell, d.profile)
               s3 == ResolveRefusal(cell, e.profile)
               r4 == StaticRefusal(LoadedInterface(cell, d.records.catalog, d.file,
                                                   d.profile, d.name))
               list == <<r1, r2, r3, r4>>
               next == <<r1, r2, s3, r4>>
    <2>1. FirstRefusal(list) = Accepted /\ ConfigRefusalIn(e) = FirstRefusal(next)
      BY <1>1, <1>3 DEF ConfigRefusalIn
    <2>2. r3 = Accepted => s3 = Accepted
      BY ResolvesWithFewer
    <2> HIDE DEF r1, r2, r3, s3, r4
    <2>3. /\ IsSeq(list) /\ DOMAIN list = {1, 2, 3, 4}
          /\ list[1] = r1 /\ list[2] = r2 /\ list[3] = r3 /\ list[4] = r4
      BY DEF IsSeq
    <2>4. /\ IsSeq(next) /\ DOMAIN next = {1, 2, 3, 4}
          /\ next[1] = r1 /\ next[2] = r2 /\ next[3] = s3 /\ next[4] = r4
      BY DEF IsSeq
    <2> HIDE DEF list, next
    <2>5. r1 = Accepted /\ r2 = Accepted /\ r3 = Accepted /\ r4 = Accepted
      BY <2>1, <2>3, NoRefusal
    <2>6. \A n \in DOMAIN next : next[n] = Accepted
      BY <2>2, <2>4, <2>5
    <2> QED
      BY <2>1, <2>4, <2>6, NoRefusal
  <1>5. OpenRefusalIn(e) = OpenRefusalIn(d)
    <2>1. SessionRefusal(cell, e.profile) = SessionRefusal(cell, d.profile)
      <3>1. /\ e.profile.storage = d.profile.storage
            /\ e.profile.s3 = d.profile.s3 /\ e.profile.gcs = d.profile.gcs
        BY DEF Carries
      <3> QED
        BY <3>1 DEF SessionRefusal, SecretsNeeded
    <2> HIDE DEF cell
    <2> QED
      BY <1>1, <1>4, <2>1 DEF OpenRefusalIn, cell
  <1>6. (SemanticFreshIn(e) <=> SemanticFreshIn(d)) /\ ModelsIn(e) = ModelsIn(d)
    <2>1. e.records.semantic = IF Ships(d.records.semantic, d.file)
                               THEN d.records.semantic ELSE None
      BY DEF Carries, SidecarNames
    <2>2. SemanticFreshIn(e) <=> SemanticFreshIn(d)
      BY <1>1, <2>1 DEF SemanticFreshIn, Ships, None
    <2>3. SemanticFreshIn(d) => e.records.semantic = d.records.semantic
      BY <2>1 DEF SemanticFreshIn, Ships
    <2> QED
      BY <2>2, <2>3 DEF ModelsIn
  <1>7. ServeRefusalIn(e) = ServeRefusalIn(d)
    <2> DEFINE stale(x) == /\ cell.discover.on
                           /\ ~Fresh(x.records.catalog, d.file, d.name)
               semantic(x) == FileOf[d.file].semantic.kind # "none"
                                /\ ~SemanticFreshIn(x)
    <2>1. stale(e) = stale(d) /\ semantic(e) = semantic(d)
      <3>1. Fresh(e.records.catalog, d.file, d.name)
              <=> Fresh(d.records.catalog, d.file, d.name)
        BY <1>2 DEF SidecarNames
      <3> QED
        BY <1>6, <3>1
    <2>2. \A x \in {d, e} :
             ServeRefusalIn(x) = Then(OpenRefusalIn(x), FirstReason(<<
                 <<"serve: discovery", stale(x)>>,
                 <<"serve: semantic model", semantic(x)>> >>))
      BY <1>1 DEF ServeRefusalIn
    <2> HIDE DEF stale, semantic
    <2> QED
      BY <1>5, <2>1, <2>2
  <1>8. MountIn(e, TRUE) = MountIn(d, TRUE)
    <2>1. LoadedIn(e) = LoadedIn(d)
      BY <1>1, <1>3 DEF LoadedIn
    <2>2. DescribedIn(e) = DescribedIn(d)
      BY <1>1, <1>2 DEF DescribedIn, SidecarNames
    <2>3. FreshIn(e, e.records.sourceCheck) = FreshIn(d, d.records.sourceCheck)
      BY <1>1, <1>2 DEF FreshIn, SidecarNames
    <2>4. ExecutionIn(e) = ExecutionIn(d)
      <3>1. DirectAttach(e.profile) = DirectAttach(d.profile)
        BY DEF Carries, DirectAttach
      <3> QED
        BY <1>1, <3>1 DEF ExecutionIn
    <2>5. FreshIn(e, e.records.semanticCheck) = FreshIn(d, d.records.semanticCheck)
      BY <1>1, <1>2 DEF FreshIn, SidecarNames
    <2> QED
      BY <1>1, <1>6, <2>1, <2>2, <2>3, <2>4, <2>5 DEF MountIn
  <1> QED
    BY <1>7, <1>8

-----------------------------------------------------------------------------
(* The pod of the Server.                                                  *)

\* The pod that a deploy renders for a Server, under the profile deployed.
IsServer(pod) == pod.role = "server" /\ pod.profile = <<Deployed1, "server">>

\* What is rolled out, now or next, is a Server of the profile deployed; the
\* operator's Secrets are some that there are.
PodInv ==
    /\ secrets \in Secrets
    /\ outcome # "none" /\ plan.manifests.deployment.kind # "none" =>
          IsServer(plan.manifests.deployment.template)
    /\ Applied(<<"deployment">>) => IsServer(cluster[<<"deployment">>].template)

\* A Deployment is rendered for a Server.
LEMMA RendersServer ==
    Rendered.deployment.kind # "none" => IsServer(Rendered.deployment.template)
  <1> DEFINE artifact == Artifact
             checksum == SecretChecksum(SecretsOf[secrets], O, Access.roles)
             base == Pod("server", Deployed1, artifact, O, Access.roles # {})
             rest == [port |-> Port(O), poll |-> PollInterval(O),
                      checksum |-> checksum]
             deployment == Deployment(Deployed1, artifact, O, Access.roles, checksum)
  <1>1. Rendered.deployment = deployment
    BY DEF Rendered, Manifests
  <1>2. Serves(O) => deployment.template = base ++ rest
    BY DEF Deployment
  <1>3. ~Serves(O) => deployment.kind = "none"
    BY DEF Deployment, None
  <1>4. /\ "role" \in DOMAIN base /\ base["role"] = "server"
        /\ "profile" \in DOMAIN base /\ base["profile"] = <<Deployed1, "server">>
    BY DEF Pod
  <1> HIDE DEF base, rest, deployment
  <1>5. (base ++ rest)["role"] = "server"
        /\ (base ++ rest)["profile"] = <<Deployed1, "server">>
    BY <1>4, Laid
  <1> QED
    BY <1>1, <1>2, <1>3, <1>5 DEF IsServer

\* The Server's pod changes when a deploy rolls it out, and only then.
LEMMA PodStays ==
    ASSUME PodInv, secrets' \in Secrets,
           \/ UNCHANGED outcome
           \/ outcome' # "none" /\ outcome # "none",
           plan'.manifests = plan.manifests,
           Applied(<<"deployment">>)' =>
              IF Applied(<<"deployment">>)
              THEN cluster'[<<"deployment">>] = cluster[<<"deployment">>]
              ELSE IsServer(cluster'[<<"deployment">>].template)
    PROVE  PodInv'
  BY DEF PodInv, IsServer

\* Before a deploy there are no objects.
LEMMA PodInit == DeployInit => PodInv
  BY DeployAssumption DEF DeployInit, PodInv, Applied

\* An object is rolled out as a Server only when it was rendered as one.
LEMMA PodApplied ==
    ASSUME IndInv, PodInv, Apply
    PROVE  PodInv'
  <1> DEFINE kind == Due
             manifest == plan.manifests[kind]
             key == KeyOf(kind, manifest)
             object == ObjectOf(kind, manifest)
  <1>1. /\ Deploying /\ kind # "job" /\ UNCHANGED secrets
        /\ IF Immutable(kind, manifest)
           THEN Fails /\ UNCHANGED cluster
           ELSE cluster' = PatchedInto(cluster, key, object) /\ Advance
    BY DEF Apply, Outside2
  <1>2. /\ outcome = "running" /\ kind \in plan.left /\ kind \in Kinds
        /\ manifest.kind # "none"
        /\ DOMAIN plan = {"manifests", "skipped", "left", "waiting"}
        /\ OfOneContent(plan.manifests)
    BY <1>1, DueIsEarliest DEF Deploying, IndInv, PlanInv
  <1>3. outcome' # "none" /\ plan'.manifests = plan.manifests
    <2> HIDE DEF kind, key, object
    <2> QED
      BY <1>1, <1>2 DEF Fails, Advance
  <1>4. CASE Immutable(kind, manifest)
    <2> HIDE DEF kind, key, object
    <2> QED
      BY <1>1, <1>2, <1>3, <1>4, PodStays DEF PodInv, Applied
  <1>5. CASE ~Immutable(kind, manifest)
    <2>1. /\ DOMAIN cluster' = DOMAIN cluster \cup {key}
          /\ cluster'[key] = object
          /\ \A other \in DOMAIN cluster \ {key} : cluster'[other] = cluster[other]
      <3> HIDE DEF key, object
      <3> QED
        BY <1>1, <1>5, PatchKeeps
    <2>2. CASE kind = "deployment"
      <3>1. key = <<"deployment">>
        BY <2>2 DEF KeyOf
      <3>2. object = plan.manifests.deployment ++ [skipped |-> plan.skipped]
        BY <2>2 DEF ObjectOf
      <3>3. "template" \in DOMAIN plan.manifests.deployment
        BY <1>2, <2>2 DEF OfOneContent
      <3>4. object["template"] = plan.manifests.deployment["template"]
        BY <3>2, <3>3, Laid
      <3>5. IsServer(plan.manifests.deployment.template)
        BY <1>2, <2>2 DEF PodInv
      <3> HIDE DEF kind, key, object
      <3>6. IsServer(cluster'[<<"deployment">>].template)
        BY <2>1, <3>1, <3>4, <3>5
      <3> QED
        BY <1>1, <1>2, <1>3, <3>6 DEF PodInv, Applied, IsServer
    <2>3. CASE kind # "deployment"
      <3>1. key # <<"deployment">>
        BY <1>2, <2>3 DEF KeyOf, Kinds
      <3> HIDE DEF kind, key, object
      <3>2. Applied(<<"deployment">>)' =>
              /\ Applied(<<"deployment">>)
              /\ cluster'[<<"deployment">>] = cluster[<<"deployment">>]
        BY <2>1, <3>1 DEF Applied
      <3> QED
        BY <1>1, <1>2, <1>3, <3>2, PodStays DEF PodInv
    <2> QED
      BY <2>2, <2>3
  <1> QED
    BY <1>4, <1>5

\* Nothing that becomes of a Job is of consequence to the Server's pod.
LEMMA PodBesideJobs ==
    ASSUME PodInv, UNCHANGED <<secrets, plan, outcome>>, NEW name,
           \A key : key # <<"job", name>> =>
              /\ key \in DOMAIN cluster' => key \in DOMAIN cluster
              /\ key \in DOMAIN cluster' => cluster'[key] = cluster[key]
    PROVE  PodInv'
  <1>1. <<"deployment">> # <<"job", name>>
    OBVIOUS
  <1> QED
    BY <1>1, PodStays DEF PodInv, Applied

\* The Server and the init Job are rendered of one plan, and applied in turn.
LEMMA PodStep ==
    IndInv /\ PodInv /\ [DeployNext]_<<vars, deployVars>> => PodInv'
  <1> SUFFICES ASSUME IndInv, PodInv, [DeployNext]_<<vars, deployVars>>
               PROVE  PodInv'
    OBVIOUS
  <1>1. CASE Author \/ EditTexts \/ EditOverlay \/ ReplaceSecrets \/ CronTick
             \/ UNCHANGED <<vars, deployVars>>
    <2>1. UNCHANGED <<cluster, plan, outcome>> /\ secrets' \in Secrets
      BY <1>1 DEF Author, EditTexts, EditOverlay, ReplaceSecrets, CronTick,
                  deployVars, Outside2, PodInv
    <2> QED
      BY <2>1, PodStays DEF Applied
  <1>2. ASSUME NEW skipInit, NEW probe, Start(skipInit, probe)
        PROVE  PodInv'
    <2>1. /\ UNCHANGED <<cluster, secrets>> /\ plan'.manifests = Rendered
      BY <1>2 DEF Start, Outside2
    <2> QED
      BY <2>1, RendersServer DEF PodInv, Applied, IsServer
  <1>3. CASE Apply
    BY <1>3, PodApplied
  <1>4. CASE ApplyJob \/ ReplaceJob
    <2> DEFINE name == plan.manifests.job.name
    <2>1. JobKey = <<"job", name>>
      BY DEF JobKey, KeyOf
    <2>2. UNCHANGED <<secrets, outcome>>
      BY <1>4 DEF ApplyJob, ReplaceJob, Outside2
    <2>3. plan'.manifests = plan.manifests
      <3>1. outcome = "running" /\ "manifests" \in DOMAIN plan
        BY <1>4 DEF ApplyJob, ReplaceJob, AtJob, IndInv, PlanInv
      <3> QED
        BY <1>4, <3>1 DEF ApplyJob, ReplaceJob
    <2>4. \A key : key # JobKey =>
            /\ key \in DOMAIN cluster' <=> key \in DOMAIN cluster
            /\ key \in DOMAIN cluster' => cluster'[key] = cluster[key]
      <3>1. CASE ReplaceJob
        <4> HIDE DEF JobKey
        <4> QED
          BY <3>1 DEF ReplaceJob
      <3>2. CASE ApplyJob
        BY <3>2, PatchKeeps DEF ApplyJob
      <3> QED
        BY <1>4, <3>1, <3>2
    <2>5. <<"deployment">> # JobKey
      BY <2>1
    <2> QED
      BY <2>2, <2>3, <2>4, <2>5, PodStays DEF PodInv, Applied
  <1>5. CASE PollJob \/ Abandon
    <2>1. /\ outcome = "running"
          /\ DOMAIN plan = {"manifests", "skipped", "left", "waiting"}
      BY <1>5 DEF PollJob, Abandon, AtJob, IndInv, PlanInv
    <2>2. UNCHANGED <<secrets, cluster>> /\ (Fails \/ Advance)
      BY <1>5 DEF PollJob, Abandon, Outside2
    <2>3. outcome' # "none" /\ plan'.manifests = plan.manifests
      BY <2>1, <2>2 DEF Fails, Advance
    <2> QED
      BY <2>1, <2>2, <2>3, PodStays DEF PodInv, Applied
  <1>6. ASSUME NEW key \in Jobs, JobSucceeds(key) \/ JobFails(key) \/ JobGoes(key)
        PROVE  PodInv'
    <2>1. PICK name : key = <<"job", name>>
      BY DEF Jobs, IndInv, KeysInv, LoneKeys
    <2>2. UNCHANGED <<secrets, plan, outcome>>
      BY <1>6 DEF JobSucceeds, JobFails, JobGoes, Outside2
    <2>3. \A other : other # key =>
            /\ other \in DOMAIN cluster' => other \in DOMAIN cluster
            /\ other \in DOMAIN cluster' => cluster'[other] = cluster[other]
      BY <1>6 DEF JobSucceeds, JobFails, JobGoes, Without, Jobs
    <2> QED
      BY <2>1, <2>2, <2>3, PodBesideJobs
  <1> QED
    BY <1>1, <1>2, <1>3, <1>4, <1>5, <1>6 DEF DeployNext

-----------------------------------------------------------------------------
(* The store of the Server.                                                *)

\* The Job that is applied, now or next, builds the tables of the profile
\* deployed, and so has every one that has succeeded.
JobPodsInv ==
    /\ outcome # "none" /\ plan.manifests.job.kind # "none" =>
          plan.manifests.job.template.profile[1] = Deployed1
    /\ \A name : Applied(<<"job", name>>) =>
          cluster[<<"job", name>>].template.profile[1] = Deployed1

SnapshotsInv ==
    /\ Deployed1 \in DOMAIN lake
    /\ lake[Deployed1].snapshots \in Nat
    /\ built # {} => lake[Deployed1].snapshots > 0

\* A Job is rendered for the profile deployed.
LEMMA RendersJob ==
    Rendered.job.kind # "none" => Rendered.job.template.profile[1] = Deployed1
  <1> DEFINE artifact == Artifact
             none == BuildsNoSnapshot(Cell0)
             base == Pod("builder", Deployed1, artifact, O, FALSE)
             rest == [retention |-> RetentionDays(O)]
             job == InitJob(Deployed1, artifact, O, none)
  <1>1. Rendered.job = job
    BY DEF Rendered, Manifests, AllBound
  <1>2. job.kind # "none" => job.template = base ++ rest
    <2> HIDE DEF none, rest, base
    <2> QED
      BY DEF InitJob, None, BuilderPod, rest, base
  <1>3. "profile" \in DOMAIN base /\ base["profile"] = <<Deployed1, "builder">>
    BY DEF Pod
  <1> HIDE DEF base, rest, job
  <1>4. (base ++ rest)["profile"] = <<Deployed1, "builder">>
    BY <1>3, Laid
  <1> QED
    BY <1>1, <1>2, <1>4

\* A build of a profile leaves one snapshot more, and the others alone.
LEMMA BuildsGrow ==
    ASSUME SnapshotsInv, NEW template, PodBuilds(template)
    PROVE  /\ Deployed1 \in DOMAIN lake' /\ lake'[Deployed1].snapshots \in Nat
           /\ lake'[Deployed1].snapshots >= lake[Deployed1].snapshots
           /\ template.profile[1] = Deployed1 => lake'[Deployed1].snapshots > 0
  <1> DEFINE p == template.profile[1]
  <1>1. /\ DOMAIN lake' = DOMAIN lake
        /\ p # Deployed1 => lake'[Deployed1] = lake[Deployed1]
        /\ p = Deployed1 =>
              lake'[Deployed1].snapshots = lake[Deployed1].snapshots + 1
    <2>1. lake' = [lake EXCEPT ![p] = [built |-> world,
                                       snapshots |-> lake[p].snapshots + 1]]
      BY DEF PodBuilds
    <2> HIDE DEF p
    <2> QED
      BY <2>1 DEF SnapshotsInv
  <1> HIDE DEF p
  <1> QED
    BY <1>1 DEF SnapshotsInv, p

\* What becomes of the other objects is of no consequence to the Jobs.
LEMMA JobPodsStay ==
    ASSUME JobPodsInv,
           UNCHANGED outcome \/ (outcome' # "none" /\ outcome # "none"),
           plan'.manifests = plan.manifests,
           \A name : <<"job", name>> \in DOMAIN cluster' =>
              /\ <<"job", name>> \in DOMAIN cluster
              /\ cluster'[<<"job", name>>].template
                   = cluster[<<"job", name>>].template
    PROVE  JobPodsInv'
  BY DEF JobPodsInv, Applied

LEMMA JobPodsInit == DeployInit => JobPodsInv /\ SnapshotsInv
  <1> SUFFICES ASSUME DeployInit PROVE JobPodsInv /\ SnapshotsInv
    OBVIOUS
  <1>1. cluster = <<>>
    BY DEF DeployInit
  <1>2. DOMAIN cluster = {}
    BY <1>1
  <1>3. /\ outcome = "none" /\ built = {}
        /\ lake = [p \in DOMAIN Profiles |-> [built |-> "", snapshots |-> 0]]
    BY DEF DeployInit, Init
  <1> QED
    BY <1>2, <1>3, DeployAssumption DEF JobPodsInv, SnapshotsInv, Applied

\* Every Job stays one of the profile deployed.
LEMMA JobPodsStep ==
    IndInv /\ JobPodsInv /\ [DeployNext]_<<vars, deployVars>> => JobPodsInv'
  <1> SUFFICES ASSUME IndInv, JobPodsInv, [DeployNext]_<<vars, deployVars>>
               PROVE  JobPodsInv'
    OBVIOUS
  <1>1. CASE Author \/ EditTexts \/ EditOverlay \/ ReplaceSecrets \/ CronTick
             \/ UNCHANGED <<vars, deployVars>>
    <2>1. UNCHANGED <<cluster, plan, outcome>>
      BY <1>1 DEF Author, EditTexts, EditOverlay, ReplaceSecrets, CronTick,
                  deployVars
    <2> QED
      BY <2>1, JobPodsStay
  <1>2. ASSUME NEW skipInit, NEW probe, Start(skipInit, probe)
        PROVE  JobPodsInv'
    <2>1. UNCHANGED cluster /\ plan'.manifests = Rendered
      BY <1>2 DEF Start
    <2> QED
      BY <2>1, RendersJob DEF JobPodsInv, Applied
  <1>3. CASE Apply \/ PollJob \/ Abandon
    <2> DEFINE key == KeyOf(Due, plan.manifests[Due])
               object == ObjectOf(Due, plan.manifests[Due])
    <2>1. /\ outcome = "running" /\ Due \in Kinds
          /\ DOMAIN plan = {"manifests", "skipped", "left", "waiting"}
      <3>1. Deploying
        BY <1>3 DEF Apply, PollJob, Abandon, AtJob
      <3> QED
        BY <3>1, DueIsEarliest DEF Deploying, IndInv, PlanInv
    <2>2. /\ Fails \/ Advance
          /\ \/ UNCHANGED cluster
             \/ Due # "job" /\ cluster' = PatchedInto(cluster, key, object)
      <3> HIDE DEF Fails, Advance
      <3> QED
        BY <1>3 DEF Apply, PollJob, Abandon
    <2>3. outcome' # "none" /\ plan'.manifests = plan.manifests
      BY <2>1, <2>2 DEF Fails, Advance
    <2>4. CASE UNCHANGED cluster
      BY <2>1, <2>3, <2>4, JobPodsStay
    <2>5. CASE Due # "job" /\ cluster' = PatchedInto(cluster, key, object)
      <3>1. \A name : key # <<"job", name>>
        BY <2>1, <2>5 DEF KeyOf, Kinds
      <3> HIDE DEF key, object
      <3>2. /\ DOMAIN cluster' = DOMAIN cluster \cup {key}
            /\ \A other \in DOMAIN cluster \ {key} :
                  cluster'[other] = cluster[other]
        BY <2>5, PatchKeeps
      <3> QED
        BY <2>1, <2>3, <3>1, <3>2, JobPodsStay
    <2> QED
      BY <2>2, <2>4, <2>5
  <1>4. CASE ApplyJob
    <2> DEFINE job == plan.manifests.job
    <2>1. /\ Due = "job" /\ outcome = "running" /\ job.kind # "none"
          /\ DOMAIN plan = {"manifests", "skipped", "left", "waiting"}
          /\ DOMAIN job = {"kind", "name", "template"}
      <3>1. Deploying /\ Due = "job"
        BY <1>4 DEF ApplyJob, AtJob
      <3>2. "job" \in plan.left
        BY <3>1, DueIsEarliest DEF Deploying, IndInv, PlanInv
      <3> QED
        BY <3>1, <3>2 DEF IndInv, PlanInv, OfOneContent
    <2>2. job.template.profile[1] = Deployed1
      BY <2>1 DEF JobPodsInv
    <2>3. plan'.manifests = plan.manifests /\ UNCHANGED outcome
      BY <1>4, <2>1 DEF ApplyJob
    <2>4. NewJob(job)["template"] = job["template"]
      BY <2>1 DEF NewJob, ++
    <2>5. CASE UNCHANGED cluster
      BY <2>3, <2>5, JobPodsStay
    <2>6. CASE cluster' = PatchedInto(cluster, JobKey, NewJob(job))
      <3> HIDE DEF job
      <3>1. /\ DOMAIN cluster' = DOMAIN cluster \cup {JobKey}
            /\ cluster'[JobKey] = NewJob(job)
            /\ \A other \in DOMAIN cluster \ {JobKey} :
                  cluster'[other] = cluster[other]
        <4> HIDE DEF JobKey
        <4> QED
          BY <2>6, PatchKeeps
      <3>2. ASSUME NEW name, <<"job", name>> \in DOMAIN cluster'
            PROVE  cluster'[<<"job", name>>].template.profile[1] = Deployed1
        <4>1. CASE <<"job", name>> = JobKey
          BY <2>2, <2>4, <3>1, <4>1
        <4>2. CASE <<"job", name>> # JobKey
          BY <3>1, <3>2, <4>2 DEF JobPodsInv, Applied
        <4> QED
          BY <4>1, <4>2
      <3> QED
        BY <2>1, <2>3, <3>2 DEF JobPodsInv, Applied
    <2> QED
      BY <1>4, <2>5, <2>6 DEF ApplyJob
  <1>5. CASE ReplaceJob
    <2>1. /\ JobKey \in DOMAIN cluster /\ JobKey = <<"job", plan.manifests.job.name>>
          /\ cluster' = [cluster EXCEPT ![JobKey].deleting = TRUE]
          /\ UNCHANGED <<plan, outcome>>
      BY <1>5 DEF ReplaceJob, Replaces, Immutable, Applied, JobKey, KeyOf
    <2>2. DOMAIN cluster[JobKey] =
            {"kind", "name", "template", "status", "deleting"}
      BY <2>1 DEF IndInv, JobsInv, Applied
    <2> DEFINE job == [cluster[JobKey] EXCEPT !.deleting = TRUE]
    <2>3. job.template = cluster[JobKey].template
      BY <2>2
    <2>4. cluster' = [cluster EXCEPT ![JobKey] = job]
      BY <2>1
    <2> HIDE DEF job
    <2>5. \A key \in DOMAIN cluster' :
             key \in DOMAIN cluster /\ cluster'[key].template = cluster[key].template
      BY <2>1, <2>3, <2>4
    <2> QED
      BY <2>1, <2>5, JobPodsStay
  <1>6. ASSUME NEW key \in Jobs, JobSucceeds(key) \/ JobFails(key) \/ JobGoes(key)
        PROVE  JobPodsInv'
    <2>1. PICK name : key = <<"job", name>>
      BY DEF Jobs, IndInv, KeysInv, LoneKeys
    <2>2. DOMAIN cluster[key] = {"kind", "name", "template", "status", "deleting"}
      BY <2>1 DEF Jobs, IndInv, JobsInv, Applied
    <2>3. /\ UNCHANGED <<plan, outcome>>
          /\ \/ cluster' = [cluster EXCEPT ![key].status = "succeeded"]
             \/ cluster' = [cluster EXCEPT ![key].status = "failed"]
             \/ cluster' = Without(cluster, key)
      BY <1>6 DEF JobSucceeds, JobFails, JobGoes
    <2>4. \A other \in DOMAIN cluster' :
             /\ other \in DOMAIN cluster
             /\ cluster'[other].template = cluster[other].template
      <3>1. CASE cluster' = Without(cluster, key)
        BY <3>1 DEF Without
      <3>2. ASSUME NEW status, cluster' = [cluster EXCEPT ![key].status = status]
            PROVE  \A other \in DOMAIN cluster' :
                     /\ other \in DOMAIN cluster
                     /\ cluster'[other].template = cluster[other].template
        BY <2>2, <3>2 DEF Jobs
      <3> QED
        BY <2>3, <3>1, <3>2
    <2> QED
      BY <2>3, <2>4, JobPodsStay
  <1> QED
    BY <1>1, <1>2, <1>3, <1>4, <1>5, <1>6 DEF DeployNext

\* The snapshots of a profile never become fewer, and a Job that succeeds
\* adds one.
LEMMA LakeStep ==
    IndInv /\ JobPodsInv /\ SnapshotsInv /\ [DeployNext]_<<vars, deployVars>> => SnapshotsInv'
  <1> SUFFICES ASSUME IndInv, JobPodsInv, SnapshotsInv,
                      [DeployNext]_<<vars, deployVars>>
               PROVE  SnapshotsInv'
    OBVIOUS
  <1>1. CASE UNCHANGED <<lake, built>>
    BY <1>1 DEF SnapshotsInv
  <1>2. CASE CronTick
    <2>1. PodBuilds(cluster[<<"cronjob">>].template) /\ UNCHANGED built
      BY <1>2 DEF CronTick
    <2> QED
      BY <2>1, BuildsGrow DEF SnapshotsInv
  <1>3. ASSUME NEW key \in Jobs, JobSucceeds(key)
        PROVE  SnapshotsInv'
    <2>1. PICK name : key = <<"job", name>> /\ key \in DOMAIN cluster
      BY DEF Jobs, IndInv, KeysInv, LoneKeys
    <2>2. cluster[key].template.profile[1] = Deployed1
      BY <2>1 DEF JobPodsInv, Applied
    <2>3. PodBuilds(cluster[key].template)
      BY <1>3 DEF JobSucceeds
    <2> QED
      BY <2>2, <2>3, BuildsGrow DEF SnapshotsInv
  <1>4. ASSUME NEW key \in Jobs, JobFails(key) \/ JobGoes(key)
        PROVE  UNCHANGED <<lake, built>>
    BY <1>4 DEF JobFails, JobGoes
  <1>5. CASE Author
    BY <1>5, <1>1 DEF Author, deployVars, Edit, SyncSemantic, SyncDiscover, Verify,
        WriteSemanticCheck, WriteSourceCheck, WriteDescriptions, Stop, ReleaseNow
  <1>6. ASSUME NEW skipInit, NEW probe, Start(skipInit, probe)
        PROVE  UNCHANGED <<lake, built>>
    BY <1>6 DEF Start
  <1>7. CASE EditTexts \/ EditOverlay \/ ReplaceSecrets \/ Apply \/ ApplyJob
             \/ ReplaceJob \/ PollJob \/ Abandon \/ UNCHANGED <<vars, deployVars>>
    BY <1>7, <1>1 DEF EditTexts, EditOverlay, ReplaceSecrets, Apply, ApplyJob,
        ReplaceJob, PollJob, Abandon, vars, deployVars
  <1> QED
    BY <1>1, <1>2, <1>3, <1>4, <1>5, <1>6, <1>7 DEF DeployNext

\* apply.rs 36-42: the Server never starts against a catalog that nothing has
\* initialised. Whichever deploys were killed, timed out, failed or went
\* before, and whatever became of their Jobs, its store holds a snapshot and a
\* Job of its own content and image has succeeded over it, unless there is
\* nothing to build or the operator skipped the build. It does not follow that
\* the store still holds what that Job left, see DeployVComplete.
THEOREM ServerIsNeverUninitialised == DeploySpec => []ServerHasBeenBuilt
  <1>1. IndInv /\ PodInv /\ SnapshotsInv => ServerHasBeenBuilt
    <2> SUFFICES ASSUME IndInv, PodInv, SnapshotsInv, Applied(<<"deployment">>)
                 PROVE  LET pod == cluster[<<"deployment">>].template
                            cell == FileOf[Unpacked(cluster[<<"configmap", pod.config>>].data).file].cell
                        IN  \/ BuildsNoSnapshot(cell)
                            \/ cluster[<<"deployment">>].skipped
                            \/ /\ lake[pod.profile[1]].snapshots > 0
                               /\ Covers(built, pod)
      BY DEF ServerHasBeenBuilt, Covers
    <2> DEFINE pod == cluster[<<"deployment">>].template
    <2>1. \A content : Unpacked(content).file = content[<<"cell.yaml">>]
      BY DEF Unpacked
    <2>2. pod.profile[1] = Deployed1
      <3>1. pod.profile = <<Deployed1, "server">>
        BY DEF PodInv, IsServer
      <3> HIDE DEF pod
      <3> QED
        BY <3>1
    <2>3. Covers(built, pod) => lake[pod.profile[1]].snapshots > 0
      BY <2>2 DEF Covers, SnapshotsInv
    <2> QED
      BY <2>1, <2>3 DEF IndInv, ServerInv, CellOf
  <1>2. DeploySpec => [](IndInv /\ PodInv)
    BY DeployInitially, DeployStep, PodInit, PodStep, PTL DEF DeploySpec
  <1>3. DeploySpec => []SnapshotsInv
    BY DeployInitially, DeployStep, JobPodsInit, JobPodsStep, LakeStep, PTL
    DEF DeploySpec
  <1> QED
    BY <1>1, <1>2, <1>3, PTL

-----------------------------------------------------------------------------
(* The Server and the directory.                                           *)

FileInv == file \in Files

\* The first cell.yaml is one of those considered.
LEMMA FileInit == DeployInit => FileInv
  BY FilesAssumption DEF DeployInit, Init, FileInv

\* Only an edit changes cell.yaml.
LEMMA FileStep ==
    FileInv /\ [DeployNext]_<<vars, deployVars>> => FileInv'
  <1> SUFFICES ASSUME file \in Files, [DeployNext]_<<vars, deployVars>>
               PROVE  file' \in Files
    BY DEF FileInv
  <1>1. CASE Author
    <2>1. CASE Edit
      BY <2>1, FilesAssumption DEF Edit
    <2>2. CASE ~Edit
      <3>1. UNCHANGED file
        BY <1>1, <2>2
        DEF Author, SyncSemantic, SyncDiscover, Verify, WriteSemanticCheck,
            WriteSourceCheck, WriteDescriptions, Stop, ReleaseNow
      <3> QED
        BY <3>1
    <2> QED
      BY <2>1, <2>2
  <1>2. CASE EditTexts \/ EditOverlay \/ ReplaceSecrets \/ CronTick
             \/ UNCHANGED <<vars, deployVars>>
    BY <1>2 DEF EditTexts, EditOverlay, ReplaceSecrets, CronTick, vars, Outside2
  <1>3. ASSUME NEW skipInit, NEW probe, Start(skipInit, probe)
        PROVE  file' \in Files
    BY <1>3 DEF Start, Outside2
  <1>4. CASE Apply \/ ApplyJob \/ ReplaceJob \/ PollJob \/ Abandon
    BY <1>4 DEF Apply, ApplyJob, ReplaceJob, PollJob, Abandon, Outside2
  <1>5. ASSUME NEW key \in Jobs, JobSucceeds(key) \/ JobFails(key) \/ JobGoes(key)
        PROVE  file' \in Files
    BY <1>5 DEF JobSucceeds, JobFails, JobGoes, Outside2
  <1> QED
    BY <1>1, <1>2, <1>3, <1>4, <1>5 DEF DeployNext

\* No Secret of a Server has a connection that the profile has not. A deploy
\* asks for one that has none (preflight.rs); what is put there after it,
\* nobody checks.
ReducedSecrets ==
    \A content \in Secrets :
        LET given == SecretsOf[content].server.connections
            mine == Profiles[Deployed1].connections
        IN  \A name \in DOMAIN given :
                name \in DOMAIN mine /\ given[name] = mine[name]

\* The artifact carries all that the Server shows: while the directory is as
\* it was deployed, a Server starts in the cluster as it would in the
\* directory, and shows the same under the same ETags, though it has neither
\* the connections nor the records that are of another cell.yaml.
THEOREM DeployedShowsTheDirectory ==
    ReducedSecrets => (DeploySpec => []DeployedShowsWhatTheDirectoryShows)
  <1> SUFFICES ASSUME ReducedSecrets
               PROVE  DeploySpec => []DeployedShowsWhatTheDirectoryShows
    OBVIOUS
  <1>1. ASSUME IndInv, PodInv, FileInv
        PROVE  DeployedShowsWhatTheDirectoryShows
    <2> SUFFICES ASSUME SameAsHere, ~OnBigQuery PROVE ShowsTheSame
      BY DEF DeployedShowsWhatTheDirectoryShows
    <2> DEFINE template == cluster[<<"deployment">>].template
               e == PodDirectory(template)
               given == SecretsOf[secrets].server.connections
    <2>1. /\ Applied(<<"deployment">>) /\ ConfigRefusalIn(D) = Accepted
          /\ IsServer(template)
      BY <1>1 DEF SameAsHere, PodInv
    <2>2. cluster[<<"configmap", template.config>>].data = Artifact
      BY DEF SameAsHere
    <2>3. /\ Unpacked(Artifact).file = file
          /\ \A name \in SidecarNames :
                Unpacked(Artifact).records[name]
                  = IF Ships(records[name], file) THEN records[name] ELSE None
      BY ContentOf, SidecarsCarried DEF Unpacked, Artifact
    <2>4. /\ D.file = file /\ D.records = records /\ D.name = Deployed1
          /\ D.profile = Profiles[Deployed1]
          /\ D.built = lake[Deployed1].built
          /\ D.snapshots = lake[Deployed1].snapshots
      BY DEF D, Here
    <2>5. template.profile[1] = Deployed1 /\ template.role = "server"
      BY <2>1 DEF IsServer
    <2>6. /\ e.file = file /\ e.records = Unpacked(Artifact).records
          /\ e.name = Deployed1
          /\ e.profile = [Profiles[Deployed1] EXCEPT !.connections = given]
          /\ e.built = lake[Deployed1].built
          /\ e.snapshots = lake[Deployed1].snapshots
      BY <2>2, <2>3, <2>5 DEF PodDirectory
    <2>7. Carries(e, D)
      <3>1. /\ {"store", "connections", "cells", "principals", "storage",
                "catalog", "s3", "gcs"} \subseteq DOMAIN Profiles[Deployed1]
        BY ProfilesAssumption, DeployAssumption
      <3>2. /\ e.profile.connections = given
            /\ \A field \in {"store", "cells", "principals", "storage",
                             "catalog", "s3", "gcs"} :
                  e.profile[field] = D.profile[field]
        BY <2>4, <2>6, <3>1
      <3>3. \A name \in DOMAIN given :
               /\ name \in DOMAIN D.profile.connections
               /\ given[name] = D.profile.connections[name]
        BY <1>1, <2>4 DEF ReducedSecrets, PodInv
      <3> HIDE DEF e, given, D
      <3> QED
        BY <2>3, <2>4, <2>6, <3>2, <3>3 DEF Carries
    <2>8. /\ D.profile.store \in Seq(ToSet(D.profile.store))
          /\ IsFiniteSet(Range(FileOf[D.file].cell.sources))
      BY <1>1, <2>4, ProfilesAssumption, DeployAssumption, InterfacesAssumption
      DEF FileInv
    <2>9. FileOf[D.file].cell.discover.on =>
            LET discover == FileOf[D.file].cell.discover
            IN  ~(/\ discover.warehouse \in DOMAIN D.profile.connections
                  /\ D.profile.connections[discover.warehouse].type = "bigquery")
      BY <2>4 DEF OnBigQuery, Cell0
    <2>10. ServeRefusalIn(e) = ServeRefusalIn(D) /\ MountIn(e, TRUE) = MountIn(D, TRUE)
      <3> HIDE DEF e, D
      <3> QED
        BY <2>1, <2>7, <2>8, <2>9, ServesTheSame
    <2> QED
      BY <2>10 DEF ShowsTheSame, PodMount
  <1>2. DeploySpec => [](IndInv /\ PodInv)
    BY DeployInitially, DeployStep, PodInit, PodStep, PTL DEF DeploySpec
  <1>3. DeploySpec => []FileInv
    BY FileInit, FileStep, PTL DEF DeploySpec
  <1> QED
    BY <1>1, <1>2, <1>3, PTL
=============================================================================
