------------------------------ MODULE Operator ------------------------------
(***************************************************************************)
(* The Kubernetes operator (internal/operator/controller): one worker that *)
(* reconciles one NovaRouteCluster, call by call, against an API server    *)
(* that others change meanwhile.  Reads come from informer caches, which   *)
(* may be behind; writes go to the API server, which refuses one made from *)
(* an old copy.  A write that fails may have taken effect.                 *)
(*                                                                         *)
(* An object is its contents: a copy is old when it differs from what the  *)
(* API server has, which stands for its resource version.  Of a spec, the  *)
(* version stands for all that reaches the pod template, conf for what is  *)
(* only in the ConfigMaps, and refs says whether a peer's password is in   *)
(* the Secret.                                                             *)
(*                                                                         *)
(* missed is history: the roles that the clean-up passed over and that     *)
(* nobody has written since.                                               *)
(***************************************************************************)
EXTENDS Integers, FiniteSets

CONSTANTS
  Specs,         \* specs users write: [version, conf, refs]
  Passwords,     \* what users put in the Secret
  Nodes,         \* the nodes the DaemonSet runs on
  Absent,        \* no such object
  Lagging,       \* the objects whose cache may be behind
  Troubles,      \* what may happen besides a cluster's creation and deletion
  MaxTroubles    \* bound on the troubles, all together

\* what the operator creates, in the order Reconcile visits it
Kinds == {"sa", "cr", "crb", "config", "frr", "ds", "svc"}

\* objects with a controller reference; the cluster-scoped ones have none
Owned == Kinds \ {"cr", "crb"}

Objects == Kinds \cup {"cluster", "secret"}

\* the operator itself never reports Upgrading or Failed
Phases == {"", "Pending", "Initializing", "Running", "Upgrading", "Degraded", "Failed"}

\* a NovaRouteCluster: its spec, whether it has the finalizer and a deletion
\* timestamp, and its status
AgentStatuses == [desired : Nat, ready : Nat] \cup {Absent}

Clusters ==
  [uid : Nat, spec : Specs, fin : BOOLEAN, del : BOOLEAN,
   observed : Specs \cup {Absent}, phase : Phases, agent : AgentStatuses]

ASSUME OperatorAssumption ==
  /\ Specs # {} /\ \A s \in Specs : s.refs \in BOOLEAN
  /\ Absent \notin Passwords \cup Clusters
  /\ IsFiniteSet(Nodes)
  /\ Lagging \subseteq Objects
  /\ Troubles \subseteq {"recreate", "edit", "rotate", "meddle", "fault", "crash"}
  /\ MaxTroubles \in Nat

VARIABLES
  api,      \* the API server
  cache,    \* the operator's informer caches
  queue,    \* the work queue holds the cluster's name
  timer,    \* a RequeueAfter is pending
  pc,       \* the call the worker makes next
  mem,      \* its copy of the cluster
  pods,     \* the agent of each node: its template and the config it loaded
  uid,      \* the last cluster's uid
  missed,
  troubles  \* how many there have been

vars == <<api, cache, queue, timer, pc, mem, pods, uid, missed, troubles>>
worker == <<pc, mem>>

Init ==
  /\ \E pw \in Passwords \cup {Absent} :
       api = [k \in Objects |-> IF k = "secret" THEN pw ELSE Absent]
  /\ cache = api
  /\ queue = FALSE /\ timer = FALSE
  /\ pc = "idle" /\ mem = Absent
  /\ pods = [n \in Nodes |-> Absent]
  /\ uid = 0
  /\ missed = {}
  /\ troubles = 0

Trouble(t) ==
  /\ t \in Troubles
  /\ troubles < MaxTroubles
  /\ troubles' = troubles + 1

Here(k) == api[k] # Absent
Cluster == api["cluster"]

(***************************************************************************)
(* The API server, the caches and the queue.                               *)
(***************************************************************************)
\* the caches of objects that do not lag follow at once
Seen(now) == [k \in Objects |-> IF k \in Lagging THEN cache[k] ELSE now[k]]

Put(k, is) ==
  /\ api' = [api EXCEPT ![k] = is]
  /\ cache' = Seen(api')
  /\ missed' = missed \ {k}

NothingPut == UNCHANGED <<api, cache, missed>>

\* SetupWithManager: events of the cluster and of what it owns, and of a
\* Secret that the cluster, as cached, refers to
Watched ==
  Owned \cup {"cluster"}
    \cup LET c == cache["cluster"]
         IN  IF c # Absent /\ c.spec.refs THEN {"secret"} ELSE {}

Enqueue(again) ==
  queue' = (queue \/ again \/ \E k \in Watched : cache'[k] # cache[k])

\* an informer catches up
Sync(k) ==
  /\ cache[k] # api[k]
  /\ cache' = [cache EXCEPT ![k] = api[k]]
  /\ Enqueue(FALSE)
  /\ UNCHANGED <<api, timer, worker, pods, uid, missed, troubles>>

TimerFires ==
  /\ timer
  /\ timer' = FALSE
  /\ queue' = TRUE
  /\ UNCHANGED <<api, cache, worker, pods, uid, missed, troubles>>

(* A call of the worker that writes contents is to object k; accept says   *)
(* whether the API server takes it, ok how it is answered.                 *)
Write(k, is, accept, ok) ==
  \/ ok /\ accept /\ Put(k, is) /\ UNCHANGED troubles
  \/ ~ok /\ ~accept /\ NothingPut /\ UNCHANGED troubles
  \/ /\ ~ok /\ Trouble("fault")
     /\ \/ NothingPut
        \/ accept /\ Put(k, is)

\* the worker's copy has the resource version of the cluster
Current == Cluster = mem

(***************************************************************************)
(* Reconcile.                                                              *)
(***************************************************************************)
InitialStep(c) == IF c.phase = "" THEN "init" ELSE "sa"

\* Mutant of Begin: a cluster that is not found does not end the cycle.
BeginUnfound ==
  /\ pc = "idle" /\ queue
  /\ queue' = FALSE
  /\ LET c == cache["cluster"]
     IN  pc' = IF c = Absent THEN "finalizer"
               ELSE IF c.del THEN IF c.fin THEN "cleanCRB" ELSE "idle"
               ELSE IF c.fin THEN InitialStep(c) ELSE "finalizer"
  /\ mem' = IF pc' = "idle" THEN Absent ELSE cache["cluster"]
  /\ UNCHANGED <<api, cache, timer, pods, uid, missed, troubles>>

\* take the name from the queue and read the cluster from the cache
Begin ==
  /\ pc = "idle" /\ queue
  /\ queue' = FALSE
  /\ LET c == cache["cluster"]
     IN  pc' = IF c = Absent THEN "idle"
               ELSE IF c.del THEN IF c.fin THEN "cleanCRB" ELSE "idle"
               ELSE IF c.fin THEN InitialStep(c) ELSE "finalizer"
  /\ mem' = IF pc' = "idle" THEN Absent ELSE cache["cluster"]
  /\ UNCHANGED <<api, cache, timer, pods, uid, missed, troubles>>

\* the Get fails, and the queue retries
BeginFails ==
  /\ pc = "idle" /\ queue
  /\ Trouble("fault")
  /\ UNCHANGED <<api, cache, queue, timer, worker, pods, uid, missed>>

\* on success go on with the copy the API server returned, otherwise return
\* the error, and the queue retries
UpdateCluster(step, is, next) ==
  /\ pc = step
  /\ \E ok \in BOOLEAN :
       /\ Write("cluster", is, Current, ok)
       /\ pc' = IF ok THEN next ELSE "idle"
       /\ mem' = IF ok THEN api'["cluster"] ELSE Absent
       /\ Enqueue(~ok)
  /\ UNCHANGED <<timer, pods, uid>>

\* Mutant of AddFinalizer: an error does not end the cycle.
AddFinalizerUnchecked ==
  /\ pc = "finalizer"
  /\ \E ok \in BOOLEAN :
       /\ Write("cluster", [mem EXCEPT !.fin = TRUE], Current, ok)
       /\ mem' = IF ok THEN api'["cluster"] ELSE mem
  /\ pc' = InitialStep(mem)
  /\ Enqueue(FALSE)
  /\ UNCHANGED <<timer, pods, uid>>

\* Mutant of AddFinalizer: on a conflict it repeats the update with the resource
\* version that is there, and its own copy of the rest.
AddFinalizerForced ==
  /\ pc = "finalizer"
  /\ \E ok \in BOOLEAN :
       /\ Write("cluster", [mem EXCEPT !.fin = TRUE], Cluster # Absent, ok)
       /\ pc' = IF ok THEN InitialStep(mem) ELSE "idle"
       /\ mem' = IF ok THEN api'["cluster"] ELSE Absent
       /\ Enqueue(~ok)
  /\ UNCHANGED <<timer, pods, uid>>

AddFinalizer ==
  UpdateCluster("finalizer", [mem EXCEPT !.fin = TRUE], InitialStep(mem))

\* Status().Update: the status of copy c, and nothing else of it
StatusOf(c) ==
  [Cluster EXCEPT !.observed = c.observed, !.phase = c.phase, !.agent = c.agent]

InitStatus ==
  UpdateCluster("init", StatusOf([mem EXCEPT !.phase = "Pending"]), "sa")

\* the clean-up goes on without deleting role k
PassOver(k) ==
  /\ missed' = IF Here(k) THEN missed \cup {k} ELSE missed
  /\ UNCHANGED <<api, cache>>

\* cleanupResources: one role; any error of the Get is taken for NotFound
Clean(step, k, next) ==
  /\ pc = step
  /\ \E ok \in BOOLEAN :
       /\ \/ cache[k] # Absent /\ Write(k, Absent, TRUE, ok)
          \/ cache[k] = Absent /\ ok /\ PassOver(k) /\ UNCHANGED troubles
          \/ Trouble("fault") /\ ok /\ PassOver(k)
       /\ pc' = IF ok THEN next ELSE "idle"
       /\ Enqueue(~ok)
  /\ UNCHANGED <<timer, mem, pods, uid>>

CleanCRB == Clean("cleanCRB", "crb", "cleanCR")
CleanCR == Clean("cleanCR", "cr", "unfinalize")

\* the API server drops the cluster with its last finalizer
RemoveFinalizer == UpdateCluster("unfinalize", Absent, "idle")

\* where the worker goes from object k: an error skips the rest of its group
After(k, ok) ==
  CASE k = "sa"     -> IF ok THEN "cr" ELSE "config"
    [] k = "cr"     -> IF ok THEN "crb" ELSE "config"
    [] k = "crb"    -> "config"
    [] k = "config" -> IF ok THEN "frr" ELSE "ds"
    [] k = "frr"    -> "ds"
    [] k = "ds"     -> "svc"
    [] k = "svc"    -> "status"

\* create it if the cache has none, otherwise update it from the cached
\* resource version; a Get that fails is a write that fails without effect
createOrUpdate(k, is) ==
  /\ pc = k
  /\ LET accept == IF cache[k] = Absent THEN ~Here(k)
                   ELSE cache[k] = api[k]
     IN  \E ok \in BOOLEAN : Write(k, is, accept, ok) /\ pc' = After(k, ok)
  /\ Enqueue(FALSE)
  /\ UNCHANGED <<timer, mem, pods, uid>>

\* the version is in the labels
Plain == [uid |-> mem.uid, version |-> mem.spec.version]
Unowned == [version |-> mem.spec.version]

reconcileServiceAccount == createOrUpdate("sa", Plain)
reconcileClusterRole == createOrUpdate("cr", Unowned)
reconcileClusterRoleBinding == createOrUpdate("crb", Unowned)
reconcileService == createOrUpdate("svc", Plain)

\* the password in the Secret as cached, Absent if it is not there
Secret == cache["secret"]

ConfigFor(c, pw) ==
  [uid |-> c.uid, version |-> c.spec.version, conf |-> c.spec.conf,
   pw |-> IF c.spec.refs THEN pw ELSE Absent]

reconcileAgentConfigMap ==
  /\ pc = "config"
  /\ mem.spec.refs => Secret # Absent
  /\ createOrUpdate("config", ConfigFor(mem, Secret))

\* resolveSecretKeyRef finds no Secret; that its Get fails, like the one of
\* computeSecretHash, is again a write that fails without effect
SecretMissing ==
  /\ pc = "config"
  /\ mem.spec.refs /\ Secret = Absent
  /\ pc' = After("config", FALSE)
  /\ UNCHANGED <<api, cache, queue, timer, mem, pods, uid, missed, troubles>>

reconcileFRRBootstrapConfigMap ==
  createOrUpdate("frr", [uid |-> mem.uid, version |-> mem.spec.version,
                         conf |-> mem.spec.conf])

\* a Secret that is not there has a hash of its own
computeSecretHash(c, pw) == IF c.spec.refs THEN <<pw>> ELSE << >>

TemplateFor(c, pw) ==
  [version |-> c.spec.version, hash |-> computeSecretHash(c, pw)]

\* the status of the DaemonSet is not the operator's to write
reconcileDaemonSet ==
  LET ds == api["ds"]
  IN  createOrUpdate("ds", [uid |-> mem.uid,
                            template |-> TemplateFor(mem, Secret),
                            desired |-> IF ds = Absent THEN 0 ELSE ds.desired,
                            ready |-> IF ds = Absent THEN 0 ELSE ds.ready])

\* the status of the agents as the cached DaemonSet has it; the one from
\* before if it is not there
AgentStatus ==
  LET ds == cache["ds"]
  IN  IF ds = Absent THEN mem.agent
      ELSE [desired |-> ds.desired, ready |-> ds.ready]

PhaseOf(agent) ==
  IF agent = Absent THEN "Initializing"
  ELSE IF agent.ready = agent.desired THEN "Running"
  ELSE IF agent.ready > 0 THEN "Degraded"
  ELSE "Initializing"

WithStatus(c, agent) ==
  [c EXCEPT !.agent = agent, !.phase = PhaseOf(agent), !.observed = c.spec]

\* the status is written, answered with ok; if the Get of the DaemonSet fails,
\* with the agents as they were
WriteStatus(ok) ==
  \/ Write("cluster", StatusOf(WithStatus(mem, AgentStatus)), Current, ok)
  \/ /\ Trouble("fault")
     /\ ok = Current
     /\ IF ok THEN Put("cluster", StatusOf(WithStatus(mem, mem.agent))) ELSE NothingPut

\* Mutant of updateStatus: a cycle without an error is not requeued.
UpdateStatusOnce ==
  /\ pc = "status"
  /\ \E ok \in BOOLEAN : WriteStatus(ok) /\ Enqueue(~ok)
  /\ pc' = "idle" /\ mem' = Absent
  /\ UNCHANGED <<timer, pods, uid>>

\* collected errors only shorten the time to the next cycle
updateStatus ==
  /\ pc = "status"
  /\ \E ok \in BOOLEAN :
       /\ WriteStatus(ok)
       /\ Enqueue(~ok)
       /\ timer' = (timer \/ ok)
  /\ pc' = "idle" /\ mem' = Absent
  /\ UNCHANGED <<pods, uid>>

Reconcile ==
  \/ Begin \/ BeginFails \/ AddFinalizer \/ CleanCRB \/ CleanCR \/ RemoveFinalizer
  \/ InitStatus
  \/ reconcileServiceAccount \/ reconcileClusterRole \/ reconcileClusterRoleBinding
  \/ reconcileAgentConfigMap \/ SecretMissing \/ reconcileFRRBootstrapConfigMap
  \/ reconcileDaemonSet \/ reconcileService
  \/ updateStatus

(***************************************************************************)
(* Users.                                                                  *)
(***************************************************************************)
\* a step of someone else: it only changes object k
Outside(k, is) ==
  /\ Put(k, is)
  /\ Enqueue(FALSE)
  /\ UNCHANGED <<timer, worker, pods>>

CreateCluster(s) ==
  /\ Cluster = Absent
  /\ IF uid = 0 THEN UNCHANGED troubles ELSE Trouble("recreate")
  /\ uid' = uid + 1
  /\ Outside("cluster", [uid |-> uid', spec |-> s, observed |-> Absent,
                         fin |-> FALSE, del |-> FALSE, phase |-> "",
                         agent |-> Absent])

EditSpec(s) ==
  /\ Cluster # Absent /\ Cluster.spec # s
  /\ Trouble("edit")
  /\ Outside("cluster", [Cluster EXCEPT !.spec = s])
  /\ UNCHANGED uid

\* with a finalizer the cluster is only marked
DeleteCluster ==
  /\ Cluster # Absent /\ ~Cluster.del
  /\ Outside("cluster", IF Cluster.fin THEN [Cluster EXCEPT !.del = TRUE]
                        ELSE Absent)
  /\ UNCHANGED <<uid, troubles>>

Rotate(pw) ==
  /\ pw # api["secret"]
  /\ Trouble("rotate")
  /\ Outside("secret", pw)
  /\ UNCHANGED uid

\* someone deletes what the operator has created
Meddle(k) ==
  /\ Here(k)
  /\ Trouble("meddle")
  /\ Outside(k, Absent)
  /\ UNCHANGED uid

Users ==
  \/ \E s \in Specs : CreateCluster(s) \/ EditSpec(s)
  \/ DeleteCluster
  \/ \E pw \in Passwords \cup {Absent} : Rotate(pw)
  \/ \E k \in Kinds : Meddle(k)

(***************************************************************************)
(* The rest of Kubernetes: garbage collection, and the DaemonSet's pods.   *)
(***************************************************************************)
\* one pass of the garbage collector
CollectGarbage ==
  /\ LET garbage == {k \in Owned : /\ Here(k)
                                   /\ Cluster # Absent
                                        => Cluster.uid # api[k].uid}
     IN  /\ garbage # {}
         /\ api' = [k \in Objects |-> IF k \in garbage THEN Absent ELSE api[k]]
  /\ cache' = Seen(api')
  /\ Enqueue(FALSE)
  /\ UNCHANGED <<timer, worker, pods, uid, missed, troubles>>

\* a pod of an old template, or of no DaemonSet, is deleted
DeletePod(n) ==
  /\ pods[n] # Absent
  /\ Here("ds") => pods[n].template # api["ds"].template
  /\ pods' = [pods EXCEPT ![n] = Absent]
  /\ UNCHANGED <<api, cache, queue, timer, worker, uid, missed, troubles>>

\* it needs its service account and its volumes, and the agent reads its
\* configuration once, when it starts
StartPod(n) ==
  /\ Here("ds") /\ Here("sa") /\ Here("config") /\ Here("frr")
  /\ pods[n] = Absent
  /\ pods' = [pods EXCEPT ![n] = [template |-> api["ds"].template,
                                  config |-> api["config"]]]
  /\ UNCHANGED <<api, cache, queue, timer, worker, uid, missed, troubles>>

Ready == Cardinality({n \in Nodes : pods[n] # Absent})

ReportDaemonSet ==
  /\ Here("ds")
  /\ LET ds == api["ds"]
         now == [ds EXCEPT !.desired = Cardinality(Nodes), !.ready = Ready]
     IN  ds # now /\ Outside("ds", now)
  /\ UNCHANGED <<uid, troubles>>

Kubernetes ==
  \/ CollectGarbage
  \/ \E n \in Nodes : DeletePod(n) \/ StartPod(n)
  \/ ReportDaemonSet

(* The operator dies and is started again: the caches are filled first,    *)
(* and every cluster there is enters the queue.                            *)
Crash ==
  /\ Trouble("crash")
  /\ cache' = api
  /\ queue' = (Cluster # Absent)
  /\ timer' = FALSE
  /\ pc' = "idle" /\ mem' = Absent
  /\ UNCHANGED <<api, pods, uid, missed>>

Next ==
  \/ Reconcile
  \/ \E k \in Lagging : Sync(k)
  \/ TimerFires
  \/ Users
  \/ Kubernetes
  \/ Crash

(* The worker runs, watches deliver, timers fire, and Kubernetes does its  *)
(* part.  Users owe nothing.                                               *)
Fairness ==
  /\ WF_vars(Reconcile)
  /\ \A k \in Lagging : WF_vars(Sync(k))
  /\ WF_vars(TimerFires)
  /\ WF_vars(Kubernetes)

Spec == Init /\ [][Next]_vars

FairSpec == Spec /\ Fairness

(***************************************************************************)
(* Properties.                                                             *)
(***************************************************************************)
\* Every variable has its type, and the worker has a cluster wherever it is.
TypeOK ==
  /\ DOMAIN api = Objects /\ DOMAIN cache = Objects
  /\ {queue, timer} \subseteq BOOLEAN
  /\ pc \in Kinds \cup {"idle", "finalizer", "init", "cleanCRB", "cleanCR",
                        "unfinalize", "status"}
  /\ {Cluster, cache["cluster"], mem} \subseteq Clusters \cup {Absent}
  /\ pc # "idle" => mem # Absent
  /\ missed \subseteq {"cr", "crb"}

\* The roles, which no owner reference ties to the cluster, outlive it only if
\* the clean-up could not see them, because its cache was behind or its Get
\* failed: the finalizer is there before they are, goes after them, and no
\* cycle builds them again once the cluster is being deleted.
NoOrphanRoles ==
  Cluster = Absent => \A k \in {"cr", "crb"} : Here(k) => k \in missed

\* No write of the worker undoes what a user has done to the cluster since
\* the worker read it: neither an edit of the spec nor a deletion.
EditsKept ==
  [][pc' # pc /\ Cluster # Absent /\ Cluster' # Absent
       => Cluster'.spec = Cluster.spec /\ Cluster'.del = Cluster.del]_vars

\* what each object should be, for the cluster and the Secret as they are
RightObjects ==
  LET c == Cluster
      pw == api["secret"]
  IN  /\ \A k \in {"cr", "crb"} : api[k] = [version |-> c.spec.version]
      /\ \A k \in {"sa", "svc"} :
           api[k] = [uid |-> c.uid, version |-> c.spec.version]
      /\ Here("ds") /\ api["ds"].uid = c.uid
      /\ api["ds"].template = TemplateFor(c, pw)
      /\ \/ c.spec.refs /\ pw = Absent       \* the ConfigMaps cannot be built
         \/ /\ api["config"] = ConfigFor(c, pw)
            /\ api["frr"] = [uid |-> c.uid, version |-> c.spec.version,
                                conf |-> c.spec.conf]

\* Once users and failures stop, everything follows the spec for good, also
\* what someone has deleted, or all of it is gone with the cluster, but for
\* roles that the clean-up could not see; and the phase that the operator
\* reports is Running, unless the agents cannot start.
Settles ==
  <>[](IF Cluster = Absent THEN \A k \in Kinds : Here(k) => k \in missed
       ELSE /\ ~Cluster.del /\ Cluster.fin
            /\ Cluster.observed = Cluster.spec
            /\ RightObjects
            /\ (Cluster.phase = "Running") = (Ready = Cardinality(Nodes)))

\* A new password reaches the agents.
SecretRotates ==
  <>[](\A n \in Nodes :
         Cluster # Absent /\ Cluster.spec.refs /\ pods[n] # Absent
           /\ api["secret"] # Absent
           => pods[n].config.pw = api["secret"])
=============================================================================
