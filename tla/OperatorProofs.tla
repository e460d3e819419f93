--------------------------- MODULE OperatorProofs ---------------------------
(***************************************************************************)
(* For any specs, Secrets and nodes, any failures and crashes, and however *)
(* far any cache is behind: the types, that the worker undoes nothing a    *)
(* user has done, and that a role outlives its cluster only if the         *)
(* clean-up could not see it.                                              *)
(***************************************************************************)
EXTENDS Operator, FiniteSetTheorems, TLAPS

Maybe == Clusters \cup {Absent}

Roles == {"cr", "crb"}

\* where the worker builds, having seen the finalizer, and where it cleans up
Builds == Kinds \cup {"init", "status"}
Cleans == {"cleanCRB", "cleanCR", "unfinalize"}

IsDaemonSet(d) ==
  d = Absent \/ /\ d = [uid |-> d.uid, template |-> d.template,
                        desired |-> d.desired, ready |-> d.ready]
                /\ d.desired \in Nat /\ d.ready \in Nat

-----------------------------------------------------------------------------
(* Types.                                                                  *)

Types ==
  /\ api = [k \in Objects |-> api[k]] /\ cache = [k \in Objects |-> cache[k]]
  /\ \A k \in Objects \ Lagging : cache[k] = api[k]
  /\ api["cluster"] \in Maybe /\ cache["cluster"] \in Maybe
  /\ IsDaemonSet(api["ds"]) /\ IsDaemonSet(cache["ds"])
  /\ queue \in BOOLEAN /\ timer \in BOOLEAN
  /\ pc \in Builds \cup Cleans \cup {"idle", "finalizer"}
  /\ mem \in Maybe /\ (pc # "idle" => mem \in Clusters)
  /\ uid \in Nat
  /\ missed \subseteq Roles

LEMMA Names ==
  /\ {"cluster", "secret", "ds", "cr", "crb"} \subseteq Objects
  /\ Kinds \subseteq Objects /\ Owned \subseteq Kinds /\ "cluster" \notin Kinds
  /\ "cr" \notin Owned /\ "crb" \notin Owned
  /\ Roles \subseteq Kinds /\ "cluster" \notin Roles /\ "secret" \notin Roles
  /\ "ds" \notin Roles
BY DEF Objects, Kinds, Owned, Roles

\* A write reaches one object, in the cache at once or later.
LEMMA PutFrame ==
  ASSUME Types, NEW k \in Objects, NEW is, Put(k, is)
  PROVE  /\ api' = [j \in Objects |-> api'[j]] /\ cache' = [j \in Objects |-> cache'[j]]
         /\ \A j \in Objects \ {k} : api'[j] = api[j] /\ cache'[j] = cache[j]
         /\ api'[k] = is /\ cache'[k] \in {cache[k], is}
         /\ \A j \in Objects \ Lagging : cache'[j] = api'[j]
         /\ missed' = missed \ {k} /\ missed' \subseteq Roles
<1>1. /\ api' = [api EXCEPT ![k] = is]
      /\ cache' = [j \in Objects |-> IF j \in Lagging THEN cache[j] ELSE api'[j]]
      /\ missed' = missed \ {k}
  BY DEF Put, Seen
<1>2. api' = [j \in Objects |-> IF j = k THEN is ELSE api[j]]
  BY <1>1 DEF Types
<1> QED
  BY <1>1, <1>2 DEF Types

\* A call of the worker takes effect, if the API server accepts it, or not.
LEMMA WriteEffect ==
  ASSUME NEW k, NEW is, NEW accept \in BOOLEAN, NEW ok \in BOOLEAN,
         Write(k, is, accept, ok)
  PROVE  /\ (accept /\ Put(k, is)) \/ UNCHANGED <<api, cache, missed>>
         /\ ok => accept /\ Put(k, is)
BY DEF Write, NothingPut

LEMMA EnqueueType == ASSUME NEW again, Enqueue(again) PROVE queue' \in BOOLEAN
BY DEF Enqueue

\* Someone else's write of a value of the right type.
LEMMA OutsideTypes ==
  ASSUME Types, NEW k \in Objects, NEW is, Outside(k, is), uid' \in Nat,
         k = "cluster" => is \in Maybe, k = "ds" => IsDaemonSet(is)
  PROVE  /\ Types' /\ UNCHANGED <<pc, mem>>
         /\ \A j \in Objects \ {k} : api'[j] = api[j] /\ cache'[j] = cache[j]
         /\ api'[k] = is /\ cache'[k] \in {cache[k], is} /\ missed' = missed \ {k}
<1>1. Put(k, is) /\ queue' \in BOOLEAN /\ UNCHANGED <<timer, pc, mem>>
  BY EnqueueType DEF Outside, worker
<1>2. /\ api'["cluster"] \in Maybe /\ cache'["cluster"] \in Maybe
      /\ IsDaemonSet(api'["ds"]) /\ IsDaemonSet(cache'["ds"])
  BY <1>1, PutFrame, Names DEF Types
<1>3. Types'
  BY <1>1, <1>2, PutFrame DEF Types, IsDaemonSet
<1> QED
  BY <1>1, <1>3, PutFrame

\* createOrUpdate of one kind leaves all else alone, and goes on building.
LEMMA BuildStep ==
  ASSUME Types, NEW k \in Kinds, NEW is, createOrUpdate(k, is),
         k = "ds" => IsDaemonSet(is)
  PROVE  /\ Types' /\ pc = k /\ pc' \in Builds /\ UNCHANGED <<mem, uid>>
         /\ \A j \in Objects \ {k} : api'[j] = api[j] /\ cache'[j] = cache[j]
<1> DEFINE accept == IF cache[k] = Absent THEN ~Here(k) ELSE cache[k] = api[k]
<1>1. PICK ok \in BOOLEAN : Write(k, is, accept, ok) /\ pc' = After(k, ok)
  BY DEF createOrUpdate
<1>2. accept \in BOOLEAN
  BY DEF Here
<1>3. pc = k /\ UNCHANGED <<timer, mem, pods, uid>> /\ queue' \in BOOLEAN
  BY EnqueueType DEF createOrUpdate
<1>4. pc' \in Builds
  BY <1>1 DEF After, Builds, Kinds
<1> HIDE DEF accept
<1>5. Put(k, is) \/ UNCHANGED <<api, cache, missed>>
  BY <1>1, <1>2, WriteEffect
<1>6. k # "cluster" /\ k \in Objects
  BY Names
<1>7. CASE Put(k, is)
  <2>1. \A j \in Objects \ {k} : api'[j] = api[j] /\ cache'[j] = cache[j]
    BY <1>6, <1>7, PutFrame
  <2>2. /\ api'["cluster"] \in Maybe /\ cache'["cluster"] \in Maybe
        /\ IsDaemonSet(api'["ds"]) /\ IsDaemonSet(cache'["ds"])
    BY <1>6, <1>7, <2>1, PutFrame, Names DEF Types
  <2>3. mem \in Clusters
    BY <1>3, <1>6 DEF Types, Kinds
  <2>4. Types'
    BY <1>3, <1>4, <1>6, <1>7, <2>2, <2>3, PutFrame DEF Types, IsDaemonSet, Builds, Maybe
  <2> QED
    BY <1>3, <1>4, <2>1, <2>4
<1>8. CASE UNCHANGED <<api, cache, missed>>
  <2>1. mem \in Clusters
    BY <1>3, <1>6 DEF Types, Kinds
  <2> QED
    BY <1>3, <1>4, <1>8, <2>1 DEF Types, IsDaemonSet, Builds, Maybe
<1> QED
  BY <1>5, <1>7, <1>8

\* An update of the cluster from the worker's copy.
LEMMA UpdateStep ==
  ASSUME Types, NEW step, step # "idle", NEW is \in Maybe, NEW next,
         UpdateCluster(step, is, next),
         next = "idle" \/ (next \in Builds /\ is \in Clusters)
  PROVE  /\ Types' /\ pc = step /\ mem \in Clusters /\ UNCHANGED <<uid, missed>>
         /\ \A j \in Kinds : api'[j] = api[j]
         /\ \/ /\ Cluster = mem /\ api'["cluster"] = is
               /\ cache'["cluster"] \in {cache["cluster"], is}
            \/ api'["cluster"] = api["cluster"] /\ cache'["cluster"] = cache["cluster"]
         /\ \/ pc' = "idle" /\ mem' \in {Absent, is}
            \/ pc' = next /\ Cluster = mem /\ api'["cluster"] = is /\ mem' = is
<1>1. PICK ok \in BOOLEAN :
        /\ Write("cluster", is, Current, ok)
        /\ pc' = IF ok THEN next ELSE "idle"
        /\ mem' = IF ok THEN api'["cluster"] ELSE Absent
        /\ Enqueue(~ok)
  BY DEF UpdateCluster
<1>2. pc = step /\ UNCHANGED <<timer, pods, uid>> /\ queue' \in BOOLEAN /\ mem \in Clusters
  BY <1>1, EnqueueType DEF UpdateCluster, Types
<1>3. /\ (Cluster = mem /\ Put("cluster", is)) \/ (UNCHANGED <<api, cache, missed>> /\ ~ok)
      /\ Current \in BOOLEAN
  BY <1>1, WriteEffect DEF Current
<1>4. CASE Cluster = mem /\ Put("cluster", is)
  <2>1. /\ \A j \in Objects \ {"cluster"} : api'[j] = api[j] /\ cache'[j] = cache[j]
        /\ api'["cluster"] = is /\ cache'["cluster"] \in {cache["cluster"], is}
        /\ api' = [j \in Objects |-> api'[j]] /\ cache' = [j \in Objects |-> cache'[j]]
        /\ \A j \in Objects \ Lagging : cache'[j] = api'[j]
        /\ missed' = missed \ {"cluster"} /\ missed' \subseteq Roles
    BY <1>4, PutFrame, Names
  <2>2. IsDaemonSet(api'["ds"]) /\ IsDaemonSet(cache'["ds"])
    BY <2>1, Names DEF Types, Kinds
  <2>3. Types'
    BY <1>1, <1>2, <2>1, <2>2 DEF Types, IsDaemonSet, Maybe
  <2>4. missed' = missed
    BY <2>1, Names DEF Types
  <2> QED
    BY <1>1, <1>2, <1>4, <2>1, <2>3, <2>4, Names
<1>5. CASE UNCHANGED <<api, cache, missed>> /\ ~ok
  BY <1>1, <1>2, <1>5 DEF Types, IsDaemonSet, Maybe
<1> QED
  BY <1>3, <1>4, <1>5

\* A step of cleanupResources: when it goes on, the role is gone or was missed.
LEMMA CleanStep ==
  ASSUME Types, NEW step \in Cleans, NEW k \in Roles, NEW next \in Cleans,
         Clean(step, k, next)
  PROVE  /\ Types' /\ pc = step /\ pc' \in {next, "idle"} /\ UNCHANGED <<mem, uid>>
         /\ \A j \in Objects \ {k} : api'[j] = api[j] /\ cache'[j] = cache[j]
         /\ api'[k] = Absent \/ (api'[k] = api[k] /\ (k \in missed => k \in missed'))
         /\ \A j \in Roles \ {k} : j \in missed => j \in missed'
         /\ pc' = next => api'[k] = Absent \/ k \in missed'
<1>1. PICK ok \in BOOLEAN :
        /\ \/ cache[k] # Absent /\ Write(k, Absent, TRUE, ok)
           \/ cache[k] = Absent /\ ok /\ PassOver(k) /\ UNCHANGED troubles
           \/ Trouble("fault") /\ ok /\ PassOver(k)
        /\ pc' = IF ok THEN next ELSE "idle"
        /\ Enqueue(~ok)
  BY DEF Clean
<1>2. /\ pc = step /\ UNCHANGED <<timer, mem, pods, uid>> /\ queue' \in BOOLEAN
      /\ k \in Objects /\ k # "cluster" /\ k # "ds" /\ mem \in Clusters /\ next # "idle"
  BY <1>1, EnqueueType, Names DEF Clean, Types, Cleans, Roles
<1>3. \/ Put(k, Absent)
      \/ UNCHANGED <<api, cache, missed>> /\ ~ok
      \/ PassOver(k)
  BY <1>1, WriteEffect
<1>4. CASE Put(k, Absent)
  <2>1. /\ \A j \in Objects \ {k} : api'[j] = api[j] /\ cache'[j] = cache[j]
        /\ api'[k] = Absent
        /\ api' = [j \in Objects |-> api'[j]] /\ cache' = [j \in Objects |-> cache'[j]]
        /\ \A j \in Objects \ Lagging : cache'[j] = api'[j]
        /\ missed' = missed \ {k} /\ missed' \subseteq Roles
    BY <1>2, <1>4, PutFrame
  <2>2. /\ api'["cluster"] = api["cluster"] /\ cache'["cluster"] = cache["cluster"]
        /\ api'["ds"] = api["ds"] /\ cache'["ds"] = cache["ds"]
    BY <1>2, <2>1, Names
  <2>3. Types'
    BY <1>1, <1>2, <2>1, <2>2 DEF Types, IsDaemonSet, Maybe
  <2> QED
    BY <1>1, <1>2, <2>1, <2>3
<1>5. CASE UNCHANGED <<api, cache, missed>> /\ ~ok
  <2>1. Types'
    BY <1>1, <1>2, <1>5 DEF Types, IsDaemonSet, Maybe
  <2> QED
    BY <1>1, <1>2, <1>5, <2>1
<1>6. CASE PassOver(k)
  <2>1. /\ UNCHANGED <<api, cache>> /\ missed' = IF Here(k) THEN missed \cup {k} ELSE missed
    BY <1>6 DEF PassOver
  <2>2. Types'
    BY <1>1, <1>2, <2>1 DEF Types, IsDaemonSet, Maybe
  <2>3. api'[k] = Absent \/ k \in missed'
    BY <2>1 DEF Here
  <2> QED
    BY <1>1, <1>2, <2>1, <2>2, <2>3
<1> QED
  BY <1>3, <1>4, <1>5, <1>6

LEMMA BeginTypes == ASSUME Types, Begin PROVE Types'
<1> DEFINE c == cache["cluster"]
<1>1. /\ pc' = IF c = Absent THEN "idle"
               ELSE IF c.del THEN IF c.fin THEN "cleanCRB" ELSE "idle"
               ELSE IF c.fin THEN InitialStep(c) ELSE "finalizer"
      /\ mem' = IF pc' = "idle" THEN Absent ELSE c
      /\ queue' = FALSE /\ UNCHANGED <<api, cache, timer, uid, missed>>
  BY DEF Begin
<1>2. InitialStep(c) \in Builds
  BY DEF InitialStep, Builds, Kinds
<1>3. c \in Maybe
  BY DEF Types
<1> HIDE DEF c
<1>4. pc' \in Builds \cup Cleans \cup {"idle", "finalizer"}
  BY <1>1, <1>2 DEF Cleans
<1>5. mem' \in Maybe /\ (pc' # "idle" => mem' \in Clusters)
  BY <1>1, <1>3 DEF Maybe
<1> QED
  BY <1>1, <1>4, <1>5 DEF Types, IsDaemonSet

\* What a status update makes of a cluster that is as the worker has it.
LEMMA StatusKeeps ==
  ASSUME NEW agent \in AgentStatuses, Cluster = mem, mem \in Clusters
  PROVE  LET is == StatusOf(WithStatus(mem, agent))
         IN  /\ is \in Clusters /\ is.spec = mem.spec /\ is.uid = mem.uid
             /\ is.fin = mem.fin /\ is.del = mem.del
<1>1. PhaseOf(agent) \in Phases
  BY DEF PhaseOf, Phases
<1>2. StatusOf(WithStatus(mem, agent)) =
        [mem EXCEPT !.observed = mem.spec, !.phase = PhaseOf(agent), !.agent = agent]
  BY DEF StatusOf, WithStatus, Clusters
<1> QED
  BY <1>1, <1>2 DEF Clusters

LEMMA StatusStep ==
  ASSUME Types, updateStatus
  PROVE  /\ Types' /\ pc = "status" /\ pc' = "idle" /\ mem' = Absent
         /\ UNCHANGED <<uid, missed>>
         /\ mem \in Clusters /\ \A j \in Kinds : api'[j] = api[j]
         /\ \E is \in Clusters :
              /\ is.spec = mem.spec /\ is.uid = mem.uid /\ is.fin = mem.fin
              /\ is.del = mem.del
              /\ \/ /\ Cluster = mem /\ api'["cluster"] = is
                    /\ cache'["cluster"] \in {cache["cluster"], is}
                 \/ /\ api'["cluster"] = api["cluster"]
                    /\ cache'["cluster"] = cache["cluster"]
<1>1. pc = "status" /\ mem \in Clusters
  BY DEF updateStatus, Types
<1>2. AgentStatus \in AgentStatuses /\ mem.agent \in AgentStatuses
  BY <1>1 DEF AgentStatus, AgentStatuses, Types, IsDaemonSet, Clusters
<1>3. PICK ok \in BOOLEAN : WriteStatus(ok) /\ Enqueue(~ok) /\ timer' = (timer \/ ok)
  BY DEF updateStatus
<1>4. /\ pc' = "idle" /\ mem' = Absent /\ UNCHANGED <<pods, uid>>
      /\ queue' \in BOOLEAN /\ timer' \in BOOLEAN /\ Current \in BOOLEAN
  BY <1>3, EnqueueType DEF updateStatus, Current
<1>5. \/ UNCHANGED <<api, cache, missed>>
      \/ /\ Cluster = mem
         /\ \E agent \in AgentStatuses :
              Put("cluster", StatusOf(WithStatus(mem, agent)))
  <2>1. CASE Write("cluster", StatusOf(WithStatus(mem, AgentStatus)), Current, ok)
    BY <1>2, <1>4, <2>1, WriteEffect DEF Current
  <2>2. CASE /\ ok = Current
             /\ IF ok THEN Put("cluster", StatusOf(WithStatus(mem, mem.agent)))
                ELSE NothingPut
    BY <1>2, <2>2 DEF Current, NothingPut
  <2> QED
    BY <1>3, <2>1, <2>2 DEF WriteStatus
<1>6. CASE /\ Cluster = mem
           /\ \E agent \in AgentStatuses :
                Put("cluster", StatusOf(WithStatus(mem, agent)))
  <2>1. PICK agent \in AgentStatuses : Put("cluster", StatusOf(WithStatus(mem, agent)))
    BY <1>6
  <2> DEFINE is == StatusOf(WithStatus(mem, agent))
  <2>2. /\ is \in Clusters /\ is.spec = mem.spec /\ is.uid = mem.uid /\ is.fin = mem.fin
        /\ is.del = mem.del /\ Put("cluster", is)
    BY <1>1, <1>6, <2>1, StatusKeeps
  <2> HIDE DEF is
  <2>3. /\ \A j \in Objects \ {"cluster"} : api'[j] = api[j] /\ cache'[j] = cache[j]
        /\ api'["cluster"] = is /\ cache'["cluster"] \in {cache["cluster"], is}
        /\ api' = [j \in Objects |-> api'[j]] /\ cache' = [j \in Objects |-> cache'[j]]
        /\ \A j \in Objects \ Lagging : cache'[j] = api'[j]
        /\ missed' = missed \ {"cluster"} /\ missed' \subseteq Roles
    BY <2>2, PutFrame, Names
  <2>4. api'["ds"] = api["ds"] /\ cache'["ds"] = cache["ds"]
    BY <2>3, Names
  <2>5. Types'
    BY <1>4, <2>2, <2>3, <2>4 DEF Types, IsDaemonSet, Maybe
  <2>6. missed' = missed
    BY <2>3, Names DEF Types
  <2> QED
    BY <1>1, <1>4, <1>6, <2>2, <2>3, <2>5, <2>6, Names
<1>7. CASE UNCHANGED <<api, cache, missed>>
  <2>1. Types'
    BY <1>4, <1>7 DEF Types, IsDaemonSet, Maybe
  <2> QED
    BY <1>1, <1>4, <1>7, <2>1
<1> QED
  BY <1>5, <1>6, <1>7

LEMMA ReadyNat == Ready \in Nat /\ Cardinality(Nodes) \in Nat
<1>1. IsFiniteSet(Nodes) /\ IsFiniteSet({n \in Nodes : pods[n] # Absent})
  BY OperatorAssumption, FS_Subset
<1> QED
  BY <1>1, FS_CardinalityType DEF Ready

\* what the worker's updates do: the cluster becomes `is', unless the write is
\* refused or fails, and the worker goes on building or ends its cycle
Updated(is) ==
  /\ Types' /\ UNCHANGED <<uid, missed>> /\ mem \in Clusters
  /\ \A j \in Kinds : api'[j] = api[j]
  /\ \/ pc = "unfinalize" /\ is = Absent
     \/ /\ pc \in {"finalizer", "init"}
        /\ is \in Clusters /\ is.spec = mem.spec /\ is.uid = mem.uid /\ is.del = mem.del
        /\ pc = "finalizer" \/ mem.fin => is.fin
  /\ \/ /\ Cluster = mem /\ api'["cluster"] = is
        /\ cache'["cluster"] \in {cache["cluster"], is}
     \/ api'["cluster"] = api["cluster"] /\ cache'["cluster"] = cache["cluster"]
  /\ \/ pc' = "idle" /\ mem' \in {Absent, is}
     \/ /\ pc # "unfinalize" /\ pc' \in Builds
        /\ Cluster = mem /\ api'["cluster"] = is /\ mem' = is

\* The finalizer is added, the phase set, or the cluster dropped with its
\* finalizer.
LEMMA UpdateSteps ==
  ASSUME Types, AddFinalizer \/ InitStatus \/ RemoveFinalizer
  PROVE  \E is : Updated(is)
<1>1. ASSUME NEW step \in {"finalizer", "init"}, NEW is \in Clusters, NEW next \in Builds,
             UpdateCluster(step, is, next),
             is.spec = mem.spec, is.uid = mem.uid, is.del = mem.del,
             step = "finalizer" \/ mem.fin => is.fin
      PROVE  Updated(is)
  <2>1. step # "idle" /\ is \in Maybe
    BY DEF Maybe
  <2> QED
    BY <1>1, <2>1, UpdateStep DEF Updated
<1>2. CASE AddFinalizer
  <2> DEFINE is == [mem EXCEPT !.fin = TRUE]
             next == InitialStep(mem)
  <2>1. UpdateCluster("finalizer", is, next)
    BY <1>2 DEF AddFinalizer
  <2>2. mem \in Clusters
    BY <2>1 DEF UpdateCluster, Types
  <2>3. /\ is \in Clusters /\ is.spec = mem.spec /\ is.uid = mem.uid
        /\ is.del = mem.del /\ is.fin
    BY <2>2 DEF Clusters
  <2>4. next \in Builds
    BY DEF InitialStep, Builds, Kinds
  <2> HIDE DEF is, next
  <2> QED
    BY <1>1, <2>1, <2>3, <2>4
<1>3. CASE InitStatus
  <2> DEFINE is == StatusOf([mem EXCEPT !.phase = "Pending"])
  <2>1. UpdateCluster("init", is, "sa")
    BY <1>3 DEF InitStatus
  <2>2. mem \in Clusters /\ pc = "init"
    BY <2>1 DEF UpdateCluster, Types
  <2>3. "sa" \in Builds
    BY DEF Builds, Kinds
  <2>4. CASE Cluster = mem
    <3>1. is = [mem EXCEPT !.phase = "Pending"]
      BY <2>2, <2>4 DEF StatusOf, Clusters
    <3>2. /\ is \in Clusters /\ is.spec = mem.spec /\ is.uid = mem.uid
          /\ is.del = mem.del /\ (mem.fin => is.fin)
      BY <2>2, <3>1 DEF Clusters, Phases
    <3> HIDE DEF is
    <3> QED
      BY <1>1, <2>1, <2>3, <3>2
  <2>5. CASE Cluster # mem
    <3> HIDE DEF is
    <3>1. PICK ok \in BOOLEAN :
            /\ Write("cluster", is, Current, ok)
            /\ pc' = IF ok THEN "sa" ELSE "idle"
            /\ mem' = IF ok THEN api'["cluster"] ELSE Absent
            /\ Enqueue(~ok)
      BY <2>1 DEF UpdateCluster
    <3>2. ok = FALSE /\ UNCHANGED <<api, cache, missed>>
      BY <2>5, <3>1 DEF Write, Current, NothingPut
    <3>3. UNCHANGED <<timer, uid>> /\ queue' \in BOOLEAN /\ pc' = "idle" /\ mem' = Absent
      BY <2>1, <3>1, <3>2, EnqueueType DEF UpdateCluster
    <3>4. Types'
      BY <3>2, <3>3 DEF Types, IsDaemonSet, Maybe
    <3> QED
      BY <2>2, <3>2, <3>3, <3>4 DEF Updated
  <2> QED
    BY <2>4, <2>5
<1>4. CASE RemoveFinalizer
  <2>1. UpdateCluster("unfinalize", Absent, "idle") /\ Absent \in Maybe
    BY <1>4 DEF RemoveFinalizer, Maybe
  <2> QED
    BY <2>1, UpdateStep DEF Updated
<1> QED
  BY <1>2, <1>3, <1>4

Builder ==
  \/ reconcileServiceAccount \/ reconcileClusterRole \/ reconcileClusterRoleBinding
  \/ reconcileAgentConfigMap \/ SecretMissing \/ reconcileFRRBootstrapConfigMap
  \/ reconcileDaemonSet \/ reconcileService

\* The steps that build one object after the other.
LEMMA BuilderSteps ==
  ASSUME Types, Builder
  PROVE  /\ Types' /\ pc \in Builds /\ pc' \in Builds /\ UNCHANGED <<mem, uid>>
         /\ api'["cluster"] = api["cluster"] /\ cache'["cluster"] = cache["cluster"]
<1>1. ASSUME NEW k \in Kinds, NEW is, createOrUpdate(k, is), k = "ds" => IsDaemonSet(is)
      PROVE  /\ Types' /\ pc \in Builds /\ pc' \in Builds /\ UNCHANGED <<mem, uid>>
             /\ api'["cluster"] = api["cluster"] /\ cache'["cluster"] = cache["cluster"]
  <2>1. k \in Builds /\ "cluster" \in Objects \ {k}
    BY Names DEF Builds
  <2> QED
    BY <1>1, <2>1, BuildStep
<1>2. {"sa", "svc", "cr", "crb", "config", "frr", "ds"} \subseteq Kinds
  BY DEF Kinds
<1>3. CASE reconcileServiceAccount \/ reconcileService
  BY <1>1, <1>2, <1>3 DEF reconcileServiceAccount, reconcileService
<1>4. CASE reconcileClusterRole \/ reconcileClusterRoleBinding
  BY <1>1, <1>2, <1>4 DEF reconcileClusterRole, reconcileClusterRoleBinding
<1>5. CASE reconcileAgentConfigMap \/ reconcileFRRBootstrapConfigMap
  BY <1>1, <1>2, <1>5 DEF reconcileAgentConfigMap, reconcileFRRBootstrapConfigMap
<1>6. CASE reconcileDaemonSet
  <2> DEFINE ds == api["ds"]
             is == [uid |-> mem.uid, template |-> TemplateFor(mem, Secret),
                    desired |-> IF ds = Absent THEN 0 ELSE ds.desired,
                    ready |-> IF ds = Absent THEN 0 ELSE ds.ready]
  <2>1. IsDaemonSet(ds)
    BY DEF Types
  <2>2. IsDaemonSet(is)
    BY <2>1 DEF IsDaemonSet
  <2>3. createOrUpdate("ds", is)
    BY <1>6 DEF reconcileDaemonSet
  <2> HIDE DEF is
  <2> QED
    BY <1>1, <1>2, <2>2, <2>3
<1>7. CASE SecretMissing
  <2>1. /\ pc = "config" /\ pc' = "ds"
        /\ UNCHANGED <<api, cache, queue, timer, mem, pods, uid, missed, troubles>>
    BY <1>7 DEF SecretMissing, After
  <2> QED
    BY <2>1 DEF Types, IsDaemonSet, Builds, Kinds
<1> QED
  BY <1>3, <1>4, <1>5, <1>6, <1>7 DEF Builder

\* The steps that change neither the cluster nor what the worker knows of it,
\* and create no role.
Calm ==
  /\ Types' /\ UNCHANGED <<pc, mem, uid>>
  /\ api'["cluster"] = api["cluster"] /\ cache'["cluster"] = cache["cluster"]
  /\ \A k \in Roles : \/ api'[k] = Absent
                      \/ api'[k] = api[k] /\ (k \in missed => k \in missed')

LEMMA CalmSteps ==
  ASSUME Types,
         \/ BeginFails \/ TimerFires \/ Kubernetes \/ UNCHANGED vars
         \/ \E pw \in Passwords \cup {Absent} : Rotate(pw)
         \/ \E k \in Kinds : Meddle(k)
  PROVE  Calm
<1>1. CASE BeginFails \/ TimerFires \/ UNCHANGED vars
  BY <1>1 DEF BeginFails, TimerFires, vars, worker, Types, IsDaemonSet, Calm
<1>2. CASE \E pw \in Passwords \cup {Absent} : Rotate(pw)
  <2>1. PICK pw \in Passwords \cup {Absent} : Outside("secret", pw) /\ UNCHANGED uid
    BY <1>2 DEF Rotate
  <2> QED
    BY <2>1, OutsideTypes, Names DEF Calm, Types
<1>3. CASE \E k \in Kinds : Meddle(k)
  <2>1. PICK k \in Kinds : Outside(k, Absent) /\ UNCHANGED uid
    BY <1>3 DEF Meddle
  <2>2. /\ k \in Objects /\ k # "cluster" /\ IsDaemonSet(Absent) /\ uid' \in Nat
        /\ Roles \cup {"cluster"} \subseteq Objects
    BY <2>1, Names DEF IsDaemonSet, Types
  <2>3. /\ Types' /\ UNCHANGED <<pc, mem>> /\ api'[k] = Absent /\ missed' = missed \ {k}
        /\ \A j \in Objects \ {k} : api'[j] = api[j] /\ cache'[j] = cache[j]
    BY <2>1, <2>2, OutsideTypes
  <2> QED
    BY <2>1, <2>2, <2>3 DEF Calm
<1>4. CASE CollectGarbage
  <2>1. PICK garbage \in SUBSET Owned :
          /\ api' = [k \in Objects |-> IF k \in garbage THEN Absent ELSE api[k]]
          /\ cache' = [k \in Objects |-> IF k \in Lagging THEN cache[k] ELSE api'[k]]
    BY <1>4 DEF CollectGarbage, Seen
  <2>2. UNCHANGED <<timer, pc, mem, uid, missed>> /\ queue' \in BOOLEAN
    BY <1>4, EnqueueType DEF CollectGarbage, worker
  <2>3. /\ api'["cluster"] = api["cluster"] /\ cache'["cluster"] = cache["cluster"]
        /\ \A k \in Roles : api'[k] = api[k]
        /\ api'["ds"] \in {api["ds"], Absent} /\ cache'["ds"] \in {cache["ds"], api'["ds"]}
        /\ \A k \in Objects \ Lagging : cache'[k] = api'[k]
    BY <2>1, Names DEF Types, Roles
  <2>4. IsDaemonSet(api'["ds"]) /\ IsDaemonSet(cache'["ds"])
    BY <2>3 DEF IsDaemonSet, Types
  <2>5. Types'
    BY <2>1, <2>2, <2>3, <2>4 DEF Types, IsDaemonSet
  <2> QED
    BY <2>2, <2>3, <2>5 DEF Calm
<1>5. CASE \E n \in Nodes : DeletePod(n) \/ StartPod(n)
  <2>1. UNCHANGED <<api, cache, queue, timer, pc, mem, uid, missed>>
    BY <1>5 DEF DeletePod, StartPod, worker
  <2> QED
    BY <2>1 DEF Types, IsDaemonSet, Calm
<1>6. CASE ReportDaemonSet
  <2> DEFINE ds == api["ds"]
             now == [ds EXCEPT !.desired = Cardinality(Nodes), !.ready = Ready]
  <2>1. ds # Absent /\ Outside("ds", now) /\ UNCHANGED uid
    BY <1>6 DEF ReportDaemonSet, Here
  <2> DEFINE n == Cardinality(Nodes)
             m == Ready
  <2>2. IsDaemonSet(now)
    <3>1. /\ ds = [uid |-> ds.uid, template |-> ds.template,
                   desired |-> ds.desired, ready |-> ds.ready]
          /\ now = [ds EXCEPT !.desired = n, !.ready = m]
          /\ n \in Nat /\ m \in Nat
      BY <2>1, ReadyNat DEF Types, IsDaemonSet
    <3> HIDE DEF n, m, ds, now
    <3>2. now = [uid |-> ds.uid, template |-> ds.template, desired |-> n, ready |-> m]
      BY <3>1
    <3> QED
      BY <3>1, <3>2 DEF IsDaemonSet
  <2> HIDE DEF now
  <2>3. "ds" \in Objects /\ uid' \in Nat /\ Roles \cup {"cluster"} \subseteq Objects \ {"ds"}
    BY <2>1, Names DEF Types
  <2>4. /\ Types' /\ UNCHANGED <<pc, mem>> /\ missed' = missed \ {"ds"}
        /\ \A j \in Objects \ {"ds"} : api'[j] = api[j] /\ cache'[j] = cache[j]
    BY <2>1, <2>2, <2>3, OutsideTypes
  <2> QED
    BY <2>1, <2>3, <2>4 DEF Calm
<1> QED
  BY <1>1, <1>2, <1>3, <1>4, <1>5, <1>6 DEF Kubernetes

\* what users do to the cluster
Edited(is) ==
  /\ Types' /\ UNCHANGED <<pc, mem, missed>> /\ \A j \in Kinds : api'[j] = api[j]
  /\ api'["cluster"] = is /\ cache'["cluster"] \in {cache["cluster"], is}
  /\ \/ /\ Cluster = Absent /\ uid' = uid + 1
        /\ is \in Clusters /\ is.uid = uid + 1 /\ ~is.fin
     \/ /\ Cluster \in Clusters /\ UNCHANGED uid
        /\ is \in Clusters /\ is.uid = Cluster.uid
        /\ (Cluster.fin => is.fin) /\ (is.fin => Cluster.fin) /\ (Cluster.del => is.del)
     \/ Cluster \in Clusters /\ ~Cluster.fin /\ is = Absent /\ UNCHANGED uid

LEMMA UserSteps ==
  ASSUME Types, (\E s \in Specs : CreateCluster(s) \/ EditSpec(s)) \/ DeleteCluster
  PROVE  \E is : Edited(is)
<1>1. ASSUME NEW is \in Maybe, Outside("cluster", is), uid' \in Nat,
             \/ /\ Cluster = Absent /\ uid' = uid + 1
                /\ is \in Clusters /\ is.uid = uid + 1 /\ ~is.fin
             \/ /\ Cluster \in Clusters /\ UNCHANGED uid
                /\ is \in Clusters /\ is.uid = Cluster.uid
                /\ (Cluster.fin => is.fin) /\ (is.fin => Cluster.fin)
                /\ (Cluster.del => is.del)
             \/ Cluster \in Clusters /\ ~Cluster.fin /\ is = Absent /\ UNCHANGED uid
      PROVE  Edited(is)
  <2>1. "cluster" \in Objects /\ Kinds \subseteq Objects \ {"cluster"}
        /\ missed \ {"cluster"} = missed
    BY Names DEF Types
  <2>2. /\ Types' /\ UNCHANGED <<pc, mem>>
        /\ \A j \in Objects \ {"cluster"} : api'[j] = api[j] /\ cache'[j] = cache[j]
        /\ api'["cluster"] = is /\ cache'["cluster"] \in {cache["cluster"], is}
        /\ missed' = missed
    BY <1>1, <2>1, OutsideTypes
  <2> QED
    BY <1>1, <2>1, <2>2 DEF Edited
<1>2. uid \in Nat /\ Cluster \in Maybe
  BY DEF Types, Cluster
<1>3. ASSUME NEW s \in Specs, CreateCluster(s) PROVE \E is : Edited(is)
  <2> DEFINE is == [uid |-> uid + 1, spec |-> s, observed |-> Absent, fin |-> FALSE,
                    del |-> FALSE, phase |-> "", agent |-> Absent]
  <2>1. Cluster = Absent /\ uid' = uid + 1 /\ Outside("cluster", is)
    BY <1>3 DEF CreateCluster
  <2>2. is \in Clusters
    BY <1>2 DEF Clusters, Phases, AgentStatuses
  <2>3. is \in Maybe /\ is.uid = uid + 1 /\ is.fin = FALSE
    BY <2>2 DEF Maybe
  <2> HIDE DEF is
  <2> QED
    BY <1>1, <1>2, <2>1, <2>2, <2>3
<1>4. ASSUME NEW s \in Specs, EditSpec(s) PROVE \E is : Edited(is)
  <2> DEFINE is == [Cluster EXCEPT !.spec = s]
  <2>1. Cluster # Absent /\ UNCHANGED uid /\ Outside("cluster", is)
    BY <1>4 DEF EditSpec
  <2>2. Cluster \in Clusters
    BY <1>2, <2>1 DEF Maybe
  <2>3. /\ is \in Clusters /\ is \in Maybe /\ is.uid = Cluster.uid
        /\ (Cluster.fin => is.fin) /\ (is.fin => Cluster.fin) /\ (Cluster.del => is.del)
    BY <2>2 DEF Clusters, Maybe
  <2> HIDE DEF is
  <2> QED
    BY <1>1, <1>2, <2>1, <2>2, <2>3
<1>5. CASE DeleteCluster
  <2> DEFINE is == [Cluster EXCEPT !.del = TRUE]
  <2>1. /\ Cluster # Absent /\ UNCHANGED uid
        /\ Outside("cluster", IF Cluster.fin THEN is ELSE Absent)
    BY <1>5 DEF DeleteCluster
  <2>2. Cluster \in Clusters
    BY <1>2, <2>1 DEF Maybe
  <2>3. /\ is \in Clusters /\ is \in Maybe /\ is.uid = Cluster.uid /\ Absent \in Maybe
        /\ (Cluster.fin => is.fin) /\ (is.fin => Cluster.fin) /\ (Cluster.del => is.del)
    BY <2>2 DEF Clusters, Maybe
  <2> HIDE DEF is
  <2>4. CASE Cluster.fin
    BY <1>1, <1>2, <2>1, <2>2, <2>3, <2>4
  <2>5. CASE ~Cluster.fin
    BY <1>1, <1>2, <2>1, <2>2, <2>3, <2>5
  <2> QED
    BY <2>4, <2>5
<1> QED
  BY <1>3, <1>4, <1>5

LEMMA SyncStep ==
  ASSUME Types, NEW k \in Lagging, Sync(k)
  PROVE  /\ Types' /\ UNCHANGED <<api, pc, mem, uid, missed>>
         /\ cache'["cluster"] \in {cache["cluster"], api["cluster"]}
<1>1. /\ cache' = [cache EXCEPT ![k] = api[k]] /\ UNCHANGED <<api, timer, pc, mem, uid, missed>>
      /\ queue' \in BOOLEAN /\ k \in Objects
  BY EnqueueType, OperatorAssumption DEF Sync, worker
<1>2. /\ cache' = [j \in Objects |-> cache'[j]]
      /\ \A j \in Objects : cache'[j] = IF j = k THEN api[j] ELSE cache[j]
  BY <1>1 DEF Types
<1>3. /\ cache'["cluster"] \in {cache["cluster"], api["cluster"]}
      /\ cache'["ds"] \in {cache["ds"], api["ds"]}
  BY <1>2, Names
<1>4. IsDaemonSet(api'["ds"]) /\ IsDaemonSet(cache'["ds"])
  BY <1>1, <1>3 DEF Types
<1> QED
  BY <1>1, <1>2, <1>3, <1>4 DEF Types, IsDaemonSet

LEMMA CrashStep ==
  ASSUME Types, Crash
  PROVE  /\ Types' /\ UNCHANGED <<api, uid, missed>> /\ cache' = api
         /\ pc' = "idle" /\ mem' = Absent
BY DEF Crash, Types, IsDaemonSet, Maybe

\* Every step, by what it does.
LEMMA Steps ==
  ASSUME Next
  PROVE  \/ Begin \/ AddFinalizer \/ InitStatus \/ RemoveFinalizer
         \/ CleanCRB \/ CleanCR \/ Builder \/ updateStatus
         \/ \E k \in Lagging : Sync(k)
         \/ (\E s \in Specs : CreateCluster(s) \/ EditSpec(s)) \/ DeleteCluster
         \/ BeginFails \/ TimerFires \/ Kubernetes
         \/ \E pw \in Passwords \cup {Absent} : Rotate(pw)
         \/ \E k \in Kinds : Meddle(k)
         \/ Crash
BY DEF Next, Reconcile, Users, Builder

LEMMA CleanSteps ==
  ASSUME Types, CleanCRB \/ CleanCR
  PROVE  /\ Types' /\ UNCHANGED <<mem, uid>> /\ pc \in {"cleanCRB", "cleanCR"}
         /\ pc' \in {"idle", IF pc = "cleanCRB" THEN "cleanCR" ELSE "unfinalize"}
         /\ api'["cluster"] = api["cluster"] /\ cache'["cluster"] = cache["cluster"]
         /\ \A k \in Roles : \/ api'[k] = Absent
                             \/ api'[k] = api[k] /\ (k \in missed => k \in missed')
         /\ pc' = "cleanCR" => api'["crb"] = Absent \/ "crb" \in missed'
         /\ pc' = "unfinalize" => api'["cr"] = Absent \/ "cr" \in missed'
<1>1. Roles \cup {"cluster"} \subseteq Objects /\ {"cr", "crb"} = Roles
  BY Names DEF Roles
<1>2. CASE CleanCRB
  <2>1. Clean("cleanCRB", "crb", "cleanCR") /\ {"cleanCRB", "cleanCR"} \subseteq Cleans
    BY <1>2 DEF CleanCRB, Cleans
  <2> QED
    BY <1>1, <2>1, CleanStep
<1>3. CASE CleanCR
  <2>1. Clean("cleanCR", "cr", "unfinalize") /\ {"cleanCR", "unfinalize"} \subseteq Cleans
    BY <1>3 DEF CleanCR, Cleans
  <2> QED
    BY <1>1, <2>1, CleanStep
<1> QED
  BY <1>2, <1>3

LEMMA TypesInit == Init => Types
<1> SUFFICES ASSUME Init PROVE Types
  OBVIOUS
<1>1. /\ api = [k \in Objects |-> api[k]] /\ cache = api
      /\ api["cluster"] = Absent /\ api["ds"] = Absent
  BY Names DEF Init
<1>2. /\ queue = FALSE /\ timer = FALSE /\ pc = "idle" /\ mem = Absent /\ uid = 0
      /\ missed = {}
  BY DEF Init
<1> QED
  BY <1>1, <1>2 DEF Types, IsDaemonSet, Maybe

LEMMA TypesStep == Types /\ [Next]_vars => Types'
<1> SUFFICES ASSUME Types, [Next]_vars PROVE Types'
  OBVIOUS
<1>1. CASE Begin
  BY <1>1, BeginTypes
<1>2. CASE AddFinalizer \/ InitStatus \/ RemoveFinalizer
  BY <1>2, UpdateSteps DEF Updated
<1>3. CASE CleanCRB \/ CleanCR
  BY <1>3, CleanSteps
<1>4. CASE Builder
  BY <1>4, BuilderSteps
<1>5. CASE updateStatus
  BY <1>5, StatusStep
<1>6. CASE (\E k \in Lagging : Sync(k)) \/ Crash
  BY <1>6, SyncStep, CrashStep
<1>7. CASE (\E s \in Specs : CreateCluster(s) \/ EditSpec(s)) \/ DeleteCluster
  BY <1>7, UserSteps DEF Edited
<1>8. CASE \/ BeginFails \/ TimerFires \/ Kubernetes \/ UNCHANGED vars
           \/ \E pw \in Passwords \cup {Absent} : Rotate(pw)
           \/ \E k \in Kinds : Meddle(k)
  BY <1>8, CalmSteps DEF Calm
<1> QED
  BY <1>1, <1>2, <1>3, <1>4, <1>5, <1>6, <1>7, <1>8, Steps

\* Every variable keeps its type.
THEOREM OperatorTypes == Spec => []TypeOK
<1>1. Types => TypeOK
  BY OperatorAssumption DEF Types, TypeOK, Cluster, Maybe, Builds, Cleans, Roles
<1> QED
  BY <1>1, TypesInit, TypesStep, PTL DEF Spec

\* However far the caches are behind, and whatever fails, no write of the
\* worker undoes an edit or a deletion: the API server accepts only an update
\* of the cluster as the worker has it, and the worker changes neither.
THEOREM WorkerKeepsEdits == Spec => EditsKept
<1> DEFINE Kept ==
      pc' # pc /\ Cluster # Absent /\ Cluster' # Absent
        => Cluster'.spec = Cluster.spec /\ Cluster'.del = Cluster.del
<1>1. Types /\ [Next]_vars => [Kept]_vars
  <2> SUFFICES ASSUME Types, Next, pc' # pc, api["cluster"] # Absent,
                      api'["cluster"] # Absent
               PROVE  /\ api'["cluster"].spec = api["cluster"].spec
                      /\ api'["cluster"].del = api["cluster"].del
    BY DEF Cluster
  <2>1. CASE Begin \/ Crash \/ \E k \in Lagging : Sync(k)
    <3>1. UNCHANGED api
      BY <2>1 DEF Begin, Crash, Sync
    <3> QED
      BY <3>1
  <2>2. CASE AddFinalizer \/ InitStatus \/ RemoveFinalizer
    BY <2>2, UpdateSteps DEF Updated, Cluster
  <2>3. CASE CleanCRB \/ CleanCR
    BY <2>3, CleanSteps
  <2>4. CASE Builder
    BY <2>4, BuilderSteps
  <2>5. CASE updateStatus
    BY <2>5, StatusStep DEF Cluster
  <2>6. CASE (\E s \in Specs : CreateCluster(s) \/ EditSpec(s)) \/ DeleteCluster
    BY <2>6, UserSteps DEF Edited
  <2>7. CASE \/ BeginFails \/ TimerFires \/ Kubernetes
             \/ \E pw \in Passwords \cup {Absent} : Rotate(pw)
             \/ \E k \in Kinds : Meddle(k)
    BY <2>7, CalmSteps DEF Calm
  <2> QED
    BY <2>1, <2>2, <2>3, <2>4, <2>5, <2>6, <2>7, Steps
<1> QED
  BY <1>1, TypesInit, TypesStep, PTL DEF Spec, EditsKept

-----------------------------------------------------------------------------
(* The finalizer.                                                          *)

FinInv ==
  LET live == api["cluster"]
      copy == cache["cluster"]
  IN  /\ \A k \in Roles : Here(k) /\ k \notin missed => live # Absent /\ live.fin
      /\ pc \in Builds => live # Absent /\ live.fin
      /\ copy # Absent /\ copy.fin /\ ~copy.del => live # Absent /\ live.uid = copy.uid
      /\ copy # Absent /\ live # Absent /\ copy.uid = live.uid =>
           (copy.del => live.del) /\ (copy.fin => live.fin)
      /\ pc \in Cleans =>
           /\ mem.del /\ mem.fin
           /\ copy # Absent /\ copy.fin /\ ~copy.del => copy.uid # mem.uid
           /\ live # Absent /\ live.uid = mem.uid => live.del
      /\ mem # Absent => mem.uid <= uid
      /\ copy # Absent => copy.uid <= uid
      /\ live # Absent => live.uid <= uid
      /\ pc = "cleanCR" => ~Here("crb") \/ "crb" \in missed
      /\ pc = "unfinalize" => \A k \in Roles : ~Here(k) \/ k \in missed

\* No role outlives its cluster unless the clean-up passed it over, however far
\* the caches are behind, whatever fails and whenever the operator crashes.
(* A role exists only under a cluster with a finalizer, or was missed      *)
(* (first conjunct of FinInv).  The worker takes the finalizer off only    *)
(* after it has tried to delete both roles (last two), and builds none     *)
(* once it has seen the deletion; for that it must not start a cycle for a *)
(* cluster that is gone (third), which the uid and the cache's copy of it  *)
(* rule out.                                                               *)
THEOREM RolesDoNotOutlive == Spec => []NoOrphanRoles
<1> USE DEF Here, Cluster
<1>1. Init => FinInv
  <2> SUFFICES ASSUME Init PROVE FinInv
    OBVIOUS
  <2>1. \A k \in {"cluster"} \cup Roles : api[k] = Absent /\ cache[k] = Absent
    BY Names DEF Init, Roles
  <2>2. pc = "idle" /\ mem = Absent
    BY DEF Init
  <2> QED
    BY <2>1, <2>2 DEF FinInv, Builds, Cleans, Kinds
<1>2. Types /\ FinInv /\ [Next]_vars => FinInv'
  <2> SUFFICES ASSUME Types, FinInv, [Next]_vars PROVE FinInv'
    OBVIOUS
  <2>1. /\ Absent \notin Clusters /\ "idle" \notin Builds \cup Cleans
        /\ Builds \cap Cleans = {} /\ "finalizer" \notin Builds \cup Cleans
        /\ "init" \in Builds /\ Roles \subseteq Kinds /\ Roles = {"cr", "crb"}
        /\ \A c \in Clusters : c.uid \in Nat /\ c.fin \in BOOLEAN /\ c.del \in BOOLEAN
    BY OperatorAssumption DEF Builds, Cleans, Kinds, Clusters, Roles
  <2>2. api["cluster"] \in Maybe /\ cache["cluster"] \in Maybe /\ uid \in Nat
    BY DEF Types
  <2>3. CASE Begin
    <3> DEFINE c == cache["cluster"]
    <3>1. /\ \/ pc' = "idle" /\ mem' = Absent
             \/ c # Absent /\ c.del /\ c.fin /\ pc' = "cleanCRB" /\ mem' = c
             \/ c # Absent /\ ~c.del /\ c.fin /\ pc' \in Builds /\ mem' = c
             \/ c # Absent /\ pc' = "finalizer" /\ mem' = c
          /\ UNCHANGED <<api, cache, uid, missed>>
      <4>1. InitialStep(c) \in Builds
        BY DEF InitialStep, Builds, Kinds
      <4> QED
        BY <2>1, <2>3, <4>1 DEF Begin
    <3> QED
      BY <2>1, <2>2, <3>1 DEF FinInv, Cleans, Maybe
  <2>4. CASE AddFinalizer \/ InitStatus \/ RemoveFinalizer
    <3>1. PICK is : Updated(is)
      BY <2>4, UpdateSteps
    <3>2. (\A k \in Roles : api'[k] = api[k]) /\ missed' = missed
      BY <2>1, <3>1 DEF Updated
    <3>3. CASE pc = "unfinalize" /\ is = Absent
      BY <2>1, <2>2, <3>1, <3>2, <3>3 DEF Updated, FinInv, Cleans, Maybe
    <3>4. CASE pc \in {"finalizer", "init"}
      <4>1. /\ is \in Clusters /\ is.uid = mem.uid /\ is.del = mem.del
            /\ pc = "finalizer" \/ mem.fin => is.fin
            /\ UNCHANGED uid /\ mem \in Clusters
        BY <3>1, <3>4 DEF Updated
      <4>2. /\ pc' \in Builds \cup {"idle"} /\ mem' \in {Absent, is}
            /\ pc' \in Builds => api["cluster"] = mem /\ api'["cluster"] = is
        BY <2>1, <3>1 DEF Updated, Cluster
      <4>3. pc' \notin Cleans /\ mem.uid <= uid
        BY <2>1, <4>1, <4>2 DEF FinInv
      <4>4. CASE /\ api["cluster"] = mem /\ api'["cluster"] = is
                 /\ cache'["cluster"] \in {cache["cluster"], is}
        <5>1. is.fin
          BY <2>1, <3>4, <4>1, <4>4 DEF FinInv
        <5> QED
          BY SMTT(30), <2>1, <3>2, <4>1, <4>2, <4>3, <4>4, <5>1 DEF FinInv, Cleans
      <4>5. CASE api'["cluster"] = api["cluster"] /\ cache'["cluster"] = cache["cluster"]
        <5>1. pc' = "idle" \/ api["cluster"] = is
          BY <4>2, <4>5
        <5>2. pc' \in Builds => is.fin
          BY <2>1, <3>4, <4>1, <4>2 DEF FinInv
        <5> QED
          BY SMTT(30), <2>1, <3>2, <4>1, <4>2, <4>3, <4>5, <5>1, <5>2 DEF FinInv, Cleans
      <4> QED
        BY <3>1, <4>4, <4>5 DEF Updated, Cluster
    <3> QED
      BY <3>1, <3>3, <3>4 DEF Updated
  <2>5. CASE CleanCRB \/ CleanCR
    BY <2>1, <2>2, <2>5, CleanSteps DEF FinInv, Cleans, Maybe
  <2>6. CASE Builder
    BY <2>1, <2>2, <2>6, BuilderSteps DEF FinInv, Cleans, Maybe
  <2>7. CASE updateStatus
    <3>1. "status" \in Builds
      BY DEF Builds
    <3> QED
      BY SMTT(30), <2>1, <2>2, <2>7, <3>1, StatusStep DEF FinInv, Cleans, Maybe
  <2>8. CASE \E k \in Lagging : Sync(k)
    BY <2>1, <2>2, <2>8, SyncStep DEF FinInv, Cleans, Maybe
  <2>9. CASE Crash
    BY <2>1, <2>2, <2>9, CrashStep DEF FinInv, Cleans, Maybe
  <2>10. CASE (\E s \in Specs : CreateCluster(s) \/ EditSpec(s)) \/ DeleteCluster
    <3>1. PICK is : Edited(is)
      BY <2>10, UserSteps
    <3>2. (\A k \in Roles : api'[k] = api[k]) /\ missed' = missed
      BY <2>1, <3>1 DEF Edited
    <3>3. /\ UNCHANGED <<pc, mem>> /\ api'["cluster"] = is
          /\ cache'["cluster"] \in {cache["cluster"], is}
      BY <3>1 DEF Edited
    <3>4. CASE /\ api["cluster"] = Absent /\ uid' = uid + 1
               /\ is \in Clusters /\ is.uid = uid + 1 /\ ~is.fin
      <4>1. (\A k \in Roles : api[k] = Absent \/ k \in missed) /\ pc \notin Builds
        BY <3>4 DEF FinInv
      <4>2. mem # Absent => mem \in Clusters /\ mem.uid <= uid
        BY DEF FinInv, Types, Maybe
      <4>3. cache["cluster"] # Absent =>
              /\ cache["cluster"] \in Clusters /\ cache["cluster"].uid <= uid
              /\ ~(cache["cluster"].fin /\ ~cache["cluster"].del)
        BY <2>2, <3>4 DEF FinInv, Maybe
      <4>4. pc \in Cleans => mem # Absent
        BY <2>1 DEF Types
      <4>5. /\ mem # Absent => mem.uid <= uid' /\ mem.uid # is.uid
            /\ cache["cluster"] # Absent =>
                 cache["cluster"].uid <= uid' /\ cache["cluster"].uid # is.uid
            /\ is.uid <= uid'
        BY <2>1, <2>2, <3>4, <4>2, <4>3
      <4>6. CASE cache'["cluster"] = cache["cluster"]
        BY SMTT(30), <2>1, <3>2, <3>3, <3>4, <4>1, <4>3, <4>4, <4>5, <4>6
        DEF FinInv, Cleans
      <4>7. CASE cache'["cluster"] = is
        BY SMTT(30), <2>1, <3>2, <3>3, <3>4, <4>1, <4>4, <4>5, <4>7
        DEF FinInv, Cleans
      <4> QED
        BY <3>3, <4>6, <4>7
    <3>5. CASE /\ api["cluster"] \in Clusters /\ UNCHANGED uid
               /\ is \in Clusters /\ is.uid = api["cluster"].uid
               /\ (api["cluster"].fin => is.fin) /\ (is.fin => api["cluster"].fin)
               /\ (api["cluster"].del => is.del)
      BY <2>1, <2>2, <3>2, <3>3, <3>5 DEF FinInv, Cleans, Maybe
    <3>6. CASE /\ api["cluster"] \in Clusters /\ ~api["cluster"].fin /\ is = Absent
               /\ UNCHANGED uid
      BY <2>1, <2>2, <3>2, <3>3, <3>6 DEF FinInv, Cleans, Maybe
    <3> QED
      BY <3>1, <3>4, <3>5, <3>6 DEF Edited
  <2>11. CASE \/ BeginFails \/ TimerFires \/ Kubernetes \/ UNCHANGED vars
              \/ \E pw \in Passwords \cup {Absent} : Rotate(pw)
              \/ \E k \in Kinds : Meddle(k)
    BY <2>1, <2>2, <2>11, CalmSteps DEF Calm, FinInv, Cleans, Maybe
  <2> QED
    BY <2>3, <2>4, <2>5, <2>6, <2>7, <2>8, <2>9, <2>10, <2>11, Steps
<1>3. FinInv => NoOrphanRoles
  BY DEF FinInv, NoOrphanRoles, Roles
<1> QED
  BY <1>1, <1>2, <1>3, TypesInit, TypesStep, PTL DEF Spec
=============================================================================
