# NovaRoute in TLA+

A verification development for the NovaRoute agent and its Kubernetes operator:
TLA+ modules written from the Go source, TLC configurations that check them on
small instances, and theorems checked by TLAPS.

## 1. The system

The agent accepts *intents* (BGP peers, prefixes, BFD sessions, OSPF
interfaces) from several *owners* over gRPC and makes FRR's running
configuration follow them.

| Part | Source | Role |
|---|---|---|
| RouteControl handlers | `internal/server/server.go` | one goroutine per RPC: validate, change the store, refresh gauges, publish, trigger |
| Policy engine | `internal/policy/engine.go` | token, prefix policy, conflict between owners |
| Intent store | `internal/intent/store.go` | owner → key → intent, in memory, one lock per access |
| Reconciler | `internal/reconciler/reconciler.go` | one loop: four snapshots, a diff against the *applied* maps, vtysh batches; `WithdrawAll` at the end |
| FRR state monitor | same file, 659-791 | polls FRR, publishes state transitions |
| FRR client | `internal/frr/*.go` | one vtysh batch per method; remembers the AS |
| Event bus | `internal/server/events.go` | fan-out to `StreamEvents` with bounded channels |
| Life cycle | `cmd/novaroute-agent/main.go` | connect to FRR, inject the client, configured peers, shutdown |
| Configuration | `internal/config/config.go` | defaults, environment, validation |
| Metrics | `internal/metrics/metrics.go` | gauges and counters |
| Operator | `internal/operator/controller` | Kubernetes controller that deploys the agent: service account, roles, ConfigMaps, DaemonSet, Service, status |
| Clients | `cmd/novaroutectl`, `cmd/novaroute-test` | command line |

Goroutines of the agent: the gRPC handlers, the reconcile loop, `connectFRR`,
`waitForFRR`, and `main`, which waits for a signal. They meet in the store's
lock, the reconciler's `mu`, the trigger channel of capacity one, `sessionsMu`
and the event bus's read-write lock. The operator has one worker per cluster
name; it meets users, the garbage collector and the DaemonSet controller in
the API server.

`PROJECT.json` lists every component with its status, the hazards with their
source lines, and which definition models which lines.

## 2. Modules

| Module | Models |
|---|---|
| `FRRConfig` | the part of FRR's configuration that the agent writes; what each batch does when it succeeds and what it may leave when it fails |
| `Reconciler` | the cycle, the applied maps, `ensureBGPGlobal`, `WithdrawAll` |
| `Agent` | `Reconciler` composed with the store, the RPCs, the trigger, `waitForFRR`, shutdown, restarts of FRR, crashes |
| `Policy` | prefix policies of the owners, over addresses as sequences of bits |
| `RouteControl` | the handlers as interleaved sequences of single accesses, with `Policy` |
| `Delivery` | the abstract specification of one event stream: a bounded queue |
| `EventBus` | publishers, subscribers, streams, `GracefulStop`; implements `Delivery` |
| `Monitor` | the FRR state monitor: polls, remembered states, events |
| `Operator` | the operator's Reconcile against an API server with caches |
| `AgentTypes`, `AgentProofs`, `AgentRemovals` | theorems about `Agent` |
| `RouteControlProofs`, `EventBusProofs`, `OperatorProofs` | theorems about the others |
| `MCAgent`, `MCRouteControl`, `MCEventBus`, `MCOperator` | values of the constants for TLC |
| `MCConverge` | scenarios of `Agent` without failures in one run, the intents seen so far (`seen`), and the properties that need them |
| `MCMonitor` | scenarios of `Monitor` in one run |

### FRRConfig and Reconciler

The four applied maps are one function `applied` from keys (`peerKey(n)`,
`prefixKey(k)`, `bfdKey(n)`, `ospfKey(i)`) to intents or `None`; `desired` is
the same for the maps that a cycle builds from its snapshots. An intent has
the fields that `peerEqual`, `prefixEqual`, `bfdEqual` and `ospfEqual`
compare, so "fields differ" in the code is `#` in the model. Values that no
branch looks into (timers, AS numbers of neighbors, areas) are members of
small sets. The limit of prefixes is a set of address families that have one:
its number is not told apart.

A helper such as `applyPeerIntent` becomes a *plan*: the sequence of client
calls and map updates it makes, each with what its error does. One element of
the plan is one step, so failures, the cancellation, a restart of FRR or a
handler can fall between any two. `pc`, `kind`, `work` and `plan` say where
the loop is; `MuHeld` is where it holds `mu`, and the two operations that
others call on the reconciler (`SetFRRClient`, `UpdateBGPGlobal`) wait for it.
The range loops over Go maps visit the keys in any order.

FRR is external. Assumed of it: removing what is absent succeeds; a second
"router bgp" with another AS is refused; `router bgp X` creates the instance
when there is none; removing the instance removes its neighbors and networks,
while route-maps, BFD sessions and OSPF interfaces stay; a line replaces what
the same line set before (`ip ospf area` the area, which `Agent_converge`
relies on); a restart loses everything, as the client never writes the
configuration to disk. Parameters that an intent leaves at zero (`Unset`) send
no line, so those of an earlier intent stay. A batch that fails (`RunFail`) may
have done nothing, everything, or its first lines, since vtysh executes it line
by line (`FailedEffects`, `PartialEffect`).

### Agent

Handlers change the store in one step and trigger in a later one. An owner has
at most one RPC between the two. Requests are those that pass validation; the
defaults that handlers fill in are modelled (`BFDOrDefault`, `AFsOrDefault`).
The look-up for another owner of the prefix is left to `RouteControl`; `Agent`
allows any owner to hold any key, which is more than the code does and
includes the administrator and the race of section 4. `initConfigPeers` stores
the configured peers in any order. A read of the store can order the owners in
any way, and the last one wins, as in the code's `desiredMap`.

`Cancel` may fall anywhere. A batch in flight at that moment is killed: it
ends in any way (`ctx = "dying"`), and every later one fails before it starts
(`"dead"`). `WithdrawAll` runs with a context of its own. The FRR state
monitor at the end of a cycle writes nothing that the rest reads, and has a
module of its own.

### Policy and RouteControl

A prefix is a family, the bits of the address as the client spelled it, and a
length: `ValidatePrefix`, `Contains` (Go's `net.IPNet.Contains`) and
`validateAllowedCIDRs` are translated with their comparisons of bits and
lengths. An IPv6 spelling may be IPv4-mapped (`::ffff:a.b.c.d`): `To4` and
`isIPv4` take its address for IPv4, as package `net` does, while its length
stays that of a mask of 128 bits. `Complies` is the meaning the checks are held
against, by sets of addresses. For an IPv4-mapped spelling it only asks that
the address as spelled is in a range, because that is all the check ensures: a
mapped address with length 32 has the length of an IPv4 host and a mask of its
first 32 bits of 128. Of an IPv6 subnet `Complies` asks that it is not a single
address: the code rejects /128 and no other length, while its comment
(`engine.go:143`) speaks of /16 through /64 and `docs/configuration.md:204` of
/1 through /127.

A handler is a sequence of accesses (`"lookup"`, `"store"`, `"count"`,
`"gauge"`, `"publish"`, `"trigger"`, ...), in the order of the code; every
access is one step and steps of different calls interleave. The two reads of
`Register` (prefixes and peers of the owner) are one step, after the other
owner's steps they commute with. `raced` (two calls have overlapped) and
`cleared` (owners that used withdraw_all) are history that the properties need
to say where they hold.

### EventBus and Delivery

A publisher holds the read lock from `Publish` to `Finish` and visits the
subscribers one at a time; several publishers interleave. `Subscribe` and
`Unsubscribe` need the write lock. The channel capacity is the constant `Cap`,
256 in the code. The stream loop receives (`Receive`), has the event in `hand`
while `stream.Send` blocks, and goes on (`Send`) or returns (`SendFails`); with
nothing to send it returns when the client has gone (`EndStream`).

`Delivery` says what one stream promises its client: events that match its
filters enter a queue in their publisher's order, a bounded number of them
waits (`Cap` in the channel and one in the handler's hand), and they leave
first in, first out, until the client goes. The refinement mapping `Queue(s)`
takes what the client has received followed by the hand and the channel as the
queue while the client is connected, and only what it has received afterwards. `StreamsDeliver` states that every step of the bus is, for every
stream, a step of `Delivery` or none.

### Monitor

`live` is the state of each session in FRR, `last` the three maps of last
states. A show command answers with the sessions of a key in some order, or
fails; the answer is external. The reconciler may remove a session that FRR has
already lost. The places in the reconciler that delete last states (a removed peer or
BFD session, a change of the AS) are actions on `last`. Of a state only "up",
"down", "init" and "gone" are told apart, which is all that the comparisons
look at. A BFD or OSPF key may have a session on several interfaces. `view` is
what someone believes who has followed the events.

### Operator

The worker makes one API call per step, in the order of Reconcile. Reads come
from `cache`, which for the objects in `Lagging` follows `api` only by `Sync`.
An object is its contents, and "the cached copy equals the object" stands for
an equal resource version. An update from an old copy is refused; a read or a
write may also fail (`"fault"`), a write with or without effect. Writes of the
status change the status only (`StatusOf`). The clean-up takes any error of its
Get for "already gone", and its cache may not have a role yet: the history
variable `missed` holds the roles that it passed over for one of the two
reasons. `createOrUpdate` and
`UpdateCluster` are the two shapes of a write. Of a spec, `version` stands for
whatever reaches the pod template, `conf` for what only the ConfigMaps show,
`refs` for a password in the Secret. What an error skips is `After`. The queue
gets the cluster's name when a watched object changes in the cache
(`SetupWithManager`), after an error, and when the `RequeueAfter` fires.

Garbage collection, the pods and the DaemonSet's status are external and do
what Kubernetes documents; a pod needs its service account and ConfigMaps to
start, and the agent reads its configuration once. Pods of an old template are
deleted (the update strategy RollingUpdate). Troubles other than the first
creation and deletion are bounded together by `MaxTroubles`.

## 3. Runs that pass

| Run | Question | Properties |
|---|---|---|
| `Agent_converge` | without failures, does FRR converge to what clients declare, and does a shutdown clean up in order? | `PrefixesConverge`, `PrefixesTracked`, `PeersConverge`, `BFDConverge`, `OSPFConverge`, `ShutdownLeavesNothing`, `RemovesOnlyUndesired`, `PeersWithdrawnLast` |
| `Agent_faults` | what survives failed batches, restarts, crashes and shutdown? | `TypeOK`, `NoLostUpdate`, `RemovesOnlyUndesired` |
| `Agent_live` | does everything settle once clients and failures stop, and does a shutdown at any point end? | `Settles`, `Recovers`, `ShutdownEnds` |
| `RouteControl_calls` | are ownership, policies, events, gauges and triggers right with two calls in flight? | `TypeOK`, `SerialUniqueOwner`, `PolicyKept`, `EventsTellStore`, `GaugesCount`, `SessionsCounted`, `ChangesSeen` |
| `EventBus_streams` | does every stream implement `Delivery`, are sends safe and complete, do publishers and abandoned streams finish? | `TypeOK`, `NeverSendsOnClosed`, `NothingElseLost`, `StreamsDeliver`, `PublishEnds`, `StreamsEnd` |
| `Monitor_events` | do the events tell what the polls found, and how sessions end up? | `TypeOK`, `EventsTellPolls`, `EventsTellChanges`, `EndsTold` |
| `Operator_settles` | do the objects follow the spec, do the roles go with the cluster, are edits kept? | `TypeOK`, `NoOrphanRoles`, `EditsKept`, `Settles` |

*Bounds.* In `Agent`, three RPCs (`MaxCalls`) reach declare, update and
withdraw of one key, and two calls around a change of the AS. One failed batch
(`MaxFaults`) at any point is enough to separate FRR from the applied maps; two
attributes give changing intents, and a client beside the configuration file
conflicting ones. `Agent_converge` chooses one of eight scenarios at the
start: `peers` (changing remote AS, BFD, options and address families of two
neighbors, one of them also in the configuration file), `prefixes` (any
attributes, with changes of the AS), `bfd` and `ospf` (two owners of one
session or interface, which differ in interface, parameters, version, area and
passive mode), `peerbfd` (a peer and a BFD intent for one neighbor, with
changes of the AS), and three shutdowns between cycles: with a BFD peer and a
prefix, with a peer and a BFD intent, with a prefix and a passive interface.
They are separate because the stages share only BFD sessions and the AS. The
header of `MCConverge` says which interleavings it leaves out and why. Its
208,353 states take about a minute; four RPCs (728,809 states) pass as well.
`Agent_faults` has one
key of each kind, two ASNs, two RPCs, and one failed batch, one restart of FRR
and one crash of the agent in any order.

`RouteControl_calls` has three owners with three kinds of policy, one of them
the administrator; IPv4 addresses of two bits and IPv6 addresses of three, half
of them IPv4-mapped, with five prefixes (a host, a subnet spelled with bits
behind its mask, everything, an IPv6 host and an IPv4-mapped spelling), which
reach every type of policy and both ways a range may refuse; two calls in flight and three in all, enough for a prefix
that is taken, refused and overridden. Channels of two events, three events and
two publishers reach empty, full and overflowing channels, two events that wait
in order while a third is in hand, and visits in opposite orders; the filtered
stream asks for the first and the last event, and the server is asked to stop
when no stream is open (`EventBus_stop` is about the other case). `Monitor_events` has two scenarios: a BGP, a BFD and an OSPF
key with one session each, and an OSPF key beside a BFD key with sessions on
two interfaces. `Operator_settles` has one node, caches of the cluster and of the
ClusterRole that lag, and one trouble of any kind beyond creation and deletion.

Runs that may end in a state where nothing is left to do (a finished shutdown,
an idle server) do not check for deadlock; the others do.

*Fairness* (`FairSpec`). Goroutines that can run do run: weak fairness of the
loop, of its plans, of `waitForFRR` (FRR comes up at some point), of main and
of the trigger of every handler. The ticker makes the loop wake up for ever. A
`select` that finds `ctx.Done` ready again and again takes it, as Go chooses
at random: strong fairness of `Stop`. In `EventBus` a waiting writer is not
starved, because `sync.RWMutex` keeps new readers out: strong fairness of
`Unsubscribe`; a handler whose client has gone notices it in `Send` or in the
`select` (weak fairness of `EndStream \/ SendFails`). Clients need neither
call, read nor leave. In `Monitor` cycles go on with every tick and get past
`ensureBGPGlobal`, whose error ends a cycle before the monitor: weak fairness
of `monitorFRRState` assumes that this error does not last. FRR answers each
show command again and again, though any one may fail (strong fairness of
`Poll`). In `Operator` the worker runs, watches deliver, timers fire and
Kubernetes does its part (weak fairness each); users owe nothing.

## 4. Where the code and its documentation disagree

Each of these runs checks one property that a document or a comment states and
ends in a counterexample; `findings` in `PROJECT.json` quotes the lines.

| Run | What happens |
|---|---|
| `Agent_failed_update` | a batch reported as failed took effect, and its intent is withdrawn before the retry: the network stays (`PrefixesConverge`) |
| `Agent_frr_restart` | FRR restarts and is never configured again (`PrefixDriftRepaired`) |
| `RouteControl_race` | two owners obtain one prefix (`UniqueOwner`) |
| `EventBus_stop` | GracefulStop waits for a connected stream for ever (`StopEnds`) |
| `Operator_rotation` | the Secret changes between the two reads of a cycle: the ConfigMap has the old password beside the hash of the new one, the agents restart with the old one and are not restarted again (`SecretRotates`) |

Some properties state a weaker result than a reader of the documentation might
expect, because the code does no more; `seen` in `MCConverge` and `missed` in
`Operator` make the difference exact. Without the condition named here TLC
finds each of these in the same run:

| Property | Condition | What the code does |
|---|---|---|
| `BFDConverge` | sessions of a neighbor asked for in one way only | a BFD intent that moves to another interface leaves the old session |
| `BFDConverge` | the same | of a BFD peer and a BFD intent for one neighbor, the one that is removed takes the other's session with it or leaves its own parameters |
| `BFDConverge` | no change of the AS beside BFD peers | a peer withdrawn across a change of the AS leaves its session |
| `OSPFConverge` | intents agree on the passive mode | an interface once passive stays passive: only a disable sends `no passive-interface`, though `docs/architecture.md:319` lists the passive mode among the fields whose change is applied |
| `OSPFConverge` | intents agree on the version | a change between OSPFv2 and OSPFv3 leaves the old version enabled |
| `OSPFConverge` | parameters set | a cost or timer taken out of an intent stays |
| `PeersConverge` | options and address families of some earlier intent | one that is taken out of a peer stays |
| `ShutdownLeavesNothing` | automatic sessions still in `peerManagedBFD` | a last cycle under the dead context forgets a session it could not remove |
| `PolicyKept` | spelled other than IPv4-mapped | see section 2 |
| `NoOrphanRoles` | roles not in `missed` | the clean-up lets the finalizer go although a role is left |

Other situations are outside the runs by their constants, or outside a property
by its wording. To see one, change the constants or the property as given:

| Property | Change | What happens |
|---|---|---|
| `PrefixesConverge` | `MaxCrashes = 1` | FRR keeps what a crashed agent configured and nobody declares again |
| `Recovers` | `MaxFaults = 1`, two ASNs, `ConfigAS = 0` | a first "router bgp" batch that fails after its first line blocks any other AS |
| `Recovers` | `MaxCrashes = 1`, two ASNs | after ConfigureBGP and a crash the AS of the file is refused |
| `ShutdownLeavesNothing` | `CancelWhen = "any"` | a batch killed by the shutdown took effect and is not withdrawn |
| `GaugesCount` | without `\ cleared` | Deregister with withdraw_all leaves the gauges as they were |
| `GaugesCount` | `PerOwner = 2` | two calls of one owner set a gauge in the other order than they counted |
| `SessionsCounted` | without `~raced` | two calls set the gauge in the other order than they counted |
| `SerialUniqueOwner` | without `\ {Admin}` | an override by the administrator leaves the first owner's intent in the store |
| `EventsTellChanges`, `EndsTold` | without the restriction to one session per key | sessions on two interfaces share one last state, and every poll that finds them different reports a change |

`UniqueOwner` goes by keys, as `findPrefixOwner` does: 10.0.0.1/24 and
10.0.0.0/24 are one network and two keys, and nested networks do not conflict.

## 5. Proofs

All theorems hold for every value of the constants that satisfies the named
assumptions (`AgentAssumption`, `PolicyAssumption`, `RouteControlAssumption`,
`EventBusAssumption`, `OperatorAssumption`). They are weak: keys have the right
shape, the bounds are naturals, "no entry" is not an entry.

* `AgentProofs!NoUpdateIsLost` : `Spec => []NoLostUpdate`. Failed batches,
  restarts, crashes and shutdown included. `NoLostUpdate` is not inductive
  alone; `LoopInv` adds that a connected agent has a client (so that a cycle
  gets as far as its reads), that a cycle in `"configure"` still finds
  `bgpConfigured` false (`mu` keeps `ConfigureBGP` out), and that reads start
  with the peers. The interesting step is `Triggered`: it takes the signal
  away, and the cycle it starts has all four reads before it.
* `AgentTypes!TypeCorrect` : `Spec => []TypeOK`. `TypeOK` includes that a plan
  consists of calls with arguments that fit the method. It needs `WorkOK`: the
  keys still to be visited are desired (in an apply loop) or applied (in a
  removal loop), otherwise a plan would be built from `None`; the plan under
  way removes no entry of a key still to be visited (the removal of a peer
  also deletes the `appliedBFD` entry of its session, a key of another stage);
  and outside `mu` there is no plan, so that `SetFRRClient` cannot empty the
  maps under a loop.
* `AgentRemovals!KeepsDesired` : `Spec => RemovesOnlyUndesired`. `SparingInv`
  adds to the type invariant that the removal loop ranges over keys that are
  not desired and that what is left of a plan spares what is. `BatchRemoves`
  is the other half: a batch, run completely, partly or not at all, takes out
  of FRR what it names and nothing else, "no router bgp" apart, which no stage
  sends.
* `RouteControlProofs!StoreComplies` : `Spec => []PolicyKept`, for addresses of
  any width and every spelling that `net.ParseCIDR` accepts. The lemmas show
  that a range contains the address it is compared with, also after `To4`, and
  that for spellings that are not IPv4-mapped the comparison of one address and
  two lengths implies inclusion of all addresses; `CallsInv` shows that a call
  that may still store a prefix is one whose prefix was validated.
* `RouteControlProofs!SerialOwners` : `Spec => []SerialUniqueOwner`. While no
  call has overlapped another (`Alone`), a call whose next access stores a
  prefix finds nobody else holding it (`Cleared`); the race of section 4 is
  exactly where that fails.
* `RouteControlProofs!EveryChangeSeen` : `Spec => []ChangesSeen`, from
  `SeenInv`: a signal is there, the store is as last read, or some call that
  changed it has a trigger before it; `TodoOK` says that no handler returns
  between the change and the trigger.
* `EventBusProofs!NoSendOnClosed` : `Spec => []NeverSendsOnClosed`, from
  `LockInv`: a publisher with streams to visit holds the read lock, visits
  only subscribed streams, and closed streams are gone.
* `EventBusProofs!BusTypeCorrect` : `Spec => []TypeOK`, in particular that no
  channel holds more than `Cap` events and no handler more than one.
* `EventBusProofs!BusDelivers` : `Spec => StreamsDeliver`, the refinement.
  `OrderInv` carries it: the events of a publisher in a channel and at a client
  are numbered upwards, and older than the one it is about to send.
* `OperatorProofs!OperatorTypes` : `Spec => []TypeOK`.
* `OperatorProofs!WorkerKeepsEdits` : `Spec => EditsKept`, for any `Lagging`:
  the worker's copy of the cluster may be of any age, and a write made from an
  old one is refused.
* `OperatorProofs!RolesDoNotOutlive` : `Spec => []NoOrphanRoles`, for any
  `Lagging` and with failing reads. `FinInv` is the argument: a role that was
  not passed over and a worker that builds need a live cluster with the
  finalizer; a cached cluster that looks alive is the live one, since only a
  worker that cleans up lets the finalizer go, and it does so for a cluster
  marked as deleted, of which there is never an unmarked copy again; uids tell
  a cluster from one created after it.

Only model-checked: the convergence properties and shutdown of the agent, the
completeness of events, gauges, the monitor, and all liveness (fairness and
`ENABLED` are outside the proof system's reach).

## 6. Not modelled, and why

* `GetStatus`, the JSON of the show commands, counters and histograms: they
  only read state, or only grow.
* `ApplyIntent` and `RemoveIntent` of the reconciler: no callers.
* Tokens and the operation lists of the policy engine: a request that they
  reject touches no state, and one that they accept is as modelled.
* The owner and the text of a monitor event.
* `Load`, `ExpandEnvVars` and most of `Validate` (`config.go`), and the checks
  of a request's fields: they run before any modelled state changes. Two
  computations in 32 bits there (`server.go:342`, `config.go:347`) are listed
  as a hazard without a property.
* The retry loop of `connectFRR`, sockets and the metrics endpoint: I/O. That
  FRR comes up at some time is all that the rest depends on.
* The manager and the leader election of the operator are libraries: one
  worker is assumed. A second cluster is not modelled, nor is the strategy
  OnDelete, nor an agent that keeps an old ConfigMap after an edit that leaves
  the template alone.
* Command line clients and generated code.
