------------------------------- MODULE Agent -------------------------------
(***************************************************************************)
(* The agent around the reconciler: RPC handlers that change the intent    *)
(* store and then trigger, the goroutine that injects the FRR client, the  *)
(* loop that wakes up on a tick or a trigger, and shutdown.                *)
(*                                                                         *)
(* Requests stand for those that pass the validation of their fields, the  *)
(* token and the owner's policy; the look-up for other owners of a prefix  *)
(* is the subject of RouteControl, and here any owner may declare any key. *)
(***************************************************************************)
EXTENDS Reconciler

CONSTANTS
  Owners,        \* the owners of the configuration
  ConfigOwner,   \* "_config", the owner of the configuration file's peers
  ConfigPeers,   \* those peers: a function from neighbors to PeerIntent
  Requests,      \* what clients declare, before defaults: <<key, intent>>
  DefaultAF,     \* IPv4 unicast
  DefaultBFD,    \* 300 ms, 300 ms and 3
  MaxCalls,      \* bound on the RPCs
  MaxRestarts,   \* bound on the restarts of FRR
  MaxCrashes,    \* bound on the crashes of the agent
  CancelWhen     \* when it is told to stop: "never", "idle" or "any" time

AllOwners == Owners \cup {ConfigOwner}

ASSUME AgentAssumption ==
  /\ ConfigOwner \notin Owners
  /\ DOMAIN ConfigPeers \subseteq Neighbors
  /\ \A n \in DOMAIN ConfigPeers : ConfigPeers[n] \in PeerIntent
  /\ \A r \in Requests : r[1] \in Slots /\ r[2] \in IntentsOf(r[1][1])
  /\ DefaultAF \in AFs /\ DefaultBFD \in BFDParams \ {Unset}
  /\ None \notin Intents /\ None \notin Neighbor
  /\ {MaxFaults, MaxCalls, MaxRestarts, MaxCrashes} \subseteq Nat
  /\ CancelWhen \in {"never", "idle", "any"}
  /\ ASNs \subseteq Nat \ {0}
  /\ ConfigAS \in ASNs \cup {0}
  /\ IsFiniteSet(Owners) /\ IsFiniteSet(AFs)

VARIABLES
  intents,    \* the store: owner, then key
  triggerCh,  \* a signal is in the channel (capacity 1)
  rpc,        \* handlers that changed something and have yet to trigger
  conn,       \* where waitForFRR is
  calls,      \* RPCs so far
  restarts,   \* restarts of FRR so far
  crashes     \* crashes of the agent so far

agentVars == <<intents, triggerCh, rpc, conn, calls, restarts, crashes>>
vars == <<recVars, agentVars>>

Init ==
  /\ RecInit
  /\ intents = [o \in AllOwners |-> [s \in Slots |-> None]]
  /\ triggerCh = FALSE
  /\ rpc = {}
  /\ conn = "wait"
  /\ calls = 0
  /\ restarts = 0
  /\ crashes = 0

(***************************************************************************)
(* RPC handlers.  Each one changes the state, and triggers in a later step *)
(* of its own (gauges and events come in between).                         *)
(***************************************************************************)
Call(o) ==
  /\ o \notin rpc
  /\ calls < MaxCalls
  /\ calls' = calls + 1
  /\ rpc' = rpc \cup {o}
  /\ UNCHANGED <<triggerCh, conn, restarts, crashes>>

\* Store.setIntent: the owner's entry for the key is replaced
SetIntent(o, s, v) ==
  /\ Call(o)
  /\ intents' = [intents EXCEPT ![o][s] = v]
  /\ UNCHANGED recVars

\* the Remove...Intent methods; without an entry the handler answers NotFound
RemoveIntent(o, s) ==
  /\ intents[o][s] # None
  /\ Call(o)
  /\ intents' = [intents EXCEPT ![o][s] = None]
  /\ UNCHANGED recVars

\* parameters and address families that the client left out
BFDOrDefault(b) == IF b = Unset THEN DefaultBFD ELSE b
AFsOrDefault(afs) == IF afs = {} THEN {DefaultAF} ELSE afs

ApplyPeer(o, n, p) ==
  SetIntent(o, peerKey(n),
            [p EXCEPT !.afs = AFsOrDefault(@),
                      !.bfdParams = IF p.bfd THEN BFDOrDefault(@) ELSE @])

\* attributes are refused for OSPF; an entry of another owner is refused too,
\* unless it is stored between the look-up and this step or the caller is the
\* administrator
AdvertisePrefix(o, k, p) ==
  /\ Proto[k] = "OSPF" => p.attrs = {}
  /\ SetIntent(o, prefixKey(k), p)

EnableBFD(o, n, b) ==
  SetIntent(o, bfdKey(n), [b EXCEPT !.params = BFDOrDefault(@)])

EnableOSPF(o, i, x) == SetIntent(o, ospfKey(i), x)

RemovePeer(o, n) == RemoveIntent(o, peerKey(n))
WithdrawPrefix(o, k) == RemoveIntent(o, prefixKey(k))
DisableBFD(o, n) == RemoveIntent(o, bfdKey(n))
DisableOSPF(o, i) == RemoveIntent(o, ospfKey(i))

\* Deregister with withdraw_all
Deregister(o) ==
  /\ Call(o)
  /\ intents' = [intents EXCEPT ![o] = [s \in Slots |-> None]]
  /\ UNCHANGED recVars

ConfigureBGP(o, as) ==
  /\ Call(o)
  /\ UpdateBGPGlobal(as)
  /\ UNCHANGED intents

\* Mutant of TriggerReconcile: no signal while a cycle is running.
SkipTriggerWhileBusy(o) ==
  /\ o \in rpc
  /\ rpc' = rpc \ {o}
  /\ triggerCh' = (triggerCh \/ pc = "idle")
  /\ UNCHANGED <<recVars, intents, conn, calls, restarts, crashes>>

\* a non-blocking send on a channel of capacity one
TriggerReconcile(o) ==
  /\ o \in rpc
  /\ rpc' = rpc \ {o}
  /\ triggerCh' = TRUE
  /\ UNCHANGED <<recVars, intents, conn, calls, restarts, crashes>>

(***************************************************************************)
(* waitForFRR.                                                             *)
(***************************************************************************)
InjectClient ==
  /\ conn = "wait"
  /\ SetFRRClient
  /\ conn' = "peers"
  /\ UNCHANGED <<intents, triggerCh, rpc, calls, restarts, crashes>>

initConfigPeers(n) ==
  /\ conn = "peers"
  /\ intents[ConfigOwner][peerKey(n)] = None
  /\ intents' = [intents EXCEPT ![ConfigOwner][peerKey(n)] = ConfigPeers[n]]
  /\ UNCHANGED <<recVars, triggerCh, rpc, conn, calls, restarts, crashes>>

ConnectTrigger ==
  /\ conn = "peers"
  /\ \A n \in DOMAIN ConfigPeers : intents[ConfigOwner][peerKey(n)] # None
  /\ conn' = "done"
  /\ triggerCh' = TRUE
  /\ UNCHANGED <<recVars, intents, rpc, calls, restarts, crashes>>

\* the context is cancelled before FRR is ready
GiveUp ==
  /\ conn = "wait"
  /\ ctx # "live"
  /\ conn' = "done"
  /\ UNCHANGED <<recVars, intents, triggerCh, rpc, calls, restarts, crashes>>

waitForFRR ==
  \/ InjectClient
  \/ GiveUp
  \/ \E n \in DOMAIN ConfigPeers : initConfigPeers(n)
  \/ ConnectTrigger

(***************************************************************************)
(* RunLoop.                                                                *)
(***************************************************************************)
\* Mutant of Wake: the errors of earlier cycles are kept.
WakeKeepErrs ==
  /\ pc = "idle"
  /\ pc' = "begin"
  /\ clean' = FALSE
  /\ UNCHANGED <<frr, plan, errs, applied, peerManagedBFD, ctx, faults,
                 globalVars, desired, kind, work, intents, rpc, conn, calls,
                 restarts, crashes>>

Wake ==
  /\ pc = "idle"
  /\ pc' = "begin"
  /\ errs' = FALSE
  /\ clean' = FALSE
  /\ UNCHANGED <<frr, plan, applied, peerManagedBFD, ctx, faults, globalVars,
                 desired, kind, work, intents, rpc, conn, calls, restarts,
                 crashes>>

Tick == Wake /\ UNCHANGED triggerCh

Triggered == triggerCh /\ Wake /\ triggerCh' = FALSE

\* the maps a read of the store can turn into: the owners come in the random
\* order of a Go map, and the last one with an intent for the key wins
DesiredMaps(k) ==
  {[s \in SlotsOf(k) |->
      LET has == {i \in DOMAIN order : intents[order[i]][s] # None}
      IN  IF has = {} THEN None
          ELSE intents[order[CHOOSE i \in has : \A j \in has : j <= i]][s]] :
    order \in Orders(AllOwners)}

ReadStore ==
  /\ \E snap \in DesiredMaps(kind) : Snapshot(snap)
  /\ UNCHANGED agentVars

Stop ==
  /\ pc = "idle"
  /\ ctx # "live"
  /\ pc' = "stopped"
  /\ UNCHANGED <<planVars, globalVars, desired, kind, work, clean, agentVars>>

RunLoop ==
  \/ Tick \/ Triggered \/ ReadStore \/ Stop
  \/ CycleStep /\ UNCHANGED agentVars

(***************************************************************************)
(* Shutdown: main cancels the context, at any point of the cycle, waits    *)
(* for the loop to return and withdraws everything.                        *)
(***************************************************************************)
Cancel ==
  /\ ctx = "live"
  /\ \/ CancelWhen = "any"
     \/ CancelWhen = "idle" /\ pc = "idle"
  /\ ctx' = IF plan # << >> THEN "dying" ELSE "dead"
  /\ UNCHANGED <<frr, plan, errs, applied, peerManagedBFD, faults, globalVars,
                 desired, pc, kind, work, clean, agentVars>>

gracefulShutdown == WithdrawStep /\ UNCHANGED agentVars

\* the helper call that the loop, or WithdrawAll, is in
RunPlan == PlanStep /\ UNCHANGED agentVars

(* FRR is restarted beside the agent and comes back with nothing; no code  *)
(* notices, because connectFRR returned after the first connection.        *)
RestartFRR ==
  /\ conn # "wait"
  /\ restarts < MaxRestarts
  /\ restarts' = restarts + 1
  /\ frr' = EmptyConfig
  /\ UNCHANGED <<plan, errs, applied, peerManagedBFD, ctx, faults, globalVars,
                 desired, pc, kind, work, clean, intents, triggerCh, rpc, conn,
                 calls, crashes>>

(* The agent dies and is started again: all its memory is gone, FRR keeps  *)
(* what it has, and a batch in flight ends in any way.                     *)
Crash ==
  /\ crashes < MaxCrashes
  /\ crashes' = crashes + 1
  /\ frr' \in IF plan = << >> \/ Head(plan).op \in BookOps THEN {frr}
              ELSE FailedEffects(frr, localAS, Head(plan))
  /\ client' = FALSE /\ localAS' = 0 /\ bgpGlobal' = ConfigAS
  /\ bgpConfigured' = FALSE /\ peerManagedBFD' = {}
  /\ applied' = [s \in Slots |-> None] /\ desired' = [s \in Slots |-> None]
  /\ pc' = "idle" /\ kind' = "peer" /\ work' = {} /\ plan' = << >>
  /\ errs' = FALSE /\ clean' = FALSE /\ ctx' = "live"
  /\ intents' = [o \in AllOwners |-> [s \in Slots |-> None]]
  /\ triggerCh' = FALSE /\ rpc' = {} /\ conn' = "wait"
  /\ UNCHANGED <<faults, calls, restarts>>

Request(o, s, v) ==
  \/ s[1] = "peer" /\ ApplyPeer(o, s[2], v)
  \/ s[1] = "prefix" /\ AdvertisePrefix(o, s[2], v)
  \/ s[1] = "bfd" /\ EnableBFD(o, s[2], v)
  \/ s[1] = "ospf" /\ EnableOSPF(o, s[2], v)

Handlers ==
  \E o \in Owners :
    \/ \E r \in Requests : Request(o, r[1], r[2])
    \/ \E n \in Neighbors : RemovePeer(o, n) \/ DisableBFD(o, n)
    \/ \E k \in PrefixSet : WithdrawPrefix(o, k)
    \/ \E i \in Ifaces : DisableOSPF(o, i)
    \/ Deregister(o)
    \/ \E as \in ASNs : ConfigureBGP(o, as)
    \/ TriggerReconcile(o)

Next ==
  \/ Handlers
  \/ waitForFRR
  \/ RunLoop
  \/ RunPlan
  \/ Cancel
  \/ gracefulShutdown
  \/ RestartFRR
  \/ Crash

(* Goroutines that can run do run, the ticker keeps firing, FRR comes up   *)
(* at some point, and a select that finds ctx.Done ready time and again    *)
(* takes it (Go chooses among the ready cases at random).  Nothing obliges *)
(* clients to call.                                                        *)
Fairness ==
  /\ WF_vars(RunLoop)
  /\ WF_vars(RunPlan)
  /\ SF_vars(Stop)
  /\ WF_vars(waitForFRR)
  /\ WF_vars(gracefulShutdown)
  /\ \A o \in Owners : WF_vars(TriggerReconcile(o))

Spec == Init /\ [][Next]_vars

FairSpec == Spec /\ Fairness

(***************************************************************************)
(* Properties.                                                             *)
(***************************************************************************)
\* Every variable has its type: the maps hold intents of their key's kind, and
\* a plan is made of client calls with arguments that fit the method.
TypeOK ==
  /\ frr \in Configs
  /\ {client, bgpConfigured, errs, clean, triggerCh} \subseteq BOOLEAN
  /\ localAS \in ASNs \cup {0} /\ bgpGlobal \in ASNs \cup {0}
  /\ applied \in IntentMaps /\ desired \in IntentMaps
  /\ intents \in [AllOwners -> IntentMaps]
  /\ peerManagedBFD \subseteq Neighbors
  /\ pc \in {"idle", "begin", "global", "configure", "snapshot", "enter",
             "apply", "remove", "stopped", "withdraw", "done"}
  /\ kind \in Kinds
  /\ work \subseteq Slots
  /\ plan \in Seq(Cmds)
  /\ ctx \in {"live", "dying", "dead"}
  /\ faults \in 0..MaxFaults
  /\ rpc \subseteq Owners
  /\ conn \in {"wait", "peers", "done"}
  /\ calls \in 0..MaxCalls /\ restarts \in 0..MaxRestarts
  /\ crashes \in 0..MaxCrashes

\* the last snapshot of kind k is still one the store can produce
Fresh(k) == [s \in SlotsOf(k) |-> desired[s]] \in DesiredMaps(k)

\* the cycle under way has yet to read the intents of kind k
WillRead(k) ==
  \/ pc \in {"begin", "global", "configure"}
  \/ pc = "snapshot"
       /\ CASE kind = "peer"   -> TRUE
            [] kind = "prefix" -> k # "peer"
            [] kind = "bfd"    -> k \in {"bfd", "ospf"}
            [] OTHER           -> k = "ospf"

(* TriggerReconcile drops the signal when one is already in the channel,   *)
(* and RunLoop takes it out before Reconcile reads the store: no change of *)
(* the store is ever missed.  Whenever the last snapshot of some kind is   *)
(* out of date, a handler is still to trigger, a signal is waiting, or the *)
(* cycle under way will read that kind again; otherwise FRR is not yet     *)
(* connected, BGP is not configured (such a cycle stops early and the tick *)
(* retries it), or the agent is stopping.                                  *)
NoLostUpdate ==
  \A k \in Kinds :
    \/ Fresh(k)
    \/ triggerCh \/ rpc # {} \/ WillRead(k)
    \/ conn # "done" \/ ~bgpConfigured \/ ctx # "live"

(***************************************************************************)
(* What FRR should hold for a map m of intents.                            *)
(***************************************************************************)
PrefixesAs(m) ==
  \A k \in PrefixSet :
    LET p == m[prefixKey(k)]
        on == p # None /\ Proto[k] = "BGP"
    IN  /\ frr.nets[k] = IF ~on THEN "absent"
                         ELSE IF p.attrs = {} THEN "plain" ELSE "routemap"
        /\ on /\ p.attrs # {} => frr.rmaps[k] = p.attrs

CleanCycle == pc = "idle" /\ clean

\* A cycle that ends without an error leaves exactly the desired networks in
\* FRR, each with its own route-map (ReconcilePrefixes, applyPrefixIntent).
PrefixesConverge == CleanCycle => PrefixesAs(desired)

\* No batch has failed, nothing has restarted, and no stage is under way.
Undisturbed ==
  faults = 0 /\ restarts = 0 /\ crashes = 0 /\ ctx = "live" /\ ~MuHeld

\* As long as no batch fails, appliedPrefixes describes FRR's networks and
\* their route-maps exactly whenever r.mu is free, also after a change of the
\* AS (ensureBGPGlobal forgets what the old instance held).
PrefixesTracked == Undisturbed => PrefixesAs(applied)

\* WithdrawAll removes a neighbor only when no network is advertised any more
\* or some withdrawal has failed.
PeersWithdrawnLast ==
  [][\A n \in Neighbors :
       pc = "withdraw" /\ frr.nbrs[n] # None /\ frr'.nbrs[n] = None
         => errs \/ \A k \in PrefixSet : frr.nets[k] = "absent"]_vars

\* Outside a change of the AS and shutdown, a step of the reconciler takes a
\* network or a neighbor out of FRR only if its snapshot has no intent for it:
\* updates are made in place.
RemovesOnlyUndesired ==
  [][(pc = "apply" \/ pc = "remove") /\ restarts' = restarts =>
       /\ \A k \in PrefixSet :
            frr.nets[k] # "absent" /\ frr'.nets[k] = "absent"
              => desired[prefixKey(k)] = None
       /\ \A n \in Neighbors :
            frr.nbrs[n] # None /\ frr'.nbrs[n] = None
              => desired[peerKey(n)] = None]_vars

\* what clients want for a key: one of the intents declared for it
Wanted(s) ==
  LET all == {intents[o][s] : o \in AllOwners} \ {None}
  IN  IF all = {} THEN {None} ELSE all

\* Once clients and failures stop, and unless the agent is told to stop, every
\* intent is applied and every applied entry is one some owner still declares,
\* except the automatic BFD sessions.
Settles ==
  <>[](\/ ctx # "live"
       \/ \A s \in Slots :
            \/ applied[s] \in Wanted(s)
            \/ s[1] = "bfd" /\ s[2] \in peerManagedBFD)

\* Whatever batches have failed, cycles without an error come back until the
\* agent is told to stop: a failure is retried until it is repaired.
Recovers == []<>(CleanCycle \/ ctx # "live")

\* Whatever happens to FRR, its networks are as desired again and again: the
\* periodic cycle repairs drift.
PrefixDriftRepaired == []<>(CleanCycle /\ PrefixesAs(desired))

\* Once the context is cancelled the loop returns and WithdrawAll finishes.
ShutdownEnds == ctx # "live" ~> pc = "done"
=============================================================================
