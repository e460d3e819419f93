----------------------------- MODULE Reconciler -----------------------------
(***************************************************************************)
(* The reconciler of internal/reconciler: one cycle is ensureBGPGlobal,    *)
(* four snapshots of the intent store, then peers, prefixes, BFD and OSPF, *)
(* each stage diffing its snapshot against the applied maps and sending    *)
(* the difference to FRR one vtysh batch at a time; WithdrawAll at the end.*)
(*                                                                         *)
(* A call of a helper such as applyPeerIntent is a plan: the sequence of   *)
(* client calls and map updates it makes, each with what an error does     *)
(* ("abort": return it, "warn": log it, "collect": keep it and go on).     *)
(* A plan runs one element per step, so that a failure, a cancelled        *)
(* context or another goroutine's step can fall between any two.           *)
(***************************************************************************)
EXTENDS FRRConfig

CONSTANTS
  ConfigAS,    \* the AS of the configuration file, 0 if it has none
  MaxFaults    \* bound on the vtysh batches that fail

VARIABLES
  frr,            \* FRR's running configuration
  client,         \* frrClient # nil
  localAS,        \* frrClient.localAS
  bgpGlobal,      \* bgpGlobal.LocalAS
  bgpConfigured,
  applied,        \* appliedPeers, appliedPrefixes, appliedBFD, appliedOSPF
  peerManagedBFD, \* neighbors whose BFD session a peer intent created
  desired,        \* the desiredMap of each kind, from the last snapshots
  pc,             \* where the loop goroutine (at the end, main) is
  kind,           \* the kind it works on
  work,           \* keys its current range loop has still to visit
  plan,           \* the rest of the helper call it is in
  errs,           \* some error was collected in this cycle
  clean,          \* the last cycle that ended collected none
  ctx,            \* the loop's context: "live", "dying", "dead"
  faults          \* failed batches so far

recVars == <<frr, client, localAS, bgpGlobal, bgpConfigured, applied,
             peerManagedBFD, desired, pc, kind, work, plan, errs, clean,
             ctx, faults>>

\* what only a running plan changes
planVars == <<frr, plan, errs, applied, peerManagedBFD, ctx, faults>>
globalVars == <<client, localAS, bgpGlobal, bgpConfigured>>

\* the stages that hold r.mu
MuHeld == pc \in {"configure", "apply", "remove", "withdraw"}

RecInit ==
  /\ frr = EmptyConfig
  /\ client = FALSE
  /\ localAS = 0
  /\ bgpGlobal = ConfigAS
  /\ bgpConfigured = FALSE
  /\ applied = [s \in Slots |-> None]
  /\ peerManagedBFD = {}
  /\ desired = [s \in Slots |-> None]
  /\ pc = "idle"
  /\ kind = "peer"
  /\ work = {}
  /\ plan = << >>
  /\ errs = FALSE
  /\ clean = FALSE
  /\ ctx = "live"
  /\ faults = 0

(***************************************************************************)
(* Plans.                                                                  *)
(***************************************************************************)
Cmd(op, key, arg, onerr) ==
  [op |-> op, key |-> key, arg |-> arg, onerr |-> onerr]

\* map updates that a plan makes between client calls, and the error of an
\* unknown protocol
BookOps == {"track", "untrack", "applied", "removed", "fail"}

\* the elements of a plan: methods on a neighbor, a prefix, the BGP instance
\* or an interface, and updates of the applied maps
CmdOn(ops, keys, args) ==
  [op : ops, key : keys, arg : args, onerr : {"abort", "warn", "collect"}]

Cmds ==
  CmdOn({"AddNeighbor"}, Neighbors, PeerIntent)
    \cup CmdOn({"ActivateNeighborAFI", "SetNeighborMaxPrefix"}, Neighbors, AFs)
    \cup CmdOn({"EnableNeighborBFD", "DisableNeighborBFD", "RemoveNeighbor",
                "untrack"}, Neighbors, {None})
    \cup CmdOn({"AddBFDPeer", "RemoveBFDPeer", "track"}, Neighbors, BFDIntent)
    \cup CmdOn({"ConfigureRouteMap"}, PrefixSet, SUBSET Attrs)
    \cup CmdOn({"AdvertiseNetwork", "AdvertiseNetworkWithRouteMap",
                "WithdrawNetwork", "RemoveRouteMap", "fail"}, PrefixSet, {None})
    \cup CmdOn({"RouterBGP", "NoRouterBGP"}, {None}, ASNs)
    \cup CmdOn({"EnableOSPFInterface", "DisableOSPFInterface"}, Ifaces, OSPFIntent)
    \cup CmdOn({"applied"}, SlotsOf("peer"), PeerIntent)
    \cup CmdOn({"applied"}, SlotsOf("prefix"), PrefixIntent)
    \cup CmdOn({"applied"}, SlotsOf("bfd"), BFDIntent)
    \cup CmdOn({"applied"}, SlotsOf("ospf"), OSPFIntent)
    \cup CmdOn({"removed"}, Slots, {None})

\* the sequences that list a finite set
Orders(S) == {f \in [1..Cardinality(S) -> S] :
                \A i, j \in DOMAIN f : f[i] = f[j] => i = j}

PerAF(op, n, afs) ==
  LET order == CHOOSE f \in Orders(afs) : TRUE
  IN  [i \in 1..Len(order) |-> Cmd(op, n, order[i], "abort")]

PeerBFD(p) == [iface |-> NoIface, params |-> p.bfdParams]

\* Mutant of applyPeerIntent: BFD is never switched off on the neighbor.
KeepNeighborBFD(n, p) ==
  <<Cmd("AddNeighbor", n, p, "abort")>>
    \o PerAF("ActivateNeighborAFI", n, p.afs)
    \o PerAF("SetNeighborMaxPrefix", n, p.afs)
    \o IF p.bfd
       THEN <<Cmd("AddBFDPeer", n, PeerBFD(p), "abort"),
              Cmd("track", n, PeerBFD(p), "abort"),
              Cmd("EnableNeighborBFD", n, None, "abort")>>
       ELSE << >>

\* Mutant of applyPeerIntent: an update removes the neighbor first.
RecreateNeighbor(n, p) ==
  <<Cmd("RemoveNeighbor", n, None, "abort")>> \o KeepNeighborBFD(n, p)

applyPeerIntent(n, p) ==
  <<Cmd("AddNeighbor", n, p, "abort")>>
    \o PerAF("ActivateNeighborAFI", n, p.afs)
    \o PerAF("SetNeighborMaxPrefix", n, p.afs)
    \o IF p.bfd
       THEN <<Cmd("AddBFDPeer", n, PeerBFD(p), "abort"),
              Cmd("track", n, PeerBFD(p), "abort"),
              Cmd("EnableNeighborBFD", n, None, "abort")>>
       ELSE <<Cmd("DisableNeighborBFD", n, None, "abort")>>
              \o IF n \in peerManagedBFD
                 THEN <<Cmd("RemoveBFDPeer", n, PeerBFD(p), "abort"),
                        Cmd("untrack", n, None, "abort")>>
                 ELSE << >>

applyPrefixIntent(k, p) ==
  CASE Proto[k] = "BGP" /\ p.attrs # {} ->
         <<Cmd("ConfigureRouteMap", k, p.attrs, "abort"),
           Cmd("AdvertiseNetworkWithRouteMap", k, None, "abort")>>
    [] Proto[k] = "BGP" /\ p.attrs = {} ->
         <<Cmd("AdvertiseNetwork", k, None, "abort")>>
    [] Proto[k] = "OSPF" -> << >>
    [] OTHER -> <<Cmd("fail", k, None, "abort")>>

\* the route-map of the attributes applied before, removed on an update
staleRouteMap(k) ==
  LET old == applied[prefixKey(k)]
  IN  IF old # None /\ Proto[k] = "BGP" /\ old.attrs # {}
      THEN <<Cmd("RemoveRouteMap", k, None, "warn")>>
      ELSE << >>

\* Mutant of ApplyPlan: the stale route-map is removed after the new one is
\* configured.
StaleRemovedLast(s) ==
  LET k == s[2]
      d == desired[s]
  IN  (CASE s[1] = "peer"   -> applyPeerIntent(k, d)
         [] s[1] = "prefix" -> applyPrefixIntent(k, d) \o staleRouteMap(k)
         [] s[1] = "bfd"    -> <<Cmd("AddBFDPeer", k, d, "abort")>>
         [] s[1] = "ospf"   -> <<Cmd("EnableOSPFInterface", k, d, "abort")>>)
        \o <<Cmd("applied", s, d, "abort")>>

\* the body of the add-or-update loop of ReconcilePeers, ReconcilePrefixes,
\* ReconcileBFD and ReconcileOSPF
ApplyPlan(s) ==
  LET k == s[2]
      d == desired[s]
  IN  (CASE s[1] = "peer"   -> applyPeerIntent(k, d)
         [] s[1] = "prefix" -> staleRouteMap(k) \o applyPrefixIntent(k, d)
         [] s[1] = "bfd"    -> <<Cmd("AddBFDPeer", k, d, "abort")>>
         [] s[1] = "ospf"   -> <<Cmd("EnableOSPFInterface", k, d, "abort")>>)
        \o <<Cmd("applied", s, d, "abort")>>

removePrefixFromFRR(k, p, onerr) ==
  CASE Proto[k] = "BGP" ->
         <<Cmd("WithdrawNetwork", k, None, "abort")>>
           \o IF p.attrs # {} THEN <<Cmd("RemoveRouteMap", k, None, onerr)>>
              ELSE << >>
    [] Proto[k] = "OSPF" -> << >>
    [] OTHER -> <<Cmd("fail", k, None, "abort")>>

\* Mutant of removeManagedBFD: the automatic session is forgotten.
ForgetManagedBFD(n, p) == << >>

\* the peer's automatic BFD session, dropped before the peer is
removeManagedBFD(n, p) ==
  IF n \notin peerManagedBFD THEN << >>
  ELSE <<Cmd("DisableNeighborBFD", n, None, "warn"),
         Cmd("RemoveBFDPeer", n, PeerBFD(p), "warn"),
         Cmd("untrack", n, None, "abort")>>

\* the body of the removal loop of the four stages
RemovePlan(s) ==
  LET k == s[2]
      a == applied[s]
  IN  (CASE s[1] = "peer"   -> removeManagedBFD(k, a)
                                 \o <<Cmd("RemoveNeighbor", k, None, "abort")>>
         [] s[1] = "prefix" -> removePrefixFromFRR(k, a, "warn")
         [] s[1] = "bfd"    -> <<Cmd("RemoveBFDPeer", k, a, "abort")>>
         [] s[1] = "ospf"   -> <<Cmd("DisableOSPFInterface", k, a, "abort")>>)
        \o <<Cmd("removed", s, None, "abort")>>

\* the loop bodies of WithdrawAll: no automatic BFD clean-up before a peer,
\* and prefixes of other protocols are only forgotten
WithdrawPlan(s) ==
  LET k == s[2]
      a == applied[s]
  IN  CASE s[1] = "peer" ->
             <<Cmd("RemoveNeighbor", k, None, "abort"),
               Cmd("removed", s, None, "abort")>>
        [] s[1] = "prefix" ->
             (IF Proto[k] = "BGP" THEN removePrefixFromFRR(k, a, "collect")
              ELSE << >>)
               \o <<Cmd("removed", s, None, "abort")>>
        [] OTHER -> RemovePlan(s)

ReconfigureBGPGlobal(oldAS, newAS) ==
  (IF oldAS \notin {0, newAS}
   THEN <<Cmd("NoRouterBGP", None, oldAS, "abort")>> ELSE << >>)
    \o <<Cmd("RouterBGP", None, newAS, "abort")>>

(***************************************************************************)
(* Running a plan.                                                         *)
(***************************************************************************)
Here == <<globalVars, desired, pc, kind, work, clean>>

\* WithdrawAll has a context of its own
Cancelled == ctx # "live" /\ pc # "withdraw"

\* the batch that was running when the context was cancelled is the last
\* one that can reach FRR
AfterBatch == ctx' = IF ctx = "dying" THEN "dead" ELSE ctx

RunOK ==
  /\ plan # << >>
  /\ LET c == Head(plan)
     IN  /\ c.op \notin BookOps
         /\ Cancelled => ctx = "dying"
         /\ ~Rejected(frr, localAS, c)
         /\ frr' = Effect(frr, localAS, c)
  /\ plan' = Tail(plan)
  /\ AfterBatch
  /\ UNCHANGED <<Here, errs, applied, peerManagedBFD, faults>>

\* Mutant of OnError: a call that fails is repeated at once.
RepeatOnError(c) ==
  /\ plan' = IF c.onerr = "abort" THEN plan ELSE Tail(plan)
  /\ errs' = (errs \/ c.onerr # "warn")

\* what the helper does with the error of the call at the head of its plan
OnError(c) ==
  /\ plan' = IF c.onerr = "abort" THEN << >> ELSE Tail(plan)
  /\ errs' = (errs \/ c.onerr # "warn")

RunFail ==
  /\ plan # << >>
  /\ LET c == Head(plan)
     IN  /\ c.op \notin BookOps
         /\ \/ /\ Rejected(frr, localAS, c)
               /\ UNCHANGED <<frr, faults>>
            \/ /\ ~Cancelled
               /\ faults < MaxFaults
               /\ faults' = faults + 1
               /\ frr' \in FailedEffects(frr, localAS, c)
            \/ /\ Cancelled
               /\ frr' \in IF ctx = "dying"
                           THEN FailedEffects(frr, localAS, c) ELSE {frr}
               /\ UNCHANGED faults
         /\ OnError(c)
  /\ AfterBatch
  /\ UNCHANGED <<Here, applied, peerManagedBFD>>

Book ==
  /\ plan # << >>
  /\ LET c == Head(plan)
     IN  /\ c.op \in BookOps
         /\ applied' =
              CASE c.op = "track" -> [applied EXCEPT ![bfdKey(c.key)] = c.arg]
                [] c.op = "untrack" -> [applied EXCEPT ![bfdKey(c.key)] = None]
                [] c.op \in {"applied", "removed"} ->
                     [applied EXCEPT ![c.key] = c.arg]
                [] c.op = "fail" -> applied
         /\ peerManagedBFD' =
              CASE c.op = "track" -> peerManagedBFD \cup {c.key}
                [] c.op = "untrack" -> peerManagedBFD \ {c.key}
                [] OTHER -> peerManagedBFD
         /\ IF c.op = "fail" THEN OnError(c)
            ELSE plan' = Tail(plan) /\ UNCHANGED errs
  /\ UNCHANGED <<Here, frr, ctx, faults>>

PlanStep == RunOK \/ RunFail \/ Book

(***************************************************************************)
(* The cycle.                                                              *)
(***************************************************************************)
\* Reconcile: nothing to do without a client
Begin ==
  /\ pc = "begin"
  /\ pc' = IF client THEN "global" ELSE "idle"
  /\ UNCHANGED <<planVars, globalVars, desired, kind, work, clean>>

ensureBGPGlobal ==
  /\ pc = "global"
  /\ IF bgpConfigured
     THEN /\ pc' = "snapshot"
          /\ UNCHANGED <<plan, errs>>
     ELSE IF bgpGlobal = 0
     THEN /\ pc' = "idle"
          /\ errs' = TRUE
          /\ UNCHANGED plan
     ELSE /\ pc' = "configure"
          /\ plan' = ReconfigureBGPGlobal(localAS, bgpGlobal)
          /\ UNCHANGED errs
  /\ kind' = "peer"
  /\ UNCHANGED <<frr, applied, peerManagedBFD, ctx, faults, globalVars,
                 desired, work, clean>>

\* Mutant of globalConfigured: a new AS keeps the applied maps.
KeepAppliedOnNewAS ==
  /\ pc = "configure"
  /\ plan = << >>
  /\ pc' = IF errs THEN "idle" ELSE "snapshot"
  /\ localAS' = IF errs THEN localAS ELSE bgpGlobal
  /\ bgpConfigured' = ~errs
  /\ UNCHANGED <<planVars, client, bgpGlobal, desired, kind, work, clean>>

\* Mutant of globalConfigured: a new AS drops the applied maps altogether.
DropAppliedOnNewAS ==
  /\ pc = "configure"
  /\ plan = << >>
  /\ pc' = IF errs THEN "idle" ELSE "snapshot"
  /\ localAS' = IF errs THEN localAS ELSE bgpGlobal
  /\ bgpConfigured' = ~errs
  /\ applied' = IF ~errs /\ localAS \notin {0, bgpGlobal} THEN << >> ELSE applied
  /\ UNCHANGED <<frr, plan, errs, peerManagedBFD, ctx, faults, client,
                 bgpGlobal, desired, kind, work, clean>>

\* the rest of ensureBGPGlobal, once the client calls are over; a new AS has
\* emptied the BGP instance, so the peers and prefixes are forgotten
globalConfigured ==
  /\ pc = "configure"
  /\ plan = << >>
  /\ IF errs
     THEN /\ pc' = "idle"
          /\ UNCHANGED <<applied, localAS, bgpConfigured>>
     ELSE /\ pc' = "snapshot"
          /\ localAS' = bgpGlobal
          /\ bgpConfigured' = TRUE
          /\ applied' = IF localAS \notin {0, bgpGlobal}
                        THEN [s \in Slots |->
                                IF s[1] \in {"peer", "prefix"} THEN None
                                ELSE applied[s]]
                        ELSE applied
  /\ UNCHANGED <<frr, plan, errs, peerManagedBFD, ctx, faults, client,
                 bgpGlobal, desired, kind, work, clean>>

After(k) ==
  CASE k = "peer" -> "prefix" [] k = "prefix" -> "bfd" [] k = "bfd" -> "ospf"
    [] OTHER -> "peer"

\* one of the four reads of the store; snap is the desiredMap built from it
Snapshot(snap) ==
  /\ pc = "snapshot"
  /\ desired' = [s \in Slots |-> IF s[1] = kind THEN snap[s] ELSE desired[s]]
  /\ pc' = IF kind = "ospf" THEN "enter" ELSE "snapshot"
  /\ kind' = After(kind)
  /\ UNCHANGED <<planVars, globalVars, work, clean>>

\* a stage takes r.mu and ranges over its desiredMap
EnterStage ==
  /\ pc = "enter"
  /\ pc' = "apply"
  /\ work' = {s \in SlotsOf(kind) : desired[s] # None}
  /\ UNCHANGED <<planVars, globalVars, desired, kind, clean>>

\* an intent already applied as it is desired is skipped
ApplyKey(s) ==
  /\ pc = "apply"
  /\ plan = << >>
  /\ s \in work
  /\ work' = work \ {s}
  /\ plan' = IF applied[s] = desired[s] THEN << >> ELSE ApplyPlan(s)
  /\ UNCHANGED <<frr, errs, applied, peerManagedBFD, ctx, faults, globalVars,
                 desired, pc, kind, clean>>

\* Mutants of Obsolete: everything applied is removed; nothing is.
AllApplied(k) == {s \in SlotsOf(k) : applied[s] # None}
NeverObsolete(k) == {}

\* the removal loop ranges over what is applied and no longer desired;
\* ReconcileBFD leaves the sessions of peer intents to ReconcilePeers
Obsolete(k) ==
  {s \in SlotsOf(k) : /\ applied[s] # None
                      /\ desired[s] = None
                      /\ k = "bfd" => s[2] \notin peerManagedBFD}

StartRemovals ==
  /\ pc = "apply"
  /\ plan = << >>
  /\ work = {}
  /\ pc' = "remove"
  /\ work' = Obsolete(kind)
  /\ UNCHANGED <<planVars, globalVars, desired, kind, clean>>

RemoveKey(s) ==
  /\ pc = "remove"
  /\ plan = << >>
  /\ s \in work
  /\ work' = work \ {s}
  /\ plan' = RemovePlan(s)
  /\ UNCHANGED <<frr, errs, applied, peerManagedBFD, ctx, faults, globalVars,
                 desired, pc, kind, clean>>

\* the stage releases r.mu; after OSPF the cycle is over
LeaveStage ==
  /\ pc = "remove"
  /\ plan = << >>
  /\ work = {}
  /\ pc' = IF kind = "ospf" THEN "idle" ELSE "enter"
  /\ clean' = IF kind = "ospf" THEN ~errs ELSE clean
  /\ kind' = After(kind)
  /\ UNCHANGED <<planVars, globalVars, desired, work>>

CycleStep ==
  \/ Begin \/ ensureBGPGlobal \/ globalConfigured \/ EnterStage
  \/ StartRemovals \/ LeaveStage
  \/ \E s \in work : ApplyKey(s) \/ RemoveKey(s)

(***************************************************************************)
(* WithdrawAll, called by main once the loop has returned.                 *)
(***************************************************************************)
AppliedOf(k) == {s \in SlotsOf(k) : applied[s] # None}

\* Mutant of WithdrawAll: one loop for all kinds.
WithdrawUnordered ==
  /\ pc = "stopped"
  /\ pc' = IF client THEN "withdraw" ELSE "done"
  /\ kind' = "peer"
  /\ work' = {s \in Slots : applied[s] # None}
  /\ errs' = FALSE
  /\ UNCHANGED <<frr, plan, applied, peerManagedBFD, ctx, faults, globalVars,
                 desired, clean>>

WithdrawAll ==
  /\ pc = "stopped"
  /\ pc' = IF client THEN "withdraw" ELSE "done"
  /\ kind' = "prefix"
  /\ work' = AppliedOf("prefix")
  /\ errs' = FALSE
  /\ UNCHANGED <<frr, plan, applied, peerManagedBFD, ctx, faults, globalVars,
                 desired, clean>>

WithdrawKey(s) ==
  /\ pc = "withdraw"
  /\ plan = << >>
  /\ s \in work
  /\ work' = work \ {s}
  /\ plan' = WithdrawPlan(s)
  /\ UNCHANGED <<frr, errs, applied, peerManagedBFD, ctx, faults, globalVars,
                 desired, pc, kind, clean>>

\* Mutant of WithdrawNext: the OSPF stage is skipped.
WithdrawNoOSPF ==
  /\ pc = "withdraw"
  /\ plan = << >>
  /\ work = {}
  /\ IF kind = "peer"
     THEN pc' = "done" /\ UNCHANGED <<kind, work>>
     ELSE LET k == IF kind = "bfd" THEN "peer" ELSE After(kind)
          IN  pc' = pc /\ kind' = k /\ work' = AppliedOf(k)
  /\ UNCHANGED <<planVars, globalVars, desired, clean>>

\* prefixes, BFD sessions, OSPF interfaces, peers
WithdrawNext ==
  /\ pc = "withdraw"
  /\ plan = << >>
  /\ work = {}
  /\ IF kind = "peer"
     THEN pc' = "done" /\ UNCHANGED <<kind, work>>
     ELSE pc' = pc /\ kind' = After(kind) /\ work' = AppliedOf(After(kind))
  /\ UNCHANGED <<planVars, globalVars, desired, clean>>

WithdrawStep ==
  WithdrawAll \/ WithdrawNext \/ \E s \in work : WithdrawKey(s)

(***************************************************************************)
(* What other goroutines call on the reconciler, under r.mu.               *)
(***************************************************************************)
SetFRRClient ==
  /\ ~MuHeld
  /\ client' = TRUE
  /\ applied' = [s \in Slots |-> None]
  /\ peerManagedBFD' = {}
  /\ UNCHANGED <<frr, localAS, bgpGlobal, bgpConfigured, desired, pc, kind,
                 work, plan, errs, clean, ctx, faults>>

UpdateBGPGlobal(as) ==
  /\ ~MuHeld
  /\ bgpGlobal' = as
  /\ bgpConfigured' = FALSE
  /\ UNCHANGED <<planVars, client, localAS, desired, pc, kind, work, clean>>
=============================================================================
