--------------------------- MODULE AgentRemovals ---------------------------
(***************************************************************************)
(* RemovesOnlyUndesired, for all values of the constants: the apply and    *)
(* removal loops of the reconciler take a neighbor or a network out of FRR *)
(* only when the snapshot they work on has no intent for it, whatever      *)
(* batches fail or are cut short on the way.                               *)
(***************************************************************************)
EXTENDS AgentTypes

USE DEF CmdOn

\* The plans that take no neighbor and no network of the map d out of FRR.
Sparing(d) ==
  {c \in Cmds : /\ c.op # "NoRouterBGP"
                /\ c.op = "RemoveNeighbor" => d[peerKey(c.key)] = None
                /\ c.op = "WithdrawNetwork" => d[prefixKey(c.key)] = None}

(* TypeInv does not say what a plan removes.  The loop that removes ranges *)
(* over keys the snapshot has nothing for, and what a helper has left to   *)
(* do spares whatever the snapshot asks for.                               *)
SparingInv ==
  /\ TypeInv
  /\ pc = "remove" => \A s \in work : desired[s] = None
  /\ pc \in {"apply", "remove"} => plan \in Seq(Sparing(desired))

(***************************************************************************)
(* What one batch can take out of FRR.                                     *)
(***************************************************************************)
\* from old to new only the object of a removal by c is gone
OnlyRemoves(old, new, c) ==
  /\ \A k \in PrefixSet :
       old.nets[k] # "absent" /\ new.nets[k] = "absent"
         => c.op = "WithdrawNetwork" /\ c.key = k
  /\ \A n \in Neighbors :
       old.nbrs[n] # None /\ new.nbrs[n] = None
         => c.op = "RemoveNeighbor" /\ c.key = n

\* The networks stay when only a neighbor's entry changes, and conversely.
LEMMA OneEntry ==
  ASSUME NEW cfg \in Configs, NEW c
  PROVE  /\ \A n \in Neighbors, v \in Neighbor :
              OnlyRemoves(cfg, [cfg EXCEPT !.nbrs[n] = v], c)
         /\ \A k \in PrefixSet, v \in {"plain", "routemap"} :
              OnlyRemoves(cfg, [cfg EXCEPT !.nets[k] = v], c)
<1>1. ASSUME NEW n \in Neighbors, NEW v \in Neighbor
      PROVE  OnlyRemoves(cfg, [cfg EXCEPT !.nbrs[n] = v], c)
  <2>1. v # None
    BY AgentAssumption
  <2>2. cfg.nbrs \in [Neighbors -> Neighbor \cup {None}]
    BY DEF Configs
  <2> DEFINE new == [cfg EXCEPT !.nbrs[n] = v]
  <2>3. new.nets = cfg.nets /\ new.nbrs = [cfg.nbrs EXCEPT ![n] = v]
    BY DEF Configs
  <2> HIDE DEF new
  <2>4. \A m \in Neighbors : new.nbrs[m] = IF m = n THEN v ELSE cfg.nbrs[m]
    BY <2>2, <2>3
  <2>5. OnlyRemoves(cfg, new, c)
    BY Zenon, <2>1, <2>3, <2>4 DEF OnlyRemoves
  <2> QED
    BY <2>5 DEF new
<1>2. ASSUME NEW k \in PrefixSet, NEW v \in {"plain", "routemap"}
      PROVE  OnlyRemoves(cfg, [cfg EXCEPT !.nets[k] = v], c)
  <2>1. v # "absent"
    OBVIOUS
  <2>2. cfg.nets \in [PrefixSet -> {"absent", "plain", "routemap"}]
    BY DEF Configs
  <2> DEFINE new == [cfg EXCEPT !.nets[k] = v]
  <2>3. new.nbrs = cfg.nbrs /\ new.nets = [cfg.nets EXCEPT ![k] = v]
    BY DEF Configs
  <2> HIDE DEF new
  <2>4. \A m \in PrefixSet : new.nets[m] = IF m = k THEN v ELSE cfg.nets[m]
    BY <2>2, <2>3
  <2>5. OnlyRemoves(cfg, new, c)
    BY Zenon, <2>1, <2>3, <2>4 DEF OnlyRemoves
  <2> QED
    BY <2>5 DEF new
<1> QED
  BY <1>1, <1>2

\* A batch under "router bgp" removes the neighbor or the network it names.
LEMMA BGPRemoves ==
  ASSUME NEW cfg \in Configs, NEW c \in FRRCmds, c.op \in BGPOps
  PROVE  OnlyRemoves(cfg, BGPEffect(cfg, c), c)
<1> DEFINE old == cfg.nbrs[c.key]
<1>0. OnlyRemoves(cfg, cfg, c)
  BY DEF OnlyRemoves
<1>1. CASE c.op = "AddNeighbor"
  <2>1. c.key \in Neighbors /\ c.arg \in PeerIntent
    BY <1>1 DEF FRRCmds, Cmds
  <2>2. old \in Neighbor \cup {None}
    BY <2>1 DEF Configs
  <2> DEFINE v == AddNeighbor(old, c.arg)
  <2>3. v \in Neighbor
    BY <2>1, <2>2, AddNeighborType
  <2>4. BGPEffect(cfg, c) = [cfg EXCEPT !.nbrs[c.key] = v]
    BY <1>1, <2>1 DEF BGPEffect, Configs
  <2> HIDE DEF v
  <2>5. OnlyRemoves(cfg, [cfg EXCEPT !.nbrs[c.key] = v], c)
    BY <2>1, <2>3, OneEntry
  <2> QED
    BY <2>4, <2>5
<1>2. CASE c.op \in {"ActivateNeighborAFI", "SetNeighborMaxPrefix",
                     "EnableNeighborBFD", "DisableNeighborBFD"}
  <2>1. c.key \in Neighbors
    BY <1>2 DEF FRRCmds, Cmds
  <2>2. CASE old = None
    BY <1>0, <1>2, <2>2 DEF BGPEffect, OnNeighbor
  <2>3. CASE old # None
    <3>1. old \in Neighbor
      BY <2>1, <2>3 DEF Configs
    <3>2. c.op \in {"ActivateNeighborAFI", "SetNeighborMaxPrefix"} => c.arg \in AFs
      BY DEF FRRCmds, Cmds
    <3>3. PICK new \in Neighbor : BGPEffect(cfg, c) = OnNeighbor(cfg, c.key, new)
      <4>1. CASE c.op = "ActivateNeighborAFI"
        <5>1. [old EXCEPT !.afs = @ \cup {c.arg}] \in Neighbor
          BY <3>1, <3>2, <4>1 DEF Neighbor
        <5> QED
          BY <4>1, <5>1 DEF BGPEffect
      <4>2. CASE c.op = "SetNeighborMaxPrefix"
        <5>1. [old EXCEPT !.limits = @ \cup {c.arg}] \in Neighbor
          BY <3>1, <3>2, <4>2 DEF Neighbor
        <5> QED
          BY <4>2, <5>1 DEF BGPEffect
      <4>3. CASE c.op = "EnableNeighborBFD"
        <5>1. [old EXCEPT !.bfd = TRUE] \in Neighbor
          BY Zenon, <3>1 DEF Neighbor
        <5> QED
          BY <4>3, <5>1 DEF BGPEffect
      <4>4. CASE c.op = "DisableNeighborBFD"
        <5>1. [old EXCEPT !.bfd = FALSE] \in Neighbor
          BY Zenon, <3>1 DEF Neighbor
        <5> QED
          BY <4>4, <5>1 DEF BGPEffect
      <4> QED
        BY <1>2, <4>1, <4>2, <4>3, <4>4
    <3> QED
      BY <2>1, <2>3, <3>3, OneEntry DEF OnNeighbor
  <2> QED
    BY <2>2, <2>3
<1>3. CASE c.op = "RemoveNeighbor"
  <2>1. c.key \in Neighbors
    BY <1>3 DEF FRRCmds, Cmds
  <2> DEFINE new == [cfg EXCEPT !.nbrs[c.key] = None]
  <2>2. new.nets = cfg.nets /\ new.nbrs = [cfg.nbrs EXCEPT ![c.key] = None]
    BY DEF Configs
  <2>3. BGPEffect(cfg, c) = new
    BY <1>3 DEF BGPEffect
  <2> HIDE DEF new
  <2>4. \A n \in Neighbors : n # c.key => new.nbrs[n] = cfg.nbrs[n]
    <3>1. cfg.nbrs \in [Neighbors -> Neighbor \cup {None}]
      BY DEF Configs
    <3> QED
      BY <2>2, <3>1
  <2> QED
    BY Zenon, <1>3, <2>2, <2>3, <2>4 DEF OnlyRemoves
<1>4. CASE c.op \in {"AdvertiseNetwork", "AdvertiseNetworkWithRouteMap"}
  <2>1. c.key \in PrefixSet
    BY <1>4 DEF FRRCmds, Cmds
  <2> QED
    BY <1>4, <2>1, OneEntry DEF BGPEffect
<1>5. CASE c.op = "WithdrawNetwork"
  <2>1. c.key \in PrefixSet
    BY <1>5 DEF FRRCmds, Cmds
  <2> DEFINE new == [cfg EXCEPT !.nets[c.key] = "absent"]
  <2>2. new.nbrs = cfg.nbrs /\ new.nets = [cfg.nets EXCEPT ![c.key] = "absent"]
    BY DEF Configs
  <2>3. BGPEffect(cfg, c) = new
    BY <1>5 DEF BGPEffect
  <2> HIDE DEF new
  <2>4. \A k \in PrefixSet : k # c.key => new.nets[k] = cfg.nets[k]
    <3>1. cfg.nets \in [PrefixSet -> {"absent", "plain", "routemap"}]
      BY DEF Configs
    <3> QED
      BY <2>2, <3>1
  <2> QED
    BY Zenon, <1>5, <2>2, <2>3, <2>4 DEF OnlyRemoves
<1> QED
  BY <1>1, <1>2, <1>3, <1>4, <1>5 DEF BGPOps

\* A batch outside it removes neither, unless it is "no router bgp".
LEMMA OtherRemoves ==
  ASSUME NEW cfg \in Configs, NEW c \in FRRCmds, c.op \notin BGPOps,
         c.op # "NoRouterBGP"
  PROVE  OnlyRemoves(cfg, OtherEffect(cfg, c), c)
<1>1. /\ OtherEffect(cfg, c).nets = cfg.nets
      /\ OtherEffect(cfg, c).nbrs = cfg.nbrs
  <2>1. c.op \in {"RouterBGP", "ConfigureRouteMap", "RemoveRouteMap",
                  "AddBFDPeer", "RemoveBFDPeer", "EnableOSPFInterface",
                  "DisableOSPFInterface"}
    BY DEF FRRCmds, Cmds, BGPOps, BookOps
  <2>2. \A v : /\ [cfg EXCEPT !.as = v].nets = cfg.nets
               /\ [cfg EXCEPT !.as = v].nbrs = cfg.nbrs
               /\ [cfg EXCEPT !.rmaps = v].nets = cfg.nets
               /\ [cfg EXCEPT !.rmaps = v].nbrs = cfg.nbrs
               /\ [cfg EXCEPT !.bfd = v].nets = cfg.nets
               /\ [cfg EXCEPT !.bfd = v].nbrs = cfg.nbrs
               /\ [cfg EXCEPT !.ospf = v].nets = cfg.nets
               /\ [cfg EXCEPT !.ospf = v].nbrs = cfg.nbrs
    BY DEF Configs
  <2> QED
    BY Zenon, <2>1, <2>2 DEF OtherEffect
<1> QED
  BY Zenon, <1>1 DEF OnlyRemoves

\* A batch, completely or partly run, removes what it names and nothing else.
LEMMA BatchRemoves ==
  ASSUME NEW cfg \in Configs, NEW as \in ASNs \cup {0}, NEW c \in FRRCmds,
         c.op # "NoRouterBGP",
         NEW new \in FailedEffects(cfg, as, c) \cup {Effect(cfg, as, c)}
  PROVE  OnlyRemoves(cfg, new, c)
<1> DEFINE in == Entered(cfg, as, c)
<1>1. in \in Configs
  BY Zenon DEF Entered, Configs
<1>2. in.nets = cfg.nets /\ in.nbrs = cfg.nbrs
  BY DEF Entered, Configs
<1> HIDE DEF in
<1>3. OnlyRemoves(cfg, cfg, c)
  BY Zenon DEF OnlyRemoves
<1>4. \A r : OnlyRemoves(in, r, c) => OnlyRemoves(cfg, r, c)
  BY Zenon, <1>2 DEF OnlyRemoves
<1>5. OnlyRemoves(in, Effect(cfg, as, c), c)
  BY Zenon, <1>1, BGPRemoves, OtherRemoves DEF Effect, in
<1>6. ASSUME NEW r \in PartialEffect(in, c) PROVE OnlyRemoves(in, r, c)
  <2>1. CASE c.op = "ConfigureRouteMap"
    <3>1. \A v : /\ [in EXCEPT !.rmaps[c.key] = v].nets = in.nets
                 /\ [in EXCEPT !.rmaps[c.key] = v].nbrs = in.nbrs
      BY <1>1 DEF Configs
    <3>2. r.nets = in.nets /\ r.nbrs = in.nbrs
      BY Zenon, <1>6, <2>1, <3>1 DEF PartialEffect
    <3> QED
      BY Zenon, <3>2 DEF OnlyRemoves
  <2>2. CASE c.op = "AddNeighbor"
    <3> DEFINE v == AddNeighbor(in.nbrs[c.key], [c.arg EXCEPT !.opts = {}])
    <3>1. c.key \in Neighbors /\ c.arg \in PeerIntent
      BY <2>2 DEF FRRCmds, Cmds
    <3>2. [c.arg EXCEPT !.opts = {}] \in PeerIntent
      BY <3>1 DEF PeerIntent
    <3>3. in.nbrs[c.key] \in Neighbor \cup {None}
      BY <1>1, <3>1 DEF Configs
    <3>4. v \in Neighbor
      BY <3>2, <3>3, AddNeighborType
    <3>5. r = [in EXCEPT !.nbrs[c.key] = v]
      BY <1>1, <1>6, <2>2, <3>1 DEF PartialEffect, Configs
    <3> HIDE DEF v
    <3> QED
      BY Zenon, <1>1, <3>1, <3>4, <3>5, OneEntry
  <2>3. CASE c.op \in {"AddBFDPeer", "EnableOSPFInterface", "DisableOSPFInterface"}
    <3>1. CASE c.op = "AddBFDPeer"
      <4>1. r = [in EXCEPT !.bfd[<<c.key, c.arg.iface>>] = AddBFD(@, Unset)]
        BY Zenon, <1>6, <3>1 DEF PartialEffect
      <4> QED
        BY <1>1, <4>1 DEF OnlyRemoves, Configs
    <3>2. CASE c.op = "EnableOSPFInterface"
      <4>1. PICK o : r = [in EXCEPT !.ospf[<<c.key, c.arg.v6>>] = EnabledPort(@, o)]
        BY Zenon, <1>6, <3>2 DEF PartialEffect
      <4> QED
        BY <1>1, <4>1 DEF OnlyRemoves, Configs
    <3>3. CASE c.op = "DisableOSPFInterface"
      <4>1. PICK o : r = [in EXCEPT !.ospf[<<c.key, c.arg.v6>>] = DisabledPort(@, o)]
        BY Zenon, <1>6, <3>3 DEF PartialEffect
      <4> QED
        BY <1>1, <4>1 DEF OnlyRemoves, Configs
    <3> QED
      BY <2>3, <3>1, <3>2, <3>3
  <2> QED
    BY <1>6, <2>1, <2>2, <2>3 DEF PartialEffect
<1>7. OnlyRemoves(in, in, c)
  BY Zenon DEF OnlyRemoves
<1> QED
  BY Zenon, <1>3, <1>4, <1>5, <1>6, <1>7 DEF FailedEffects, in

(***************************************************************************)
(* What the plans of the two loops hold.                                   *)
(***************************************************************************)
\* Additions and updates spare everything.
LEMMA AdditionSpares ==
  ASSUME NEW d, NEW p \in Seq(AdditionCmds)
  PROVE  p \in Seq(Sparing(d))
<1>1. Len(p) \in Nat /\ p \in [1..Len(p) -> AdditionCmds]
  OBVIOUS
<1>2. AdditionCmds \subseteq Sparing(d)
  BY Zenon DEF AdditionCmds, Sparing
<1>3. p \in [1..Len(p) -> Sparing(d)]
  BY <1>1, <1>2
<1> QED
  BY <1>1, <1>3

\* The plan of a removal takes out its own key, and that one is not desired.
LEMMA RemovalSpares ==
  ASSUME applied \in IntentMaps, NEW s \in Slots, applied[s] # None,
         NEW d, d[s] = None
  PROVE  RemovePlan(s) \in Seq(Sparing(d))
<1> DEFINE R == Sparing(d)
<1>0. /\ s[1] = "peer" => s = peerKey(s[2])
      /\ s[1] = "prefix" => s = prefixKey(s[2])
  BY DEF Slots, peerKey, prefixKey, bfdKey, ospfKey
<1>1. Cmd("removed", s, None, "abort") \in R
  BY DEF Cmd, Cmds, Sparing
<1>2. CASE s[1] = "peer"
  <2>1. PeerBFD(applied[s]) \in BFDIntent
    BY <1>2, IntentAt DEF PeerIntent, PeerBFD, BFDIntent
  <2>2. /\ Cmd("DisableNeighborBFD", s[2], None, "warn") \in R
        /\ Cmd("RemoveBFDPeer", s[2], PeerBFD(applied[s]), "warn") \in R
        /\ Cmd("untrack", s[2], None, "abort") \in R
    BY Zenon, <1>2, <2>1, SlotKey DEF Cmd, Cmds, Sparing
  <2>3. Cmd("RemoveNeighbor", s[2], None, "abort") \in R
    BY ZenonT(40), <1>0, <1>2, SlotKey DEF Cmd, Cmds, Sparing
  <2> HIDE DEF R
  <2>4. removeManagedBFD(s[2], applied[s]) \in Seq(R)
    BY <2>2 DEF removeManagedBFD
  <2>5. RemovePlan(s) \in Seq(R)
    BY <1>1, <1>2, <2>3, <2>4 DEF RemovePlan
  <2> QED
    BY <2>5 DEF R
<1>3. CASE s[1] = "prefix"
  <2>1. Cmd("WithdrawNetwork", s[2], None, "abort") \in R
    BY ZenonT(40), <1>0, <1>3, SlotKey DEF Cmd, Cmds, Sparing
  <2>2. Cmd("RemoveRouteMap", s[2], None, "warn") \in R
    BY Zenon, <1>3, SlotKey DEF Cmd, Cmds, Sparing
  <2>5. Cmd("fail", s[2], None, "abort") \in R
    BY Zenon, <1>3, SlotKey DEF Cmd, Cmds, Sparing
  <2> HIDE DEF R
  <2>3. removePrefixFromFRR(s[2], applied[s], "warn") \in Seq(R)
    BY <2>1, <2>2, <2>5 DEF removePrefixFromFRR
  <2>4. RemovePlan(s) \in Seq(R)
    BY <1>1, <1>3, <2>3 DEF RemovePlan
  <2> QED
    BY <2>4 DEF R
<1>4. CASE s[1] \in {"bfd", "ospf"}
  <2>1. s[1] = "bfd" => Cmd("RemoveBFDPeer", s[2], applied[s], "abort") \in R
    BY SlotKey, IntentAt DEF Cmd, Cmds, Sparing
  <2>2. s[1] = "ospf" =>
          Cmd("DisableOSPFInterface", s[2], applied[s], "abort") \in R
    BY SlotKey, IntentAt DEF Cmd, Cmds, Sparing
  <2> HIDE DEF R
  <2>3. RemovePlan(s) \in Seq(R)
    BY <1>1, <1>4, <2>1, <2>2 DEF RemovePlan
  <2> QED
    BY <2>3 DEF R
<1> QED
  BY <1>2, <1>3, <1>4, SlotKey DEF Kinds

(***************************************************************************)
(* The inductive invariant.                                                *)
(***************************************************************************)
\* While a loop runs, other goroutines leave its snapshot and its plan alone.
LEMMA SparingKept ==
  ASSUME SparingInv, TypeInv', UNCHANGED <<pc, work, desired>>,
         plan' = plan \/ pc \notin {"apply", "remove"}
  PROVE  SparingInv'
BY Zenon DEF SparingInv

\* Outside the two loops there is nothing to keep.
LEMMA SparingOutside ==
  ASSUME TypeInv', pc' \notin {"apply", "remove"}
  PROVE  SparingInv'
BY Zenon DEF SparingInv

\* What is left of a plan spares what the plan spared.
LEMMA SparingPlan ==
  ASSUME SparingInv, TypeInv', PlanStep
  PROVE  SparingInv'
<1>1. UNCHANGED <<pc, work, desired>>
  BY DEF PlanStep, RunOK, RunFail, Book, Here
<1>2. plan # << >> /\ plan' \in {<< >>, Tail(plan)}
  BY DEF PlanStep, RunOK, RunFail, Book, OnError
<1>3. ASSUME pc \in {"apply", "remove"} PROVE plan' \in Seq(Sparing(desired))
  <2>1. plan \in Seq(Sparing(desired))
    BY <1>3 DEF SparingInv
  <2>2. Tail(plan) \in Seq(Sparing(desired))
    BY <1>2, <2>1, PlanParts
  <2>3. << >> \in Seq(Sparing(desired))
    OBVIOUS
  <2> QED
    BY Zenon, <1>2, <2>2, <2>3
<1> QED
  BY Zenon, <1>1, <1>3 DEF SparingInv

\* A loop starts with an empty plan, and the removal loop ranges over what the
\* snapshot has nothing for; a key taken up gets a plan that spares the rest.
LEMMA SparingLoop ==
  ASSUME SparingInv, TypeInv',
         \/ EnterStage \/ StartRemovals
         \/ \E s \in work : ApplyKey(s) \/ RemoveKey(s)
  PROVE  SparingInv'
<1> USE DEF planVars, globalVars
<1>1. CASE EnterStage
  <2>1. pc' = "apply" /\ plan' = plan
    BY <1>1 DEF EnterStage
  <2>2. plan = << >>
    BY Zenon, <1>1 DEF EnterStage, SparingInv, TypeInv, WorkOK, MuHeld
  <2>3. plan' \in Seq(Sparing(desired'))
    BY <2>1, <2>2
  <2> QED
    BY Zenon, <2>1, <2>3 DEF SparingInv
<1>2. CASE StartRemovals
  <2>1. pc' = "remove" /\ plan' = << >> /\ work' = Obsolete(kind) /\ desired' = desired
    BY ZenonT(30), <1>2 DEF StartRemovals
  <2>2. plan' \in Seq(Sparing(desired'))
    BY <2>1
  <2>3. \A s \in work' : desired'[s] = None
    BY Zenon, <2>1 DEF Obsolete
  <2> QED
    BY Zenon, <2>1, <2>2, <2>3 DEF SparingInv
<1>3. ASSUME NEW s \in work, ApplyKey(s) PROVE SparingInv'
  <2>1. pc = "apply" /\ pc' = "apply" /\ desired' = desired
    BY <1>3 DEF ApplyKey
  <2>2. s \in Slots /\ desired \in IntentMaps /\ desired[s] # None
    BY Zenon, <2>1 DEF SparingInv, TypeInv, TypeOK, WorkOK
  <2>3. ApplyPlan(s) \in Seq(Sparing(desired))
    BY <2>2, ApplyPlanType, AdditionSpares
  <2>4. << >> \in Seq(Sparing(desired))
    OBVIOUS
  <2>5. plan' \in Seq(Sparing(desired))
    BY Zenon, <1>3, <2>3, <2>4 DEF ApplyKey
  <2> QED
    BY Zenon, <2>1, <2>5 DEF SparingInv
<1>4. ASSUME NEW s \in work, RemoveKey(s) PROVE SparingInv'
  <2>1. /\ pc = "remove" /\ pc' = "remove" /\ desired' = desired
        /\ work' = work \ {s} /\ plan' = RemovePlan(s)
    BY <1>4 DEF RemoveKey
  <2>2. /\ s \in Slots /\ applied \in IntentMaps /\ applied[s] # None
        /\ \A t \in work : desired[t] = None
    BY Zenon, <2>1 DEF SparingInv, TypeInv, TypeOK, WorkOK
  <2>3. plan' \in Seq(Sparing(desired))
    BY Zenon, <2>1, <2>2, RemovalSpares
  <2> QED
    BY Zenon, <2>1, <2>2, <2>3 DEF SparingInv
<1> QED
  BY <1>1, <1>2, <1>3, <1>4

\* Every step keeps the invariant.
LEMMA SparingStep == SparingInv /\ [Next]_vars => SparingInv'
<1> SUFFICES ASSUME SparingInv, [Next]_vars PROVE SparingInv'
  OBVIOUS
<1>1. TypeInv'
  BY TypeInvStep DEF SparingInv
<1>2. CASE Handlers
  <2>1. UNCHANGED <<pc, work, desired, plan>>
    BY ZenonT(40), <1>2 DEF Handlers, Request, ApplyPeer, AdvertisePrefix, EnableBFD,
       EnableOSPF, RemovePeer, DisableBFD, WithdrawPrefix, DisableOSPF, SetIntent,
       RemoveIntent, Deregister, ConfigureBGP, UpdateBGPGlobal, TriggerReconcile,
       recVars, planVars
  <2> QED
    BY <1>1, <2>1, SparingKept
<1>3. CASE waitForFRR
  <2>1. UNCHANGED <<pc, work, desired, plan>>
    BY Zenon, <1>3 DEF waitForFRR, InjectClient, SetFRRClient, GiveUp,
       initConfigPeers, ConnectTrigger, recVars
  <2> QED
    BY <1>1, <2>1, SparingKept
<1>4. CASE RunLoop
  <2>1. CASE EnterStage \/ StartRemovals \/ \E s \in work : ApplyKey(s) \/ RemoveKey(s)
    BY <1>1, <2>1, SparingLoop
  <2>2. CASE Tick \/ Triggered \/ ReadStore \/ Stop \/ Begin \/ ensureBGPGlobal
               \/ globalConfigured \/ LeaveStage
    <3>1. pc' \notin {"apply", "remove"}
      BY <2>2 DEF Tick, Triggered, Wake, ReadStore, Snapshot, Stop, Begin,
         ensureBGPGlobal, globalConfigured, LeaveStage
    <3> QED
      BY <1>1, <3>1, SparingOutside
  <2> QED
    BY Zenon, <1>4, <2>1, <2>2 DEF RunLoop, CycleStep
<1>5. CASE RunPlan
  BY <1>1, <1>5, SparingPlan DEF RunPlan
<1>6. CASE Cancel \/ RestartFRR \/ UNCHANGED vars
  <2>1. UNCHANGED <<pc, work, desired, plan>>
    BY Zenon, <1>6 DEF Cancel, RestartFRR, vars, recVars
  <2> QED
    BY <1>1, <2>1, SparingKept
<1>7. CASE gracefulShutdown \/ Crash
  <2>1. pc' \notin {"apply", "remove"}
    BY <1>7 DEF gracefulShutdown, WithdrawStep, WithdrawAll, WithdrawNext,
       WithdrawKey, Crash
  <2> QED
    BY <1>1, <2>1, SparingOutside
<1> QED
  BY <1>2, <1>3, <1>4, <1>5, <1>6, <1>7 DEF Next

(***************************************************************************)
(* The action property.                                                    *)
(***************************************************************************)
\* Only a batch, or a restart of FRR, changes FRR's configuration.
LEMMA OnlyBatches ==
  ASSUME TypeInv, [Next]_vars, restarts' = restarts, frr' # frr
  PROVE  /\ plan # << >> /\ Head(plan).op \notin BookOps
         /\ frr' \in FailedEffects(frr, localAS, Head(plan))
                        \cup {Effect(frr, localAS, Head(plan))}
<1>1. CASE RunPlan
  <2>1. RunOK \/ RunFail
    BY <1>1 DEF RunPlan, PlanStep, Book
  <2> QED
    BY Zenon, <2>1 DEF RunOK, RunFail
<1>2. CASE Crash
  BY Zenon, <1>2 DEF Crash
<1>3. CASE RestartFRR
  <2>1. restarts \in Nat
    <3>1. restarts \in 0..MaxRestarts /\ MaxRestarts \in Nat
      BY Zenon, AgentAssumption DEF TypeInv, TypeOK
    <3> QED
      BY <3>1
  <2>2. restarts' = restarts + 1
    BY <1>3 DEF RestartFRR
  <2> QED
    BY <2>1, <2>2
<1>4. CASE Handlers
  BY ZenonT(40), <1>4 DEF Handlers, Request, ApplyPeer, AdvertisePrefix, EnableBFD,
     EnableOSPF, RemovePeer, DisableBFD, WithdrawPrefix, DisableOSPF, SetIntent,
     RemoveIntent, Deregister, ConfigureBGP, UpdateBGPGlobal, TriggerReconcile,
     recVars, planVars
<1>5. CASE waitForFRR
  BY Zenon, <1>5 DEF waitForFRR, InjectClient, SetFRRClient, GiveUp,
     initConfigPeers, ConnectTrigger, recVars
<1>6. CASE RunLoop
  BY Zenon, <1>6 DEF RunLoop, CycleStep, Tick, Triggered, Wake, ReadStore,
     Snapshot, Stop, Begin, ensureBGPGlobal, globalConfigured, EnterStage,
     StartRemovals, LeaveStage, ApplyKey, RemoveKey, planVars
<1>7. CASE Cancel \/ UNCHANGED vars
  BY Zenon, <1>7 DEF Cancel, vars, recVars
<1>8. CASE gracefulShutdown
  BY Zenon, <1>8 DEF gracefulShutdown, WithdrawStep, WithdrawAll, WithdrawNext,
     WithdrawKey, planVars
<1> QED
  BY <1>1, <1>2, <1>3, <1>4, <1>5, <1>6, <1>7, <1>8 DEF Next

(* For any number of neighbors, prefixes and owners, any failures and any  *)
(* crash of the agent in the middle of a batch: a stage of the reconciler  *)
(* takes a neighbor or a network out of FRR only if its snapshot has no    *)
(* intent for it, so an update never interrupts what it updates.           *)
THEOREM KeepsDesired == Spec => RemovesOnlyUndesired
<1>1. Init => SparingInv
  BY TypeInvInit DEF SparingInv, Init, RecInit
<1>2. SparingInv /\ [Next]_vars =>
        [(pc = "apply" \/ pc = "remove") /\ restarts' = restarts =>
           /\ \A k \in PrefixSet :
                frr.nets[k] # "absent" /\ frr'.nets[k] = "absent"
                  => desired[prefixKey(k)] = None
           /\ \A n \in Neighbors :
                frr.nbrs[n] # None /\ frr'.nbrs[n] = None
                  => desired[peerKey(n)] = None]_vars
  <2> SUFFICES ASSUME SparingInv, [Next]_vars, pc \in {"apply", "remove"},
                      restarts' = restarts
               PROVE  /\ \A k \in PrefixSet :
                           frr.nets[k] # "absent" /\ frr'.nets[k] = "absent"
                             => desired[prefixKey(k)] = None
                      /\ \A n \in Neighbors :
                           frr.nbrs[n] # None /\ frr'.nbrs[n] = None
                             => desired[peerKey(n)] = None
    BY Zenon
  <2>1. CASE frr' = frr
    BY Zenon, <2>1
  <2>2. CASE frr' # frr
    <3> DEFINE c == Head(plan)
    <3>1. /\ plan # << >> /\ c.op \notin BookOps
          /\ frr' \in FailedEffects(frr, localAS, c) \cup {Effect(frr, localAS, c)}
      BY Zenon, <2>2, OnlyBatches DEF SparingInv
    <3>2. plan \in Seq(Sparing(desired))
      BY DEF SparingInv
    <3>3. c \in Sparing(desired)
      BY <3>1, <3>2, PlanParts
    <3>4. frr \in Configs /\ localAS \in ASNs \cup {0}
      BY Zenon DEF SparingInv, TypeInv, TypeOK
    <3> HIDE DEF c
    <3>5. c \in FRRCmds /\ c.op # "NoRouterBGP"
      BY Zenon, <3>1, <3>3 DEF Sparing, FRRCmds
    <3>6. OnlyRemoves(frr, frr', c)
      BY Zenon, <3>1, <3>4, <3>5, BatchRemoves
    <3> QED
      BY Zenon, <3>3, <3>6 DEF OnlyRemoves, Sparing
  <2> QED
    BY <2>1, <2>2
<1> QED
  BY <1>1, <1>2, SparingStep, PTL DEF Spec, RemovesOnlyUndesired

=============================================================================
