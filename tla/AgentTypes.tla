----------------------------- MODULE AgentTypes -----------------------------
(***************************************************************************)
(* Type correctness of Agent, for all values of the constants: the helpers *)
(* are called with arguments of the right kind only, in particular no      *)
(* removal helper is called for a key without an applied entry.            *)
(***************************************************************************)
EXTENDS Agent, FiniteSetTheorems, TLAPS

(***************************************************************************)
(* Sets and sequences.                                                     *)
(***************************************************************************)
\* A non-empty set of indices has a greatest element: otherwise the sets of
\* greater elements would descend for ever.
LEMMA GreatestIndex ==
  ASSUME NEW n \in Nat, NEW S \in SUBSET (1..n), S # {}
  PROVE  \E i \in S : \A j \in S : j <= i
<1> DEFINE Above(i) == {j \in S : j > i}
           T == {Above(i) : i \in S}
<1>1. T \subseteq FiniteSubsetsOf(1..n)
  <2>1. IsFiniteSet(1..n)
    BY FS_Interval
  <2> QED
    BY Zenon, <2>1, FS_FiniteSubsetsOfFinite
<1>2. PICK U \in T : \A V \in T : <<V, U>> \notin StrictSubsetOrdering(1..n)
  <2>1. T # {}
    BY Zenon
  <2> HIDE DEF T
  <2> QED
    BY <1>1, <2>1, FS_StrictSubsetOrderingWellFounded, WFMin
<1>3. PICK i \in S : U = Above(i)
  OBVIOUS
<1>4. ASSUME NEW j \in S, j > i PROVE FALSE
  <2>1. Above(j) \subseteq Above(i) /\ j \in Above(i) /\ j \notin Above(j)
    <3>1. i \in Int /\ j \in Int /\ \A x \in S : x \in Int
      OBVIOUS
    <3>2. \A x \in S : x > j => x > i
      BY <1>4, <3>1
    <3>3. ~(j > j)
      BY <3>1
    <3> QED
      BY Zenon, <1>4, <3>2, <3>3
  <2>2. <<Above(j), U>> \in StrictSubsetOrdering(1..n)
    BY Zenon, <2>1, <1>3 DEF StrictSubsetOrdering
  <2> QED
    BY Zenon, <2>2, <1>2
<1> QED
  BY <1>4

\* Counting up to a bound.
LEMMA Counted ==
  ASSUME NEW max \in Nat, NEW n \in 0..max, n < max
  PROVE  n + 1 \in 0..max
OBVIOUS

\* The elements of a finite set in some order form a sequence over it.
LEMMA OrderType ==
  ASSUME NEW S, IsFiniteSet(S)
  PROVE  (CHOOSE f \in Orders(S) : TRUE) \in Seq(S)
<1>1. Cardinality(S) \in Nat /\ ExistsBijection(1..Cardinality(S), S)
  BY FS_CardinalityType
<1>2. PICK f \in [1..Cardinality(S) -> S] :
        \A a, b \in 1..Cardinality(S) : f[a] = f[b] => a = b
  BY <1>1 DEF ExistsBijection, Bijection, Injection, IsInjective
<1>3. f \in Orders(S)
  BY <1>2 DEF Orders
<1>4. (CHOOSE g \in Orders(S) : TRUE) \in [1..Cardinality(S) -> S]
  BY Zenon, <1>3 DEF Orders
<1> QED
  BY <1>1, <1>4

(***************************************************************************)
(* FRR's configuration.                                                    *)
(***************************************************************************)
USE DEF CmdOn

\* The commands that reach FRR.
FRRCmds == {c \in Cmds : c.op \notin BookOps}

\* A configuration stays one when one of its entries is replaced.
LEMMA ConfigUpdate ==
  ASSUME NEW cfg \in Configs
  PROVE  /\ \A n \in Neighbors, v \in Neighbor \cup {None} :
              [cfg EXCEPT !.nbrs[n] = v] \in Configs
         /\ \A k \in PrefixSet, v \in {"absent", "plain", "routemap"} :
              [cfg EXCEPT !.nets[k] = v] \in Configs
         /\ \A k \in PrefixSet, v \in (SUBSET Attrs) \cup {None} :
              [cfg EXCEPT !.rmaps[k] = v] \in Configs
         /\ \A b \in BFDSessions, v \in BFDParams \cup {None} :
              [cfg EXCEPT !.bfd[b] = v] \in Configs
         /\ \A x \in Ifaces \X BOOLEAN, v \in OSPFPort :
              [cfg EXCEPT !.ospf[x] = v] \in Configs
<1> USE DEF Configs
<1>1. \A n \in Neighbors, v \in Neighbor \cup {None} :
        [cfg EXCEPT !.nbrs[n] = v] \in Configs
  OBVIOUS
<1>2. \A k \in PrefixSet, v \in {"absent", "plain", "routemap"} :
        [cfg EXCEPT !.nets[k] = v] \in Configs
  OBVIOUS
<1>3. \A k \in PrefixSet, v \in (SUBSET Attrs) \cup {None} :
        [cfg EXCEPT !.rmaps[k] = v] \in Configs
  OBVIOUS
<1>4. \A b \in BFDSessions, v \in BFDParams \cup {None} :
        [cfg EXCEPT !.bfd[b] = v] \in Configs
  OBVIOUS
<1>5. \A x \in Ifaces \X BOOLEAN, v \in OSPFPort :
        [cfg EXCEPT !.ospf[x] = v] \in Configs
  BY Zenon
<1> QED
  BY Zenon, <1>1, <1>2, <1>3, <1>4, <1>5

\* The entry of a neighbor is well formed once its lines have been sent.
LEMMA AddNeighborType ==
  ASSUME NEW old \in Neighbor \cup {None}, NEW p \in PeerIntent
  PROVE  AddNeighbor(old, p) \in Neighbor
<1>1. CASE old = None
  BY <1>1 DEF AddNeighbor, Neighbor, PeerIntent
<1>2. CASE old # None
  <2>1. old \in Neighbor
    BY <1>2
  <2>2. p.core \in Cores /\ p.opts \in SUBSET Opts
    BY DEF PeerIntent
  <2>3. [old EXCEPT !.core = p.core, !.opts = @ \cup p.opts] \in Neighbor
    BY Zenon, <2>1, <2>2 DEF Neighbor
  <2> QED
    BY <1>2, <2>3 DEF AddNeighbor
<1> QED
  BY <1>1, <1>2

\* A batch under "router bgp" maps configurations to configurations.
LEMMA BGPEffectType ==
  ASSUME NEW cfg \in Configs, NEW c \in FRRCmds, c.op \in BGPOps
  PROVE  BGPEffect(cfg, c) \in Configs
<1> DEFINE old == cfg.nbrs[c.key]
<1>1. CASE c.op = "AddNeighbor"
  <2>1. c.key \in Neighbors /\ c.arg \in PeerIntent
    BY <1>1 DEF FRRCmds, Cmds
  <2>2. old \in Neighbor \cup {None}
    BY <2>1 DEF Configs
  <2>3. AddNeighbor(old, c.arg) \in Neighbor
    BY <2>1, <2>2, AddNeighborType
  <2>4. BGPEffect(cfg, c) = [cfg EXCEPT !.nbrs[c.key] = AddNeighbor(old, c.arg)]
    BY <1>1, <2>1 DEF BGPEffect, Configs
  <2> QED
    BY <2>1, <2>3, <2>4, ConfigUpdate
<1>2. CASE c.op \in {"ActivateNeighborAFI", "SetNeighborMaxPrefix",
                     "EnableNeighborBFD", "DisableNeighborBFD"}
  <2>1. c.key \in Neighbors
    BY <1>2 DEF FRRCmds, Cmds
  <2>2. CASE old = None
    BY <1>2, <2>2 DEF BGPEffect, OnNeighbor
  <2>3. CASE old # None
    <3>1. old \in Neighbor
      BY <2>1, <2>3 DEF Configs
    <3>2. c.op \in {"ActivateNeighborAFI", "SetNeighborMaxPrefix"} => c.arg \in AFs
      BY DEF FRRCmds, Cmds
    <3>3. PICK new \in Neighbor : BGPEffect(cfg, c) = OnNeighbor(cfg, c.key, new)
      <4>1. CASE c.op = "ActivateNeighborAFI"
        <5>1. [old EXCEPT !.afs = @ \cup {c.arg}] \in Neighbor
          BY <3>1, <3>2, <4>1 DEF Neighbor
        <5> QED
          BY <4>1, <5>1 DEF BGPEffect
      <4>2. CASE c.op = "SetNeighborMaxPrefix"
        <5>1. [old EXCEPT !.limits = @ \cup {c.arg}] \in Neighbor
          BY <3>1, <3>2, <4>2 DEF Neighbor
        <5> QED
          BY <4>2, <5>1 DEF BGPEffect
      <4>3. CASE c.op = "EnableNeighborBFD"
        <5>1. [old EXCEPT !.bfd = TRUE] \in Neighbor
          BY Zenon, <3>1 DEF Neighbor
        <5> QED
          BY <4>3, <5>1 DEF BGPEffect
      <4>4. CASE c.op = "DisableNeighborBFD"
        <5>1. [old EXCEPT !.bfd = FALSE] \in Neighbor
          BY Zenon, <3>1 DEF Neighbor
        <5> QED
          BY <4>4, <5>1 DEF BGPEffect
      <4> QED
        BY <1>2, <4>1, <4>2, <4>3, <4>4
    <3> QED
      BY <2>1, <2>3, <3>3, ConfigUpdate DEF OnNeighbor
  <2> QED
    BY <2>2, <2>3
<1>3. CASE c.op = "RemoveNeighbor"
  <2>1. c.key \in Neighbors
    BY <1>3 DEF FRRCmds, Cmds
  <2> QED
    BY <1>3, <2>1, ConfigUpdate DEF BGPEffect
<1>4. CASE c.op \in {"AdvertiseNetwork", "AdvertiseNetworkWithRouteMap",
                     "WithdrawNetwork"}
  <2>1. c.key \in PrefixSet
    BY <1>4 DEF FRRCmds, Cmds
  <2> QED
    BY <1>4, <2>1, ConfigUpdate DEF BGPEffect
<1> QED
  BY <1>1, <1>2, <1>3, <1>4 DEF BGPOps

\* Enabling and disabling OSPF leaves a port, whether or not the lines for the
\* parameters and for passive-interface are among those that ran.
LEMMA PortType ==
  ASSUME NEW old \in OSPFPort, NEW o \in OSPFIntent
  PROVE  /\ EnabledPort(old, o) \in OSPFPort
         /\ EnabledPort(old, [o EXCEPT !.passive = FALSE]) \in OSPFPort
         /\ EnabledPort(old, [o EXCEPT !.passive = FALSE, !.params = Unset])
              \in OSPFPort
         /\ DisabledPort(old, o) \in OSPFPort
         /\ DisabledPort(old, [o EXCEPT !.passive = FALSE]) \in OSPFPort
<1>1. ASSUME NEW x, x.area \in Areas, x.passive \in BOOLEAN,
             x.params \in OSPFParams \cup {Unset}
      PROVE  EnabledPort(old, x) \in OSPFPort /\ DisabledPort(old, x) \in OSPFPort
  <2>1. old.area \in Areas \cup {None} /\ old.params \in OSPFParams \cup {None}
    BY DEF OSPFPort
  <2>2. (IF x.params = Unset THEN old.params ELSE x.params)
          \in OSPFParams \cup {None}
    BY Zenon, <1>1, <2>1
  <2>3. (old.passive \/ x.passive) \in BOOLEAN /\ (old.passive /\ ~x.passive) \in BOOLEAN
    BY Zenon
  <2>4. EnabledPort(old, x) \in OSPFPort
    BY Zenon, <1>1, <2>2, <2>3 DEF EnabledPort, OSPFPort
  <2>5. DisabledPort(old, x) \in OSPFPort
    BY Zenon, <2>1, <2>3 DEF DisabledPort, OSPFPort
  <2> QED
    BY <2>4, <2>5
<1>2. /\ o.area \in Areas /\ o.passive \in BOOLEAN /\ o.params \in OSPFParams
      /\ [o EXCEPT !.passive = FALSE].area = o.area
      /\ [o EXCEPT !.passive = FALSE].passive = FALSE
      /\ [o EXCEPT !.passive = FALSE].params = o.params
      /\ [o EXCEPT !.passive = FALSE, !.params = Unset].area = o.area
      /\ [o EXCEPT !.passive = FALSE, !.params = Unset].passive = FALSE
      /\ [o EXCEPT !.passive = FALSE, !.params = Unset].params = Unset
  BY DEF OSPFIntent
<1> QED
  BY Zenon, <1>1, <1>2

\* So does a batch outside it.
LEMMA OtherEffectType ==
  ASSUME NEW cfg \in Configs, NEW c \in FRRCmds, c.op \notin BGPOps
  PROVE  OtherEffect(cfg, c) \in Configs
<1> USE DEF Configs
<1>1. CASE c.op \in {"RouterBGP", "NoRouterBGP"}
  <2>1. c.arg \in ASNs
    BY <1>1 DEF FRRCmds, Cmds
  <2> QED
    BY Zenon, <1>1, <2>1 DEF OtherEffect, EmptyConfig
<1>2. CASE c.op \in {"ConfigureRouteMap", "RemoveRouteMap"}
  <2>1. c.key \in PrefixSet /\ (c.op = "ConfigureRouteMap" => c.arg \in SUBSET Attrs)
    BY <1>2 DEF FRRCmds, Cmds
  <2> QED
    BY ZenonT(40), <1>2, <2>1, ConfigUpdate DEF OtherEffect
<1>3. CASE c.op \in {"AddBFDPeer", "RemoveBFDPeer"}
  <2>1. <<c.key, c.arg.iface>> \in BFDSessions /\ c.arg.params \in BFDParams
    BY <1>3 DEF FRRCmds, Cmds, BFDIntent, BFDSessions
  <2> QED
    BY Zenon, <1>3, <2>1 DEF OtherEffect, AddBFD
<1>4. CASE c.op \in {"EnableOSPFInterface", "DisableOSPFInterface"}
  <2>1. <<c.key, c.arg.v6>> \in Ifaces \X BOOLEAN /\ c.arg \in OSPFIntent
    BY <1>4 DEF FRRCmds, Cmds, OSPFIntent
  <2>2. cfg.ospf[<<c.key, c.arg.v6>>] \in OSPFPort
    BY <2>1
  <2>3. /\ EnabledPort(cfg.ospf[<<c.key, c.arg.v6>>], c.arg) \in OSPFPort
        /\ DisabledPort(cfg.ospf[<<c.key, c.arg.v6>>], c.arg) \in OSPFPort
    BY Zenon, <2>1, <2>2, PortType
  <2> QED
    BY Zenon, <1>4, <2>1, <2>3 DEF OtherEffect
<1> QED
  BY <1>1, <1>2, <1>3, <1>4 DEF FRRCmds, Cmds, BGPOps, BookOps

\* What a batch leaves behind, completely or partly run, is a configuration.
LEMMA EffectType ==
  ASSUME NEW cfg \in Configs, NEW as \in ASNs \cup {0}, NEW c \in FRRCmds
  PROVE  /\ Effect(cfg, as, c) \in Configs
         /\ FailedEffects(cfg, as, c) \subseteq Configs
<1>1. Entered(cfg, as, c) \in Configs
  BY Zenon DEF Entered, Configs
<1>2. Effect(cfg, as, c) \in Configs
  BY Zenon, <1>1, BGPEffectType, OtherEffectType DEF Effect
<1>3. ASSUME NEW in \in Configs PROVE PartialEffect(in, c) \subseteq Configs
  <2>1. CASE c.op = "ConfigureRouteMap"
    <3>1. c.key \in PrefixSet
      BY <2>1 DEF FRRCmds, Cmds
    <3>2. /\ [in EXCEPT !.rmaps[c.key] = None] \in Configs
          /\ [in EXCEPT !.rmaps[c.key] = {}] \in Configs
      BY Zenon, <3>1, ConfigUpdate
    <3> QED
      BY Zenon, <2>1, <3>2 DEF PartialEffect
  <2>2. CASE c.op = "AddNeighbor"
    <3>1. c.key \in Neighbors /\ c.arg \in PeerIntent
      BY <2>2 DEF FRRCmds, Cmds
    <3>2. [c.arg EXCEPT !.opts = {}] \in PeerIntent
      BY <3>1 DEF PeerIntent
    <3>3. in.nbrs[c.key] \in Neighbor \cup {None}
      BY <3>1 DEF Configs
    <3>4. AddNeighbor(in.nbrs[c.key], [c.arg EXCEPT !.opts = {}]) \in Neighbor
      BY <3>2, <3>3, AddNeighborType
    <3> QED
      <4>1. PartialEffect(in, c) =
              {[in EXCEPT !.nbrs[c.key] =
                  AddNeighbor(in.nbrs[c.key], [c.arg EXCEPT !.opts = {}])]}
        BY <2>2, <3>1 DEF PartialEffect, Configs
      <4> QED
        BY <3>1, <3>4, <4>1, ConfigUpdate
  <2>3. CASE c.op = "AddBFDPeer"
    <3> DEFINE x == <<c.key, c.arg.iface>>
    <3>1. x \in BFDSessions
      BY <2>3 DEF FRRCmds, Cmds, BFDIntent, BFDSessions
    <3>2. AddBFD(in.bfd[x], Unset) \in BFDParams \cup {Unset, None}
      BY <3>1 DEF AddBFD, Configs
    <3>3. PartialEffect(in, c) =
            {[in EXCEPT !.bfd[x] = AddBFD(in.bfd[x], Unset)]}
      BY <2>3, <3>1 DEF PartialEffect, Configs
    <3> HIDE DEF x
    <3>4. \A v \in BFDParams \cup {Unset, None} : [in EXCEPT !.bfd[x] = v] \in Configs
      BY Zenon, <3>1 DEF Configs
    <3> QED
      BY Zenon, <3>2, <3>3, <3>4
  <2>4. CASE c.op \in {"EnableOSPFInterface", "DisableOSPFInterface"}
    <3> DEFINE x == <<c.key, c.arg.v6>>
               act == [c.arg EXCEPT !.passive = FALSE]
               bare == [c.arg EXCEPT !.passive = FALSE, !.params = Unset]
    <3>1. x \in Ifaces \X BOOLEAN /\ c.arg \in OSPFIntent
      BY <2>4 DEF FRRCmds, Cmds, OSPFIntent
    <3>2. in.ospf[x] \in OSPFPort
      BY <3>1 DEF Configs
    <3>3. /\ EnabledPort(in.ospf[x], act) \in OSPFPort
          /\ EnabledPort(in.ospf[x], bare) \in OSPFPort
          /\ DisabledPort(in.ospf[x], act) \in OSPFPort
      BY Zenon, <3>1, <3>2, PortType
    <3>4. PartialEffect(in, c) \subseteq
            {[in EXCEPT !.ospf[x] = v] :
               v \in {EnabledPort(in.ospf[x], act), EnabledPort(in.ospf[x], bare),
                     DisabledPort(in.ospf[x], act)}}
      BY <2>4, <3>1 DEF PartialEffect, Configs
    <3> HIDE DEF x, act, bare
    <3>5. \A v \in OSPFPort : [in EXCEPT !.ospf[x] = v] \in Configs
      BY Zenon, <3>1 DEF Configs
    <3> QED
      BY Zenon, <3>3, <3>4, <3>5
  <2> QED
    BY <2>1, <2>2, <2>3, <2>4 DEF PartialEffect
<1> QED
  BY Zenon, <1>1, <1>2, <1>3 DEF FailedEffects

(***************************************************************************)
(* Keys, intents and plans.                                                *)
(***************************************************************************)
\* The second half of a key is an object of the key's kind.
LEMMA SlotKey ==
  ASSUME NEW s \in Slots
  PROVE  /\ s[1] \in Kinds
         /\ s \in SlotsOf(s[1])
         /\ s[1] \in {"peer", "bfd"} => s[2] \in Neighbors
         /\ s[1] = "prefix" => s[2] \in PrefixSet
         /\ s[1] = "ospf" => s[2] \in Ifaces
BY DEF Slots, SlotsOf, Kinds, peerKey, prefixKey, bfdKey, ospfKey

\* An entry of a map of intents is an intent of the key's kind.
LEMMA IntentAt ==
  ASSUME NEW m \in IntentMaps, NEW s \in Slots, m[s] # None
  PROVE  /\ s[1] = "peer" => m[s] \in PeerIntent
         /\ s[1] = "prefix" => m[s] \in PrefixIntent
         /\ s[1] = "bfd" => m[s] \in BFDIntent
         /\ s[1] = "ospf" => m[s] \in OSPFIntent
<1>1. m[s] \in IntentsOf(s[1])
  BY DEF IntentMaps
<1> QED
  BY <1>1 DEF IntentsOf

\* Replacing an entry by another of the same kind, or by nothing, gives a map
\* of intents.
LEMMA IntentMapUpdate ==
  ASSUME NEW m \in IntentMaps, NEW s \in Slots,
         NEW v \in IntentsOf(s[1]) \cup {None}
  PROVE  [m EXCEPT ![s] = v] \in IntentMaps
<1>1. IntentsOf(s[1]) \subseteq Intents
  BY SlotKey DEF IntentsOf, Intents, Kinds
<1> QED
  BY <1>1 DEF IntentMaps

\* The empty map is one.
LEMMA NoIntents == [s \in Slots |-> None] \in IntentMaps
BY DEF IntentMaps

(* What the plan of an addition or an update may hold: nothing that takes a *)
(* neighbor, a network or the BGP instance out of FRR.                     *)
AdditionCmds ==
  {c \in Cmds :
     c.op \notin {"RemoveNeighbor", "WithdrawNetwork", "NoRouterBGP"}}

\* Such a plan is a plan.
LEMMA AdditionIsPlan ==
  ASSUME NEW p \in Seq(AdditionCmds)
  PROVE  p \in Seq(Cmds)
<1>1. Len(p) \in Nat /\ p \in [1..Len(p) -> AdditionCmds]
  OBVIOUS
<1>2. p \in [1..Len(p) -> Cmds]
  BY <1>1 DEF AdditionCmds
<1> QED
  BY <1>1, <1>2

\* The calls for each address family.
LEMMA PerAFType ==
  ASSUME NEW op \in {"ActivateNeighborAFI", "SetNeighborMaxPrefix"},
         NEW n \in Neighbors, NEW afs \in SUBSET AFs
  PROVE  PerAF(op, n, afs) \in Seq(AdditionCmds)
<1> DEFINE order == CHOOSE f \in Orders(afs) : TRUE
<1>1. order \in Seq(afs)
  BY AgentAssumption, FS_Subset, OrderType
<1>2. \A a \in AFs : Cmd(op, n, a, "abort") \in AdditionCmds
  BY DEF Cmd, Cmds, AdditionCmds
<1>3. PerAF(op, n, afs) = [i \in 1..Len(order) |-> Cmd(op, n, order[i], "abort")]
  BY Zenon DEF PerAF
<1> HIDE DEF order
<1>4. Len(order) \in Nat /\ \A i \in 1..Len(order) : order[i] \in AFs
  BY <1>1
<1> QED
  BY <1>2, <1>3, <1>4

\* The calls of applyPeerIntent are well formed.
LEMMA PeerPlanType ==
  ASSUME NEW n \in Neighbors, NEW p \in PeerIntent
  PROVE  applyPeerIntent(n, p) \in Seq(AdditionCmds)
<1>1. p.afs \in SUBSET AFs /\ PeerBFD(p) \in BFDIntent
  BY DEF PeerIntent, PeerBFD, BFDIntent
<1>2. /\ PerAF("ActivateNeighborAFI", n, p.afs) \in Seq(AdditionCmds)
      /\ PerAF("SetNeighborMaxPrefix", n, p.afs) \in Seq(AdditionCmds)
  BY <1>1, PerAFType
<1>3. /\ <<Cmd("AddNeighbor", n, p, "abort")>> \in Seq(AdditionCmds)
      /\ <<Cmd("DisableNeighborBFD", n, None, "abort")>> \in Seq(AdditionCmds)
  BY DEF Cmd, Cmds, AdditionCmds
<1>4. <<Cmd("AddBFDPeer", n, PeerBFD(p), "abort"),
        Cmd("track", n, PeerBFD(p), "abort"),
        Cmd("EnableNeighborBFD", n, None, "abort")>> \in Seq(AdditionCmds)
  <2>1. /\ Cmd("AddBFDPeer", n, PeerBFD(p), "abort") \in AdditionCmds
        /\ Cmd("track", n, PeerBFD(p), "abort") \in AdditionCmds
        /\ Cmd("EnableNeighborBFD", n, None, "abort") \in AdditionCmds
    BY <1>1 DEF Cmd, Cmds, AdditionCmds
  <2> QED
    BY <2>1
<1>5. <<Cmd("RemoveBFDPeer", n, PeerBFD(p), "abort"),
        Cmd("untrack", n, None, "abort")>> \in Seq(AdditionCmds)
  <2>1. /\ Cmd("RemoveBFDPeer", n, PeerBFD(p), "abort") \in AdditionCmds
        /\ Cmd("untrack", n, None, "abort") \in AdditionCmds
    BY <1>1 DEF Cmd, Cmds, AdditionCmds
  <2> QED
    BY <2>1
<1> QED
  BY <1>2, <1>3, <1>4, <1>5 DEF applyPeerIntent

\* So are those of ReconcilePrefixes for one prefix.
LEMMA PrefixPlanType ==
  ASSUME NEW k \in PrefixSet, NEW p \in PrefixIntent
  PROVE  staleRouteMap(k) \o applyPrefixIntent(k, p) \in Seq(AdditionCmds)
<1>1. staleRouteMap(k) \in Seq(AdditionCmds)
  <2>1. Cmd("RemoveRouteMap", k, None, "warn") \in AdditionCmds
    BY DEF Cmd, Cmds, AdditionCmds
  <2> QED
    BY <2>1 DEF staleRouteMap
<1>2. applyPrefixIntent(k, p) \in Seq(AdditionCmds)
  <2>1. /\ Cmd("ConfigureRouteMap", k, p.attrs, "abort") \in AdditionCmds
        /\ Cmd("AdvertiseNetworkWithRouteMap", k, None, "abort") \in AdditionCmds
        /\ Cmd("AdvertiseNetwork", k, None, "abort") \in AdditionCmds
        /\ Cmd("fail", k, None, "abort") \in AdditionCmds
    BY DEF Cmd, Cmds, AdditionCmds, PrefixIntent
  <2> QED
    BY SMTT(30), <2>1 DEF applyPrefixIntent
<1> QED
  BY <1>1, <1>2

\* The body of the add-or-update loops, for a key with a desired intent.
LEMMA ApplyPlanType ==
  ASSUME desired \in IntentMaps, NEW s \in Slots, desired[s] # None
  PROVE  ApplyPlan(s) \in Seq(AdditionCmds)
<1>1. <<Cmd("applied", s, desired[s], "abort")>> \in Seq(AdditionCmds)
  <2>1. Cmd("applied", s, desired[s], "abort") \in AdditionCmds
    BY SlotKey, IntentAt DEF Cmd, Cmds, AdditionCmds, Kinds
  <2> QED
    BY <2>1
<1>2. CASE s[1] = "peer"
  BY <1>1, <1>2, SlotKey, IntentAt, PeerPlanType DEF ApplyPlan
<1>3. CASE s[1] = "prefix"
  BY <1>1, <1>3, SlotKey, IntentAt, PrefixPlanType DEF ApplyPlan
<1>4. CASE s[1] = "bfd"
  <2>1. Cmd("AddBFDPeer", s[2], desired[s], "abort") \in AdditionCmds
    BY <1>4, SlotKey, IntentAt DEF Cmd, Cmds, AdditionCmds
  <2> QED
    BY <1>1, <1>4, <2>1 DEF ApplyPlan
<1>5. CASE s[1] = "ospf"
  <2>1. Cmd("EnableOSPFInterface", s[2], desired[s], "abort") \in AdditionCmds
    BY <1>5, SlotKey, IntentAt DEF Cmd, Cmds, AdditionCmds
  <2> QED
    BY <1>1, <1>5, <2>1 DEF ApplyPlan
<1> QED
  BY <1>2, <1>3, <1>4, <1>5, SlotKey DEF Kinds

\* What the plan of a removal may hold while its loop has yet to visit the
\* keys w of kind k: it takes no key of w out of the applied maps.
RemovalCmds(k, w) ==
  {c \in Cmds : /\ c.op \notin {"track", "applied"}
                /\ c.op = "untrack" => k = "peer"
                /\ c.op = "removed" => c.key \notin w}

\* Such a plan is a plan.
LEMMA RemovalIsPlan ==
  ASSUME NEW k, NEW w, NEW p \in Seq(RemovalCmds(k, w))
  PROVE  p \in Seq(Cmds)
<1>1. Len(p) \in Nat /\ p \in [1..Len(p) -> RemovalCmds(k, w)]
  OBVIOUS
<1>2. p \in [1..Len(p) -> Cmds]
  BY <1>1 DEF RemovalCmds
<1> QED
  BY <1>1, <1>2

\* A plan with one more command.
LEMMA ThenOne ==
  ASSUME NEW R, NEW p \in Seq(R), NEW c \in R
  PROVE  p \o <<c>> \in Seq(R)
OBVIOUS

\* The body of the removal loops, for a key with an applied entry.
LEMMA RemovePlanType ==
  ASSUME applied \in IntentMaps, NEW s \in Slots, applied[s] # None,
         NEW w, s \notin w
  PROVE  /\ RemovePlan(s) \in Seq(RemovalCmds(s[1], w))
         /\ WithdrawPlan(s) \in Seq(RemovalCmds(s[1], w))
<1> DEFINE R == RemovalCmds(s[1], w)
<1>1. Cmd("removed", s, None, "abort") \in R
  BY DEF Cmd, Cmds, RemovalCmds
<1>2. CASE s[1] = "peer"
  <2>1. PeerBFD(applied[s]) \in BFDIntent
    BY <1>2, IntentAt DEF PeerIntent, PeerBFD, BFDIntent
  <2>2. /\ Cmd("DisableNeighborBFD", s[2], None, "warn") \in R
        /\ Cmd("RemoveBFDPeer", s[2], PeerBFD(applied[s]), "warn") \in R
        /\ Cmd("untrack", s[2], None, "abort") \in R
        /\ Cmd("RemoveNeighbor", s[2], None, "abort") \in R
    BY ZenonT(40), <1>2, <2>1, SlotKey DEF Cmd, Cmds, RemovalCmds
  <2> HIDE DEF R
  <2>3. removeManagedBFD(s[2], applied[s]) \in Seq(R)
    BY SMTT(30), <2>2 DEF removeManagedBFD
  <2>4. RemovePlan(s) \in Seq(R)
    <3>1. RemovePlan(s) = (removeManagedBFD(s[2], applied[s])
                             \o <<Cmd("RemoveNeighbor", s[2], None, "abort")>>)
                            \o <<Cmd("removed", s, None, "abort")>>
      BY SMTT(30), <1>2 DEF RemovePlan
    <3> QED
      BY <1>1, <2>2, <2>3, <3>1, ThenOne
  <2>5. WithdrawPlan(s) \in Seq(R)
    BY <1>1, <1>2, <2>2 DEF WithdrawPlan
  <2> QED
    BY <2>4, <2>5 DEF R
<1>3. CASE s[1] = "prefix"
  <2>1. \A e \in {"warn", "collect"} :
           removePrefixFromFRR(s[2], applied[s], e) \in Seq(R)
    <3>1. SUFFICES ASSUME NEW e \in {"warn", "collect"}
                   PROVE  removePrefixFromFRR(s[2], applied[s], e) \in Seq(R)
      OBVIOUS
    <3>2. /\ Cmd("WithdrawNetwork", s[2], None, "abort") \in R
          /\ Cmd("RemoveRouteMap", s[2], None, e) \in R
          /\ Cmd("fail", s[2], None, "abort") \in R
      BY <1>3, SlotKey DEF Cmd, Cmds, RemovalCmds
    <3> HIDE DEF R
    <3> QED
      BY <3>2 DEF removePrefixFromFRR
  <2> HIDE DEF R
  <2>2. RemovePlan(s) \in Seq(R)
    BY <1>1, <1>3, <2>1 DEF RemovePlan
  <2>3. WithdrawPlan(s) \in Seq(R)
    <3> DEFINE p == IF Proto[s[2]] = "BGP"
                    THEN removePrefixFromFRR(s[2], applied[s], "collect")
                    ELSE << >>
    <3>1. p \in Seq(R)
      BY <2>1
    <3>2. WithdrawPlan(s) = p \o <<Cmd("removed", s, None, "abort")>>
      BY <1>3 DEF WithdrawPlan
    <3> HIDE DEF p
    <3> QED
      BY <1>1, <3>1, <3>2, ThenOne
  <2> QED
    BY <2>2, <2>3 DEF R
<1>4. CASE s[1] \in {"bfd", "ospf"}
  <2>1. s[1] = "bfd" => Cmd("RemoveBFDPeer", s[2], applied[s], "abort") \in R
    BY SlotKey, IntentAt DEF Cmd, Cmds, RemovalCmds
  <2>2. s[1] = "ospf" =>
          Cmd("DisableOSPFInterface", s[2], applied[s], "abort") \in R
    BY SlotKey, IntentAt DEF Cmd, Cmds, RemovalCmds
  <2> HIDE DEF R
  <2>3. RemovePlan(s) \in Seq(R)
    BY <1>1, <1>4, <2>1, <2>2 DEF RemovePlan
  <2>4. WithdrawPlan(s) = RemovePlan(s)
    BY SMTT(30), <1>4 DEF WithdrawPlan
  <2> QED
    BY <2>3, <2>4 DEF R
<1> QED
  BY <1>2, <1>3, <1>4, SlotKey DEF Kinds

\* The calls of ReconfigureBGPGlobal.
LEMMA GlobalPlanType ==
  ASSUME NEW old \in ASNs \cup {0}, NEW new \in ASNs
  PROVE  ReconfigureBGPGlobal(old, new) \in Seq(Cmds)
<1>1. Cmd("RouterBGP", None, new, "abort") \in Cmds
  BY DEF Cmd, Cmds
<1>2. old # 0 => Cmd("NoRouterBGP", None, old, "abort") \in Cmds
  BY DEF Cmd, Cmds
<1> QED
  BY <1>1, <1>2 DEF ReconfigureBGPGlobal

\* A read of the store gives intents of the kind that was read.
LEMMA SnapshotType ==
  ASSUME intents \in [AllOwners -> IntentMaps], NEW k, NEW snap \in DesiredMaps(k),
         NEW s \in SlotsOf(k)
  PROVE  snap[s] \in IntentsOf(s[1]) \cup {None}
<1>1. PICK order \in Orders(AllOwners) :
        snap = [t \in SlotsOf(k) |->
                  LET has == {i \in DOMAIN order : intents[order[i]][t] # None}
                  IN  IF has = {} THEN None
                      ELSE intents[order[CHOOSE i \in has : \A j \in has : j <= i]][t]]
  BY Zenon DEF DesiredMaps
<1> DEFINE has == {i \in DOMAIN order : intents[order[i]][s] # None}
           last == CHOOSE i \in has : \A j \in has : j <= i
<1>2. snap[s] = IF has = {} THEN None ELSE intents[order[last]][s]
  BY Zenon, <1>1
<1>3. CASE has = {}
  BY <1>2, <1>3
<1>4. CASE has # {}
  <2>1. IsFiniteSet(AllOwners)
    BY AgentAssumption, FS_AddElement DEF AllOwners
  <2>2. Cardinality(AllOwners) \in Nat
    BY <2>1, FS_CardinalityType
  <2>3. order \in [1..Cardinality(AllOwners) -> AllOwners]
    BY DEF Orders
  <2>4. has \in SUBSET (1..Cardinality(AllOwners))
    BY <2>3
  <2>5. \E i \in has : \A j \in has : j <= i
    <3> HIDE DEF has
    <3> QED
      BY Zenon, <1>4, <2>2, <2>4, GreatestIndex
  <2>6. last \in has
    <3> HIDE DEF has
    <3> QED
      BY <2>5
  <2>7. order[last] \in AllOwners
    <3> HIDE DEF has, last
    <3> QED
      BY <2>3, <2>4, <2>6
  <2>8. intents[order[last]] \in IntentMaps
    <3> HIDE DEF last
    <3> QED
      BY <2>7
  <2>9. s \in Slots
    BY DEF SlotsOf
  <2> HIDE DEF has, last
  <2> QED
    BY <1>2, <1>4, <2>8, <2>9 DEF IntentMaps
<1> QED
  BY <1>3, <1>4

(***************************************************************************)
(* The inductive invariant.                                                *)
(***************************************************************************)
(* TypeOK alone is not inductive: that a helper gets an intent, not the    *)
(* absence of one, depends on what its loop ranges over.  While keys are   *)
(* applied each of them is desired; while keys are removed or withdrawn    *)
(* each of them has an applied entry, which no other key's plan takes      *)
(* away; and r.mu keeps SetFRRClient from emptying the maps meanwhile.     *)
WorkOK ==
  /\ ~MuHeld => plan = << >>
  /\ pc = "apply" => \A s \in work : s \in SlotsOf(kind) /\ desired[s] # None
  /\ pc \in {"remove", "withdraw"} =>
       /\ \A s \in work : s \in SlotsOf(kind) /\ applied[s] # None
       /\ plan \in Seq(RemovalCmds(kind, work))

TypeInv == TypeOK /\ WorkOK

\* The invariant holds at the start.
LEMMA TypeInvInit == Init => TypeInv
<1> SUFFICES ASSUME Init PROVE TypeInv
  OBVIOUS
<1>1. frr \in Configs
  BY DEF Init, RecInit, EmptyConfig, NoPort, Configs, OSPFPort
<1>2. /\ applied \in IntentMaps /\ desired \in IntentMaps
      /\ intents \in [AllOwners -> IntentMaps]
  BY NoIntents DEF Init, RecInit
<1>3. TypeOK
  <2>1. /\ faults \in 0..MaxFaults /\ calls \in 0..MaxCalls
        /\ restarts \in 0..MaxRestarts /\ crashes \in 0..MaxCrashes
    BY AgentAssumption DEF Init, RecInit
  <2>2. localAS \in ASNs \cup {0} /\ bgpGlobal \in ASNs \cup {0}
    BY AgentAssumption DEF Init, RecInit
  <2>3. plan \in Seq(Cmds)
    BY DEF Init, RecInit
  <2> QED
    BY Zenon, <1>1, <1>2, <2>1, <2>2, <2>3 DEF Init, RecInit, TypeOK, Kinds
<1>4. WorkOK
  BY DEF Init, RecInit, WorkOK
<1> QED
  BY <1>3, <1>4 DEF TypeInv

\* A request stores an intent of its key's kind, with defaults filled in.
LEMMA RequestStores ==
  ASSUME NEW o, NEW r \in Requests, Request(o, r[1], r[2])
  PROVE  \E s \in Slots : \E v \in IntentsOf(s[1]) : SetIntent(o, s, v)
<1> USE AgentAssumption
<1> DEFINE k == r[1][2]
<1>1. r[1] \in Slots /\ r[2] \in IntentsOf(r[1][1])
  OBVIOUS
<1>2. CASE r[1][1] = "peer" /\ ApplyPeer(o, k, r[2])
  <2>1. k \in Neighbors /\ r[2] \in PeerIntent
    BY <1>1, <1>2, SlotKey DEF IntentsOf
  <2>2. peerKey(k) \in Slots /\ IntentsOf(peerKey(k)[1]) = PeerIntent
    BY <2>1 DEF Slots, peerKey, IntentsOf
  <2> DEFINE v == [r[2] EXCEPT !.afs = AFsOrDefault(@),
                     !.bfdParams = IF r[2].bfd THEN BFDOrDefault(@) ELSE @]
  <2>3. v \in PeerIntent
    BY Zenon, <2>1 DEF PeerIntent, AFsOrDefault, BFDOrDefault
  <2>4. SetIntent(o, peerKey(k), v)
    BY <1>2 DEF ApplyPeer
  <2> HIDE DEF k, v
  <2> QED
    BY <2>2, <2>3, <2>4
<1>3. CASE r[1][1] = "prefix" /\ AdvertisePrefix(o, k, r[2])
  <2>1. k \in PrefixSet /\ r[2] \in PrefixIntent
    BY <1>1, <1>3, SlotKey DEF IntentsOf
  <2>2. prefixKey(k) \in Slots /\ IntentsOf(prefixKey(k)[1]) = PrefixIntent
    BY <2>1 DEF Slots, prefixKey, IntentsOf
  <2> QED
    BY <1>3, <2>1, <2>2 DEF AdvertisePrefix
<1>4. CASE r[1][1] = "bfd" /\ EnableBFD(o, k, r[2])
  <2>1. k \in Neighbors /\ r[2] \in BFDIntent
    BY <1>1, <1>4, SlotKey DEF IntentsOf
  <2>2. bfdKey(k) \in Slots /\ IntentsOf(bfdKey(k)[1]) = BFDIntent
    BY <2>1 DEF Slots, bfdKey, IntentsOf
  <2> DEFINE v == [r[2] EXCEPT !.params = BFDOrDefault(@)]
  <2>3. v \in BFDIntent
    BY <2>1 DEF BFDIntent, BFDOrDefault
  <2>4. SetIntent(o, bfdKey(k), v)
    BY <1>4 DEF EnableBFD
  <2> HIDE DEF k, v
  <2> QED
    BY <2>2, <2>3, <2>4
<1>5. CASE r[1][1] = "ospf" /\ EnableOSPF(o, k, r[2])
  <2>1. k \in Ifaces /\ r[2] \in OSPFIntent
    BY <1>1, <1>5, SlotKey DEF IntentsOf
  <2>2. ospfKey(k) \in Slots /\ IntentsOf(ospfKey(k)[1]) = OSPFIntent
    BY <2>1 DEF Slots, ospfKey, IntentsOf
  <2> QED
    BY <1>5, <2>1, <2>2 DEF EnableOSPF
<1> QED
  BY Zenon, <1>2, <1>3, <1>4, <1>5 DEF Request

\* Handlers change one owner's intents, or the BGP settings.
LEMMA HandlersType == TypeInv /\ Handlers => TypeInv'
<1> SUFFICES ASSUME TypeInv, Handlers PROVE TypeInv'
  OBVIOUS
<1> USE DEF TypeInv
<1> USE AgentAssumption
<1>1. PICK o \in Owners :
        \/ \E s \in Slots : \E v \in IntentsOf(s[1]) : SetIntent(o, s, v)
        \/ \E s \in Slots : RemoveIntent(o, s)
        \/ Deregister(o)
        \/ \E as \in ASNs : ConfigureBGP(o, as)
        \/ TriggerReconcile(o)
  BY Zenon, RequestStores DEF Handlers, RemovePeer, DisableBFD, WithdrawPrefix,
     DisableOSPF, Slots
<1>2. o \in AllOwners /\ intents[o] \in IntentMaps
  BY SMTT(30) DEF AllOwners, TypeOK
<1>3. ASSUME UNCHANGED <<recVars, restarts, crashes, conn>>,
             intents' \in [AllOwners -> IntentMaps], rpc' \in SUBSET Owners,
             triggerCh' \in BOOLEAN, calls' \in 0..MaxCalls
      PROVE  TypeInv'
  <2>1. TypeOK'
    BY ZenonT(40), <1>3 DEF TypeOK, recVars
  <2>2. WorkOK'
    BY ZenonT(40), <1>3 DEF WorkOK, recVars, MuHeld
  <2> QED
    BY <2>1, <2>2
<1>4. ASSUME Call(o)
      PROVE  rpc' \in SUBSET Owners /\ calls' \in 0..MaxCalls
  <2>1. MaxCalls \in Nat /\ calls \in 0..MaxCalls /\ rpc \subseteq Owners
    BY Zenon DEF TypeOK
  <2> QED
    BY Zenon, <1>4, <2>1, Counted DEF Call
<1>5. CASE \E s \in Slots : \E v \in IntentsOf(s[1]) : SetIntent(o, s, v)
  <2> PICK s \in Slots : \E v \in IntentsOf(s[1]) : SetIntent(o, s, v)
    BY <1>5
  <2>1. PICK v \in IntentsOf(s[1]) : SetIntent(o, s, v)
    OBVIOUS
  <2>2. [intents[o] EXCEPT ![s] = v] \in IntentMaps
    BY <1>2, IntentMapUpdate
  <2>3. intents' \in [AllOwners -> IntentMaps]
    BY Zenon, <1>2, <2>1, <2>2 DEF SetIntent, TypeOK
  <2> QED
    BY Zenon, <1>3, <1>4, <2>1, <2>3 DEF SetIntent, Call, TypeOK
<1>6. CASE \E s \in Slots : RemoveIntent(o, s)
  <2>1. PICK s \in Slots : RemoveIntent(o, s)
    BY <1>6
  <2>2. [intents[o] EXCEPT ![s] = None] \in IntentMaps
    BY <1>2, IntentMapUpdate
  <2>3. intents' \in [AllOwners -> IntentMaps]
    BY <1>2, <2>1, <2>2 DEF RemoveIntent, TypeOK
  <2> QED
    BY Zenon, <1>3, <1>4, <2>1, <2>3 DEF RemoveIntent, Call, TypeOK
<1>7. CASE Deregister(o)
  <2>1. intents' \in [AllOwners -> IntentMaps]
    BY <1>2, <1>7, NoIntents DEF Deregister, TypeOK
  <2> QED
    BY Zenon, <1>3, <1>4, <1>7, <2>1 DEF Deregister, Call, TypeOK
<1>8. CASE \E as \in ASNs : ConfigureBGP(o, as)
  <2>1. TypeOK'
    BY ZenonT(30), <1>8, <1>4
    DEF ConfigureBGP, UpdateBGPGlobal, Call, TypeOK, planVars
  <2>2. WorkOK'
    BY Zenon, <1>8 DEF ConfigureBGP, UpdateBGPGlobal, WorkOK, MuHeld, planVars
  <2> QED
    BY <2>1, <2>2
<1>9. CASE TriggerReconcile(o)
  <2>1. UNCHANGED <<recVars, restarts, crashes, conn>> /\ triggerCh' \in BOOLEAN
    BY Zenon, <1>9 DEF TriggerReconcile
  <2>2. intents' \in [AllOwners -> IntentMaps] /\ calls' \in 0..MaxCalls
    BY Zenon, <1>9 DEF TriggerReconcile, TypeOK
  <2>3. rpc' \in SUBSET Owners
    BY Zenon, <1>9 DEF TriggerReconcile, TypeOK
  <2> QED
    BY Zenon, <1>3, <2>1, <2>2, <2>3
<1> QED
  BY <1>1, <1>5, <1>6, <1>7, <1>8, <1>9

\* waitForFRR empties the applied maps and adds the peers of the file.
LEMMA ConnectType == TypeInv /\ waitForFRR => TypeInv'
<1> SUFFICES ASSUME TypeInv, waitForFRR PROVE TypeInv'
  OBVIOUS
<1> USE DEF TypeInv
<1>1. CASE InjectClient
  <2>1. TypeOK'
    BY <1>1, NoIntents DEF InjectClient, SetFRRClient, TypeOK
  <2>2. WorkOK'
    BY Zenon, <1>1 DEF InjectClient, SetFRRClient, WorkOK, MuHeld
  <2> QED
    BY <2>1, <2>2
<1>2. CASE GiveUp \/ ConnectTrigger
  <2>1. TypeOK'
    BY Zenon, <1>2 DEF GiveUp, ConnectTrigger, TypeOK, recVars
  <2>2. WorkOK'
    BY <1>2 DEF GiveUp, ConnectTrigger, WorkOK, recVars, MuHeld
  <2> QED
    BY <2>1, <2>2
<1>3. CASE \E n \in DOMAIN ConfigPeers : initConfigPeers(n)
  <2>1. PICK n \in DOMAIN ConfigPeers : initConfigPeers(n)
    BY <1>3
  <2>2. peerKey(n) \in Slots /\ ConfigPeers[n] \in IntentsOf(peerKey(n)[1])
    BY AgentAssumption DEF Slots, peerKey, IntentsOf
  <2>3. ConfigOwner \in AllOwners /\ intents[ConfigOwner] \in IntentMaps
    BY DEF AllOwners, TypeOK
  <2>4. [intents[ConfigOwner] EXCEPT ![peerKey(n)] = ConfigPeers[n]] \in IntentMaps
    BY <2>2, <2>3, IntentMapUpdate
  <2>5. intents' \in [AllOwners -> IntentMaps]
    BY SMTT(30), <2>1, <2>3, <2>4 DEF initConfigPeers, TypeOK
  <2>6. TypeOK'
    BY <2>1, <2>5 DEF initConfigPeers, TypeOK, recVars
  <2>7. WorkOK'
    BY <2>1 DEF initConfigPeers, WorkOK, recVars, MuHeld
  <2> QED
    BY <2>6, <2>7
<1> QED
  BY <1>1, <1>2, <1>3 DEF waitForFRR

\* The steps of the loop that make no call.
LEMMA CycleType ==
  ASSUME TypeInv, UNCHANGED agentVars,
         Begin \/ EnterStage \/ StartRemovals \/ LeaveStage
  PROVE  TypeInv'
<1> USE DEF TypeInv, planVars, globalVars, agentVars
<1>1. CASE Begin
  <2>1. TypeOK'
    BY <1>1 DEF Begin, TypeOK
  <2>2. WorkOK'
    BY Zenon, <1>1 DEF Begin, WorkOK, MuHeld
  <2> QED
    BY <2>1, <2>2
<1>2. CASE EnterStage
  <2>1. work' \subseteq Slots
    BY Zenon, <1>2 DEF EnterStage, SlotsOf
  <2>2. TypeOK'
    BY Zenon, <1>2, <2>1 DEF EnterStage, TypeOK
  <2>3. WorkOK'
    BY Zenon, <1>2 DEF EnterStage, WorkOK, MuHeld
  <2> QED
    BY <2>2, <2>3
<1>3. CASE StartRemovals
  <2>1. work' \subseteq Slots
    BY ZenonT(30), <1>3 DEF StartRemovals, Obsolete, SlotsOf
  <2>2. TypeOK'
    BY <1>3, <2>1 DEF StartRemovals, TypeOK
  <2>3. \A s \in work' : s \in SlotsOf(kind) /\ applied[s] # None
    BY Zenon, <1>3 DEF StartRemovals, Obsolete
  <2>4. plan' = << >> /\ pc' = "remove" /\ kind' = kind /\ applied' = applied
    BY ZenonT(30), <1>3 DEF StartRemovals
  <2>5. WorkOK'
    <3>1. plan' \in Seq(RemovalCmds(kind', work'))
      BY <2>4
    <3>2. \A s \in work' : s \in SlotsOf(kind') /\ applied'[s] # None
      BY Zenon, <2>3, <2>4
    <3>3. MuHeld' /\ pc' # "apply"
      BY <2>4 DEF MuHeld
    <3> QED
      BY Zenon, <3>1, <3>2, <3>3 DEF WorkOK
  <2> QED
    BY <2>2, <2>5
<1>4. CASE LeaveStage
  <2>1. kind' \in Kinds
    BY <1>4 DEF LeaveStage, After, Kinds
  <2>2. TypeOK'
    BY Zenon, <1>4, <2>1 DEF LeaveStage, TypeOK
  <2>3. WorkOK'
    BY Zenon, <1>4 DEF LeaveStage, WorkOK, MuHeld
  <2> QED
    BY <2>2, <2>3
<1> QED
  BY <1>1, <1>2, <1>3, <1>4

\* ensureBGPGlobal before and after its calls.
LEMMA GlobalType ==
  ASSUME TypeInv, UNCHANGED agentVars, ensureBGPGlobal \/ globalConfigured
  PROVE  TypeInv'
<1> USE DEF TypeInv, planVars, globalVars, agentVars
<1>1. CASE ensureBGPGlobal
  <2>1. plan' \in Seq(Cmds)
    <3>1. bgpGlobal # 0 => bgpGlobal \in ASNs
      BY DEF TypeOK
    <3>2. localAS \in ASNs \cup {0} /\ plan \in Seq(Cmds)
      BY DEF TypeOK
    <3> QED
      BY SMTT(30), <1>1, <3>1, <3>2, GlobalPlanType DEF ensureBGPGlobal
  <2>2. TypeOK'
    BY Zenon, <1>1, <2>1 DEF ensureBGPGlobal, TypeOK, Kinds
  <2>3. WorkOK'
    BY Zenon, <1>1 DEF ensureBGPGlobal, WorkOK, MuHeld
  <2> QED
    BY <2>2, <2>3
<1>2. CASE globalConfigured
  <2>1. applied' \in IntentMaps
    BY Zenon, <1>2 DEF globalConfigured, TypeOK, IntentMaps
  <2>2. TypeOK'
    BY Zenon, <1>2, <2>1 DEF globalConfigured, TypeOK
  <2>3. WorkOK'
    BY Zenon, <1>2 DEF globalConfigured, WorkOK, MuHeld
  <2> QED
    BY <2>2, <2>3
<1> QED
  BY <1>1, <1>2

\* A loop, or WithdrawAll, takes up a key: the plan fits the key.
LEMMA KeyType ==
  ASSUME TypeInv, UNCHANGED agentVars, NEW s \in work,
         ApplyKey(s) \/ RemoveKey(s) \/ WithdrawKey(s)
  PROVE  TypeInv'
<1> USE DEF TypeInv, globalVars, agentVars
<1>1. s \in Slots /\ applied \in IntentMaps /\ desired \in IntentMaps
  BY Zenon DEF TypeOK
<1>2. CASE ApplyKey(s)
  <2>1. plan' \in Seq(Cmds)
    <3>1. desired[s] # None
      BY Zenon, <1>2 DEF ApplyKey, WorkOK
    <3>2. ApplyPlan(s) \in Seq(Cmds)
      BY <1>1, <3>1, ApplyPlanType, AdditionIsPlan
    <3>3. plan' \in {<< >>, ApplyPlan(s)}
      BY Zenon, <1>2 DEF ApplyKey
    <3>4. << >> \in Seq(Cmds)
      OBVIOUS
    <3> QED
      BY Zenon, <3>2, <3>3, <3>4
  <2>2. TypeOK'
    BY Zenon, <1>2, <2>1 DEF ApplyKey, TypeOK
  <2>3. WorkOK'
    BY Zenon, <1>2 DEF ApplyKey, WorkOK, MuHeld
  <2> QED
    BY <2>2, <2>3
<1>3. CASE RemoveKey(s) \/ WithdrawKey(s)
  <2>1. pc \in {"remove", "withdraw"} /\ work' = work \ {s}
    BY <1>3 DEF RemoveKey, WithdrawKey
  <2>2. s \in SlotsOf(kind) /\ applied[s] # None
    BY Zenon, <2>1 DEF WorkOK
  <2>3. plan' \in Seq(RemovalCmds(kind, work'))
    <3>1. s[1] = kind /\ s \notin work'
      BY <2>1, <2>2 DEF SlotsOf
    <3> QED
      BY ZenonT(30), <1>1, <1>3, <2>2, <3>1, RemovePlanType
      DEF RemoveKey, WithdrawKey
  <2>4. plan' \in Seq(Cmds)
    BY <2>3, RemovalIsPlan
  <2>5. TypeOK'
    BY Zenon, <1>3, <2>4 DEF RemoveKey, WithdrawKey, TypeOK
  <2>6. \A t \in work' : t \in SlotsOf(kind) /\ applied[t] # None
    BY Zenon, <2>1 DEF WorkOK
  <2>7. UNCHANGED <<pc, kind, applied>>
    BY <1>3 DEF RemoveKey, WithdrawKey
  <2>8. WorkOK'
    BY Zenon, <2>1, <2>3, <2>6, <2>7 DEF WorkOK, MuHeld
  <2> QED
    BY <2>5, <2>8
<1> QED
  BY <1>2, <1>3

\* The head of a plan is a command, its tail a plan.
LEMMA PlanParts ==
  ASSUME NEW C, NEW p \in Seq(C), p # << >>
  PROVE  Head(p) \in C /\ Tail(p) \in Seq(C)
OBVIOUS

\* A plan shrinks from the front, or is given up.
LEMMA PlanRest ==
  ASSUME TypeInv, PlanStep
  PROVE  /\ plan' \in Seq(Cmds)
         /\ pc \in {"remove", "withdraw"} =>
              plan' \in Seq(RemovalCmds(kind, work))
         /\ errs' \in BOOLEAN
<1>1. plan # << >> /\ plan \in Seq(Cmds) /\ errs \in BOOLEAN
  BY DEF PlanStep, RunOK, RunFail, Book, TypeInv, TypeOK
<1>2. plan' \in {<< >>, Tail(plan)}
  BY DEF PlanStep, RunOK, RunFail, Book, OnError
<1>3. errs' \in BOOLEAN
  BY Zenon, <1>1 DEF PlanStep, RunOK, RunFail, Book, OnError
<1>4. pc \in {"remove", "withdraw"} => plan \in Seq(RemovalCmds(kind, work))
  BY DEF TypeInv, WorkOK
<1>5. ASSUME NEW C, plan \in Seq(C) PROVE plan' \in Seq(C)
  <2>1. Tail(plan) \in Seq(C)
    BY <1>1, <1>5, PlanParts
  <2>2. << >> \in Seq(C)
    OBVIOUS
  <2> QED
    BY Zenon, <1>2, <2>1, <2>2
<1> QED
  BY <1>1, <1>3, <1>4, <1>5

\* A call keeps FRR's configuration well formed.
LEMMA CallType ==
  ASSUME TypeInv, UNCHANGED agentVars, RunOK \/ RunFail
  PROVE  TypeInv'
<1> USE DEF TypeInv
<1>1. Head(plan) \in FRRCmds
  <2>1. plan # << >> /\ plan \in Seq(Cmds) /\ Head(plan).op \notin BookOps
    BY Zenon DEF RunOK, RunFail, TypeOK
  <2> QED
    BY <2>1, PlanParts DEF FRRCmds
<1>2. frr \in Configs /\ localAS \in ASNs \cup {0}
  BY DEF TypeOK
<1>3. frr' \in Configs
  BY Zenon, <1>1, <1>2, EffectType DEF RunOK, RunFail
<1>4. faults' \in 0..MaxFaults
  <2>1. MaxFaults \in Nat /\ faults \in 0..MaxFaults
    BY Zenon, AgentAssumption DEF TypeOK
  <2> QED
    BY Zenon, <2>1, Counted DEF RunOK, RunFail
<1>5. ctx' \in {"live", "dying", "dead"}
  BY ZenonT(30) DEF RunOK, RunFail, AfterBatch, TypeOK
<1>6. UNCHANGED <<Here, applied, peerManagedBFD>>
  BY DEF RunOK, RunFail
<1>7. TypeOK'
  BY ZenonT(30), <1>3, <1>4, <1>5, <1>6, PlanRest
  DEF Here, TypeOK, agentVars, globalVars, PlanStep
<1>8. plan # << >>
  BY Zenon DEF RunOK, RunFail
<1>9. WorkOK'
  BY ZenonT(30), <1>6, <1>8, PlanRest DEF Here, WorkOK, MuHeld, PlanStep
<1> QED
  BY <1>7, <1>9

\* An update of the applied maps keeps them well formed, and one made by a
\* removal leaves the entries of the keys still to be removed.
LEMMA BookType ==
  ASSUME TypeInv, UNCHANGED agentVars, Book
  PROVE  TypeInv'
<1> USE DEF TypeInv
<1> DEFINE c == Head(plan)
<1>1. plan # << >> /\ c \in Cmds /\ c.op \in BookOps
  <2>1. plan # << >> /\ plan \in Seq(Cmds) /\ c.op \in BookOps
    BY DEF Book, TypeOK
  <2> QED
    BY <2>1, PlanParts
<1>2. applied \in IntentMaps /\ peerManagedBFD \subseteq Neighbors
  BY DEF TypeOK
<1>3. UNCHANGED <<Here, frr, ctx, faults>>
  BY DEF Book
<1>4. applied' = CASE c.op = "track" -> [applied EXCEPT ![bfdKey(c.key)] = c.arg]
                   [] c.op = "untrack" -> [applied EXCEPT ![bfdKey(c.key)] = None]
                   [] c.op \in {"applied", "removed"} ->
                        [applied EXCEPT ![c.key] = c.arg]
                   [] c.op = "fail" -> applied
  BY DEF Book
<1>5. peerManagedBFD' \subseteq Neighbors
  <2>1. c.op = "track" => c.key \in Neighbors
    BY Zenon, <1>1 DEF Cmds
  <2> QED
    BY <1>2, <2>1 DEF Book
<1>6. c.op \in {"track", "untrack"} =>
        bfdKey(c.key) \in Slots /\ bfdKey(c.key) \in SlotsOf("bfd")
  <2>1. c.op \in {"track", "untrack"} => c.key \in Neighbors
    BY Zenon, <1>1 DEF Cmds
  <2> QED
    BY <2>1 DEF bfdKey, Slots, SlotsOf
<1> HIDE DEF c
<1>7. applied' \in IntentMaps
  <2>1. CASE c.op \in {"track", "untrack"}
    <3>1. c.arg \in BFDIntent \cup {None}
      BY Zenon, <1>1, <2>1 DEF Cmds
    <3>2. bfdKey(c.key) \in Slots /\ IntentsOf(bfdKey(c.key)[1]) = BFDIntent
      BY <1>6, <2>1 DEF bfdKey, IntentsOf
    <3> QED
      BY Zenon, <1>2, <1>4, <2>1, <3>1, <3>2, IntentMapUpdate
  <2>2. CASE c.op \in {"applied", "removed"}
    <3>1. c.key \in Slots /\ c.arg \in IntentsOf(c.key[1]) \cup {None}
      BY <1>1, <2>2 DEF Cmds, SlotsOf, IntentsOf
    <3> QED
      BY <1>2, <1>4, <2>2, <3>1, IntentMapUpdate
  <2>3. CASE c.op = "fail"
    BY SMTT(30), <1>2, <1>4, <2>3
  <2> QED
    BY <1>1, <2>1, <2>2, <2>3 DEF BookOps
<1>8. TypeOK'
  <2>1. plan' \in Seq(Cmds) /\ errs' \in BOOLEAN
    BY Zenon, PlanRest DEF PlanStep
  <2>2. /\ UNCHANGED <<frr, ctx, faults, desired, pc, kind, work, clean>>
        /\ UNCHANGED <<client, localAS, bgpGlobal, bgpConfigured>>
        /\ UNCHANGED <<intents, triggerCh, rpc, conn, calls, restarts, crashes>>
    BY Zenon, <1>3 DEF Here, globalVars, agentVars
  <2> QED
    BY ZenonT(40), <1>5, <1>7, <2>1, <2>2 DEF TypeOK
<1>9. ASSUME pc \in {"remove", "withdraw"}, NEW s \in work
      PROVE  applied'[s] # None
  <2>1. s \in SlotsOf(kind) /\ applied[s] # None /\ s \in Slots
    BY <1>9 DEF WorkOK, SlotsOf
  <2>2. c \in RemovalCmds(kind, work)
    BY <1>1, <1>9, PlanParts DEF WorkOK, c
  <2>3. CASE c.op = "untrack"
    <3>1. kind = "peer"
      BY <2>2, <2>3 DEF RemovalCmds
    <3>2. s # bfdKey(c.key)
      BY <2>1, <3>1 DEF SlotsOf, bfdKey
    <3> QED
      BY <1>2, <1>4, <2>1, <2>3, <3>2 DEF IntentMaps
  <2>4. CASE c.op = "removed"
    <3>1. s # c.key
      BY <1>9, <2>2, <2>4 DEF RemovalCmds
    <3> QED
      BY <1>2, <1>4, <2>1, <2>4, <3>1 DEF IntentMaps
  <2>5. CASE c.op = "fail"
    BY <1>4, <2>1, <2>5
  <2> QED
    BY <1>1, <2>2, <2>3, <2>4, <2>5 DEF RemovalCmds, BookOps
<1>10. WorkOK'
  BY Zenon, <1>1, <1>3, <1>9, PlanRest DEF Here, WorkOK, MuHeld, PlanStep
<1> QED
  BY <1>8, <1>10

\* The loop wakes up, reads the store, or stops.
LEMMA LoopType ==
  ASSUME TypeInv, Tick \/ Triggered \/ ReadStore \/ Stop
  PROVE  TypeInv'
<1> USE DEF TypeInv, planVars, globalVars, agentVars
<1>1. CASE Tick \/ Triggered
  <2>1. TypeOK'
    BY Zenon, <1>1 DEF Tick, Triggered, Wake, TypeOK
  <2>2. WorkOK'
    BY Zenon, <1>1 DEF Tick, Triggered, Wake, WorkOK, MuHeld
  <2> QED
    BY <2>1, <2>2
<1>2. CASE ReadStore
  <2>1. PICK snap \in DesiredMaps(kind) : Snapshot(snap)
    BY <1>2 DEF ReadStore
  <2>2. desired' \in IntentMaps
    <3>1. \A s \in Slots : desired'[s] \in IntentsOf(s[1]) \cup {None}
      <4>1. SUFFICES ASSUME NEW s \in Slots
                     PROVE  desired'[s] \in IntentsOf(s[1]) \cup {None}
        OBVIOUS
      <4>2. CASE s[1] = kind
        <5>1. s \in SlotsOf(kind)
          BY <4>2 DEF SlotsOf
        <5>2. snap[s] \in IntentsOf(s[1]) \cup {None}
          BY ZenonT(30), <5>1, SnapshotType DEF TypeOK
        <5> QED
          BY <2>1, <4>2, <5>2 DEF Snapshot
      <4>3. CASE s[1] # kind
        BY Zenon, <2>1, <4>3 DEF Snapshot, TypeOK, IntentMaps
      <4> QED
        BY <4>2, <4>3
    <3>2. \A s \in Slots : IntentsOf(s[1]) \subseteq Intents
      BY SMTT(30), SlotKey DEF IntentsOf, Intents, Kinds
    <3>3. desired' = [s \in Slots |-> desired'[s]]
      BY <2>1 DEF Snapshot
    <3> QED
      BY <3>1, <3>2, <3>3 DEF IntentMaps
  <2>3. kind' \in Kinds
    BY <2>1 DEF Snapshot, After, Kinds
  <2>4. TypeOK'
    BY Zenon, <1>2, <2>1, <2>2, <2>3 DEF ReadStore, Snapshot, TypeOK
  <2>5. WorkOK'
    BY Zenon, <2>1 DEF Snapshot, WorkOK, MuHeld
  <2> QED
    BY <2>4, <2>5
<1>3. CASE Stop
  <2>1. TypeOK'
    BY Zenon, <1>3 DEF Stop, TypeOK
  <2>2. WorkOK'
    BY Zenon, <1>3 DEF Stop, WorkOK, MuHeld
  <2> QED
    BY <2>1, <2>2
<1> QED
  BY <1>1, <1>2, <1>3

\* WithdrawAll goes from kind to kind.
LEMMA WithdrawType ==
  ASSUME TypeInv, UNCHANGED agentVars, WithdrawAll \/ WithdrawNext
  PROVE  TypeInv'
<1> USE DEF TypeInv, planVars, globalVars, agentVars
<1>1. plan = << >>
  BY Zenon DEF WithdrawAll, WithdrawNext, WorkOK, MuHeld
<1>2. kind' \in Kinds
  BY DEF WithdrawAll, WithdrawNext, After, Kinds, TypeOK
<1>3. ~MuHeld' \/ work' = AppliedOf(kind')
  <2>1. WithdrawAll => work' = AppliedOf(kind')
    BY Zenon DEF WithdrawAll
  <2>2. WithdrawNext => pc' = "done" \/ work' = AppliedOf(kind')
    BY Zenon DEF WithdrawNext
  <2>3. pc' = "done" => ~MuHeld'
    BY DEF MuHeld
  <2> QED
    BY <2>1, <2>2, <2>3
<1>4. work' \subseteq Slots
  BY DEF WithdrawAll, WithdrawNext, AppliedOf, SlotsOf, TypeOK
<1>5. TypeOK'
  BY Zenon, <1>2, <1>4 DEF WithdrawAll, WithdrawNext, TypeOK
<1>6. plan' = << >> /\ pc' \in {"withdraw", "done"} /\ UNCHANGED applied
  BY <1>1 DEF WithdrawAll, WithdrawNext
<1>7. WorkOK'
  <2>1. plan' \in Seq(RemovalCmds(kind', work')) /\ pc' # "apply"
    BY <1>6
  <2>2. pc' \in {"remove", "withdraw"} => MuHeld'
    BY DEF MuHeld
  <2>3. work' = AppliedOf(kind') =>
          \A s \in work' : s \in SlotsOf(kind') /\ applied'[s] # None
    BY Zenon, <1>6 DEF AppliedOf
  <2> QED
    BY Zenon, <1>3, <1>6, <2>1, <2>2, <2>3 DEF WorkOK
<1> QED
  BY <1>5, <1>7

\* Cancellation, a restart of FRR and a crash of the agent.
LEMMA DisturbanceType ==
  ASSUME TypeInv, Cancel \/ RestartFRR \/ Crash
  PROVE  TypeInv'
<1> USE DEF TypeInv
<1>1. EmptyConfig \in Configs
  BY DEF EmptyConfig, NoPort, Configs, OSPFPort
<1>2. CASE Cancel
  <2>1. TypeOK'
    BY Zenon, <1>2 DEF Cancel, TypeOK, globalVars, agentVars
  <2>2. WorkOK'
    BY Zenon, <1>2 DEF Cancel, WorkOK, MuHeld
  <2> QED
    BY <2>1, <2>2
<1>3. CASE RestartFRR
  <2>1. restarts' \in 0..MaxRestarts
    <3>1. MaxRestarts \in Nat /\ restarts \in 0..MaxRestarts
      BY Zenon, AgentAssumption DEF TypeOK
    <3> QED
      BY Zenon, <1>3, <3>1, Counted DEF RestartFRR
  <2>2. TypeOK'
    BY Zenon, <1>1, <1>3, <2>1 DEF RestartFRR, TypeOK, globalVars
  <2>3. WorkOK'
    BY Zenon, <1>3 DEF RestartFRR, WorkOK, MuHeld
  <2> QED
    BY <2>2, <2>3
<1>4. CASE Crash
  <2>1. frr' \in Configs
    <3>1. frr \in Configs /\ localAS \in ASNs \cup {0} /\ plan \in Seq(Cmds)
      BY DEF TypeOK
    <3>2. plan # << >> /\ Head(plan).op \notin BookOps => Head(plan) \in FRRCmds
      BY <3>1, PlanParts DEF FRRCmds
    <3> QED
      BY Zenon, <1>4, <3>1, <3>2, EffectType DEF Crash
  <2>2. crashes' \in 0..MaxCrashes
    <3>1. MaxCrashes \in Nat /\ crashes \in 0..MaxCrashes
      BY Zenon, AgentAssumption DEF TypeOK
    <3> QED
      BY Zenon, <1>4, <3>1, Counted DEF Crash
  <2>3. /\ applied' \in IntentMaps /\ desired' \in IntentMaps
        /\ intents' \in [AllOwners -> IntentMaps]
    BY Zenon, <1>4, NoIntents DEF Crash
  <2>4. bgpGlobal' \in ASNs \cup {0} /\ localAS' \in ASNs \cup {0}
    BY Zenon, <1>4, AgentAssumption DEF Crash
  <2>5. plan' = << >>
    BY Zenon, <1>4 DEF Crash
  <2>6. plan' \in Seq(Cmds)
    BY <2>5
  <2>7. TypeOK'
    BY Zenon, <1>4, <2>1, <2>2, <2>3, <2>4, <2>6 DEF Crash, TypeOK, Kinds
  <2>8. WorkOK'
    BY Zenon, <1>4, <2>5 DEF Crash, WorkOK, MuHeld
  <2> QED
    BY <2>7, <2>8
<1> QED
  BY <1>2, <1>3, <1>4

\* Every step keeps the invariant.
LEMMA TypeInvStep == TypeInv /\ [Next]_vars => TypeInv'
<1> SUFFICES ASSUME TypeInv, [Next]_vars PROVE TypeInv'
  OBVIOUS
<1>1. CASE RunLoop
  BY <1>1, LoopType, CycleType, GlobalType, KeyType DEF RunLoop, CycleStep
<1>2. CASE RunPlan
  BY <1>2, CallType, BookType DEF RunPlan, PlanStep
<1>3. CASE gracefulShutdown
  BY <1>3, WithdrawType, KeyType DEF gracefulShutdown, WithdrawStep
<1>4. CASE UNCHANGED vars
  <2>1. TypeOK'
    BY ZenonT(30), <1>4 DEF vars, recVars, agentVars, TypeInv, TypeOK
  <2>2. WorkOK'
    BY ZenonT(30), <1>4 DEF vars, recVars, TypeInv, WorkOK, MuHeld
  <2> QED
    BY <2>1, <2>2 DEF TypeInv
<1> QED
  BY <1>1, <1>2, <1>3, <1>4, HandlersType, ConnectType, DisturbanceType DEF Next

(* Type correctness, for any sets of neighbors, prefixes, interfaces and   *)
(* owners: the maps of the reconciler hold intents of their key's kind,    *)
(* and every helper and client method is called with arguments that fit:   *)
(* no removal is ever planned for a key that has no applied entry.         *)
THEOREM TypeCorrect == Spec => []TypeOK
<1>1. TypeInv => TypeOK
  BY DEF TypeInv
<1> QED
  BY <1>1, TypeInvInit, TypeInvStep, PTL DEF Spec

=============================================================================
