----------------------------- MODULE FRRConfig -----------------------------
(***************************************************************************)
(* The part of FRR's running configuration that NovaRoute writes, and what *)
(* each vtysh batch issued by internal/frr does to it.                     *)
(*                                                                         *)
(* FRR itself is outside the repository.  Its configuration is modelled    *)
(* from the lines the client sends: a line is taken to replace the value   *)
(* that the same line set before ("ip ospf area" too), a removal of        *)
(* something absent to succeed, and "router bgp X" to be refused while     *)
(* another AS is running.                                                  *)
(***************************************************************************)
EXTENDS Integers, FiniteSets, Sequences

CONSTANTS
  Neighbors,   \* BGP and BFD peer addresses
  PrefixSet,   \* protocol-qualified prefixes, "bgp:10.0.0.0/24"
  Proto,       \* the protocol of each of them
  Ifaces,      \* interface names
  ASNs,        \* local AS numbers
  Cores,       \* a neighbor's mandatory settings (remote AS)
  Opts,        \* its optional lines: timers, description, password, ...
  AFs,         \* address families
  Attrs,       \* prefix attributes: local-pref, communities, MED, next-hop
  BFDParams,   \* receive/transmit interval and multiplier, or Unset
  Areas,       \* OSPF areas
  OSPFParams,  \* OSPF cost and timers
  None         \* "no entry" in a Go map

NoIface == "any"          \* a BFD session not bound to an interface
Unset   == "unset"        \* BFD or OSPF parameters left at zero

(* The functional content of the four kinds of intent: the fields that the *)
(* equality helpers compare, without the key.                              *)
PeerIntent   == [core : Cores, opts : SUBSET Opts, afs : SUBSET AFs,
                 bfd : BOOLEAN, bfdParams : BFDParams]
PrefixIntent == [attrs : SUBSET Attrs]
BFDIntent    == [iface : Ifaces \cup {NoIface}, params : BFDParams]
OSPFIntent   == [v6 : BOOLEAN, area : Areas, passive : BOOLEAN,
                 params : OSPFParams]

(* The keys of the Go maps: "peer:"+addr, "prefix:"+proto+":"+prefix,      *)
(* "bfd:"+addr and "ospf:"+interface.                                      *)
peerKey(n)   == <<"peer", n>>
prefixKey(p) == <<"prefix", p>>
bfdKey(n)    == <<"bfd", n>>
ospfKey(i)   == <<"ospf", i>>

Kinds == {"peer", "prefix", "bfd", "ospf"}

Slots == {peerKey(n) : n \in Neighbors} \cup {prefixKey(p) : p \in PrefixSet}
           \cup {bfdKey(n) : n \in Neighbors} \cup {ospfKey(i) : i \in Ifaces}

SlotsOf(kind) == {s \in Slots : s[1] = kind}

IntentsOf(kind) ==
  CASE kind = "peer"   -> PeerIntent
    [] kind = "prefix" -> PrefixIntent
    [] kind = "bfd"    -> BFDIntent
    [] kind = "ospf"   -> OSPFIntent

Intents == PeerIntent \cup PrefixIntent \cup BFDIntent \cup OSPFIntent

\* maps from keys to intents of the key's kind, or to nothing
IntentMaps ==
  {m \in [Slots -> Intents \cup {None}] :
     \A s \in Slots : m[s] \in IntentsOf(s[1]) \cup {None}}

(* The running configuration.                                              *)
Neighbor == [core : Cores, opts : SUBSET Opts, afs : SUBSET AFs,
             limits : SUBSET AFs, bfd : BOOLEAN]
OSPFPort == [area : Areas \cup {None}, passive : BOOLEAN,
             params : OSPFParams \cup {None}]
BFDSessions == Neighbors \X (Ifaces \cup {NoIface})

Configs ==
  [as    : ASNs \cup {0},
   nbrs  : [Neighbors -> Neighbor \cup {None}],
   nets  : [PrefixSet -> {"absent", "plain", "routemap"}],
   rmaps : [PrefixSet -> (SUBSET Attrs) \cup {None}],
   bfd   : [BFDSessions -> BFDParams \cup {Unset, None}],
   ospf  : [Ifaces \X BOOLEAN -> OSPFPort]]

NoPort == [area |-> None, passive |-> FALSE, params |-> None]

EmptyConfig ==
  [as    |-> 0,
   nbrs  |-> [n \in Neighbors |-> None],
   nets  |-> [p \in PrefixSet |-> "absent"],
   rmaps |-> [p \in PrefixSet |-> None],
   bfd   |-> [b \in BFDSessions |-> None],
   ospf  |-> [x \in Ifaces \X BOOLEAN |-> NoPort]]

(***************************************************************************)
(* Commands.  One record per client method: the method, the object and the *)
(* argument.                                                               *)
(***************************************************************************)
\* commands that start with "router bgp <localAS>"
BGPOps == {"AddNeighbor", "ActivateNeighborAFI", "SetNeighborMaxPrefix",
           "EnableNeighborBFD", "DisableNeighborBFD", "RemoveNeighbor",
           "AdvertiseNetwork", "AdvertiseNetworkWithRouteMap",
           "WithdrawNetwork"}

\* the method fails: the client has no AS yet, or FRR runs another one
Rejected(cfg, localAS, c) ==
  \/ c.op \in BGPOps /\ (localAS = 0 \/ cfg.as \notin {0, localAS})
  \/ c.op = "RouterBGP" /\ cfg.as \notin {0, c.arg}

AddNeighbor(old, p) ==
  IF old = None
  THEN [core |-> p.core, opts |-> p.opts, afs |-> {}, limits |-> {},
        bfd |-> FALSE]
  ELSE [old EXCEPT !.core = p.core, !.opts = @ \cup p.opts]

\* a line on a neighbor that does not exist configures nothing
OnNeighbor(cfg, n, new) ==
  IF cfg.nbrs[n] = None THEN cfg ELSE [cfg EXCEPT !.nbrs[n] = new]

BGPEffect(cfg, c) ==
  LET k == c.key
  IN  CASE c.op = "AddNeighbor" ->
             [cfg EXCEPT !.nbrs[k] = AddNeighbor(@, c.arg)]
        [] c.op = "ActivateNeighborAFI" ->
             OnNeighbor(cfg, k, [cfg.nbrs[k] EXCEPT !.afs = @ \cup {c.arg}])
        [] c.op = "SetNeighborMaxPrefix" ->
             OnNeighbor(cfg, k, [cfg.nbrs[k] EXCEPT !.limits = @ \cup {c.arg}])
        [] c.op = "EnableNeighborBFD" ->
             OnNeighbor(cfg, k, [cfg.nbrs[k] EXCEPT !.bfd = TRUE])
        [] c.op = "DisableNeighborBFD" ->
             OnNeighbor(cfg, k, [cfg.nbrs[k] EXCEPT !.bfd = FALSE])
        [] c.op = "RemoveNeighbor" -> [cfg EXCEPT !.nbrs[k] = None]
        [] c.op = "AdvertiseNetwork" -> [cfg EXCEPT !.nets[k] = "plain"]
        [] c.op = "AdvertiseNetworkWithRouteMap" ->
             [cfg EXCEPT !.nets[k] = "routemap"]
        [] c.op = "WithdrawNetwork" -> [cfg EXCEPT !.nets[k] = "absent"]

\* lines for zero parameters are left out: an existing session keeps its own
AddBFD(old, params) == IF params = Unset /\ old # None THEN old ELSE params

\* likewise for OSPF, and no "no passive-interface" is sent with an enable
EnabledPort(old, o) ==
  [area    |-> o.area,
   passive |-> old.passive \/ o.passive,
   params  |-> IF o.params = Unset THEN old.params ELSE o.params]

\* Mutant of DisabledPort: passive-interface is never taken back.
KeepPassive(old, o) == [old EXCEPT !.area = IF @ = o.area THEN None ELSE @]

DisabledPort(old, o) ==
  [old EXCEPT !.area = IF @ = o.area THEN None ELSE @,
              !.passive = @ /\ ~o.passive]

OtherEffect(cfg, c) ==
  LET k == c.key
  IN  CASE c.op = "RouterBGP" -> [cfg EXCEPT !.as = c.arg]
        [] c.op = "NoRouterBGP" ->
             IF cfg.as # c.arg THEN cfg
             ELSE [cfg EXCEPT !.as = 0, !.nbrs = EmptyConfig.nbrs,
                              !.nets = EmptyConfig.nets]
        [] c.op = "ConfigureRouteMap" -> [cfg EXCEPT !.rmaps[k] = c.arg]
        [] c.op = "RemoveRouteMap" -> [cfg EXCEPT !.rmaps[k] = None]
        [] c.op = "AddBFDPeer" ->
             [cfg EXCEPT !.bfd[<<k, c.arg.iface>>] = AddBFD(@, c.arg.params)]
        [] c.op = "RemoveBFDPeer" ->
             [cfg EXCEPT !.bfd[<<k, c.arg.iface>>] = None]
        [] c.op = "EnableOSPFInterface" ->
             [cfg EXCEPT !.ospf[<<k, c.arg.v6>>] = EnabledPort(@, c.arg)]
        [] c.op = "DisableOSPFInterface" ->
             [cfg EXCEPT !.ospf[<<k, c.arg.v6>>] = DisabledPort(@, c.arg)]

\* "router bgp <localAS>" creates the instance when there is none
Entered(cfg, localAS, c) ==
  IF c.op \in BGPOps THEN [cfg EXCEPT !.as = localAS] ELSE cfg

\* what a batch that vtysh accepts leaves behind
Effect(cfg, localAS, c) ==
  LET in == Entered(cfg, localAS, c)
  IN  IF c.op \in BGPOps THEN BGPEffect(in, c) ELSE OtherEffect(in, c)

(* runConfig pipes the lines one by one: a batch that fails, or is killed, *)
(* may have done nothing, everything, or its first lines only.             *)
PartialEffect(cfg, c) ==
  CASE c.op = "ConfigureRouteMap" ->
         {[cfg EXCEPT !.rmaps[c.key] = None],
          [cfg EXCEPT !.rmaps[c.key] = {}]}
    [] c.op = "AddNeighbor" ->
         {[cfg EXCEPT !.nbrs[c.key] =
             AddNeighbor(@, [c.arg EXCEPT !.opts = {}])]}
    [] c.op = "AddBFDPeer" ->
         {[cfg EXCEPT !.bfd[<<c.key, c.arg.iface>>] = AddBFD(@, Unset)]}
    [] c.op = "EnableOSPFInterface" ->
         {[cfg EXCEPT !.ospf[<<c.key, c.arg.v6>>] = EnabledPort(@, o)] :
            o \in {[c.arg EXCEPT !.passive = FALSE],
                  [c.arg EXCEPT !.passive = FALSE, !.params = Unset]}}
    [] c.op = "DisableOSPFInterface" ->
         {[cfg EXCEPT !.ospf[<<c.key, c.arg.v6>>] =
             DisabledPort(@, [c.arg EXCEPT !.passive = FALSE])]}
    [] OTHER -> {}

FailedEffects(cfg, localAS, c) ==
  LET in == Entered(cfg, localAS, c)
  IN  IF Rejected(cfg, localAS, c)
      THEN {cfg}
      ELSE {cfg, in, Effect(cfg, localAS, c)} \cup PartialEffect(in, c)
=============================================================================
