------------------------------ MODULE MCAgent ------------------------------
(* Small instances of Agent: the intents that clients declare in each run.  *)
EXTENDS Agent

NoPeers == [n \in {} |-> None]
AllBGP == [k \in PrefixSet |-> "BGP"]

APeer ==
  CHOOSE p \in PeerIntent :
    p.opts = {} /\ p.afs = {DefaultAF} /\ p.bfd /\ p.bfdParams = DefaultBFD

NoBFDPeer == [APeer EXCEPT !.bfd = FALSE, !.bfdParams = Unset]

\* the configuration file has one of the neighbors, without BFD
OneConfigPeer == [n \in {CHOOSE m \in Neighbors : TRUE} |-> NoBFDPeer]

\* the other neighbors
ClientNeighbors == Neighbors \ DOMAIN ConfigPeers

PeersOf(nbrs, peers) == {<<peerKey(n), p>> : n \in nbrs, p \in peers}

\* a peer with BFD, one with the optional lines, and one with another remote
\* AS and all address families
PeerSettings ==
  {APeer,
   [NoBFDPeer EXCEPT !.opts = Opts],
   [NoBFDPeer EXCEPT !.core = CHOOSE c \in Cores : Cores = {c} \/ c # APeer.core,
                     !.afs = AFs]}

AnyPrefix == {<<prefixKey(k), p>> : k \in PrefixSet, p \in PrefixIntent}

BFDWith(params) ==
  {<<bfdKey(n), b>> : n \in ClientNeighbors, b \in {x \in BFDIntent : x.params \in params}}

\* on any interface, with any parameters that the handler stores
AnyBFD == BFDWith(BFDParams \ {Unset})

\* BFD sessions that peers and BFD intents with other parameters ask for
PeerAndBFD ==
  PeersOf(ClientNeighbors, {APeer, NoBFDPeer})
    \cup BFDWith(BFDParams \ {Unset, DefaultBFD})

OSPFOn(i) == {<<ospfKey(i), o>> : o \in OSPFIntent}

OneIface == CHOOSE i \in Ifaces : TRUE
OneArea == CHOOSE a \in Areas : TRUE

\* an interface of either version, passive or not, and an active OSPFv2 one
\* with any area and parameters
OSPFModes ==
  {d \in OSPFOn(OneIface) :
     \/ d[2].area = OneArea /\ d[2].params # Unset
     \/ ~d[2].v6 /\ ~d[2].passive /\ (d[2].area = OneArea \/ d[2].params # Unset)}

PeerAndPrefix == {<<peerKey(n), APeer>> : n \in Neighbors} \cup AnyPrefix

\* and a BFD session and an OSPF interface
PeerPrefixBFDOSPF ==
  PeerAndPrefix
    \cup {CHOOSE d \in AnyBFD : d[2].iface = NoIface,
          CHOOSE d \in OSPFOn(OneIface) : ~d[2].passive}

\* what is there when the agent is told to stop: a peer with an automatic BFD
\* session and a prefix; a peer and a BFD intent; a prefix and a passive interface
StopBGP ==
  PeersOf(ClientNeighbors, {APeer})
    \cup {d \in AnyPrefix : Cardinality(d[2].attrs) = 1}

StopBFD ==
  PeersOf(ClientNeighbors, {NoBFDPeer})
    \cup {d \in AnyBFD : d[2] = [iface |-> NoIface, params |-> DefaultBFD]}

StopOSPF ==
  {d \in AnyPrefix : d[2].attrs = {}}
    \cup {d \in OSPFModes : d[2].v6 /\ d[2].passive}

AnOwner == {CHOOSE o \in Owners : TRUE}

EachKind ==
  PeersOf(Neighbors, PeerSettings) \cup AnyPrefix \cup AnyBFD \cup PeerAndBFD
    \cup OSPFModes
=============================================================================
