----------------------------- MODULE MCConverge -----------------------------
(* Instances of Agent without failures, in one run: a scenario fixes what   *)
(* clients declare, who they are, whether they configure the AS and whether *)
(* the agent is told to stop.  Steps that lead to nothing new are left out. *)
(* Where the AS stays, every call changes the store: one that changes       *)
(* nothing leads to a cycle that a tick leads to as well.  A cycle reads    *)
(* what other goroutines write only in its snapshots, so their steps during *)
(* its stages are taken after it, and those before its first snapshot       *)
(* before it.  Steps between two snapshots matter where stages share        *)
(* something, so they are kept in peerbfd, whose two kinds of intent ask    *)
(* for one session.  A handler triggers at once, and a signal is taken      *)
(* before a tick: all that either does is to start a cycle, and a tick can  *)
(* do that at any time.  Calls and cycles come after waitForFRR, but for    *)
(* peers, where they may overtake the peers of the configuration file.      *)
(*                                                                          *)
(* What a clean cycle leaves in FRR depends on what earlier cycles put      *)
(* there, so the intents that snapshots have had for each key are recorded. *)
EXTENDS MCAgent

VARIABLES
  scenario,
  seen       \* the intents that snapshots have had for each key

mcVars == <<vars, scenario, seen>>

AllPeerSettings == PeersOf(Neighbors, PeerSettings)

Scenarios ==
  [peers     |-> [requests |-> AllPeerSettings, owners |-> AnOwner,
                  newAS |-> FALSE, stop |-> FALSE],
   prefixes  |-> [requests |-> AnyPrefix, owners |-> AnOwner,
                  newAS |-> TRUE, stop |-> FALSE],
   bfd       |-> [requests |-> AnyBFD, owners |-> Owners,
                  newAS |-> FALSE, stop |-> FALSE],
   ospf      |-> [requests |-> OSPFModes, owners |-> Owners,
                  newAS |-> FALSE, stop |-> FALSE],
   peerbfd   |-> [requests |-> PeerAndBFD, owners |-> AnOwner,
                  newAS |-> TRUE, stop |-> FALSE],
   stopbgp   |-> [requests |-> StopBGP, owners |-> AnOwner,
                  newAS |-> FALSE, stop |-> TRUE],
   stopbfd   |-> [requests |-> StopBFD, owners |-> AnOwner,
                  newAS |-> FALSE, stop |-> TRUE],
   stopospf  |-> [requests |-> StopOSPF, owners |-> AnOwner,
                  newAS |-> FALSE, stop |-> TRUE]]

MCInit ==
  /\ Init
  /\ scenario \in DOMAIN Scenarios
  /\ seen = [s \in Slots |-> {}]

MCNext ==
  LET sc == Scenarios[scenario]
  IN  /\ Next
      /\ \A o \in Owners, s \in Slots :
           intents'[o][s] # None =>
             o \in sc.owners /\ <<s, intents'[o][s]>> \in sc.requests
      /\ rpc' \subseteq sc.owners
      /\ calls' # calls => sc.newAS \/ intents' # intents
      /\ agentVars' # agentVars =>
           pc = "idle" \/ (scenario = "peerbfd" /\ pc = "snapshot" /\ kind # "peer")
      /\ conn = "done" \/ UNCHANGED <<pc, calls, ctx>>
           \/ (conn = "peers" /\ scenario = "peers")
      /\ rpc # {} => rpc' # rpc
      /\ triggerCh /\ pc' = "begin" => ~triggerCh'
      /\ ctx' # "live" => sc.stop
      /\ seen' = [s \in Slots |-> seen[s] \cup ({desired'[s]} \ {None})]
      /\ UNCHANGED scenario

MCSpec == MCInit /\ [][MCNext]_mcVars

\* A cycle that ends without an error leaves exactly the desired neighbors in
\* FRR, each with its desired remote AS and BFD flag and at least its desired
\* optional lines and address families; a line that is there and not desired
\* is one that an earlier intent of the neighbor asked for, since
\* applyPeerIntent only adds lines (ReconcilePeers).
PeersConverge ==
  CleanCycle =>
    \A n \in Neighbors :
      LET p == desired[peerKey(n)]
          f == frr.nbrs[n]
          all == seen[peerKey(n)]
      IN  IF p = None THEN f = None
          ELSE /\ f # None /\ f.core = p.core /\ f.bfd = p.bfd
               /\ p.opts \subseteq f.opts /\ p.afs \subseteq f.afs
               /\ f.opts \subseteq UNION {q.opts : q \in all}
               /\ f.afs \subseteq UNION {q.afs : q \in all}
               /\ f.limits = f.afs

\* the session of n on i that the BFD intent, or else the BFD-enabled peer,
\* asks for; None for none, Unset for one with any parameters
SessionWanted(n, i) ==
  LET b == desired[bfdKey(n)]
      p == desired[peerKey(n)]
  IN  IF b # None /\ b.iface = i THEN b.params
      ELSE IF p # None /\ p.bfd /\ i = NoIface THEN p.bfdParams
      ELSE None

\* in how many ways n's sessions have been asked for: by BFD intents, for each
\* of their interfaces, and by peer intents
BFDSources(n) ==
  {b.iface : b \in seen[bfdKey(n)]}
    \cup {"peer" : p \in {q \in seen[peerKey(n)] : q.bfd}}

\* A cycle that ends without an error leaves every BFD session that BFD intents
\* and BFD-enabled peers ask for, a BFD intent's own one with its parameters.
\* There is no other session of the neighbor, and parameters are exact, as
\* long as its sessions have been asked for in one way: a BFD intent that moves
\* to another interface leaves its old session, one that is removed beside a
\* BFD-enabled peer leaves its parameters, and a change of the AS forgets the
\* peer that a session belongs to (ReconcilePeers, ReconcileBFD).
BFDConverge ==
  CleanCycle =>
    \A n \in Neighbors, i \in Ifaces \cup {NoIface} :
      LET want == SessionWanted(n, i)
          b == desired[bfdKey(n)]
          has == frr.bfd[<<n, i>>]
          oneWay == /\ Cardinality(BFDSources(n)) <= 1
                    /\ Scenarios[scenario].newAS => "peer" \notin BFDSources(n)
      IN  /\ want # None => has # None
          /\ b # None /\ b.iface = i => has = b.params
          /\ oneWay => has = want \/ want = Unset

\* After a shutdown whose WithdrawAll reported no error, FRR holds nothing that
\* the agent configured, but for the cost and timer lines of interfaces that no
\* longer run OSPF, and for an automatic BFD session that is no longer in
\* peerManagedBFD: a cycle that runs after the cancellation and drops its peer
\* only logs that the session was not removed, and forgets it.
ShutdownLeavesNothing ==
  pc = "done" /\ ~errs =>
    /\ frr.nbrs = EmptyConfig.nbrs /\ frr.nets = EmptyConfig.nets
    /\ frr.rmaps = EmptyConfig.rmaps
    /\ \A n \in Neighbors, i \in Ifaces \cup {NoIface} :
         \/ frr.bfd[<<n, i>>] = None
         \/ i = NoIface /\ "peer" \in BFDSources(n) /\ n \notin peerManagedBFD
    /\ \A x \in Ifaces \X BOOLEAN : frr.ospf[x].area = None /\ ~frr.ospf[x].passive

\* A cycle that ends without an error leaves OSPF enabled on an interface in the
\* desired version and area, with the desired cost and timers and passive if
\* asked for.  The other version is off, and the interface passive only if asked
\* for, as long as its intents have agreed on both: EnableOSPFInterface takes
\* back neither (ReconcileOSPF, applyOSPFIntent).
OSPFConverge ==
  CleanCycle =>
    \A i \in Ifaces, v6 \in BOOLEAN :
      LET o == desired[ospfKey(i)]
          on == o # None /\ o.v6 = v6
          port == frr.ospf[<<i, v6>>]
          sameMode == \A x, y \in seen[ospfKey(i)] :
                        x.v6 = y.v6 /\ x.passive = y.passive
      IN  /\ on => /\ port.area = o.area
                   /\ o.passive => port.passive
                   /\ o.params # Unset => port.params = o.params
          /\ sameMode => /\ ~on => port.area = None
                         /\ port.passive = (on /\ o.passive)
=============================================================================
