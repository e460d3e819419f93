------------------------------ MODULE Monitor ------------------------------
(***************************************************************************)
(* The FRR state monitor (monitorFRRState and the show commands it polls): *)
(* at the end of a cycle it asks FRR for its BGP, BFD and OSPF sessions,   *)
(* compares each with the state it remembers and publishes what changed.   *)
(* Between polls sessions go up and down, and the reconciler adds and      *)
(* removes them, which makes it forget states.                             *)
(*                                                                         *)
(* A key is what the monitor remembers a state by: a peer address or a     *)
(* neighbor ID.  told, view, polled and forgotten are history: the events  *)
(* of a poll, what someone who follows the events believes, what the last  *)
(* poll found of a key that was not forgotten since, and the keys whose    *)
(* state was up when it was forgotten.                                     *)
(***************************************************************************)
EXTENDS Integers, FiniteSets, SequencesExt

CONSTANTS
  BGPKeys, BFDKeys, OSPFKeys,   \* the keys of each kind
  Via                           \* the interfaces on which a key has a session

Kinds == {"bgp", "bfd", "ospf"}
KeysOf(kind) == CASE kind = "bgp"  -> BGPKeys
                  [] kind = "bfd"  -> BFDKeys
                  [] kind = "ospf" -> OSPFKeys
Keys == BGPKeys \cup BFDKeys \cup OSPFKeys

\* "Established", "up" and "Full" are all "up"; of the other states of a
\* session two are told apart, and it may not be there
States == {"down", "init", "up"}
Gone == "gone"

ASSUME MonitorAssumption ==
  /\ BGPKeys \cap BFDKeys = {} /\ BGPKeys \cap OSPFKeys = {}
  /\ BFDKeys \cap OSPFKeys = {}
  /\ \A k \in Keys : IsFiniteSet(Via[k]) /\ Via[k] # {}
  /\ \A k \in BGPKeys : Cardinality(Via[k]) = 1

VARIABLES
  live,       \* FRR: the state of each session of each key
  last,       \* lastBGPStates, lastBFDStates and lastOSPFStates
  pc,         \* the poll that comes next; "idle" between cycles
  told,       \* the events, "up" or "down", of a poll
  view, polled, forgotten

vars == <<live, last, pc, told, view, polled, forgotten>>

Init ==
  /\ live = [k \in Keys |-> [i \in Via[k] |-> Gone]]
  /\ last = [k \in Keys |-> Gone]
  /\ pc = "idle"
  /\ told = [k \in Keys |-> << >>]
  /\ view = [k \in Keys |-> "down"]
  /\ polled = [k \in Keys |-> Gone]
  /\ forgotten = {}

Quiet == told' = [k \in Keys |-> << >>]

(***************************************************************************)
(* FRR.                                                                    *)
(***************************************************************************)
\* a session that is there changes its state
SessionChanges(k, i, s) ==
  /\ live[k][i] \notin {Gone, s}
  /\ live' = [live EXCEPT ![k][i] = s]
  /\ UNCHANGED <<last, pc, view, polled, forgotten>>
  /\ Quiet

\* FRR is restarted and has no session
RestartFRR ==
  /\ live' = [k \in Keys |-> [i \in Via[k] |-> Gone]]
  /\ UNCHANGED <<last, pc, view, polled, forgotten>>
  /\ Quiet

(***************************************************************************)
(* The reconciler.  It holds r.mu, as the monitor does.                    *)
(***************************************************************************)
\* delete entries of the maps of last states
Forget(S) ==
  /\ last' = [k \in Keys |-> IF k \in S THEN Gone ELSE last[k]]
  /\ polled' = [k \in Keys |-> IF k \in S THEN Gone ELSE polled[k]]
  /\ forgotten' = forgotten \cup {k \in S : last[k] = "up"}

AddSession(k, i) ==
  /\ pc = "idle"
  /\ live[k][i] = Gone
  /\ live' = [live EXCEPT ![k][i] = "down"]
  /\ UNCHANGED <<last, pc, view, polled, forgotten>>
  /\ Quiet

\* a session that FRR may have lost meanwhile; the state of an OSPF neighbor
\* cannot be found by its interface, and stays; that of a BFD session a peer
\* brought is forgotten even if FRR refuses to remove it
RemoveSession(k, i, ok) ==
  /\ pc = "idle"
  /\ ok \/ k \in BFDKeys
  /\ live[k][i] # Gone \/ last[k] # Gone
  /\ live' = IF ok THEN [live EXCEPT ![k][i] = Gone] ELSE live
  /\ Forget({k} \ OSPFKeys)
  /\ UNCHANGED <<pc, view>>
  /\ Quiet

\* ensureBGPGlobal with another AS: BGP starts again from nothing
ChangeAS ==
  /\ pc = "idle"
  /\ live' = [k \in Keys |-> IF k \in BGPKeys THEN [i \in Via[k] |-> Gone]
                             ELSE live[k]]
  /\ Forget(BGPKeys \cup BFDKeys)
  /\ UNCHANGED <<pc, view>>
  /\ Quiet

(***************************************************************************)
(* monitorFRRState.                                                        *)
(***************************************************************************)
BeginMonitor ==
  /\ pc = "idle"
  /\ pc' = "bgp"
  /\ UNCHANGED <<live, last, view, polled, forgotten>>
  /\ Quiet

\* Mutant of EventFor: a session that is up when it is first seen is not news.
EventIfKnown(kind, prev, s) ==
  IF s = prev \/ prev = Gone THEN << >>
  ELSE IF s = "up" THEN <<"up">>
  ELSE IF prev = "up" \/ kind = "bfd" THEN <<"down">>
  ELSE << >>

\* Mutant of EventFor: every kind reports any change to a state that is not up.
EventForAnyChange(kind, prev, s) ==
  IF s = prev THEN << >>
  ELSE IF s = "up" THEN <<"up">>
  ELSE IF prev # Gone THEN <<"down">>
  ELSE << >>

\* what a session in state s is worth, for the remembered state prev: a BFD
\* session reports any change to a state that is not up
EventFor(kind, prev, s) ==
  IF s = prev THEN << >>
  ELSE IF s = "up" THEN <<"up">>
  ELSE IF prev = "up" \/ (kind = "bfd" /\ prev # Gone) THEN <<"down">>
  ELSE << >>

\* Mutant of Compare: a session that is not there any more is overlooked.
CompareListed(kind, prev, states) ==
  FoldLeft(LAMBDA a, s : [prev |-> s,
                          events |-> a.events \o EventFor(kind, a.prev, s)],
           [prev |-> prev, events |-> << >>], states)

\* the sessions of one key, one after the other; without any, the key is
\* dropped
Compare(kind, prev, states) ==
  IF states = << >>
  THEN [prev |-> Gone, events |-> IF prev = "up" THEN <<"down">> ELSE << >>]
  ELSE FoldLeft(LAMBDA a, s : [prev |-> s,
                               events |-> a.events \o EventFor(kind, a.prev, s)],
                [prev |-> prev, events |-> << >>], states)

\* the answers of a show command for key k, in some order
Shown(k) ==
  LET there == {i \in Via[k] : live[k][i] # Gone}
  IN  {[n \in DOMAIN order |-> live[k][order[n]]] : order \in SetToSeqs(there)}

\* Mutant of NextPoll: OSPF neighbors are not monitored.
NextPollNoOSPF(kind) ==
  CASE kind = "bgp" -> "bfd" [] kind = "bfd" -> "idle" [] kind = "ospf" -> "idle"

\* monitorFRRState looks at BGP, then at BFD, then at OSPF
NextPoll(kind) ==
  CASE kind = "bgp" -> "bfd" [] kind = "bfd" -> "ospf" [] kind = "ospf" -> "idle"

\* GetBGPNeighbors, GetBFDPeers or GetOSPFNeighbors, and the comparison
Poll(kind) ==
  /\ pc = kind
  /\ pc' = NextPoll(kind)
  /\ \E shown \in [KeysOf(kind) -> UNION {Shown(k) : k \in KeysOf(kind)}] :
       /\ \A k \in KeysOf(kind) : shown[k] \in Shown(k)
       /\ LET new == [k \in KeysOf(kind) |-> Compare(kind, last[k], shown[k])]
              final(k) == IF shown[k] = << >> THEN Gone ELSE Last(shown[k])
          IN  /\ last' = [k \in Keys |-> IF k \in KeysOf(kind) THEN new[k].prev
                                         ELSE last[k]]
              /\ told' = [k \in Keys |-> IF k \in KeysOf(kind) THEN new[k].events
                                         ELSE << >>]
              /\ polled' = [k \in Keys |-> IF k \in KeysOf(kind) THEN final(k)
                                           ELSE polled[k]]
  /\ view' = [k \in Keys |-> IF told'[k] = << >> THEN view[k] ELSE Last(told'[k])]
  /\ forgotten' = {k \in forgotten : told'[k] = << >>}
  /\ UNCHANGED live

\* the show command fails
PollFails(kind) ==
  /\ pc = kind
  /\ pc' = NextPoll(kind)
  /\ UNCHANGED <<live, last, view, polled, forgotten>>
  /\ Quiet

monitorFRRState ==
  BeginMonitor \/ \E kind \in Kinds : Poll(kind) \/ PollFails(kind)

Next ==
  \/ \E k \in Keys : \E i \in Via[k] :
       \/ AddSession(k, i)
       \/ \E ok \in BOOLEAN : RemoveSession(k, i, ok)
       \/ \E s \in States : SessionChanges(k, i, s)
  \/ ChangeAS
  \/ RestartFRR
  \/ monitorFRRState

(* Cycles go on, with every tick; they get past ensureBGPGlobal, whose     *)
(* error ends a cycle before the monitor, and FRR answers again and again. *)
Fairness ==
  WF_vars(monitorFRRState) /\ \A kind \in Kinds : SF_vars(Poll(kind))

Spec == Init /\ [][Next]_vars

FairSpec == Spec /\ Fairness
-----------------------------------------------------------------------------
(***************************************************************************)
(* Properties.                                                             *)
(***************************************************************************)

(* Every variable has its type, and what is remembered of a key is what    *)
(* the last poll found: neither a failed show command nor a session that   *)
(* changes behind the monitor's back disturbs the last states.             *)
TypeOK ==
  /\ \A k \in Keys : live[k] \in [Via[k] -> States \cup {Gone}]
  /\ last \in [Keys -> States \cup {Gone}]
  /\ last = polled
  /\ pc \in Kinds \cup {"idle"}
  /\ \A k \in Keys : told[k] \in Seq({"up", "down"})
  /\ view \in [Keys -> {"up", "down"}]
  /\ polled \in [Keys -> States \cup {Gone}]
  /\ forgotten \subseteq Keys

(* Who follows the events of monitorFRRState from the start knows which    *)
(* sessions were up at the last poll, through any failed show command, FRR *)
(* restart or session that came and went in between.  The exception is a   *)
(* key whose state the reconciler threw away while it was up (a removed    *)
(* peer, a change of the AS): nobody was told that it went down.           *)
EventsTellPolls ==
  \A k \in Keys \ forgotten : view[k] = "up" <=> polled[k] = "up"

(* An event tells something: an UP event follows a DOWN event, or no event *)
(* at all, or the loss of the remembered state, and a DOWN event of BGP or *)
(* OSPF follows an UP event; only a BFD session that fails to come up is   *)
(* reported down again.  For keys with one session.                        *)
EventsTellChanges ==
  [][\A k \in Keys : Cardinality(Via[k]) = 1 =>
        /\ told'[k] = <<"up">> => view[k] = "down" \/ k \in forgotten
        /\ told'[k] = <<"down">> => view[k] = "up" \/ k \in BFDKeys]_vars

(* A session that comes up to stay is at last reported up, whatever the    *)
(* monitor forgot; one that goes down to stay, or disappears, is at last   *)
(* reported down unless its state was forgotten.  For keys with one        *)
(* session.                                                                *)
EndsTold ==
  \A k \in Keys : \A i \in Via[k] : Via[k] = {i} =>
    /\ <>[](live[k][i] = "up") => <>[](view[k] = "up")
    /\ <>[](live[k][i] # "up") => <>[](view[k] = "down" \/ k \in forgotten)
=============================================================================
