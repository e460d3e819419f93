----------------------------- MODULE MCMonitor -----------------------------
(* Instances of the FRR state monitor, in one run: a scenario says which    *)
(* keys have sessions.                                                      *)
EXTENDS Monitor

CONSTANT Wide      \* the key with sessions on two interfaces

VARIABLE scenario

MCVia == [k \in Keys |-> IF k = Wide THEN {"eth0", "eth1"} ELSE {"eth0"}]

Scenarios == {Keys \ {Wide}, OSPFKeys \cup {Wide}}

MCInit == Init /\ scenario \in Scenarios

MCNext ==
  /\ Next
  /\ \A k \in Keys \ scenario : live'[k] = live[k]
  /\ UNCHANGED scenario

MCSpec == MCInit /\ [][MCNext]_<<vars, scenario>> /\ Fairness
=============================================================================
