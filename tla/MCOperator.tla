----------------------------- MODULE MCOperator -----------------------------
(* Small instances of Operator. *)
EXTENDS Operator

\* one spec, with a peer's password in the Secret
RefSpec == [version |-> 1, conf |-> 1, refs |-> TRUE]
OneSpec == {RefSpec}

\* and its upgrade, in the course of which the password is given up
TwoSpecs == OneSpec \cup {[version |-> 2, conf |-> 2, refs |-> FALSE]}

\* Of two specs, users begin with the one that refers to the Secret.
MCNext == Next /\ (uid = 0 /\ uid' = 1 => Cluster'.spec = RefSpec)

MCSpec == Init /\ [][MCNext]_vars /\ Fairness
=============================================================================
