----------------------------- MODULE MCEventBus -----------------------------
(* Small instances of EventBus. *)
EXTENDS EventBus

One(S) == CHOOSE x \in S : TRUE

\* one stream without filters, the others for one owner and one type
MCOwnerFilter == [s \in Streams |-> IF s = One(Streams) THEN NoOwner ELSE One(Owners)]
MCTypeFilter == [s \in Streams |-> IF s = One(Streams) THEN {} ELSE {One(Types)}]

\* The filtered stream asks for the first and the last of three events.
\* Publishers differ in nothing but their name: one of them comes first.  The
\* server is asked to stop when no stream is open; StopEnds is about the rest.
MCNext ==
  /\ Next
  /\ \A p \in Publishers : event'[p] # event[p] /\ event'[p] # << >> =>
       /\ event'[p][1].owner = One(Owners) <=> published # 1
       /\ published = 0 => p = One(Publishers)
  /\ server' # server => subscribers = {}

MCSpec == Init /\ [][MCNext]_vars /\ Fairness
=============================================================================
