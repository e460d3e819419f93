------------------------------ MODULE EventBus ------------------------------
(***************************************************************************)
(* The event bus (internal/server/events.go) and the StreamEvents handlers *)
(* that read from it: publishers visit the subscribers one by one under a  *)
(* read lock that they share, so the visits of two of them interleave; a   *)
(* handler subscribes, forwards events to its client and, once the client  *)
(* is gone, unsubscribes under the write lock, which closes its channel.   *)
(*                                                                         *)
(* lost, passed and got are history: what a full channel made a publisher  *)
(* drop, what a publisher has gone through, and what the client received.  *)
(***************************************************************************)
EXTENDS Integers, Sequences, Functions

CONSTANTS
  Streams,      \* StreamEvents calls
  Publishers,   \* goroutines that publish
  Owners, Types,
  NoOwner,      \* the empty owner filter
  OwnerFilter,  \* the owner filter of each stream
  TypeFilter,   \* the set of type names each stream asks for
  Cap,          \* capacity of a channel (256)
  MaxEvents     \* bound on the events published

ASSUME EventBusAssumption ==
  /\ OwnerFilter \in [Streams -> Owners \cup {NoOwner}]
  /\ NoOwner \notin Owners
  /\ DOMAIN TypeFilter = Streams
  /\ Cap \in Nat \ {0} /\ MaxEvents \in Nat

Events == [by : Publishers, n : 1..MaxEvents, owner : Owners, type : Types]

VARIABLES
  subscribers,  \* streams with a subscription
  ch,           \* the channel of each stream
  closed,       \* streams whose channel has been closed
  published,    \* events published so far
  visiting,     \* streams a publisher has still to visit; {} when it has none
  event,        \* the event it publishes, << >> outside Publish
  pc,           \* where each handler is
  hand,         \* the event it has received and not yet sent, else << >>
  connected,    \* streams whose client is there
  server,       \* the gRPC server: "serving", "stopping", "stopped"
  lost, passed, got

bus == <<subscribers, ch, closed>>
pubs == <<published, visiting, event>>
vars == <<bus, pubs, pc, hand, connected, server, lost, passed, got>>

Init ==
  /\ subscribers = {} /\ closed = {}
  /\ ch = [s \in Streams |-> << >>]
  /\ published = 0
  /\ visiting = [p \in Publishers |-> {}]
  /\ event = [p \in Publishers |-> << >>]
  /\ pc = [s \in Streams |-> "new"]
  /\ hand = [s \in Streams |-> << >>]
  /\ connected = Streams
  /\ server = "serving"
  /\ lost = [s \in Streams |-> {}]
  /\ passed = [s \in Streams |-> {}]
  /\ got = [s \in Streams |-> << >>]

(***************************************************************************)
(* Publish.                                                                *)
(***************************************************************************)
\* Mutant of matches: without a type filter nothing passes.
MatchesTypeAlways(s, e) ==
  /\ OwnerFilter[s] # NoOwner => e.owner = OwnerFilter[s]
  /\ e.type \in TypeFilter[s]

matches(s, e) ==
  /\ OwnerFilter[s] # NoOwner => e.owner = OwnerFilter[s]
  /\ TypeFilter[s] # {} => e.type \in TypeFilter[s]

Readers == {p \in Publishers : event[p] # << >>}

\* RLock, and the range over the subscribers begins
Publish(p, o, t) ==
  /\ event[p] = << >>
  /\ published < MaxEvents
  /\ published' = published + 1
  /\ event' = [event EXCEPT ![p] = <<[by |-> p, n |-> published + 1,
                                      owner |-> o, type |-> t]>>]
  /\ visiting' = [visiting EXCEPT ![p] = subscribers]
  /\ UNCHANGED <<bus, pc, hand, connected, server, lost, passed, got>>

\* Mutant of Visit: the send waits for room.
VisitBlocking(p, s) ==
  /\ s \in visiting[p]
  /\ LET e == event[p][1]
     IN  /\ matches(s, e) => Len(ch[s]) < Cap
         /\ ch' = IF matches(s, e) THEN [ch EXCEPT ![s] = Append(@, e)] ELSE ch
         /\ passed' = [passed EXCEPT ![s] = @ \cup {e}]
  /\ visiting' = [visiting EXCEPT ![p] = @ \ {s}]
  /\ UNCHANGED <<subscribers, closed, published, event, pc, hand, connected, server,
                 lost, got>>

\* Mutant of Visit: one event too many fits.
VisitOver(p, s) ==
  /\ s \in visiting[p]
  /\ LET e == event[p][1]
     IN  /\ ch' = IF matches(s, e) /\ Len(ch[s]) <= Cap
                  THEN [ch EXCEPT ![s] = Append(@, e)] ELSE ch
         /\ passed' = [passed EXCEPT ![s] = @ \cup {e}]
  /\ visiting' = [visiting EXCEPT ![p] = @ \ {s}]
  /\ UNCHANGED <<subscribers, closed, published, event, pc, hand, connected, server,
                 lost, got>>

\* a non-blocking send to the next subscriber
Visit(p, s) ==
  /\ s \in visiting[p]
  /\ LET e == event[p][1]
     IN  /\ \/ ~matches(s, e) /\ UNCHANGED <<ch, lost>>
            \/ /\ matches(s, e) /\ Len(ch[s]) < Cap
               /\ ch' = [ch EXCEPT ![s] = Append(@, e)]
               /\ UNCHANGED lost
            \/ /\ matches(s, e) /\ Len(ch[s]) = Cap
               /\ lost' = [lost EXCEPT ![s] = @ \cup {e}]
               /\ UNCHANGED ch
         /\ passed' = [passed EXCEPT ![s] = @ \cup {e}]
  /\ visiting' = [visiting EXCEPT ![p] = @ \ {s}]
  /\ UNCHANGED <<subscribers, closed, published, event, pc, hand, connected, server,
                 got>>

\* RUnlock
Finish(p) ==
  /\ event[p] # << >>
  /\ visiting[p] = {}
  /\ event' = [event EXCEPT ![p] = << >>]
  /\ UNCHANGED <<bus, published, visiting, pc, hand, connected, server, lost, passed, got>>

(***************************************************************************)
(* StreamEvents.                                                           *)
(***************************************************************************)
\* the write lock is free when no publisher holds the read lock
Subscribe(s) ==
  /\ pc[s] = "new"
  /\ server = "serving"
  /\ Readers = {}
  /\ subscribers' = subscribers \cup {s}
  /\ pc' = [pc EXCEPT ![s] = "stream"]
  /\ UNCHANGED <<ch, closed, pubs, hand, connected, server, lost, passed, got>>

\* Mutant of Receive: the newest event first.
ReceiveNewest(s) ==
  /\ pc[s] = "stream"
  /\ ch[s] # << >>
  /\ hand' = [hand EXCEPT ![s] = <<ch[s][Len(ch[s])]>>]
  /\ ch' = [ch EXCEPT ![s] = SubSeq(@, 1, Len(@) - 1)]
  /\ pc' = [pc EXCEPT ![s] = "send"]
  /\ UNCHANGED <<subscribers, closed, pubs, connected, server, lost, passed, got>>

\* the select finds an event in the channel
Receive(s) ==
  /\ pc[s] = "stream"
  /\ ch[s] # << >>
  /\ hand' = [hand EXCEPT ![s] = <<Head(ch[s])>>]
  /\ ch' = [ch EXCEPT ![s] = Tail(@)]
  /\ pc' = [pc EXCEPT ![s] = "send"]
  /\ UNCHANGED <<subscribers, closed, pubs, connected, server, lost, passed, got>>

\* Send returns: the client has taken the event
Send(s) ==
  /\ pc[s] = "send"
  /\ s \in connected
  /\ got' = [got EXCEPT ![s] = Append(@, hand[s][1])]
  /\ hand' = [hand EXCEPT ![s] = << >>]
  /\ pc' = [pc EXCEPT ![s] = "stream"]
  /\ UNCHANGED <<bus, pubs, connected, server, lost, passed>>

SendFails(s) ==
  /\ pc[s] = "send"
  /\ s \notin connected
  /\ hand' = [hand EXCEPT ![s] = << >>]
  /\ pc' = [pc EXCEPT ![s] = "unsubscribe"]
  /\ UNCHANGED <<bus, pubs, connected, server, lost, passed, got>>

\* Mutant of EndStream: the context is looked at only after an event.
EndAfterEvent(s) ==
  /\ pc[s] = "stream"
  /\ s \notin connected
  /\ ch[s] # << >>
  /\ pc' = [pc EXCEPT ![s] = "unsubscribe"]
  /\ UNCHANGED <<bus, pubs, hand, connected, server, lost, passed, got>>

\* the select finds the stream's context done
EndStream(s) ==
  /\ pc[s] = "stream"
  /\ s \notin connected
  /\ pc' = [pc EXCEPT ![s] = "unsubscribe"]
  /\ UNCHANGED <<bus, pubs, hand, connected, server, lost, passed, got>>

\* Mutant of Unsubscribe: the lock is not taken.
UnsubscribeUnlocked(s) ==
  /\ pc[s] = "unsubscribe"
  /\ subscribers' = subscribers \ {s}
  /\ closed' = closed \cup {s}
  /\ pc' = [pc EXCEPT ![s] = "gone"]
  /\ UNCHANGED <<ch, pubs, hand, connected, server, lost, passed, got>>

Unsubscribe(s) ==
  /\ pc[s] = "unsubscribe"
  /\ Readers = {}
  /\ subscribers' = subscribers \ {s}
  /\ closed' = closed \cup {s}
  /\ pc' = [pc EXCEPT ![s] = "gone"]
  /\ UNCHANGED <<ch, pubs, hand, connected, server, lost, passed, got>>

Disconnect(s) ==
  /\ s \in connected
  /\ pc[s] # "new"
  /\ connected' = connected \ {s}
  /\ UNCHANGED <<bus, pubs, pc, hand, server, lost, passed, got>>

(***************************************************************************)
(* GracefulStop: no new streams, and wait for the handlers to return.      *)
(***************************************************************************)
GracefulStop ==
  /\ server = "serving"
  /\ server' = "stopping"
  /\ UNCHANGED <<bus, pubs, pc, hand, connected, lost, passed, got>>

Stopped ==
  /\ server = "stopping"
  /\ \A s \in Streams : pc[s] \in {"new", "gone"}
  /\ server' = "stopped"
  /\ UNCHANGED <<bus, pubs, pc, hand, connected, lost, passed, got>>

Publishing(p) == Finish(p) \/ \E s \in Streams : Visit(p, s)

Handling(s) ==
  \/ Subscribe(s) \/ Receive(s) \/ Send(s) \/ SendFails(s) \/ EndStream(s)
  \/ Unsubscribe(s)

Next ==
  \/ \E p \in Publishers :
       Publishing(p) \/ \E o \in Owners, t \in Types : Publish(p, o, t)
  \/ \E s \in Streams : Handling(s) \/ Disconnect(s)
  \/ GracefulStop \/ Stopped

(* Goroutines that can run do run.  Lock is not starved by readers: a      *)
(* sync.RWMutex keeps new ones out while a writer waits.  A Send ends only *)
(* when the client reads or goes away, and neither is certain.             *)
Fairness ==
  /\ \A p \in Publishers : WF_vars(Publishing(p))
  /\ \A s \in Streams :
       WF_vars(EndStream(s) \/ SendFails(s)) /\ SF_vars(Unsubscribe(s))
  /\ WF_vars(Stopped)

Spec == Init /\ [][Next]_vars

FairSpec == Spec /\ Fairness

(***************************************************************************)
(* Properties.                                                             *)
(***************************************************************************)
\* Every variable has its type; a channel never holds more than its capacity.
TypeOK ==
  /\ subscribers \subseteq Streams /\ closed \subseteq Streams
  /\ \A s \in Streams : /\ Range(ch[s]) \subseteq Events
                        /\ Len(ch[s]) <= Cap
                        /\ Range(hand[s]) \subseteq Events /\ Len(hand[s]) <= 1
                        /\ hand[s] # << >> <=> pc[s] = "send"
                        /\ lost[s] \cup passed[s] \cup Range(got[s]) \subseteq Events
  /\ published \in 0..MaxEvents
  /\ visiting \in [Publishers -> SUBSET Streams]
  /\ \A p \in Publishers : Range(event[p]) \subseteq Events /\ Len(event[p]) <= 1
  /\ pc \in [Streams -> {"new", "stream", "send", "unsubscribe", "gone"}]
  /\ connected \subseteq Streams
  /\ server \in {"serving", "stopping", "stopped"}

\* No publisher is about to send on a channel that Unsubscribe has closed,
\* which would panic.
NeverSendsOnClosed == \A p \in Publishers : visiting[p] \cap closed = {}

\* the events of stream s, oldest first: at the client, then those that wait
\* in the handler and in the channel
Waiting(s) == hand[s] \o ch[s]
Sequence(s) == got[s] \o Waiting(s)

\* the filters of a StreamEventsRequest, as its fields describe them
Wanted(s) ==
  {e \in Events : /\ OwnerFilter[s] = NoOwner \/ e.owner = OwnerFilter[s]
                  /\ TypeFilter[s] = {} \/ e.type \in TypeFilter[s]}

\* what stream s amounts to as a queue: while the client is connected, what
\* it has received and what waits for it, else what it had received
Queue(s) ==
  INSTANCE Delivery WITH
    Offered <- Wanted(s),
    Room <- Cap + 1,
    taken <- IF s \in connected THEN Sequence(s) ELSE got[s],
    delivered <- Len(got[s]),
    open <- s \in connected

\* To its client every stream is the queue of module Delivery: however the
\* visits of publishers, the handler, its end and other streams interleave,
\* an event that enters the channel is one the client asked for, is newer
\* than those of its publisher before it, and leaves in its turn.
StreamsDeliver ==
  /\ \A s \in Streams : Queue(s)!DInit
  /\ [][\A s \in Streams : Queue(s)!DNext \/ UNCHANGED Queue(s)!dvars]_vars

\* As long as the client is connected, it has or will have exactly the events
\* that it asked for among those whose publisher has been at its channel,
\* less the ones counted as dropped.
NothingElseLost ==
  \A s \in connected :
    Range(Sequence(s)) = (passed[s] \cap Wanted(s)) \ lost[s]

\* A publisher finishes although clients may never read.
PublishEnds ==
  \A p \in Publishers : event[p] # << >> ~> event[p] = << >>

\* A handler whose client is gone unsubscribes.
StreamsEnd == \A s \in Streams : s \notin connected ~> s \notin subscribers

\* Once asked to stop, the server stops: main goes on after GracefulStop.
StopEnds == server = "stopping" ~> server = "stopped"
=============================================================================
