--------------------------- MODULE EventBusProofs ---------------------------
(***************************************************************************)
(* For any number of streams, publishers and events and any capacity: no   *)
(* goroutine ever sends on a closed channel, and to its client each stream *)
(* is the queue of module Delivery.                                        *)
(*                                                                         *)
(* The first argument is the read-write lock: a publisher that still has   *)
(* streams to visit holds the read lock, so none of them can unsubscribe   *)
(* before it is through; and a stream that is closed is gone for good, so  *)
(* that the set a later publisher starts from does not hold it.            *)
(*                                                                         *)
(* The second one is about numbers: a publisher that has still to visit a  *)
(* stream holds an event newer than all of its own that the stream has had *)
(* (OrderInv), because an event is numbered before its visits begin and    *)
(* each stream is visited once.                                            *)
(***************************************************************************)
EXTENDS EventBus, TLAPS

\* visits happen under the read lock, over streams that are subscribed, and
\* those are in the middle of StreamEvents; closed ones have left it
LockInv ==
  /\ \A p \in Publishers : event[p] = << >> => visiting[p] = {}
  /\ \A p \in Publishers : visiting[p] \subseteq subscribers
  /\ \A s \in subscribers : s \in Streams /\ pc[s] \in {"stream", "send", "unsubscribe"}
  /\ \A s \in closed : s \in Streams /\ pc[s] = "gone"
  /\ DOMAIN event = Publishers /\ DOMAIN visiting = Publishers
  /\ pc \in [Streams -> {"new", "stream", "send", "unsubscribe", "gone"}]

\* Nobody has subscribed at the start.
LEMMA LockInvInit == Init => LockInv
BY DEF Init, LockInv

\* A publisher's steps keep to the streams that are subscribed.
LEMMA PublisherStep ==
  ASSUME LockInv, NEW p \in Publishers,
         Publishing(p) \/ \E o \in Owners, t \in Types : Publish(p, o, t)
  PROVE  LockInv'
<1>1. CASE \E o \in Owners, t \in Types : Publish(p, o, t)
  BY <1>1 DEF Publish, LockInv, bus
<1>2. CASE Finish(p)
  BY <1>2 DEF Finish, LockInv, bus
<1>3. CASE \E s \in Streams : Visit(p, s)
  BY <1>3 DEF Visit, LockInv
<1> QED
  BY <1>1, <1>2, <1>3 DEF Publishing

\* A handler leaves the set only while no publisher is at work.
LEMMA StreamStep ==
  ASSUME LockInv, NEW s \in Streams, Handling(s) \/ Disconnect(s)
  PROVE  LockInv'
<1>1. CASE Subscribe(s)
  BY <1>1 DEF Subscribe, LockInv, pubs
<1>2. CASE Disconnect(s)
  BY <1>2 DEF Disconnect, LockInv, pubs, bus
<1>3. CASE Receive(s) \/ Send(s) \/ SendFails(s) \/ EndStream(s)
  BY <1>3 DEF Receive, Send, SendFails, EndStream, LockInv, pubs, bus
<1>4. CASE Unsubscribe(s)
  <2>1. \A p \in Publishers : visiting[p] = {}
    BY <1>4 DEF Unsubscribe, Readers, LockInv
  <2> QED
    BY <1>4, <2>1 DEF Unsubscribe, LockInv, pubs
<1> QED
  BY <1>1, <1>2, <1>3, <1>4 DEF Handling

\* No publisher is ever about to send on a closed channel: Unsubscribe closes
\* under the write lock what Publish visits under the read lock.
THEOREM NoSendOnClosed == Spec => []NeverSendsOnClosed
<1>1. LockInv /\ [Next]_vars => LockInv'
  <2> SUFFICES ASSUME LockInv, [Next]_vars PROVE LockInv'
    OBVIOUS
  <2>1. CASE GracefulStop \/ Stopped \/ UNCHANGED vars
    BY <2>1 DEF GracefulStop, Stopped, vars, LockInv, bus, pubs
  <2> QED
    BY <2>1, PublisherStep, StreamStep DEF Next
<1>2. LockInv => NeverSendsOnClosed
  BY DEF LockInv, NeverSendsOnClosed
<1> QED
  BY LockInvInit, <1>1, <1>2, PTL DEF Spec

-----------------------------------------------------------------------------

\* the types, with sequences of events as sequences
TypeInv ==
  /\ subscribers \subseteq Streams /\ closed \subseteq Streams
  /\ ch \in [Streams -> Seq(Events)] /\ got \in [Streams -> Seq(Events)]
  /\ \A s \in Streams : Len(ch[s]) <= Cap
  /\ hand \in [Streams -> {<< >>} \cup {<<e>> : e \in Events}]
  /\ \A s \in Streams : hand[s] # << >> <=> pc[s] = "send"
  /\ lost \in [Streams -> SUBSET Events] /\ passed \in [Streams -> SUBSET Events]
  /\ published \in 0..MaxEvents
  /\ visiting \in [Publishers -> SUBSET Streams]
  /\ event \in [Publishers -> Seq(Events)]
  /\ \A p \in Publishers : Len(event[p]) <= 1
  /\ pc \in [Streams -> {"new", "stream", "send", "unsubscribe", "gone"}]
  /\ connected \subseteq Streams
  /\ server \in {"serving", "stopping", "stopped"}

\* visits are made with an event in hand
VisitInv == \A p \in Publishers : event[p] = << >> => visiting[p] = {}

\* What a handler has in hand is a sequence of at most one event.
LEMMA HandSeq == ASSUME TypeInv, NEW s \in Streams
                 PROVE  hand[s] \in Seq(Events) /\ Len(hand[s]) <= 1
<1>1. hand[s] = << >> \/ \E e \in Events : hand[s] = <<e>>
  BY DEF TypeInv
<1>2. CASE hand[s] = << >>
  BY <1>2
<1>3. CASE \E e \in Events : hand[s] = <<e>>
  <2>1. PICK e \in Events : hand[s] = <<e>>
    BY <1>3
  <2>2. <<e>> \in Seq(Events) /\ Len(<<e>>) = 1
    OBVIOUS
  <2> QED
    BY <2>1, <2>2
<1> QED
  BY <1>1, <1>2, <1>3

\* What the start has.
LEMMA TypeInvInit == Init => TypeInv /\ VisitInv
<1> SUFFICES ASSUME Init PROVE TypeInv /\ VisitInv
  OBVIOUS
<1>1. << >> \in Seq(Events) /\ Len(<< >>) = 0
  OBVIOUS
<1> QED
  BY <1>1, EventBusAssumption DEF Init, TypeInv, VisitInv

\* A new event is an event.
LEMMA PublishType ==
  ASSUME TypeInv, VisitInv, NEW p \in Publishers, NEW o \in Owners, NEW t \in Types,
         Publish(p, o, t)
  PROVE  TypeInv' /\ VisitInv'
<1> DEFINE e == [by |-> p, n |-> published + 1, owner |-> o, type |-> t]
<1>1. e \in Events
  BY EventBusAssumption DEF Publish, TypeInv, Events
<1>2. <<e>> \in Seq(Events) /\ Len(<<e>>) = 1 /\ <<e>> # << >>
  BY <1>1
<1>3. event' = [event EXCEPT ![p] = <<e>>]
  BY DEF Publish
<1> HIDE DEF e
<1>4. /\ event' \in [Publishers -> Seq(Events)]
      /\ \A q \in Publishers : Len(event'[q]) <= 1
  BY <1>2, <1>3 DEF TypeInv
<1>5. published' \in 0..MaxEvents
  BY EventBusAssumption DEF TypeInv, Publish
<1>6. visiting' \in [Publishers -> SUBSET Streams]
  BY DEF TypeInv, Publish
<1>7. TypeInv'
  BY <1>4, <1>5, <1>6 DEF TypeInv, Publish, bus
<1>8. VisitInv'
  BY <1>2, <1>3 DEF VisitInv, Publish, TypeInv
<1> QED
  BY <1>7, <1>8

\* A publisher at a stream has an event in hand, and a channel stays within
\* its capacity.
LEMMA VisitType ==
  ASSUME TypeInv, VisitInv, NEW p \in Publishers, NEW s \in Streams, Visit(p, s)
  PROVE  TypeInv' /\ VisitInv'
<1> DEFINE e == event[p][1]
<1>1. event[p] # << >>
  BY DEF Visit, VisitInv
<1>2. e \in Events
  BY <1>1 DEF TypeInv
<1>3. /\ ch' \in [Streams -> Seq(Events)]
      /\ \A t \in Streams : Len(ch'[t]) <= Cap
      /\ lost' \in [Streams -> SUBSET Events]
  <2>1. CASE UNCHANGED <<ch, lost>>
    BY <2>1 DEF TypeInv
  <2>2. CASE /\ Len(ch[s]) < Cap
             /\ ch' = [ch EXCEPT ![s] = Append(@, e)]
             /\ UNCHANGED lost
    <3>1. ch[s] \in Seq(Events)
      BY DEF TypeInv
    <3>2. Append(ch[s], e) \in Seq(Events) /\ Len(Append(ch[s], e)) = Len(ch[s]) + 1
      BY <1>2, <3>1
    <3> QED
      BY <2>2, <3>1, <3>2, EventBusAssumption DEF TypeInv
  <2>3. CASE /\ lost' = [lost EXCEPT ![s] = @ \cup {e}]
             /\ UNCHANGED ch
    BY <1>2, <2>3 DEF TypeInv
  <2> QED
    BY <2>1, <2>2, <2>3 DEF Visit
<1>4. passed' \in [Streams -> SUBSET Events]
  BY <1>2 DEF Visit, TypeInv
<1>5. visiting' \in [Publishers -> SUBSET Streams]
  BY DEF Visit, TypeInv
<1>6. TypeInv'
  BY <1>3, <1>4, <1>5 DEF Visit, TypeInv
<1>7. VisitInv'
  BY DEF Visit, VisitInv, TypeInv
<1> QED
  BY <1>6, <1>7

\* A handler moves events, and makes none.
LEMMA StreamType ==
  ASSUME TypeInv, VisitInv, NEW s \in Streams, Handling(s) \/ Disconnect(s)
  PROVE  TypeInv' /\ VisitInv'
<1>1. CASE Subscribe(s)
  BY <1>1 DEF Subscribe, TypeInv, VisitInv, pubs
<1>2. CASE Receive(s)
  <2>1. ch[s] \in Seq(Events) /\ Len(ch[s]) <= Cap /\ ch[s] # << >>
    BY <1>2 DEF Receive, TypeInv
  <2>2. /\ Head(ch[s]) \in Events /\ Tail(ch[s]) \in Seq(Events)
        /\ Len(Tail(ch[s])) <= Cap /\ <<Head(ch[s])>> # << >>
    BY <2>1, EventBusAssumption
  <2> QED
    BY <1>2, <2>2 DEF Receive, TypeInv, VisitInv, pubs
<1>3. CASE Send(s)
  <2>1. hand[s][1] \in Events /\ got[s] \in Seq(Events)
    BY <1>3 DEF Send, TypeInv
  <2>2. Append(got[s], hand[s][1]) \in Seq(Events)
    BY <2>1
  <2> QED
    BY <1>3, <2>2 DEF Send, TypeInv, VisitInv, pubs, bus
<1>4. CASE SendFails(s) \/ EndStream(s)
  BY <1>4 DEF SendFails, EndStream, TypeInv, VisitInv, pubs, bus
<1>5. CASE Unsubscribe(s)
  BY <1>5 DEF Unsubscribe, TypeInv, VisitInv, pubs
<1>6. CASE Disconnect(s)
  BY <1>6 DEF Disconnect, TypeInv, VisitInv, pubs, bus
<1> QED
  BY <1>1, <1>2, <1>3, <1>4, <1>5, <1>6 DEF Handling

\* Every step keeps the types.
LEMMA TypeInvStep == TypeInv /\ VisitInv /\ [Next]_vars => TypeInv' /\ VisitInv'
<1> SUFFICES ASSUME TypeInv, VisitInv, [Next]_vars PROVE TypeInv' /\ VisitInv'
  OBVIOUS
<1>1. CASE GracefulStop \/ Stopped \/ UNCHANGED vars
  BY <1>1 DEF GracefulStop, Stopped, vars, TypeInv, VisitInv, bus, pubs
<1>2. ASSUME NEW p \in Publishers, Finish(p) PROVE TypeInv' /\ VisitInv'
  <2>1. << >> \in Seq(Events) /\ Len(<< >>) <= 1
    OBVIOUS
  <2> QED
    BY <1>2, <2>1 DEF Finish, TypeInv, VisitInv, bus
<1> QED
  BY <1>1, <1>2, PublishType, VisitType, StreamType DEF Next, Publishing

\* Every variable has its type, and no channel holds more than Cap events.
THEOREM BusTypeCorrect == Spec => []TypeOK
<1>1. TypeInv => TypeOK
  <2> SUFFICES ASSUME TypeInv PROVE TypeOK
    OBVIOUS
  <2>1. ASSUME NEW q \in Seq(Events) PROVE Range(q) \subseteq Events
    BY <2>1 DEF Range
  <2>2. \A s \in Streams : /\ Range(ch[s]) \subseteq Events
                           /\ Range(got[s]) \subseteq Events
    BY <2>1 DEF TypeInv
  <2>3. ASSUME NEW s \in Streams PROVE Range(hand[s]) \subseteq Events /\ Len(hand[s]) <= 1
    <3>1. hand[s] \in Seq(Events) /\ Len(hand[s]) <= 1
      BY <2>3, HandSeq
    <3> QED
      BY <2>1, <3>1
  <2>4. \A p \in Publishers : Range(event[p]) \subseteq Events
    BY <2>1 DEF TypeInv
  <2> QED
    BY <2>2, <2>3, <2>4 DEF TypeInv, TypeOK
<1> QED
  BY TypeInvInit, TypeInvStep, <1>1, PTL DEF Spec

-----------------------------------------------------------------------------

\* all events of the sequence are numbered, and those of publisher p are
\* older than number n
Numbered(q) == \A i \in 1..Len(q) : q[i].n <= published
OlderThan(q, p, n) == \A i \in 1..Len(q) : q[i].by = p => q[i].n < n

OrderInv ==
  /\ \A s \in Streams : Numbered(ch[s]) /\ Numbered(hand[s]) /\ Numbered(got[s])
  /\ \A p \in Publishers : event[p] # << >> =>
        event[p][1].by = p /\ event[p][1].n <= published
  /\ \A p \in Publishers : \A s \in visiting[p] :
        /\ OlderThan(ch[s], p, event[p][1].n)
        /\ OlderThan(hand[s], p, event[p][1].n)
        /\ OlderThan(got[s], p, event[p][1].n)

\* What goes to the end of a sequence, and what leaves its front.
LEMMA SequenceParts ==
  ASSUME NEW S, NEW q \in Seq(S), NEW e \in S
  PROVE  /\ Append(q, e) \in Seq(S)
         /\ Len(Append(q, e)) = Len(q) + 1
         /\ \A i \in 1..Len(q) : Append(q, e)[i] = q[i]
         /\ Append(q, e)[Len(q) + 1] = e
         /\ q # << >> => /\ Head(q) = q[1] /\ 1 \in 1..Len(q)
                         /\ Tail(q) \in Seq(S) /\ Len(Tail(q)) = Len(q) - 1
                         /\ \A i \in 1..(Len(q) - 1) : Tail(q)[i] = q[i + 1]
OBVIOUS

\* The two kinds of order of a sequence survive an event more, or one less.
LEMMA OrderParts ==
  ASSUME NEW q \in Seq(Events), NEW e \in Events, NEW p, NEW n
  PROVE  /\ Numbered(q) /\ e.n <= published => Numbered(Append(q, e))
         /\ OlderThan(q, p, n) /\ (e.by = p => e.n < n) => OlderThan(Append(q, e), p, n)
         /\ q # << >> /\ Numbered(q) => Numbered(Tail(q)) /\ Head(q).n <= published
         /\ q # << >> /\ OlderThan(q, p, n) =>
              OlderThan(Tail(q), p, n) /\ (Head(q).by = p => Head(q).n < n)
<1> USE SequenceParts
<1>1. Numbered(q) /\ e.n <= published => Numbered(Append(q, e))
  BY DEF Numbered
<1>2. OlderThan(q, p, n) /\ (e.by = p => e.n < n) => OlderThan(Append(q, e), p, n)
  BY DEF OlderThan
<1>3. q # << >> /\ Numbered(q) => Numbered(Tail(q)) /\ Head(q).n <= published
  BY DEF Numbered
<1>4. q # << >> /\ OlderThan(q, p, n) =>
        OlderThan(Tail(q), p, n) /\ (Head(q).by = p => Head(q).n < n)
  BY DEF OlderThan
<1> QED
  BY <1>1, <1>2, <1>3, <1>4

\* Events are numbered by naturals.
LEMMA EventNumber == \A e \in Events : e.n \in Nat
BY EventBusAssumption DEF Events

\* A new event is newer than all others.
LEMMA PublishOrder ==
  ASSUME TypeInv, OrderInv, NEW p \in Publishers, NEW o \in Owners, NEW t \in Types,
         Publish(p, o, t)
  PROVE  OrderInv'
<1> DEFINE e == [by |-> p, n |-> published + 1, owner |-> o, type |-> t]
<1>1. /\ event' = [event EXCEPT ![p] = <<e>>] /\ e.by = p /\ e.n = published + 1
      /\ <<e>>[1] = e
      /\ published' = published + 1 /\ published \in Nat
      /\ UNCHANGED <<ch, hand, got>>
      /\ visiting' = [visiting EXCEPT ![p] = subscribers]
  BY EventBusAssumption DEF Publish, TypeInv, bus
<1> HIDE DEF e
<1>2. ASSUME NEW q \in Seq(Events), Numbered(q)
      PROVE  OlderThan(q, p, published + 1) /\ \A i \in 1..Len(q) : q[i].n <= published + 1
  <2>1. \A i \in 1..Len(q) : q[i].n \in Nat
    BY <1>2, EventNumber
  <2> QED
    BY <1>1, <1>2, <2>1 DEF Numbered, OlderThan
<1>3. \A s \in Streams : Numbered(ch[s])' /\ Numbered(hand[s])' /\ Numbered(got[s])'
  <2>1. \A s \in Streams : /\ ch[s] \in Seq(Events) /\ got[s] \in Seq(Events)
                           /\ hand[s] \in Seq(Events)
    BY HandSeq DEF TypeInv
  <2> QED
    BY <1>1, <1>2, <2>1 DEF OrderInv, Numbered
<1>4. \A q \in Publishers : event'[q] # << >> =>
        event'[q][1].by = q /\ event'[q][1].n <= published'
  <2> SUFFICES ASSUME NEW q \in Publishers, event'[q] # << >>
               PROVE  event'[q][1].by = q /\ event'[q][1].n <= published'
    OBVIOUS
  <2>1. CASE q = p
    BY <1>1, <2>1 DEF TypeInv
  <2>2. CASE q # p
    <3>1. event'[q] = event[q] /\ event[q] \in Seq(Events) /\ event[q] # << >>
      BY <1>1, <2>2 DEF TypeInv
    <3>2. event[q][1].n \in Nat
      BY <3>1, EventNumber
    <3> QED
      BY <1>1, <3>1, <3>2 DEF OrderInv
  <2> QED
    BY <2>1, <2>2
<1>5. ASSUME NEW q \in Publishers, NEW s \in visiting'[q]
      PROVE  /\ OlderThan(ch[s], q, event[q][1].n)' /\ OlderThan(hand[s], q, event[q][1].n)'
             /\ OlderThan(got[s], q, event[q][1].n)'
  <2>1. CASE q = p
    <3>1. /\ s \in Streams /\ ch[s] \in Seq(Events) /\ got[s] \in Seq(Events)
          /\ hand[s] \in Seq(Events)
      BY <1>1, <1>5, <2>1, HandSeq DEF TypeInv
    <3>2. /\ OlderThan(ch[s], p, published + 1) /\ OlderThan(hand[s], p, published + 1)
          /\ OlderThan(got[s], p, published + 1)
      BY <1>2, <3>1 DEF OrderInv
    <3>3. event'[p][1].n = published + 1
      BY <1>1 DEF TypeInv
    <3> QED
      BY <1>1, <2>1, <3>2, <3>3 DEF OlderThan
  <2>2. CASE q # p
    <3>1. event'[q] = event[q] /\ visiting'[q] = visiting[q]
      BY <1>1, <2>2 DEF TypeInv
    <3> QED
      BY <1>1, <1>5, <3>1 DEF OrderInv, OlderThan
  <2> QED
    BY <2>1, <2>2
<1> QED
  BY <1>3, <1>4, <1>5 DEF OrderInv

\* A publisher with visits to make holds an event of its own.
LEMMA InHand ==
  ASSUME TypeInv, VisitInv, OrderInv, NEW p \in Publishers, visiting[p] # {}
  PROVE  /\ event[p] # << >> /\ event[p][1] \in Events
         /\ event[p][1].by = p /\ event[p][1].n <= published
<1>1. event[p] # << >>
  BY Zenon DEF VisitInv
<1>2. event[p] \in Seq(Events)
  BY Zenon DEF TypeInv
<1>3. event[p][1] \in Events
  BY <1>1, <1>2
<1> QED
  BY Zenon, <1>1, <1>3 DEF OrderInv

\* A visit adds to the channel the event that the publisher holds, and the
\* publisher does not come back to it.
LEMMA VisitOrder ==
  ASSUME TypeInv, VisitInv, OrderInv, NEW p \in Publishers, NEW s \in Streams,
         Visit(p, s)
  PROVE  OrderInv'
<1> DEFINE e == event[p][1]
<1>1. event[p] # << >> /\ e \in Events /\ e.by = p /\ e.n <= published
  BY InHand DEF Visit
<1> HIDE DEF e
<1>2. /\ visiting' = [visiting EXCEPT ![p] = @ \ {s}]
      /\ UNCHANGED <<published, event, hand, got>>
      /\ ch' = ch \/ ch' = [ch EXCEPT ![s] = Append(@, e)]
  BY DEF Visit, e
<1>3. \A t \in Streams : ch[t] \in Seq(Events) /\ DOMAIN ch = Streams
  BY DEF TypeInv
<1>4. \A t \in Streams : Numbered(ch[t])' /\ Numbered(hand[t])' /\ Numbered(got[t])'
  <2>1. Numbered(Append(ch[s], e))
    BY <1>1, <1>3, OrderParts DEF OrderInv
  <2> QED
    BY <1>2, <1>3, <2>1 DEF OrderInv, Numbered
<1>5. ASSUME NEW q \in Publishers, NEW t \in visiting'[q]
      PROVE  /\ OlderThan(ch[t], q, event[q][1].n)' /\ OlderThan(hand[t], q, event[q][1].n)'
             /\ OlderThan(got[t], q, event[q][1].n)'
  <2>1. t \in visiting[q] /\ t \in Streams /\ (q = p => t # s)
    BY <1>2, <1>5 DEF TypeInv
  <2>2. /\ OlderThan(ch[t], q, event[q][1].n) /\ OlderThan(hand[t], q, event[q][1].n)
        /\ OlderThan(got[t], q, event[q][1].n)
    BY <2>1 DEF OrderInv
  <2>3. CASE ch'[t] = ch[t]
    BY <1>2, <2>2, <2>3 DEF OlderThan
  <2>4. CASE ch'[t] = Append(ch[t], e) /\ q # p
    <3>1. OlderThan(Append(ch[t], e), q, event[q][1].n)
      BY <1>1, <1>3, <2>1, <2>2, <2>4, OrderParts
    <3> QED
      BY <1>2, <2>2, <2>4, <3>1 DEF OlderThan
  <2> QED
    BY <1>2, <1>3, <2>1, <2>3, <2>4
<1>6. \A q \in Publishers : event'[q] # << >> =>
        event'[q][1].by = q /\ event'[q][1].n <= published'
  BY <1>2 DEF OrderInv
<1> QED
  BY <1>4, <1>5, <1>6 DEF OrderInv

\* Moving the head of the channel to the handler, and what it holds to the
\* client, disturbs no order.
LEMMA StreamOrder ==
  ASSUME TypeInv, OrderInv, NEW s \in Streams, Handling(s) \/ Disconnect(s)
  PROVE  OrderInv'
<1>1. UNCHANGED <<published, visiting, event>>
  BY DEF Handling, Subscribe, Receive, Send, SendFails, EndStream, Unsubscribe,
         Disconnect, pubs
<1>2. /\ DOMAIN ch = Streams /\ DOMAIN hand = Streams /\ DOMAIN got = Streams
      /\ \A t \in Streams : ch[t] \in Seq(Events) /\ got[t] \in Seq(Events)
      /\ hand[s] \in Seq(Events)
  BY HandSeq DEF TypeInv
<1>3. SUFFICES
        /\ Numbered(ch'[s]) /\ Numbered(hand'[s]) /\ Numbered(got'[s])
        /\ \A q \in Publishers : s \in visiting[q] =>
             /\ OlderThan(ch'[s], q, event[q][1].n)
             /\ OlderThan(hand'[s], q, event[q][1].n)
             /\ OlderThan(got'[s], q, event[q][1].n)
  <2>1. \A t \in Streams : t # s => ch'[t] = ch[t] /\ hand'[t] = hand[t] /\ got'[t] = got[t]
    BY <1>2 DEF Handling, Subscribe, Receive, Send, SendFails, EndStream, Unsubscribe,
                Disconnect, bus
  <2>2. \A q \in Publishers : visiting[q] \subseteq Streams
    BY DEF TypeInv
  <2>3. ASSUME NEW t \in Streams
        PROVE  Numbered(ch[t])' /\ Numbered(hand[t])' /\ Numbered(got[t])'
    <3>1. CASE t = s
      BY <1>1, <1>3, <3>1 DEF Numbered
    <3>2. CASE t # s
      BY <1>1, <2>1, <3>2 DEF OrderInv, Numbered
    <3> QED
      BY <3>1, <3>2
  <2>4. ASSUME NEW q \in Publishers, NEW t \in visiting'[q]
        PROVE  /\ OlderThan(ch[t], q, event[q][1].n)' /\ OlderThan(hand[t], q, event[q][1].n)'
               /\ OlderThan(got[t], q, event[q][1].n)'
    <3>1. t \in visiting[q] /\ t \in Streams
      BY <1>1, <2>2, <2>4
    <3>2. CASE t = s
      BY <1>1, <1>3, <3>1, <3>2 DEF OlderThan
    <3>3. CASE t # s
      BY <1>1, <2>1, <3>1, <3>3 DEF OrderInv, OlderThan
    <3> QED
      BY <3>2, <3>3
  <2> QED
    BY <1>1, <2>3, <2>4 DEF OrderInv
<1>4. /\ Numbered(ch[s]) /\ Numbered(hand[s]) /\ Numbered(got[s])
      /\ \A q \in Publishers : s \in visiting[q] =>
           /\ OlderThan(ch[s], q, event[q][1].n)
           /\ OlderThan(hand[s], q, event[q][1].n)
           /\ OlderThan(got[s], q, event[q][1].n)
  BY DEF OrderInv
<1>5. CASE Receive(s)
  <2> DEFINE h == Head(ch[s])
  <2>1. /\ ch[s] # << >> /\ h \in Events
        /\ ch'[s] = Tail(ch[s]) /\ hand'[s] = <<h>> /\ got'[s] = got[s]
    BY <1>2, <1>5 DEF Receive
  <2>2. Numbered(Tail(ch[s])) /\ h.n <= published
    BY <1>2, <1>4, <2>1, OrderParts
  <2>3. \A q \in Publishers : s \in visiting[q] =>
          OlderThan(Tail(ch[s]), q, event[q][1].n) /\ (h.by = q => h.n < event[q][1].n)
    BY <1>2, <1>4, <2>1, OrderParts
  <2> HIDE DEF h
  <2>4. Numbered(<<h>>) /\ \A q, n : (h.by = q => h.n < n) => OlderThan(<<h>>, q, n)
    BY <2>2 DEF Numbered, OlderThan
  <2> QED
    BY <1>4, <2>1, <2>2, <2>3, <2>4
<1>6. CASE Send(s)
  <2> DEFINE h == hand[s][1]
  <2>1. /\ h \in Events /\ hand[s] = <<h>>
        /\ ch'[s] = ch[s] /\ hand'[s] = << >> /\ got'[s] = Append(got[s], h)
    BY <1>2, <1>6 DEF Send, TypeInv, bus
  <2> HIDE DEF h
  <2>2. h.n <= published /\ \A q, n : OlderThan(hand[s], q, n) => (h.by = q => h.n < n)
    <3>1. 1 \in 1..Len(hand[s]) /\ hand[s][1] = h
      BY <2>1
    <3> QED
      BY <1>4, <3>1 DEF Numbered, OlderThan
  <2>3. Numbered(Append(got[s], h))
    BY <1>2, <1>4, <2>1, <2>2, OrderParts
  <2>4. \A q \in Publishers : s \in visiting[q] =>
          OlderThan(Append(got[s], h), q, event[q][1].n)
    BY <1>2, <1>4, <2>1, <2>2, OrderParts
  <2>5. Numbered(<< >>) /\ \A q, n : OlderThan(<< >>, q, n)
    BY DEF Numbered, OlderThan
  <2> QED
    BY <1>4, <2>1, <2>3, <2>4, <2>5
<1>7. CASE SendFails(s)
  <2>1. ch'[s] = ch[s] /\ hand'[s] = << >> /\ got'[s] = got[s]
    BY <1>2, <1>7 DEF SendFails, bus
  <2>2. Numbered(<< >>) /\ \A q, n : OlderThan(<< >>, q, n)
    BY DEF Numbered, OlderThan
  <2> QED
    BY <1>4, <2>1, <2>2
<1>8. CASE Subscribe(s) \/ EndStream(s) \/ Unsubscribe(s) \/ Disconnect(s)
  <2>1. ch'[s] = ch[s] /\ hand'[s] = hand[s] /\ got'[s] = got[s]
    BY <1>8 DEF Subscribe, EndStream, Unsubscribe, Disconnect, bus
  <2> QED
    BY <1>4, <2>1
<1> QED
  BY <1>5, <1>6, <1>7, <1>8 DEF Handling

\* Events are in order from the start and in every step.
LEMMA OrderInvInit == Init => OrderInv
BY DEF Init, OrderInv, Numbered, OlderThan

LEMMA OrderInvStep ==
  TypeInv /\ VisitInv /\ OrderInv /\ [Next]_vars => OrderInv'
<1> SUFFICES ASSUME TypeInv, VisitInv, OrderInv, [Next]_vars PROVE OrderInv'
  OBVIOUS
<1>1. CASE GracefulStop \/ Stopped \/ UNCHANGED vars
  BY <1>1 DEF GracefulStop, Stopped, vars, OrderInv, Numbered, OlderThan, bus, pubs
<1>2. ASSUME NEW p \in Publishers, Finish(p) PROVE OrderInv'
  <2>1. /\ UNCHANGED <<ch, hand, got, published, visiting>> /\ visiting[p] = {}
        /\ event' = [event EXCEPT ![p] = << >>]
    BY <1>2 DEF Finish, bus
  <2>2. \A q \in Publishers : q # p => event'[q] = event[q]
    BY <2>1 DEF TypeInv
  <2>3. event'[p] = << >>
    BY <2>1 DEF TypeInv
  <2> QED
    BY <2>1, <2>2, <2>3 DEF OrderInv, Numbered, OlderThan
<1> QED
  BY <1>1, <1>2, PublishOrder, VisitOrder, StreamOrder DEF Next, Publishing

-----------------------------------------------------------------------------

\* Facts about concatenation: the parts of g \o c, and the event that crosses
\* from c to g.
LEMMA ConcatParts ==
  ASSUME NEW S, NEW g \in Seq(S), NEW c \in Seq(S)
  PROVE  /\ g \o c \in Seq(S) /\ Len(g \o c) = Len(g) + Len(c)
         /\ \A i \in 1..Len(g \o c) :
              IF i <= Len(g) THEN i \in 1..Len(g) /\ (g \o c)[i] = g[i]
              ELSE i - Len(g) \in 1..Len(c) /\ (g \o c)[i] = c[i - Len(g)]
         /\ SubSeq(g \o c, 1, Len(g)) = g
         /\ c # << >> => Append(g, Head(c)) \o Tail(c) = g \o c
<1>1. /\ g \o c \in Seq(S) /\ Len(g \o c) = Len(g) + Len(c)
      /\ \A i \in 1..Len(g \o c) :
           IF i <= Len(g) THEN i \in 1..Len(g) /\ (g \o c)[i] = g[i]
           ELSE i - Len(g) \in 1..Len(c) /\ (g \o c)[i] = c[i - Len(g)]
  OBVIOUS
<1>2. SubSeq(g \o c, 1, Len(g)) = g
  OBVIOUS
<1>3. c # << >> => Append(g, Head(c)) \o Tail(c) = g \o c
  OBVIOUS
<1> QED
  BY <1>1, <1>2, <1>3

\* What waits is what the handler holds and then what the channel holds.
LEMMA WaitingParts ==
  ASSUME TypeInv, NEW s \in Streams
  PROVE  /\ Waiting(s) \in Seq(Events) /\ got[s] \in Seq(Events)
         /\ hand[s] \in Seq(Events) /\ ch[s] \in Seq(Events)
         /\ Len(Waiting(s)) = Len(hand[s]) + Len(ch[s]) /\ Len(hand[s]) <= 1
         /\ \A i \in 1..Len(Waiting(s)) :
              \/ \E j \in 1..Len(hand[s]) : Waiting(s)[i] = hand[s][j]
              \/ \E j \in 1..Len(ch[s]) : Waiting(s)[i] = ch[s][j]
<1>1. hand[s] \in Seq(Events) /\ ch[s] \in Seq(Events) /\ got[s] \in Seq(Events)
  BY HandSeq DEF TypeInv
<1> QED
  BY <1>1, HandSeq, ConcatParts DEF Waiting

\* An event that enters the channel of a connected stream is taken in.
LEMMA VisitTakes ==
  ASSUME TypeInv, VisitInv, OrderInv, NEW p \in Publishers, NEW t \in Streams,
         Visit(p, t), NEW s \in Streams
  PROVE  Queue(s)!DNext \/ UNCHANGED Queue(s)!dvars
<1> DEFINE e == event[p][1]
<1>1. UNCHANGED <<hand, got, connected>>
  BY DEF Visit
<1>2. /\ got[s] \in Seq(Events) /\ hand[s] \in Seq(Events) /\ ch[s] \in Seq(Events)
      /\ Waiting(s) \in Seq(Events)
  BY WaitingParts
<1>3. CASE ch'[s] = ch[s]
  BY <1>1, <1>3 DEF Queue!dvars, Sequence, Waiting
<1>4. CASE ch'[s] # ch[s]
  <2>1. /\ t = s /\ matches(s, e) /\ Len(ch[s]) < Cap /\ s \in visiting[p]
        /\ ch'[s] = Append(ch[s], e)
    BY <1>4 DEF Visit, TypeInv
  <2>2. e \in Events /\ e.by = p
    BY Zenon, <2>1, InHand
  <2>3. e \in Wanted(s)
    BY <2>1, <2>2 DEF matches, Wanted
  <2>4. CASE s \notin connected
    BY <1>1, <2>4 DEF Queue!dvars
  <2>5. CASE s \in connected
    <3> HIDE DEF e
    <3>1. /\ OlderThan(got[s], p, e.n) /\ OlderThan(hand[s], p, e.n)
          /\ OlderThan(ch[s], p, e.n)
      BY <2>1 DEF OrderInv, e
    <3>2. Len(got[s] \o Waiting(s)) - Len(got[s]) < Cap + 1
      <4>1. Len(Waiting(s)) = Len(hand[s]) + Len(ch[s]) /\ Len(hand[s]) <= 1
        BY WaitingParts
      <4>2. Len(hand[s]) \in Nat /\ Len(ch[s]) \in Nat /\ Cap \in Nat
        BY <1>2, EventBusAssumption
      <4>3. Len(ch[s]) < Cap
        BY <2>1
      <4>4. Len(got[s] \o Waiting(s)) = Len(got[s]) + Len(Waiting(s))
        BY <1>2, ConcatParts
      <4>5. Len(got[s]) \in Nat
        BY <1>2
      <4>6. \A g, h, c \in Nat : h <= 1 /\ c < Cap => (g + (h + c)) - g < Cap + 1
        BY <4>2
      <4> QED
        BY Zenon, <4>1, <4>2, <4>3, <4>4, <4>5, <4>6
    <3>3. \A i \in 1..Len(got[s] \o Waiting(s)) :
            (got[s] \o Waiting(s))[i].by = e.by => (got[s] \o Waiting(s))[i].n < e.n
      <4>1. OlderThan(Waiting(s), p, e.n)
        <5>1. \A i \in 1..Len(Waiting(s)) :
                \/ \E j \in 1..Len(hand[s]) : Waiting(s)[i] = hand[s][j]
                \/ \E j \in 1..Len(ch[s]) : Waiting(s)[i] = ch[s][j]
          BY WaitingParts
        <5> QED
          BY <3>1, <5>1 DEF OlderThan
      <4>2. \A i \in 1..Len(got[s] \o Waiting(s)) :
              \/ \E j \in 1..Len(got[s]) : (got[s] \o Waiting(s))[i] = got[s][j]
              \/ \E j \in 1..Len(Waiting(s)) : (got[s] \o Waiting(s))[i] = Waiting(s)[j]
        BY <1>2, ConcatParts
      <4> QED
        BY <2>2, <3>1, <4>1, <4>2 DEF OlderThan
    <3>4. Sequence(s)' = Append(Sequence(s), e)
      <4> DEFINE g == got[s]
                 h == hand[s]
                 c == ch[s]
      <4>1. g \in Seq(Events) /\ h \in Seq(Events) /\ c \in Seq(Events) /\ e \in Events
        BY <1>2, <2>2
      <4> HIDE DEF g, h, c
      <4>2. h \o Append(c, e) = Append(h \o c, e) /\ h \o c \in Seq(Events)
        BY <4>1
      <4>3. g \o Append(h \o c, e) = Append(g \o (h \o c), e)
        BY <4>1, <4>2
      <4> QED
        BY <1>1, <2>1, <4>2, <4>3 DEF g, h, c, Sequence, Waiting
    <3>5. Queue(s)!Take(e)
      BY <1>1, <2>1, <2>5, <3>2, <3>3, <3>4 DEF Queue!Take, Sequence
    <3> QED
      BY <2>3, <3>5 DEF Queue!DNext
  <2> QED
    BY <2>4, <2>5
<1> QED
  BY <1>3, <1>4

\* What the handler sends is delivered in turn, and a client that goes
\* leaves; nothing else a handler does is seen.
LEMMA StreamDelivers ==
  ASSUME TypeInv, NEW t \in Streams, Handling(t) \/ Disconnect(t), NEW s \in Streams
  PROVE  Queue(s)!DNext \/ UNCHANGED Queue(s)!dvars
<1>1. /\ got[s] \in Seq(Events) /\ ch[s] \in Seq(Events) /\ Waiting(s) \in Seq(Events)
      /\ DOMAIN got = Streams /\ DOMAIN hand = Streams /\ DOMAIN ch = Streams
  BY WaitingParts DEF TypeInv
<1>2. CASE Subscribe(t) \/ EndStream(t) \/ Unsubscribe(t)
  BY <1>2 DEF Subscribe, EndStream, Unsubscribe, Queue!dvars, Sequence, Waiting, bus
<1>3. CASE Receive(t)
  <2>1. UNCHANGED <<got, connected>>
    BY <1>3 DEF Receive
  <2>2. Waiting(s)' = Waiting(s)
    <3>1. CASE s # t
      BY <1>1, <1>3, <3>1 DEF Receive, Waiting
    <3>2. CASE s = t
      <4>1. /\ hand[s] = << >> /\ ch[s] # << >>
            /\ hand'[s] = <<Head(ch[s])>> /\ ch'[s] = Tail(ch[s])
        BY <1>1, <1>3, <3>2 DEF Receive, TypeInv
      <4>2. ASSUME NEW c \in Seq(Events), c # << >>
            PROVE  << >> \o c = c /\ <<Head(c)>> \o Tail(c) = c
        BY <4>2
      <4> QED
        BY <1>1, <4>1, <4>2 DEF Waiting
    <3> QED
      BY <3>1, <3>2
  <2> QED
    BY <2>1, <2>2 DEF Queue!dvars, Sequence
<1>4. CASE Send(t)
  <2>1. CASE s # t
    BY <1>1, <1>4, <2>1 DEF Send, Queue!dvars, Sequence, Waiting, bus
  <2>2. CASE s = t
    <3> DEFINE h == hand[s][1]
    <3>1. /\ s \in connected /\ connected' = connected /\ hand[s] = <<h>> /\ h \in Events
          /\ ch'[s] = ch[s] /\ hand'[s] = << >> /\ got'[s] = Append(got[s], h)
      BY <1>1, <1>4, <2>2 DEF Send, TypeInv, bus
    <3> HIDE DEF h
    <3>2. Waiting(s) = <<h>> \o ch[s] /\ Waiting(s)' = ch[s]
      BY <1>1, <3>1 DEF Waiting
    <3>3. Waiting(s) # << >> /\ Head(Waiting(s)) = h /\ Tail(Waiting(s)) = ch[s]
      <4>1. ASSUME NEW c \in Seq(Events)
            PROVE  <<h>> \o c # << >> /\ Head(<<h>> \o c) = h /\ Tail(<<h>> \o c) = c
        BY <3>1, <4>1
      <4> QED
        BY <1>1, <3>2, <4>1
    <3>4. Sequence(s)' = Sequence(s)
      <4>1. Append(got[s], Head(Waiting(s))) \o Tail(Waiting(s)) = got[s] \o Waiting(s)
        BY <1>1, <3>3, ConcatParts
      <4> QED
        BY <3>1, <3>2, <3>3, <4>1 DEF Sequence
    <3>5. /\ Len(got'[s]) = Len(got[s]) + 1
          /\ Len(got[s]) < Len(got[s] \o Waiting(s))
      BY <1>1, <3>1, <3>3, ConcatParts
    <3>6. Queue(s)!Deliver
      BY <3>1, <3>4, <3>5 DEF Queue!Deliver, Sequence
    <3> QED
      BY <3>6 DEF Queue!DNext
  <2> QED
    BY <2>1, <2>2
<1>5. CASE SendFails(t)
  BY <1>1, <1>5 DEF SendFails, Queue!dvars, Sequence, Waiting, bus
<1>6. CASE Disconnect(t)
  <2>1. UNCHANGED <<got, hand, ch>> /\ connected' = connected \ {t} /\ t \in connected
    BY <1>6 DEF Disconnect, bus
  <2>2. CASE s # t
    BY <2>1, <2>2 DEF Queue!dvars, Sequence, Waiting
  <2>3. CASE s = t
    <3>1. SubSeq(got[s] \o Waiting(s), 1, Len(got[s])) = got[s]
      BY <1>1, ConcatParts
    <3>2. s \in connected /\ ~(s \in connected') /\ got'[s] = got[s]
      BY <2>1, <2>3
    <3>3. (s \in connected') = FALSE
      BY <3>2, SMT
    <3>4. Queue(s)!Leave
      BY <3>1, <3>2, <3>3, Zenon DEF Queue!Leave, Sequence
    <3> QED
      BY <3>4 DEF Queue!DNext
  <2> QED
    BY <2>2, <2>3
<1> QED
  BY <1>2, <1>3, <1>4, <1>5, <1>6 DEF Handling

\* Every step of the bus is, for every stream, a step of its queue or none.
LEMMA QueueStep ==
  ASSUME TypeInv, VisitInv, OrderInv, [Next]_vars, NEW s \in Streams
  PROVE  Queue(s)!DNext \/ UNCHANGED Queue(s)!dvars
<1>1. CASE GracefulStop \/ Stopped \/ UNCHANGED vars
  BY <1>1 DEF GracefulStop, Stopped, vars, bus, Queue!dvars, Sequence, Waiting
<1>2. ASSUME NEW p \in Publishers,
             Finish(p) \/ \E o \in Owners, t \in Types : Publish(p, o, t)
      PROVE  UNCHANGED Queue(s)!dvars
  BY <1>2 DEF Finish, Publish, bus, Queue!dvars, Sequence, Waiting
<1> QED
  BY <1>1, <1>2, VisitTakes, StreamDelivers DEF Next, Publishing

\* To its client every stream is the queue of module Delivery, whatever the
\* publishers, the handlers and the other clients do.
THEOREM BusDelivers == Spec => StreamsDeliver
<1>1. Init => \A s \in Streams : Queue(s)!DInit
  BY DEF Init, Queue!DInit, Sequence, Waiting
<1>2. TypeInv /\ VisitInv /\ OrderInv /\ [Next]_vars =>
        [\A s \in Streams : Queue(s)!DNext \/ UNCHANGED Queue(s)!dvars]_vars
  BY QueueStep
<1> QED
  BY TypeInvInit, TypeInvStep, OrderInvInit, OrderInvStep, <1>1, <1>2, PTL
     DEF Spec, StreamsDeliver
=============================================================================
