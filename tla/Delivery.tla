------------------------------ MODULE Delivery ------------------------------
(***************************************************************************)
(* What the event bus promises to one subscriber: a queue in the order of  *)
(* publication.  Events may be left out of it, but once taken in they are  *)
(* delivered first in, first out; at most Room of them wait; and when the  *)
(* subscriber leaves, those that wait are discarded.                       *)
(***************************************************************************)
EXTENDS Integers, Sequences

CONSTANTS
  Offered,   \* the events that the subscriber asks for
  Room       \* how many may wait

VARIABLES
  taken,      \* the events taken in, oldest first
  delivered,  \* how many of them have reached the subscriber
  open        \* the subscriber is there

dvars == <<taken, delivered, open>>

DInit == taken = << >> /\ delivered = 0 /\ open = TRUE

\* an event is newer than those taken in before from the same publisher
Take(e) ==
  /\ open
  /\ Len(taken) - delivered < Room
  /\ \A i \in 1..Len(taken) : taken[i].by = e.by => taken[i].n < e.n
  /\ taken' = Append(taken, e)
  /\ UNCHANGED <<delivered, open>>

Deliver ==
  /\ open
  /\ delivered < Len(taken)
  /\ delivered' = delivered + 1
  /\ UNCHANGED <<taken, open>>

Leave ==
  /\ open
  /\ open' = FALSE
  /\ taken' = SubSeq(taken, 1, delivered)
  /\ UNCHANGED delivered

DNext == Deliver \/ Leave \/ \E e \in Offered : Take(e)

DSpec == DInit /\ [][DNext]_dvars
=============================================================================
