---------------------------- MODULE RouteControl ----------------------------
(***************************************************************************)
(* The handlers of the RouteControl service (internal/server) as they run  *)
(* side by side: each RPC has a goroutine of its own, and the store, the   *)
(* sessions, the gauges, the event bus and the trigger channel are locked  *)
(* one access at a time, never across two.                                 *)
(*                                                                         *)
(* A call is the sequence of accesses its handler has still to make.  Only *)
(* requests with valid fields and the owner's token are modelled, and a    *)
(* prefix that the owner's policy rejects is not tried: all others return  *)
(* before they touch any of this state.                                    *)
(*                                                                         *)
(* raced and cleared are history: whether two calls ever overlapped, and   *)
(* the owners that used withdraw_all.                                      *)
(***************************************************************************)
EXTENDS Policy, FiniteSets, Sequences

CONSTANTS
  Owners,       \* the owners of the configuration
  Admin,        \* the owner name "admin"
  PrefixSet,    \* the prefixes that clients name, each with its protocol
  OtherKeys,    \* keys of peers, BFD sessions and OSPF interfaces
  Kind,         \* the kind of the latter: "peer", "bfd" or "ospf_iface"
  PolicyOf,     \* the policy of each owner
  Calls,        \* handler goroutines
  PerOwner,     \* how many calls one client has in flight
  WithdrawAlls, \* the values of withdraw_all that clients send
  MaxCalls      \* bound on the RPCs

Keys == PrefixSet \cup OtherKeys

\* the gauge that counts a key
Label(k) == IF k \in PrefixSet THEN k.protocol ELSE Kind[k]
Labels == {Label(k) : k \in Keys}

ASSUME RouteControlAssumption ==
  /\ \A k \in PrefixSet : k.protocol \in {"bgp", "ospf"} /\ k.prefix \in CIDR
  /\ PrefixSet \cap OtherKeys = {}
  /\ \A k \in OtherKeys : Kind[k] \in {"peer", "bfd", "ospf_iface"}
  /\ \A o \in Owners : PolicyOf[o] \in OwnerPolicy
  /\ WithdrawAlls \subseteq BOOLEAN
  /\ {PerOwner, MaxCalls} \subseteq Nat

VARIABLES
  store,     \* the keys each owner has an intent for
  entry,     \* owners with an OwnerIntents entry, maybe an empty one
  sessions,  \* owners with a session
  active,    \* the gauges of active intents, by owner and label
  owners,    \* the gauge novaroute_registered_owners
  view,      \* what a subscriber makes of the events so far
  signal,    \* the trigger channel holds a signal
  seen,      \* the store as the reconciler last read it
  call,      \* what each goroutine is doing
  served,    \* RPCs so far
  raced, cleared

vars == <<store, entry, sessions, active, owners, view, signal, seen, call, served,
          raced, cleared>>
history == <<raced, cleared>>
metrics == <<active, owners>>

NoCounts == [l \in {} |-> 0]

NoCall == [op |-> "none", owner |-> Admin, key |-> Admin, todo |-> << >>,
           n |-> 0, counts |-> NoCounts]

Init ==
  /\ store = [o \in Owners |-> {}]
  /\ entry = {}
  /\ sessions = {}
  /\ active = [o \in Owners |-> [l \in Labels |-> 0]]
  /\ owners = 0
  /\ view = [o \in Owners |-> {}]
  /\ signal = FALSE
  /\ seen = store
  /\ call = [c \in Calls |-> NoCall]
  /\ served = 0
  /\ raced = FALSE
  /\ cleared = {}

(***************************************************************************)
(* The accesses each handler makes, in order.                              *)
(***************************************************************************)
\* Mutants of AdvertisePrefix: the look-up is left out; the event goes out
\* before it; the signal is sent before the intent is stored.
AdvertiseUnchecked == <<"store", "count", "gauge", "publish", "trigger">>
AdvertiseEventFirst ==
  <<"publish", "lookup", "store", "count", "gauge", "trigger">>
AdvertiseTriggerFirst ==
  <<"lookup", "trigger", "store", "count", "gauge", "publish">>

AdvertisePrefix ==
  <<"lookup", "store", "count", "gauge", "publish", "trigger">>

WithdrawPrefix == <<"erase", "count", "gauge", "publish", "trigger">>

\* Mutant of ApplyPeer: it publishes, like AdvertisePrefix.
ApplyPublishes == <<"store", "count", "gauge", "publish", "trigger">>

\* ApplyPeer; EnableBFD and EnableOSPF are the same
ApplyPeer == <<"store", "count", "gauge", "trigger">>

\* Mutant of handleRemoveIntent: the gauge is not refreshed.
RemoveUncounted == <<"erase", "trigger">>

\* RemovePeer and DisableBFD; DisableOSPF is the same
handleRemoveIntent == <<"erase", "count", "gauge", "trigger">>

\* with reassert_intents the handler triggers if the owner has intents
Register(reassert) ==
  IF reassert THEN <<"session", "sessions", "reassert", "publish", "trigger">>
  ELSE <<"session", "sessions", "publish">>

\* Mutant of Deregister: the count of sessions is not refreshed.
DeregisterUncounted(all) ==
  IF all THEN <<"clear", "trigger", "leave", "publish">>
  ELSE <<"leave", "publish">>

Deregister(all) ==
  IF all THEN <<"clear", "trigger", "leave", "sessions", "publish">>
  ELSE <<"leave", "sessions", "publish">>

InFlight(o) == {c \in Calls : call[c].op # "none" /\ call[c].owner = o}

Start(c, op, o, k, todo) ==
  /\ call[c] = NoCall
  /\ Cardinality(InFlight(o)) < PerOwner
  /\ served < MaxCalls
  /\ served' = served + 1
  /\ call' = [call EXCEPT ![c] = [op |-> op, owner |-> o, key |-> k,
                                  todo |-> todo, n |-> 0,
                                  counts |-> NoCounts]]
  /\ raced' = (raced \/ \E d \in Calls : call[d] # NoCall)
  /\ cleared' = IF op = "withdrawAll" THEN cleared \cup {o} ELSE cleared
  /\ UNCHANGED <<store, entry, sessions, metrics, view, signal, seen>>

StartCall(c) ==
  \E o \in Owners :
    \/ \E k \in PrefixSet :
         \/ ValidatePrefix(PolicyOf[o], k.prefix) /\ Start(c, "set", o, k, AdvertisePrefix)
         \/ Start(c, "remove", o, k, WithdrawPrefix)
    \/ \E k \in OtherKeys : \/ Start(c, "set", o, k, ApplyPeer)
                            \/ Start(c, "remove", o, k, handleRemoveIntent)
    \/ \E r \in BOOLEAN : Start(c, "register", o, o, Register(r))
    \/ \E all \in WithdrawAlls :
         Start(c, IF all THEN "withdrawAll" ELSE "deregister", o, o,
               Deregister(all))

(***************************************************************************)
(* The accesses.                                                           *)
(***************************************************************************)
\* the call goes on with the rest of its accesses, or answers
Goto(c, todo) ==
  call' = [call EXCEPT ![c] = IF todo = << >> THEN NoCall
                              ELSE [@ EXCEPT !.todo = todo]]

Answer(c) == Goto(c, << >>)

At(c, step) == call[c].todo # << >> /\ Head(call[c].todo) = step

Proceed(c) == Goto(c, Tail(call[c].todo))

Holders(k) == {o \in Owners : k \in store[o]}

\* some owner of the prefix, in the random order of a Go map; the caller's
\* own name stands for "" when there is none
findPrefixOwner(o, k) == IF Holders(k) = {} THEN {o} ELSE Holders(k)

CheckConflict(o, existing) == existing = o \/ o = Admin

Lookup(c) ==
  /\ At(c, "lookup")
  /\ \E e \in findPrefixOwner(call[c].owner, call[c].key) :
       IF CheckConflict(call[c].owner, e) THEN Proceed(c)
       ELSE Answer(c)       \* AlreadyExists
  /\ UNCHANGED <<store, entry, sessions, metrics, view, signal, seen, served, history>>

SetIntent(c) ==
  /\ At(c, "store")
  /\ store' = [store EXCEPT ![call[c].owner] = @ \cup {call[c].key}]
  /\ entry' = entry \cup {call[c].owner}
  /\ Proceed(c)
  /\ UNCHANGED <<sessions, metrics, view, signal, seen, served, history>>

RemoveIntent(c) ==
  /\ At(c, "erase")
  /\ IF call[c].key \in store[call[c].owner]
     THEN /\ store' = [store EXCEPT ![call[c].owner] = @ \ {call[c].key}]
          /\ Proceed(c)
     ELSE /\ Answer(c)      \* NotFound
          /\ UNCHANGED store
  /\ UNCHANGED <<entry, sessions, metrics, view, signal, seen, served, history>>

RemoveAllByOwner(c) ==
  /\ At(c, "clear")
  /\ store' = [store EXCEPT ![call[c].owner] = {}]
  /\ entry' = entry \ {call[c].owner}
  /\ Proceed(c)
  /\ UNCHANGED <<sessions, metrics, view, signal, seen, served, history>>

Count(o, l) == Cardinality({k \in store[o] : Label(k) = l})

PrefixLabels == {Label(k) : k \in PrefixSet}

\* what the gauges are set to after a change of key k: a prefix refreshes the
\* gauges of both protocols, but neither of them when the owner has no entry
\* (the label "all" is set instead)
Refreshed(o, k) ==
  CASE k \notin PrefixSet -> [l \in {Label(k)} |-> Count(o, l)]
    [] k \in PrefixSet /\ o \in entry -> [l \in PrefixLabels |-> Count(o, l)]
    [] OTHER -> NoCounts

\* the updateOwner...Gauge helpers read the owner's intents in one step and
\* set the gauges in the next
CountIntents(c) ==
  /\ At(c, "count")
  /\ call' = [call EXCEPT ![c].todo = Tail(@),
                          ![c].counts = Refreshed(call[c].owner, call[c].key)]
  /\ UNCHANGED <<store, entry, sessions, metrics, view, signal, seen, served, history>>

SetGauge(c) ==
  /\ At(c, "gauge")
  /\ active' = [active EXCEPT ![call[c].owner] =
                  [l \in Labels |-> IF l \in DOMAIN call[c].counts
                                    THEN call[c].counts[l] ELSE @[l]]]
  /\ Proceed(c)
  /\ UNCHANGED <<store, entry, sessions, owners, view, signal, seen, served, history>>

\* a session is entered or deleted, and counted, under sessionsMu
ChangeSession(c) ==
  /\ At(c, "session") \/ At(c, "leave")
  /\ sessions' = IF At(c, "session") THEN sessions \cup {call[c].owner}
                 ELSE sessions \ {call[c].owner}
  /\ call' = [call EXCEPT ![c].todo = Tail(@), ![c].n = Cardinality(sessions')]
  /\ UNCHANGED <<store, entry, metrics, view, signal, seen, served, history>>

SetRegisteredOwners(c) ==
  /\ At(c, "sessions")
  /\ owners' = call[c].n
  /\ Proceed(c)
  /\ UNCHANGED <<store, entry, sessions, active, view, signal, seen, served, history>>

\* prefixes and peers count, BFD sessions and OSPF interfaces do not
Reassert(c) ==
  /\ At(c, "reassert")
  /\ IF \E k \in store[call[c].owner] : k \in PrefixSet \/ Label(k) = "peer"
     THEN Proceed(c) ELSE Goto(c, <<"publish">>)
  /\ UNCHANGED <<store, entry, sessions, metrics, view, signal, seen, served, history>>

\* prefix events, and an owner that deregisters with withdraw_all
Publish(c) ==
  /\ At(c, "publish")
  /\ LET o == call[c].owner
     IN  view' = [view EXCEPT ![o] =
                    CASE call[c].op = "set" -> @ \cup {call[c].key}
                      [] call[c].op = "remove" -> @ \ {call[c].key}
                      [] call[c].op = "withdrawAll" -> {}
                      [] OTHER -> @]
  /\ Proceed(c)
  /\ UNCHANGED <<store, entry, sessions, metrics, signal, seen, served, history>>

TriggerReconcile(c) ==
  /\ At(c, "trigger")
  /\ signal' = TRUE
  /\ Proceed(c)
  /\ UNCHANGED <<store, entry, sessions, metrics, view, seen, served, history>>

\* the reconciler takes the signal and reads the store
ReadIntents ==
  /\ signal
  /\ signal' = FALSE
  /\ seen' = store
  /\ UNCHANGED <<store, entry, sessions, metrics, view, call, served, history>>

Next ==
  \/ \E c \in Calls :
       \/ StartCall(c) \/ Lookup(c) \/ SetIntent(c) \/ RemoveIntent(c)
       \/ RemoveAllByOwner(c) \/ CountIntents(c) \/ SetGauge(c)
       \/ ChangeSession(c) \/ SetRegisteredOwners(c) \/ Reassert(c)
       \/ Publish(c) \/ TriggerReconcile(c)
  \/ ReadIntents

Spec == Init /\ [][Next]_vars

(***************************************************************************)
(* Properties.                                                             *)
(***************************************************************************)
\* Every variable has its type.
TypeOK ==
  /\ store \in [Owners -> SUBSET Keys] /\ seen \in [Owners -> SUBSET Keys]
  /\ view \in [Owners -> SUBSET PrefixSet]
  /\ entry \subseteq Owners /\ sessions \subseteq Owners
  /\ active \in [Owners -> [Labels -> 0..Cardinality(Keys)]]
  /\ owners \in 0..Cardinality(Owners)
  /\ signal \in BOOLEAN
  /\ served \in 0..MaxCalls

Quiet == \A c \in Calls : call[c] = NoCall

\* A prefix belongs to at most one owner, the administrator apart: a second
\* owner's AdvertisePrefix is refused by CheckConflict.
UniqueOwner ==
  \A k \in PrefixSet, o1, o2 \in Owners \ {Admin} :
    k \in store[o1] /\ k \in store[o2] => o1 = o2

\* As long as calls come one after the other, whatever was refused, withdrawn
\* or overridden by the administrator before, a prefix has one owner.
SerialUniqueOwner == ~raced => UniqueOwner

\* Every prefix in the store complies with its owner's policy: its addresses
\* are in a range the owner may use, although ValidatePrefix only looks at one
\* address and two lengths, and at the time of the call.  Of a prefix spelled
\* as an IPv4-mapped IPv6 one this holds for the address it is spelled with:
\* its mask counts from the first of 128 bits, those of an IPv4 range do not.
PolicyKept ==
  \A o \in Owners : \A k \in store[o] \cap PrefixSet :
    Complies(PolicyOf[o], k.prefix)

\* Between calls of an owner, someone who follows the events (advertised,
\* withdrawn, deregistered with withdraw_all) knows that owner's prefixes:
\* the handlers change the store first and publish only what they changed.
EventsTellStore ==
  \A o \in Owners :
    InFlight(o) = {} => view[o] = store[o] \cap PrefixSet

\* Between calls of an owner, its gauges count its intents, until it uses
\* withdraw_all, which leaves them as they are.
GaugesCount ==
  \A o \in Owners \ cleared, l \in Labels :
    InFlight(o) = {} => active[o][l] = Count(o, l)

\* With no call under way, the gauge of registered owners counts the sessions,
\* as long as calls come one after the other.
SessionsCounted == ~raced /\ Quiet => owners = Cardinality(sessions)

\* A change of the store is never left unseen: with no call under way and no
\* signal waiting, the reconciler has read the store as it is.
ChangesSeen == Quiet /\ ~signal => seen = store
=============================================================================
