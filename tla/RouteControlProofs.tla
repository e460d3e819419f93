------------------------- MODULE RouteControlProofs -------------------------
(***************************************************************************)
(* For any owners, policies, prefixes and number of concurrent calls: the  *)
(* store complies with the policies, a prefix has one owner as long as     *)
(* calls do not overlap, and no change of the store is left unseen.        *)
(*                                                                         *)
(* All three rest on what a handler has still to do (TodoOK): an intent is *)
(* stored only by a call that has been through ValidatePrefix, a prefix    *)
(* only right after the look-up, and whoever changes the store will still  *)
(* trigger and can no longer turn back.                                    *)
(***************************************************************************)
EXTENDS RouteControl, TLAPS

-----------------------------------------------------------------------------
(* The policy.                                                             *)

\* The form of a prefix that its addresses are taken from is an IPv6 prefix,
\* and its mask is that of the spelling, moved behind the mapping prefix.
LEMMA As16Type ==
  ASSUME NEW p \in CIDR
  PROVE  /\ p.family \in Families /\ p.ip \in Address(p.family)
         /\ p.len \in Nat /\ p.len <= Width(p.family)
         /\ As16(p).ip \in Address("v6")
         /\ As16(p).len \in Nat
         /\ As16(p).len = IF p.family = "v4" THEN Offset + p.len ELSE p.len
         /\ Offset \in Nat \ {0} /\ Offset + WidthV4 = WidthV6
<1>1. /\ p.family \in Families /\ p.ip \in Address(p.family)
      /\ p.len \in 0..Width(p.family) /\ Width(p.family) \in Nat
  BY PolicyAssumption DEF CIDR, Width
<1>2. Offset \in Nat \ {0} /\ Offset + WidthV4 = WidthV6
  BY PolicyAssumption DEF Offset
<1>3. CASE p.family = "v6"
  BY <1>1, <1>2, <1>3 DEF As16
<1>4. CASE p.family = "v4"
  <2>1. p.ip \in [1..WidthV4 -> {0, 1}]
    BY <1>1, <1>4 DEF Address, Width
  <2>2. \A i \in 1..WidthV6 : i <= Offset => V4InV6Prefix[i] \in {0, 1}
    BY <1>2, PolicyAssumption
  <2>3. \A i \in 1..WidthV6 : ~(i <= Offset) => p.ip[i - Offset] \in {0, 1}
    BY <1>2, <2>1, PolicyAssumption
  <2>4. As16(p).ip \in [1..WidthV6 -> {0, 1}]
    BY <1>4, <2>2, <2>3 DEF As16
  <2> QED
    BY <1>1, <1>2, <1>4, <2>4 DEF As16, Address, Width
<1> QED
  BY <1>1, <1>3, <1>4 DEF Families

\* An address that To4 takes for IPv4 is, behind the mapping prefix, what To4
\* makes of it.
LEMMA To4Bits ==
  ASSUME NEW p \in CIDR, To4(p).family = "v4"
  PROVE  /\ \A i \in 1..Offset : As16(p).ip[i] = V4InV6Prefix[i]
         /\ \A i \in 1..WidthV4 : As16(p).ip[Offset + i] = To4(p).ip[i]
<1>1. Offset \in Nat \ {0} /\ Offset + WidthV4 = WidthV6 /\ WidthV4 \in Nat
  BY As16Type, PolicyAssumption
<1>2. CASE p.family = "v4"
  <2>1. To4(p) = p
    BY <1>2 DEF To4, Mapped
  <2>2. As16(p).ip = [i \in 1..WidthV6 |-> IF i <= Offset THEN V4InV6Prefix[i]
                                            ELSE p.ip[i - Offset]]
    BY <1>2 DEF As16
  <2> QED
    BY <1>1, <2>1, <2>2
<1>3. CASE p.family = "v6"
  <2>1. Mapped(p)
    BY <1>3 DEF To4
  <2>2. As16(p) = p
    BY <1>3 DEF As16
  <2>3. To4(p).ip = [i \in 1..WidthV4 |-> p.ip[Offset + i]]
    BY <2>1 DEF To4
  <2> QED
    BY <1>1, <2>1, <2>2, <2>3 DEF Mapped
<1> QED
  BY <1>2, <1>3, As16Type DEF Families

\* What net.IPNet.Contains finds is so: the address is one of the network's,
\* whichever of the two is spelled IPv4-mapped.  The two are of one family
\* unless one is.
LEMMA ContainsMeans ==
  ASSUME NEW net \in CIDR, NEW p \in CIDR, Contains(net, p)
  PROVE  /\ As16(p).ip \in Addresses(net)
         /\ ~Mapped(p) /\ net.family = "v4" => p.family = "v4"
<1> DEFINE n == ipNet(net)
<1>1. /\ net.family \in Families /\ net.ip \in Address(net.family)
      /\ net.len \in Nat /\ net.len <= Width(net.family)
  BY As16Type
<1>2. /\ n.family = net.family /\ n.len = net.len
      /\ n.ip = [i \in 1..Width(net.family) |-> IF i <= net.len THEN net.ip[i] ELSE 0]
  BY DEF ipNet, CIDR
<1>3. \A i \in 1..net.len : n.ip[i] = net.ip[i]
  BY <1>1, <1>2, PolicyAssumption DEF Width
<1>4. /\ To4(n).family = To4(p).family
      /\ \A i \in 1..To4(n).len : To4(p).ip[i] = To4(n).ip[i]
  BY DEF Contains
<1>5. Offset \in Nat \ {0} /\ Offset + WidthV4 = WidthV6 /\ WidthV4 \in Nat
  BY As16Type, PolicyAssumption
<1>6. SUFFICES /\ \A i \in 1..As16(net).len : As16(p).ip[i] = As16(net).ip[i]
               /\ ~Mapped(p) /\ net.family = "v4" => p.family = "v4"
  BY As16Type DEF Addresses
<1> HIDE DEF n
<1>7. CASE net.family = "v4"
  <2>1. To4(n) = n /\ To4(p).family = "v4"
    BY <1>2, <1>4, <1>7 DEF To4, Mapped
  <2>2. /\ As16(net).len = Offset + net.len
        /\ As16(net).ip = [i \in 1..WidthV6 |-> IF i <= Offset THEN V4InV6Prefix[i]
                                                ELSE net.ip[i - Offset]]
    BY <1>7 DEF As16
  <2>3. net.len <= WidthV4
    BY <1>1, <1>7 DEF Width
  <2>4. \A i \in 1..net.len : As16(p).ip[Offset + i] = net.ip[i]
    <3>1. ASSUME NEW i \in 1..net.len PROVE To4(p).ip[i] = net.ip[i]
      <4>1. To4(n).len = net.len /\ To4(n).ip = n.ip
        BY <1>2, <2>1
      <4> QED
        BY <1>3, <1>4, <4>1
    <3>2. 1..net.len \subseteq 1..WidthV4
      BY <1>1, <1>5, <2>3
    <3>3. \A i \in 1..WidthV4 : As16(p).ip[Offset + i] = To4(p).ip[i]
      BY <2>1, To4Bits
    <3> QED
      BY <3>1, <3>2, <3>3
  <2>5. \A i \in 1..Offset : As16(p).ip[i] = V4InV6Prefix[i]
    BY <2>1, To4Bits
  <2>6. ASSUME NEW i \in 1..As16(net).len PROVE As16(p).ip[i] = As16(net).ip[i]
    <3>1. CASE i <= Offset
      BY <1>1, <1>5, <2>2, <2>3, <2>5, <3>1
    <3>2. CASE ~(i <= Offset)
      <4>1. i - Offset \in 1..net.len /\ i \in 1..WidthV6 /\ Offset + (i - Offset) = i
        BY <1>1, <1>5, <2>2, <2>3, <3>2
      <4>2. As16(p).ip[Offset + (i - Offset)] = net.ip[i - Offset]
        BY <2>4, <4>1
      <4> QED
        BY <2>2, <3>2, <4>1, <4>2
    <3> QED
      BY <3>1, <3>2
  <2>7. ~Mapped(p) => p.family = "v4"
    BY <2>1 DEF To4
  <2> QED
    BY <2>6, <2>7
<1>8. CASE net.family = "v6" /\ Mapped(n)
  <2>1. /\ To4(n).family = "v4" /\ To4(p).family = "v4"
        /\ To4(n).ip = [i \in 1..WidthV4 |-> n.ip[Offset + i]]
        /\ To4(n).len = IF net.len < Offset THEN 0 ELSE net.len - Offset
    BY <1>2, <1>4, <1>8 DEF To4
  <2>2. As16(net) = net /\ net.len <= WidthV6
    BY <1>1, <1>8 DEF As16, Width
  <2>3. ASSUME NEW i \in 1..net.len PROVE As16(p).ip[i] = net.ip[i]
    <3>1. CASE i <= Offset
      <4>1. i \in 1..Offset
        BY <1>1, <1>5, <3>1
      <4>2. n.ip[i] = V4InV6Prefix[i]
        BY <1>8, <4>1 DEF Mapped
      <4> QED
        BY <1>3, <2>1, <4>1, <4>2, To4Bits
    <3>2. CASE ~(i <= Offset)
      <4>1. /\ i - Offset \in 1..To4(n).len /\ i - Offset \in 1..WidthV4
            /\ Offset + (i - Offset) = i
        BY <1>1, <1>5, <2>1, <2>2, <3>2
      <4>2. To4(p).ip[i - Offset] = To4(n).ip[i - Offset]
        BY <1>4, <4>1
      <4>3. To4(n).ip[i - Offset] = n.ip[i]
        BY <2>1, <4>1
      <4>4. As16(p).ip[Offset + (i - Offset)] = To4(p).ip[i - Offset]
        BY <2>1, <4>1, To4Bits
      <4> QED
        BY <1>3, <4>1, <4>2, <4>3, <4>4
    <3> QED
      BY <3>1, <3>2
  <2> QED
    BY <1>8, <2>2, <2>3
<1>9. CASE net.family = "v6" /\ ~Mapped(n)
  <2>1. To4(n) = n /\ To4(p).family = "v6"
    BY <1>2, <1>4, <1>9 DEF To4
  <2>2. ~Mapped(p) /\ To4(p) = p /\ p.family = "v6"
    BY <2>1 DEF To4
  <2>3. As16(p) = p /\ As16(net) = net
    BY <1>9, <2>2 DEF As16
  <2>4. ASSUME NEW i \in 1..net.len PROVE p.ip[i] = net.ip[i]
    <3>1. To4(n).len = net.len /\ To4(n).ip = n.ip /\ To4(p).ip = p.ip
      BY <1>2, <2>1, <2>2
    <3> QED
      BY <1>3, <1>4, <3>1
  <2> QED
    BY <1>9, <2>3, <2>4, Zenon
<1> QED
  BY <1>1, <1>7, <1>8, <1>9 DEF Families

\* A prefix with room behind its mask has more than one address: flipping bit
\* j of its address stays inside.
LEMMA AnotherAddress ==
  ASSUME NEW p \in CIDR, NEW j \in 1..WidthV6, As16(p).len < j
  PROVE  \E a \in Addresses(p) : a[j] # As16(p).ip[j]
<1> DEFINE ip == As16(p).ip
           a == [ip EXCEPT ![j] = 1 - @]
<1>1. ip \in [1..WidthV6 -> {0, 1}] /\ As16(p).len \in Nat /\ WidthV6 \in Nat
  BY As16Type, PolicyAssumption DEF Address, Width
<1>2. j \notin 1..As16(p).len /\ 1..As16(p).len \subseteq 1..WidthV6
  BY <1>1
<1> HIDE DEF ip
<1>3. a \in [1..WidthV6 -> {0, 1}] /\ a[j] # ip[j]
  BY <1>1
<1>4. \A i \in 1..As16(p).len : a[i] = ip[i]
  BY <1>1, <1>2
<1> QED
  BY <1>3, <1>4 DEF Addresses, Address, Width, ip

\* A prefix that ValidatePrefix lets pass complies with the policy: one
\* address inside a range and a longer mask put all addresses inside.
LEMMA ValidComplies ==
  ASSUME NEW policy \in OwnerPolicy, NEW p \in CIDR, ValidatePrefix(policy, p)
  PROVE  Complies(policy, p)
<1> DEFINE ip == As16(p).ip
<1>1. /\ p.family \in Families /\ p.len \in Nat /\ p.len <= Width(p.family)
      /\ ip \in Address("v6") /\ As16(p).len \in Nat
      /\ As16(p).len = IF p.family = "v4" THEN Offset + p.len ELSE p.len
      /\ Offset \in Nat \ {0} /\ Offset + WidthV4 = WidthV6
  BY As16Type
<1>2. ip \in Addresses(p)
  BY <1>1 DEF Addresses
<1> HIDE DEF ip
<1>3. ASSUME policy.cidrs # {}
      PROVE  /\ \E net \in policy.cidrs : ip \in Addresses(net)
             /\ ~Mapped(p) =>
                  \E net \in policy.cidrs : Addresses(p) \subseteq Addresses(net)
  <2>1. PICK net \in policy.cidrs : Contains(net, p) /\ p.len >= net.len
    BY <1>3 DEF ValidatePrefix, validateAllowedCIDRs
  <2>2. net \in CIDR
    BY DEF OwnerPolicy
  <2>3. ip \in Addresses(net) /\ (~Mapped(p) /\ net.family = "v4" => p.family = "v4")
    BY <2>1, <2>2, ContainsMeans DEF ip
  <2>4. /\ net.family \in Families /\ net.len \in Nat
        /\ As16(net).len \in Nat
        /\ As16(net).len = IF net.family = "v4" THEN Offset + net.len ELSE net.len
    BY <2>2, As16Type
  <2>5. ASSUME ~Mapped(p) PROVE Addresses(p) \subseteq Addresses(net)
    <3>1. As16(net).len <= As16(p).len
      BY <1>1, <2>1, <2>3, <2>4, <2>5 DEF Families
    <3>2. 1..As16(net).len \subseteq 1..As16(p).len
      BY <1>1, <2>4, <3>1
    <3>3. \A i \in 1..As16(net).len : ip[i] = As16(net).ip[i]
      BY <2>3 DEF Addresses
    <3> QED
      BY <3>2, <3>3 DEF Addresses, ip
  <2> QED
    BY <2>3, <2>5
<1>4. ASSUME ~Mapped(p), policy.type = "host_only" PROVE Addresses(p) = {ip}
  <2>1. As16(p).len = WidthV6
    BY <1>1, <1>4 DEF ValidatePrefix, TypeAllows, isIPv4, Families
  <2>2. ASSUME NEW a \in Addresses(p) PROVE a = ip
    <3>1. a \in Address("v6") /\ \A i \in 1..WidthV6 : a[i] = ip[i]
      BY <2>1 DEF Addresses, ip
    <3>2. a = [i \in 1..WidthV6 |-> a[i]] /\ ip = [i \in 1..WidthV6 |-> ip[i]]
      BY <1>1, <3>1 DEF Address, Width
    <3>3. [i \in 1..WidthV6 |-> a[i]] = [i \in 1..WidthV6 |-> ip[i]]
      BY <3>1
    <3> QED
      BY <3>2, <3>3, Zenon
  <2> QED
    BY <1>2, <2>2
<1>5. ASSUME ~Mapped(p), policy.type = "subnet"
      PROVE  Addresses(p) \notin {{ip}, AllV4}
  <2>1. CASE p.family = "v4"
    <3>1. p.len \in SubnetMin..SubnetMax
      BY <1>5, <2>1 DEF ValidatePrefix, TypeAllows, isIPv4
    <3>2. As16(p).len < WidthV6 /\ WidthV6 \in 1..WidthV6
      BY <1>1, <2>1, <3>1, PolicyAssumption
    <3>3. Addresses(p) # {ip}
      BY <3>2, AnotherAddress DEF ip
    <3>4. Offset + 1 \in 1..As16(p).len /\ Offset + 1 \in 1..WidthV6
      BY <1>1, <2>1, <3>1, PolicyAssumption
    <3> DEFINE b == [ip EXCEPT ![Offset + 1] = 1 - @]
    <3>5. ip \in [1..WidthV6 -> {0, 1}]
      BY <1>1 DEF Address, Width
    <3>6. b \in [1..WidthV6 -> {0, 1}] /\ b[Offset + 1] # ip[Offset + 1]
      BY <3>4, <3>5
    <3>7. \A i \in 1..Offset : b[i] = ip[i]
      BY <1>1, <3>4, <3>5
    <3>8. \A i \in 1..Offset : ip[i] = V4InV6Prefix[i]
      BY <2>1, To4Bits DEF To4, Mapped, ip
    <3>9. b \in AllV4
      BY <3>6, <3>7, <3>8 DEF AllV4, Address, Width
    <3>10. b \notin Addresses(p)
      BY <3>4, <3>6 DEF Addresses, ip
    <3> QED
      BY <3>3, <3>9, <3>10
  <2>2. CASE p.family = "v6"
    <3>1. p.len # WidthV6
      BY <1>5, <2>2 DEF ValidatePrefix, TypeAllows, isIPv4, Width
    <3>2. As16(p).len < WidthV6 /\ WidthV6 \in 1..WidthV6
      BY <1>1, <2>2, <3>1, PolicyAssumption DEF Width
    <3>3. Addresses(p) # {ip}
      BY <3>2, AnotherAddress DEF ip
    <3>4. ip \notin AllV4
      BY <1>5, <2>2 DEF AllV4, Mapped, As16, ip
    <3> QED
      BY <1>2, <3>3, <3>4
  <2> QED
    BY <1>1, <2>1, <2>2 DEF Families
<1> QED
  BY <1>3, <1>4, <1>5 DEF Complies, ip

-----------------------------------------------------------------------------
(* What a handler has still to do.                                         *)

Steps == {"lookup", "store", "erase", "clear", "count", "gauge", "session",
          "leave", "sessions", "reassert", "publish", "trigger"}

\* the steps that change the store, and those that may end a call early
Changing == {"store", "erase", "clear"}
Exits == {"lookup", "erase", "reassert"}

\* A step that changes the store is followed by the trigger with no way out
\* in between, is a store only in a call that sets an intent, and then, for a
\* prefix, follows the look-up at once.
TodoOK(q, op, k) ==
  /\ q \in Seq(Steps)
  /\ \A i \in 1..Len(q) : q[i] \in Changing =>
       /\ \E j \in (i + 1)..Len(q) : q[j] = "trigger"
       /\ \A j \in (i + 1)..Len(q) : q[j] \notin Exits \cup Changing
  /\ \A i \in 1..Len(q) : q[i] = "store" =>
       /\ op = "set"
       /\ k \in PrefixSet => i \in {1, 2} /\ (i = 2 => q[1] = "lookup")

\* The rest of a list of steps is as well formed as the list.
LEMMA TodoTail ==
  ASSUME NEW q, NEW op, NEW k, TodoOK(q, op, k), q # << >>
  PROVE  TodoOK(Tail(q), op, k)
<1>1. q \in Seq(Steps)
  BY DEF TodoOK
<1>2. /\ Tail(q) \in Seq(Steps) /\ Len(Tail(q)) = Len(q) - 1 /\ Len(q) \in Nat
      /\ \A i \in 1..(Len(q) - 1) : Tail(q)[i] = q[i + 1] /\ i + 1 \in 1..Len(q)
  BY <1>1
<1>3. ASSUME NEW i \in 1..Len(Tail(q)), Tail(q)[i] \in Changing
      PROVE  /\ \E j \in (i + 1)..Len(Tail(q)) : Tail(q)[j] = "trigger"
             /\ \A j \in (i + 1)..Len(Tail(q)) : Tail(q)[j] \notin Exits \cup Changing
  <2>1. i + 1 \in 1..Len(q) /\ q[i + 1] \in Changing
    BY <1>2, <1>3
  <2>2. PICK j \in (i + 2)..Len(q) : q[j] = "trigger"
    BY <2>1, <1>2 DEF TodoOK
  <2>3. \A m \in (i + 2)..Len(q) : q[m] \notin Exits \cup Changing
    BY <2>1, <1>2 DEF TodoOK
  <2>4. j - 1 \in (i + 1)..Len(Tail(q)) /\ Tail(q)[j - 1] = "trigger"
    BY <1>2, <2>2
  <2>5. \A m \in (i + 1)..Len(Tail(q)) : Tail(q)[m] \notin Exits \cup Changing
    BY <1>2, <2>3
  <2> QED
    BY <2>4, <2>5
<1>4. ASSUME NEW i \in 1..Len(Tail(q)), Tail(q)[i] = "store"
      PROVE  /\ op = "set"
             /\ k \in PrefixSet => i \in {1, 2} /\ (i = 2 => Tail(q)[1] = "lookup")
  <2>1. i + 1 \in 1..Len(q) /\ q[i + 1] = "store"
    BY <1>2, <1>4
  <2>2. op = "set" /\ (k \in PrefixSet => i + 1 \in {1, 2})
    BY <2>1 DEF TodoOK
  <2> QED
    BY <1>2, <2>2
<1> QED
  BY <1>2, <1>3, <1>4 DEF TodoOK

\* The lists that calls start with are well formed.
LEMMA TodoStart ==
  /\ \A k : TodoOK(AdvertisePrefix, "set", k)
  /\ \A k \in OtherKeys : TodoOK(ApplyPeer, "set", k)
  /\ \A k : TodoOK(WithdrawPrefix, "remove", k)
  /\ \A k : TodoOK(handleRemoveIntent, "remove", k)
  /\ \A k : \A r \in BOOLEAN : TodoOK(Register(r), "register", k)
  /\ \A k, op : \A all \in BOOLEAN : TodoOK(Deregister(all), op, k)
  /\ \A k, op : TodoOK(<<"publish">>, op, k) /\ TodoOK(<< >>, op, k)
<1> USE DEF TodoOK, Steps, Changing, Exits
<1>1. \A k : TodoOK(AdvertisePrefix, "set", k)
  BY DEF AdvertisePrefix
<1>2. \A k \in OtherKeys : TodoOK(ApplyPeer, "set", k)
  BY RouteControlAssumption DEF ApplyPeer
<1>3. \A k : TodoOK(WithdrawPrefix, "remove", k)
  BY DEF WithdrawPrefix
<1>4. \A k : TodoOK(handleRemoveIntent, "remove", k)
  BY DEF handleRemoveIntent
<1>5. \A k : \A r \in BOOLEAN : TodoOK(Register(r), "register", k)
  <2>1. \A k : TodoOK(Register(TRUE), "register", k)
    BY DEF Register
  <2>2. \A k : TodoOK(Register(FALSE), "register", k)
    BY DEF Register
  <2> HIDE DEF TodoOK
  <2> QED
    BY <2>1, <2>2, Zenon
<1>6. \A k, op : \A all \in BOOLEAN : TodoOK(Deregister(all), op, k)
  <2>1. \A k, op : TodoOK(Deregister(TRUE), op, k)
    BY DEF Deregister
  <2>2. \A k, op : TodoOK(Deregister(FALSE), op, k)
    BY DEF Deregister
  <2> HIDE DEF TodoOK
  <2> QED
    BY <2>1, <2>2, Zenon
<1>7. \A k, op : TodoOK(<<"publish">>, op, k) /\ TodoOK(<< >>, op, k)
  OBVIOUS
<1> QED
  BY <1>1, <1>2, <1>3, <1>4, <1>5, <1>6, <1>7

-----------------------------------------------------------------------------
(* Calls.                                                                  *)

IsCall(r) ==
  r = [op |-> r.op, owner |-> r.owner, key |-> r.key, todo |-> r.todo,
       n |-> r.n, counts |-> r.counts]

\* a call under way is one of an owner, and what it sets is a key that the
\* owner's policy allows
CallOK(r) ==
  /\ IsCall(r)
  /\ TodoOK(r.todo, r.op, r.key)
  /\ r.todo # << >> => r.owner \in Owners
  /\ r.op = "set" => r.key \in Keys
  /\ r.op = "set" /\ r.key \in PrefixSet =>
       ValidatePrefix(PolicyOf[r.owner], r.key.prefix)

CallsInv ==
  /\ call = [c \in Calls |-> call[c]]
  /\ \A c \in Calls : CallOK(call[c])

\* call c goes on with list q; nothing else about the calls changes
MoveTo(c, q) ==
  /\ call' = [d \in Calls |-> IF d = c THEN call'[c] ELSE call[d]]
  /\ \/ q = << >> /\ call'[c] = NoCall
     \/ /\ IsCall(call'[c]) /\ call'[c].todo = q
        /\ call'[c].op = call[c].op /\ call'[c].owner = call[c].owner
        /\ call'[c].key = call[c].key

\* No call is a call without steps.
LEMMA NoCallOK == CallOK(NoCall) /\ NoCall.todo = << >> /\ IsCall(NoCall)
<1>1. /\ NoCall.todo = << >> /\ NoCall.op = "none" /\ IsCall(NoCall)
  BY DEF NoCall, IsCall
<1> QED
  BY <1>1, TodoStart DEF CallOK

LEMMA GotoMoves ==
  ASSUME CallsInv, NEW c \in Calls, NEW q, Goto(c, q)
  PROVE  MoveTo(c, q)
<1>1. IsCall(call[c]) /\ call = [d \in Calls |-> call[d]]
  BY DEF CallsInv, CallOK
<1>2. CASE q = << >>
  BY <1>1, <1>2 DEF Goto, MoveTo
<1>3. CASE q # << >>
  <2>1. call' = [call EXCEPT ![c] = [call[c] EXCEPT !.todo = q]]
    BY <1>3 DEF Goto
  <2>2. call'[c] = [call[c] EXCEPT !.todo = q]
    BY <1>1, <2>1
  <2>3. /\ IsCall(call'[c]) /\ call'[c].todo = q
        /\ call'[c].op = call[c].op /\ call'[c].owner = call[c].owner
        /\ call'[c].key = call[c].key
    BY <1>1, <2>2 DEF IsCall
  <2>4. call' = [d \in Calls |-> IF d = c THEN call'[c] ELSE call[d]]
    BY <1>1, <2>1
  <2> QED
    BY <2>3, <2>4 DEF MoveTo
<1> QED
  BY <1>2, <1>3

LEMMA MoveKeeps ==
  ASSUME CallsInv, NEW c \in Calls, NEW q, MoveTo(c, q), call[c].todo # << >>,
         TodoOK(q, call[c].op, call[c].key)
  PROVE  CallsInv'
<1>1. \A d \in Calls : CallOK(call[d])
  BY DEF CallsInv
<1>2. CallOK(call'[c])
  <2>1. CASE call'[c] = NoCall
    BY <2>1, NoCallOK
  <2>2. CASE /\ IsCall(call'[c]) /\ call'[c].todo = q
             /\ call'[c].op = call[c].op /\ call'[c].owner = call[c].owner
             /\ call'[c].key = call[c].key
    BY <1>1, <2>2 DEF CallOK
  <2> QED
    BY <2>1, <2>2 DEF MoveTo
<1>3. call' = [d \in Calls |-> IF d = c THEN call'[c] ELSE call[d]]
  BY DEF MoveTo
<1>4. call' = [d \in Calls |-> call'[d]] /\ \A d \in Calls : d # c => call'[d] = call[d]
  BY <1>3
<1>5. \A d \in Calls : CallOK(call'[d])
  BY <1>1, <1>2, <1>4
<1> QED
  BY <1>4, <1>5 DEF CallsInv, CallOK, IsCall

\* the steps of a call after its start
Access(c) ==
  \/ Lookup(c) \/ SetIntent(c) \/ RemoveIntent(c) \/ RemoveAllByOwner(c)
  \/ CountIntents(c) \/ SetGauge(c) \/ ChangeSession(c) \/ SetRegisteredOwners(c)
  \/ Reassert(c) \/ Publish(c) \/ TriggerReconcile(c)

\* A call goes on with the rest of its steps; it turns back only at a look-up,
\* at a removal or when there is nothing to reassert.
LEMMA AccessMoves ==
  ASSUME CallsInv, NEW c \in Calls, Access(c)
  PROVE  /\ call[c].todo # << >>
         /\ \/ MoveTo(c, Tail(call[c].todo))
            \/ /\ Head(call[c].todo) \in Exits
               /\ UNCHANGED store
               /\ \E q \in {<< >>, <<"publish">>} : MoveTo(c, q)
<1>1. call[c].todo # << >>
  BY DEF Access, Lookup, SetIntent, RemoveIntent, RemoveAllByOwner, CountIntents,
         SetGauge, ChangeSession, SetRegisteredOwners, Reassert, Publish,
         TriggerReconcile, At
<1>2. ASSUME Proceed(c) PROVE MoveTo(c, Tail(call[c].todo))
  BY <1>2, GotoMoves DEF Proceed
<1>3. ASSUME Answer(c) PROVE MoveTo(c, << >>)
  BY <1>3, GotoMoves DEF Answer
<1>4. CASE Lookup(c)
  BY <1>1, <1>2, <1>3, <1>4 DEF Lookup, At, Exits
<1>5. CASE RemoveIntent(c)
  BY <1>1, <1>2, <1>3, <1>5 DEF RemoveIntent, At, Exits
<1>6. CASE Reassert(c)
  BY <1>1, <1>2, <1>6, GotoMoves DEF Reassert, At, Exits
<1>7. CASE CountIntents(c)
  <2>1. call' = [call EXCEPT ![c].todo = Tail(@),
                             ![c].counts = Refreshed(call[c].owner, call[c].key)]
    BY <1>7 DEF CountIntents
  <2>2. IsCall(call[c]) /\ call = [d \in Calls |-> call[d]]
    BY DEF CallsInv, CallOK
  <2> HIDE DEF Refreshed
  <2>3. MoveTo(c, Tail(call[c].todo))
    BY <2>1, <2>2 DEF MoveTo, IsCall
  <2> QED
    BY <1>1, <2>3
<1>8. CASE ChangeSession(c)
  <2>1. call' = [call EXCEPT ![c].todo = Tail(@), ![c].n = Cardinality(sessions')]
    BY <1>8 DEF ChangeSession
  <2>2. IsCall(call[c]) /\ call = [d \in Calls |-> call[d]]
    BY DEF CallsInv, CallOK
  <2>3. MoveTo(c, Tail(call[c].todo))
    BY <2>1, <2>2 DEF MoveTo, IsCall
  <2> QED
    BY <1>1, <2>3
<1>9. CASE \/ SetIntent(c) \/ RemoveAllByOwner(c) \/ SetGauge(c)
           \/ SetRegisteredOwners(c) \/ Publish(c) \/ TriggerReconcile(c)
  BY <1>1, <1>2, <1>9 DEF SetIntent, RemoveAllByOwner, SetGauge,
       SetRegisteredOwners, Publish, TriggerReconcile
<1> QED
  BY <1>4, <1>5, <1>6, <1>7, <1>8, <1>9 DEF Access

\* What a step does besides moving its call depends on the step alone.
LEMMA AccessEffect ==
  ASSUME NEW c \in Calls, Access(c)
  PROVE  /\ seen' = seen /\ raced' = raced
         /\ signal' = signal \/ signal' = TRUE
         /\ Head(call[c].todo) = "trigger" => signal' = TRUE
         /\ Head(call[c].todo) = "lookup" => Lookup(c)
         /\ Head(call[c].todo) = "store" => SetIntent(c)
         /\ Head(call[c].todo) = "erase" => RemoveIntent(c)
         /\ Head(call[c].todo) = "clear" => RemoveAllByOwner(c)
         /\ Head(call[c].todo) \notin Changing => store' = store
<1>1. CASE Lookup(c)
  BY <1>1 DEF Lookup, At, Changing, history
<1>2. CASE SetIntent(c)
  BY <1>2 DEF SetIntent, At, Changing, history
<1>3. CASE RemoveIntent(c)
  <2>1. UNCHANGED <<signal, seen, raced>> /\ Head(call[c].todo) = "erase"
    BY <1>3 DEF RemoveIntent, At, history
  <2> QED
    BY <1>3, <2>1 DEF Changing
<1>4. CASE RemoveAllByOwner(c)
  BY <1>4 DEF RemoveAllByOwner, At, Changing, history
<1>5. CASE CountIntents(c)
  BY <1>5 DEF CountIntents, At, Changing, history
<1>6. CASE SetGauge(c)
  BY <1>6 DEF SetGauge, At, Changing, history
<1>7. CASE ChangeSession(c)
  BY <1>7 DEF ChangeSession, At, Changing, history
<1>8. CASE SetRegisteredOwners(c)
  BY <1>8 DEF SetRegisteredOwners, At, Changing, history
<1>9. CASE Reassert(c)
  BY <1>9 DEF Reassert, At, Changing, history
<1>10. CASE Publish(c)
  <2>1. UNCHANGED <<signal, seen, raced, store>> /\ Head(call[c].todo) = "publish"
    BY <1>10 DEF Publish, At, history
  <2> QED
    BY <2>1
<1>11. CASE TriggerReconcile(c)
  BY <1>11 DEF TriggerReconcile, At, Changing, history
<1> QED
  BY <1>1, <1>2, <1>3, <1>4, <1>5, <1>6, <1>7, <1>8, <1>9, <1>10, <1>11 DEF Access

\* A call starts well formed; none starts by storing a prefix.
LEMMA Starts ==
  ASSUME CallsInv, NEW c \in Calls, StartCall(c)
  PROVE  /\ call[c] = NoCall /\ CallsInv'
         /\ \A d \in Calls : d # c => call'[d] = call[d]
         /\ call'[c].todo # << >>
         /\ Head(call'[c].todo) = "store" => call'[c].key \notin PrefixSet
         /\ UNCHANGED <<store, signal, seen>>
         /\ raced' = (raced \/ \E d \in Calls : call[d] # NoCall)
<1>1. ASSUME NEW op, NEW o \in Owners, NEW k, NEW q, Start(c, op, o, k, q),
             TodoOK(q, op, k), q # << >>, Head(q) = "store" => k \notin PrefixSet,
             op = "set" => k \in Keys,
             op = "set" /\ k \in PrefixSet => ValidatePrefix(PolicyOf[o], k.prefix)
      PROVE  /\ call[c] = NoCall /\ CallsInv'
             /\ \A d \in Calls : d # c => call'[d] = call[d]
             /\ call'[c].todo # << >>
             /\ Head(call'[c].todo) = "store" => call'[c].key \notin PrefixSet
             /\ UNCHANGED <<store, signal, seen>>
             /\ raced' = (raced \/ \E d \in Calls : call[d] # NoCall)
  <2> DEFINE r == [op |-> op, owner |-> o, key |-> k, todo |-> q, n |-> 0,
                   counts |-> NoCounts]
  <2>1. /\ call[c] = NoCall /\ call' = [call EXCEPT ![c] = r]
        /\ raced' = (raced \/ \E d \in Calls : call[d] # NoCall)
        /\ UNCHANGED <<store, signal, seen>>
    BY <1>1 DEF Start
  <2>2. /\ r.op = op /\ r.owner = o /\ r.key = k /\ r.todo = q /\ IsCall(r)
    BY DEF IsCall
  <2> HIDE DEF r
  <2>3. CallOK(r)
    BY <1>1, <2>2 DEF CallOK
  <2>4. /\ call' = [d \in Calls |-> call'[d]] /\ call'[c] = r
        /\ \A d \in Calls : d # c => call'[d] = call[d]
    BY <2>1 DEF CallsInv
  <2>5. \A d \in Calls : CallOK(call'[d])
    BY <2>3, <2>4 DEF CallsInv
  <2>6. CallsInv'
    BY <2>4, <2>5 DEF CallsInv, CallOK, IsCall
  <2> QED
    BY <1>1, <2>1, <2>2, <2>4, <2>6
<1>2. PICK o \in Owners :
        \/ \E k \in PrefixSet :
             \/ /\ ValidatePrefix(PolicyOf[o], k.prefix)
                /\ Start(c, "set", o, k, AdvertisePrefix)
             \/ Start(c, "remove", o, k, WithdrawPrefix)
        \/ \E k \in OtherKeys : \/ Start(c, "set", o, k, ApplyPeer)
                                \/ Start(c, "remove", o, k, handleRemoveIntent)
        \/ \E r \in BOOLEAN : Start(c, "register", o, o, Register(r))
        \/ \E all \in WithdrawAlls :
             Start(c, IF all THEN "withdrawAll" ELSE "deregister", o, o,
                   Deregister(all))
  BY DEF StartCall
<1>3. /\ AdvertisePrefix # << >> /\ Head(AdvertisePrefix) = "lookup"
      /\ WithdrawPrefix # << >> /\ Head(WithdrawPrefix) = "erase"
      /\ ApplyPeer # << >>
      /\ handleRemoveIntent # << >> /\ Head(handleRemoveIntent) = "erase"
      /\ \A r \in BOOLEAN : Register(r) # << >> /\ Head(Register(r)) = "session"
      /\ \A all \in BOOLEAN :
           /\ Deregister(all) # << >> /\ Head(Deregister(all)) \in {"clear", "leave"}
  BY DEF AdvertisePrefix, WithdrawPrefix, ApplyPeer, handleRemoveIntent, Register,
         Deregister
<1>4. PrefixSet \cap OtherKeys = {} /\ WithdrawAlls \subseteq BOOLEAN
  BY RouteControlAssumption
<1>5. CASE \E k \in PrefixSet :
             \/ /\ ValidatePrefix(PolicyOf[o], k.prefix)
                /\ Start(c, "set", o, k, AdvertisePrefix)
             \/ Start(c, "remove", o, k, WithdrawPrefix)
  BY <1>1, <1>3, <1>5, TodoStart DEF Keys
<1>6. CASE \E k \in OtherKeys : \/ Start(c, "set", o, k, ApplyPeer)
                                \/ Start(c, "remove", o, k, handleRemoveIntent)
  BY <1>1, <1>3, <1>4, <1>6, TodoStart DEF Keys
<1>7. CASE \E r \in BOOLEAN : Start(c, "register", o, o, Register(r))
  BY <1>1, <1>3, <1>7, TodoStart
<1>8. CASE \E all \in WithdrawAlls :
             Start(c, IF all THEN "withdrawAll" ELSE "deregister", o, o,
                   Deregister(all))
  BY <1>1, <1>3, <1>4, <1>8, TodoStart
<1> QED
  BY <1>2, <1>5, <1>6, <1>7, <1>8

\* What follows the first of two or more steps is the second.
LEMMA SecondOf ==
  ASSUME NEW S, NEW q \in Seq(S), q # << >>, Tail(q) # << >>
  PROVE  Len(q) \in Nat /\ Len(q) >= 2 /\ Head(Tail(q)) = q[2]
OBVIOUS

\* The first of the remaining steps is where a call is.
LEMMA AtHead ==
  ASSUME CallsInv, NEW c \in Calls, call[c].todo # << >>
  PROVE  /\ call[c].todo \in Seq(Steps) /\ Len(call[c].todo) \in Nat \ {0}
         /\ Head(call[c].todo) = call[c].todo[1]
         /\ Len(Tail(call[c].todo)) = Len(call[c].todo) - 1
         /\ \A i \in 1..(Len(call[c].todo) - 1) :
              Tail(call[c].todo)[i] = call[c].todo[i + 1]
         /\ call[c].owner \in Owners
         /\ Head(call[c].todo) = "store" => call[c].op = "set"
<1>1. TodoOK(call[c].todo, call[c].op, call[c].key) /\ call[c].owner \in Owners
  BY DEF CallsInv, CallOK
<1>2. call[c].todo \in Seq(Steps)
  BY <1>1 DEF TodoOK
<1>3. Len(call[c].todo) \in Nat \ {0} /\ Head(call[c].todo) = call[c].todo[1]
  BY <1>2
<1> QED
  BY <1>1, <1>2, <1>3 DEF TodoOK

-----------------------------------------------------------------------------
(* The calls and the store.                                                *)

StoreInv == CallsInv /\ store \in [Owners -> SUBSET Keys]

\* An action is a start, a step of a call or the reconciler's read.
LEMMA NextSplit ==
  Next <=> (\E c \in Calls : StartCall(c) \/ Access(c)) \/ ReadIntents
BY DEF Next, Access

LEMMA AccessKeepsCalls ==
  ASSUME CallsInv, NEW c \in Calls, Access(c)
  PROVE  CallsInv' /\ \A d \in Calls : d # c => call'[d] = call[d]
<1>1. call[c].todo # << >> /\ TodoOK(call[c].todo, call[c].op, call[c].key)
  BY AccessMoves DEF CallsInv, CallOK
<1>2. PICK q \in {Tail(call[c].todo), << >>, <<"publish">>} : MoveTo(c, q)
  BY AccessMoves
<1>3. TodoOK(q, call[c].op, call[c].key)
  BY <1>1, TodoTail, TodoStart
<1> QED
  BY <1>1, <1>2, <1>3, MoveKeeps DEF MoveTo

LEMMA StoreStep == StoreInv /\ [Next]_vars => StoreInv'
<1> SUFFICES ASSUME StoreInv, [Next]_vars PROVE StoreInv'
  OBVIOUS
<1>1. ASSUME NEW c \in Calls, StartCall(c) PROVE StoreInv'
  BY <1>1, Starts DEF StoreInv
<1>2. ASSUME NEW c \in Calls, Access(c) PROVE StoreInv'
  <2>1. CallsInv' /\ call[c].todo # << >> /\ CallOK(call[c])
    BY <1>2, AccessKeepsCalls, AccessMoves DEF StoreInv, CallsInv
  <2>2. CASE Head(call[c].todo) = "store"
    <3>1. call[c].key \in Keys
      BY <2>1, <2>2, AtHead DEF StoreInv, CallOK
    <3>2. SetIntent(c)
      BY <1>2, <2>2, AccessEffect
    <3> QED
      BY <2>1, <3>1, <3>2 DEF StoreInv, SetIntent
  <2>3. CASE Head(call[c].todo) = "erase"
    BY ZenonT(40), <1>2, <2>1, <2>3, AccessEffect DEF StoreInv, RemoveIntent
  <2>4. CASE Head(call[c].todo) = "clear"
    BY <1>2, <2>1, <2>4, AccessEffect DEF StoreInv, RemoveAllByOwner
  <2>5. CASE Head(call[c].todo) \notin Changing
    BY <1>2, <2>1, <2>5, AccessEffect DEF StoreInv
  <2> QED
    BY <2>2, <2>3, <2>4, <2>5 DEF Changing
<1>3. CASE ReadIntents
  BY <1>3 DEF ReadIntents, StoreInv, CallsInv
<1>4. CASE UNCHANGED vars
  BY <1>4 DEF vars, StoreInv, CallsInv
<1> QED
  BY <1>1, <1>2, <1>3, <1>4, NextSplit

LEMMA StoreInit == Init => StoreInv
BY NoCallOK DEF Init, StoreInv, CallsInv

-----------------------------------------------------------------------------
(* The theorems.                                                           *)

\* Whatever the policies and however calls interleave, every prefix in the
\* store complies with its owner's policy.
THEOREM StoreComplies == Spec => []PolicyKept
<1>1. Init => PolicyKept
  BY DEF Init, PolicyKept
<1>2. StoreInv /\ PolicyKept /\ [Next]_vars => PolicyKept'
  <2> SUFFICES ASSUME StoreInv, PolicyKept, [Next]_vars,
                      NEW o \in Owners, NEW k \in store'[o] \cap PrefixSet
               PROVE  Complies(PolicyOf[o], k.prefix)
    BY DEF PolicyKept
  <2>1. ASSUME k \in store[o] PROVE Complies(PolicyOf[o], k.prefix)
    BY <2>1 DEF PolicyKept
  <2>2. ASSUME NEW c \in Calls, Access(c) PROVE Complies(PolicyOf[o], k.prefix)
    <3>1. call[c].todo # << >> /\ CallOK(call[c])
      BY <2>2, AccessMoves DEF StoreInv, CallsInv
    <3>2. CASE Head(call[c].todo) = "store"
      <4>1. SetIntent(c)
        BY <2>2, <3>2, AccessEffect
      <4>2. k \in store[o] \/ (k = call[c].key /\ o = call[c].owner)
        BY <4>1 DEF SetIntent, StoreInv
      <4>3. CASE k = call[c].key /\ o = call[c].owner
        <5>1. ValidatePrefix(PolicyOf[o], k.prefix)
          BY <3>1, <3>2, <4>3, AtHead DEF StoreInv, CallOK
        <5>2. PolicyOf[o] \in OwnerPolicy /\ k.prefix \in CIDR
          BY RouteControlAssumption
        <5> QED
          BY <5>1, <5>2, ValidComplies
      <4> QED
        BY <2>1, <4>2, <4>3
    <3>3. CASE Head(call[c].todo) = "erase"
      BY <2>1, <2>2, <3>3, AccessEffect DEF StoreInv, RemoveIntent
    <3>4. CASE Head(call[c].todo) = "clear"
      BY <2>1, <2>2, <3>4, AccessEffect DEF StoreInv, RemoveAllByOwner
    <3>5. CASE Head(call[c].todo) \notin Changing
      BY <2>1, <2>2, <3>5, AccessEffect
    <3> QED
      BY <3>2, <3>3, <3>4, <3>5 DEF Changing
  <2>3. ASSUME NEW c \in Calls, StartCall(c) PROVE Complies(PolicyOf[o], k.prefix)
    BY <2>1, <2>3, Starts DEF StoreInv
  <2>4. CASE ReadIntents \/ UNCHANGED vars
    BY <2>1, <2>4 DEF ReadIntents, vars
  <2> QED
    BY <2>2, <2>3, <2>4, NextSplit
<1> QED
  BY <1>1, <1>2, StoreInit, StoreStep, PTL DEF Spec

\* Calls that never overlapped: one at most is under way, and one about to
\* store a prefix has just seen that no one else but the administrator has it.
Alone == \A c, d \in Calls : call[c] # NoCall /\ call[d] # NoCall => c = d

Cleared ==
  \A c \in Calls : At(c, "store") /\ call[c].key \in PrefixSet /\ call[c].owner # Admin
    => \A o \in Owners : call[c].key \in store[o] => o \in {Admin, call[c].owner}

SerialInv == ~raced => Alone /\ Cleared /\ UniqueOwner

\* As long as calls come one after the other, no prefix gets a second owner,
\* for any number of owners, prefixes and calls: the look-up and the store are
\* neighbours in AdvertisePrefix.
THEOREM SerialOwners == Spec => []SerialUniqueOwner
<1>1. Init => SerialInv
  BY NoCallOK DEF Init, SerialInv, Alone, Cleared, UniqueOwner, At
<1>2. StoreInv /\ SerialInv /\ [Next]_vars => SerialInv'
  <2> SUFFICES ASSUME StoreInv, SerialInv, [Next]_vars, ~raced'
               PROVE  Alone' /\ Cleared' /\ UniqueOwner'
    BY DEF SerialInv
  <2>1. ASSUME NEW c \in Calls, StartCall(c)
        PROVE  Alone' /\ Cleared' /\ UniqueOwner'
    <3>1. /\ call[c] = NoCall /\ \A d \in Calls : d # c => call'[d] = call[d]
          /\ Head(call'[c].todo) = "store" => call'[c].key \notin PrefixSet
          /\ store' = store /\ ~raced /\ \A d \in Calls : call[d] = NoCall
      BY <2>1, Starts DEF StoreInv
    <3>2. Alone'
      BY <3>1 DEF Alone
    <3>3. Cleared'
      BY <3>1, NoCallOK DEF Cleared, At
    <3>4. UniqueOwner'
      BY <3>1 DEF SerialInv, UniqueOwner
    <3> QED
      BY <3>2, <3>3, <3>4
  <2>2. ASSUME NEW c \in Calls, Access(c)
        PROVE  Alone' /\ Cleared' /\ UniqueOwner'
    <3>1. /\ call[c].todo # << >> /\ call[c] # NoCall /\ CallsInv /\ CallOK(call[c])
          /\ Alone /\ Cleared /\ UniqueOwner /\ store \in [Owners -> SUBSET Keys]
      BY <2>2, AccessMoves, AccessEffect, NoCallOK DEF SerialInv, StoreInv, CallsInv
    <3>2. \A d \in Calls : d # c => call'[d] = NoCall
      BY <2>2, <3>1, AccessKeepsCalls DEF Alone
    <3>3. Alone'
      BY <3>2 DEF Alone
    <3>4. Cleared'
      <4> SUFFICES ASSUME At(c, "store")', call'[c].key \in PrefixSet,
                          call'[c].owner # Admin,
                          NEW o \in Owners, call'[c].key \in store'[o]
                   PROVE  o \in {Admin, call'[c].owner}
        BY <3>2, NoCallOK DEF Cleared, At
      <4>1. MoveTo(c, Tail(call[c].todo))
        BY SMTT(30), <2>2, <3>1, AccessMoves, NoCallOK DEF MoveTo, At
      <4>2. /\ call'[c].todo = Tail(call[c].todo)
            /\ call'[c].owner = call[c].owner /\ call'[c].key = call[c].key
        BY <4>1, NoCallOK DEF MoveTo, At
      <4>3. Len(call[c].todo) \in Nat /\ Len(call[c].todo) >= 2 /\ call[c].todo[2] = "store"
        <5>1. Head(Tail(call[c].todo)) = "store" /\ Tail(call[c].todo) # << >>
          BY <4>2 DEF At
        <5>2. call[c].todo \in Seq(Steps)
          BY <3>1, AtHead
        <5> QED
          BY <3>1, <5>1, <5>2, SecondOf
      <4>4. Head(call[c].todo) = "lookup"
        <5>1. call[c].todo[1] = "lookup"
          <6>1. TodoOK(call[c].todo, call[c].op, call[c].key)
            BY Zenon, <3>1 DEF CallOK
          <6>2. 2 \in 1..Len(call[c].todo) /\ call[c].key \in PrefixSet
            BY <4>2, <4>3
          <6> QED
            BY Zenon, <4>3, <6>1, <6>2 DEF TodoOK
        <5> QED
          BY <3>1, <5>1, AtHead
      <4>5. Lookup(c) /\ store' = store
        BY <2>2, <4>4, AccessEffect DEF Changing
      <4>6. PICK e \in findPrefixOwner(call[c].owner, call[c].key) :
              IF CheckConflict(call[c].owner, e) THEN Proceed(c) ELSE Answer(c)
        BY <4>5 DEF Lookup
      <4>7. CheckConflict(call[c].owner, e)
        <5>1. ASSUME Answer(c) PROVE FALSE
          <6>1. MoveTo(c, << >>)
            BY <3>1, <5>1, GotoMoves DEF Answer
          <6> QED
            BY <6>1, NoCallOK DEF MoveTo, At
        <5> QED
          BY <4>6, <5>1
      <4>8. Holders(call[c].key) = {} \/ call[c].owner \in Holders(call[c].key)
        BY <4>2, <4>7 DEF CheckConflict, findPrefixOwner
      <4>9. Holders(call[c].key) \subseteq {Admin, call[c].owner}
        BY <3>1, <4>2, <4>8 DEF Holders, UniqueOwner
      <4> QED
        BY <4>2, <4>5, <4>9 DEF Holders
    <3>5. UniqueOwner'
      <4>1. CASE Head(call[c].todo) = "store"
        <5>1. SetIntent(c) /\ At(c, "store")
          BY <2>2, <3>1, <4>1, AccessEffect DEF At
        <5>2. ASSUME NEW k \in PrefixSet, NEW o \in Owners, k \in store'[o]
              PROVE  k \in store[o] \/ (k = call[c].key /\ o = call[c].owner)
          BY <3>1, <5>1, <5>2 DEF SetIntent
        <5>3. ASSUME NEW k \in PrefixSet, NEW o \in Owners \ {Admin},
                     k = call[c].key, call[c].owner # Admin, k \in store[o]
              PROVE  o = call[c].owner
          BY <3>1, <5>1, <5>3 DEF Cleared, Holders
        <5> QED
          BY <3>1, <5>2, <5>3 DEF UniqueOwner
      <4>2. CASE Head(call[c].todo) = "erase"
        <5>1. \A o \in Owners : store'[o] \subseteq store[o]
          BY <2>2, <3>1, <4>2, AccessEffect DEF RemoveIntent
        <5> QED
          BY <3>1, <5>1 DEF UniqueOwner
      <4>3. CASE Head(call[c].todo) = "clear"
        <5>1. \A o \in Owners : store'[o] \subseteq store[o]
          BY <2>2, <3>1, <4>3, AccessEffect DEF RemoveAllByOwner
        <5> QED
          BY <3>1, <5>1 DEF UniqueOwner
      <4>4. CASE Head(call[c].todo) \notin Changing
        BY <2>2, <3>1, <4>4, AccessEffect DEF UniqueOwner
      <4> QED
        BY <4>1, <4>2, <4>3, <4>4 DEF Changing
    <3> QED
      BY <3>3, <3>4, <3>5
  <2>3. CASE ReadIntents
    BY <2>3 DEF ReadIntents, history, SerialInv, Alone, Cleared, UniqueOwner, At, Holders
  <2>4. CASE UNCHANGED vars
    BY <2>4 DEF vars, SerialInv, Alone, Cleared, UniqueOwner, At, Holders
  <2> QED
    BY <2>1, <2>2, <2>3, <2>4, NextSplit
<1>3. SerialInv => SerialUniqueOwner
  BY DEF SerialInv, SerialUniqueOwner
<1> QED
  BY <1>1, <1>2, <1>3, StoreInit, StoreStep, PTL DEF Spec

\* a list of steps that triggers and cannot turn back before
Owes(q) ==
  /\ \E j \in 1..Len(q) : q[j] = "trigger"
  /\ \A j \in 1..Len(q) : q[j] \notin Exits

SeenInv == signal = TRUE \/ seen = store \/ \E c \in Calls : Owes(call[c].todo)

\* However calls and the reconciler interleave, no change of the store is left
\* unseen: until the reconciler has read it, a signal waits in the channel or
\* a call is bound to send one.
THEOREM EveryChangeSeen == Spec => []ChangesSeen
<1>1. Init => SeenInv
  BY DEF Init, SeenInv
<1>2. StoreInv /\ SeenInv /\ [Next]_vars => SeenInv'
  <2> SUFFICES ASSUME StoreInv, SeenInv, [Next]_vars, signal' # TRUE PROVE SeenInv'
    BY DEF SeenInv
  <2>1. ASSUME NEW c \in Calls, StartCall(c) PROVE SeenInv'
    <3>1. ~Owes(call[c].todo)
      <4>1. call[c] = NoCall
        BY <2>1, Starts DEF StoreInv
      <4>2. call[c].todo = << >>
        BY Zenon, <4>1, NoCallOK
      <4> QED
        BY <4>2 DEF Owes
    <3> QED
      BY <2>1, <3>1, Starts DEF StoreInv, SeenInv
  <2>2. ASSUME NEW c \in Calls, Access(c) PROVE SeenInv'
    <3> DEFINE q == call[c].todo
    <3>1. /\ CallsInv /\ q # << >> /\ signal # TRUE /\ seen' = seen /\ Head(q) # "trigger"
          /\ TodoOK(q, call[c].op, call[c].key)
          /\ \A d \in Calls : d # c => call'[d] = call[d]
      BY <2>2, AccessMoves, AccessEffect, AccessKeepsCalls DEF StoreInv, CallsInv, CallOK
    <3>2. /\ q \in Seq(Steps) /\ Len(q) \in Nat \ {0} /\ Head(q) = q[1]
          /\ Len(Tail(q)) = Len(q) - 1
          /\ \A i \in 1..(Len(q) - 1) : Tail(q)[i] = q[i + 1]
      BY <3>1, AtHead
    <3>3. ASSUME Owes(Tail(q)), MoveTo(c, Tail(q)) PROVE SeenInv'
      <4>1. call'[c].todo = Tail(q)
        BY <3>3, NoCallOK DEF MoveTo
      <4> QED
        BY <3>3, <4>1 DEF SeenInv
    <3> HIDE DEF q
    <3>4. CASE Head(q) \in Changing /\ MoveTo(c, Tail(q))
      <4>1. PICK j \in 2..Len(q) : q[j] = "trigger"
        BY <3>1, <3>2, <3>4 DEF TodoOK
      <4>2. \A i \in 2..Len(q) : q[i] \notin Exits
        BY <3>1, <3>2, <3>4 DEF TodoOK
      <4>3. j - 1 \in 1..Len(Tail(q)) /\ Tail(q)[j - 1] = "trigger"
        BY <3>2, <4>1
      <4>4. \A i \in 1..Len(Tail(q)) : Tail(q)[i] \notin Exits
        BY <3>2, <4>2
      <4> QED
        BY <3>3, <3>4, <4>3, <4>4 DEF Owes
    <3>5. CASE store' = store
      <4>1. CASE seen = store
        BY <3>1, <3>5, <4>1 DEF SeenInv
      <4>2. CASE \E d \in Calls : d # c /\ Owes(call[d].todo)
        BY <3>1, <4>2 DEF SeenInv
      <4>3. CASE Owes(q)
        <5>1. q[1] \notin Exits /\ MoveTo(c, Tail(q))
          BY SMTT(30), <2>2, <3>1, <3>2, <4>3, AccessMoves DEF Owes, q
        <5>2. PICK j \in 2..Len(q) : q[j] = "trigger"
          BY <3>1, <3>2, <4>3 DEF Owes
        <5>3. j - 1 \in 1..Len(Tail(q)) /\ Tail(q)[j - 1] = "trigger"
          BY <3>2, <5>2
        <5>4. \A i \in 1..Len(Tail(q)) : Tail(q)[i] \notin Exits
          BY <3>2, <4>3 DEF Owes
        <5> QED
          BY <3>3, <5>1, <5>3, <5>4 DEF Owes
      <4> QED
        BY <3>1, <4>1, <4>2, <4>3 DEF SeenInv, q
    <3> QED
      BY <2>2, <3>1, <3>4, <3>5, AccessMoves, AccessEffect DEF q
  <2>3. CASE ReadIntents
    BY <2>3 DEF ReadIntents, SeenInv
  <2>4. CASE UNCHANGED vars
    BY <2>4 DEF vars, SeenInv
  <2> QED
    BY <2>1, <2>2, <2>3, <2>4, NextSplit
<1>3. SeenInv => ChangesSeen
  <2>1. ~Owes(<< >>)
    BY DEF Owes
  <2> QED
    BY <2>1, NoCallOK DEF SeenInv, ChangesSeen, Quiet
<1> QED
  BY <1>1, <1>2, <1>3, StoreInit, StoreStep, PTL DEF Spec
=============================================================================
