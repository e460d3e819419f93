------------------------------- MODULE Policy -------------------------------
(***************************************************************************)
(* The prefix policies of the owners (internal/policy).  An address is the *)
(* sequence of its bits; a prefix is an address as the client spelled it,  *)
(* with or without bits behind the mask, and a mask length.  An IPv6       *)
(* spelling may be that of an IPv4-mapped address (::ffff:10.0.0.1): Go's  *)
(* net.IP treats its address as IPv4, its mask has 128 bits all the same.  *)
(***************************************************************************)
EXTENDS Integers

CONSTANTS
  WidthV4, WidthV6,      \* bits of an address (32 and 128)
  V4InV6Prefix,          \* the bits that IPv4-mapped addresses start with
  SubnetMin, SubnetMax   \* mask lengths of an IPv4 subnet (8 and 28)

Offset == WidthV6 - WidthV4

ASSUME PolicyAssumption ==
  /\ {WidthV4, WidthV6, SubnetMin, SubnetMax} \subseteq Nat
  /\ WidthV4 < WidthV6
  /\ V4InV6Prefix \in [1..Offset -> {0, 1}]
  /\ 0 < SubnetMin /\ SubnetMax < WidthV4

Families == {"v4", "v6"}
Width(f) == IF f = "v4" THEN WidthV4 ELSE WidthV6
Address(f) == [1..Width(f) -> {0, 1}]

\* what net.ParseCIDR accepts; the family is that of the spelling and the mask
CIDR == UNION {[family : {f}, ip : Address(f), len : 0..Width(f)] : f \in Families}

\* what validateOwners accepts for an owner; no CIDR at all allows every range
OwnerPolicy == [type : {"host_only", "subnet", "any"}, cidrs : SUBSET CIDR]

\* an IPv4 address in the guise of an IPv6 one
Mapped(p) == p.family = "v6" /\ \A i \in 1..Offset : p.ip[i] = V4InV6Prefix[i]

\* ip.To4() != nil
isIPv4(p) == p.family = "v4" \/ Mapped(p)

\* the bits that net.IP.To4 leaves, and the last bytes of the mask with them
To4(p) ==
  IF Mapped(p)
  THEN [family |-> "v4",
        ip |-> [i \in 1..WidthV4 |-> p.ip[Offset + i]],
        len |-> IF p.len < Offset THEN 0 ELSE p.len - Offset]
  ELSE p

\* the network of net.ParseCIDR: the address with the bits behind the mask cleared
ipNet(p) ==
  [p EXCEPT !.ip = [i \in 1..Width(p.family) |-> IF i <= p.len THEN p.ip[i] ELSE 0]]

\* net.IPNet.Contains: p's address, under the mask of net, is that of net;
\* both are taken for IPv4 where they can be
Contains(net, p) ==
  LET n == To4(ipNet(net))
      a == To4(p)
  IN  n.family = a.family /\ \A i \in 1..n.len : a.ip[i] = n.ip[i]

\* Mutant of validateAllowedCIDRs: the lengths are not compared.
AllowedByAddress(cidrs, p) == \E net \in cidrs : Contains(net, p)

\* the lengths compared are those of the masks as spelled
validateAllowedCIDRs(cidrs, p) ==
  \E net \in cidrs : Contains(net, p) /\ p.len >= net.len

\* the prefix type constraint
TypeAllows(type, p) ==
  CASE type = "host_only" -> p.len = IF isIPv4(p) THEN WidthV4 ELSE WidthV6
    [] type = "subnet" /\ isIPv4(p) -> p.len \in SubnetMin..SubnetMax
    [] type = "subnet" /\ ~isIPv4(p) -> p.len # Width(p.family)
    [] type = "any" -> TRUE

ValidatePrefix(policy, p) ==
  /\ TypeAllows(policy.type, p)
  /\ policy.cidrs # {} => validateAllowedCIDRs(policy.cidrs, p)

(***************************************************************************)
(* What the policies mean, apart from how they are checked: the set of     *)
(* addresses of a prefix, IPv4 ones in their IPv4-mapped form.             *)
(***************************************************************************)
\* p with its address and its mask extended to the width of IPv6
As16(p) ==
  IF p.family = "v6" THEN p
  ELSE [family |-> "v6",
        ip |-> [i \in 1..WidthV6 |-> IF i <= Offset THEN V4InV6Prefix[i]
                                     ELSE p.ip[i - Offset]],
        len |-> Offset + p.len]

Addresses(p) ==
  {a \in Address("v6") : \A i \in 1..As16(p).len : a[i] = As16(p).ip[i]}

AllV4 == {a \in Address("v6") : \A i \in 1..Offset : a[i] = V4InV6Prefix[i]}

\* The address of the prefix is in one of the ranges.  Unless that address is
\* spelled IPv4-mapped, so are all the other addresses of the prefix, a
\* host_only prefix has no other, and a subnet has others, but not all of IPv4.
Complies(policy, p) ==
  LET ip == As16(p).ip
  IN  /\ policy.cidrs # {} => \E net \in policy.cidrs : ip \in Addresses(net)
      /\ ~Mapped(p) =>
           /\ policy.cidrs # {} =>
                \E net \in policy.cidrs : Addresses(p) \subseteq Addresses(net)
           /\ policy.type = "host_only" => Addresses(p) = {ip}
           /\ policy.type = "subnet" => Addresses(p) \notin {{ip}, AllV4}
=============================================================================
