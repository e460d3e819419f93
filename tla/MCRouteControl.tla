--------------------------- MODULE MCRouteControl ---------------------------
(* A small instance of RouteControl: IPv4 addresses of two bits, IPv6 ones of *)
(* three, those that begin with a one IPv4-mapped.                            *)
EXTENDS RouteControl, TLC

CONSTANTS Host, Ranged      \* the owners' names, by their policies

MCV4InV6 == <<1>>

V4(b1, b2, len) == [family |-> "v4", ip |-> <<b1, b2>>, len |-> len]
V6(b1, b2, b3, len) == [family |-> "v6", ip |-> <<b1, b2, b3>>, len |-> len]

\* 10/2, 11/1 (the network 1x), 10/0 (everything), the IPv4-mapped spelling of
\* 10 with the mask of an IPv4 host, and the IPv6 host 011
HostPrefix == [protocol |-> "bgp", prefix |-> V4(1, 0, 2)]
SubnetPrefix == [protocol |-> "ospf", prefix |-> V4(1, 1, 1)]
WidePrefix == [protocol |-> "bgp", prefix |-> V4(1, 0, 0)]
MappedPrefix == [protocol |-> "bgp", prefix |-> V6(1, 1, 0, 2)]
HostPrefixV6 == [protocol |-> "bgp", prefix |-> V6(0, 1, 1, 3)]
MCPrefixes == {HostPrefix, SubnetPrefix, WidePrefix, MappedPrefix, HostPrefixV6}

\* the goroutines do not differ
MCSymmetry == Permutations(Calls)

MCKind == [k \in OtherKeys |-> "peer"]

\* one owner has host routes in 1x only, another one anything in 1x and in the
\* IPv6 network 01x, and the administrator subnets anywhere
MCPolicies ==
  [o \in Owners |->
     CASE o = Host   -> [type |-> "host_only", cidrs |-> {V4(1, 0, 1)}]
       [] o = Ranged -> [type |-> "any", cidrs |-> {V4(1, 0, 1), V6(0, 1, 0, 2)}]
       [] o = Admin  -> [type |-> "subnet", cidrs |-> {}]]
=============================================================================
