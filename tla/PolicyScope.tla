------------------------------ MODULE PolicyScope ------------------------------
(***************************************************************************)
(* policy_scope: which approved-network list governs an endpoint of a      *)
(* candidate rule, and what the list says about it.  Addresses have Bits   *)
(* bits; an endpoint is an address or a CIDR as it is written, so that     *)
(* "10.0.0.4" and "10.0.0.4/30" are told apart where the code compares     *)
(* text and compared as networks where it parses them.                     *)
(*                                                                         *)
(* A configuration is a record                                             *)
(*   hosts        host address -> [source, destination], its two lists     *)
(*   zones        zone -> its networks                                     *)
(*   zonePolicy   zone -> [source, destination], a list or NoList          *)
(*   global       [source, destination], a list or NoList                  *)
(* A list is a set: only membership and equality of lists matter.          *)
(***************************************************************************)
EXTENDS Integers

CONSTANTS
    Bits,            \* width of an address
    Unparsable,      \* text that is neither an IP nor a CIDR ("unknown", a typo)
    NoList           \* a policy level that is not configured

ASSUME BitsAssumption == Bits \in Nat

Address == 0 .. (2^Bits - 1)

\* slash: whether the text has a prefix length; without one it is a host.
Network == {n \in [addr : Address, len : 0..Bits, slash : BOOLEAN] :
              n.slash \/ n.len = Bits}
Endpoint == Network \union {Unparsable}

Sides == {"source", "destination"}

-------------------------------------------------------------------------------
\* The network number of a under a prefix of length len.
Prefix(a, len) == a \div (2^(Bits - len))

\* ipaddress: v.subnet_of(n).
SubnetOf(v, n) == v.len >= n.len /\ Prefix(v.addr, n.len) = Prefix(n.addr, n.len)

Within(v, approved) == \E n \in approved : SubnetOf(v, n)

\* The approved list of the target's own configuration; {} if it has none.
\* The configuration is looked up by the text of the target.
HostList(c, target, side) ==
    IF ~target.slash /\ target.addr \in DOMAIN c.hosts
    THEN c.hosts[target.addr][side] ELSE {}

\* The zones that contain the target and state a policy, of the longest prefix.
TopZones(c, target, side) ==
    LET matches == {z \in DOMAIN c.zones :
                      c.zonePolicy[z][side] # NoList /\ Within(target, c.zones[z])}
        lengths(z) == {n.len : n \in {m \in c.zones[z] : SubnetOf(target, m)}}
    IN {z \in matches : \A y \in matches : \A k \in lengths(y) :
          \E l \in lengths(z) : l >= k}

ZoneLists(c, target, side) == {c.zonePolicy[z][side] : z \in TopZones(c, target, side)}

\* The endpoint is the target itself: the text before the slash is the target.
IsSelf(target, v) == ~target.slash /\ v.addr = target.addr

\* Mutant: an overlap is enough.
Judge_Overlap(v, approved) ==
    IF \E n \in approved : SubnetOf(v, n) \/ SubnetOf(n, v) THEN "approved" ELSE "outside"

Judge(v, approved) == IF Within(v, approved) THEN "approved" ELSE "outside"

\* _resolve_policy: host, then zone, then global; an endpoint that is the
\* target itself is judged by no list, but a zone conflict is still reported.
Status(c, target, v, side) ==
    LET host == HostList(c, target, side)
        zone == ZoneLists(c, target, side)
        global == c.global[side]
    IN IF v = Unparsable THEN "review"
       ELSE IF host # {} /\ ~IsSelf(target, v) THEN Judge(v, host)
       ELSE IF \E k, l \in zone : k # l THEN "ambiguous"
       ELSE IF IsSelf(target, v) THEN "none"
       ELSE IF zone # {} THEN Judge(v, CHOOSE l \in zone : TRUE)
       ELSE IF global \notin {NoList, {}} THEN Judge(v, global)
       ELSE "none"

\* evaluate_rule_scope for a rule of the target with these two ends.  Neither
\* caller passes a comma-separated source.
Statuses(c, target, source, destination) ==
    {Status(c, target, source, "source"), Status(c, target, destination, "destination")}

Violation(c, target, source, destination) ==
    "outside" \in Statuses(c, target, source, destination)
NeedsReview(c, target, source, destination) ==
    "ambiguous" \in Statuses(c, target, source, destination)

-------------------------------------------------------------------------------
(* The reference: what README section 13 promises, in terms of addresses.  *)

AddressesOf(n) == {a \in Address : Prefix(a, n.len) = Prefix(n.addr, n.len)}

\* A zone governs the target if it contains it and no smaller network of
\* another zone with a policy does.
Governs(c, z, target, side) ==
    /\ c.zonePolicy[z][side] # NoList
    /\ \E n \in c.zones[z] :
         /\ AddressesOf(target) \subseteq AddressesOf(n)
         /\ \A y \in DOMAIN c.zones : \A m \in c.zones[y] :
              /\ c.zonePolicy[y][side] # NoList
              /\ AddressesOf(target) \subseteq AddressesOf(m)
              => AddressesOf(n) \subseteq AddressesOf(m)

\* The peer of the target is outside what host, zone or global policy (in
\* this order) approves: some of its addresses are in no approved network.
OutsidePolicy(c, target, v, side) ==
    LET host == HostList(c, target, side)
        zone == {z \in DOMAIN c.zones : Governs(c, z, target, side)}
        outside(list) == \A n \in list : ~(AddressesOf(v) \subseteq AddressesOf(n))
    IN IF host # {} THEN outside(host)
       ELSE IF zone # {} THEN \E z \in zone : outside(c.zonePolicy[z][side])
       ELSE c.global[side] \notin {NoList, {}} /\ outside(c.global[side])
===============================================================================
