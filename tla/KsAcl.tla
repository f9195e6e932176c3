-------------------------------- MODULE KsAcl -------------------------------
(***************************************************************************)
(* Access lists (src/ks_acl.c): networks that allow or deny, each with the *)
(* number of bits of its mask; the longest one that holds an address       *)
(* decides.  Addresses have AclBits bits; the two families have the same   *)
(* width here.                                                             *)
(***************************************************************************)
EXTENDS Integers, Sequences, FiniteSetsExt, SequencesExt, Functions

CONSTANTS AclBits,      \* bits of an address
          MaxNetworks   \* bound: networks in a list

ASSUME AclConstants == AclBits \in Nat \ {0} /\ MaxNetworks \in Nat

VARIABLE acl

Addresses == 0..(2^AclBits - 1)

(* nodes: the newest first.  added: what the caller asked for, in order. *)
NewAcl(default) == [default |-> default, nodes |-> <<>>, added |-> <<>>]

AclInit == \E default \in BOOLEAN : acl = NewAcl(default)

And(a, b) == SumSet({2^k : k \in {j \in 0..(AclBits - 1) :
                                     (a \div 2^j) % 2 = 1 /\ (b \div 2^j) % 2 = 1}})

(* ks_parse_cidr: the mask of the upper bits.  For IPv4 a shift by the whole *)
(* width is undefined: it leaves nothing, or (x86) everything.               *)
PrefixMask(bits) == 2^AclBits - 2^(AclBits - bits)

CidrMasks(family, bits) ==
    IF family = 4 /\ bits = AclBits THEN {PrefixMask(bits), 0} ELSE {PrefixMask(bits)}

(* ks_test_subnet, ks_testv6_subnet: no mask asks for the address itself.    *)
TestSubnet(a, net, mask) ==
    IF mask # 0 THEN And(net, mask) = And(a, mask) ELSE net = 0 \/ net = a

Put(node, family, net, bits, ok) ==
    acl' = [acl EXCEPT !.nodes = <<node>> \o @,
                       !.added = Append(@, [family |-> family, net |-> net, bits |-> bits, ok |-> ok])]

(* ks_network_list_perform_add_cidr_token.  A caller that means every        *)
(* address writes 0/0, and no caller asks for address 0 alone.               *)
AddCidr ==
    \E family \in {4, 6}, net \in Addresses, bits \in 0..AclBits, ok \in BOOLEAN :
    \E mask \in CidrMasks(family, bits) :
        /\ Len(acl.nodes) < MaxNetworks
        /\ bits = 0 => net = 0
        /\ net = 0 => bits < AclBits
        /\ Put([family |-> family, net |-> net, mask |-> mask, bits |-> bits, ok |-> ok],
               family, net, bits, ok)

(* ks_network_list_validate_ip_token, ks_network_list_validate_ip6_token:    *)
(* a node that matches decides until one with as many bits comes.            *)
Validate(l, family, a) ==
    FoldLeft(LAMBDA so, node :
                 IF node.family = family /\ node.bits >= so.bits /\ TestSubnet(a, node.net, node.mask)
                 THEN [ok |-> node.ok, bits |-> node.bits] ELSE so,
             [ok |-> l.default, bits |-> 0], l.nodes).ok

AclNext == AddCidr

-----------------------------------------------------------------------------
(* The list holds addresses and masks of AclBits bits. *)
AclTypeOK == /\ acl.default \in BOOLEAN /\ Len(acl.nodes) = Len(acl.added)
             /\ \A i \in DOMAIN acl.nodes : acl.nodes[i].net \in Addresses /\ acl.nodes[i].mask \in Addresses

(* The answer for every address is that of the longest network of its        *)
(* family that holds it, the first one added if there are several, and the   *)
(* list's default if there is none.                                          *)
LongestDecides ==
    \A family \in {4, 6}, a \in Addresses :
        LET holds(n) == n.family = family /\ a \div 2^(AclBits - n.bits) = n.net \div 2^(AclBits - n.bits)
            held == {i \in DOMAIN acl.added : holds(acl.added[i])}
            best == {i \in held : \A j \in held : acl.added[j].bits <= acl.added[i].bits}
        IN  Validate(acl, family, a) = IF held = {} THEN acl.default ELSE acl.added[Min(best)].ok
=============================================================================
