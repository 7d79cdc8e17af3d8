----------------------------- MODULE LeafSpine -----------------------------
(***************************************************************************)
(* The leaf-spine network (topo/leaf_spine.py), the tables                 *)
(* control/gen_commands.py installs on it, and its reconstruct_path.       *)
(*                                                                         *)
(* A switch is <<role, index>>, a host <<"host", leaf, octet>>, its        *)
(* address being 10.0.leaf.octet.                                          *)
(***************************************************************************)
EXTENDS Integers, Sequences, FiniteSets

CONSTANTS
    S,          \* spines
    L,          \* leaves; the collector hangs on the last one
    H,          \* hosts per leaf
    MaxHops     \* bound: hops of a packet that goes round in circles

\* What the topology assumes of its constants.
SizeAssumption == {S, L, H} \subseteq Nat \ {0}

VARIABLES pk, sel

leaf(i)  == <<"leaf", i>>
spine(j) == <<"spine", j>>

Swid(s) == IF s[1] = "leaf" THEN s[2] ELSE 100 + s[2]

hcol == <<"host", L, 254>>
Host == {<<"host", i, n>> : i \in 1..L, n \in 1..H} \cup {hcol}

\* _build: uplink ports first, then the hosts', then the collector's.
LeafPort(x) == IF x = hcol THEN S + H + 1 ELSE S + x[3]
Attach(x)   == <<leaf(x[2]), LeafPort(x)>>
Neighbor(s, port) ==
    CASE s[1] = "leaf" /\ port <= S -> spine(port)
      [] s[1] = "leaf" /\ port > S  -> CHOOSE x \in Host : Attach(x) = <<s, port>>
      [] s[1] = "spine"             -> leaf(port)

\* The port at which a link's other switch is entered: spine j is behind port j of
\* each leaf, leaf i behind port i of each spine.
PeerPort(s, port) == s[2]

\* gen_for_switch: /32 local hosts, 0/0 to the spines; /24 per leaf.
\* Mutant: the spines' ports are counted from 0.
LpmFromZero(s, x) ==
    CASE Attach(x)[1] = s -> [action |-> "set_nhop", arg |-> LeafPort(x)]
      [] s[1] = "spine"   -> [action |-> "set_nhop", arg |-> (x[2] % L) + 1]
      [] OTHER            -> [action |-> "ecmp_group", arg |-> S]
Lpm(s, x) ==
    CASE Attach(x)[1] = s -> [action |-> "set_nhop", arg |-> LeafPort(x)]
      [] s[1] = "spine"   -> [action |-> "set_nhop", arg |-> x[2]]
      [] OTHER            -> [action |-> "ecmp_group", arg |-> S]
EcmpNhop(s, i) == i + 1

\* A flow is hashed with its leaf's id in the switch, and without one in the replay.
Keys(x) == {Swid(leaf(x[2])), 0}

Net == INSTANCE Forwarding WITH Group <- S

Spec == Net!Spec

-----------------------------------------------------------------------------
port_uid(s, port) == 256 * Swid(s) + port

\* The ports of a route that goes up at uplink index `up'.
RouteVia(up, src, dst) ==
    IF src[2] = dst[2] THEN <<port_uid(leaf(dst[2]), LeafPort(dst))>>
    ELSE <<port_uid(leaf(src[2]), up + 1),
           port_uid(spine(up + 1), dst[2]),
           port_uid(leaf(dst[2]), LeafPort(dst))>>

\* reconstruct_path: ecmp_select is called without a switch id.
reconstruct_path(src, dst) == RouteVia(sel[0], src, dst)

\* Every path reconstruct_path may return for some outcome of the hash.
CandidatePaths(src, dst) == {RouteVia(i, src, dst) : i \in 0..(S - 1)}

-----------------------------------------------------------------------------
(* Properties *)

(* "Replay routing + crc16 ECMP to get the egress port_uid sequence a       *)
(* packet of this 5-tuple traverses" (leaf_spine.py:104-106).               *)
ReplayIsPath ==
    pk.st = "arrived" => pk.path = reconstruct_path(pk.src, pk.dst)

(* The route itself, up to the choice of the spine, is the replayed one:    *)
(* only the ECMP key can make them differ (leaf_spine.py:112-126 against    *)
(* gen_commands.py:23-50).                                                  *)
ReplayUpToSpine ==
    pk.st = "arrived" => pk.path \in CandidatePaths(pk.src, pk.dst)
=============================================================================
