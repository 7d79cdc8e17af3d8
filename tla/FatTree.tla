------------------------------ MODULE FatTree ------------------------------
(***************************************************************************)
(* The k-ary fat-tree (topo/fat_tree.py), the tables control/              *)
(* fat_tree_cmds.py installs on it, and reconstruct_path, the replay by    *)
(* which injector and collector name the ports a packet crossed.           *)
(*                                                                         *)
(* A switch is <<role, pod or group, position>>, a host <<"host", pod,     *)
(* edge, octet>>, its address being 10.pod.edge.octet.                     *)
(***************************************************************************)
EXTENDS Integers, Sequences, FiniteSets

CONSTANTS
    K,
    MaxHops     \* bound: hops of a packet that goes round in circles

\* What the topology assumes of its constants.
KAssumption == K \in Nat /\ K > 0 /\ K % 2 = 0

VARIABLES pk, sel

h   == K \div 2
Pod == 0..(K - 1)
Pos == 0..(h - 1)

edge(p, e) == <<"edge", p, e>>
agg(p, a)  == <<"agg", p, a>>
core(a, c) == <<"core", a, c>>

Switch == {edge(p, e) : p \in Pod, e \in Pos} \cup {agg(p, a) : p \in Pod, a \in Pos}
          \cup {core(a, c) : a \in Pos, c \in Pos}

\* Mutants: the tiers' ids overlap; the core's ids start at 253.
SwidHigh(s) == (CASE s[1] = "edge" -> 1 [] s[1] = "agg" -> 11 [] s[1] = "core" -> 253)
               + h * s[2] + s[3]
SwidOverlap(s) == (CASE s[1] = "edge" -> 1 [] s[1] = "agg" -> 5 [] s[1] = "core" -> 41)
                  + h * s[2] + s[3]

\* _name_switches: each tier counts on from its first id.
Swid(s) == (CASE s[1] = "edge" -> 1 [] s[1] = "agg" -> 11 [] s[1] = "core" -> 41)
           + h * s[2] + s[3]

hcol == <<"host", K - 1, h - 1, 254>>
Host == {<<"host", p, e, n + 1>> : p \in Pod, e \in Pos, n \in Pos} \cup {hcol}

\* _build: ports and what they lead to.  The collector has the port after the hosts'.
LeafPort(x) == IF x = hcol THEN 2 * h + 1 ELSE h + x[4]
Attach(x)   == <<edge(x[2], x[3]), LeafPort(x)>>
Neighbor(s, port) ==
    CASE s[1] = "edge" /\ port <= h -> agg(s[2], port - 1)
      [] s[1] = "edge" /\ port > h  -> CHOOSE x \in Host : Attach(x) = <<s, port>>
      [] s[1] = "agg" /\ port <= h  -> core(s[3], port - 1)
      [] s[1] = "agg" /\ port > h   -> edge(s[2], port - h - 1)
      [] s[1] = "core"              -> agg(port - 1, s[2])

\* gen_for_switch
Lpm(s, x) ==
    CASE s[1] = "edge" /\ Attach(x)[1] = s -> [action |-> "set_nhop", arg |-> LeafPort(x)]
      [] s[1] = "agg" /\ x[2] = s[2]       -> [action |-> "set_nhop", arg |-> h + x[3] + 1]
      [] s[1] = "core"                     -> [action |-> "set_nhop", arg |-> x[2] + 1]
      [] OTHER                             -> [action |-> "ecmp_group", arg |-> h]
EcmpNhop(s, i) == i + 1

\* The keys a flow of x is hashed with: its edge's id and those of its pod's aggs.
Keys(x) == {Swid(edge(x[2], x[3]))} \cup {Swid(agg(x[2], a)) : a \in Pos}

Net == INSTANCE Forwarding WITH Group <- h

Spec == Net!Spec

-----------------------------------------------------------------------------
port_uid(s, port) == 256 * Swid(s) + port

\* Mutant: one hash decides for both levels.
ReplayOneHash(src, dst) ==
    LET ed  == edge(src[2], src[3])
        a   == sel[Swid(ed)]
        ag  == agg(src[2], a)
        end == port_uid(edge(dst[2], dst[3]), LeafPort(dst))
    IN  CASE edge(dst[2], dst[3]) = ed -> <<end>>
          [] edge(dst[2], dst[3]) # ed /\ src[2] = dst[2] ->
                <<port_uid(ed, a + 1), port_uid(ag, h + dst[3] + 1), end>>
          [] OTHER ->
                <<port_uid(ed, a + 1), port_uid(ag, a + 1),
                  port_uid(core(a, a), dst[2] + 1),
                  port_uid(agg(dst[2], a), h + dst[3] + 1), end>>

\* reconstruct_path
reconstruct_path(src, dst) ==
    LET ed  == edge(src[2], src[3])
        a   == sel[Swid(ed)]
        ag  == agg(src[2], a)
        c   == sel[Swid(ag)]
        end == port_uid(edge(dst[2], dst[3]), LeafPort(dst))
    IN  CASE edge(dst[2], dst[3]) = ed -> <<end>>
          [] edge(dst[2], dst[3]) # ed /\ src[2] = dst[2] ->
                <<port_uid(ed, a + 1), port_uid(ag, h + dst[3] + 1), end>>
          [] OTHER ->
                <<port_uid(ed, a + 1), port_uid(ag, c + 1),
                  port_uid(core(a, c), dst[2] + 1),
                  port_uid(agg(dst[2], a), h + dst[3] + 1), end>>

(* Injection looks a port_uid up by its switch id, taking the first switch  *)
(* of edges, aggs, cores that has it (m3a_runner.inject_fault).             *)
Rank(s) == (CASE s[1] = "edge" -> 0 [] s[1] = "agg" -> 1 [] s[1] = "core" -> 2)
SwitchOf(id) ==
    CHOOSE s \in Switch : Swid(s) = id /\ \A t \in Switch : Swid(t) = id => Rank(s) <= Rank(t)

-----------------------------------------------------------------------------
(* Properties *)

(* What the collector replays is what the packet crossed, on every route    *)
(* and for every outcome of the ECMP hash (gate #0b, fat_tree.py:166-210    *)
(* against fat_tree_cmds.py:19-62 and poolint.p4:66-84).                    *)
ReplayIsPath ==
    pk.st = "arrived" => pk.path = reconstruct_path(pk.src, pk.dst)

(* A route has at most five hops, so dbg_path, which keeps eight, never     *)
(* forgets one, and each of its switch ids fits the byte it is packed into  *)
(* (headers.p4:130-132, fat_tree.py:23-24).                                 *)
PathFitsDebug ==
    /\ Len(pk.path) <= 8
    /\ \A i \in DOMAIN pk.path : pk.path[i] \div 256 \in 1..255

(* A fault injected for a port the packet crossed lands on that very port:  *)
(* "port_uid = (switch_id<<8)|egress_port is a 16-bit GLOBAL LABEL"         *)
(* (headers.p4:37).                                                         *)
UidIsGlobalLabel ==
    pk.st = "switch" => SwitchOf(Swid(pk.at)) = pk.at
=============================================================================
