------------------------------ MODULE LineTopo ------------------------------
(***************************************************************************)
(* The line of N switches (topo/line_topo.py): its tables and its          *)
(* reconstruct_path.  Switch i is <<"line", i>>; hA hangs on the first     *)
(* switch, the collector hcol on the last.                                 *)
(***************************************************************************)
EXTENDS Integers, Sequences

CONSTANTS
    N,
    MaxHops     \* bound: hops of a packet that goes round in circles

\* What the topology assumes of its constant.
NAssumption == N \in Nat /\ N > 1

VARIABLES pk, sel

Swid(s) == s[2]
hA      == <<"hA", 1>>
hcol    == <<"hcol", N>>
Host    == {hA, hcol}

LeafPort(x) == 3
Attach(x)   == <<<<"line", x[2]>>, LeafPort(x)>>
Neighbor(s, port) ==
    CASE port = 1 -> <<"line", s[2] - 1>>
      [] port = 2 -> <<"line", s[2] + 1>>
      [] port = 3 -> CHOOSE x \in Host : Attach(x)[1] = s

\* gen_commands_line.  Mutant: the last switch hands everything back.
LpmBack(s, x) ==
    [action |-> "set_nhop",
     arg    |-> CASE x[2] = s[2] /\ s[2] < N -> LeafPort(x)
                  [] x[2] > s[2]             -> 2
                  [] OTHER                   -> 1]
Lpm(s, x) ==
    [action |-> "set_nhop",
     arg    |-> CASE x[2] = s[2] -> LeafPort(x)
                  [] x[2] > s[2] -> 2
                  [] x[2] < s[2] -> 1]
EcmpNhop(s, i) == 1     \* no ECMP on a line
Keys(x)        == {0}

Net == INSTANCE Forwarding WITH Group <- 1

port_uid(s, port) == 256 * Swid(s) + port

\* Mutant: the walk towards lower switches leaves by the wrong port.
ReplayUpOnly(src, dst) ==
    LET D == IF dst[2] > src[2] THEN dst[2] - src[2] ELSE src[2] - dst[2]
        step == IF dst[2] > src[2] THEN 1 ELSE -1
    IN  [k \in 1..D |-> port_uid(<<"line", src[2] + step * (k - 1)>>, 2)]
        \o <<port_uid(<<"line", dst[2]>>, LeafPort(dst))>>

\* reconstruct_path: walk switch by switch towards the destination's.
reconstruct_path(src, dst) ==
    LET D == IF dst[2] > src[2] THEN dst[2] - src[2] ELSE src[2] - dst[2]
        step == IF dst[2] > src[2] THEN 1 ELSE -1
    IN  [k \in 1..D |-> port_uid(<<"line", src[2] + step * (k - 1)>>, IF step > 0 THEN 2 ELSE 1)]
        \o <<port_uid(<<"line", dst[2]>>, LeafPort(dst))>>

-----------------------------------------------------------------------------
(* Properties *)

(* The walk of the replay is the route of the tables, in both directions    *)
(* (line_topo.py:68-89 against 105-129).                                    *)
ReplayIsPath ==
    pk.st = "arrived" => pk.path = reconstruct_path(pk.src, pk.dst)
=============================================================================
