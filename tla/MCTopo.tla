------------------------------- MODULE MCTopo -------------------------------
(***************************************************************************)
(* One packet in one of the three topologies, or baseline INT frames in    *)
(* the leaf-spine.  `net' says in which; the topology never changes.       *)
(***************************************************************************)
EXTENDS BaselineInt

CONSTANTS K, S, L, H, N, MaxHops

VARIABLES net, pk, sel

Fat  == INSTANCE FatTree
Leaf == INSTANCE LeafSpine
Line == INSTANCE LineTopo

\* Two hosts' flows to the collector, over three switches and over one, and one
\* between hosts; clocks in step and clocks that differ.
MCFlow   == {<<<<"host", 1, 1>>, Leaf!hcol>>, <<<<"host", L, 1>>, Leaf!hcol>>,
             <<<<"host", 2, 1>>, <<"host", 3, 2>>>>}
MCSwitch == {Leaf!leaf(i) : i \in 1..L} \cup {Leaf!spine(j) : j \in 1..S}
MCOffset == {[s \in MCSwitch |-> 0], [s \in MCSwitch |-> 7 * s[2] - Leaf!Swid(s)]}

MCHost   == Leaf!Host
MCPort   == 1..(L + S + H + 1)
MCAttach(h)         == Leaf!Attach(h)
MCSwid(s)           == Leaf!Swid(s)
MCNeighbor(s, port) == Leaf!Neighbor(s, port)
MCPeerPort(s, port) == Leaf!PeerPort(s, port)
MCLpm(s, dst)       == Leaf!Lpm(s, dst)
MCEcmpNhop(s, hash) == Leaf!EcmpNhop(s, hash)

ASSUME TopologyAssumptions == Fat!KAssumption /\ Leaf!SizeAssumption /\ Line!NAssumption

\* The baseline's switches have the leaf-spine's links and tables.
ASSUME BaselineIsLeafSpine ==
    /\ Group = S /\ EndHost = MCHost
    /\ \A x \in MCHost : HostPort(x) = MCAttach(x)
    /\ \A s \in MCSwitch, x \in MCHost : tb_ipv4_lpm(s, x) = MCLpm(s, x)
    /\ \A s \in MCSwitch, i \in 0..(S - 1) : tb_ecmp_nhop(s, i) = MCEcmpNhop(s, i)
    /\ \A s \in MCSwitch, x \in MCHost, i \in 0..(S - 1) :
          LET port == EgressSpec(s, x, i) IN LinkedTo(s, port) = MCNeighbor(s, port)

pool_vars == <<pk, sel>>
net_vars  == <<net, pool_vars, vars>>

Nobody == pk = [st |-> "none"] /\ sel = <<>>
NoInt  ==
    /\ flow = <<>> /\ pick = 0 /\ off = <<>> /\ clock = 0 /\ frame = <<>> /\ at = <<>>
    /\ trace = <<>> /\ captured = <<>>

NetInit ==
    \/ net = "fat-tree" /\ Fat!Net!Init /\ NoInt
    \/ net = "leaf-spine" /\ Leaf!Net!Init /\ NoInt
    \/ net = "line" /\ Line!Net!Init /\ NoInt
    \/ net = "baseline" /\ Init /\ Nobody

NetNext ==
    /\ UNCHANGED net
    /\ \/ net = "fat-tree" /\ Fat!Net!Next /\ UNCHANGED vars
       \/ net = "leaf-spine" /\ Leaf!Net!Next /\ UNCHANGED vars
       \/ net = "line" /\ Line!Net!Next /\ UNCHANGED vars
       \/ net = "baseline" /\ Next /\ UNCHANGED pool_vars

\* Switches forward what they hold.
NetSpec == NetInit /\ [][NetNext]_net_vars /\ WF_net_vars(NetNext)
-----------------------------------------------------------------------------
(* What the collector replays is what the packet crossed, on every route    *)
(* and for every outcome of the ECMP hashes (gate #0b); in the leaf-spine   *)
(* only up to the choice of the spine, and exactly for baseline frames,     *)
(* whose ECMP hash has no switch id either.  In the fat-tree the debug      *)
(* header has room for all of it.                                           *)
ReplayIsRoute ==
    /\ net = "fat-tree" => Fat!ReplayIsPath /\ Fat!PathFitsDebug
    /\ net = "leaf-spine" => Leaf!ReplayUpToSpine
    /\ net = "line" => Line!ReplayIsPath
    /\ net = "baseline" =>
          \A k \in DOMAIN captured :
              LET t == captured[k].met
              IN  [i \in DOMAIN t |-> Leaf!port_uid(t[i].sw, t[i].out)]
                    = Leaf!RouteVia(pick, flow[1], flow[2])

(* In the fat-tree with k = 4 a port_uid is a global label of the port.     *)
UidIsGlobalLabel == net = "fat-tree" => Fat!UidIsGlobalLabel

(* Every packet reaches the host it is addressed to: no table misses an     *)
(* entry, loops, or ends at another host, and no baseline frame stops being *)
(* parsed on its way.                                                       *)
Delivered == <>IF net = "baseline" THEN Len(captured) = MaxFrames
                                   ELSE pk.st = "arrived" /\ pk.at = pk.dst
=============================================================================
