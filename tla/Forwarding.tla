----------------------------- MODULE Forwarding -----------------------------
(***************************************************************************)
(* One packet through the tables of a PoolINT network: PoolIngress of each *)
(* switch (tb_swid, tb_int_source, tb_ipv4_lpm, tb_ecmp_nhop) and the part *)
(* of PoolEgress that labels the egress port.  The topology is given by    *)
(* constant operators, which the topology modules instantiate with what    *)
(* their command generators install.                                       *)
(*                                                                         *)
(* The CRC-16 of a flow's ECMP key is some number the module knows nothing *)
(* about: `sel' is chosen with the flow and maps every key to its result,  *)
(* already reduced to the group.  A key is the switch id the hash includes *)
(* next to the 5-tuple, or 0 for the 5-tuple alone.                        *)
(***************************************************************************)
EXTENDS Integers, Sequences

CONSTANTS
    Host,
    Attach(_),      \* the <<switch, port>> a host hangs on
    Swid(_),        \* tb_swid of a switch
    Neighbor(_,_),  \* what is behind a port of a switch
    Lpm(_,_),       \* tb_ipv4_lpm of a switch, at the address of a host
    EcmpNhop(_,_),  \* tb_ecmp_nhop of a switch
    Keys(_),        \* ECMP keys of a source host's flows
    Group,          \* ECMP group size
    MaxHops         \* bound: hops of a packet that goes round in circles

VARIABLES
    pk,     \* the packet: source, destination, place, header or not, ports labelled
    sel     \* the flow's ECMP hash results

vars == <<pk, sel>>

Uid(s, port) == 256 * Swid(s) + port

Init ==
    /\ \E src, dst \in Host :
          /\ src # dst
          /\ pk = [src |-> src, dst |-> dst, st |-> "host", at |-> Attach(src)[1],
                   pool |-> FALSE, path |-> <<>>]
    /\ sel \in [Keys(pk.src) -> 0..(Group - 1)]

\* The source host sends: tb_int_source marks its switch's host-facing port.
Send ==
    /\ pk.st = "host"
    /\ pk' = [pk EXCEPT !.st = "switch", !.pool = TRUE]
    /\ UNCHANGED sel

\* The egress of `port' labels the hop, and the link carries the packet on.
Emit(port) ==
    LET next == Neighbor(pk.at, port)
    IN  pk' = [pk EXCEPT !.path = IF pk.pool THEN Append(@, Uid(pk.at, port)) ELSE @,
                         !.at = next,
                         !.st = IF next \in Host THEN "arrived" ELSE "switch"]

\* set_nhop
Forward ==
    /\ pk.st = "switch" /\ Len(pk.path) < MaxHops
    /\ Lpm(pk.at, pk.dst).action = "set_nhop"
    /\ Emit(Lpm(pk.at, pk.dst).arg)
    /\ UNCHANGED sel

\* ecmp_group, then tb_ecmp_nhop
ForwardEcmp ==
    /\ pk.st = "switch" /\ Len(pk.path) < MaxHops
    /\ Lpm(pk.at, pk.dst).action = "ecmp_group"
    /\ Emit(EcmpNhop(pk.at, sel[Swid(pk.at)]))
    /\ UNCHANGED sel

Next == Send \/ Forward \/ ForwardEcmp

Spec == Init /\ [][Next]_vars
=============================================================================
