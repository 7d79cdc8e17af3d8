------------------------------- MODULE MCPool -------------------------------
(***************************************************************************)
(* A leaf-spine corner for PoolNet: leaves 1 and 3 send to a host on       *)
(* leaf 2 through spine 101; the routes share the spine's downlink and the *)
(* collector leaf's host port.  Leaf 1 has a second uplink no flow uses.   *)
(***************************************************************************)
EXTENDS PoolNet, TLC

Uid(sw, port) == 256 * sw + port

MCRoute == [f \in Flow |-> IF f = "fA" THEN <<Uid(1, 3), Uid(101, 2), Uid(2, 1)>>
                                       ELSE <<Uid(3, 3), Uid(101, 2), Uid(2, 1)>>]
MCFlow   == {"fA", "fB"}
MCLength == [f \in MCFlow |-> IF f = "fA" THEN 3 ELSE 2]
MCPort   == {Uid(1, 3), Uid(1, 4), Uid(3, 3), Uid(101, 2), Uid(101, 3), Uid(2, 1)}
SharedPort == {Uid(101, 2)}

\* A fixed hash gate in place of crc32: every metric, round, port and test id tells.
MCGate(t, e, u, m, r) ==
    (7 * t + 5 * e + 3 * (u \div 256) + (u % 256) + 11 * m + 13 * r + (t + r) * (u \div 256)) % 10 < 5

\* Symmetric packets.
PidSymmetry == Permutations(Pid)
=============================================================================
