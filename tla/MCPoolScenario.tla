--------------------------- MODULE MCPoolScenario ---------------------------
(* PoolScenario on the leaf-spine corner of MCPool. *)
EXTENDS PoolScenario, TLC

Uid(sw, port) == 256 * sw + port

MCRoute == [f \in Flow |-> IF f = "fA" THEN <<Uid(1, 3), Uid(101, 2), Uid(2, 1)>>
                                       ELSE <<Uid(3, 3), Uid(101, 2), Uid(2, 1)>>]
MCFlow   == {"fA", "fB"}
MCLength == [f \in MCFlow |-> 1]
MCPort   == {Uid(1, 3), Uid(1, 4), Uid(3, 3), Uid(101, 2), Uid(101, 3), Uid(2, 1)}
ThreePorts == {Uid(1, 3), Uid(3, 3), Uid(101, 2)}
OnePort    == {Uid(1, 3)}
AllButSpine == MCPort \ {Uid(101, 2)}

MCGate(t, e, u, m, r) ==
    (7 * t + 5 * e + 3 * (u \div 256) + (u % 256) + 11 * m + 13 * r + (t + r) * (u \div 256)) % 10 < 5

PidSymmetry == Permutations(Pid)
=============================================================================
