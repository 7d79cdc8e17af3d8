----------------------------- MODULE GroupTest -----------------------------
(***************************************************************************)
(* Group-testing decode of the PoolINT collector, as operators on sets.    *)
(*                                                                         *)
(* A test is a record [mem, y]: the set of port_uids the hash gate made    *)
(* members of one (packet, round) and the syndrome bit read from the       *)
(* packet.  The code keeps rows and y as parallel lists; comp_dd reads     *)
(* them only through unions, subtractions and a per-row condition, so a    *)
(* SET of tests determines its result (module PrefixDecode checks this     *)
(* against the loops of the code).                                         *)
(***************************************************************************)
EXTENDS Naturals, FiniteSets

\* Every port that is a member of some test.
Columns(T) == UNION {t.mem : t \in T}

\* Ports that a negative test shows healthy.
Cleared(T) == UNION {t.mem : t \in {u \in T : u.y = 0}}

\* COMP: ports no negative test has cleared.
Suspects(T) == Columns(T) \ Cleared(T)

\* DD: the only suspect of some positive test.
Definite(T) ==
    {p \in Suspects(T) : \E t \in T : t.y = 1 /\ t.mem \cap Suspects(T) = {p}}

\* The bit a pooled test of the member set mem carries when F is faulty.
Pooled(mem, F) == IF mem \cap F = {} THEN 0 ELSE 1

\* Confusion counts of prf1.
TruePos(D, F)  == Cardinality(D \cap F)
FalsePos(D, F) == Cardinality(D \ F)
FalseNeg(D, F) == Cardinality(F \ D)

\* Every test of T reports what a pooled test of F reports.
Consistent(T, F) == \A t \in T : t.y = Pooled(t.mem, F)
=============================================================================
