------------------------------ MODULE MCPrefix ------------------------------
(***************************************************************************)
(* Two offline studies, one of them per behaviour: PrefixDecode on three   *)
(* interchangeable ports, or StaticStudies on boards of three ports with   *)
(* three candidate seeds, two of them used.                                *)
(***************************************************************************)
EXTENDS PrefixDecode, TLC

CONSTANTS
    Path, Gate, M_POOL, R, BASE, PERHOP, POOL_BYTES, Stride, StaticStart, Growth, Budget,
    MaxPkts     \* bound: packets of a static board

VARIABLES study, pkts

\* One-hop, two-hop and three-hop paths; gates in which two seeds do the same,
\* one seed does nothing, or all take every port.
MCPath == {{3}, {1, 2}, {2, 3}, {1, 2, 3}}
MCGate == {<<{1}, {1}, {3}>>, <<{1, 2}, {2}, {}>>, <<{2}, {1, 3}, {2}>>,
           <<{3}, {}, {1}>>, <<{1, 2, 3}, {1, 2, 3}, {1, 2, 3}>>}

MCSeedGate == {[s \in 0..2 |-> g[s + 1]] : g \in MCGate}

Static == INSTANCE StaticStudies WITH GridStart <- StaticStart

ASSUME StudyAssumption == Static!StaticAssumption

PortSymmetry == Permutations(Port)

StudyInit ==
    \/ study = "prefix" /\ Init /\ pkts = <<>>
    \/ /\ study = "static" /\ Static!Init
       /\ truth = {} /\ tests = <<>> /\ grid = <<>> /\ preds = <<>> /\ first_m = <<>>
       /\ stage = "capture"

StudyNext ==
    /\ UNCHANGED study
    /\ \/ study = "prefix" /\ Next /\ UNCHANGED pkts
       \/ study = "static" /\ Static!Next /\ UNCHANGED vars

StudySpec == StudyInit /\ [][StudyNext]_<<vars, study, pkts>>
-----------------------------------------------------------------------------
(* The static studies' properties, on their boards: see StaticStudies.      *)
FullIsFirst    == study = "static" => Static!FullIsFirst
BudgetIsKept   == study = "static" => Static!BudgetIsKept
GreedyNearBest == study = "static" => Static!GreedyNearBest
=============================================================================
