---------------------------- MODULE StaticStudies ----------------------------
(***************************************************************************)
(* The offline comparisons on a stationary support: telemetry bytes until  *)
(* the faults are localised (control/m3b_offline.py, m3b1b_study.py),      *)
(* recall under a byte budget (m3b2_pareto.py) and the choice of the       *)
(* membership seeds (m3seed.py).  All replay one captured board: the paths *)
(* of its packets and, for every candidate seed, the ports the hash gate   *)
(* makes members.  The board is loaded packet by packet; what the studies  *)
(* compute of it are operators, and the properties are about every set S   *)
(* of faults placed on it and about every board a capture may leave.       *)
(***************************************************************************)
EXTENDS Integers, Sequences, FiniteSets, SequencesExt, FiniteSetsExt, GroupTest

CONSTANTS
    Path,           \* the paths of packets, as sets of ports
    Gate,           \* memberships the hash may give: [seed -> set of ports]
    M_POOL, R,      \* candidate seeds 0 .. M_POOL - 1, and how many are used
    BASE, PERHOP, POOL_BYTES, \* bytes of the cost models
    Stride,         \* one packet in Stride is sampled
    GridStart, Growth,  \* prefix grid: 8, 1.6 in m3b_offline, in tenths
    Budget,         \* byte budgets below the whole board's
    MaxPkts         \* bound: packets of the board

StaticAssumption ==
    /\ \A path \in Path : IsFiniteSet(path)
    /\ {M_POOL, R, BASE, PERHOP, POOL_BYTES, Stride, GridStart, MaxPkts} \subseteq Nat
    /\ R \in 1..M_POOL /\ POOL_BYTES > 0 /\ GridStart > 0 /\ Stride > 0
    /\ Growth \in Nat /\ Growth >= 10
    /\ IsFiniteSet(Budget) /\ Budget \subseteq Nat

VARIABLE pkts       \* the board: path and memberships of each packet

Seed == 0..(M_POOL - 1)

Init == pkts = <<>>

\* A line of the capture with a path.
Load(path, gate) ==
    /\ Len(pkts) < MaxPkts
    /\ pkts' = Append(pkts, [path |-> path, mem |-> [s \in Seed |-> gate[s] \cap path]])

Next == \E path \in Path, gate \in Gate : Load(path, gate)

\* The ports faults are placed on.  m3b1b and m3b2 draw them from those that are
\* members somewhere, a part of these.
npk        == Len(pkts)
observable == UNION {pkts[i].path : i \in 1..npk}
Placements == (SUBSET observable) \ {{}}

-----------------------------------------------------------------------------
(* Prefixes and bytes *)

\* m = int(m * growth) + 1, as long as m is below the number of packets.
grid_point[i \in Nat] == IF i = 0 THEN GridStart ELSE (grid_point[i - 1] * Growth) \div 10 + 1
grid_turns  == Min({i \in 0..npk : grid_point[i] >= npk})
prefix_grid == [k \in 1..(grid_turns + 1) |-> IF k <= grid_turns THEN grid_point[k - 1] ELSE npk]

pkt_bytes(i)  == BASE + PERHOP * Cardinality(pkts[i].path)
bytes_of(P)   == MapThenSumSet(pkt_bytes, P)
sampled(m)    == {i \in 1..m : (i - 1) % Stride = 0}

\* Faults seen on the paths of the packets P: what INT reveals.
crossed(S, P) == S \cap UNION {pkts[i].path : i \in P}

\* The tests of the first m packets, and what comp_dd names.
gated(seeds, m) == {x \in (1..m) \X seeds : pkts[x[1]].mem[x[2]] # {}}
rows(seeds, S, m) ==
    {[mem |-> pkts[x[1]].mem[x[2]], y |-> Pooled(pkts[x[1]].mem[x[2]], S)] :
        x \in gated(seeds, m)}
\* Mutant: the bits are tested against the path, not against the members.
est_path(seeds, S, m) ==
    Definite({[mem |-> pkts[x[1]].mem[x[2]], y |-> Pooled(pkts[x[1]].path, S)] :
                  x \in gated(seeds, m)})
est(seeds, S, m) == Definite(rows(seeds, S, m))

\* F1 reaches 0.95.
good(pred, S) ==
    LET tp2 == 2 * TruePos(pred, S)
    IN  tp2 > 0 /\ 100 * tp2 >= 95 * (tp2 + FalsePos(pred, S) + FalseNeg(pred, S))

\* A curve: bytes spent and ports named at each prefix length.
full_curve(S) ==
    [k \in DOMAIN prefix_grid |->
        [bytes |-> bytes_of(1..prefix_grid[k]), found |-> crossed(S, 1..prefix_grid[k])]]
samp_curve(S) ==
    [k \in DOMAIN prefix_grid |->
        LET P == sampled(prefix_grid[k]) IN [bytes |-> bytes_of(P), found |-> crossed(S, P)]]
pool_curve(seeds, S) ==
    [k \in DOMAIN prefix_grid |->
        [bytes |-> POOL_BYTES * prefix_grid[k], found |-> est(seeds, S, prefix_grid[k])]]

\* Where the curve reaches F1 0.95 to stay, or its first such point; 0 for None.
to_f1(curve, S) ==
    LET from == {k \in DOMAIN curve : \A j \in k..Len(curve) : good(curve[j].found, S)}
    IN  IF from = {} THEN 0 ELSE Min(from)
first_f1(curve, S) ==
    LET at == {k \in DOMAIN curve : good(curve[k].found, S)}
    IN  IF at = {} THEN 0 ELSE Min(at)

-----------------------------------------------------------------------------
(* Byte budgets *)

total_real == bytes_of(1..npk)
bgrid      == {B \in Budget : B < total_real} \cup {total_real}

\* cum_real at the first crossing: the bytes of the packets before it.
first_crossing(e)    == Min({i \in 1..npk : e \in pkts[i].path})
full_reveal_bytes(e) == bytes_of(1..(first_crossing(e) - 1))

\* Mutant: the packet at the edge of the budget is decoded as well.
pool_pkts_over(B) == Min({npk, Max({1, B \div POOL_BYTES + 1})})
pool_pkts(B)      == Min({npk, Max({1, B \div POOL_BYTES})})
pool_found(S, B)  == est(0..(R - 1), S, pool_pkts(B))

\* bzero: the smallest budget from which PoolINT misses nothing, -1 for None.
bzero(S) ==
    LET from == {B \in bgrid : \A C \in bgrid : C >= B => S \subseteq pool_found(S, C)}
    IN  IF from = {} THEN -1 ELSE Min(from)

-----------------------------------------------------------------------------
(* Seeds *)

Pairs(P) == kSubset(2, P)
universe == UNION {Pairs(pkts[k].path) : k \in 1..npk}

\* Pairs on one packet's path of which the seed makes exactly one a member.
Dset(s) ==
    UNION {{p \in Pairs(pkts[k].path) : Cardinality(p \cap pkts[k].mem[s]) = 1} : k \in 1..npk}
cover(seeds) == UNION {Dset(s) : s \in seeds}

\* Mutant: each seed's own pairs count, not what it adds.
best_alone(chosen) ==
    LET left == Seed \ chosen
    IN  Min({s \in left : \A t \in left : Cardinality(Dset(s)) >= Cardinality(Dset(t))})
\* max(remaining, key = what the seed adds): the first of the largest.
best(chosen) ==
    LET left    == Seed \ chosen
        adds(s) == Cardinality(Dset(s) \ cover(chosen))
    IN  Min({s \in left : \A t \in left : adds(s) >= adds(t)})

opt_seeds == FoldLeft(LAMBDA chosen, r : chosen \cup {best(chosen)}, {}, [r \in 1..R |-> r])

-----------------------------------------------------------------------------
(* Properties *)

(* Full-INT "localises any on-path fault, so its bytes-to-F1 is ALWAYS      *)
(* finite" (m3b1b_study.py:11-13), its first good prefix is the stable one  *)
(* that the other curves are measured by, and no scheme needs fewer         *)
(* packets, whatever seeds it uses: sampling and the decoder name at every  *)
(* prefix a part of what Full-INT has crossed.                              *)
FullIsFirst ==
    npk > 0 =>
        \A S \in Placements :
            LET full == full_curve(S)
            IN  /\ to_f1(full, S) > 0 /\ to_f1(full, S) = first_f1(full, S)
                /\ \A other \in {samp_curve(S), pool_curve(0..(R - 1), S),
                                 pool_curve(opt_seeds, S)} :
                      /\ \A k \in DOMAIN full : other[k].found \subseteq full[k].found
                      /\ to_f1(other, S) = first_f1(other, S)
                      /\ to_f1(other, S) > 0 => to_f1(other, S) >= to_f1(full, S)

(* Under a budget PoolINT spends no more than it, unless one packet is      *)
(* already more, and a larger budget loses no fault, so the budget from     *)
(* which it misses nothing is the first with full recall                    *)
(* (m3b2_pareto.py:132-150).  Full-INT's reveal bytes leave out the packet  *)
(* that reveals: the last fault is on the record one packet later, at the   *)
(* bytes the other study charges for a prefix that ends there.              *)
BudgetIsKept ==
    npk > 0 =>
        \A S \in Placements :
            /\ \A B \in bgrid : POOL_BYTES * pool_pkts(B) <= Max({B, POOL_BYTES})
            /\ \A B, C \in bgrid : B <= C => pool_found(S, B) \subseteq pool_found(S, C)
            /\ bzero(S) = LET all == {B \in bgrid : pool_found(S, B) = S}
                          IN  IF all = {} THEN -1 ELSE Min(all)
            /\ LET last == Max({first_crossing(e) : e \in S})
               IN  /\ Max({full_reveal_bytes(e) : e \in S}) + pkt_bytes(last) = bytes_of(1..last)
                   /\ crossed(S, 1..last) = S /\ crossed(S, 1..(last - 1)) # S

\* b to the power e, written out: the provers have no facts about ^.
power(b) == LET p[e \in Nat] == IF e = 0 THEN 1 ELSE b * p[e - 1] IN p

(* The greedy choice of R seeds distinguishes at least the fraction         *)
(* 1 - (1 - 1/R)^R of what the best R seeds would, the bound of the         *)
(* submodular cover that m3seed.py:13-15 invokes; f_opt never exceeds 1.    *)
GreedyNearBest ==
    /\ cover(opt_seeds) \subseteq universe
    /\ \A Q \in kSubset(R, Seed) :
          power(R)[R] * Cardinality(cover(opt_seeds))
              >= (power(R)[R] - power(R - 1)[R]) * Cardinality(cover(Q))
=============================================================================
