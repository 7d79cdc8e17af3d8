---------------------------- MODULE PrefixDecode ----------------------------
(***************************************************************************)
(* The offline sample-complexity study (control/m3a_prefix.py): the tests  *)
(* of a capture, in time order, are decoded by COMP + DD                   *)
(* (poolint_collector.comp_dd) on the prefixes of a doubling grid, and the *)
(* report says from which prefix on each fault is recovered and F1 stays   *)
(* above its threshold.  The support is stationary: each test's bit is the *)
(* pooled outcome of the faults (module PoolScenario is where that holds). *)
(***************************************************************************)
EXTENDS Integers, Sequences, FiniteSets, SequencesExt, GroupTest

CONSTANTS
    Port,       \* ports on the captured paths
    GridStart,  \* 10 in the code: the first prefix length
    MaxTests    \* bound: tests of a capture

ASSUME PrefixAssumption ==
    /\ IsFiniteSet(Port)
    /\ GridStart \in Nat \ {0}
    /\ MaxTests \in Nat

VARIABLES
    truth,  \* "fail_ports"
    tests,  \* rows and ys: the tests in capture order
    grid,   \* the prefix lengths to decode, empty before the sweep
    preds,  \* preds[k]: what DD named at the k-th prefix length
    first_m,\* first grid length at which each fault was named, 0 for None
    stage   \* "capture", "sweep", "done"

vars == <<truth, tests, grid, preds, first_m, stage>>

-----------------------------------------------------------------------------
(* comp_dd, as its loops over the parallel lists rows and y compute it *)

cols(rows) == FoldLeft(LAMBDA acc, t : acc \cup t.mem, {}, rows)

suspects(rows) ==
    FoldLeft(LAMBDA acc, t : IF t.y = 0 THEN acc \ t.mem ELSE acc, cols(rows), rows)

\* Mutants: one pass, so a test is read before later ones have cleared its members;
\* a positive test names all its suspects.
definite_one_pass(rows) ==
    FoldLeft(LAMBDA acc, k :
                 LET s == rows[k].mem \cap suspects(SubSeq(rows, 1, k))
                 IN  IF rows[k].y = 1 /\ Cardinality(s) = 1 THEN acc \cup s ELSE acc,
             {}, [k \in 1..Len(rows) |-> k])
definite_pairs(rows) ==
    FoldLeft(LAMBDA acc, t : LET s == t.mem \cap suspects(rows)
                             IN  IF t.y = 1 /\ Cardinality(s) <= 2 THEN acc \cup s ELSE acc,
             {}, rows)

definite(rows) ==
    FoldLeft(LAMBDA acc, t : LET s == t.mem \cap suspects(rows)
                             IN  IF t.y = 1 /\ Cardinality(s) = 1 THEN acc \cup s ELSE acc,
             {}, rows)

\* Mutant: decode only the tests since the grid length before.
decode_chunk(m)  == definite(SubSeq(tests, m \div 2 + 1, m))
decode_prefix(m) == definite(SubSeq(tests, 1, m))

\* The lengths the loop of m_grid comes to: GridStart, doubled at every turn.
doubled[i \in Nat] == IF i = 0 THEN GridStart ELSE 2 * doubled[i - 1]

\* How often the loop turns: while the length is below n.
turns(n) == Min({i \in 0..n : doubled[i] >= n})

\* Mutant: the grid drops the whole capture.
m_grid_open(n) == IF turns(n) = 0 THEN <<n>> ELSE [k \in 1..turns(n) |-> doubled[k - 1]]
m_grid(n)      == [k \in 1..(turns(n) + 1) |-> IF k <= turns(n) THEN doubled[k - 1] ELSE n]

\* prf1's F1 reaches 0.95: 2 tp / (2 tp + fp + fn), and 1 when both sets are empty.
Good(pred) ==
    LET tp2 == 2 * TruePos(pred, truth)
    IN  \/ pred = {} /\ truth = {}
        \/ tp2 > 0 /\ 100 * tp2 >= 95 * (tp2 + FalsePos(pred, truth) + FalseNeg(pred, truth))

-----------------------------------------------------------------------------
Init ==
    /\ truth \in SUBSET Port
    /\ tests = <<>> /\ grid = <<>> /\ preds = <<>>
    /\ first_m = [t \in truth |-> 0]
    /\ stage = "capture"

\* A captured packet yields a test; rounds without a member yield none.
AddTest(mem) ==
    /\ stage = "capture" /\ Len(tests) < MaxTests
    /\ mem # {}
    /\ tests' = Append(tests, [mem |-> mem, y |-> Pooled(mem, truth)])
    /\ UNCHANGED <<truth, grid, preds, first_m, stage>>

StartSweep ==
    /\ stage = "capture"
    /\ stage' = "sweep" /\ grid' = m_grid(Len(tests))
    /\ UNCHANGED <<truth, tests, preds, first_m>>

\* One turn of the loop over the grid.
DecodeNext ==
    LET m    == grid[Len(preds) + 1]
        pred == decode_prefix(m)
    IN  /\ stage = "sweep" /\ Len(preds) < Len(grid)
        /\ preds' = Append(preds, pred)
        /\ first_m' = [t \in truth |-> IF t \in pred /\ first_m[t] = 0 THEN m ELSE first_m[t]]
        /\ UNCHANGED <<truth, tests, grid, stage>>

Report ==
    /\ stage = "sweep" /\ Len(preds) = Len(grid)
    /\ stage' = "done"
    /\ UNCHANGED <<truth, tests, grid, preds, first_m>>

Next ==
    \/ \E mem \in SUBSET Port : AddTest(mem)
    \/ StartSweep
    \/ DecodeNext
    \/ Report

Spec == Init /\ [][Next]_vars

\* "stable_recovered_m": the first grid length from which on t is always named.
stable_m(t) ==
    LET from == {i \in DOMAIN grid : \A j \in i..Len(grid) : t \in preds[j]}
    IN  IF from = {} THEN 0 ELSE grid[CHOOSE i \in from : \A j \in from : i <= j]

\* "min_m_global_f1_0.95": the first grid length from which on F1 stays good, -1 for None.
min_m ==
    LET from == {i \in DOMAIN grid : \A j \in i..Len(grid) : Good(preds[j])}
    IN  IF from = {} THEN -1 ELSE grid[CHOOSE i \in from : \A j \in from : i <= j]

\* "indistinguishable_groups": ports that are members of the same tests.
Column(u) == {i \in DOMAIN tests : u \in tests[i].mem}
Twins     == {x \in Port \X Port : x[1] # x[2] /\ Column(x[1]) # {} /\ Column(x[1]) = Column(x[2])}

-----------------------------------------------------------------------------
(* Properties *)

(* The loops of comp_dd compute COMP and DD of the set of tests: neither    *)
(* the order of the reports nor a repeated row matters, which is what lets  *)
(* reordered and duplicated reports be decoded                              *)
(* (poolint_collector.py:96-109).  And a port that shares its column with   *)
(* another one is never named, however many tests arrive: the groups of     *)
(* "target_in_indist" are what DD cannot resolve (m3a_prefix.py:157-167).   *)
DecodeIsOrderFree ==
    /\ cols(tests) = Columns(ToSet(tests))
    /\ suspects(tests) = Suspects(ToSet(tests))
    /\ definite(tests) = Definite(ToSet(tests))
    /\ \A x \in Twins : x[1] \notin definite(tests)

(* Recovery is monotone: the first length at which a fault is named is the  *)
(* stable one, so the report's two columns never differ; no prefix names a  *)
(* healthy port; and the smallest prefix with a good F1 is already the one  *)
(* from which it stays good (m3a_prefix.py:133-154).                        *)
RecoveryIsStable ==
    /\ \A k \in DOMAIN preds : preds[k] \subseteq truth
    /\ stage = "done" =>
          /\ grid[Len(grid)] = Len(tests)
          /\ \A t \in truth : stable_m(t) = first_m[t]
          /\ \A i \in DOMAIN grid : Good(preds[i]) => \E j \in 1..i : grid[j] = min_m
=============================================================================
