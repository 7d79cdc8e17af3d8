---------------------------- MODULE CaptureProofs ----------------------------
(***************************************************************************)
(* What a session of m3a_runner keeps to, for every set of flows and every *)
(* number of faults asked for, however its captures end: the run's reports *)
(* were taken under one fault set, the probe's before any fault, and the   *)
(* targets reach from the least to the most covered port.                  *)
(***************************************************************************)
EXTENDS CaptureRun, DataProofs, SequenceTheorems

(***************************************************************************)
(* The ports are whatever pick_targets returns: T is a set they are in.    *)
(***************************************************************************)
State     == {"none", "starting", "sniffing", "closed", "crashed", "killed"}
LineOf(T) == [new : BOOLEAN, flow : Flow, faults : SUBSET T]
Lines(T)  == Seq(LineOf(T))

Typed(T) ==
    /\ phase \in Phase /\ d \in Nat /\ next \in Nat \ {0}
    /\ targets \in Seq(T) /\ fault \subseteq T
    /\ cap \in [Phase -> [st : State, buf : Lines(T)]]
    /\ file \in [Phase -> [exists : BOOLEAN, torn : BOOLEAN, lines : Lines(T)]]
    /\ rec \in [Phase -> Lines(T)]
    /\ seen \in Lines(T)

Types == \E T : Typed(T)

\* The first k - 1 targets, and those from the k-th on.
Given(s, k) == {s[i] : i \in 1..(k - 1)}
Left(s, k)  == {s[i] : i \in k..Len(s)}

\* Nothing of the run is there before its capture is started.
Before ==
    phase = "probe" \/ pc \in {"pick", "inject", "start", "error"} =>
        cap["run"].st = "none" /\ rec["run"] = <<>>

Stages ==
    /\ phase = "probe" =>
          /\ pc \in {"start", "flows", "wait", "pkill", "read", "error"}
          /\ next = 1 /\ fault = {} /\ targets = <<>> /\ seen = <<>>
    /\ phase = "run" =>
          pc \in {"pick", "inject", "start", "flows", "wait", "pkill", "clear", "done", "error"}
    /\ pc \in {"pick", "error"} => next = 1 /\ fault = {} /\ targets = <<>>
    /\ pc \in {"clear", "done"} => ~ flows

\* The faults while they are written, during the run, and while they are cleared.
Faults ==
    /\ pc = "inject" =>
          /\ next <= Len(targets) + 1
          /\ fault \subseteq Given(targets, next)
          /\ missed \/ fault = Given(targets, next)
    /\ phase = "run" /\ pc \in {"start", "flows", "wait", "pkill"} =>
          /\ fault \subseteq ToSet(targets)
          /\ missed \/ fault = ToSet(targets)
          /\ \A l \in ToSet(rec["run"]) : l.faults = fault
    /\ pc = "clear" => missed \/ fault \subseteq Left(targets, next)
    /\ pc = "done" => missed \/ fault = {}

Run ==
    /\ \A l, m \in ToSet(rec["run"]) : l.faults = m.faults
    /\ \A l \in ToSet(rec["run"]) :
          l.faults \subseteq ToSet(targets) /\ (missed \/ l.faults = ToSet(targets))

CInv == Types /\ Before /\ Stages /\ Faults /\ Run

\* A capture's file and buffer, against all it has recorded.
Disk(p) ==
    /\ cap[p].st = "sniffing" => file[p].lines \o cap[p].buf = rec[p]
    /\ cap[p].st = "closed" => file[p].lines = rec[p] /\ ~ file[p].torn
    /\ cap[p].st \in {"none", "starting", "crashed"} =>
          rec[p] = <<>> /\ cap[p].buf = <<>> /\ ~ file[p].torn
    /\ file[p].torn => cap[p].buf # <<>> \/ cap[p].st = "killed"
    /\ cap[p].st \in {"sniffing", "closed"} \/ rec[p] # <<>> \/ p \notin Leftover =>
          IsPrefix(file[p].lines, rec[p])

Disks ==
    /\ \A p \in Phase : Disk(p)
    /\ phase = "probe" /\ pc = "start" => cap["probe"].st = "none"

\* A line of this session's probe.
Clean(l) == l.new /\ l.faults = {}

Probe ==
    /\ phase = "probe" => \A l \in ToSet(rec["probe"]) : Clean(l)
    /\ "probe" \notin Leftover => \A l \in ToSet(seen) : Clean(l)

FInv == CInv /\ Disks /\ Probe

-----------------------------------------------------------------------------
(* Sorting by rank *)

StrictOrder(S, less) ==
    /\ \A x \in S : <<x, x>> \notin less
    /\ \A x, y \in S : x # y => <<x, y>> \in less \/ <<y, x>> \in less
    /\ \A x, y, z \in S : <<x, y>> \in less /\ <<y, z>> \in less => <<x, z>> \in less

\* Everything is listed, in its order.
Sorted(S, less, q) ==
    /\ q \in Seq(S) /\ Len(q) = Cardinality(S)
    /\ \A k, j \in 1..Len(q) : k < j => <<q[k], q[j]>> \in less
    /\ \A x \in S : \E k \in 1..Len(q) : q[k] = x

LEMMA InOrderSorts ==
    ASSUME NEW S, IsFiniteSet(S), NEW less, StrictOrder(S, less)
    PROVE  Sorted(S, less, InOrder(S, less))
<1> DEFINE n == Cardinality(S)
           below(x) == {y \in S : <<y, x>> \in less}
           rank(x) == Cardinality(below(x))
           q == InOrder(S, less)
<1>0. n \in Nat
    BY FS_CardinalityType
<1>1. ASSUME NEW x \in S PROVE IsFiniteSet(below(x)) /\ rank(x) \in 0..(n - 1)
    <2> DEFINE B == below(x)
    <2>1. B \in SUBSET (S \ {x})
        BY DEF StrictOrder
    <2> HIDE DEF B
    <2>2. IsFiniteSet(S \ {x}) /\ Cardinality(S \ {x}) = n - 1
        BY FS_RemoveElement
    <2>3. IsFiniteSet(B) /\ Cardinality(B) <= n - 1
        BY <2>1, <2>2, FS_Subset
    <2>4. Cardinality(B) \in Nat
        BY <2>3, FS_CardinalityType
    <2> QED BY <1>0, <2>3, <2>4 DEF B
<1>2. ASSUME NEW x \in S, NEW y \in S, <<x, y>> \in less PROVE rank(x) < rank(y)
    <2> DEFINE A == below(x)  B == below(y)
    <2>1. x \notin A /\ A \cup {x} \in SUBSET B
        BY <1>2 DEF StrictOrder
    <2>2. IsFiniteSet(A) /\ IsFiniteSet(B) /\ Cardinality(A) \in Nat /\ Cardinality(B) \in Nat
        BY <1>1
    <2> HIDE DEF A, B
    <2>3. Cardinality(A \cup {x}) = Cardinality(A) + 1
        BY <2>1, <2>2, FS_AddElement
    <2>4. Cardinality(A \cup {x}) <= Cardinality(B)
        BY <2>1, <2>2, FS_Subset
    <2>5. Cardinality(A) < Cardinality(B)
        BY <2>2, <2>3, <2>4
    <2> QED BY <2>5 DEF A, B
<1> HIDE DEF below
<1>r. \A x \in S : rank(x) \in 0..(n - 1)
    BY <1>1
<1>s. \A x, y \in S : <<x, y>> \in less => rank(x) < rank(y)
    BY <1>2
<1>3. \A x, y \in S : rank(x) = rank(y) => x = y
    <2> TAKE x, y \in S
    <2> HAVE rank(x) = rank(y)
    <2> HIDE DEF rank
    <2>1. rank(x) \in Nat /\ rank(y) \in Nat
        BY <1>0, <1>r
    <2>2. <<x, y>> \notin less /\ <<y, x>> \notin less
        BY <1>s, <2>1
    <2> QED BY <2>2 DEF StrictOrder
<1>4. \A k \in 1..n : \E x \in S : rank(x) = k - 1
    <2> DEFINE V == {rank(x) : x \in S}
               f == [x \in S |-> rank(x)]
    <2>1. f \in Surjection(S, V)
        BY DEF Surjection
    <2>2. f \in Injection(S, V)
        <3>1. f \in [S -> V]
            OBVIOUS
        <3>2. \A x, y \in S : f[x] = f[y] => x = y
            BY <1>3
        <3> QED BY <3>1, <3>2 DEF Injection, IsInjective
    <2>3. V \in SUBSET (0..(n - 1))
        BY <1>r
    <2> HIDE DEF f, V
    <2>4. Cardinality(V) = n
        BY <2>1, <2>2, FS_Surjection
    <2>5. IsFiniteSet(0..(n - 1)) /\ Cardinality(0..(n - 1)) = n
        <3> PICK m \in Int : m = n - 1
            BY <1>0
        <3> PICK z \in Int : z = 0
            OBVIOUS
        <3>1. IsFiniteSet(z..m) /\ Cardinality(z..m) = IF z > m THEN 0 ELSE m - z + 1
            BY FS_Interval
        <3> QED BY <1>0, <3>1
    <2>6. 0..(n - 1) = V
        BY <2>3, <2>4, <2>5, FS_Subset
    <2> TAKE k \in 1..n
    <2>7. k - 1 \in 0..(n - 1)
        BY <1>0
    <2>8. k - 1 \in V
        BY <2>6, <2>7
    <2> QED BY <2>8 DEF V
<1>5. q = [k \in 1..n |-> CHOOSE x \in S : rank(x) = k - 1]
    BY DEF InOrder, below
<1>6. DOMAIN q = 1..n /\ \A k \in 1..n : q[k] \in S /\ rank(q[k]) = k - 1
    BY <1>4, <1>5
<1>7. q \in Seq(S) /\ Len(q) = n
    <2>1. q \in [1..n -> S]
        BY <1>5, <1>6
    <2> HIDE DEF q, n
    <2> QED BY <1>0, <2>1, LenProperties
<1> HIDE DEF q, rank, n
<1>8. \A k, j \in 1..n : k < j => <<q[k], q[j]>> \in less
    <2> TAKE k, j \in 1..n
    <2> HAVE k < j
    <2>1. rank(q[k]) < rank(q[j]) /\ q[k] \in S /\ q[j] \in S
        BY <1>0, <1>6
    <2>2. q[k] # q[j] /\ <<q[j], q[k]>> \notin less
        BY <1>0, <1>r, <1>s, <2>1
    <2> QED BY <2>1, <2>2 DEF StrictOrder
<1>9. \A x \in S : \E k \in 1..n : q[k] = x
    <2> TAKE x \in S
    <2>1. rank(x) + 1 \in 1..n /\ rank(x) \in 0..(n - 1)
        BY <1>0, <1>r
    <2>2. q[rank(x) + 1] \in S /\ rank(q[rank(x) + 1]) = rank(x)
        BY <1>6, <2>1
    <2> QED BY <1>3, <2>1, <2>2
<1> QED BY <1>7, <1>8, <1>9 DEF Sorted, q, n

LEMMA AscendingSorts ==
    ASSUME NEW S, IsFiniteSet(S), S \subseteq Nat
    PROVE  /\ Ascending(S) \in Seq(S) /\ Len(Ascending(S)) = Cardinality(S)
           /\ \A k, j \in 1..Cardinality(S) : k < j => Ascending(S)[k] < Ascending(S)[j]
           /\ \A x \in S : \E k \in 1..Cardinality(S) : Ascending(S)[k] = x
<1> DEFINE less == {x \in S \X S : x[1] < x[2]}
<1>1. StrictOrder(S, less)
    BY DEF StrictOrder
<1>2. Ascending(S) = InOrder(S, less)
    BY DEF Ascending
<1>3. \A a, b \in S : <<a, b>> \in less => a < b
    OBVIOUS
<1> HIDE DEF less
<1>4. Sorted(S, less, Ascending(S))
    BY <1>1, <1>2, InOrderSorts
<1> DEFINE q == Ascending(S)  n == Cardinality(S)
<1> HIDE DEF q, n
<1>5. /\ q \in Seq(S) /\ Len(q) = n
      /\ \A k, j \in 1..n : k < j => <<q[k], q[j]>> \in less
      /\ \A x \in S : \E k \in 1..n : q[k] = x
    BY <1>4 DEF Sorted, q, n
<1>6. \A k \in 1..n : q[k] \in S
    BY <1>5, ElementOfSeq
<1>7. \A k, j \in 1..n : k < j => q[k] < q[j]
    BY <1>3, <1>5, <1>6
<1> QED BY <1>5, <1>7 DEF q, n

-----------------------------------------------------------------------------
(* Spreading the indices *)

LEMMA RoundIs ==
    ASSUME NEW a \in Nat, NEW b \in Nat \ {0}
    PROVE  /\ Round(a, b) \in Nat
           /\ 2 * a - b <= 2 * (b * Round(a, b)) /\ 2 * (b * Round(a, b)) <= 2 * a + b
<1>1. PICK q \in Nat : q = a \div b
    OBVIOUS
<1>2. PICK r \in Nat : r = a % b
    OBVIOUS
<1>3. a = b * q + r /\ r < b
    BY <1>1, <1>2
<1>4. Round(a, b) = IF 2 * r < b \/ (2 * r = b /\ q % 2 = 0) THEN q ELSE q + 1
    BY <1>1, <1>2 DEF Round
<1> PICK p \in Nat : p = b * q
    OBVIOUS
<1>5. CASE 2 * r < b \/ (2 * r = b /\ q % 2 = 0)
    <2>1. Round(a, b) = q
        BY <1>4, <1>5
    <2> QED BY <1>3, <1>5, <2>1
<1>6. CASE ~ (2 * r < b \/ (2 * r = b /\ q % 2 = 0))
    <2>1. Round(a, b) = q + 1 /\ 2 * r >= b
        BY <1>4, <1>6
    <2>2. b * (q + 1) = p + b
        OBVIOUS
    <2> QED BY <1>3, <2>1, <2>2
<1> QED BY <1>5, <1>6

\* Quotients more than 1 apart are rounded apart, those less than 1 apart to neighbours.
LEMMA RoundApart ==
    ASSUME NEW a \in Nat, NEW c \in Nat, NEW b \in Nat \ {0}
    PROVE  /\ c > a + b => Round(c, b) > Round(a, b)
           /\ c < a + b => Round(c, b) <= Round(a, b) + 1
<1> PICK y \in Nat : y = Round(a, b)
    BY RoundIs
<1> PICK z \in Nat : z = Round(c, b)
    BY RoundIs
<1>1. 2 * a - b <= 2 * (b * y) /\ 2 * (b * y) <= 2 * a + b
    BY RoundIs
<1>2. 2 * c - b <= 2 * (b * z) /\ 2 * (b * z) <= 2 * c + b
    BY RoundIs
<1>3. b * y \in Nat /\ b * z \in Nat
    OBVIOUS
<1>4. ASSUME c > a + b PROVE z > y
    <2>1. ~ (b * z <= b * y)
        BY <1>1, <1>2, <1>3, <1>4
    <2> QED BY <2>1, TimesGrows
<1>5. ASSUME c < a + b PROVE z <= y + 1
    <2>1. b * (y + 2) = b * y + 2 * b
        OBVIOUS
    <2>2. ~ (b * (y + 2) <= b * z)
        BY <1>1, <1>2, <1>3, <1>5, <2>1
    <2>3. ~ (y + 2 <= z)
        BY <2>2, TimesGrows
    <2> QED BY <2>3
<1> QED BY <1>4, <1>5

LEMMA RoundExact ==
    ASSUME NEW k \in Nat, NEW b \in Nat \ {0}
    PROVE  Round(k * b, b) = k
<1> PICK a \in Nat : a = b * k
    OBVIOUS
<1>0. k * b = a
    OBVIOUS
<1> PICK y \in Nat : y = Round(a, b)
    BY RoundIs
<1>1. 2 * a - b <= 2 * (b * y) /\ 2 * (b * y) <= 2 * a + b
    BY RoundIs
<1>2. b * (k + 1) = a + b /\ b * (y + 1) = b * y + b /\ b * y \in Nat
    OBVIOUS
<1>3. ~ (b * (k + 1) <= b * y) /\ ~ (b * (y + 1) <= a)
    BY <1>1, <1>2
<1>4. ~ (k + 1 <= y) /\ ~ (y + 1 <= k)
    BY <1>3, TimesGrows
<1> QED BY <1>0, <1>4

\* The indices pick_targets takes of m + 1 ports, for e + 1 faults.
Spread(m, e) == {Round(i * m, e) : i \in 0..e}

LEMMA SpreadIs ==
    ASSUME NEW m \in Nat, NEW e \in Nat \ {0}
    PROVE  /\ Spread(m, e) \subseteq 0..m /\ 0 \in Spread(m, e) /\ m \in Spread(m, e)
           /\ Cardinality(Spread(m, e)) = IF e <= m THEN e + 1 ELSE m + 1
<1> DEFINE at(i) == Round(i * m, e)
           I == Spread(m, e)
<1>1. \A i \in 0..e : at(i) \in 0..m
    <2> TAKE i \in 0..e
    <2> PICK a \in Nat : a = i * m
        OBVIOUS
    <2> PICK z \in Nat : z = Round(a, e)
        BY RoundIs
    <2>1. 2 * (e * z) <= 2 * a + e
        BY RoundIs
    <2>2. a <= e * m
        <3>1. m * i <= m * e
            BY TimesGrows
        <3> QED BY <3>1
    <2>3. e * (m + 1) = e * m + e /\ e * m \in Nat /\ e * z \in Nat
        OBVIOUS
    <2>4. ~ (e * (m + 1) <= e * z)
        BY <2>1, <2>2, <2>3
    <2>5. ~ (m + 1 <= z)
        BY <2>4, TimesGrows
    <2> QED BY <2>5
<1>2. at(0) = 0 /\ at(e) = m
    <2>1. 0 * m = 0 * e /\ e * m = m * e
        OBVIOUS
    <2>2. Round(0 * e, e) = 0 /\ Round(m * e, e) = m
        BY RoundExact
    <2> QED BY <2>1, <2>2
<1>3. I \subseteq 0..m /\ 0 \in I /\ m \in I
    <2>1. I = {at(i) : i \in 0..e}
        BY DEF Spread
    <2>2. 0 \in 0..e /\ e \in 0..e
        OBVIOUS
    <2> HIDE DEF at, I
    <2> QED BY <1>1, <1>2, <2>1, <2>2
<1>4. IsFiniteSet(0..m) /\ Cardinality(0..m) = m + 1
    <2>1. IsFiniteSet(0..m) /\ Cardinality(0..m) = IF 0 > m THEN 0 ELSE m - 0 + 1
        BY FS_Interval
    <2> QED BY <2>1
<1>5. CASE e < m
    <2>1. \A i, j \in 0..e : i < j => at(i) < at(j)
        <3> TAKE i, j \in 0..e
        <3> HAVE i < j
        <3>1. m * (i + 1) <= m * j
            BY TimesGrows
        <3>2. m * (i + 1) = i * m + m /\ m * j = j * m /\ i * m \in Nat /\ j * m \in Nat
            OBVIOUS
        <3>3. j * m > i * m + e
            BY <1>5, <3>1, <3>2
        <3> PICK a \in Nat : a = i * m
            BY <3>2
        <3> PICK c \in Nat : c = j * m
            BY <3>2
        <3>4. Round(c, e) > Round(a, e)
            BY <3>3, RoundApart
        <3>5. Round(c, e) \in Nat /\ Round(a, e) \in Nat
            BY RoundIs
        <3> QED BY <3>4, <3>5
    <2> DEFINE f == [i \in 0..e |-> at(i)]
    <2>2. I = {at(i) : i \in 0..e}
        BY DEF Spread
    <2> HIDE DEF at, I
    <2>3. f \in Surjection(0..e, I)
        BY <2>2 DEF Surjection
    <2>4. f \in Injection(0..e, I)
        <3>1. \A i, j \in 0..e : at(i) = at(j) => i = j
            <4> TAKE i, j \in 0..e
            <4>1. at(i) \in Nat /\ at(j) \in Nat
                BY <1>1
            <4>2. i < j \/ j < i \/ i = j
                OBVIOUS
            <4> QED BY <2>1, <4>1, <4>2
        <3>2. f \in [0..e -> I]
            BY <2>2
        <3>3. \A i, j \in 0..e : f[i] = f[j] => i = j
            BY <3>1
        <3> QED BY <3>2, <3>3 DEF Injection, IsInjective
    <2> HIDE DEF f
    <2>5. IsFiniteSet(0..e) /\ Cardinality(0..e) = e + 1
        <3>1. IsFiniteSet(0..e) /\ Cardinality(0..e) = IF 0 > e THEN 0 ELSE e - 0 + 1
            BY FS_Interval
        <3> QED BY <3>1
    <2>6. Cardinality(I) = e + 1
        BY <2>3, <2>4, <2>5, FS_Surjection
    <2> QED BY <1>3, <1>5, <2>6 DEF I
<1>6. ASSUME 0..m \subseteq I PROVE Cardinality(I) = m + 1
    <2>1. I = 0..m
        BY <1>3, <1>6
    <2> QED BY <1>4, <2>1
<1>7. CASE e = m
    <2>1. \A i \in 0..e : at(i) = i
        BY <1>7, RoundExact
    <2>2. 0..m \subseteq I
        BY <1>7, <2>1 DEF Spread
    <2> QED BY <1>3, <1>6, <1>7, <2>2 DEF I
<1>8. CASE e > m
    <2> DEFINE T == {i \in Nat : i <= e => 0..at(i) \subseteq I}
    <2>1. 0 \in T
        <3>1. 0..0 = {0}
            OBVIOUS
        <3> HIDE DEF at, I
        <3> QED BY <1>2, <1>3, <3>1
    <2>2. ASSUME NEW i \in Nat, i \in T PROVE i + 1 \in T
        <3> SUFFICES ASSUME i + 1 <= e PROVE 0..at(i + 1) \subseteq I
            OBVIOUS
        <3>1. 0..at(i) \subseteq I /\ i \in 0..e /\ i + 1 \in 0..e
            BY <2>2
        <3>2. at(i + 1) \in I
            BY <3>1 DEF Spread
        <3>3. at(i + 1) <= at(i) + 1
            <4> PICK a \in Nat : a = i * m
                OBVIOUS
            <4> PICK c \in Nat : c = (i + 1) * m
                OBVIOUS
            <4>1. c = a + m
                OBVIOUS
            <4>2. Round(c, e) <= Round(a, e) + 1
                BY <1>8, <4>1, RoundApart
            <4> QED BY <4>2
        <3>4. at(i) \in Nat /\ at(i + 1) \in Nat
            <4> HIDE DEF at
            <4> QED BY <1>1, <3>1
        <3> HIDE DEF at, I
        <3> QED BY <3>1, <3>2, <3>3, <3>4
    <2> HIDE DEF T
    <2>3. e \in T
        BY <2>1, <2>2, NatSetInduction
    <2>4. 0..m \subseteq I
        BY <1>2, <2>3 DEF T
    <2> QED BY <1>3, <1>6, <1>8, <2>4 DEF I
<1> QED BY <1>5, <1>7, <1>8
-----------------------------------------------------------------------------
(* Targets and lines *)

LEMMA Wider ==
    ASSUME NEW T, NEW U, T \subseteq U
    PROVE  Lines(T) \subseteq Lines(U)
<1>1. LineOf(T) \subseteq LineOf(U)
    BY DEF LineOf
<1> QED BY <1>1, SeqMonotonic DEF Lines

\* Whatever the lines, what is picked is a sequence.
LEMMA PickedIsSeq ==
    ASSUME NEW lines, NEW n \in Nat \ {0}
    PROVE  \E U : pick_targets(lines, n) \in Seq(U)
<1> DEFINE order == ByCoverage(lines)
           at(i) == Round(i * (Len(order) - 1), n - 1)
           idxs  == IF n = 1 THEN {0} ELSE {at(i) : i \in 0..(n - 1)}
           size  == Cardinality(idxs)
           port(k) == order[1 + Ascending(idxs)[k]]
           U     == {port(k) : k \in 1..size}
<1>1. IsFiniteSet(idxs)
    <2>1. IsFiniteSet({0})
        BY FS_Singleton
    <2>2. IsFiniteSet(0..(n - 1))
        BY FS_Interval
    <2>3. IsFiniteSet({at(i) : i \in 0..(n - 1)})
        <3> DEFINE f == [i \in 0..(n - 1) |-> at(i)]
                   V == {at(i) : i \in 0..(n - 1)}
        <3> HIDE DEF at
        <3>1. f \in Surjection(0..(n - 1), V)
            BY DEF Surjection
        <3> HIDE DEF f, V
        <3>2. IsFiniteSet(V)
            BY <3>1, <2>2, FS_Surjection
        <3> QED BY <3>2 DEF V
    <2> QED BY <2>1, <2>3
<1>2. size \in Nat
    BY <1>1, FS_CardinalityType
<1>3. pick_targets(lines, n) = [k \in 1..size |-> port(k)]
    BY DEF pick_targets
<1> HIDE DEF size, port
<1>4. [k \in 1..size |-> port(k)] \in [1..size -> U]
    OBVIOUS
<1> HIDE DEF U
<1>5. [k \in 1..size |-> port(k)] \in Seq(U)
    BY <1>2, <1>4
<1> QED BY <1>3, <1>5

LEMMA GivenGrows ==
    ASSUME NEW T, NEW s \in Seq(T), NEW k \in Nat \ {0}
    PROVE  /\ Given(s, k + 1) = Given(s, k) \cup {s[k]}
           /\ Given(s, 1) = {}
           /\ Given(s, Len(s) + 1) = ToSet(s)
           /\ k <= Len(s) => Left(s, k) \subseteq Left(s, k + 1) \cup {s[k]}
           /\ k > Len(s) => Left(s, k) = {}
           /\ Left(s, 1) = ToSet(s)
<1>1. Len(s) \in Nat /\ DOMAIN s = 1..Len(s)
    OBVIOUS
<1>2. /\ 1..(k + 1 - 1) = 1..(k - 1) \cup {k} /\ 1..(1 - 1) = {}
      /\ k..Len(s) \subseteq ((k + 1)..Len(s)) \cup {k}
    BY <1>1
<1>3. 1..(Len(s) + 1 - 1) = 1..Len(s) /\ (k > Len(s) => k..Len(s) = {})
    BY <1>1
<1>4. Given(s, k + 1) = Given(s, k) \cup {s[k]}
    <2>1. k + 1 - 1 = k /\ 1..k = 1..(k - 1) \cup {k}
        OBVIOUS
    <2>2. Given(s, k + 1) = {s[i] : i \in 1..k}
        BY <2>1 DEF Given
    <2>3. {s[i] : i \in 1..k} = {s[i] : i \in 1..(k - 1)} \cup {s[k]}
        BY <2>1
    <2> QED BY <2>2, <2>3 DEF Given
<1>5. Given(s, 1) = {}
    BY <1>2 DEF Given
<1>6. Given(s, Len(s) + 1) = ToSet(s)
    BY <1>1, <1>3 DEF Given, ToSet
<1>7. k <= Len(s) => Left(s, k) \subseteq Left(s, k + 1) \cup {s[k]}
    BY <1>2 DEF Left
<1>8. k > Len(s) => Left(s, k) = {}
    BY <1>3 DEF Left
<1>9. Left(s, 1) = ToSet(s)
    BY <1>1 DEF Left, ToSet
<1> QED BY <1>4, <1>5, <1>6, <1>7, <1>8, <1>9, Zenon

LEMMA Appended ==
    ASSUME NEW T, NEW s \in Lines(T), NEW x \in LineOf(T)
    PROVE  ToSet(Append(s, x)) = ToSet(s) \cup {x}
<1>0. s \in Seq(LineOf(T))
    BY DEF Lines
<1>1. Len(s) \in Nat /\ DOMAIN s = 1..Len(s) /\ DOMAIN Append(s, x) = 1..(Len(s) + 1)
    BY <1>0
<1>2. \A i \in 1..Len(s) : Append(s, x)[i] = s[i]
    BY <1>0
<1>3. Append(s, x)[Len(s) + 1] = x
    BY <1>0
<1>4. 1..(Len(s) + 1) = (1..Len(s)) \cup {Len(s) + 1}
    BY <1>1
<1> QED BY <1>1, <1>2, <1>3, <1>4 DEF ToSet

LEMMA Slices ==
    ASSUME NEW T, NEW s \in Seq(T), NEW n \in 0..Len(s)
    PROVE  SubSeq(s, n + 1, Len(s)) \in Seq(T) /\ SubSeq(s, 1, n) \in Seq(T)
<1>1. /\ Len(s) \in Nat /\ n \in Int /\ n + 1 \in Int
      /\ \A i \in (n + 1)..Len(s) : i \in 1..Len(s)
      /\ \A i \in 1..n : i \in 1..Len(s)
    OBVIOUS
<1>2. \A i \in 1..Len(s) : s[i] \in T
    OBVIOUS
<1> QED BY <1>1, <1>2, SubSeqProperties

LEMMA Empty == ToSet(<<>>) = {}
  BY DEF ToSet

-----------------------------------------------------------------------------
(* Types *)

LEMMA InitCInv == Init => CInv
<1> SUFFICES ASSUME Init PROVE CInv
    OBVIOUS
<1>1. Old \in LineOf({})
    BY RunAssumption DEF Old, LineOf
<1>2. <<>> \in Lines({}) /\ <<Old>> \in Lines({})
    BY <1>1 DEF Lines
<1>3. Typed({})
    BY <1>2, RunAssumption DEF Init, Typed, Phase, State
<1>4. Before /\ Stages
    BY DEF Init, Before, Stages, Phase
<1>5. Faults /\ Run
    BY Empty DEF Init, Faults, Run, Phase
<1> QED BY <1>3, <1>4, <1>5 DEF CInv, Types

LEMMA RunnerTypes ==
    ASSUME NEW T, Typed(T), Runner, ~ PickTargets, ~ Inject
    PROVE  Typed(T)'
<1>1. CASE StartCapture
    BY <1>1 DEF Typed, StartCapture, State
<1>2. CASE LaunchFlows
    BY <1>2 DEF Typed, LaunchFlows, capture
<1>3. CASE WaitReturns
    BY <1>3 DEF Typed, WaitReturns, capture
<1>4. CASE WaitTimeout
    <2>1. <<>> \in Lines(T)
        BY DEF Lines
    <2> QED BY <1>4, <2>1 DEF Typed, WaitTimeout, State
<1>5. CASE Pkill
    BY <1>5 DEF Typed, Pkill, capture
<1>6. CASE ReadProbe
    BY <1>6 DEF Typed, ReadProbe, capture, Phase
<1>7. CASE Clear
    BY <1>7 DEF Typed, Clear, capture, Written
<1> QED BY <1>1, <1>2, <1>3, <1>4, <1>5, <1>6, <1>7 DEF Runner

LEMMA InjectTypes ==
    ASSUME NEW T, Typed(T), Inject
    PROVE  Typed(T)'
<1>1. next \in Nat \ {0} /\ targets \in Seq(T)
    BY DEF Typed
<1>2. next <= Len(targets) => targets[next] \in T
    BY <1>1
<1>3. Len(targets) \in Nat
    BY <1>1
<1>4. fault' \subseteq T /\ next' \in Nat \ {0}
    BY <1>1, <1>2, <1>3 DEF Typed, Inject, Written
<1> QED BY <1>4 DEF Typed, Inject, capture

LEMMA PickTypes ==
    ASSUME NEW T, Typed(T), PickTargets
    PROVE  Types'
<1>1. \E U : targets' \in Seq(U)
    <2>1. CASE targets' = targets
        BY <2>1 DEF Typed
    <2>2. CASE targets' = <<>>
        <3>1. <<>> \in Seq({})
            OBVIOUS
        <3> QED BY <2>2, <3>1
    <2>3. CASE d # 0 /\ targets' = pick_targets(seen, d)
        <3>1. d \in Nat \ {0}
            BY <2>3 DEF Typed
        <3> QED BY <2>3, <3>1, PickedIsSeq
    <2> QED BY <2>1, <2>2, <2>3 DEF PickTargets
<1>2. PICK U : targets' \in Seq(U)
    BY <1>1
<1> DEFINE V == T \cup U
<1>3. targets' \in Seq(V) /\ Lines(T) \subseteq Lines(V) /\ fault \subseteq V
    BY <1>2, SeqMonotonic, Wider DEF Typed
<1> HIDE DEF V
<1>4. Typed(V)'
    BY <1>3 DEF Typed, PickTargets, capture
<1> QED BY <1>4 DEF Types

LEMMA CaptureTypes ==
    ASSUME NEW T, Typed(T), NEW p \in Phase, Capture(p)
    PROVE  Typed(T)'
<1>0. <<>> \in Lines(T) /\ cap[p].buf \in Lines(T) /\ file[p].lines \in Lines(T)
    <2>1. <<>> \in Lines(T)
        BY DEF Lines
    <2> QED BY <2>1 DEF Typed
<1>1. CASE Open(p)
    BY <1>0, <1>1 DEF Typed, Open, runner, State
<1>2. CASE Crash(p)
    BY <1>0, <1>2 DEF Typed, Crash, runner, State
<1>3. ASSUME NEW f \in Flow, Sniff(p, f) PROVE Typed(T)'
    <2> DEFINE l == [new |-> TRUE, flow |-> f, faults |-> fault]
    <2>1. l \in LineOf(T)
        BY DEF Typed, LineOf
    <2>2. Append(cap[p].buf, l) \in Lines(T) /\ Append(rec[p], l) \in Lines(T)
        <3>1. cap[p].buf \in Lines(T) /\ rec[p] \in Lines(T)
            BY DEF Typed
        <3> QED BY <2>1, <3>1 DEF Lines
    <2>3. /\ cap' = [cap EXCEPT ![p].buf = Append(cap[p].buf, l)]
          /\ rec' = [rec EXCEPT ![p] = Append(rec[p], l)]
          /\ UNCHANGED <<runner, file, flows, fault>>
        BY <1>3 DEF Sniff
    <2> HIDE DEF l
    <2> QED BY <2>2, <2>3 DEF Typed, runner
<1>4. CASE Flush(p)
    <2>1. PICK n \in 0..Len(cap[p].buf), t \in BOOLEAN :
              /\ cap' = [cap EXCEPT ![p].buf = SubSeq(cap[p].buf, n + 1, Len(cap[p].buf))]
              /\ file' = [file EXCEPT ![p].lines = file[p].lines \o SubSeq(cap[p].buf, 1, n),
                                      ![p].torn = t]
        BY <1>4 DEF Flush
    <2>2. /\ SubSeq(cap[p].buf, n + 1, Len(cap[p].buf)) \in Lines(T)
          /\ SubSeq(cap[p].buf, 1, n) \in Lines(T)
        BY <1>0, Slices DEF Lines
    <2>3. file[p].lines \o SubSeq(cap[p].buf, 1, n) \in Lines(T)
        BY <1>0, <2>2, ConcatProperties DEF Lines
    <2>4. UNCHANGED <<runner, rec, flows, fault>>
        BY <1>4 DEF Flush
    <2> QED BY <2>1, <2>2, <2>3, <2>4 DEF Typed, runner
<1>5. CASE Close(p)
    <2>1. file[p].lines \o cap[p].buf \in Lines(T)
        BY <1>0, ConcatProperties DEF Lines
    <2> QED BY <1>0, <1>5, <2>1 DEF Typed, Close, runner, State
<1> QED BY <1>1, <1>2, <1>3, <1>4, <1>5 DEF Capture

LEMMA NextTypes == Types /\ [Next]_vars => Types'
<1> SUFFICES ASSUME Types, [Next]_vars PROVE Types'
    OBVIOUS
<1>1. PICK T : Typed(T)
    BY DEF Types
<1>2. CASE PickTargets
    BY <1>1, <1>2, PickTypes
<1>3. CASE Inject
    BY <1>1, <1>3, InjectTypes DEF Types
<1>4. CASE Runner /\ ~ PickTargets /\ ~ Inject
    BY <1>1, <1>4, RunnerTypes DEF Types
<1>5. ASSUME NEW p \in Phase, Capture(p) PROVE Types'
    BY <1>1, <1>5, CaptureTypes DEF Types
<1>6. CASE FlowsEnd \/ UNCHANGED vars
    <2>1. Typed(T)'
        BY <1>1, <1>6 DEF FlowsEnd, vars, runner, capture, Typed
    <2> QED BY <2>1 DEF Types
<1> QED BY <1>2, <1>3, <1>4, <1>5, <1>6 DEF Next

-----------------------------------------------------------------------------
(* Steps of the captures and the flows *)

LEMMA CaptureEffect ==
    ASSUME Types, NEW p \in Phase, Capture(p), NEW x \in Phase
    PROVE  /\ UNCHANGED <<pc, phase, d, seen, targets, next, missed, fault, flows>>
           /\ cap[x].st = "none" => cap'[x].st = "none"
           /\ \/ rec'[x] = rec[x]
              \/ /\ flows /\ cap[x].st = "sniffing"
                 /\ \E l : l.new /\ l.faults = fault /\ ToSet(rec'[x]) = ToSet(rec[x]) \cup {l}
<1>1. PICK T : Typed(T)
    BY DEF Types
<1>2. CASE Open(p)
    BY <1>1, <1>2 DEF Typed, Open, runner
<1>3. CASE Crash(p)
    BY <1>1, <1>3 DEF Typed, Crash, runner
<1>4. ASSUME NEW f \in Flow, Sniff(p, f)
      PROVE  /\ UNCHANGED <<pc, phase, d, seen, targets, next, missed, fault, flows>>
             /\ cap[x].st = "none" => cap'[x].st = "none"
             /\ \/ rec'[x] = rec[x]
                \/ /\ flows /\ cap[x].st = "sniffing"
                   /\ \E l : l.new /\ l.faults = fault /\ ToSet(rec'[x]) = ToSet(rec[x]) \cup {l}
    <2> DEFINE l == [new |-> TRUE, flow |-> f, faults |-> fault]
    <2>1. UNCHANGED <<pc, phase, d, seen, targets, next, missed, fault, flows>>
        BY <1>4 DEF Sniff, runner
    <2>2. cap[p].st = "sniffing" /\ flows /\ rec' = [rec EXCEPT ![p] = Append(rec[p], l)]
          /\ cap' = [cap EXCEPT ![p].buf = Append(cap[p].buf, l)]
        BY <1>4 DEF Sniff
    <2>3. l.new /\ l.faults = fault /\ l \in LineOf(T)
        BY <1>1 DEF Typed, LineOf
    <2> HIDE DEF l
    <2>4. cap'[x].st = cap[x].st
        BY <1>1, <2>2 DEF Typed
    <2>5. CASE p = x
        <3>1. rec'[x] = Append(rec[x], l)
            BY <1>1, <2>2, <2>5 DEF Typed
        <3>2. rec[x] \in Lines(T)
            BY <1>1 DEF Typed
        <3>3. ToSet(rec'[x]) = ToSet(rec[x]) \cup {l}
            BY <2>3, <3>1, <3>2, Appended
        <3> QED BY <2>1, <2>2, <2>3, <2>4, <2>5, <3>3
    <2>6. CASE p # x
        <3>1. rec'[x] = rec[x]
            BY <1>1, <2>2, <2>6 DEF Typed
        <3> QED BY <2>1, <2>4, <3>1
    <2> QED BY <2>5, <2>6
<1>5. CASE Flush(p)
    <2>1. PICK n \in 0..Len(cap[p].buf) :
              cap' = [cap EXCEPT ![p].buf = SubSeq(cap[p].buf, n + 1, Len(cap[p].buf))]
        BY <1>5 DEF Flush
    <2>2. cap'[x].st = cap[x].st
        BY <1>1, <2>1 DEF Typed
    <2> QED BY <1>5, <2>2 DEF Flush, runner
<1>6. CASE Close(p)
    BY <1>1, <1>6 DEF Typed, Close, runner
<1> QED BY <1>2, <1>3, <1>4, <1>5, <1>6 DEF Capture

LEMMA CaptureKeeps ==
    ASSUME CInv, UNCHANGED <<pc, phase, d, seen, targets, next, missed, fault>>,
           flows' => flows,
           cap["run"].st = "none" => cap'["run"].st = "none",
           \/ rec'["run"] = rec["run"]
           \/ /\ flows /\ cap["run"].st = "sniffing"
              /\ \E l : l.faults = fault /\ ToSet(rec'["run"]) = ToSet(rec["run"]) \cup {l}
    PROVE  Before' /\ Stages' /\ Faults' /\ Run'
<1>1. Before'
    BY DEF CInv, Before
<1>2. Stages'
    BY DEF CInv, Stages
<1>3. CASE rec'["run"] = rec["run"]
    <2>1. Faults' /\ Run'
        BY <1>3 DEF CInv, Faults, Run, Given, Left
    <2> QED BY <1>1, <1>2, <2>1
<1>4. ASSUME flows, cap["run"].st = "sniffing", NEW l, l.faults = fault,
             ToSet(rec'["run"]) = ToSet(rec["run"]) \cup {l}
      PROVE  Faults' /\ Run'
    <2>1. phase = "run" /\ pc \in {"flows", "wait", "pkill"}
        <3>1. phase = "probe" \/ phase = "run"
            BY DEF CInv, Types, Typed, Phase
        <3> QED BY <1>4, <3>1 DEF CInv, Before, Stages
    <2>2. /\ fault \subseteq ToSet(targets)
          /\ missed \/ fault = ToSet(targets)
          /\ \A m \in ToSet(rec["run"]) : m.faults = fault
        BY <2>1 DEF CInv, Faults
    <2>3. \A m \in ToSet(rec'["run"]) : m.faults = fault
        BY <1>4, <2>2
    <2> QED BY <2>1, <2>2, <2>3 DEF Faults, Run
<1> QED BY <1>1, <1>2, <1>3, <1>4

-----------------------------------------------------------------------------
(* Steps of the runner *)

LEMMA RunnerBefore == CInv /\ Runner => Before'
<1> SUFFICES ASSUME CInv, Runner PROVE Before'
    OBVIOUS
<1>0. PICK T : Typed(T)
    BY DEF CInv, Types
<1>1. rec' = rec /\ phase \in Phase /\ "run" \in Phase
    BY <1>0 DEF Typed, Phase, Runner, StartCapture, LaunchFlows, WaitReturns, WaitTimeout, Pkill,
            ReadProbe, PickTargets, Inject, Clear, capture
<1>2. CASE StartCapture
    BY <1>0, <1>1, <1>2 DEF CInv, Before, Typed, Phase, StartCapture
<1>3. CASE LaunchFlows \/ WaitReturns \/ Pkill \/ ReadProbe \/ PickTargets \/ Inject \/ Clear
    <2>1. cap' = cap
        BY <1>3 DEF LaunchFlows, WaitReturns, Pkill, ReadProbe, PickTargets, Inject, Clear, capture
    <2> QED BY <1>0, <1>1, <1>3, <2>1 DEF CInv, Before, Stages, Phase, LaunchFlows, WaitReturns,
            Pkill, ReadProbe, PickTargets, Inject, Clear
<1>4. CASE WaitTimeout
    BY <1>0, <1>1, <1>4 DEF CInv, Before, Typed, Phase, WaitTimeout
<1> QED BY <1>2, <1>3, <1>4 DEF Runner

LEMMA RunnerStages == CInv /\ Runner => Stages'
<1> SUFFICES ASSUME CInv, Runner PROVE Stages'
    OBVIOUS
<1>0. phase \in Phase
    BY DEF CInv, Types, Typed
<1>1. CASE StartCapture
    BY <1>0, <1>1 DEF CInv, Stages, StartCapture, Phase
<1>2. CASE LaunchFlows
    BY <1>0, <1>2 DEF CInv, Stages, LaunchFlows, Phase, capture
<1>3. CASE WaitReturns \/ WaitTimeout
    BY <1>0, <1>3 DEF CInv, Stages, WaitReturns, WaitTimeout, Phase, capture
<1>4. CASE Pkill
    BY <1>0, <1>4 DEF CInv, Stages, Pkill, Phase, capture
<1>5. CASE ReadProbe
    BY <1>0, <1>5 DEF CInv, Stages, ReadProbe, Phase, capture
<1>6. CASE PickTargets
    BY <1>0, <1>6 DEF CInv, Stages, PickTargets, Phase, capture
<1>7. CASE Inject
    BY <1>0, <1>7 DEF CInv, Stages, Inject, Phase, capture
<1>8. CASE Clear
    BY <1>0, <1>8 DEF CInv, Stages, Clear, Phase, capture
<1> QED BY <1>1, <1>2, <1>3, <1>4, <1>5, <1>6, <1>7, <1>8 DEF Runner

LEMMA RunnerFaults == CInv /\ Types' /\ Runner => Faults'
<1> SUFFICES ASSUME CInv, Types', Runner PROVE Faults'
    OBVIOUS
<1>0. /\ phase \in Phase
      /\ \E T : targets \in Seq(T) /\ next \in Nat \ {0}
      /\ \E T : targets' \in Seq(T)
    BY DEF CInv, Types, Typed
<1>1. CASE StartCapture \/ LaunchFlows \/ WaitReturns \/ WaitTimeout
    <2>1. UNCHANGED <<phase, fault, missed, targets, rec>>
        BY <1>1 DEF StartCapture, LaunchFlows, WaitReturns, WaitTimeout, capture
    <2>2. pc \in {"start", "flows", "wait"} /\ pc' \in {"flows", "wait", "pkill"}
        BY <1>1 DEF StartCapture, LaunchFlows, WaitReturns, WaitTimeout
    <2> QED BY <2>1, <2>2 DEF CInv, Faults
<1>2. CASE Pkill
    <2>1. UNCHANGED <<phase, fault, missed, targets, rec>> /\ next' = 1
        BY <1>2 DEF Pkill, capture
    <2>2. CASE phase = "probe"
        BY <1>2, <2>1, <2>2 DEF Pkill, Faults
    <2>3. CASE phase = "run"
        <3>1. pc' = "clear" /\ pc = "pkill"
            BY <1>2, <2>3 DEF Pkill
        <3>2. missed \/ fault \subseteq ToSet(targets)
            BY <2>3, <3>1 DEF CInv, Faults
        <3>3. Left(targets, 1) = ToSet(targets)
            BY <1>0, GivenGrows
        <3> QED BY <2>1, <3>1, <3>2, <3>3 DEF Faults
    <2> QED BY <1>0, <2>2, <2>3 DEF Phase
<1>3. CASE ReadProbe
    BY <1>3 DEF ReadProbe, Faults
<1>4. CASE PickTargets
    <2>1. pc' \in {"error", "inject"} /\ next' = 1 /\ fault' = {}
        BY <1>4 DEF PickTargets, CInv, Stages
    <2>2. Given(targets', 1) = {}
        BY <1>0, GivenGrows
    <2>3. 1 <= Len(targets') + 1
        <3>1. Len(targets') \in Nat
            BY <1>0
        <3> QED BY <3>1
    <2> QED BY <2>1, <2>2, <2>3 DEF Faults
<1>5. CASE Inject
    <2>0. PICK T : targets \in Seq(T)
        BY <1>0
    <2>1. Len(targets) \in Nat /\ next \in Nat \ {0}
        BY <1>0, <2>0
    <2>2. /\ next <= Len(targets) + 1 /\ pc = "inject"
          /\ fault \subseteq Given(targets, next)
          /\ missed \/ fault = Given(targets, next)
        BY <1>5 DEF CInv, Faults, Inject
    <2>3. UNCHANGED <<phase, targets, rec>>
        BY <1>5 DEF Inject, capture
    <2>4. CASE next > Len(targets)
        <3>1. next = Len(targets) + 1
            BY <2>1, <2>2, <2>4
        <3>2. Given(targets, Len(targets) + 1) = ToSet(targets)
            BY <2>0, <2>1, GivenGrows
        <3>3. ToSet(rec["run"]) = {}
            BY <2>2, Empty DEF CInv, Before
        <3>4. pc' = "start" /\ UNCHANGED <<fault, missed>>
            BY <1>5, <2>4 DEF Inject
        <3> QED BY <2>2, <2>3, <3>1, <3>2, <3>3, <3>4 DEF Faults
    <2>5. CASE ~ next > Len(targets)
        <3>1. next' = next + 1 /\ next + 1 <= Len(targets) + 1
            BY <1>5, <2>1, <2>5 DEF Inject
        <3>2. Given(targets, next + 1) = Given(targets, next) \cup {targets[next]}
            BY <2>0, <2>1, GivenGrows
        <3>3. /\ fault' \in {fault \cup {targets[next]}, fault}
              /\ missed' = (missed \/ fault' # fault \cup {targets[next]})
              /\ pc' = "inject"
            BY <1>5, <2>5 DEF Inject, Written
        <3> HIDE DEF Given
        <3>4. fault' \subseteq Given(targets, next + 1)
            BY <2>2, <3>2, <3>3
        <3>5. missed' \/ fault' = Given(targets, next + 1)
            BY <2>2, <3>2, <3>3
        <3> QED BY <2>3, <3>1, <3>3, <3>4, <3>5 DEF Faults
    <2> QED BY <2>4, <2>5
<1>6. CASE Clear
    <2>0. PICK T : targets \in Seq(T)
        BY <1>0
    <2>1. Len(targets) \in Nat /\ next \in Nat \ {0}
        BY <1>0, <2>0
    <2>2. (missed \/ fault \subseteq Left(targets, next)) /\ UNCHANGED targets
        BY <1>6 DEF CInv, Faults, Clear
    <2>4. CASE next > Len(targets)
        <3>1. Left(targets, next) = {}
            BY <2>0, <2>1, <2>4, GivenGrows
        <3>2. pc' = "done" /\ UNCHANGED <<fault, missed>>
            BY <1>6, <2>4 DEF Clear
        <3> QED BY <2>2, <3>1, <3>2 DEF Faults
    <2>5. CASE ~ next > Len(targets)
        <3>1. next <= Len(targets)
            BY <2>1, <2>5
        <3>2. Left(targets, next) \subseteq Left(targets, next + 1) \cup {targets[next]}
            BY <2>0, <2>1, <3>1, GivenGrows
        <3>3. /\ missed' = (missed \/ fault' # fault \ {targets[next]})
              /\ pc' = "clear" /\ next' = next + 1
            BY <1>6, <2>5 DEF Clear
        <3>4. missed' \/ fault' \subseteq Left(targets, next + 1)
            BY <2>2, <3>2, <3>3
        <3> QED BY <2>2, <3>3, <3>4 DEF Faults
    <2> QED BY <2>4, <2>5
<1> QED BY <1>1, <1>2, <1>3, <1>4, <1>5, <1>6 DEF Runner

LEMMA RunnerRun == CInv /\ Runner => Run'
<1> SUFFICES ASSUME CInv, Runner PROVE Run'
    OBVIOUS
<1>1. rec' = rec /\ (missed => missed')
    BY DEF Runner, StartCapture, LaunchFlows, WaitReturns, WaitTimeout, Pkill, ReadProbe,
           PickTargets, Inject, Clear, capture
<1>2. CASE PickTargets
    <2>1. ToSet(rec["run"]) = {}
        BY <1>2, Empty DEF PickTargets, CInv, Before
    <2> QED BY <1>1, <2>1 DEF Run
<1>3. CASE ~ PickTargets
    <2>1. targets' = targets
        BY <1>3 DEF Runner, StartCapture, LaunchFlows, WaitReturns, WaitTimeout, Pkill, ReadProbe,
               Inject, Clear
    <2> QED BY <1>1, <2>1 DEF CInv, Run
<1> QED BY <1>2, <1>3

LEMMA AlwaysCInv == Spec => []CInv
<1>1. CInv /\ [Next]_vars => CInv'
    <2> SUFFICES ASSUME CInv, [Next]_vars PROVE CInv'
        OBVIOUS
    <2>1. Types'
        BY NextTypes DEF CInv
    <2>2. CASE Runner
        BY <2>1, <2>2, RunnerBefore, RunnerStages, RunnerFaults, RunnerRun DEF CInv
    <2>3. ASSUME NEW p \in Phase, Capture(p) PROVE CInv'
        <3>1. Types
            BY DEF CInv
        <3>2. "run" \in Phase
            BY DEF Phase
        <3> QED BY <2>1, <2>3, <3>1, <3>2, CaptureEffect, CaptureKeeps DEF CInv
    <2>4. CASE FlowsEnd \/ UNCHANGED vars
        BY <2>1, <2>4, CaptureKeeps DEF FlowsEnd, vars, runner, capture, CInv
    <2> QED BY <2>2, <2>3, <2>4 DEF Next
<1> QED BY <1>1, InitCInv, PTL DEF Spec

-----------------------------------------------------------------------------

(* The reports of a run were all taken under one set of faults, all of them *)
(* targets, for every set of flows and every number of faults asked for,    *)
(* whichever captures crash, hang or outlive their kill and whichever       *)
(* register writes fail (m3a_runner.py:198-236).                            *)
THEOREM RunAlwaysStationary == Spec => []RunIsStationary
<1>1. CInv => RunIsStationary
    BY DEF CInv, Run, RunIsStationary, ToSet
<1> QED BY <1>1, AlwaysCInv, PTL

(* Unless a register write failed, that set is the ground truth the session *)
(* records, and the session leaves no fault behind, however it ends.        *)
THEOREM GroundTruthAlwaysHolds == Spec => []GroundTruthHolds
<1>1. CInv => GroundTruthHolds
    BY DEF CInv, Run, Stages, Faults, GroundTruthHolds, ToSet
<1> QED BY <1>1, AlwaysCInv, PTL

-----------------------------------------------------------------------------
(* Files *)

LEMMA PrefixOfConcat ==
    ASSUME NEW T, NEW s \in Lines(T), NEW t \in Lines(T)
    PROVE  IsPrefix(s, s \o t) /\ IsPrefix(s, s)
<1>0. s \in Seq(LineOf(T)) /\ t \in Seq(LineOf(T)) /\ Len(s) \in Nat /\ Len(t) \in Nat
    BY DEF Lines
<1>1. IsPrefix(s, s \o t)
    <2>1. s \o t \in Seq(LineOf(T)) /\ Len(s \o t) = Len(s) + Len(t)
        BY <1>0, ConcatProperties
    <2>2. SubSeq(s \o t, 1, Len(s)) = SubSeq(s, 1, Len(s))
        <3>1. CASE Len(s) = 0
            BY <1>0, <3>1, SubSeqEmpty
        <3>2. CASE Len(s) # 0
            <4>1. 1 \in 1..Len(s) /\ Len(s) \in 1..Len(s)
                BY <1>0, <3>2
            <4> QED BY <1>0, <4>1, SubSeqOfConcat1
        <3> QED BY <3>1, <3>2
    <2> QED BY <1>0, <2>1, <2>2 DEF IsPrefix
<1>2. IsPrefix(s, s)
    BY <1>0 DEF IsPrefix
<1> QED BY <1>1, <1>2

LEMMA PrefixElements ==
    ASSUME NEW T, NEW s \in Lines(T), NEW t \in Lines(T), IsPrefix(s, t)
    PROVE  ToSet(s) \subseteq ToSet(t)
<1>0. s \in Seq(LineOf(T)) /\ t \in Seq(LineOf(T)) /\ Len(s) \in Nat /\ Len(t) \in Nat
    BY DEF Lines
<1>1. Len(s) <= Len(t) /\ SubSeq(s, 1, Len(s)) = SubSeq(t, 1, Len(s))
    BY DEF IsPrefix
<1>2. \A i \in 1..Len(s) : i \in 1..Len(t) /\ s[i] = t[i]
    <2> SUFFICES ASSUME NEW i \in 1..Len(s) PROVE i \in 1..Len(t) /\ s[i] = t[i]
        OBVIOUS
    <2>1. SubSeq(s, 1, Len(s)) = s
        BY <1>0, SubSeqFull
    <2>2. SubSeq(t, 1, Len(s))[i] = t[i]
        BY <1>0, <1>1
    <2> QED BY <1>0, <1>1, <2>1, <2>2
<1>3. DOMAIN s = 1..Len(s) /\ DOMAIN t = 1..Len(t)
    BY <1>0
<1> QED BY <1>2, <1>3 DEF ToSet

LEMMA Associative ==
    ASSUME NEW S, NEW f \in Seq(S), NEW u \in Seq(S), NEW v \in Seq(S)
    PROVE  (f \o u) \o v = f \o (u \o v)
  BY ConcatAssociative

\* Recording a line, and flushing a part of the buffer.
LEMMA Recorded ==
    ASSUME NEW T, NEW f \in Lines(T), NEW b \in Lines(T), NEW r \in Lines(T), f \o b = r,
           NEW l \in LineOf(T)
    PROVE  f \o Append(b, l) = Append(r, l)
<1>0. f \in Seq(LineOf(T)) /\ b \in Seq(LineOf(T)) /\ r \in Seq(LineOf(T))
    BY DEF Lines
<1>1. <<l>> \in Seq(LineOf(T))
    OBVIOUS
<1>2. Append(b, l) = b \o <<l>> /\ Append(r, l) = r \o <<l>>
    BY <1>0, AppendIsConcat
<1>3. f \o (b \o <<l>>) = (f \o b) \o <<l>>
    BY <1>0, <1>1, Associative
<1> QED BY <1>2, <1>3

LEMMA Flushed ==
    ASSUME NEW T, NEW f \in Lines(T), NEW b \in Lines(T), NEW n \in 0..Len(b)
    PROVE  (f \o SubSeq(b, 1, n)) \o SubSeq(b, n + 1, Len(b)) = f \o b
<1>0. f \in Seq(LineOf(T)) /\ b \in Seq(LineOf(T)) /\ Len(b) \in Nat
    BY DEF Lines
<1>1. /\ SubSeq(b, n + 1, Len(b)) \in Seq(LineOf(T))
      /\ SubSeq(b, 1, n) \in Seq(LineOf(T))
    BY <1>0, Slices
<1>2. SubSeq(b, 1, n) \o SubSeq(b, n + 1, Len(b)) = b
    <2>1. 1 \in 1..(Len(b) + 1) /\ n \in (1 - 1)..Len(b) /\ Len(b) \in n..Len(b)
        BY <1>0
    <2>2. SubSeq(b, 1, n) \o SubSeq(b, n + 1, Len(b)) = SubSeq(b, 1, Len(b))
        BY <1>0, <2>1, ConcatAdjacentSubSeq
    <2> QED BY <1>0, <2>2, SubSeqFull
<1> DEFINE S == LineOf(T)
           u == SubSeq(b, 1, n)
           v == SubSeq(b, n + 1, Len(b))
<1>3. f \in Seq(S) /\ u \in Seq(S) /\ v \in Seq(S)
    BY <1>0, <1>1
<1> HIDE DEF S, u, v
<1>4. (f \o u) \o v = f \o (u \o v)
    BY <1>3, Associative
<1> QED BY <1>2, <1>4 DEF u, v

LEMMA Unflushed ==
    ASSUME NEW T, NEW b \in Lines(T), NEW n \in 0..Len(b), n < Len(b)
    PROVE  SubSeq(b, n + 1, Len(b)) # <<>>
<1>0. b \in Seq(LineOf(T)) /\ Len(b) \in Nat
    BY DEF Lines
<1>1. Len(SubSeq(b, n + 1, Len(b))) = Len(b) - (n + 1) + 1
    BY <1>0
<1>2. Len(SubSeq(b, n + 1, Len(b))) # 0
    BY <1>0, <1>1
<1> QED BY <1>2, EmptySeq

LEMMA InitFInv == Init => FInv
<1> SUFFICES ASSUME Init PROVE FInv
    OBVIOUS
<1>1. ASSUME NEW p \in Phase PROVE Disk(p)
    <2>1. p \notin Leftover => file[p].lines = <<>>
        BY DEF Init
    <2>2. rec[p] = <<>> /\ cap[p].st = "none" /\ cap[p].buf = <<>> /\ ~ file[p].torn
        BY DEF Init
    <2>3. <<>> \in Lines({})
        BY DEF Lines
    <2>4. IsPrefix(<<>>, <<>>)
        BY <2>3, PrefixOfConcat
    <2> QED BY <2>1, <2>2, <2>4 DEF Disk
<1>2. Disks
    BY <1>1 DEF Disks, Init, Phase
<1>3. Probe
    BY Empty DEF Probe, Init, Phase
<1> QED BY <1>2, <1>3, InitCInv DEF FInv

\* A capture process leaves the other's file, buffer and lines alone.
LEMMA OtherKept ==
    ASSUME Types, NEW p \in Phase, Capture(p), NEW q \in Phase, q # p
    PROVE  cap'[q] = cap[q] /\ file'[q] = file[q] /\ rec'[q] = rec[q]
<1>0. PICK T : Typed(T)
    BY DEF Types
<1>1. CASE Open(p)
    BY <1>0, <1>1 DEF Typed, Open
<1>2. CASE Crash(p)
    BY <1>0, <1>2 DEF Typed, Crash
<1>3. CASE \E f \in Flow : Sniff(p, f)
    BY <1>0, <1>3 DEF Typed, Sniff
<1>4. CASE Flush(p)
    BY <1>0, <1>4 DEF Typed, Flush
<1>5. CASE Close(p)
    BY <1>0, <1>5 DEF Typed, Close
<1> QED BY <1>1, <1>2, <1>3, <1>4, <1>5 DEF Capture

LEMMA OwnDisk ==
    ASSUME Types, NEW p \in Phase, Capture(p), Disk(p)
    PROVE  Disk(p)'
<1>0. PICK T : Typed(T)
    BY DEF Types
<1>1. /\ cap[p] \in [st : State, buf : Lines(T)]
      /\ file[p] \in [exists : BOOLEAN, torn : BOOLEAN, lines : Lines(T)]
      /\ rec[p] \in Lines(T)
    BY <1>0 DEF Typed
<1>2. cap[p].buf \in Seq(LineOf(T)) /\ rec[p] \in Seq(LineOf(T)) /\ file[p].lines \in Seq(LineOf(T))
    BY <1>1 DEF Lines
<1>3. CASE Open(p)
    <2>1. rec[p] = <<>> /\ cap[p].buf = <<>>
        BY <1>3 DEF Disk, Open
    <2>2. /\ cap'[p].st = "sniffing" /\ cap'[p].buf = <<>> /\ rec'[p] = <<>>
          /\ file'[p].lines = <<>> /\ ~ file'[p].torn
        BY <1>0, <1>3, <2>1 DEF Typed, Open
    <2>3. IsPrefix(<<>>, <<>>) /\ <<>> \o <<>> = <<>>
        <3>1. <<>> \in Lines(T)
            BY DEF Lines
        <3> QED BY <3>1, PrefixOfConcat
    <2> QED BY <2>2, <2>3 DEF Disk
<1>4. CASE Crash(p)
    BY <1>0, <1>4 DEF Typed, Crash, Disk
<1>5. ASSUME NEW f \in Flow, Sniff(p, f) PROVE Disk(p)'
    <2> DEFINE l == [new |-> TRUE, flow |-> f, faults |-> fault]
    <2>1. l \in LineOf(T)
        BY <1>0 DEF Typed, LineOf
    <2>2. /\ cap[p].st = "sniffing"
          /\ cap' = [cap EXCEPT ![p].buf = Append(cap[p].buf, l)]
          /\ rec' = [rec EXCEPT ![p] = Append(rec[p], l)]
          /\ file' = file
        BY <1>5 DEF Sniff
    <2> HIDE DEF l
    <2>3. /\ cap'[p].st = "sniffing" /\ cap'[p].buf = Append(cap[p].buf, l)
          /\ rec'[p] = Append(rec[p], l)
        BY <1>0, <2>2 DEF Typed
    <2>4. file[p].lines \o cap[p].buf = rec[p]
        BY <2>2 DEF Disk
    <2> DEFINE a == file[p].lines
               b == cap[p].buf
               r == rec[p]
    <2>31. a \in Lines(T) /\ b \in Lines(T) /\ r \in Lines(T) /\ a \o b = r
        BY <1>1, <2>4
    <2> HIDE DEF a, b, r
    <2>32. a \o Append(b, l) = Append(r, l)
        BY <2>1, <2>31, Recorded
    <2>5. file[p].lines \o Append(cap[p].buf, l) = Append(rec[p], l)
        BY <2>32 DEF a, b, r
    <2>6. Append(cap[p].buf, l) \in Lines(T) /\ Append(cap[p].buf, l) # <<>>
        <3>1. Append(b, l) \in Seq(LineOf(T)) /\ Append(b, l) # <<>>
            BY <2>1, <2>31 DEF Lines
        <3> QED BY <3>1 DEF Lines, b
    <2>7. IsPrefix(file[p].lines, Append(rec[p], l))
        <3>1. IsPrefix(a, a \o Append(b, l))
            BY <2>31, <2>6, PrefixOfConcat DEF b
        <3> QED BY <2>32, <3>1 DEF a, r
    <2> QED BY <2>2, <2>3, <2>5, <2>6, <2>7 DEF Disk
<1>6. CASE Flush(p)
    <2>0. \A m \in 0..Len(cap[p].buf) :
              /\ (file[p].lines \o SubSeq(cap[p].buf, 1, m))
                     \o SubSeq(cap[p].buf, m + 1, Len(cap[p].buf)) = rec[p]
              /\ m < Len(cap[p].buf) => SubSeq(cap[p].buf, m + 1, Len(cap[p].buf)) # <<>>
        <3> DEFINE a == file[p].lines
                   b == cap[p].buf
                   r == rec[p]
        <3>1. a \in Lines(T) /\ b \in Lines(T) /\ r \in Lines(T) /\ a \o b = r
            BY <1>1, <1>6 DEF Flush, Disk
        <3> HIDE DEF a, b, r
        <3>2. ASSUME NEW m \in 0..Len(b)
              PROVE  (a \o SubSeq(b, 1, m)) \o SubSeq(b, m + 1, Len(b)) = r
            BY <3>1, Flushed
        <3>3. ASSUME NEW m \in 0..Len(b), m < Len(b)
              PROVE  SubSeq(b, m + 1, Len(b)) # <<>>
            <4>1. b \in Lines(T)
                BY <3>1
            <4> QED BY <3>3, <4>1, Unflushed, Zenon
        <3> QED BY <3>2, <3>3 DEF a, b, r
    <2>1. PICK n \in 0..Len(cap[p].buf), t \in BOOLEAN :
              /\ t => n < Len(cap[p].buf)
              /\ cap' = [cap EXCEPT ![p].buf = SubSeq(cap[p].buf, n + 1, Len(cap[p].buf))]
              /\ file' = [file EXCEPT ![p].lines = file[p].lines \o SubSeq(cap[p].buf, 1, n),
                                      ![p].torn = t]
        BY <1>6 DEF Flush
    <2>2. cap[p].st = "sniffing" /\ rec' = rec
        BY <1>6 DEF Flush
    <2>3. /\ cap'[p].st = "sniffing"
          /\ cap'[p].buf = SubSeq(cap[p].buf, n + 1, Len(cap[p].buf))
          /\ file'[p].lines = file[p].lines \o SubSeq(cap[p].buf, 1, n)
          /\ file'[p].torn = t
        BY <1>0, <2>1, <2>2 DEF Typed
    <2>5. /\ file'[p].lines \o cap'[p].buf = rec[p]
          /\ n < Len(cap[p].buf) => cap'[p].buf # <<>>
        BY <2>0, <2>1, <2>3
    <2>6. /\ SubSeq(cap[p].buf, n + 1, Len(cap[p].buf)) \in Seq(LineOf(T))
          /\ SubSeq(cap[p].buf, 1, n) \in Seq(LineOf(T))
        BY <1>2, Slices
    <2>7. file'[p].lines \in Lines(T) /\ cap'[p].buf \in Lines(T)
        <3>1. file[p].lines \o SubSeq(cap[p].buf, 1, n) \in Seq(LineOf(T))
            BY <1>2, <2>6, ConcatProperties
        <3> QED BY <2>3, <2>6, <3>1 DEF Lines
    <2>8. IsPrefix(file'[p].lines, rec[p])
        <3> DEFINE a == file'[p].lines
                   b == cap'[p].buf
        <3>1. a \in Lines(T) /\ b \in Lines(T) /\ a \o b = rec[p]
            BY <2>5, <2>7
        <3> HIDE DEF a, b
        <3>2. IsPrefix(a, a \o b)
            BY <3>1, PrefixOfConcat
        <3> QED BY <3>1, <3>2 DEF a
    <2> QED BY <2>1, <2>2, <2>3, <2>5, <2>8 DEF Disk
<1>7. CASE Close(p)
    <2>1. /\ cap'[p].st = "closed" /\ cap'[p].buf = <<>> /\ rec' = rec
          /\ file'[p].lines = file[p].lines \o cap[p].buf /\ ~ file'[p].torn
        BY <1>0, <1>7 DEF Typed, Close
    <2>2. file[p].lines \o cap[p].buf = rec[p]
        BY <1>7 DEF Close, Disk
    <2>3. IsPrefix(rec[p], rec[p])
        BY <1>1, PrefixOfConcat
    <2> QED BY <2>1, <2>2, <2>3 DEF Disk
<1> QED BY <1>3, <1>4, <1>5, <1>6, <1>7 DEF Capture

LEMMA RunnerDisks == FInv /\ Runner => Disks'
<1> SUFFICES ASSUME FInv, Runner PROVE Disks'
    OBVIOUS
<1>0. PICK T : Typed(T)
    BY DEF FInv, CInv, Types
<1>1. phase \in Phase /\ file' = file /\ rec' = rec
    BY <1>0 DEF Typed, Runner, StartCapture, LaunchFlows, WaitReturns, WaitTimeout, Pkill,
            ReadProbe, PickTargets, Inject, Clear, capture
<1>2. CASE StartCapture
    <2>1. cap[phase].st = "none"
        <3>1. phase = "probe" \/ phase = "run"
            BY <1>1 DEF Phase
        <3> QED BY <1>2, <3>1 DEF FInv, CInv, Before, Disks, StartCapture
    <2>2. cap' = [cap EXCEPT ![phase].st = "starting"] /\ pc' = "flows"
        BY <1>2 DEF StartCapture
    <2>3. ASSUME NEW p \in Phase PROVE Disk(p)'
        <3>1. CASE p # phase
            <4>1. cap'[p] = cap[p]
                BY <1>0, <2>2, <3>1 DEF Typed
            <4> QED BY <1>1, <4>1 DEF FInv, Disks, Disk
        <3>2. CASE p = phase
            <4>1. cap'[p].st = "starting" /\ cap'[p].buf = cap[p].buf
                BY <1>0, <2>2, <3>2 DEF Typed
            <4> QED BY <1>1, <2>1, <3>2, <4>1 DEF FInv, Disks, Disk
        <3> QED BY <3>1, <3>2
    <2> QED BY <2>2, <2>3 DEF Disks
<1>3. CASE cap' = cap /\ ~ StartCapture
    <2>1. ~ (phase' = "probe" /\ pc' = "start")
        BY <1>3 DEF FInv, CInv, Stages, Runner, LaunchFlows, WaitReturns, WaitTimeout, Pkill,
            ReadProbe, PickTargets, Inject, Clear
    <2> QED BY <1>1, <1>3, <2>1 DEF FInv, Disks, Disk
<1>4. CASE WaitTimeout /\ cap' = [cap EXCEPT ![phase] = [st |-> "killed", buf |-> <<>>]]
    <2>1. ASSUME NEW p \in Phase PROVE Disk(p)'
        <3>1. CASE p # phase
            <4>1. cap'[p] = cap[p]
                BY <1>0, <1>4, <3>1 DEF Typed
            <4> QED BY <1>1, <4>1 DEF FInv, Disks, Disk
        <3>2. CASE p = phase
            <4>1. cap'[p].st = "killed"
                BY <1>0, <1>4, <3>2 DEF Typed
            <4> QED BY <1>1, <4>1 DEF FInv, Disks, Disk
        <3> QED BY <3>1, <3>2
    <2> QED BY <1>4, <2>1 DEF Disks, WaitTimeout
<1> QED BY <1>2, <1>3, <1>4 DEF Runner, LaunchFlows, WaitReturns, WaitTimeout, Pkill,
            ReadProbe, PickTargets, Inject, Clear, capture

LEMMA RunnerProbe == FInv /\ Runner => Probe'
<1> SUFFICES ASSUME FInv, Runner PROVE Probe'
    OBVIOUS
<1>0. PICK T : Typed(T)
    BY DEF FInv, CInv, Types
<1>1. rec' = rec
    BY DEF Runner, StartCapture, LaunchFlows, WaitReturns, WaitTimeout, Pkill,
            ReadProbe, PickTargets, Inject, Clear, capture
<1>2. CASE ReadProbe
    <2>1. phase = "probe"
        BY <1>0, <1>2 DEF FInv, CInv, Stages, ReadProbe, Typed, Phase
    <2>2. \A l \in ToSet(rec["probe"]) : Clean(l)
        BY <2>1 DEF FInv, Probe
    <2>3. CASE seen' = seen
        BY <1>1, <2>2, <2>3 DEF FInv, Probe
    <2>4. CASE seen' = file["probe"].lines
        <3>1. ASSUME "probe" \notin Leftover
              PROVE  ToSet(file["probe"].lines) \subseteq ToSet(rec["probe"])
            <4>1. "probe" \in Phase
                BY DEF Phase
            <4>2. IsPrefix(file["probe"].lines, rec["probe"])
                BY <3>1, <4>1 DEF FInv, Disks, Disk
            <4>3. file["probe"].lines \in Lines(T) /\ rec["probe"] \in Lines(T)
                BY <1>0, <4>1 DEF Typed
            <4> QED BY <4>2, <4>3, PrefixElements
        <3> QED BY <1>1, <2>2, <2>4, <3>1 DEF Probe
    <2> QED BY <1>2, <2>3, <2>4 DEF ReadProbe
<1>3. CASE ~ ReadProbe
    <2>1. UNCHANGED <<phase, seen>>
        BY <1>3 DEF Runner, StartCapture, LaunchFlows, WaitReturns, WaitTimeout, Pkill,
            PickTargets, Inject, Clear
    <2> QED BY <1>1, <2>1 DEF FInv, Probe
<1> QED BY <1>2, <1>3

LEMMA AlwaysFInv == Spec => []FInv
<1>1. FInv /\ CInv' /\ [Next]_vars => FInv'
    <2> SUFFICES ASSUME FInv, CInv', [Next]_vars PROVE Disks' /\ Probe'
        BY DEF FInv
    <2>0. Types
        BY DEF FInv, CInv
    <2>1. CASE Runner
        BY <2>1, RunnerDisks, RunnerProbe
    <2>2. ASSUME NEW p \in Phase, Capture(p) PROVE Disks' /\ Probe'
        <3>0. "probe" \in Phase
            BY DEF Phase
        <3>1. ASSUME NEW q \in Phase PROVE Disk(q)'
            <4>1. CASE q = p
                BY <2>0, <2>2, <4>1, OwnDisk DEF FInv, Disks
            <4>2. CASE q # p
                <5>1. cap'[q] = cap[q] /\ file'[q] = file[q] /\ rec'[q] = rec[q]
                    BY <2>0, <2>2, <4>2, OtherKept
                <5> QED BY <5>1 DEF FInv, Disks, Disk
            <4> QED BY <4>1, <4>2
        <3>2. /\ UNCHANGED <<pc, phase, seen, fault>>
              /\ cap["probe"].st = "none" => cap'["probe"].st = "none"
              /\ \/ rec'["probe"] = rec["probe"]
                 \/ \E l : /\ l.new /\ l.faults = fault
                           /\ ToSet(rec'["probe"]) = ToSet(rec["probe"]) \cup {l}
            BY <2>0, <2>2, <3>0, CaptureEffect
        <3>3. phase = "probe" => fault = {}
            BY DEF FInv, CInv, Stages
        <3>4. Disks'
            BY <3>1, <3>2 DEF FInv, Disks
        <3>5. Probe'
            BY <3>2, <3>3 DEF FInv, Probe, Clean
        <3> QED BY <3>4, <3>5
    <2>3. CASE FlowsEnd \/ UNCHANGED vars
        BY <2>3 DEF FlowsEnd, vars, runner, capture, FInv, Disks, Disk, Probe
    <2> QED BY <2>1, <2>2, <2>3 DEF Next
<1> QED BY <1>1, InitFInv, AlwaysCInv, PTL DEF Spec

(* What is on disk is a prefix of what its capture recorded, and all of it  *)
(* once the capture has closed it, whatever part of its buffer is flushed   *)
(* when, and whether the wait's timeout kills it, its shell or neither      *)
(* (m3a_capture.py:37-54, m3a_runner.py:218-221).                           *)
THEOREM FileAlwaysPrefix == Spec => []FileIsPrefix
<1>1. FInv => FileIsPrefix
    BY DEF FInv, Disks, Disk, FileIsPrefix
<1> QED BY <1>1, AlwaysFInv, PTL

(* When no earlier session left a probe file, the ports the targets are     *)
(* picked from were all observed by this session's probe, before any fault: *)
(* the promise of m3a_runner.py:127-129 fails only through such a file.     *)
THEOREM AlwaysObserved ==
    ASSUME "probe" \notin Leftover
    PROVE  Spec => []ObservedThisSession
<1>1. FInv => ObservedThisSession
    <2> SUFFICES ASSUME FInv, NEW i \in DOMAIN seen PROVE seen[i].new /\ seen[i].faults = {}
        BY DEF ObservedThisSession
    <2>1. seen[i] \in ToSet(seen)
        BY DEF ToSet
    <2> QED BY <2>1 DEF FInv, Probe, Clean
<1> QED BY <1>1, AlwaysFInv, PTL

-----------------------------------------------------------------------------
(* Targets *)

LEMMA CoverageSorts ==
    ASSUME NEW T, NEW lines \in Lines(T)
    PROVE  /\ IsFiniteSet(Observed(lines)) /\ StrictOrder(Observed(lines), Fewer(lines))
           /\ Sorted(Observed(lines), Fewer(lines), ByCoverage(lines))
<1> DEFINE m == Len(lines)
           S == Observed(lines)
           f == [i \in 1..m |-> Route[lines[i].flow]]
<1>1. m \in Nat /\ DOMAIN lines = 1..m /\ \A i \in 1..m : lines[i].flow \in Flow
    <2>1. lines \in Seq(LineOf(T))
        BY DEF Lines
    <2>2. \A i \in 1..Len(lines) : lines[i] \in LineOf(T)
        BY <2>1, ElementOfSeq
    <2> QED BY <2>1, <2>2 DEF LineOf
<1> HIDE DEF m
<1>2. \A i \in 1..m : IsFiniteSet(f[i]) /\ f[i] \subseteq Nat
    BY <1>1, RunAssumption
<1>3. S = UNION {f[i] : i \in 1..m}
    BY <1>1 DEF Observed
<1> HIDE DEF f
<1>4. IsFiniteSet(S)
    BY <1>1, <1>2, <1>3, UnionFinite
<1>5. S \subseteq Nat
    BY <1>2, <1>3
<1>6. \A u : Count(lines, u) \in Nat
    <2> TAKE u
    <2> DEFINE A == {i \in DOMAIN lines : u \in Route[lines[i].flow]}
               B == 1..m
    <2>1. A \in SUBSET B
        BY <1>1
    <2> PICK z \in Int : z = 1
        OBVIOUS
    <2>2. IsFiniteSet(z..m)
        BY <1>1, FS_Interval
    <2> HIDE DEF A
    <2>3. IsFiniteSet(A)
        BY <2>1, <2>2, FS_Subset
    <2>4. Cardinality(A) \in Nat
        BY <2>3, FS_CardinalityType
    <2> QED BY <2>4 DEF A, Count
<1> DEFINE c(u) == Count(lines, u)
<1>7. \A x, y \in S :
          <<x, y>> \in Fewer(lines) <=> c(x) < c(y) \/ (c(x) = c(y) /\ x < y)
    BY DEF Fewer
<1> HIDE DEF S, c
<1>8. \A x \in S : c(x) \in Nat /\ x \in Nat
    BY <1>5, <1>6 DEF c
<1>9. StrictOrder(S, Fewer(lines))
    <2>1. \A x \in S : <<x, x>> \notin Fewer(lines)
        BY <1>7, <1>8
    <2>2. \A x, y \in S : x # y => <<x, y>> \in Fewer(lines) \/ <<y, x>> \in Fewer(lines)
        BY <1>7, <1>8
    <2>3. ASSUME NEW x \in S, NEW y \in S, NEW z \in S,
                 <<x, y>> \in Fewer(lines), <<y, z>> \in Fewer(lines)
          PROVE  <<x, z>> \in Fewer(lines)
        BY <1>7, <1>8, <2>3
    <2> QED BY <2>1, <2>2, <2>3 DEF StrictOrder
<1>10. Sorted(S, Fewer(lines), InOrder(S, Fewer(lines)))
    BY <1>4, <1>9, InOrderSorts
<1> QED BY <1>4, <1>9, <1>10 DEF S, ByCoverage

LEMMA MinIs ==
    ASSUME NEW a \in Int, NEW b \in Int
    PROVE  Min({a, b}) = IF a <= b THEN a ELSE b
BY DEF Min

\* What TargetsSpan says of the targets.
Spans(ts, lines, n) ==
    /\ IsInjective(ts) /\ ToSet(ts) \subseteq Observed(lines)
    /\ Len(ts) = Min({n, Cardinality(Observed(lines))})
    /\ ts[1] = ByCoverage(lines)[1]
    /\ n > 1 => Last(ts) = Last(ByCoverage(lines))

LEMMA PickedSpan ==
    ASSUME NEW T, NEW lines \in Lines(T), NEW n \in Nat \ {0}, Observed(lines) # {}
    PROVE  Spans(pick_targets(lines, n), lines, n)
<1> DEFINE S == Observed(lines)
           N == Cardinality(S)
           less == Fewer(lines)
           o == ByCoverage(lines)
           I == IF n = 1 THEN {0} ELSE Spread(N - 1, n - 1)
           c == Cardinality(I)
           a == Ascending(I)
           q == pick_targets(lines, n)
<1>1. IsFiniteSet(S) /\ StrictOrder(S, less) /\ Sorted(S, less, o)
    BY CoverageSorts
<1>2. N \in Nat \ {0}
    BY <1>1, FS_CardinalityType, FS_EmptySet
<1>3. /\ Len(o) = N /\ \A k \in 1..N : o[k] \in S
      /\ \A k, j \in 1..N : k < j => o[k] # o[j]
    <2> HIDE DEF S, less, o, N
    <2>1. Len(o) = N /\ o \in Seq(S)
        BY <1>1 DEF Sorted, N
    <2>2. \A k \in 1..N : o[k] \in S
        BY <2>1, ElementOfSeq
    <2>3. \A k, j \in 1..N : k < j => <<o[k], o[j]>> \in less
        BY <1>1, <2>1 DEF Sorted
    <2> QED BY <1>1, <2>1, <2>2, <2>3 DEF StrictOrder
<1>4. q = [k \in 1..c |-> o[1 + a[k]]]
    <2>1. I = IF n = 1 THEN {0} ELSE {Round(i * (Len(o) - 1), n - 1) : i \in 0..(n - 1)}
        BY <1>3 DEF Spread
    <2> HIDE DEF o, I
    <2> QED BY <2>1 DEF pick_targets, o
<1> HIDE DEF S, N, less, o, q
<1>5. /\ I \subseteq 0..(N - 1) /\ 0 \in I /\ (n > 1 => N - 1 \in I)
      /\ c = (IF n <= N THEN n ELSE N)
    <2> PICK m \in Nat : m = N - 1
        BY <1>2
    <2>1. CASE n = 1
        <3>1. I = {0}
            BY <2>1
        <3>2. c = 1
            BY <3>1, FS_Singleton
        <3> QED BY <1>2, <2>1, <3>1, <3>2
    <2>2. CASE n # 1
        <3> PICK e \in Nat \ {0} : e = n - 1
            BY <2>2
        <3>1. I = Spread(m, e)
            BY <2>2
        <3>2. /\ Spread(m, e) \subseteq 0..m /\ 0 \in Spread(m, e) /\ m \in Spread(m, e)
              /\ Cardinality(Spread(m, e)) = IF e <= m THEN e + 1 ELSE m + 1
            BY SpreadIs
        <3> HIDE DEF I
        <3> QED BY <1>2, <3>1, <3>2
    <2> QED BY <2>1, <2>2
<1> HIDE DEF I
<1>6. IsFiniteSet(I) /\ I \subseteq Nat
    <2> PICK m \in Int, z \in Int : m = N - 1 /\ z = 0
        BY <1>2
    <2>1. IsFiniteSet(z..m)
        BY FS_Interval
    <2>2. I \in SUBSET (z..m)
        BY <1>5
    <2>3. IsFiniteSet(I)
        BY <2>1, <2>2, FS_Subset
    <2> QED BY <1>2, <1>5, <2>3
<1>7. /\ a \in Seq(I) /\ Len(a) = c
      /\ \A k, j \in 1..c : k < j => a[k] < a[j]
      /\ \A x \in I : \E k \in 1..c : a[k] = x
    BY <1>6, AscendingSorts
<1> HIDE DEF a, c
<1>8. c \in Nat \ {0} /\ \A k \in 1..c : a[k] \in 0..(N - 1)
    <2>1. \A k \in 1..c : a[k] \in I
        BY <1>7, ElementOfSeq
    <2> QED BY <1>2, <1>5, <2>1
<1>9. a[1] = 0
    <2> PICK k \in 1..c : a[k] = 0
        BY <1>5, <1>7
    <2>1. 1 \in 1..c /\ a[1] \in 0..(N - 1)
        BY <1>8
    <2>2. k = 1 \/ 1 < k
        OBVIOUS
    <2> QED BY <1>2, <1>7, <2>1, <2>2
<1>10. n > 1 => a[c] = N - 1
    <2> HAVE n > 1
    <2> PICK k \in 1..c : a[k] = N - 1
        BY <1>5, <1>7
    <2>1. c \in 1..c /\ a[c] \in 0..(N - 1)
        BY <1>8
    <2>2. k = c \/ k < c
        BY <1>8
    <2> QED BY <1>2, <1>7, <2>1, <2>2
<1>11. DOMAIN q = 1..c /\ \A k \in 1..c : q[k] = o[1 + a[k]] /\ 1 + a[k] \in 1..N
    BY <1>2, <1>4, <1>8
<1>12. IsInjective(q)
    <2>1. \A k, j \in 1..c : k < j => q[k] # q[j]
        <3> TAKE k, j \in 1..c
        <3> HAVE k < j
        <3>1. 1 + a[k] \in 1..N /\ 1 + a[j] \in 1..N /\ 1 + a[k] < 1 + a[j]
            BY <1>2, <1>7, <1>8, <1>11
        <3> QED BY <1>3, <1>11, <3>1
    <2>2. \A k, j \in 1..c : k < j \/ j < k \/ k = j
        OBVIOUS
    <2>3. \A k, j \in 1..c : q[k] = q[j] => k = j
        BY <2>1, <2>2
    <2> QED BY <1>11, <2>3 DEF IsInjective
<1>13. ToSet(q) \subseteq S
    BY <1>3, <1>11 DEF ToSet
<1>14. Len(q) = c /\ Len(q) = Min({n, N})
    <2>1. Len(q) = c
        BY <1>4, <1>8
    <2>2. Min({n, N}) = IF n <= N THEN n ELSE N
        BY <1>2, MinIs
    <2> QED BY <1>5, <2>1, <2>2
<1>15. q[1] = o[1]
    BY <1>8, <1>9, <1>11
<1>16. n > 1 => q[c] = o[N]
    BY <1>2, <1>8, <1>10, <1>11
<1>17. n > 1 => Last(q) = Last(o)
    BY <1>3, <1>14, <1>16 DEF Last
<1> QED BY <1>12, <1>13, <1>14, <1>15, <1>17 DEF Spans, S, N, o, q

\* The targets are those of the probe's lines as they were read.
Picked == targets = <<>> \/ Spans(targets, seen, d)

LEMMA PickPicked ==
    ASSUME Types, PickTargets, targets = <<>>
    PROVE  Picked'
<1> PICK T : Typed(T)
    BY DEF Types
<1>1. seen \in Lines(T) /\ d \in Nat /\ seen' = seen /\ d' = d
    BY DEF Typed, PickTargets
<1>2. CASE targets' = <<>>
    BY <1>2 DEF Picked
<1>3. CASE d # 0 /\ Observed(seen) # {} /\ targets' = pick_targets(seen, d)
    <2>1. d \in Nat \ {0}
        BY <1>1, <1>3
    <2>2. Spans(pick_targets(seen, d), seen, d)
        BY <1>1, <1>3, <2>1, PickedSpan
    <2>3. Spans(targets', seen', d')
        BY <1>1, <1>3, <2>2
    <2> QED BY <2>3 DEF Picked
<1>4. \/ targets' = <<>>
      \/ d # 0 /\ Observed(seen) # {} /\ targets' = pick_targets(seen, d)
    BY <1>1 DEF PickTargets
<1> QED BY <1>2, <1>3, <1>4

(* The targets a session picks are distinct observed ports, as many as asked *)
(* for or as there are, from the least to the most covered one, for every    *)
(* set of routes, every coverage the probe observed and every number of      *)
(* faults asked for (m3a_runner.py:112-121).                                 *)
THEOREM TargetsAlwaysSpan == Spec => []TargetsSpan
<1>1. Init => Picked
    BY DEF Init, Picked
<1>2. CInv /\ Picked /\ [Next]_vars => Picked'
    <2> SUFFICES ASSUME CInv, Picked, [Next]_vars PROVE Picked'
        OBVIOUS
    <2>1. CASE PickTargets
        <3>1. Types /\ targets = <<>>
            BY <2>1 DEF CInv, Stages, PickTargets
        <3> QED BY <2>1, <3>1, PickPicked
    <2>2. CASE ReadProbe
        <3>1. phase = "probe" => targets = <<>>
            BY DEF CInv, Stages
        <3>2. phase \in Phase /\ pc = "read" /\ targets' = targets
            BY <2>2 DEF CInv, Types, Typed, ReadProbe
        <3>3. phase # "run"
            BY <3>2 DEF CInv, Stages
        <3> QED BY <3>1, <3>2, <3>3 DEF Picked, Phase
    <2>3. CASE UNCHANGED <<targets, seen, d>>
        BY <2>3 DEF Picked
    <2>4. [Next]_vars => PickTargets \/ ReadProbe \/ UNCHANGED <<targets, seen, d>>
        BY DEF Next, Runner, Capture, StartCapture, LaunchFlows, WaitReturns, WaitTimeout,
               Pkill, Inject, Clear, Open, Crash, Sniff, Flush, Close, FlowsEnd, vars, runner
    <2> QED BY <2>1, <2>2, <2>3, <2>4
<1>3. Picked => TargetsSpan
    BY DEF Picked, Spans, TargetsSpan
<1> QED BY <1>1, <1>2, <1>3, AlwaysCInv, PTL DEF Spec
=============================================================================
