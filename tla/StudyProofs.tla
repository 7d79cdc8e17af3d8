---------------------------- MODULE StudyProofs ----------------------------
(***************************************************************************)
(* The offline studies, for every capture and every placement of faults:   *)
(* the loops of comp_dd compute COMP and DD, recovery is monotone along    *)
(* the prefixes, Full-INT localises first, a larger byte budget loses no   *)
(* fault, and the greedy seeds come near the best ones.                    *)
(***************************************************************************)
EXTENDS MCPrefix, DataProofs, SequenceTheorems

-----------------------------------------------------------------------------
(* Least and greatest numbers *)

LEMMA MinIs ==
    ASSUME NEW S, S \subseteq Nat, NEW k \in S
    PROVE  Min(S) \in S /\ \A x \in S : Min(S) <= x
<1>1. PICK n \in Nat : n \in S /\ \A m \in Nat : m < n => m \notin S
    BY LeastNat
<1>2. \A x \in S : n <= x
    BY <1>1
<1> QED BY <1>1, <1>2 DEF Min

LEMMA MaxIs ==
    ASSUME NEW n \in Nat, NEW S, S \subseteq 0..n, NEW k \in S
    PROVE  Max(S) \in S /\ \A x \in S : x <= Max(S)
<1> DEFINE T == {j \in Nat : n - j \in S}
<1>1. n - k \in Nat /\ n - k \in T
    OBVIOUS
<1>2. PICK j \in Nat : j \in T /\ \A m \in Nat : m < j => m \notin T
    <2> HIDE DEF T
    <2> QED BY <1>1, LeastNat
<1>3. \A x \in S : x <= n - j
    <2> TAKE x \in S
    <2>1. n - x \in Nat /\ n - x \in T
        OBVIOUS
    <2>2. ~ (n - x < j)
        BY <1>2, <2>1
    <2> QED BY <2>2
<1>4. n - j \in S
    BY <1>2
<1>5. \A x \in S : n - j >= x
    BY <1>3
<1>6. \A y \in S : (\A x \in S : y >= x) => y = n - j
    BY <1>3, <1>4
<1> QED BY <1>4, <1>5, <1>6 DEF Max

LEMMA LastIndex ==
    ASSUME NEW n \in Nat, NEW s \in SUBSET (1..n), s # {}
    PROVE  Max(s) \in s /\ Max(s) \in 1..n /\ s \ {Max(s)} \in SUBSET (1..n)
<1>1. PICK k \in s : TRUE
    OBVIOUS
<1>2. s \subseteq 0..n
    OBVIOUS
<1> QED BY <1>1, <1>2, MaxIs

\* Taking the greatest index away from 1 .. k + 1 leaves 1 .. k.
LEMMA Below ==
    ASSUME NEW k \in Nat
    PROVE  1..(k + 1) # {} /\ Max(1..(k + 1)) = k + 1 /\ (1..(k + 1)) \ {k + 1} = 1..k
<1>1. k + 1 \in 1..(k + 1) /\ 1..(k + 1) \subseteq 0..(k + 1)
    OBVIOUS
<1> PICK m \in Nat : m = k + 1
    OBVIOUS
<1>2. m \in 1..m /\ 1..m \subseteq 0..m
    BY <1>1
<1>3. Max(1..m) \in 1..m /\ \A x \in 1..m : x <= Max(1..m)
    BY <1>2, MaxIs, Zenon
<1> QED BY <1>1, <1>3

-----------------------------------------------------------------------------
(* FoldLeft: the recursion it is defined by, with the step as a function *)

FoldStep(base, step, g, s) == IF s = {} THEN base ELSE step[<<Max(s), g[s \ {Max(s)}]>>]

IsFold(A, n, base, step, g) ==
    /\ g \in [SUBSET (1..n) -> A]
    /\ \A s \in SUBSET (1..n) : g[s] = FoldStep(base, step, g, s)

\* There is a function that satisfies the recursion, built layer by layer.
LEMMA FoldExists ==
    ASSUME NEW A, NEW n \in Nat, NEW base \in A, NEW step \in [(1..n) \X A -> A]
    PROVE  \E g : IsFold(A, n, base, step, g)
<1> DEFINE S == 1..n
           Sub(k) == {s \in SUBSET S : Cardinality(s) <= k}
           Ok(k) == \E g \in [Sub(k) -> A] : \A s \in Sub(k) : g[s] = FoldStep(base, step, g, s)
           T == {k \in Nat : Ok(k)}
<1>0. IsFiniteSet(S) /\ Cardinality(S) = n
    BY FS_Interval
<1>1. \A s \in SUBSET S : IsFiniteSet(s) /\ Cardinality(s) \in Nat /\ Cardinality(s) <= n
    <2> HIDE DEF S
    <2> QED BY <1>0, FS_Subset, FS_CardinalityType
<1>m. \A s \in SUBSET S : s # {} => Max(s) \in s
    BY LastIndex
<1>r. \A k \in Nat : \A s \in Sub(k + 1) : s # {} => s \ {Max(s)} \in Sub(k)
    <2> TAKE k \in Nat
    <2> TAKE s \in Sub(k + 1)
    <2> HAVE s # {}
    <2>1. Max(s) \in s
        BY <1>m
    <2>2. Cardinality(s \ {Max(s)}) = Cardinality(s) - 1
        BY <1>1, <2>1, FS_RemoveElement
    <2>3. s \ {Max(s)} \in SUBSET S /\ Cardinality(s) \in Nat /\ Cardinality(s) <= k + 1
        BY <1>1
    <2> HIDE DEF S
    <2> QED BY <2>2, <2>3
<1>2. 0 \in T
    <2>1. \A s \in Sub(0) : s = {}
        BY <1>1, FS_EmptySet
    <2> DEFINE g == [s \in Sub(0) |-> base]
    <2>2. g \in [Sub(0) -> A]
        OBVIOUS
    <2>3. \A s \in Sub(0) : g[s] = FoldStep(base, step, g, s)
        BY <2>1 DEF FoldStep
    <2> HIDE DEF g, Sub
    <2> QED BY <2>2, <2>3
<1>3. ASSUME NEW k \in Nat, k \in T PROVE k + 1 \in T
    <2>1. PICK g \in [Sub(k) -> A] : \A s \in Sub(k) : g[s] = FoldStep(base, step, g, s)
        BY <1>3
    <2>2. \A s \in Sub(k) : s \in Sub(k + 1)
        BY <1>1
    <2>3. \A s \in Sub(k + 1) : s # {} => Max(s) \in S /\ s \ {Max(s)} \in Sub(k)
        BY <1>m, <1>r
    <2> HIDE DEF Sub
    <2> DEFINE h == [s \in Sub(k + 1) |-> FoldStep(base, step, g, s)]
    <2>4. \A s \in Sub(k + 1) : FoldStep(base, step, g, s) \in A
        BY <2>3 DEF FoldStep
    <2>5. h \in [Sub(k + 1) -> A]
        BY <2>4
    <2>6. \A s \in Sub(k) : h[s] = g[s]
        BY <2>1, <2>2
    <2>7. \A s \in Sub(k + 1) : h[s] = FoldStep(base, step, g, s)
        OBVIOUS
    <2> HIDE DEF h
    <2>8. \A s \in Sub(k + 1) : h[s] = FoldStep(base, step, h, s)
        BY <2>3, <2>6, <2>7 DEF FoldStep
    <2>9. Ok(k + 1)
        BY <2>5, <2>8
    <2> HIDE DEF Ok
    <2> QED BY <2>9
<1> HIDE DEF T
<1>4. n \in T
    BY <1>2, <1>3, NatSetInduction
<1>5. Sub(n) = SUBSET S
    BY <1>1
<1> QED BY <1>4, <1>5 DEF T, IsFold

-----------------------------------------------------------------------------
(* The loops of comp_dd *)

ColsStep(rows, g, s) == IF s = {} THEN {} ELSE g[s \ {Max(s)}] \cup rows[Max(s)].mem

LEMMA ColsIsColumns ==
    ASSUME NEW V, NEW rows \in Seq(V)
    PROVE  cols(rows) = Columns(ToSet(rows))
<1> DEFINE n == Len(rows)
           P == SUBSET (1..n)
           Q(g) == g = [s \in P |-> ColsStep(rows, g, s)]
<1>1. n \in Nat /\ DOMAIN rows = 1..n
    OBVIOUS
<1>2. cols(rows) = (CHOOSE g : Q(g))[1..n]
    BY <1>1 DEF cols, FoldLeft, MapThenFoldSet, ColsStep
<1>3. \E g : Q(g)
    <2> DEFINE A == SUBSET Columns(ToSet(rows))
               step == [x \in (1..n) \X A |-> x[2] \cup rows[x[1]].mem]
    <2>1. \A i \in 1..n : rows[i].mem \subseteq Columns(ToSet(rows))
        BY <1>1 DEF Columns, ToSet
    <2>2. step \in [(1..n) \X A -> A] /\ {} \in A
        BY <2>1
    <2>3. \A i \in 1..n : \A a \in A : step[<<i, a>>] = a \cup rows[i].mem
        OBVIOUS
    <2> HIDE DEF step, A, n
    <2>4. PICK g : IsFold(A, n, {}, step, g)
        <3>1. n \in Nat /\ {} \in A
            BY <1>1, <2>2
        <3>2. n \in Nat
            BY <3>1
        <3>3. {} \in A
            BY <3>1
        <3>4. step \in [(1..n) \X A -> A]
            BY <2>2
        <3> QED BY <3>2, <3>3, <3>4, FoldExists
    <2>5. \A s \in P : s # {} => Max(s) \in 1..n /\ s \ {Max(s)} \in P
        BY <1>1, LastIndex
    <2>6. g \in [P -> A] /\ \A s \in P : g[s] = FoldStep({}, step, g, s)
        BY <2>4 DEF IsFold
    <2>7. \A s \in P : g[s] = ColsStep(rows, g, s)
        BY <2>3, <2>5, <2>6 DEF FoldStep, ColsStep
    <2> QED BY <2>6, <2>7
<1>4. PICK g : g = (CHOOSE h : Q(h)) /\ Q(g)
    BY <1>3
<1> DEFINE Upto(k) == k <= n => g[1..k] = UNION {rows[i].mem : i \in 1..k}
           T == {k \in Nat : Upto(k)}
<1>5. 0 \in T
    <2>1. 1..0 = {} /\ {} \in P
        OBVIOUS
    <2>2. g[{}] = {}
        BY <1>4, <2>1 DEF ColsStep
    <2> QED BY <2>1, <2>2
<1>6. ASSUME NEW k \in Nat, k \in T PROVE k + 1 \in T
    <2> SUFFICES ASSUME k + 1 <= n PROVE g[1..(k + 1)] = UNION {rows[i].mem : i \in 1..(k + 1)}
        OBVIOUS
    <2>1. g[1..(k + 1)] = ColsStep(rows, g, 1..(k + 1))
        <3>1. 1..(k + 1) \in P
            BY <1>1
        <3> QED BY <1>4, <3>1
    <2>2. g[1..(k + 1)] = g[1..k] \cup rows[k + 1].mem
        BY <2>1, Below DEF ColsStep
    <2>3. g[1..k] = UNION {rows[i].mem : i \in 1..k}
        BY <1>1, <1>6
    <2> QED BY <2>2, <2>3
<1> HIDE DEF T
<1>7. n \in T
    BY <1>1, <1>5, <1>6, NatSetInduction
<1>8. g[1..n] = UNION {rows[i].mem : i \in 1..n}
    BY <1>1, <1>7 DEF T
<1>9. Columns(ToSet(rows)) = UNION {rows[i].mem : i \in 1..n}
    BY <1>1 DEF Columns, ToSet
<1>10. cols(rows) = g[1..n]
    <2> HIDE DEF n, Q
    <2> QED BY <1>2, <1>4
<1> QED BY <1>8, <1>9, <1>10

SuspectsStep(rows, g, s) ==
    IF s = {} THEN cols(rows)
    ELSE IF rows[Max(s)].y = 0 THEN g[s \ {Max(s)}] \ rows[Max(s)].mem ELSE g[s \ {Max(s)}]

LEMMA SuspectsIsSuspects ==
    ASSUME NEW V, NEW rows \in Seq(V)
    PROVE  suspects(rows) = Suspects(ToSet(rows))
<1> DEFINE n == Len(rows)
           P == SUBSET (1..n)
           Q(g) == g = [s \in P |-> SuspectsStep(rows, g, s)]
<1>1. n \in Nat /\ DOMAIN rows = 1..n
    OBVIOUS
<1>2. suspects(rows) = (CHOOSE g : Q(g))[1..n]
    BY <1>1 DEF suspects, FoldLeft, MapThenFoldSet, SuspectsStep
<1>3. \E g : Q(g)
    <2> DEFINE A == SUBSET cols(rows)
               step == [x \in (1..n) \X A |->
                           IF rows[x[1]].y = 0 THEN x[2] \ rows[x[1]].mem ELSE x[2]]
    <2>1. step \in [(1..n) \X A -> A]
        OBVIOUS
    <2>2. cols(rows) \in A
        OBVIOUS
    <2>3. \A i \in 1..n : \A a \in A :
             step[<<i, a>>] = IF rows[i].y = 0 THEN a \ rows[i].mem ELSE a
        OBVIOUS
    <2> HIDE DEF step, A, n
    <2>4. n \in Nat
        BY <1>1
    <2>5. PICK g : IsFold(A, n, cols(rows), step, g)
        BY <2>1, <2>2, <2>4, FoldExists
    <2>6. \A s \in P : s # {} => Max(s) \in 1..n /\ s \ {Max(s)} \in P
        BY <1>1, LastIndex
    <2>7. g \in [P -> A] /\ \A s \in P : g[s] = FoldStep(cols(rows), step, g, s)
        BY <2>5 DEF IsFold
    <2>8. \A s \in P : g[s] = SuspectsStep(rows, g, s)
        BY <2>3, <2>6, <2>7 DEF FoldStep, SuspectsStep
    <2> QED BY <2>7, <2>8
<1>4. PICK g : g = (CHOOSE h : Q(h)) /\ Q(g)
    BY <1>3
<1> DEFINE Gone(k) == UNION {rows[i].mem : i \in {j \in 1..k : rows[j].y = 0}}
           Upto(k) == k <= n => g[1..k] = cols(rows) \ Gone(k)
           T == {k \in Nat : Upto(k)}
<1>5. 0 \in T
    <2>1. 1..0 = {} /\ {} \in P
        OBVIOUS
    <2>2. g[{}] = cols(rows)
        BY <1>4, <2>1 DEF SuspectsStep
    <2> QED BY <2>1, <2>2
<1>6. ASSUME NEW k \in Nat, k \in T PROVE k + 1 \in T
    <2> SUFFICES ASSUME k + 1 <= n PROVE g[1..(k + 1)] = cols(rows) \ Gone(k + 1)
        OBVIOUS
    <2>1. g[1..(k + 1)] = SuspectsStep(rows, g, 1..(k + 1))
        <3>1. 1..(k + 1) \in P
            BY <1>1
        <3> QED BY <1>4, <3>1
    <2>2. g[1..(k + 1)] = IF rows[k + 1].y = 0 THEN g[1..k] \ rows[k + 1].mem ELSE g[1..k]
        BY <2>1, Below DEF SuspectsStep
    <2>3. g[1..k] = cols(rows) \ Gone(k)
        BY <1>1, <1>6
    <2>4. Gone(k + 1) = IF rows[k + 1].y = 0 THEN Gone(k) \cup rows[k + 1].mem ELSE Gone(k)
        OBVIOUS
    <2> QED BY <2>2, <2>3, <2>4
<1> HIDE DEF T
<1>7. n \in T
    BY <1>1, <1>5, <1>6, NatSetInduction
<1>8. g[1..n] = cols(rows) \ Gone(n)
    BY <1>1, <1>7 DEF T
<1>9. Cleared(ToSet(rows)) = Gone(n)
    BY <1>1 DEF Cleared, ToSet
<1>10. suspects(rows) = g[1..n]
    <2> HIDE DEF n, Q
    <2> QED BY <1>2, <1>4
<1> QED BY <1>8, <1>9, <1>10, ColsIsColumns DEF Suspects

Sole(rows, i) == rows[i].y = 1 /\ Cardinality(rows[i].mem \cap suspects(rows)) = 1
DefiniteStep(rows, g, s) ==
    IF s = {} THEN {}
    ELSE IF Sole(rows, Max(s))
         THEN g[s \ {Max(s)}] \cup (rows[Max(s)].mem \cap suspects(rows))
         ELSE g[s \ {Max(s)}]

LEMMA DefiniteIsDefinite ==
    ASSUME NEW V, NEW rows \in Seq(V), \A t \in V : IsFiniteSet(t.mem)
    PROVE  definite(rows) = Definite(ToSet(rows))
<1> DEFINE n == Len(rows)
           P == SUBSET (1..n)
           Q(g) == g = [s \in P |-> DefiniteStep(rows, g, s)]
           Named(i) == rows[i].mem \cap suspects(rows)
<1>1. n \in Nat /\ DOMAIN rows = 1..n
    OBVIOUS
<1>2. definite(rows) = (CHOOSE g : Q(g))[1..n]
    BY <1>1 DEF definite, FoldLeft, MapThenFoldSet, DefiniteStep, Sole
<1>3. \E g : Q(g)
    <2> DEFINE A == SUBSET suspects(rows)
               step == [x \in (1..n) \X A |->
                           IF Sole(rows, x[1]) THEN x[2] \cup Named(x[1]) ELSE x[2]]
    <2>1. step \in [(1..n) \X A -> A]
        OBVIOUS
    <2>2. {} \in A
        OBVIOUS
    <2>3. \A i \in 1..n : \A a \in A :
             step[<<i, a>>] = IF Sole(rows, i) THEN a \cup Named(i) ELSE a
        OBVIOUS
    <2> HIDE DEF step, A, n
    <2>4. n \in Nat
        BY <1>1
    <2>5. PICK g : IsFold(A, n, {}, step, g)
        BY <2>1, <2>2, <2>4, FoldExists
    <2>6. \A s \in P : s # {} => Max(s) \in 1..n /\ s \ {Max(s)} \in P
        BY <1>1, LastIndex
    <2>7. g \in [P -> A] /\ \A s \in P : g[s] = FoldStep({}, step, g, s)
        BY <2>5 DEF IsFold
    <2>8. \A s \in P : g[s] = DefiniteStep(rows, g, s)
        <3> TAKE s \in P
        <3>1. CASE s = {}
            BY <2>7, <3>1 DEF FoldStep, DefiniteStep
        <3>2. CASE s # {}
            <4>1. Max(s) \in 1..n /\ g[s \ {Max(s)}] \in A
                BY <2>6, <2>7, <3>2
            <4>2. g[s] = step[<<Max(s), g[s \ {Max(s)}]>>]
                BY <2>7, <3>2 DEF FoldStep
            <4> QED BY <2>3, <3>2, <4>1, <4>2 DEF DefiniteStep
        <3> QED BY <3>1, <3>2
    <2> QED BY <2>7, <2>8
<1>4. PICK g : g = (CHOOSE h : Q(h)) /\ Q(g)
    BY <1>3
<1> DEFINE Sofar(k) == UNION {Named(i) : i \in {j \in 1..k : Sole(rows, j)}}
           Upto(k) == k <= n => g[1..k] = Sofar(k)
           T == {k \in Nat : Upto(k)}
<1>5. 0 \in T
    <2>1. 1..0 = {} /\ {} \in P
        OBVIOUS
    <2>2. g[{}] = {}
        BY <1>4, <2>1 DEF DefiniteStep
    <2> QED BY <2>1, <2>2
<1>6. ASSUME NEW k \in Nat, k \in T PROVE k + 1 \in T
    <2> SUFFICES ASSUME k + 1 <= n PROVE g[1..(k + 1)] = Sofar(k + 1)
        OBVIOUS
    <2>1. g[1..(k + 1)] = DefiniteStep(rows, g, 1..(k + 1))
        <3>1. 1..(k + 1) \in P
            BY <1>1
        <3> QED BY <1>4, <3>1
    <2>2. g[1..(k + 1)] = IF Sole(rows, k + 1) THEN g[1..k] \cup Named(k + 1) ELSE g[1..k]
        BY <2>1, Below DEF DefiniteStep
    <2>3. g[1..k] = Sofar(k)
        BY <1>1, <1>6
    <2>4. Sofar(k + 1) = IF Sole(rows, k + 1) THEN Sofar(k) \cup Named(k + 1) ELSE Sofar(k)
        <3> HIDE DEF Named
        <3> QED OBVIOUS
    <2> QED BY <2>2, <2>3, <2>4
<1> HIDE DEF T
<1>7. n \in T
    BY <1>1, <1>5, <1>6, NatSetInduction
<1>8. g[1..n] = Sofar(n)
    BY <1>1, <1>7 DEF T
<1>9. suspects(rows) = Suspects(ToSet(rows))
    BY SuspectsIsSuspects
<1>10. \A i \in 1..n : Sole(rows, i) <=> rows[i].y = 1 /\ \E p : Named(i) = {p}
    <2> TAKE i \in 1..n
    <2>1. rows[i] \in V
        BY <1>1
    <2>2. IsFiniteSet(Named(i))
        BY <2>1, FS_Intersection
    <2> HIDE DEF Named
    <2>3. Cardinality(Named(i)) = 1 <=> \E p : Named(i) = {p}
        BY <2>2, FS_Singleton
    <2> QED BY <2>3 DEF Sole, Named
<1>11. Definite(ToSet(rows)) = Sofar(n)
    <2>1. \A p : p \in Sofar(n) <=> \E i \in 1..n : rows[i].y = 1 /\ Named(i) = {p}
        BY <1>10
    <2>2. \A p : p \in Definite(ToSet(rows)) <=>
                    \E i \in 1..n : rows[i].y = 1 /\ Named(i) = {p}
        BY <1>1, <1>9 DEF Definite, ToSet
    <2> QED BY <2>1, <2>2
<1>12. definite(rows) = g[1..n]
    <2> HIDE DEF n, Q
    <2> QED BY <1>2, <1>4
<1> QED BY <1>8, <1>11, <1>12

-----------------------------------------------------------------------------
(* Recursion over the numbers, with the step as a function *)

IsRec(base, step, f) ==
    /\ DOMAIN f = Nat /\ f = [i \in Nat |-> f[i]] /\ f[0] = base
    /\ \A i \in Nat : f[i + 1] = step[f[i]]

\* There is a function that satisfies the recursion: the numbers up to n have one.
LEMMA RecExists ==
    ASSUME NEW A, NEW base \in A, NEW step \in [A -> A]
    PROVE  \E f \in [Nat -> A] : IsRec(base, step, f)
<1> DEFINE Sat(f, n) == /\ f \in [0..n -> A] /\ f[0] = base
                        /\ \A i \in 0..n : i > 0 => f[i] = step[f[i - 1]]
           Ok(n) == \E f : Sat(f, n)
           T == {n \in Nat : Ok(n)}
<1>1. 0 \in T
    <2>1. Sat([i \in 0..0 |-> base], 0)
        OBVIOUS
    <2> HIDE DEF Sat
    <2> QED BY <2>1
<1>2. ASSUME NEW n \in Nat, n \in T PROVE n + 1 \in T
    <2>1. PICK f : Sat(f, n)
        BY <1>2
    <2> DEFINE g == [i \in 0..(n + 1) |-> IF i <= n THEN f[i] ELSE step[f[n]]]
    <2>2. g \in [0..(n + 1) -> A] /\ g[0] = base
        BY <2>1
    <2>3. \A i \in 0..(n + 1) : i > 0 => g[i] = step[g[i - 1]]
        <3> TAKE i \in 0..(n + 1)
        <3> HAVE i > 0
        <3>1. i - 1 \in 0..n /\ g[i - 1] = f[i - 1]
            OBVIOUS
        <3>2. CASE i = n + 1
            BY <3>1, <3>2
        <3>3. CASE i # n + 1
            BY <2>1, <3>1, <3>3
        <3> QED BY <3>2, <3>3
    <2> HIDE DEF g
    <2>4. Sat(g, n + 1)
        BY <2>2, <2>3
    <2> HIDE DEF Sat
    <2> QED BY <2>4
<1>3. \A n \in Nat : Ok(n)
    <2> HIDE DEF T
    <2>1. \A n \in Nat : n \in T
        BY <1>1, <1>2, NatSetInduction
    <2> QED BY <2>1 DEF T
<1>4. ASSUME NEW n \in Nat, NEW f, NEW g, Sat(f, n), Sat(g, n + 1) PROVE f[n] = g[n]
    <2> DEFINE U == {i \in Nat : i <= n => f[i] = g[i]}
    <2>1. 0 \in U
        BY <1>4
    <2>2. ASSUME NEW i \in Nat, i \in U PROVE i + 1 \in U
        <3> SUFFICES ASSUME i + 1 <= n PROVE f[i + 1] = g[i + 1]
            OBVIOUS
        <3>1. i + 1 \in 0..n /\ i + 1 \in 0..(n + 1) /\ (i + 1) - 1 = i
            OBVIOUS
        <3>2. f[i + 1] = step[f[i]] /\ g[i + 1] = step[g[i]]
            BY <1>4, <3>1
        <3> QED BY <2>2, <3>2
    <2> HIDE DEF U
    <2>3. n \in U
        BY <2>1, <2>2, NatSetInduction
    <2> QED BY <2>3 DEF U
<1> DEFINE F(n) == CHOOSE f : Sat(f, n)
           h == [i \in Nat |-> F(i)[i]]
<1>5. \A n \in Nat : Sat(F(n), n)
    <2> TAKE n \in Nat
    <2>1. \E f : Sat(f, n)
        BY <1>3
    <2> HIDE DEF Sat
    <2> QED BY <2>1
<1>6. \A i \in Nat : F(i)[i] \in A
    <2> HIDE DEF F
    <2> QED BY <1>5
<1>7. h \in [Nat -> A]
    BY <1>6
<1>8. h[0] = base
    <2> HIDE DEF F
    <2> QED BY <1>5
<1>9. \A i \in Nat : h[i + 1] = step[h[i]]
    <2> TAKE i \in Nat
    <2> HIDE DEF F, Sat
    <2>1. Sat(F(i), i) /\ Sat(F(i + 1), i + 1)
        BY <1>5
    <2>2. F(i)[i] = F(i + 1)[i]
        BY <1>4, <2>1
    <2>3. i + 1 \in 0..(i + 1) /\ i + 1 > 0 /\ (i + 1) - 1 = i
        OBVIOUS
    <2>4. F(i + 1)[i + 1] = step[F(i + 1)[i]]
        BY <2>1, <2>3 DEF Sat
    <2> QED BY <2>2, <2>4
<1> HIDE DEF h
<1> QED BY <1>7, <1>8, <1>9 DEF IsRec

-----------------------------------------------------------------------------
(* The grids *)

\* The lengths a loop comes to: the values a grid lists until they reach n.
Rising(f) == f \in [Nat -> Nat] /\ f[0] > 0 /\ \A i \in Nat : f[i] < f[i + 1]

LEMMA RisingOrder ==
    ASSUME NEW f, Rising(f), NEW i \in Nat
    PROVE  f[i] > i /\ \A j \in Nat : i <= j => f[i] <= f[j]
<1> DEFINE T == {n \in Nat : f[n] > n}
           U == {n \in Nat : \A m \in Nat : m <= n => f[m] <= f[n]}
<1>1. 0 \in T /\ 0 \in U
    BY DEF Rising
<1>2. ASSUME NEW n \in Nat, n \in T PROVE n + 1 \in T
    BY <1>2 DEF Rising
<1>3. ASSUME NEW n \in Nat, n \in U PROVE n + 1 \in U
    <2>1. f[n] < f[n + 1] /\ f[n] \in Nat /\ f[n + 1] \in Nat
        BY DEF Rising
    <2>2. ASSUME NEW m \in Nat, m <= n + 1 PROVE f[m] <= f[n + 1]
        <3>1. CASE m = n + 1
            BY <2>1, <3>1
        <3>2. CASE m # n + 1
            <4>1. m <= n /\ f[m] \in Nat
                BY <2>2, <3>2 DEF Rising
            <4> QED BY <1>3, <2>1, <4>1
        <3> QED BY <3>1, <3>2
    <2> QED BY <2>2
<1> HIDE DEF T, U
<1>4. \A n \in Nat : n \in T
    BY <1>1, <1>2, NatSetInduction
<1>5. \A n \in Nat : n \in U
    BY <1>1, <1>3, NatSetInduction
<1>6. i \in T
    BY <1>4
<1> QED BY <1>5, <1>6 DEF T, U

\* A grid of such values below n, and n, rises to n.
Turns(f, n, e)     == e = Min({i \in 0..n : f[i] >= n})
Listed(f, n, e, g) == g = [k \in 1..(e + 1) |-> IF k <= e THEN f[k - 1] ELSE n]
GridOf(g, n) ==
    /\ g \in Seq(Nat) /\ Len(g) > 0 /\ g[Len(g)] = n
    /\ \A k \in 1..Len(g) : g[k] \in 0..n /\ (n > 0 => g[k] > 0)
    /\ \A k, j \in 1..Len(g) : k <= j => g[k] <= g[j]

LEMMA GridRises ==
    ASSUME NEW f, Rising(f), NEW n \in Nat, NEW e, Turns(f, n, e), NEW g, Listed(f, n, e, g)
    PROVE  GridOf(g, n)
<1> DEFINE S == {i \in 0..n : f[i] >= n}
<1>0. \A i \in Nat : f[i] \in Nat /\ f[i] > i /\ \A j \in Nat : i <= j => f[i] <= f[j]
    <2>1. \A i \in Nat : f[i] \in Nat
        BY DEF Rising
    <2>2. \A i \in Nat : f[i] > i /\ \A j \in Nat : i <= j => f[i] <= f[j]
        BY RisingOrder
    <2> QED BY <2>1, <2>2
<1>1. n \in S /\ S \subseteq Nat
    BY <1>0
<1>2. e \in S /\ \A x \in S : e <= x
    <2> HIDE DEF S
    <2>1. Min(S) \in S /\ \A x \in S : Min(S) <= x
        BY <1>1, MinIs
    <2>2. e = Min(S)
        BY DEF S, Turns
    <2> QED BY <2>1, <2>2
<1>l. g = [k \in 1..(e + 1) |-> IF k <= e THEN f[k - 1] ELSE n]
    BY DEF Listed
<1>3. e \in Nat /\ e <= n
    BY <1>2
<1>4. \A k \in 1..e : f[k - 1] \in Nat /\ f[k - 1] < n /\ f[k - 1] > 0
    <2> TAKE k \in 1..e
    <2>1. k - 1 \in 0..n /\ k - 1 \notin S
        BY <1>2, <1>3
    <2>2. f[k - 1] > k - 1 /\ f[k - 1] \in Nat
        BY <1>0, <1>3
    <2> QED BY <2>1, <2>2
<1>5. \A k, j \in 1..e : k <= j => f[k - 1] <= f[j - 1]
    BY <1>0, <1>3
<1>6. DOMAIN g = 1..(e + 1) /\ \A k \in 1..(e + 1) : g[k] \in Nat
    BY <1>3, <1>4, <1>l
<1>7. g \in Seq(Nat) /\ Len(g) = e + 1
    <2>1. g \in [1..(e + 1) -> Nat]
        BY <1>6, <1>l
    <2>2. e + 1 \in Nat
        BY <1>3
    <2> QED BY <2>1, <2>2, SeqDef, LenProperties
<1>8. g[e + 1] = n
    BY <1>3, <1>l
<1>9. \A k \in 1..(e + 1) : g[k] <= n /\ (n > 0 => g[k] > 0)
    BY <1>3, <1>4, <1>l
<1>10. \A k, j \in 1..(e + 1) : k <= j => g[k] <= g[j]
    <2> TAKE k, j \in 1..(e + 1)
    <2> HAVE k <= j
    <2>1. CASE j = e + 1
        BY <1>8, <1>9, <2>1
    <2>2. CASE j # e + 1
        <3>1. k \in 1..e /\ j \in 1..e
            BY <1>3, <2>2
        <3> QED BY <1>3, <1>5, <1>l, <3>1
    <2> QED BY <2>1, <2>2
<1>11. Len(g) > 0 /\ \A k \in 1..Len(g) : g[k] \in 0..n
    BY <1>3, <1>6, <1>7, <1>9
<1> QED BY <1>7, <1>8, <1>9, <1>10, <1>11 DEF GridOf

LEMMA DoubledRises == Rising(doubled)
<1> DEFINE step == [x \in Nat |-> 2 * x]
           Q(d) == d = [i \in Nat |-> IF i = 0 THEN GridStart ELSE 2 * d[i - 1]]
<1>0. GridStart \in Nat /\ GridStart > 0
    BY PrefixAssumption
<1>1. step \in [Nat -> Nat]
    OBVIOUS
<1>2. PICK f \in [Nat -> Nat] : IsRec(GridStart, step, f)
    <2> HIDE DEF step
    <2> QED BY <1>0, <1>1, RecExists
<1>3. Q(f)
    <2>1. \A i \in Nat : f[i + 1] = 2 * f[i]
        BY <1>2 DEF IsRec
    <2>2. \A i \in Nat : i # 0 => i - 1 \in Nat /\ (i - 1) + 1 = i
        OBVIOUS
    <2>3. \A i \in Nat : f[i] = IF i = 0 THEN GridStart ELSE 2 * f[i - 1]
        BY <1>2, <2>1, <2>2 DEF IsRec
    <2> QED BY <2>3
<1>4. Q(doubled)
    <2> HIDE DEF Q
    <2> QED BY <1>3 DEF doubled, Q
<1>5. doubled[0] = GridStart /\ \A i \in Nat : doubled[i + 1] = 2 * doubled[i]
    BY <1>4
<1> DEFINE T == {i \in Nat : doubled[i] \in Nat /\ doubled[i] > 0}
<1>6. 0 \in T
    BY <1>0, <1>5
<1>7. ASSUME NEW i \in Nat, i \in T PROVE i + 1 \in T
    BY <1>5, <1>7
<1>8. \A i \in Nat : i \in T
    <2> HIDE DEF T
    <2> QED BY <1>6, <1>7, NatSetInduction
<1>9. doubled \in [Nat -> Nat]
    BY <1>4, <1>8
<1> QED BY <1>5, <1>8, <1>9 DEF Rising

-----------------------------------------------------------------------------
(* F1 on subsets of the truth *)

\* Of a part of the truth every port is a true positive.
LEMMA Confusion ==
    ASSUME NEW S, IsFiniteSet(S), NEW P, P \subseteq S
    PROVE  /\ Cardinality(P) \in Nat /\ Cardinality(S) \in Nat
           /\ Cardinality(P) <= Cardinality(S)
           /\ TruePos(P, S) = Cardinality(P) /\ FalsePos(P, S) = 0
           /\ FalseNeg(P, S) = Cardinality(S) - Cardinality(P)
<1>1. P \cap S = P /\ P \ S = {} /\ S \cap P = P
    OBVIOUS
<1>2. IsFiniteSet(P) /\ Cardinality(P) <= Cardinality(S)
    BY FS_Subset
<1>3. Cardinality(S \ P) = Cardinality(S) - Cardinality(S \cap P)
    BY FS_Difference
<1>4. Cardinality(P) \in Nat /\ Cardinality(S) \in Nat
    BY <1>2, FS_CardinalityType
<1> QED BY <1>1, <1>2, <1>3, <1>4, FS_EmptySet DEF TruePos, FalsePos, FalseNeg

\* Naming more of the truth keeps a good F1 good.
Reached(P, S) ==
    LET tp2 == 2 * TruePos(P, S)
    IN  tp2 > 0 /\ 100 * tp2 >= 95 * (tp2 + FalsePos(P, S) + FalseNeg(P, S))

LEMMA ReachedGrows ==
    ASSUME NEW S, IsFiniteSet(S), NEW P, NEW Q, P \subseteq Q, Q \subseteq S, Reached(P, S)
    PROVE  Reached(Q, S)
<1> DEFINE s == Cardinality(S)  p == Cardinality(P)  q == Cardinality(Q)
<1>1. /\ s \in Nat /\ p \in Nat /\ TruePos(P, S) = p
      /\ FalsePos(P, S) = 0 /\ FalseNeg(P, S) = s - p
    BY Confusion
<1>2. /\ q \in Nat /\ TruePos(Q, S) = q /\ FalsePos(Q, S) = 0 /\ FalseNeg(Q, S) = s - q
    BY Confusion
<1>3. IsFiniteSet(Q)
    BY FS_Subset
<1>4. p <= q
    BY <1>3, FS_Subset
<1>5. 2 * p > 0 /\ 100 * (2 * p) >= 95 * (2 * p + 0 + (s - p))
    BY <1>1 DEF Reached
<1> HIDE DEF s, p, q
<1>6. 2 * q > 0 /\ 100 * (2 * q) >= 95 * (2 * q + 0 + (s - q))
    BY <1>1, <1>2, <1>4, <1>5
<1> QED BY <1>2, <1>6 DEF Reached

\* All of it is good.
LEMMA AllReached ==
    ASSUME NEW S, IsFiniteSet(S), S # {}
    PROVE  Reached(S, S)
<1>1. Cardinality(S) # 0 /\ Cardinality(S) \in Nat
    BY FS_EmptySet, FS_CardinalityType
<1>2. TruePos(S, S) = Cardinality(S) /\ FalsePos(S, S) = 0 /\ FalseNeg(S, S) = 0
    <2>1. /\ TruePos(S, S) = Cardinality(S) /\ FalsePos(S, S) = 0
          /\ FalseNeg(S, S) = Cardinality(S) - Cardinality(S)
        BY Confusion
    <2> QED BY <1>1, <2>1
<1> QED BY <1>1, <1>2 DEF Reached

-----------------------------------------------------------------------------
(* The prefix study *)

Consistents == {t \in [mem : SUBSET Port, y : {0, 1}] : t.y = Pooled(t.mem, truth)}
First(m)    == {tests[i] : i \in 1..m}

PTypes ==
    /\ truth \in SUBSET Port
    /\ tests \in Seq(Consistents)
    /\ grid \in Seq(Nat) /\ preds \in Seq(SUBSET Port)

\* Before the sweep nothing is decoded; then the grid is that of the tests, and
\* what has been decoded are its first prefixes.
Swept ==
    /\ stage \in {"capture", "sweep", "done"}
    /\ stage = "capture" => preds = <<>>
    /\ stage # "capture" => grid = m_grid(Len(tests)) /\ Len(preds) <= Len(grid)
    /\ stage = "done" => Len(preds) = Len(grid)
    /\ \A k \in 1..Len(preds) : preds[k] = decode_prefix(grid[k])

\* first_m is where a fault was first named.
FirstNamed ==
    \A t \in truth :
        \/ first_m[t] = 0 /\ \A k \in 1..Len(preds) : t \notin preds[k]
        \/ \E k \in 1..Len(preds) : /\ first_m[t] = grid[k] /\ t \in preds[k]
                                    /\ \A j \in 1..(k - 1) : t \notin preds[j]

PInv == PTypes /\ Swept /\ FirstNamed

LEMMA PortsFinite ==
    ASSUME NEW S \in SUBSET Port
    PROVE  IsFiniteSet(S)
BY PrefixAssumption, FS_Subset

LEMMA DecodeIs ==
    ASSUME PTypes, NEW m \in 0..Len(tests)
    PROVE  decode_prefix(m) = Definite(First(m)) /\ Consistent(First(m), truth)
<1> DEFINE rows == SubSeq(tests, 1, m)
<1>1. rows \in Seq(Consistents) /\ Len(rows) = m /\ \A i \in 1..m : rows[i] = tests[i]
    BY SubSeqProperties DEF PTypes
<1>2. \A t \in Consistents : IsFiniteSet(t.mem) /\ t.y = Pooled(t.mem, truth)
    BY PortsFinite DEF Consistents
<1>3. DOMAIN rows = 1..m
    BY <1>1
<1>4. ToSet(rows) = First(m)
    <2> HIDE DEF rows
    <2> QED BY <1>1, <1>3 DEF ToSet, First
<1>5. \A t \in First(m) : t \in Consistents
    BY DEF First, PTypes
<1> HIDE DEF rows
<1>6. definite(rows) = Definite(ToSet(rows))
    BY <1>1, <1>2, DefiniteIsDefinite
<1> QED BY <1>2, <1>4, <1>5, <1>6 DEF decode_prefix, rows, Consistent

\* Longer prefixes name more, and never a healthy port.
LEMMA DecodeGrows ==
    ASSUME PTypes, NEW m \in 0..Len(tests), NEW n \in 0..Len(tests), m <= n
    PROVE  decode_prefix(m) \subseteq decode_prefix(n) /\ decode_prefix(n) \subseteq truth
<1>1. First(m) \subseteq First(n)
    BY DEF First
<1>2. decode_prefix(m) = Definite(First(m))
    BY DecodeIs
<1>3. decode_prefix(n) = Definite(First(n)) /\ Consistent(First(n), truth)
    BY DecodeIs
<1> QED BY <1>1, <1>2, <1>3, DefiniteMonotone, DefiniteSound

\* Of no tests nothing is named.
LEMMA NoneNamed ==
    ASSUME PTypes
    PROVE  decode_prefix(0) = {}
<1>1. First(0) = {}
    BY DEF First
<1>2. 0 \in 0..Len(tests)
    BY DEF PTypes
<1>3. decode_prefix(0) = Definite(First(0))
    BY <1>2, DecodeIs
<1> QED BY <1>1, <1>3 DEF Definite, Suspects, Columns

LEMMA GridIs ==
    ASSUME NEW n \in Nat
    PROVE  GridOf(m_grid(n), n)
<1>1. Turns(doubled, n, turns(n))
    BY DEF Turns, turns
<1>2. Listed(doubled, n, turns(n), m_grid(n))
    BY DEF Listed, m_grid
<1> QED BY <1>1, <1>2, DoubledRises, GridRises

LEMMA InitPInv == Init => PInv
<1> SUFFICES ASSUME Init PROVE PInv
    OBVIOUS
<1>1. tests = <<>> /\ grid = <<>> /\ preds = <<>>
    BY DEF Init
<1>2. PTypes
    BY <1>1 DEF Init, PTypes
<1>3. Swept
    BY <1>1 DEF Init, Swept
<1>4. FirstNamed
    BY <1>1 DEF Init, FirstNamed
<1> QED BY <1>2, <1>3, <1>4 DEF PInv

LEMMA AddTestInv ==
    ASSUME PInv, NEW mem \in SUBSET Port, AddTest(mem)
    PROVE  PInv'
<1> DEFINE t == [mem |-> mem, y |-> Pooled(mem, truth)]
<1>1. t \in Consistents
    BY DEF Consistents, Pooled
<1>2. tests' = Append(tests, t) /\ UNCHANGED <<truth, grid, preds, first_m, stage>>
    BY DEF AddTest
<1>3. PTypes'
    <2>1. Consistents' = Consistents
        BY <1>2 DEF Consistents
    <2>2. tests' \in Seq(Consistents)
        BY <1>1, <1>2 DEF PInv, PTypes
    <2> QED BY <1>2, <2>1, <2>2 DEF PInv, PTypes
<1>4. stage = "capture" /\ preds = <<>>
    BY DEF AddTest, PInv, Swept
<1>5. Swept'
    BY <1>2, <1>4 DEF PInv, Swept
<1>6. FirstNamed'
    BY <1>2, <1>4 DEF PInv, FirstNamed
<1> QED BY <1>3, <1>5, <1>6 DEF PInv

LEMMA StartSweepInv ==
    ASSUME PInv, StartSweep
    PROVE  PInv'
<1>1. /\ stage = "capture" /\ stage' = "sweep" /\ grid' = m_grid(Len(tests))
      /\ UNCHANGED <<truth, tests, preds, first_m>>
    BY DEF StartSweep
<1>2. preds = <<>> /\ Len(tests) \in Nat
    BY <1>1 DEF PInv, Swept, PTypes
<1>3. grid' \in Seq(Nat) /\ Len(grid') \in Nat
    BY <1>1, <1>2, GridIs DEF GridOf
<1>4. PTypes'
    BY <1>1, <1>3 DEF PInv, PTypes, Consistents
<1>5. Swept'
    BY <1>1, <1>2, <1>3 DEF Swept
<1>6. FirstNamed'
    BY <1>1, <1>2 DEF PInv, FirstNamed
<1> QED BY <1>4, <1>5, <1>6 DEF PInv

LEMMA DecodeNextInv ==
    ASSUME PInv, DecodeNext
    PROVE  PInv'
<1> DEFINE n == Len(preds)
           m == grid[n + 1]
           pred == decode_prefix(m)
<1>1. /\ stage = "sweep" /\ n < Len(grid) /\ preds' = Append(preds, pred)
      /\ first_m' = [t \in truth |-> IF t \in pred /\ first_m[t] = 0 THEN m ELSE first_m[t]]
      /\ UNCHANGED <<truth, tests, grid, stage>>
    BY DEF DecodeNext
<1>2. n \in Nat /\ Len(grid) \in Nat /\ Len(tests) \in Nat /\ n + 1 \in 1..Len(grid)
    BY <1>1 DEF PInv, PTypes
<1>3. GridOf(grid, Len(tests))
    BY <1>1, <1>2, GridIs DEF PInv, Swept
<1>4. m \in 0..Len(tests)
    BY <1>2, <1>3 DEF GridOf
<1>5. pred \subseteq truth
    BY <1>2, <1>4, DecodeGrows DEF PInv
<1>6. m = 0 => pred = {}
    BY NoneNamed DEF PInv
<1> HIDE DEF m, pred
<1>7. pred \in SUBSET Port
    BY <1>5 DEF PInv, PTypes
<1>8. /\ preds' \in Seq(SUBSET Port) /\ Len(preds') = n + 1 /\ preds'[n + 1] = pred
      /\ \A k \in 1..n : preds'[k] = preds[k]
    BY <1>1, <1>2, <1>7, AppendProperties DEF PInv, PTypes
<1>9. PTypes'
    BY <1>1, <1>8 DEF PInv, PTypes, Consistents
<1>10. Swept'
    <2>1. \A k \in 1..Len(preds') : preds'[k] = decode_prefix(grid[k])
        <3> TAKE k \in 1..Len(preds')
        <3>1. CASE k = n + 1
            BY <1>8, <3>1 DEF pred, m
        <3>2. CASE k # n + 1
            <4>1. k \in 1..n
                BY <1>2, <1>8, <3>2
            <4> QED BY <1>8, <4>1 DEF PInv, Swept
        <3> QED BY <3>1, <3>2
    <2>2. \A k : decode_prefix(grid[k])' = decode_prefix(grid[k])
        BY <1>1 DEF decode_prefix
    <2>3. Len(preds') <= Len(grid') /\ grid' = m_grid(Len(tests'))
        BY <1>1, <1>2, <1>8 DEF PInv, Swept
    <2> QED BY <1>1, <2>1, <2>2, <2>3 DEF Swept
<1>11. FirstNamed'
    <2> SUFFICES ASSUME NEW t \in truth
                 PROVE  \/ first_m'[t] = 0 /\ \A k \in 1..(n + 1) : t \notin preds'[k]
                        \/ \E k \in 1..(n + 1) : /\ first_m'[t] = grid[k] /\ t \in preds'[k]
                                                /\ \A j \in 1..(k - 1) : t \notin preds'[j]
        BY <1>1, <1>8 DEF FirstNamed
    <2>1. CASE first_m[t] = 0 /\ \A k \in 1..n : t \notin preds[k]
        <3>1. CASE t \in pred
            <4>1. first_m'[t] = m
                BY <1>1, <2>1, <3>1
            <4>2. \A j \in 1..((n + 1) - 1) : t \notin preds'[j]
                BY <1>2, <1>8, <2>1
            <4> QED BY <1>2, <1>8, <3>1, <4>1, <4>2 DEF m
        <3>2. CASE t \notin pred
            <4>1. first_m'[t] = 0
                BY <1>1, <2>1, <3>2
            <4>2. \A k \in 1..(n + 1) : t \notin preds'[k]
                <5> TAKE k \in 1..(n + 1)
                <5>1. k = n + 1 \/ k \in 1..n
                    BY <1>2
                <5> QED BY <1>8, <2>1, <3>2, <5>1
            <4> QED BY <4>1, <4>2
        <3> QED BY <3>1, <3>2
    <2>2. ASSUME NEW k \in 1..n, first_m[t] = grid[k], t \in preds[k],
                 \A j \in 1..(k - 1) : t \notin preds[j]
          PROVE  \E i \in 1..(n + 1) : /\ first_m'[t] = grid[i] /\ t \in preds'[i]
                                       /\ \A j \in 1..(i - 1) : t \notin preds'[j]
        <3>1. preds[k] = decode_prefix(grid[k])
            BY <2>2 DEF PInv, Swept
        <3>2. grid[k] # 0
            BY <2>2, <3>1, NoneNamed DEF PInv
        <3>3. first_m'[t] = grid[k]
            BY <1>1, <2>2, <3>2
        <3>4. t \in preds'[k] /\ \A j \in 1..(k - 1) : t \notin preds'[j]
            BY <1>2, <1>8, <2>2
        <3>5. k \in 1..(n + 1)
            BY <1>2
        <3> QED BY <3>3, <3>4, <3>5
    <2> QED BY <2>1, <2>2 DEF PInv, FirstNamed
<1> QED BY <1>9, <1>10, <1>11 DEF PInv

LEMMA NextPInv == PInv /\ [Next]_vars => PInv'
<1> SUFFICES ASSUME PInv, [Next]_vars PROVE PInv'
    OBVIOUS
<1>1. CASE UNCHANGED vars
    BY <1>1 DEF vars, PInv, PTypes, Consistents, Swept, FirstNamed, decode_prefix
<1>2. CASE Report
    <2>1. /\ UNCHANGED <<truth, tests, grid, preds, first_m>>
          /\ stage' = "done" /\ stage = "sweep" /\ Len(preds) = Len(grid)
        BY <1>2 DEF Report
    <2>2. PTypes'
        BY <2>1 DEF PInv, PTypes, Consistents
    <2>3. Swept'
        BY <2>1 DEF PInv, Swept, decode_prefix
    <2>4. FirstNamed'
        BY <2>1 DEF PInv, FirstNamed
    <2> QED BY <2>2, <2>3, <2>4 DEF PInv
<1> QED BY <1>1, <1>2, AddTestInv, StartSweepInv, DecodeNextInv DEF Next

LEMMA AlwaysPInv == Spec => []PInv
<1>1. Init => PInv
    BY InitPInv
<1>2. PInv /\ [Next]_vars => PInv'
    BY NextPInv
<1> QED BY <1>1, <1>2, PTL DEF Spec

(* What the loops of comp_dd compute is COMP and DD of the set of tests, in *)
(* whatever order and however often they arrived, and of two ports with one *)
(* column none is ever named (poolint_collector.py:96-109).                 *)
THEOREM DecodeAlwaysOrderFree == Spec => []DecodeIsOrderFree
<1>1. PInv => DecodeIsOrderFree
    <2> SUFFICES ASSUME PInv PROVE DecodeIsOrderFree
        OBVIOUS
    <2>1. tests \in Seq(Consistents)
        BY DEF PInv, PTypes
    <2>2. cols(tests) = Columns(ToSet(tests)) /\ suspects(tests) = Suspects(ToSet(tests))
        BY <2>1, ColsIsColumns, SuspectsIsSuspects
    <2>3. definite(tests) = Definite(ToSet(tests))
        <3>1. \A t \in Consistents : IsFiniteSet(t.mem)
            BY PortsFinite DEF Consistents
        <3> QED BY <2>1, <3>1, DefiniteIsDefinite
    <2>4. ASSUME NEW x \in Twins PROVE x[1] \notin definite(tests)
        <3>1. x[1] # x[2] /\ Column(x[1]) = Column(x[2])
            BY DEF Twins
        <3>2. \A t \in ToSet(tests) : x[1] \in t.mem <=> x[2] \in t.mem
            BY <3>1 DEF Column, ToSet
        <3> QED BY <2>3, <3>1, <3>2, TwinsNotDefinite
    <2> QED BY <2>2, <2>3, <2>4 DEF DecodeIsOrderFree
<1> QED BY <1>1, AlwaysPInv, PTL

\* What is decoded later in the sweep names at least as much.
LEMMA LaterNames ==
    ASSUME PInv, NEW i \in 1..Len(preds), NEW j \in 1..Len(preds), i <= j
    PROVE  preds[i] \subseteq preds[j] /\ preds[j] \subseteq truth
<1>1. stage # "capture"
    BY DEF PInv, Swept
<1>2. Len(tests) \in Nat /\ Len(preds) \in Nat /\ Len(grid) \in Nat
    BY DEF PInv, PTypes
<1>3. GridOf(grid, Len(tests)) /\ Len(preds) <= Len(grid)
    BY <1>1, <1>2, GridIs DEF PInv, Swept
<1>4. i \in 1..Len(grid) /\ j \in 1..Len(grid)
    BY <1>2, <1>3
<1>5. grid[i] \in 0..Len(tests) /\ grid[j] \in 0..Len(tests) /\ grid[i] <= grid[j]
    BY <1>3, <1>4 DEF GridOf
<1>6. decode_prefix(grid[i]) \subseteq decode_prefix(grid[j]) /\ decode_prefix(grid[j]) \subseteq truth
    BY <1>5, DecodeGrows DEF PInv
<1> QED BY <1>6 DEF PInv, Swept

LEMMA GoodGrows ==
    ASSUME PInv, NEW P, NEW Q, P \subseteq Q, Q \subseteq truth, Good(P)
    PROVE  Good(Q)
<1>1. IsFiniteSet(truth)
    BY PortsFinite DEF PInv, PTypes
<1>2. CASE truth = {}
    BY <1>2 DEF Good
<1>3. CASE truth # {}
    <2>1. Reached(P, truth)
        BY <1>3 DEF Good, Reached
    <2>2. Reached(Q, truth)
        BY <1>1, <2>1, ReachedGrows
    <2> QED BY <2>2 DEF Good, Reached
<1> QED BY <1>2, <1>3

(* In every capture the first prefix that names a fault is the one from     *)
(* which it stays named, no prefix names a healthy port, and the smallest   *)
(* prefix with a good F1 is the one from which it stays good                *)
(* (m3a_prefix.py:133-154).                                                 *)
THEOREM RecoveryAlwaysStable == Spec => []RecoveryIsStable
<1> SUFFICES ASSUME PInv PROVE RecoveryIsStable
    BY AlwaysPInv, PTL
<1>1. DOMAIN preds = 1..Len(preds) /\ DOMAIN grid = 1..Len(grid)
      /\ Len(preds) \in Nat /\ Len(grid) \in Nat
    BY DEF PInv, PTypes
<1>2. \A k \in DOMAIN preds : preds[k] \subseteq truth
    BY <1>1, LaterNames
<1>3. ASSUME stage = "done"
      PROVE  /\ grid[Len(grid)] = Len(tests)
             /\ \A t \in truth : stable_m(t) = first_m[t]
             /\ \A i \in DOMAIN grid : Good(preds[i]) => \E j \in 1..i : grid[j] = min_m
    <2>1. Len(preds) = Len(grid) /\ grid = m_grid(Len(tests)) /\ Len(tests) \in Nat
        BY <1>3 DEF PInv, PTypes, Swept
    <2>2. grid[Len(grid)] = Len(tests)
        BY <2>1, GridIs DEF GridOf
    <2>3. ASSUME NEW t \in truth PROVE stable_m(t) = first_m[t]
        <3> DEFINE from == {i \in DOMAIN grid : \A j \in i..Len(grid) : t \in preds[j]}
        <3>1. \A i \in from : i \in 1..Len(grid) /\ t \in preds[i]
            BY <1>1
        <3>2. CASE first_m[t] = 0 /\ \A k \in 1..Len(preds) : t \notin preds[k]
            <4>1. from = {}
                BY <2>1, <3>1, <3>2
            <4> QED BY <3>2, <4>1 DEF stable_m
        <3>3. ASSUME NEW k \in 1..Len(preds), first_m[t] = grid[k], t \in preds[k],
                     \A j \in 1..(k - 1) : t \notin preds[j]
              PROVE  stable_m(t) = first_m[t]
            <4>1. \A j \in k..Len(grid) : t \in preds[j]
                <5> TAKE j \in k..Len(grid)
                <5>1. j \in 1..Len(preds) /\ k <= j
                    BY <1>1, <2>1
                <5> QED BY <3>3, <5>1, LaterNames
            <4>2. k \in from
                BY <1>1, <2>1, <4>1
            <4>3. \A j \in from : k <= j
                BY <1>1, <2>1, <3>1, <3>3
            <4> HIDE DEF from
            <4>4. from \subseteq Nat
                BY <3>1
            <4>s. \A i \in from : (\A j \in from : i <= j) => i = k
                BY <4>2, <4>3, <4>4
            <4>5. (CHOOSE i \in from : \A j \in from : i <= j) = k
                BY <4>2, <4>3, <4>s
            <4>6. stable_m(t) = IF from = {} THEN 0
                                ELSE grid[CHOOSE i \in from : \A j \in from : i <= j]
                BY DEF stable_m, from
            <4> QED BY <3>3, <4>2, <4>5, <4>6
        <3> QED BY <3>2, <3>3 DEF PInv, FirstNamed
    <2>4. ASSUME NEW i \in DOMAIN grid, Good(preds[i]) PROVE \E j \in 1..i : grid[j] = min_m
        <3> DEFINE from == {k \in DOMAIN grid : \A j \in k..Len(grid) : Good(preds[j])}
        <3>1. \A j \in i..Len(grid) : Good(preds[j])
            <4> TAKE j \in i..Len(grid)
            <4>1. i \in 1..Len(preds) /\ j \in 1..Len(preds) /\ i <= j
                BY <1>1, <2>1
            <4>2. preds[i] \subseteq preds[j] /\ preds[j] \subseteq truth
                BY <4>1, LaterNames
            <4> QED BY <2>4, <4>2, GoodGrows
        <3>2. i \in from /\ from \subseteq Nat /\ from \subseteq DOMAIN grid
            BY <1>1, <3>1
        <3>3. min_m = IF from = {} THEN -1
                      ELSE grid[CHOOSE k \in from : \A j \in from : k <= j]
            BY DEF min_m
        <3> HIDE DEF from
        <3>4. PICK k \in from : \A j \in from : k <= j
            <4>1. \E k \in Nat : k \in from /\ \A m \in Nat : m < k => m \notin from
                BY <3>2, LeastNat
            <4> QED BY <3>2, <4>1
        <3>5. (CHOOSE l \in from : \A j \in from : l <= j) = k
            BY <3>2, <3>4
        <3>6. k <= i /\ k \in 1..Len(grid)
            BY <1>1, <3>2, <3>4
        <3>7. min_m = grid[k]
            BY <3>2, <3>3, <3>5
        <3>8. k \in 1..i
            BY <1>1, <3>6
        <3> QED BY <3>7, <3>8
    <2> QED BY <2>2, <2>3, <2>4
<1> QED BY <1>2, <1>3 DEF RecoveryIsStable

-----------------------------------------------------------------------------
(* The static studies: what their instance takes from the library          *)

LEMMA SameCardinality ==
    ASSUME NEW S PROVE Static!Cardinality(S) = Cardinality(S)
BY DEF Static!Cardinality, Cardinality

LEMMA SameFinite ==
    ASSUME NEW S PROVE Static!IsFiniteSet(S) <=> IsFiniteSet(S)
BY DEF Static!IsFiniteSet, IsFiniteSet

LEMMA SameMin ==
    ASSUME NEW S PROVE Static!Min(S) = Min(S) /\ Static!Max(S) = Max(S)
BY DEF Static!Min, Min, Static!Max, Max

LEMMA SameDefinite ==
    ASSUME NEW T PROVE Static!Definite(T) = Definite(T)
BY DEF Static!Definite, Definite, Static!Suspects, Suspects, Static!Columns, Columns,
       Static!Cleared, Cleared

LEMMA SameGood ==
    ASSUME NEW P, NEW S PROVE Static!good(P, S) <=> Reached(P, S)
BY SameCardinality DEF Static!good, Reached, Static!TruePos, TruePos, Static!FalsePos, FalsePos,
                       Static!FalseNeg, FalseNeg

LEMMA Constants ==
    /\ \A path \in Path : IsFiniteSet(path)
    /\ M_POOL \in Nat /\ R \in 1..M_POOL /\ BASE \in Nat /\ PERHOP \in Nat
    /\ POOL_BYTES \in Nat /\ POOL_BYTES > 0 /\ Stride \in Nat /\ Stride > 0
    /\ StaticStart \in Nat /\ StaticStart > 0 /\ Growth \in Nat /\ Growth >= 10
    /\ Budget \subseteq Nat
BY StudyAssumption, SameFinite DEF Static!StaticAssumption

-----------------------------------------------------------------------------
(* The board *)

Packet == {p \in [path : Path, mem : [Static!Seed -> SUBSET UNION Path]] :
              \A s \in Static!Seed : p.mem[s] \subseteq p.path}
SInv   == pkts \in Seq(Packet)
npk    == Static!npk

LEMMA AlwaysSInv == StudySpec => []SInv
<1>1. StudyInit => SInv
    <2>1. StudyInit => pkts = <<>>
        BY Zenon DEF StudyInit, Static!Init
    <2>2. <<>> \in Seq(Packet)
        OBVIOUS
    <2> QED BY <2>1, <2>2, Zenon DEF SInv
<1>2. SInv /\ [StudyNext]_<<vars, study, pkts>> => SInv'
    <2> SUFFICES ASSUME SInv, [StudyNext]_<<vars, study, pkts>> PROVE SInv'
        OBVIOUS
    <2>1. CASE UNCHANGED pkts
        BY <2>1 DEF SInv
    <2>2. ASSUME NEW path \in Path, NEW gate \in Gate, Static!Load(path, gate) PROVE SInv'
        <3> DEFINE p == [path |-> path, mem |-> [s \in Static!Seed |-> gate[s] \cap path]]
        <3>1. p \in Packet
            BY DEF Packet
        <3>2. pkts' = Append(pkts, p)
            BY <2>2 DEF Static!Load
        <3> QED BY <3>1, <3>2 DEF SInv
    <2> QED BY <2>1, <2>2 DEF StudyNext, Static!Next
<1> QED BY <1>1, <1>2, PTL DEF StudySpec

LEMMA Board ==
    ASSUME SInv
    PROVE  /\ npk \in Nat /\ npk = Len(pkts)
           /\ \A i \in 1..npk : /\ IsFiniteSet(pkts[i].path)
                              /\ \A s \in Static!Seed : pkts[i].mem[s] \subseteq pkts[i].path
<1>1. npk = Len(pkts) /\ npk \in Nat
    BY DEF SInv, npk, Static!npk
<1>2. \A i \in 1..npk : pkts[i] \in Packet
    BY <1>1 DEF SInv
<1> QED BY <1>1, <1>2, Constants DEF Packet

LEMMA PlacementFinite ==
    ASSUME SInv, NEW S \in Static!Placements
    PROVE  IsFiniteSet(S) /\ S # {} /\ S \subseteq Static!observable
<1> DEFINE f == [i \in 1..npk |-> pkts[i].path]
<1>1. npk \in Nat /\ \A i \in 1..npk : IsFiniteSet(f[i])
    BY Board
<1>2. Static!observable = UNION {f[i] : i \in 1..npk}
    BY DEF Static!observable, npk
<1> HIDE DEF f
<1>3. IsFiniteSet(Static!observable)
    BY <1>1, <1>2, UnionFinite
<1>4. S # {} /\ S \subseteq Static!observable
    BY DEF Static!Placements
<1> QED BY <1>3, <1>4, FS_Subset

LEMMA Grows ==
    ASSUME NEW x \in Nat
    PROVE  (x * Growth) \div 10 + 1 \in Nat /\ (x * Growth) \div 10 + 1 > x
<1> PICK h \in Nat : h = Growth - 10
    BY Constants
<1> DEFINE y == x * Growth
<1>1. Growth = 10 + h
    BY Constants
<1>2. y = x * 10 + x * h /\ x * h \in Nat
    BY <1>1
<1> PICK z \in Nat : z = x * h
    BY <1>2
<1>3. y \in Nat /\ y >= 10 * x
    BY <1>2
<1> HIDE DEF y
<1>4. y \div 10 \in Nat /\ y \div 10 >= x
    BY <1>3
<1> QED BY <1>4 DEF y

LEMMA GridPointRises == Rising(Static!grid_point)
<1> DEFINE step == [x \in Nat |-> (x * Growth) \div 10 + 1]
           d == Static!grid_point
           Q(e) == e = [i \in Nat |-> IF i = 0 THEN StaticStart ELSE (e[i - 1] * Growth) \div 10 + 1]
<1>0. StaticStart \in Nat /\ StaticStart > 0
    BY Constants
<1>1. step \in [Nat -> Nat]
    BY Grows
<1>2. PICK f \in [Nat -> Nat] : IsRec(StaticStart, step, f)
    <2> HIDE DEF step
    <2> QED BY <1>0, <1>1, RecExists
<1>3. Q(f)
    <2>1. \A i \in Nat : f[i + 1] = (f[i] * Growth) \div 10 + 1
        BY <1>2 DEF IsRec
    <2>2. \A i \in Nat : i # 0 => i - 1 \in Nat /\ (i - 1) + 1 = i
        OBVIOUS
    <2>3. \A i \in Nat : f[i] = IF i = 0 THEN StaticStart ELSE (f[i - 1] * Growth) \div 10 + 1
        BY <1>2, <2>1, <2>2 DEF IsRec
    <2> QED BY <2>3
<1>4. Q(d)
    <2> HIDE DEF Q
    <2> QED BY <1>3 DEF Static!grid_point, Q
<1>5. d[0] = StaticStart /\ \A i \in Nat : d[i + 1] = (d[i] * Growth) \div 10 + 1
    <2> HIDE DEF d
    <2>1. \A i \in Nat : i + 1 \in Nat /\ i + 1 # 0 /\ (i + 1) - 1 = i
        OBVIOUS
    <2> QED BY <1>4, <2>1
<1> DEFINE T == {i \in Nat : d[i] \in Nat /\ d[i] > 0}
<1> HIDE DEF d
<1>6. 0 \in T
    BY <1>0, <1>5
<1>7. ASSUME NEW i \in Nat, i \in T PROVE i + 1 \in T
    BY <1>5, <1>7, Grows
<1>8. \A i \in Nat : i \in T
    <2> HIDE DEF T
    <2> QED BY <1>6, <1>7, NatSetInduction
<1>9. d \in [Nat -> Nat]
    BY <1>4, <1>8
<1>10. \A i \in Nat : d[i] < d[i + 1]
    BY <1>5, <1>8, Grows
<1>11. Rising(d)
    BY <1>8, <1>9, <1>10 DEF Rising
<1> QED BY <1>11 DEF d

LEMMA StaticGrid ==
    ASSUME SInv
    PROVE  GridOf(Static!prefix_grid, npk)
<1>1. Turns(Static!grid_point, npk, Static!grid_turns)
    BY SameMin DEF Turns, Static!grid_turns, npk
<1>2. Listed(Static!grid_point, npk, Static!grid_turns, Static!prefix_grid)
    BY DEF Listed, Static!prefix_grid, npk
<1>3. npk \in Nat
    BY Board
<1> QED BY <1>1, <1>2, <1>3, GridPointRises, GridRises

-----------------------------------------------------------------------------
(* Curves *)

LEMMA AllCrossed ==
    ASSUME SInv, NEW S, S \subseteq Static!observable
    PROVE  Static!crossed(S, 1..npk) = S
BY DEF Static!crossed, Static!observable, npk

\* More packets name more, no healthy port, and nothing that was not crossed.
LEMMA EstGrows ==
    ASSUME SInv, NEW seeds, seeds \subseteq Static!Seed, NEW S,
           NEW m \in 0..npk, NEW k \in 0..npk, m <= k
    PROVE  /\ Static!est(seeds, S, m) \subseteq Static!est(seeds, S, k)
           /\ Static!est(seeds, S, k) \subseteq S
           /\ Static!est(seeds, S, k) \subseteq Static!crossed(S, 1..k)
<1> DEFINE T(i) == Static!rows(seeds, S, i)
<1>0. npk \in Nat /\ 1..m \subseteq 1..k /\ 1..k \subseteq 1..npk
    BY Board
<1>1. T(m) \subseteq T(k)
    BY <1>0 DEF Static!rows, Static!gated
<1>2. \A t \in T(k) : /\ t.y = Pooled(t.mem, S)
                       /\ \E i \in 1..k : t.mem \subseteq pkts[i].path
    <2> TAKE t \in T(k)
    <2>1. PICK x \in (1..k) \X seeds :
              t = [mem |-> pkts[x[1]].mem[x[2]], y |-> Static!Pooled(pkts[x[1]].mem[x[2]], S)]
        BY DEF Static!rows, Static!gated
    <2>2. x[1] \in 1..k /\ x[1] \in 1..npk /\ x[2] \in Static!Seed
        BY <1>0
    <2>3. t.mem \subseteq pkts[x[1]].path
        BY <2>1, <2>2, Board
    <2> QED BY <2>1, <2>2, <2>3 DEF Static!Pooled, Pooled
<1> HIDE DEF T
<1>3. Consistent(T(k), S)
    BY <1>2 DEF Consistent
<1>4. Definite(T(m)) \subseteq Definite(T(k)) /\ Definite(T(k)) \subseteq S
    BY <1>1, <1>3, DefiniteMonotone, DefiniteSound
<1>5. Definite(T(k)) \subseteq Static!crossed(S, 1..k)
    <2>1. Definite(T(k)) \subseteq Columns(T(k))
        BY DEF Definite, Suspects
    <2>2. Columns(T(k)) \subseteq UNION {pkts[i].path : i \in 1..k}
        BY <1>2 DEF Columns
    <2> QED BY <1>4, <2>1, <2>2 DEF Static!crossed
<1>6. Static!est(seeds, S, m) = Definite(T(m)) /\ Static!est(seeds, S, k) = Definite(T(k))
    BY SameDefinite DEF Static!est, T
<1> QED BY <1>4, <1>5, <1>6

LEMMA LenOf ==
    ASSUME NEW L \in Nat, NEW c, c = [k \in 1..L |-> c[k]]
    PROVE  DOMAIN c = 1..L /\ Len(c) = L
<1>1. c \in [1..L -> {c[k] : k \in 1..L}]
    OBVIOUS
<1>2. c \in Seq({c[k] : k \in 1..L})
    BY <1>1, SeqDef
<1> QED BY <1>1, <1>2, LenProperties

\* A curve over L points that names more and more of S.
Climbs(c, L, S) ==
    /\ c = [k \in 1..L |-> c[k]]
    /\ \A k \in 1..L : c[k].found \subseteq S
    /\ \A k, j \in 1..L : k <= j => c[k].found \subseteq c[j].found
GoodAt(c, L, S) == {k \in 1..L : Reached(c[k].found, S)}

\* Its first good point is the stable one.
LEMMA FirstIsStable ==
    ASSUME NEW S, IsFiniteSet(S), NEW L \in Nat, NEW c, Climbs(c, L, S)
    PROVE  /\ Static!to_f1(c, S) = Static!first_f1(c, S)
           /\ Static!to_f1(c, S) = IF GoodAt(c, L, S) = {} THEN 0 ELSE Min(GoodAt(c, L, S))
<1>1. DOMAIN c = 1..L /\ Len(c) = L
    BY LenOf DEF Climbs
<1>2. GoodAt(c, L, S) = {k \in DOMAIN c : Static!good(c[k].found, S)}
    BY <1>1, SameGood DEF GoodAt
<1>3. \A k \in GoodAt(c, L, S) : \A j \in k..L : Static!good(c[j].found, S)
    <2> TAKE k \in GoodAt(c, L, S)
    <2> TAKE j \in k..L
    <2>1. k \in 1..L /\ j \in 1..L /\ k <= j /\ Reached(c[k].found, S)
        BY DEF GoodAt
    <2>2. c[k].found \subseteq c[j].found /\ c[j].found \subseteq S
        BY <2>1 DEF Climbs
    <2>3. Reached(c[j].found, S)
        BY <2>1, <2>2, ReachedGrows
    <2> QED BY <2>3, SameGood
<1>4. GoodAt(c, L, S) = {k \in DOMAIN c : \A j \in k..Len(c) : Static!good(c[j].found, S)}
    <2>1. \A k \in DOMAIN c : k \in k..Len(c)
        BY <1>1
    <2> QED BY <1>1, <1>2, <1>3, <2>1
<1>5. Static!to_f1(c, S) = IF GoodAt(c, L, S) = {} THEN 0 ELSE Min(GoodAt(c, L, S))
    BY <1>4, SameMin DEF Static!to_f1
<1>6. Static!first_f1(c, S) = IF GoodAt(c, L, S) = {} THEN 0 ELSE Min(GoodAt(c, L, S))
    BY <1>2, SameMin DEF Static!first_f1
<1> QED BY <1>5, <1>6

\* A curve that names at every point a part of what the other names is not ahead of it.
LEMMA NotAhead ==
    ASSUME NEW S, IsFiniteSet(S), NEW L \in Nat, NEW a, Climbs(a, L, S), NEW b, Climbs(b, L, S),
           \A k \in 1..L : b[k].found \subseteq a[k].found,
           Static!to_f1(b, S) > 0
    PROVE  Static!to_f1(b, S) >= Static!to_f1(a, S)
<1> DEFINE A == GoodAt(a, L, S)  B == GoodAt(b, L, S)
<1>1. B \subseteq A
    <2> SUFFICES ASSUME NEW k \in B PROVE k \in A
        OBVIOUS
    <2>1. k \in 1..L /\ Reached(b[k].found, S)
        BY DEF GoodAt
    <2>2. b[k].found \subseteq a[k].found /\ a[k].found \subseteq S
        BY <2>1 DEF Climbs
    <2>3. Reached(a[k].found, S)
        BY <2>1, <2>2, ReachedGrows
    <2> QED BY <2>1, <2>3 DEF GoodAt
<1>2. A \subseteq Nat
    BY DEF GoodAt
<1>3. Static!to_f1(b, S) = IF B = {} THEN 0 ELSE Min(B)
    BY FirstIsStable
<1>4. Static!to_f1(a, S) = IF A = {} THEN 0 ELSE Min(A)
    BY FirstIsStable
<1> HIDE DEF A, B
<1>5. B # {}
    BY <1>3
<1>6. PICK k \in B : TRUE
    BY <1>5
<1>7. Min(B) \in B
    BY <1>1, <1>2, <1>6, MinIs
<1>8. Min(A) <= Min(B) /\ Min(A) \in Nat
    BY <1>1, <1>2, <1>7, MinIs
<1> QED BY <1>1, <1>2, <1>3, <1>4, <1>5, <1>7, <1>8

-----------------------------------------------------------------------------
(* The greedy choice *)

Adds(s, c) == Cardinality(Static!Dset(s) \ Static!cover(c))

LEMMA SeedsFinite == IsFiniteSet(Static!Seed) /\ Cardinality(Static!Seed) = M_POOL
<1>1. Static!Seed = 0..(M_POOL - 1) /\ M_POOL \in Nat /\ M_POOL >= 1
    BY Constants DEF Static!Seed
<1> PICK b \in Nat : b = M_POOL - 1
    BY <1>1
<1>2. IsFiniteSet(0..b) /\ Cardinality(0..b) = b - 0 + 1
    BY FS_Interval
<1> QED BY <1>1, <1>2

LEMMA UniverseFinite ==
    ASSUME SInv
    PROVE  /\ IsFiniteSet(Static!universe)
           /\ \A s : Static!Dset(s) \subseteq Static!universe
           /\ \A c : Static!cover(c) \subseteq Static!universe
<1> DEFINE f == [i \in 1..npk |-> Static!Pairs(pkts[i].path)]
<1>1. npk \in Nat /\ \A i \in 1..npk : IsFiniteSet(pkts[i].path)
    BY Board
<1>2. \A i \in 1..npk : IsFiniteSet(f[i])
    <2> TAKE i \in 1..npk
    <2>1. IsFiniteSet(SUBSET pkts[i].path)
        BY <1>1, FS_SUBSET
    <2>2. f[i] \subseteq SUBSET pkts[i].path
        BY DEF Static!Pairs, Static!kSubset
    <2> QED BY <2>1, <2>2, FS_Subset
<1>3. Static!universe = UNION {f[i] : i \in 1..npk}
    BY DEF Static!universe, npk
<1>4. \A s : Static!Dset(s) \subseteq Static!universe
    BY DEF Static!Dset, Static!universe
<1>5. \A c : Static!cover(c) \subseteq Static!universe
    BY <1>4 DEF Static!cover
<1> HIDE DEF f
<1>6. IsFiniteSet(Static!universe)
    BY <1>1, <1>2, <1>3, UnionFinite
<1> QED BY <1>4, <1>5, <1>6

LEMMA AddsNat ==
    ASSUME SInv, NEW s, NEW c
    PROVE  Adds(s, c) \in 0..Cardinality(Static!universe) /\ Cardinality(Static!universe) \in Nat
<1>1. IsFiniteSet(Static!universe)
    BY UniverseFinite
<1>2. Static!Dset(s) \ Static!cover(c) \subseteq Static!universe
    BY UniverseFinite
<1> DEFINE D == Static!Dset(s) \ Static!cover(c)
<1> HIDE DEF D
<1>3. IsFiniteSet(D) /\ Cardinality(D) <= Cardinality(Static!universe)
    <2>1. D \subseteq Static!universe
        BY <1>2 DEF D
    <2> QED BY <1>1, <2>1, FS_Subset
<1>4. Cardinality(D) \in Nat /\ Cardinality(Static!universe) \in Nat
    BY <1>1, <1>3, FS_CardinalityType
<1> QED BY <1>3, <1>4 DEF Adds, D

\* Of the seeds left the best is one that adds most.
LEMMA BestIs ==
    ASSUME SInv, NEW c, Static!Seed \ c # {}
    PROVE  /\ Static!best(c) \in Static!Seed \ c
           /\ \A t \in Static!Seed \ c : Adds(Static!best(c), c) >= Adds(t, c)
<1> DEFINE left == Static!Seed \ c
           N == Cardinality(Static!universe)
           V == {Adds(s, c) : s \in left}
           Top == {s \in left : \A t \in left : Adds(s, c) >= Adds(t, c)}
<1>1. N \in Nat /\ V \subseteq 0..N
    BY AddsNat
<1>2. PICK k \in V : TRUE
    OBVIOUS
<1>3. Max(V) \in V /\ \A x \in V : x <= Max(V)
    <2> HIDE DEF V, N
    <2> QED BY <1>1, <1>2, MaxIs
<1>4. PICK s \in left : Max(V) = Adds(s, c)
    BY <1>3
<1>5. \A t \in left : Adds(s, c) >= Adds(t, c)
    <2> TAKE t \in left
    <2>1. Adds(t, c) \in V /\ Adds(t, c) \in Nat /\ Adds(s, c) \in Nat
        BY AddsNat
    <2> HIDE DEF V
    <2> QED BY <1>3, <1>4, <2>1
<1>6. s \in Top /\ Top \subseteq Nat
    <2>1. left \subseteq Nat
        BY Constants DEF Static!Seed
    <2> QED BY <1>5, <2>1
<1>7. Static!best(c) = Static!Min(Top)
    BY SameCardinality DEF Static!best, Adds
<1> HIDE DEF Top
<1>8. Static!best(c) \in Top
    BY <1>6, <1>7, SameMin, MinIs
<1> QED BY <1>8 DEF Top

OptStep(g, s) == IF s = {} THEN {} ELSE g[s \ {Max(s)}] \cup {Static!best(g[s \ {Max(s)}])}

\* How the choice grows: chosen[k] after k turns.
Choice(chosen) ==
    /\ chosen[0] = {} /\ chosen[R] = Static!opt_seeds
    /\ \A k \in 0..(R - 1) : chosen[k + 1] = chosen[k] \cup {Static!best(chosen[k])}

LEMMA ChoiceExists ==
    ASSUME SInv
    PROVE  \E chosen : Choice(chosen)
<1> DEFINE P == SUBSET (1..R)
           Q(g) == g = [s \in P |-> OptStep(g, s)]
<1>1. R \in Nat /\ R >= 1 /\ DOMAIN [r \in 1..R |-> r] = 1..R
    BY Constants
<1>2. Static!opt_seeds = (CHOOSE g : Q(g))[1..R]
    <2>1. Static!opt_seeds
            = (CHOOSE g : g = [s \in SUBSET DOMAIN [r \in 1..R |-> r] |-> OptStep(g, s)])
                  [DOMAIN [r \in 1..R |-> r]]
        BY DEF Static!opt_seeds, Static!FoldLeft, Static!MapThenFoldSet, Static!Max, Max, OptStep
    <2> QED BY <1>1, <2>1
<1>3. \E g : Q(g)
    <2> DEFINE z == Min({})
               A == SUBSET (Static!Seed \cup {z})
               step == [x \in (1..R) \X A |-> x[2] \cup {Static!best(x[2])}]
    <2>1. \A c \in A : Static!best(c) \in Static!Seed \cup {z}
        <3> TAKE c \in A
        <3>1. CASE Static!Seed \ c = {}
            <4>1. Static!best(c) = Static!Min({})
                BY <3>1 DEF Static!best
            <4> QED BY <4>1, SameMin
        <3>2. CASE Static!Seed \ c # {}
            BY <3>2, BestIs
        <3> QED BY <3>1, <3>2
    <2>2. step \in [(1..R) \X A -> A]
        BY <2>1
    <2>3. {} \in A
        OBVIOUS
    <2>4. \A i \in 1..R : \A a \in A : step[<<i, a>>] = a \cup {Static!best(a)}
        OBVIOUS
    <2> HIDE DEF step, A
    <2>5. PICK g : IsFold(A, R, {}, step, g)
        BY <1>1, <2>2, <2>3, FoldExists
    <2>6. \A s \in P : s # {} => Max(s) \in 1..R /\ s \ {Max(s)} \in P
        BY <1>1, LastIndex
    <2>7. g \in [P -> A] /\ \A s \in P : g[s] = FoldStep({}, step, g, s)
        BY <2>5 DEF IsFold
    <2>8. \A s \in P : g[s] = OptStep(g, s)
        BY <2>4, <2>6, <2>7 DEF FoldStep, OptStep
    <2> QED BY <2>7, <2>8
<1>4. PICK g : g = (CHOOSE h : Q(h)) /\ Q(g)
    BY <1>3
<1> DEFINE chosen == [k \in 0..R |-> g[1..k]]
<1>5. chosen[0] = {}
    <2>1. 1..0 = {} /\ {} \in P /\ 0 \in 0..R
        BY <1>1
    <2>2. g[{}] = {}
        BY <1>4, <2>1 DEF OptStep
    <2> QED BY <2>1, <2>2
<1>6. chosen[R] = Static!opt_seeds
    <2> HIDE DEF Q
    <2>1. R \in 0..R
        BY <1>1
    <2> QED BY <1>2, <1>4, <2>1
<1>7. \A k \in 0..(R - 1) : chosen[k + 1] = chosen[k] \cup {Static!best(chosen[k])}
    <2> TAKE k \in 0..(R - 1)
    <2>1. k \in Nat /\ k + 1 \in 0..R /\ k \in 0..R /\ 1..(k + 1) \in P
        BY <1>1
    <2>2. g[1..(k + 1)] = OptStep(g, 1..(k + 1))
        BY <1>4, <2>1
    <2>3. g[1..(k + 1)] = g[1..k] \cup {Static!best(g[1..k])}
        BY <2>1, <2>2, Below DEF OptStep
    <2>4. chosen[k + 1] = g[1..(k + 1)] /\ chosen[k] = g[1..k]
        BY <2>1
    <2> QED BY <2>3, <2>4
<1> HIDE DEF chosen
<1>8. Choice(chosen)
    BY <1>5, <1>6, <1>7 DEF Choice
<1> QED BY <1>8

\* Every turn takes another seed.
LEMMA ChoiceIsSeeds ==
    ASSUME SInv, NEW chosen, Choice(chosen), NEW k \in 0..R
    PROVE  /\ chosen[k] \subseteq Static!Seed /\ IsFiniteSet(chosen[k])
           /\ Cardinality(chosen[k]) = k
           /\ k < R => Static!Seed \ chosen[k] # {}
<1> DEFINE Some(j) == /\ chosen[j] \subseteq Static!Seed /\ IsFiniteSet(chosen[j])
                      /\ Cardinality(chosen[j]) = j
           T == {j \in Nat : j <= R => Some(j)}
<1>0. R \in Nat /\ R <= M_POOL /\ M_POOL \in Nat
    BY Constants
<1>1. 0 \in T
    BY FS_EmptySet DEF Choice
<1>a. ASSUME NEW j \in Nat, Some(j), j < R PROVE Static!Seed \ chosen[j] # {}
    <2>1. Cardinality(chosen[j]) # Cardinality(Static!Seed)
        BY <1>0, <1>a, SeedsFinite
    <2> QED BY <1>a, <2>1
<1>2. ASSUME NEW j \in Nat, j \in T PROVE j + 1 \in T
    <2> SUFFICES ASSUME j + 1 <= R PROVE Some(j + 1)
        OBVIOUS
    <2>1. Some(j) /\ j < R /\ j \in 0..(R - 1)
        BY <1>0, <1>2
    <2>2. Static!Seed \ chosen[j] # {}
        BY <1>a, <2>1
    <2>3. Static!best(chosen[j]) \in Static!Seed \ chosen[j]
        BY <2>2, BestIs
    <2>4. chosen[j + 1] = chosen[j] \cup {Static!best(chosen[j])}
        BY <2>1 DEF Choice
    <2> DEFINE c == chosen[j]  b == Static!best(chosen[j])
    <2>5. IsFiniteSet(c) /\ Cardinality(c) = j /\ b \notin c
        BY <2>1, <2>3
    <2>6. chosen[j + 1] = c \cup {b}
        BY <2>4
    <2>7. chosen[j + 1] \subseteq Static!Seed
        BY <2>1, <2>3, <2>4
    <2> HIDE DEF c, b
    <2>8. IsFiniteSet(c \cup {b}) /\ Cardinality(c \cup {b}) = Cardinality(c) + 1
        BY <2>5, FS_AddElement
    <2> QED BY <2>5, <2>6, <2>7, <2>8
<1> HIDE DEF T
<1>3. k \in Nat /\ k \in T
    BY <1>0, <1>1, <1>2, NatSetInduction
<1>4. Some(k)
    BY <1>0, <1>3 DEF T
<1> QED BY <1>a, <1>3, <1>4

LEMMA OptIsSeeds ==
    ASSUME SInv
    PROVE  Static!opt_seeds \subseteq Static!Seed
<1>1. PICK chosen : Choice(chosen)
    BY ChoiceExists
<1>2. R \in 0..R
    BY Constants
<1>3. chosen[R] \subseteq Static!Seed
    BY <1>1, <1>2, ChoiceIsSeeds
<1> QED BY <1>1, <1>3 DEF Choice

\* Each kind of curve names more and more of S.
LEMMA CurvesClimb ==
    ASSUME SInv, NEW S, NEW L \in Nat, GridOf(Static!prefix_grid, npk),
           L = Len(Static!prefix_grid)
    PROVE  /\ Climbs(Static!full_curve(S), L, S)
           /\ Climbs(Static!samp_curve(S), L, S)
           /\ \A seeds \in SUBSET Static!Seed : Climbs(Static!pool_curve(seeds, S), L, S)
           /\ \A k \in 1..L :
                 LET all == Static!full_curve(S)[k].found
                 IN  /\ Static!samp_curve(S)[k].found \subseteq all
                     /\ \A seeds \in SUBSET Static!Seed :
                           Static!pool_curve(seeds, S)[k].found \subseteq all
<1> DEFINE g == Static!prefix_grid
           full == Static!full_curve(S)  samp == Static!samp_curve(S)
           pool(seeds) == Static!pool_curve(seeds, S)
<1>0. npk \in Nat
    BY Board
<1>1. /\ DOMAIN g = 1..L
      /\ \A k \in 1..L : g[k] \in 0..npk
      /\ \A k, j \in 1..L : k <= j => g[k] <= g[j]
    BY DEF GridOf
<1>2. /\ full = [k \in 1..L |-> full[k]]
      /\ \A k \in 1..L : full[k].found = Static!crossed(S, 1..g[k])
    BY <1>1 DEF Static!full_curve
<1>3. /\ samp = [k \in 1..L |-> samp[k]]
      /\ \A k \in 1..L : samp[k].found = Static!crossed(S, Static!sampled(g[k]))
    BY <1>1 DEF Static!samp_curve
<1>4. \A seeds \in SUBSET Static!Seed :
          /\ pool(seeds) = [k \in 1..L |-> pool(seeds)[k]]
          /\ \A k \in 1..L : pool(seeds)[k].found = Static!est(seeds, S, g[k])
    BY <1>1 DEF Static!pool_curve
<1> HIDE DEF full, samp, pool, g
<1>5. Climbs(full, L, S)
    <2>1. \A k, j \in 1..L : k <= j => 1..g[k] \subseteq 1..g[j]
        BY <1>0, <1>1
    <2>2. \A k, j \in 1..L : k <= j => full[k].found \subseteq full[j].found
        BY <1>2, <2>1 DEF Static!crossed
    <2>3. \A k \in 1..L : full[k].found \subseteq S
        BY <1>2 DEF Static!crossed
    <2> QED BY <1>2, <2>2, <2>3 DEF Climbs
<1>6. Climbs(samp, L, S)
    <2>1. \A k, j \in 1..L : k <= j => Static!sampled(g[k]) \subseteq Static!sampled(g[j])
        BY <1>0, <1>1 DEF Static!sampled
    <2>2. \A k, j \in 1..L : k <= j => samp[k].found \subseteq samp[j].found
        BY <1>3, <2>1 DEF Static!crossed
    <2>3. \A k \in 1..L : samp[k].found \subseteq S
        BY <1>3 DEF Static!crossed
    <2> QED BY <1>3, <2>2, <2>3 DEF Climbs
<1>7. ASSUME NEW seeds \in SUBSET Static!Seed PROVE Climbs(pool(seeds), L, S)
    <2>1. \A k, j \in 1..L : k <= j =>
              /\ Static!est(seeds, S, g[k]) \subseteq Static!est(seeds, S, g[j])
              /\ Static!est(seeds, S, g[j]) \subseteq S
        BY <1>1, EstGrows
    <2>2. \A k \in 1..L : pool(seeds)[k].found \subseteq S
        BY <1>0, <1>4, <2>1
    <2>3. \A k, j \in 1..L : k <= j => pool(seeds)[k].found \subseteq pool(seeds)[j].found
        BY <1>4, <2>1
    <2>4. pool(seeds) = [k \in 1..L |-> pool(seeds)[k]]
        BY <1>4
    <2> QED BY <2>2, <2>3, <2>4 DEF Climbs
<1>8. ASSUME NEW k \in 1..L PROVE samp[k].found \subseteq full[k].found
    <2>1. Static!sampled(g[k]) \subseteq 1..g[k]
        BY DEF Static!sampled
    <2>2. samp[k].found = Static!crossed(S, Static!sampled(g[k]))
          /\ full[k].found = Static!crossed(S, 1..g[k])
        BY <1>2, <1>3
    <2> QED BY <2>1, <2>2 DEF Static!crossed
<1>9. ASSUME NEW k \in 1..L, NEW seeds \in SUBSET Static!Seed
      PROVE  pool(seeds)[k].found \subseteq full[k].found
    <2>1. g[k] \in 0..npk /\ g[k] <= g[k]
        BY <1>0, <1>1
    <2>2. Static!est(seeds, S, g[k]) \subseteq Static!crossed(S, 1..g[k])
        BY <2>1, EstGrows
    <2> QED BY <1>2, <1>4, <2>2
<1> QED BY <1>5, <1>6, <1>7, <1>8, <1>9 DEF full, samp, pool

(* On every board and for every placement of faults on it Full-INT's bytes  *)
(* to F1 are finite and its first good prefix is the stable one, and no     *)
(* sampling and no seeds, the optimised ones included, get there with fewer *)
(* packets (m3b1b_study.py:11-13).                                          *)
THEOREM FullAlwaysFirst == StudySpec => []FullIsFirst
<1> SUFFICES ASSUME SInv PROVE FullIsFirst
    BY AlwaysSInv, PTL
<1> SUFFICES ASSUME Static!npk > 0 PROVE Static!FullIsFirst
    BY DEF FullIsFirst, Static!FullIsFirst
<1> DEFINE L == Len(Static!prefix_grid)
<1>0. npk \in Nat /\ npk > 0
    BY Board DEF npk
<1>1. GridOf(Static!prefix_grid, npk)
    BY StaticGrid
<1>2. L \in Nat /\ L >= 1 /\ Static!prefix_grid[L] = npk /\ DOMAIN Static!prefix_grid = 1..L
    BY <1>1 DEF GridOf
<1>3. 0..(R - 1) \in SUBSET Static!Seed /\ Static!opt_seeds \in SUBSET Static!Seed
    BY Constants, OptIsSeeds DEF Static!Seed
<1> SUFFICES ASSUME NEW S \in Static!Placements
             PROVE
        LET full == Static!full_curve(S)
        IN  /\ Static!to_f1(full, S) > 0 /\ Static!to_f1(full, S) = Static!first_f1(full, S)
            /\ \A other \in {Static!samp_curve(S), Static!pool_curve(0..(R - 1), S),
                             Static!pool_curve(Static!opt_seeds, S)} :
                  /\ \A k \in DOMAIN full : other[k].found \subseteq full[k].found
                  /\ Static!to_f1(other, S) = Static!first_f1(other, S)
                  /\ Static!to_f1(other, S) > 0 => Static!to_f1(other, S) >= Static!to_f1(full, S)
    BY DEF Static!FullIsFirst
<1> DEFINE full == Static!full_curve(S)
<1>4. IsFiniteSet(S) /\ S # {} /\ S \subseteq Static!observable
    BY PlacementFinite
<1>5. DOMAIN full = 1..L /\ Climbs(full, L, S)
    BY <1>1, <1>2, CurvesClimb DEF Static!full_curve
<1>6. L \in GoodAt(full, L, S)
    <2>1. full[L].found = Static!crossed(S, 1..npk)
        BY <1>2 DEF Static!full_curve
    <2>2. full[L].found = S
        BY <1>4, <2>1, AllCrossed
    <2>3. Reached(S, S)
        BY <1>4, AllReached
    <2> QED BY <1>2, <2>2, <2>3 DEF GoodAt
<1> HIDE DEF L
<1>7. Static!to_f1(full, S) > 0 /\ Static!to_f1(full, S) = Static!first_f1(full, S)
    <2> HIDE DEF full
    <2>1. GoodAt(full, L, S) \subseteq 1..L
        BY DEF GoodAt
    <2> DEFINE A == GoodAt(full, L, S)
    <2> HIDE DEF A
    <2>2. A \subseteq Nat /\ L \in A
        BY <1>6, <2>1 DEF A
    <2>3. Min(A) \in A
        BY <2>2, MinIs
    <2>4. /\ Static!to_f1(full, S) = Static!first_f1(full, S)
          /\ Static!to_f1(full, S) = IF A = {} THEN 0 ELSE Min(A)
        BY <1>2, <1>4, <1>5, FirstIsStable DEF A
    <2> QED BY <2>1, <2>2, <2>3, <2>4 DEF A
<1>8. ASSUME NEW other \in {Static!samp_curve(S), Static!pool_curve(0..(R - 1), S),
                            Static!pool_curve(Static!opt_seeds, S)}
      PROVE  /\ \A k \in 1..L : other[k].found \subseteq full[k].found
             /\ Static!to_f1(other, S) = Static!first_f1(other, S)
             /\ Static!to_f1(other, S) > 0 => Static!to_f1(other, S) >= Static!to_f1(full, S)
    <2>1. Climbs(other, L, S) /\ \A k \in 1..L : other[k].found \subseteq full[k].found
        BY <1>1, <1>2, <1>3, CurvesClimb DEF L
    <2> HIDE DEF full
    <2>2. Static!to_f1(other, S) = Static!first_f1(other, S)
        BY <1>2, <1>4, <2>1, FirstIsStable
    <2>3. ASSUME Static!to_f1(other, S) > 0
          PROVE  Static!to_f1(other, S) >= Static!to_f1(full, S)
        BY <1>2, <1>4, <1>5, <2>1, <2>3, NotAhead
    <2> QED BY <2>1, <2>2, <2>3
<1> QED BY <1>5, <1>7, <1>8

-----------------------------------------------------------------------------
(* Byte budgets *)

PktBytes == [i \in 1..npk |-> Static!pkt_bytes(i)]

LEMMA PktBytesNat ==
    ASSUME SInv, NEW i \in 1..npk
    PROVE  PktBytes[i] = Static!pkt_bytes(i) /\ PktBytes[i] \in Nat
<1>1. IsFiniteSet(pkts[i].path)
    BY Board
<1>2. Static!Cardinality(pkts[i].path) \in Nat
    BY <1>1, SameCardinality, FS_CardinalityType
<1> PICK c \in Nat : c = Static!Cardinality(pkts[i].path)
    BY <1>2
<1>3. BASE + PERHOP * c \in Nat
    BY Constants
<1> QED BY <1>3 DEF PktBytes, Static!pkt_bytes

\* The library's sum over the packets is the sum that DataProofs is about.
LEMMA BytesAreSum ==
    ASSUME SInv, NEW P, P \subseteq 1..npk
    PROVE  Static!bytes_of(P) = SumFunctionOnSet(PktBytes, P)
<1> DEFINE Q(g) == g = [s \in SUBSET P |-> IF s = {} THEN 0
                                          ELSE Static!pkt_bytes(AnyOf(s)) + g[s \ {AnyOf(s)}]]
<1>1. Static!bytes_of(P) = (CHOOSE g : Q(g))[P]
    BY DEF Static!bytes_of, Static!MapThenSumSet, Static!MapThenFoldSet, AnyOf
<1>2. npk \in Nat /\ IsFiniteSet(1..npk)
    BY Board, FS_Interval
<1>3. IsFiniteSet(P)
    BY <1>2, FS_Subset
<1>4. \A s \in SUBSET P : s # {} => AnyOf(s) \in s
    BY DEF AnyOf
<1>5. \A s \in SUBSET P : s # {} => PktBytes[AnyOf(s)] = Static!pkt_bytes(AnyOf(s))
    BY <1>4 DEF PktBytes
<1>6. \A g : Q(g) <=> IsSum(PktBytes, P, g)
    BY <1>5 DEF IsSum, SumStep
<1>7. \E g : IsSum(PktBytes, P, g)
    BY <1>3, SumExists
<1> DEFINE a == CHOOSE g : Q(g)
           b == CHOOSE g : IsSum(PktBytes, P, g)
<1>8. Q(a)
    <2> HIDE DEF Q
    <2> QED BY <1>6, <1>7
<1>9. IsSum(PktBytes, P, a) /\ IsSum(PktBytes, P, b)
    <2> HIDE DEF Q
    <2> QED BY <1>6, <1>7, <1>8
<1> HIDE DEF a, b
<1>10. a[P] = b[P]
    BY <1>3, <1>9, SumAgree
<1> QED BY <1>1, <1>10, SumIs DEF a, b

Bytes(m) == Static!bytes_of(1..m)

LEMMA BytesAdd ==
    ASSUME SInv, NEW m \in Nat, m + 1 <= npk
    PROVE  Bytes(m) \in Nat /\ Bytes(m + 1) = Bytes(m) + Static!pkt_bytes(m + 1)
           /\ Static!pkt_bytes(m + 1) \in Nat
<1> DEFINE A == 1..m
<1>0. npk \in Nat
    BY Board
<1>1. IsFiniteSet(A) /\ A \subseteq 1..npk /\ m + 1 \notin A
      /\ 1..(m + 1) = A \cup {m + 1} /\ 1..(m + 1) \subseteq 1..npk /\ m + 1 \in 1..npk
    BY <1>0, FS_Interval
<1>2. \A x \in A \cup {m + 1} : PktBytes[x] \in Nat
    BY <1>1, PktBytesNat
<1>3. Bytes(m) = SumFunctionOnSet(PktBytes, A)
    BY <1>1, BytesAreSum DEF Bytes
<1>4. Bytes(m + 1) = SumFunctionOnSet(PktBytes, A \cup {m + 1})
    BY <1>1, BytesAreSum DEF Bytes
<1> HIDE DEF A
<1>5. SumFunctionOnSet(PktBytes, A \cup {m + 1}) = SumFunctionOnSet(PktBytes, A) + PktBytes[m + 1]
    BY <1>1, <1>2, SumAdd
<1>6. SumFunctionOnSet(PktBytes, A) \in Nat
    BY <1>1, <1>2, SumNat
<1>7. PktBytes[m + 1] = Static!pkt_bytes(m + 1) /\ PktBytes[m + 1] \in Nat
    BY <1>1, PktBytesNat
<1> QED BY <1>3, <1>4, <1>5, <1>6, <1>7

LEMMA BytesGrow ==
    ASSUME SInv, NEW k \in 0..npk
    PROVE  Bytes(k) \in Nat /\ \A m \in 0..k : Bytes(m) \in Nat /\ Bytes(m) <= Bytes(k)
<1> DEFINE Upto(j) == Bytes(j) \in Nat /\ \A m \in 0..j : Bytes(m) \in Nat /\ Bytes(m) <= Bytes(j)
           T == {j \in Nat : j <= npk => Upto(j)}
<1>0. npk \in Nat
    BY Board
<1>1. 0 \in T
    <2>1. 1..0 = {}
        OBVIOUS
    <2>2. Bytes(0) = 0
        BY <2>1, BytesAreSum, SumEmpty DEF Bytes
    <2> QED BY <2>2
<1>2. ASSUME NEW j \in Nat, j \in T PROVE j + 1 \in T
    <2> SUFFICES ASSUME j + 1 <= npk PROVE Upto(j + 1)
        OBVIOUS
    <2>1. Upto(j)
        BY <1>0, <1>2
    <2>2. Bytes(j + 1) = Bytes(j) + Static!pkt_bytes(j + 1) /\ Static!pkt_bytes(j + 1) \in Nat
        BY BytesAdd
    <2>3. Bytes(j) <= Bytes(j + 1) /\ Bytes(j + 1) \in Nat
        BY <2>1, <2>2
    <2>4. ASSUME NEW m \in 0..(j + 1) PROVE Bytes(m) \in Nat /\ Bytes(m) <= Bytes(j + 1)
        <3>1. CASE m = j + 1
            BY <2>3, <3>1
        <3>2. CASE m # j + 1
            <4>1. m \in 0..j
                BY <3>2
            <4>2. Bytes(m) \in Nat /\ Bytes(m) <= Bytes(j)
                BY <2>1, <4>1
            <4> QED BY <2>1, <2>3, <4>2
        <3> QED BY <3>1, <3>2
    <2> QED BY <2>3, <2>4
<1> HIDE DEF T
<1>3. k \in Nat /\ k \in T
    BY <1>0, <1>1, <1>2, NatSetInduction
<1>4. Upto(k)
    BY <1>0, <1>3 DEF T
<1> QED BY <1>4

\* The packets a budget pays for: one at least, and no more than are there.
LEMMA PaidFor ==
    ASSUME SInv, npk > 0, NEW B \in Nat
    PROVE  LET q == B \div POOL_BYTES
               n == Static!pool_pkts(B)
           IN  /\ q \in Nat /\ n \in 1..npk
               /\ n = IF q < 1 THEN 1 ELSE IF q <= npk THEN q ELSE npk
<1> DEFINE q == B \div POOL_BYTES
<1>1. POOL_BYTES \in Nat /\ POOL_BYTES > 0 /\ npk \in Nat
    BY Constants, Board
<1>2. q \in Nat
    BY <1>1
<1>3. Static!pool_pkts(B) = Min({npk, Max({1, q})})
    BY SameMin DEF Static!pool_pkts, npk
<1> HIDE DEF q
<1> DEFINE t == IF q < 1 THEN 1 ELSE q
<1>4. Max({1, q}) = t
    <2>1. {1, q} \subseteq 0..t
        BY <1>2
    <2>2. Max({1, q}) \in {1, q} /\ \A x \in {1, q} : x <= Max({1, q})
        <3>1. t \in Nat /\ 1 \in {1, q}
            BY <1>2
        <3> HIDE DEF t
        <3> QED BY <2>1, <3>1, MaxIs
    <2> QED BY <1>2, <2>2
<1>5. t \in Nat /\ t >= 1
    BY <1>2
<1> HIDE DEF t
<1>6. Min({npk, t}) \in {npk, t} /\ \A x \in {npk, t} : Min({npk, t}) <= x
    <2>1. {npk, t} \subseteq Nat /\ t \in {npk, t}
        BY <1>1, <1>5
    <2> QED BY <2>1, MinIs
<1>7. Static!pool_pkts(B) = IF t <= npk THEN t ELSE npk
    BY <1>1, <1>3, <1>4, <1>5, <1>6
<1> QED BY <1>1, <1>2, <1>5, <1>7 DEF t, q

LEMMA BudgetSpent ==
    ASSUME SInv, npk > 0, NEW B \in Nat
    PROVE  POOL_BYTES * Static!pool_pkts(B) <= Static!Max({B, POOL_BYTES})
<1> DEFINE q == B \div POOL_BYTES
           m == Max({B, POOL_BYTES})
<1>1. POOL_BYTES \in Nat /\ POOL_BYTES > 0 /\ npk \in Nat
    BY Constants, Board
<1>2. q \in Nat /\ POOL_BYTES * q <= B
    BY <1>1
<1> DEFINE n == Static!pool_pkts(B)
<1>3. n \in Nat /\ (n = 1 \/ n <= q)
    BY <1>1, PaidFor
<1>4. m \in Nat /\ B <= m /\ POOL_BYTES <= m
    <2> DEFINE t == IF B < POOL_BYTES THEN POOL_BYTES ELSE B
    <2>1. t \in Nat /\ {B, POOL_BYTES} \subseteq 0..t /\ B \in {B, POOL_BYTES}
        BY <1>1
    <2> HIDE DEF t
    <2>2. m \in {B, POOL_BYTES} /\ \A x \in {B, POOL_BYTES} : x <= m
        BY <2>1, MaxIs
    <2> QED BY <1>1, <2>2
<1> HIDE DEF n, m, q
<1>5. CASE n = 1
    <2>1. POOL_BYTES * n = POOL_BYTES
        BY <1>1, <1>5
    <2> QED BY <1>4, <2>1, SameMin DEF n, m
<1>6. CASE n <= q
    <2>1. PICK d \in Nat : q = n + d
        BY <1>2, <1>3, <1>6
    <2>2. POOL_BYTES * q = POOL_BYTES * n + POOL_BYTES * d /\ POOL_BYTES * d \in Nat
          /\ POOL_BYTES * n \in Nat
        BY <1>1, <1>3, <2>1
    <2>3. POOL_BYTES * n <= m
        BY <1>2, <1>4, <2>2
    <2> QED BY <2>3, SameMin DEF n, m
<1> QED BY <1>3, <1>5, <1>6

\* A larger budget pays for no fewer packets, and finds no fewer faults.
LEMMA FoundGrows ==
    ASSUME SInv, npk > 0, NEW S, NEW B \in Nat, NEW C \in Nat, B <= C
    PROVE  /\ Static!pool_found(S, B) \subseteq Static!pool_found(S, C)
           /\ Static!pool_found(S, C) \subseteq S
<1>1. POOL_BYTES \in Nat /\ POOL_BYTES > 0 /\ npk \in Nat
    BY Constants, Board
<1>2. B \div POOL_BYTES <= C \div POOL_BYTES
    BY <1>1
<1>3. Static!pool_pkts(B) \in 1..npk /\ Static!pool_pkts(C) \in 1..npk
      /\ Static!pool_pkts(B) <= Static!pool_pkts(C)
    BY <1>1, <1>2, PaidFor
<1>4. 0..(R - 1) \subseteq Static!Seed
    BY Constants DEF Static!Seed
<1>5. Static!pool_pkts(B) \in 0..npk /\ Static!pool_pkts(C) \in 0..npk
    BY <1>1, <1>3
<1> QED BY <1>3, <1>4, <1>5, EstGrows DEF Static!pool_found

\* The first packet on whose path e is.
LEMMA CrossingIs ==
    ASSUME SInv, NEW e \in Static!observable
    PROVE  /\ Static!first_crossing(e) \in 1..npk
           /\ e \in pkts[Static!first_crossing(e)].path
           /\ \A i \in 1..npk : e \in pkts[i].path => Static!first_crossing(e) <= i
<1> DEFINE A == {i \in 1..npk : e \in pkts[i].path}
<1>1. PICK k \in A : TRUE
    BY DEF Static!observable, npk
<1>2. A \subseteq Nat
    OBVIOUS
<1>3. Static!first_crossing(e) = Min(A)
    BY SameMin DEF Static!first_crossing, npk
<1> HIDE DEF A
<1>4. Static!first_crossing(e) \in A /\ \A i \in A : Static!first_crossing(e) <= i
    BY <1>1, <1>2, <1>3, MinIs
<1> QED BY <1>4 DEF A

\* Full-INT has the last fault of S on record with the packet that reveals it.
LEMMA LastRevealed ==
    ASSUME SInv, NEW S \in Static!Placements
    PROVE  LET last == Static!Max({Static!first_crossing(e) : e \in S})
           IN  /\ Static!Max({Static!full_reveal_bytes(e) : e \in S}) + Static!pkt_bytes(last)
                      = Static!bytes_of(1..last)
               /\ Static!crossed(S, 1..last) = S /\ Static!crossed(S, 1..(last - 1)) # S
<1> DEFINE F == {Static!first_crossing(e) : e \in S}
           V == {Static!full_reveal_bytes(e) : e \in S}
           last == Static!Max(F)
<1>0. npk \in Nat
    BY Board
<1>1. S # {} /\ \A e \in S : e \in Static!observable
    BY PlacementFinite
<1>2. F \subseteq 1..npk
    BY <1>1, CrossingIs
<1>3. last \in F /\ \A x \in F : x <= last
    <2>1. PICK k \in F : TRUE
        BY <1>1
    <2>2. F \subseteq 0..npk /\ Static!Max(F) = Max(F)
        BY <1>2, SameMin
    <2> HIDE DEF F
    <2> QED BY <1>0, <2>1, <2>2, MaxIs
<1>4. PICK w \in S : last = Static!first_crossing(w)
    BY <1>3
<1>5. last \in 1..npk /\ last - 1 \in 0..npk /\ last - 1 \in Nat /\ (last - 1) + 1 = last
    BY <1>0, <1>2, <1>3
<1>f. \A e \in S : Static!first_crossing(e) \in 1..npk /\ Static!first_crossing(e) <= last
    BY <1>2, <1>3
<1> HIDE DEF last, F
<1>6. Bytes(last) = Bytes(last - 1) + Static!pkt_bytes(last) /\ Bytes(last - 1) \in Nat
    <2>1. (last - 1) + 1 <= npk
        BY <1>0, <1>5
    <2> QED BY <1>5, <2>1, BytesAdd
<1>7. \A e \in S : Static!full_reveal_bytes(e) = Bytes(Static!first_crossing(e) - 1)
    BY DEF Static!full_reveal_bytes, Bytes
<1>8. \A e \in S : /\ Static!full_reveal_bytes(e) \in Nat
                    /\ Static!full_reveal_bytes(e) <= Bytes(last - 1)
    <2> TAKE e \in S
    <2>1. Static!first_crossing(e) - 1 \in 0..(last - 1)
        BY <1>5, <1>f
    <2>2. Bytes(Static!first_crossing(e) - 1) \in Nat
          /\ Bytes(Static!first_crossing(e) - 1) <= Bytes(last - 1)
        BY <1>5, <2>1, BytesGrow
    <2> QED BY <1>7, <2>2
<1>9. Bytes(last - 1) \in V /\ V \subseteq 0..Bytes(last - 1)
    <2>1. Static!full_reveal_bytes(w) = Bytes(last - 1)
        BY <1>4, <1>7
    <2>2. V \subseteq 0..Bytes(last - 1)
        BY <1>6, <1>8
    <2> QED BY <2>1, <2>2
<1> HIDE DEF V
<1>10. Static!Max(V) = Bytes(last - 1)
    <2>1. Static!Max(V) = Max(V)
        BY SameMin
    <2>2. Max(V) \in V /\ \A x \in V : x <= Max(V)
        BY <1>6, <1>9, MaxIs
    <2>3. Max(V) \in 0..Bytes(last - 1) /\ Bytes(last - 1) <= Max(V)
        BY <1>9, <2>2
    <2> QED BY <1>6, <2>1, <2>3
<1>11. Static!crossed(S, 1..last) = S
    <2>1. \A e \in S : /\ Static!first_crossing(e) \in 1..last
                        /\ e \in pkts[Static!first_crossing(e)].path
        BY <1>1, <1>f, <1>5, CrossingIs
    <2> QED BY <2>1 DEF Static!crossed
<1>12. w \notin Static!crossed(S, 1..(last - 1))
    <2>1. \A i \in 1..(last - 1) : w \notin pkts[i].path
        <3> TAKE i \in 1..(last - 1)
        <3>1. i \in 1..npk /\ ~ (last <= i)
            BY <1>0, <1>5
        <3> QED BY <1>1, <1>4, <3>1, CrossingIs
    <2> QED BY <2>1 DEF Static!crossed
<1>13. Static!Max(V) + Static!pkt_bytes(last) = Static!bytes_of(1..last)
    BY <1>6, <1>10 DEF Bytes
<1> QED BY <1>4, <1>11, <1>12, <1>13 DEF last, F, V

(* Under every budget PoolINT spends no more than it or one packet, finds   *)
(* no fewer faults when it is larger, and the smallest budget from which it *)
(* misses nothing is the first with full recall; Full-INT has the last      *)
(* fault on record one packet after its reveal bytes                        *)
(* (m3b2_pareto.py:132-150).                                                *)
THEOREM BudgetAlwaysKept == StudySpec => []BudgetIsKept
<1> SUFFICES ASSUME SInv PROVE BudgetIsKept
    BY AlwaysSInv, PTL
<1> SUFFICES ASSUME Static!npk > 0 PROVE Static!BudgetIsKept
    BY DEF BudgetIsKept, Static!BudgetIsKept
<1>0. npk > 0 /\ npk \in Nat
    BY Board DEF npk
<1>1. Static!bgrid \subseteq Nat
    <2>1. Static!total_real \in Nat
        <3>1. npk \in 0..npk
            BY <1>0
        <3> QED BY <3>1, BytesGrow DEF Static!total_real, Bytes, npk
    <2> QED BY <2>1, Constants DEF Static!bgrid
<1> SUFFICES ASSUME NEW S \in Static!Placements
             PROVE
        /\ \A B \in Static!bgrid : POOL_BYTES * Static!pool_pkts(B) <= Static!Max({B, POOL_BYTES})
        /\ \A B, C \in Static!bgrid :
              B <= C => Static!pool_found(S, B) \subseteq Static!pool_found(S, C)
        /\ Static!bzero(S) = LET all == {B \in Static!bgrid : Static!pool_found(S, B) = S}
                             IN  IF all = {} THEN -1 ELSE Static!Min(all)
        /\ LET last == Static!Max({Static!first_crossing(e) : e \in S})
           IN  /\ Static!Max({Static!full_reveal_bytes(e) : e \in S}) + Static!pkt_bytes(last)
                      = Static!bytes_of(1..last)
               /\ Static!crossed(S, 1..last) = S /\ Static!crossed(S, 1..(last - 1)) # S
    BY DEF Static!BudgetIsKept
<1>2. \A B \in Static!bgrid : POOL_BYTES * Static!pool_pkts(B) <= Static!Max({B, POOL_BYTES})
    BY <1>0, <1>1, BudgetSpent
<1>3. \A B, C \in Static!bgrid :
          B <= C => /\ Static!pool_found(S, B) \subseteq Static!pool_found(S, C)
                    /\ Static!pool_found(S, C) \subseteq S
    BY <1>0, <1>1, FoundGrows
<1>4. \A B \in Static!bgrid : Static!pool_found(S, B) \subseteq S
    BY <1>1, <1>3
<1>5. {B \in Static!bgrid : \A C \in Static!bgrid : C >= B => S \subseteq Static!pool_found(S, C)}
        = {B \in Static!bgrid : Static!pool_found(S, B) = S}
    <2>1. ASSUME NEW B \in Static!bgrid, Static!pool_found(S, B) = S, NEW C \in Static!bgrid, C >= B
          PROVE  S \subseteq Static!pool_found(S, C)
        <3>1. B <= C
            BY <1>1, <2>1
        <3> QED BY <1>3, <2>1, <3>1
    <2>2. ASSUME NEW B \in Static!bgrid,
                 \A C \in Static!bgrid : C >= B => S \subseteq Static!pool_found(S, C)
          PROVE  Static!pool_found(S, B) = S
        <3>1. B >= B
            BY <1>1
        <3> QED BY <1>4, <2>2, <3>1
    <2> QED BY <2>1, <2>2
<1>6. Static!bzero(S) = LET all == {B \in Static!bgrid : Static!pool_found(S, B) = S}
                        IN  IF all = {} THEN -1 ELSE Static!Min(all)
    BY <1>5, Zenon DEF Static!bzero
<1>7. \A B, C \in Static!bgrid :
          B <= C => Static!pool_found(S, B) \subseteq Static!pool_found(S, C)
    BY <1>3
<1> QED BY <1>2, <1>6, <1>7, LastRevealed

-----------------------------------------------------------------------------
(* The greedy choice against the best one *)

LEMMA PowerIs ==
    ASSUME NEW b \in Nat
    PROVE  /\ Static!power(b)[0] = 1
           /\ \A e \in Nat : /\ Static!power(b)[e] \in Nat
                             /\ Static!power(b)[e + 1] = b * Static!power(b)[e]
<1> DEFINE step == [x \in Nat |-> b * x]
           d == Static!power(b)
           Q(p) == p = [e \in Nat |-> IF e = 0 THEN 1 ELSE b * p[e - 1]]
<1>1. step \in [Nat -> Nat]
    OBVIOUS
<1>2. PICK f \in [Nat -> Nat] : IsRec(1, step, f)
    <2> HIDE DEF step
    <2> QED BY <1>1, RecExists
<1>3. Q(f)
    <2>1. \A i \in Nat : f[i + 1] = b * f[i]
        BY <1>2 DEF IsRec
    <2>2. \A i \in Nat : i # 0 => i - 1 \in Nat /\ (i - 1) + 1 = i
        OBVIOUS
    <2>3. \A i \in Nat : f[i] = IF i = 0 THEN 1 ELSE b * f[i - 1]
        BY <1>2, <2>1, <2>2 DEF IsRec
    <2> QED BY <2>3
<1>4. Q(d)
    <2>1. d = CHOOSE p : Q(p)
        BY DEF Static!power
    <2> HIDE DEF Q, d
    <2> QED BY <1>3, <2>1
<1>5. d[0] = 1 /\ \A i \in Nat : d[i + 1] = b * d[i]
    <2> HIDE DEF d
    <2>1. \A i \in Nat : i + 1 \in Nat /\ i + 1 # 0 /\ (i + 1) - 1 = i
        OBVIOUS
    <2> QED BY <1>4, <2>1
<1> DEFINE T == {i \in Nat : d[i] \in Nat}
<1> HIDE DEF d
<1>6. 0 \in T
    BY <1>5
<1>7. ASSUME NEW i \in Nat, i \in T PROVE i + 1 \in T
    BY <1>5, <1>7
<1>8. \A i \in Nat : i \in T
    <2> HIDE DEF T
    <2> QED BY <1>6, <1>7, NatSetInduction
<1> QED BY <1>5, <1>8 DEF d

\* Seeds that each add at most n pairs to C add together at most n times their number.
LEMMA TogetherAdd ==
    ASSUME SInv, NEW C, NEW n \in Nat, NEW Q, IsFiniteSet(Q),
           \A s \in Q : Cardinality(Static!Dset(s) \ C) <= n
    PROVE  Cardinality(Static!cover(Q) \ C) <= n * Cardinality(Q)
<1> DEFINE New(A) == Static!cover(A) \ C
           G == {A \in SUBSET Q : Cardinality(New(A)) <= n * Cardinality(A)}
<1>f. \A D : D \subseteq Static!universe => IsFiniteSet(D) /\ Cardinality(D) \in Nat
    BY UniverseFinite, FS_Subset, FS_CardinalityType
<1>1. {} \in G
    <2>1. New({}) = {}
        BY DEF Static!cover
    <2>2. Cardinality({}) = 0 /\ {} \in SUBSET Q
        BY FS_EmptySet
    <2>3. n * 0 = 0
        OBVIOUS
    <2> HIDE DEF New
    <2> QED BY <2>1, <2>2, <2>3
<1>2. ASSUME NEW A \in SUBSET Q, NEW s \in Q \ A, A \in G PROVE A \cup {s} \in G
    <2> DEFINE D == Static!Dset(s) \ C
    <2>1. New(A \cup {s}) = New(A) \cup D
        BY DEF Static!cover
    <2>2. New(A) \subseteq Static!universe /\ D \subseteq Static!universe
          /\ New(A) \cap D \subseteq Static!universe
        BY UniverseFinite
    <2>3. Cardinality(D) <= n
        OBVIOUS
    <2>4. Cardinality(New(A)) <= n * Cardinality(A)
        BY <1>2
    <2> HIDE DEF New, D
    <2>5. /\ IsFiniteSet(New(A)) /\ IsFiniteSet(D) /\ Cardinality(New(A)) \in Nat
          /\ Cardinality(D) \in Nat /\ Cardinality(New(A) \cap D) \in Nat
        BY <1>f, <2>2
    <2>6. Cardinality(New(A) \cup D) = Cardinality(New(A)) + Cardinality(D) - Cardinality(New(A) \cap D)
        BY <2>5, FS_Union
    <2>7. IsFiniteSet(A) /\ Cardinality(A) \in Nat
        BY FS_Subset, FS_CardinalityType
    <2>8. Cardinality(A \cup {s}) = Cardinality(A) + 1
        BY <2>7, FS_AddElement
    <2> PICK a \in Nat : a = Cardinality(A)
        BY <2>7
    <2>9. n * (a + 1) = n * a + n /\ n * a \in Nat
        OBVIOUS
    <2>10. Cardinality(New(A) \cup D) <= n * (a + 1)
        BY <2>3, <2>4, <2>5, <2>6, <2>9
    <2>11. Cardinality(New(A \cup {s})) <= n * Cardinality(A \cup {s})
        BY <2>1, <2>8, <2>10
    <2>12. A \cup {s} \in SUBSET Q
        OBVIOUS
    <2> QED BY <2>11, <2>12 DEF New
<1> HIDE DEF G
<1>3. Q \in G
    BY <1>1, <1>2, SubsetInduction
<1> QED BY <1>3 DEF G

\* One turn of the choice takes 1 / R of what the seeds Q still have over it.
LEMMA TurnGains ==
    ASSUME SInv, NEW chosen, Choice(chosen), NEW k \in 0..(R - 1),
           NEW Q, Q \subseteq Static!Seed, Cardinality(Q) = R
    PROVE  LET opt  == Cardinality(Static!cover(Q))
               c(j) == Cardinality(Static!cover(chosen[j]))
           IN  /\ opt \in Nat /\ c(k) \in Nat /\ c(k + 1) \in Nat
               /\ R * (opt - c(k + 1)) <= (R - 1) * (opt - c(k))
<1> DEFINE C == Static!cover(chosen[k])  O == Static!cover(Q)
           b == Static!best(chosen[k])   N == Static!Dset(b) \ C
           gain == Adds(b, chosen[k])
<1>0. R \in Nat /\ R >= 1 /\ k \in 0..R /\ k < R
    BY Constants
<1>f. \A D : D \subseteq Static!universe => IsFiniteSet(D) /\ Cardinality(D) \in Nat
    BY UniverseFinite, FS_Subset, FS_CardinalityType
<1>1. Static!Seed \ chosen[k] # {}
    BY <1>0, ChoiceIsSeeds
<1>2. gain \in Nat /\ gain = Cardinality(N)
    BY AddsNat DEF Adds
<1>3. \A s \in Q : Cardinality(Static!Dset(s) \ C) <= gain
    <2> TAKE s \in Q
    <2>1. CASE s \in chosen[k]
        <3>1. Static!Dset(s) \ C = {}
            BY <2>1 DEF Static!cover
        <3> QED BY <1>2, <3>1, FS_EmptySet
    <2>2. CASE s \notin chosen[k]
        <3>1. Adds(b, chosen[k]) >= Adds(s, chosen[k])
            BY <1>1, <2>2, BestIs
        <3>2. Adds(s, chosen[k]) \in Nat
            BY AddsNat
        <3> QED BY <1>2, <3>1, <3>2 DEF Adds
    <2> QED BY <2>1, <2>2
<1>4. O \subseteq Static!universe /\ C \subseteq Static!universe /\ N \subseteq Static!universe
      /\ O \ C \subseteq Static!universe /\ O \cap C \subseteq Static!universe
      /\ C \cap N = {}
    BY UniverseFinite
<1>5. Static!cover(chosen[k + 1]) = C \cup N
    <2>1. chosen[k + 1] = chosen[k] \cup {b}
        BY DEF Choice
    <2> QED BY <2>1 DEF Static!cover
<1> HIDE DEF C, O, N, gain, b
<1>6. IsFiniteSet(Q)
    BY SeedsFinite, FS_Subset
<1>7. Cardinality(O \ C) <= gain * R
    BY <1>2, <1>3, <1>6, TogetherAdd DEF O
<1>8. /\ IsFiniteSet(O) /\ IsFiniteSet(C) /\ IsFiniteSet(N) /\ Cardinality(O) \in Nat
      /\ Cardinality(C) \in Nat /\ Cardinality(O \cap C) \in Nat /\ Cardinality(O \ C) \in Nat
    BY <1>f, <1>4
<1>9. Cardinality(O \ C) = Cardinality(O) - Cardinality(O \cap C)
    BY <1>8, FS_Difference
<1>10. Cardinality(O \cap C) <= Cardinality(C)
    <2>1. O \cap C \subseteq C
        OBVIOUS
    <2> QED BY <1>8, <2>1, FS_Subset
<1>11. Cardinality(C \cup N) = Cardinality(C) + gain
    <2>1. Cardinality(C \cup N) = Cardinality(C) + Cardinality(N) - Cardinality(C \cap N)
        BY <1>8, FS_Union
    <2>2. Cardinality(C \cap N) = 0
        BY <1>4, FS_EmptySet
    <2> QED BY <1>2, <1>8, <2>1, <2>2
<1> PICK o \in Nat : o = Cardinality(O)
    BY <1>8
<1> PICK x \in Nat : x = Cardinality(C)
    BY <1>8
<1> PICK g \in Nat : g = gain
    BY <1>2
<1>12. o - x <= g * R
    <2> PICK d \in Nat : d = Cardinality(O \ C)
        BY <1>8
    <2>1. d <= g * R
        BY <1>7
    <2>2. o - x <= d
        BY <1>8, <1>9, <1>10
    <2> QED BY <1>0, <2>1, <2>2
<1>13. R * (o - (x + g)) <= (R - 1) * (o - x)
    <2>1. R * (o - (x + g)) = R * (o - x) - g * R
        BY <1>0
    <2>2. (R - 1) * (o - x) = R * (o - x) - (o - x)
        BY <1>0
    <2>3. R * (o - x) \in Int /\ g * R \in Int
        BY <1>0
    <2> QED BY <1>12, <2>1, <2>2, <2>3
<1> QED BY <1>5, <1>11, <1>13 DEF O, C

\* What is still missing after k turns is at most (1 - 1/R)^k of the best.
LEMMA StillMissing ==
    ASSUME SInv, NEW chosen, Choice(chosen), NEW k \in 0..R,
           NEW Q, Q \subseteq Static!Seed, Cardinality(Q) = R
    PROVE  LET opt == Cardinality(Static!cover(Q))
               c   == Cardinality(Static!cover(chosen[k]))
           IN  /\ opt \in Nat /\ c \in Nat
               /\ Static!power(R)[k] * (opt - c) <= Static!power(R - 1)[k] * opt
<1> DEFINE opt == Cardinality(Static!cover(Q))
           c(j) == Cardinality(Static!cover(chosen[j]))
           p(j) == Static!power(R)[j]
           q(j) == Static!power(R - 1)[j]
           T == {j \in Nat : j <= R => p(j) * (opt - c(j)) <= q(j) * opt}
<1>0. R \in Nat /\ R - 1 \in Nat
    BY Constants
<1>1. opt \in Nat /\ \A j : c(j) \in Nat
    BY UniverseFinite, FS_Subset, FS_CardinalityType
<1>2. p(0) = 1 /\ q(0) = 1 /\ \A j \in Nat : /\ p(j) \in Nat /\ p(j + 1) = R * p(j)
                                             /\ q(j) \in Nat /\ q(j + 1) = (R - 1) * q(j)
    BY <1>0, PowerIs
<1>3. \A j \in 0..(R - 1) : R * (opt - c(j + 1)) <= (R - 1) * (opt - c(j))
    BY TurnGains
<1>4. c(0) = 0
    <2>1. Static!cover(chosen[0]) = {}
        BY DEF Choice, Static!cover
    <2> QED BY <2>1, FS_EmptySet
<1> HIDE DEF opt, c, p, q
<1>5. 0 \in T
    BY <1>1, <1>2, <1>4
<1>6. ASSUME NEW j \in Nat, j \in T PROVE j + 1 \in T
    <2> SUFFICES ASSUME j + 1 <= R PROVE p(j + 1) * (opt - c(j + 1)) <= q(j + 1) * opt
        OBVIOUS
    <2>1. p(j) * (opt - c(j)) <= q(j) * opt /\ j \in 0..(R - 1)
        BY <1>0, <1>6
    <2> PICK d \in Int : d = opt - c(j)
        BY <1>1
    <2> PICK e \in Int : e = opt - c(j + 1)
        BY <1>1
    <2> PICK P \in Nat : P = p(j)
        BY <1>2
    <2> PICK U \in Nat : U = q(j) * opt
        BY <1>1, <1>2
    <2> PICK r \in Nat : r = R - 1
        BY <1>0
    <2>2. R * e \in Int /\ r * d \in Int /\ R * e <= r * d
        BY <1>0, <1>3, <2>1
    <2>3. P * (R * e) <= P * (r * d)
        BY <2>2, TimesGrows
    <2>4. P * d \in Int /\ P * d <= U
        BY <2>1
    <2>5. r * (P * d) <= r * U
        BY <2>4, TimesGrows
    <2>6. P * (R * e) = (R * P) * e /\ P * (r * d) = r * (P * d)
        BY <1>0
    <2>7. (R * P) * e <= r * U
        BY <1>0, <2>3, <2>5, <2>6
    <2>8. r * U = (r * q(j)) * opt
        BY <1>1, <1>2
    <2> QED BY <1>2, <2>7, <2>8
<1> HIDE DEF T
<1>7. k \in Nat /\ k \in T
    BY <1>0, <1>5, <1>6, NatSetInduction
<1>8. k <= R /\ p(k) * (opt - c(k)) <= q(k) * opt
    BY <1>0, <1>7 DEF T
<1> QED BY <1>1, <1>8 DEF opt, c, p, q

(* The greedy choice of R seeds distinguishes at least the fraction         *)
(* 1 - (1 - 1/R)^R of what any R seeds do, on every board and whatever the  *)
(* hash makes members (m3seed.py:13-15).                                    *)
THEOREM GreedyAlwaysNearBest == StudySpec => []GreedyNearBest
<1> SUFFICES ASSUME SInv PROVE Static!GreedyNearBest
    BY AlwaysSInv, PTL DEF GreedyNearBest
<1>0. R \in Nat /\ R - 1 \in Nat /\ R \in 0..R
    BY Constants
<1>1. Static!cover(Static!opt_seeds) \subseteq Static!universe
    BY UniverseFinite
<1>2. ASSUME NEW Q \in Static!kSubset(R, Static!Seed)
      PROVE  Static!power(R)[R] * Cardinality(Static!cover(Static!opt_seeds))
                 >= (Static!power(R)[R] - Static!power(R - 1)[R]) * Cardinality(Static!cover(Q))
    <2>1. Q \subseteq Static!Seed /\ Cardinality(Q) = R
        BY SameCardinality DEF Static!kSubset
    <2>2. PICK chosen : Choice(chosen)
        BY ChoiceExists
    <2> DEFINE o == Cardinality(Static!cover(Q))
               c == Cardinality(Static!cover(chosen[R]))
               p == Static!power(R)[R]
               q == Static!power(R - 1)[R]
    <2>3. chosen[R] = Static!opt_seeds
        BY <2>2 DEF Choice
    <2>4. o \in Nat /\ c \in Nat /\ p * (o - c) <= q * o
        BY <1>0, <2>1, <2>2, StillMissing
    <2>5. p \in Nat /\ q \in Nat
        BY <1>0, PowerIs
    <2> HIDE DEF o, c, p, q
    <2>6. p * (o - c) = p * o - p * c /\ (p - q) * o = p * o - q * o
          /\ p * o \in Int /\ p * c \in Int /\ q * o \in Int
        BY <2>4, <2>5
    <2>7. p * c >= (p - q) * o
        BY <2>4, <2>6
    <2> QED BY <2>3, <2>7 DEF o, c, p, q
<1> QED BY <1>1, <1>2, SameCardinality DEF Static!GreedyNearBest
=============================================================================
