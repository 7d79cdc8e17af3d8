----------------------------- MODULE DataProofs -----------------------------
(***************************************************************************)
(* Facts about the data the models are built from, for the other proofs to *)
(* cite: induction over finite sets and numbers, sums over finite sets,    *)
(* and what COMP and DD guarantee for every set of tests that are pooled   *)
(* tests of one defective set, whichever and however many of them arrive.  *)
(***************************************************************************)
EXTENDS Integers, Functions, GroupTest, FiniteSetTheorems, WellFoundedInduction, TLAPS

-----------------------------------------------------------------------------
(* Induction, for properties given as sets: tlapm cannot instantiate the   *)
(* library's induction theorems, whose property is an operator             *)

\* A collection that holds the empty set and is closed under adding an
\* element of S holds the finite set S.
LEMMA SubsetInduction ==
    ASSUME NEW S, IsFiniteSet(S), NEW G, {} \in G,
           \A A \in SUBSET S : \A x \in S \ A : A \in G => A \cup {x} \in G
    PROVE  S \in G
<1> SUFFICES ASSUME S \notin G PROVE FALSE
    OBVIOUS
<1> DEFINE Bad == {A \in SUBSET S : A \notin G}
<1>1. Bad # {} /\ Bad \subseteq FiniteSubsetsOf(S)
    BY FS_FiniteSubsetsOfFinite
<1>2. IsWellFoundedOn(StrictSubsetOrdering(S), FiniteSubsetsOf(S))
    BY FS_StrictSubsetOrderingWellFounded
<1> HIDE DEF Bad
<1>3. PICK A \in Bad : \A B \in Bad : ~ (<<B, A>> \in StrictSubsetOrdering(S))
    BY <1>1, <1>2, WFMin
<1>4. A \in SUBSET S /\ A \notin G
    BY DEF Bad
<1>5. PICK x \in A : TRUE
    BY <1>4
<1>6. A \ {x} \in SUBSET S /\ A \ {x} # A /\ A = (A \ {x}) \cup {x} /\ x \in S \ (A \ {x})
    BY <1>4, <1>5
<1>7. A \ {x} \notin G
    BY <1>4, <1>6
<1>8. A \ {x} \in Bad
    BY <1>6, <1>7 DEF Bad
<1>9. <<A \ {x}, A>> \in StrictSubsetOrdering(S)
    BY <1>4, <1>6 DEF StrictSubsetOrdering
<1> QED BY <1>3, <1>8, <1>9

\* Induction over the numbers, for a property given as a set.
LEMMA NatSetInduction ==
    ASSUME NEW T, 0 \in T, \A n \in Nat : n \in T => n + 1 \in T
    PROVE  \A n \in Nat : n \in T
<1> TAKE n \in Nat
<1> DEFINE S == 1..n
           G == {A \in SUBSET S : Cardinality(A) \in T}
<1>1. IsFiniteSet(S) /\ Cardinality(S) = n
    BY FS_Interval
<1>2. {} \in G
    BY FS_EmptySet
<1>3. ASSUME NEW A \in SUBSET S, NEW x \in S \ A, A \in G PROVE A \cup {x} \in G
    <2>1. IsFiniteSet(A) /\ Cardinality(A) \in Nat
        BY <1>1, FS_Subset, FS_CardinalityType
    <2>2. Cardinality(A \cup {x}) = Cardinality(A) + 1
        BY <2>1, FS_AddElement
    <2> QED BY <1>3, <2>1, <2>2
<1> HIDE DEF G, S
<1>4. S \in G
    BY <1>1, <1>2, <1>3, SubsetInduction
<1> QED BY <1>1, <1>4 DEF G

\* A set that holds a number holds a least one.
LEMMA LeastNat ==
    ASSUME NEW T, NEW k \in Nat, k \in T
    PROVE  \E n \in Nat : n \in T /\ \A m \in Nat : m < n => m \notin T
<1> SUFFICES ASSUME \A n \in Nat : n \in T => \E m \in Nat : m < n /\ m \in T PROVE FALSE
    OBVIOUS
<1> DEFINE U == {n \in Nat : \A m \in Nat : m <= n => m \notin T}
<1>1. 0 \in U
    OBVIOUS
<1>2. ASSUME NEW n \in Nat, n \in U PROVE n + 1 \in U
    <2>1. \A m \in Nat : m < n + 1 => m \notin T
        BY <1>2
    <2> QED BY <2>1
<1> HIDE DEF U
<1>3. k \in U
    BY <1>1, <1>2, NatSetInduction
<1> QED BY <1>3 DEF U

LEMMA TimesGrows ==
    ASSUME NEW a \in Nat, NEW x \in Int, NEW y \in Int, x <= y
    PROVE  a * x <= a * y
<1>1. PICK h \in Nat : y = x + h
    <2>1. y - x \in Nat /\ y = x + (y - x)
        OBVIOUS
    <2> QED BY <2>1
<1>2. a * y = a * x + a * h /\ a * h \in Nat /\ a * x \in Int
    BY <1>1
<1> QED BY <1>2

\* The union of what f lists up to m.
LEMMA UnionFinite ==
    ASSUME NEW m \in Nat, NEW f, \A i \in 1..m : IsFiniteSet(f[i])
    PROVE  IsFiniteSet(UNION {f[i] : i \in 1..m})
<1> DEFINE U(k) == UNION {f[i] : i \in 1..k}
           T == {k \in Nat : k <= m => IsFiniteSet(U(k))}
<1>1. 0 \in T
    <2>1. U(0) = {}
        OBVIOUS
    <2> QED BY <2>1, FS_EmptySet
<1>2. ASSUME NEW k \in Nat, k \in T PROVE k + 1 \in T
    <2> SUFFICES ASSUME k + 1 <= m PROVE IsFiniteSet(U(k + 1))
        OBVIOUS
    <2>1. U(k + 1) = U(k) \cup f[k + 1]
        OBVIOUS
    <2>2. IsFiniteSet(U(k)) /\ IsFiniteSet(f[k + 1])
        BY <1>2
    <2> DEFINE A == U(k)  B == f[k + 1]
    <2> HIDE DEF A, B
    <2>3. IsFiniteSet(A) /\ IsFiniteSet(B)
        BY <2>2 DEF A, B
    <2>4. IsFiniteSet(A \cup B)
        BY <2>3, FS_Union
    <2> HIDE DEF U
    <2> QED BY <2>1, <2>4 DEF A, B
<1> HIDE DEF T
<1>3. m \in T
    BY <1>1, <1>2, NatSetInduction
<1> QED BY <1>3 DEF T

-----------------------------------------------------------------------------
(* Sums over finite sets *)

\* The recursion by which SumFunctionOnSet folds f over S.
AnyOf(s) == CHOOSE x \in s : TRUE
SumStep(f, g, s) == IF s = {} THEN 0 ELSE f[AnyOf(s)] + g[s \ {AnyOf(s)}]
IsSum(f, S, g) == g = [s \in SUBSET S |-> SumStep(f, g, s)]

LEMMA SumIs == 
    ASSUME NEW f, NEW S
    PROVE  SumFunctionOnSet(f, S) = (CHOOSE g : IsSum(f, S, g))[S]
BY DEF SumFunctionOnSet, FoldFunctionOnSet, MapThenFoldSet, IsSum, SumStep, AnyOf

\* There is a function that satisfies the recursion: it is built layer by
\* layer, over the subsets of at most n elements.
LEMMA SumExists ==
    ASSUME NEW f, NEW S, IsFiniteSet(S)
    PROVE  \E g : IsSum(f, S, g)
<1> DEFINE Sub(n) == {s \in SUBSET S : Cardinality(s) <= n}
           Ok(n) == \E g : g = [s \in Sub(n) |-> SumStep(f, g, s)]
           T == {n \in Nat : Ok(n)}
<1>1. \A s \in SUBSET S : IsFiniteSet(s) /\ Cardinality(s) \in Nat /\ Cardinality(s) <= Cardinality(S)
    BY FS_Subset, FS_CardinalityType
<1>2. 0 \in T
    <2>1. \A s \in Sub(0) : s = {}
        BY <1>1, FS_EmptySet
    <2> DEFINE g == [s \in Sub(0) |-> 0]
    <2>2. g = [s \in Sub(0) |-> SumStep(f, g, s)]
        BY <2>1 DEF SumStep
    <2> QED BY <2>2
<1>3. ASSUME NEW n \in Nat, n \in T PROVE n + 1 \in T
    <2>1. PICK g : g = [s \in Sub(n) |-> SumStep(f, g, s)]
        BY <1>3
    <2>h. PICK h : h = [s \in Sub(n + 1) |-> SumStep(f, g, s)]
        OBVIOUS
    <2>2. \A s \in Sub(n) : s \in Sub(n + 1)
        BY <1>1
    <2>3. \A s \in Sub(n + 1) : s # {} => s \ {AnyOf(s)} \in Sub(n)
        <3> TAKE s \in Sub(n + 1)
        <3> HAVE s # {}
        <3>1. AnyOf(s) \in s
            BY DEF AnyOf
        <3>2. Cardinality(s \ {AnyOf(s)}) = Cardinality(s) - 1
            BY <1>1, <3>1, FS_RemoveElement
        <3> QED BY <1>1, <3>2
    <2> HIDE DEF Sub
    <2>4. \A s \in Sub(n) : h[s] = g[s]
        BY <2>1, <2>2, <2>h
    <2>5. \A s \in Sub(n + 1) : SumStep(f, h, s) = SumStep(f, g, s)
        BY <2>3, <2>4 DEF SumStep
    <2>6. h = [s \in Sub(n + 1) |-> SumStep(f, h, s)]
        BY <2>5, <2>h
    <2>7. Ok(n + 1)
        BY <2>6
    <2> HIDE DEF Ok
    <2> QED BY <2>7
<1> HIDE DEF T
<1>4. Cardinality(S) \in T
    BY <1>1, <1>2, <1>3, NatSetInduction
<1>5. Sub(Cardinality(S)) = SUBSET S
    BY <1>1
<1> QED BY <1>4, <1>5 DEF T, IsSum

\* The recursion a sum is defined by determines its values.
LEMMA SumAgree ==
    ASSUME NEW f, NEW S, NEW T, IsFiniteSet(S), S \subseteq T,
           NEW g, NEW h, IsSum(f, S, g), IsSum(f, T, h)
    PROVE  g[S] = h[S]
<1> DEFINE Eq(n) == \A s \in SUBSET S : Cardinality(s) = n => g[s] = h[s]
           Good == {n \in Nat : Eq(n)}
<1>1. \A s \in SUBSET S : /\ IsFiniteSet(s) /\ Cardinality(s) \in Nat
                          /\ g[s] = SumStep(f, g, s) /\ h[s] = SumStep(f, h, s)
    BY FS_Subset, FS_CardinalityType DEF IsSum
<1>2. 0 \in Good
    <2>1. ASSUME NEW s \in SUBSET S, Cardinality(s) = 0 PROVE g[s] = h[s]
        BY <1>1, <2>1, FS_EmptySet DEF SumStep
    <2> QED BY <2>1
<1>3. ASSUME NEW n \in Nat, n \in Good PROVE n + 1 \in Good
    <2>1. ASSUME NEW s \in SUBSET S, Cardinality(s) = n + 1 PROVE g[s] = h[s]
        <3>1. s # {}
            BY <2>1, FS_EmptySet
        <3>2. AnyOf(s) \in s
            BY <3>1 DEF AnyOf
        <3>3. Cardinality(s \ {AnyOf(s)}) = n
            BY <1>1, <2>1, <3>2, FS_RemoveElement
        <3>4. g[s \ {AnyOf(s)}] = h[s \ {AnyOf(s)}]
            BY <1>3, <3>3
        <3> QED BY <1>1, <3>1, <3>4 DEF SumStep
    <2> QED BY <2>1
<1> HIDE DEF Good
<1>4. Cardinality(S) \in Good
    BY <1>1, <1>2, <1>3, NatSetInduction
<1> QED BY <1>4 DEF Good

LEMMA SumUnfold ==
    ASSUME NEW f, NEW S, IsFiniteSet(S), S # {}
    PROVE  /\ AnyOf(S) \in S
           /\ SumFunctionOnSet(f, S) = f[AnyOf(S)] + SumFunctionOnSet(f, S \ {AnyOf(S)})
<1> DEFINE T == S \ {AnyOf(S)}
           g == CHOOSE g : IsSum(f, S, g)
           h == CHOOSE h : IsSum(f, T, h)
<1>1. AnyOf(S) \in S
    BY DEF AnyOf
<1>2. IsFiniteSet(T) /\ T \subseteq S
    BY FS_Subset
<1>3. IsSum(f, S, g) /\ IsSum(f, T, h)
    BY <1>2, SumExists
<1>4. SumFunctionOnSet(f, S) = g[S] /\ SumFunctionOnSet(f, T) = h[T]
    BY SumIs
<1> HIDE DEF g, h
<1>5. h[T] = g[T]
    BY <1>2, <1>3, SumAgree
<1>6. g[S] = SumStep(f, g, S)
    BY <1>3 DEF IsSum
<1> QED BY <1>1, <1>4, <1>5, <1>6 DEF SumStep

LEMMA SumEmpty ==
    ASSUME NEW f
    PROVE  SumFunctionOnSet(f, {}) = 0
<1> DEFINE g == CHOOSE g : IsSum(f, {}, g)
<1>1. IsSum(f, {}, g)
    BY FS_EmptySet, SumExists
<1>2. SumFunctionOnSet(f, {}) = g[{}]
    BY SumIs
<1> HIDE DEF g
<1>3. g[{}] = SumStep(f, g, {})
    BY <1>1 DEF IsSum
<1> QED BY <1>2, <1>3 DEF SumStep

LEMMA SumNat ==
    ASSUME NEW f, NEW S, IsFiniteSet(S), \A x \in S : f[x] \in Nat
    PROVE  SumFunctionOnSet(f, S) \in Nat
<1> DEFINE Good(n) == \A s \in SUBSET S : Cardinality(s) = n => SumFunctionOnSet(f, s) \in Nat
           T == {n \in Nat : Good(n)}
<1>1. \A s \in SUBSET S : IsFiniteSet(s) /\ Cardinality(s) \in Nat
    BY FS_Subset, FS_CardinalityType
<1>2. 0 \in T
    BY <1>1, FS_EmptySet, SumEmpty
<1>3. ASSUME NEW n \in Nat, n \in T PROVE n + 1 \in T
    <2>1. ASSUME NEW s \in SUBSET S, Cardinality(s) = n + 1 PROVE SumFunctionOnSet(f, s) \in Nat
        <3>1. s # {}
            BY <2>1, FS_EmptySet
        <3>2. AnyOf(s) \in s /\ SumFunctionOnSet(f, s) = f[AnyOf(s)] + SumFunctionOnSet(f, s \ {AnyOf(s)})
            BY <1>1, <3>1, SumUnfold
        <3>3. Cardinality(s \ {AnyOf(s)}) = n
            BY <1>1, <2>1, <3>2, FS_RemoveElement
        <3>4. SumFunctionOnSet(f, s \ {AnyOf(s)}) \in Nat
            BY <1>3, <3>3
        <3> QED BY <3>2, <3>4
    <2> QED BY <2>1
<1> HIDE DEF T
<1>4. Cardinality(S) \in T
    BY <1>1, <1>2, <1>3, NatSetInduction
<1> QED BY <1>4 DEF T

\* AnyOf element may be summed first.
LEMMA SumRemove ==
    ASSUME NEW f, NEW S, IsFiniteSet(S), \A x \in S : f[x] \in Nat, NEW a \in S
    PROVE  SumFunctionOnSet(f, S) = f[a] + SumFunctionOnSet(f, S \ {a})
<1> DEFINE Sum(s) == SumFunctionOnSet(f, s)
           Good(n) == \A s \in SUBSET S : Cardinality(s) = n =>
                         \A x \in s : Sum(s) = f[x] + Sum(s \ {x})
           T == {n \in Nat : Good(n)}
<1>1. \A s \in SUBSET S : IsFiniteSet(s) /\ Cardinality(s) \in Nat
    BY FS_Subset, FS_CardinalityType
<1>2. 0 \in T
    BY <1>1, FS_EmptySet
<1>s. \A s \in SUBSET S : Sum(s) \in Nat
    <2> TAKE s \in SUBSET S
    <2> QED BY <1>1, SumNat
<1>u. \A s \in SUBSET S : s # {} => AnyOf(s) \in s /\ Sum(s) = f[AnyOf(s)] + Sum(s \ {AnyOf(s)})
    BY <1>1, SumUnfold
<1> HIDE DEF Sum
<1>3. ASSUME NEW n \in Nat, n \in T PROVE n + 1 \in T
    <2>1. ASSUME NEW s \in SUBSET S, Cardinality(s) = n + 1, NEW x \in s
          PROVE  Sum(s) = f[x] + Sum(s \ {x})
        <3> DEFINE y == AnyOf(s)
                   t == s \ {x, y}
        <3>1. y \in s /\ Sum(s) = f[y] + Sum(s \ {y})
            BY <1>u
        <3> HIDE DEF y
        <3>2. CASE y = x
            BY <3>1, <3>2
        <3>3. CASE y # x
            <4>1. Cardinality(s \ {x}) = n /\ Cardinality(s \ {y}) = n
                BY <1>1, <2>1, <3>1, FS_RemoveElement
            <4>2. y \in s \ {x} /\ x \in s \ {y} /\ (s \ {x}) \ {y} = t /\ (s \ {y}) \ {x} = t
                BY <3>1, <3>3
            <4>3. Sum(s \ {x}) = f[y] + Sum((s \ {x}) \ {y})
                BY <1>3, <4>1, <4>2
            <4>4. Sum(s \ {y}) = f[x] + Sum((s \ {y}) \ {x})
                BY <1>3, <4>1, <4>2
            <4>5. f[x] \in Nat /\ f[y] \in Nat /\ Sum(t) \in Nat
                BY <1>s, <3>1
            <4> QED BY <3>1, <4>2, <4>3, <4>4, <4>5
        <3> QED BY <3>2, <3>3
    <2> QED BY <2>1
<1> HIDE DEF T
<1>4. Cardinality(S) \in T
    BY <1>1, <1>2, <1>3, NatSetInduction
<1>5. Good(Cardinality(S))
    BY <1>4 DEF T
<1>6. Sum(S) = f[a] + Sum(S \ {a})
    BY <1>5
<1> QED BY <1>6 DEF Sum

LEMMA SumAdd ==
    ASSUME NEW f, NEW S, IsFiniteSet(S), NEW a, a \notin S, \A x \in S \cup {a} : f[x] \in Nat
    PROVE  SumFunctionOnSet(f, S \cup {a}) = SumFunctionOnSet(f, S) + f[a]
<1>1. IsFiniteSet(S \cup {a})
    BY FS_AddElement
<1>2. (S \cup {a}) \ {a} = S /\ a \in S \cup {a}
    OBVIOUS
<1>3. SumFunctionOnSet(f, S \cup {a}) = f[a] + SumFunctionOnSet(f, S)
    BY <1>1, <1>2, SumRemove
<1>4. SumFunctionOnSet(f, S) \in Nat /\ f[a] \in Nat
    BY SumNat
<1> QED BY <1>3, <1>4

\* A sum depends on the values at its set only.
LEMMA SumSame ==
    ASSUME NEW f, NEW g, NEW S, IsFiniteSet(S), \A x \in S : f[x] = g[x]
    PROVE  SumFunctionOnSet(f, S) = SumFunctionOnSet(g, S)
<1> DEFINE Eq(s) == SumFunctionOnSet(f, s) = SumFunctionOnSet(g, s)
           Good(n) == \A s \in SUBSET S : Cardinality(s) = n => Eq(s)
           T == {n \in Nat : Good(n)}
<1>1. \A s \in SUBSET S : IsFiniteSet(s) /\ Cardinality(s) \in Nat
    BY FS_Subset, FS_CardinalityType
<1>2. 0 \in T
    BY <1>1, FS_EmptySet, SumEmpty
<1>3. ASSUME NEW n \in Nat, n \in T PROVE n + 1 \in T
    <2>1. ASSUME NEW s \in SUBSET S, Cardinality(s) = n + 1 PROVE Eq(s)
        <3>1. s # {}
            BY <2>1, FS_EmptySet
        <3>2. /\ AnyOf(s) \in s
              /\ SumFunctionOnSet(f, s) = f[AnyOf(s)] + SumFunctionOnSet(f, s \ {AnyOf(s)})
              /\ SumFunctionOnSet(g, s) = g[AnyOf(s)] + SumFunctionOnSet(g, s \ {AnyOf(s)})
            BY <1>1, <3>1, SumUnfold
        <3>3. Cardinality(s \ {AnyOf(s)}) = n
            BY <1>1, <2>1, <3>2, FS_RemoveElement
        <3>4. Eq(s \ {AnyOf(s)})
            BY <1>3, <3>3
        <3>5. f[AnyOf(s)] = g[AnyOf(s)]
            BY <3>2
        <3> QED BY <3>2, <3>4, <3>5
    <2> QED BY <2>1
<1> HIDE DEF T
<1>4. Cardinality(S) \in T
    BY <1>1, <1>2, <1>3, NatSetInduction
<1> QED BY <1>4 DEF T

-----------------------------------------------------------------------------
(* COMP and DD *)

(* COMP never clears a defective port: every defective column stays suspect *)
(* (poolint_collector.py:99-102).                                           *)
THEOREM SuspectsComplete ==
    ASSUME NEW T, NEW F, Consistent(T, F)
    PROVE  F \cap Columns(T) \subseteq Suspects(T)
  BY DEF Consistent, Columns, Suspects, Cleared, Pooled

(* DD never blames a healthy port: a positive test holds a defective port,  *)
(* which is a suspect, so a sole suspect is that port                       *)
(* (poolint_collector.py:103-108).                                          *)
THEOREM DefiniteSound ==
    ASSUME NEW T, NEW F, Consistent(T, F)
    PROVE  Definite(T) \subseteq F
<1> SUFFICES ASSUME NEW p \in Definite(T) PROVE p \in F
    OBVIOUS
<1>1. PICK t \in T : t.y = 1 /\ t.mem \cap Suspects(T) = {p}
    BY DEF Definite
<1>2. PICK f \in t.mem : f \in F
    BY <1>1 DEF Consistent, Pooled
<1>3. f \in Suspects(T)
    BY <1>2, SuspectsComplete DEF Columns
<1> QED BY <1>1, <1>2, <1>3

(* A port DD has named stays named when more tests arrive: new tests can    *)
(* only clear other suspects of the test that names it (m3a_prefix.py's     *)
(* search for the number of tests from which F1 stays high).                *)
THEOREM DefiniteMonotone ==
    ASSUME NEW T, NEW U, NEW F, T \subseteq U, Consistent(U, F)
    PROVE  Definite(T) \subseteq Definite(U)
<1> SUFFICES ASSUME NEW p \in Definite(T) PROVE p \in Definite(U)
    OBVIOUS
<1>1. PICK t \in T : t.y = 1 /\ t.mem \cap Suspects(T) = {p}
    BY DEF Definite
<1>2. p \in F
    <2>1. Consistent(T, F)
        BY DEF Consistent
    <2> QED BY <2>1, DefiniteSound
<1>3. p \in Suspects(U)
    BY <1>1, <1>2, SuspectsComplete DEF Columns
<1>4. t.mem \cap Suspects(U) \subseteq t.mem \cap Suspects(T)
    BY DEF Suspects, Columns, Cleared
<1> QED BY <1>1, <1>3, <1>4 DEF Definite

(* A port that is in the same tests as another one is never named, faulty   *)
(* or not: what "target_in_indist" of m3a_prefix.py:157-167 reports.        *)
THEOREM TwinsNotDefinite ==
    ASSUME NEW T, NEW p, NEW q, p # q, \A t \in T : p \in t.mem <=> q \in t.mem
    PROVE  p \notin Definite(T)
<1> SUFFICES ASSUME p \in Definite(T) PROVE FALSE
    OBVIOUS
<1>1. PICK t \in T : t.mem \cap Suspects(T) = {p}
    BY DEF Definite
<1>2. q \in Columns(T)
    BY <1>1 DEF Columns
<1>3. q \notin Cleared(T)
    BY <1>1 DEF Suspects, Cleared
<1>4. q \in t.mem \cap Suspects(T)
    BY <1>1, <1>2, <1>3 DEF Suspects
<1> QED BY <1>1, <1>4
=============================================================================
