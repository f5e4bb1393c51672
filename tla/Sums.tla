-------------------------------- MODULE Sums --------------------------------
(***************************************************************************)
(* What the proofs need to know of SumFunction and SumFunctionOnSet: their  *)
(* values are naturals, an element may be taken out, a value changed, the   *)
(* set split or moved along.  The sum is a fold over a set; each lemma is   *)
(* proved from a smallest subset for which it would fail.                   *)
(***************************************************************************)
EXTENDS Functions, FiniteSetTheorems, WellFoundedInduction, TLAPS

\* The element of a set that the fold takes first, and the table it computes: the sum over
\* every subset of S.
Pick(s) == CHOOSE x \in s : TRUE

Iterates(g, f, S) ==
    g = [s \in SUBSET S |-> IF s = {} THEN 0 ELSE f[Pick(s)] + g[s \ {Pick(s)}]]

\* A nonempty set of naturals has a least element.
LEMMA Least ==
    ASSUME NEW T \in SUBSET Nat, T # {}
    PROVE  \E n \in T : \A m \in T : n <= m
<1>1. IsWellFoundedOn({ss \in Nat \X Nat : ss[1] < ss[2]}, Nat)
    BY NatLessThanWellFounded DEF OpToRel
<1>2. PICK n \in T : \A m \in T : <<m, n>> \notin {ss \in Nat \X Nat : ss[1] < ss[2]}
    BY <1>1, WFMin
<1>3. ASSUME NEW m \in T, m < n PROVE FALSE
    <2> DEFINE pair == <<m, n>>
    <2>1. pair \in Nat \X Nat /\ pair[1] = m /\ pair[2] = n
        OBVIOUS
    <2>2. pair \in {ss \in Nat \X Nat : ss[1] < ss[2]}
        BY <1>3, <2>1, Zenon
    <2> QED
        BY <1>2, <2>2
<1> QED
    BY <1>3

\* A nonempty family of subsets of a finite set has a member none of whose proper subsets is one.
LEMMA Smallest ==
    ASSUME NEW S, IsFiniteSet(S), NEW B \in SUBSET (SUBSET S), B # {}
    PROVE  \E s \in B : \A t \in B : ~ (t \subseteq s /\ t # s)
<1> DEFINE sizes == {Cardinality(s) : s \in B}
<1>1. \A s \in B : IsFiniteSet(s) /\ Cardinality(s) \in Nat
    BY FS_Subset, FS_CardinalityType
<1>2. PICK n \in sizes : \A m \in sizes : n <= m
    <2>1. sizes \in SUBSET Nat /\ sizes # {}
        BY <1>1
    <2> QED
        BY <2>1, Least
<1>3. PICK s \in B : Cardinality(s) = n
    BY <1>2
<1>4. ASSUME NEW t \in B, t \subseteq s, t # s PROVE FALSE
    <2>1. Cardinality(t) <= Cardinality(s) /\ Cardinality(t) # Cardinality(s)
        BY <1>1, <1>4, FS_Subset
    <2> QED
        BY <2>1, <1>1, <1>2, <1>3
<1> QED
    BY <1>4

\* The element taken first is one of the set.
LEMMA Picked ==
    ASSUME NEW S, S # {}
    PROVE  Pick(S) \in S
BY DEF Pick

\* The table exists: it is built up by the size of the subsets.
LEMMA IteratesExists ==
    ASSUME NEW f, NEW S, IsFiniteSet(S)
    PROVE  \E g : Iterates(g, f, S)
<1> DEFINE Level(n) == {s \in SUBSET S : Cardinality(s) <= n}
           Value(g, s) == IF s = {} THEN 0 ELSE f[Pick(s)] + g[s \ {Pick(s)}]
           Good(n) == \E g : g = [s \in Level(n) |-> Value(g, s)]
           Bad == {n \in Nat : ~Good(n)}
<1>1. \A s \in SUBSET S : IsFiniteSet(s) /\ Cardinality(s) \in Nat /\ (Cardinality(s) = 0 <=> s = {})
    BY FS_Subset, FS_CardinalityType, FS_EmptySet
<1>2. Good(0)
    <2>1. \A s \in Level(0) : s = {}
        BY <1>1
    <2> DEFINE g == [s \in Level(0) |-> 0]
    <2>2. g = [s \in Level(0) |-> Value(g, s)]
        BY <2>1
    <2> HIDE DEF g, Level, Value
    <2> QED
        BY <2>2
<1>3. ASSUME NEW n \in Nat \ {0}, Good(n - 1) PROVE Good(n)
    <2>1. PICK g : g = [s \in Level(n - 1) |-> Value(g, s)]
        BY <1>3
    <2> DEFINE h == [s \in Level(n) |-> Value(g, s)]
    <2>2. ASSUME NEW s \in Level(n), s # {} PROVE s \ {Pick(s)} \in Level(n - 1)
        <3>1. Pick(s) \in s
            BY <2>2, Picked
        <3>2. Cardinality(s \ {Pick(s)}) = Cardinality(s) - 1
            BY <3>1, <1>1, FS_RemoveElement
        <3> QED
            BY <3>2, <1>1
    <2>3. Level(n - 1) \subseteq Level(n)
        BY <1>1
    <2>4. \A s \in Level(n - 1) : g[s] = Value(g, s)
        <3> HIDE DEF Value, Level
        <3> QED
            BY <2>1
    <2>5. \A s \in Level(n - 1) : h[s] = g[s]
        <3> HIDE DEF Value, Level
        <3> QED
            BY <2>3, <2>4
    <2>6. \A s \in Level(n) : Value(h, s) = Value(g, s)
        <3> HIDE DEF Level, h
        <3> QED
            BY <2>2, <2>5
    <2>7. h = [s \in Level(n) |-> Value(h, s)]
        BY <2>6
    <2> HIDE DEF h, Level, Value
    <2> QED
        BY <2>7
<1>4. Bad = {}
    <2> SUFFICES ASSUME Bad # {} PROVE FALSE
        OBVIOUS
    <2>1. PICK n \in Bad : \A m \in Bad : n <= m
        <3> HIDE DEF Good
        <3> QED
            BY Least
    <2>2. n \in Nat /\ ~Good(n)
        OBVIOUS
    <2> HIDE DEF Good
    <2>3. n # 0
        BY <1>2, <2>2
    <2>4. n - 1 \in Nat /\ n - 1 \notin Bad
        BY <2>1, <2>2, <2>3
    <2> QED
        BY <1>3, <2>2, <2>3, <2>4
<1>5. PICK g : g = [s \in Level(Cardinality(S)) |-> Value(g, s)]
    <2>1. Cardinality(S) \in Nat
        BY FS_CardinalityType
    <2>2. Good(Cardinality(S))
        <3> HIDE DEF Good
        <3> QED
            BY <2>1, <1>4
    <2> QED
        BY <2>2
<1>6. Level(Cardinality(S)) = SUBSET S
    BY FS_Subset
<1> QED
    BY <1>5, <1>6 DEF Iterates

\* The sum is read off that table.
LEMMA SumIterates ==
    ASSUME NEW f, NEW S, IsFiniteSet(S)
    PROVE  \E g : Iterates(g, f, S) /\ SumFunctionOnSet(f, S) = g[S]
<1>1. SumFunctionOnSet(f, S) = (CHOOSE g : Iterates(g, f, S))[S]
    BY Zenon DEF SumFunctionOnSet, FoldFunctionOnSet, MapThenFoldSet, Iterates, Pick
<1>2. Iterates(CHOOSE g : Iterates(g, f, S), f, S)
    BY IteratesExists
<1> QED
    BY <1>1, <1>2

\* The tables of two sums over f agree where both are defined.
LEMMA IteratesAgree ==
    ASSUME NEW f, NEW S, IsFiniteSet(S), NEW T, NEW g, NEW h,
           Iterates(g, f, S), Iterates(h, f, T), T \subseteq S
    PROVE  \A s \in SUBSET T : g[s] = h[s]
<1> DEFINE Differ == {s \in SUBSET T : g[s] # h[s]}
<1> SUFFICES ASSUME Differ # {} PROVE FALSE
    OBVIOUS
<1>1. PICK s \in Differ : \A t \in Differ : ~ (t \subseteq s /\ t # s)
    <2>1. IsFiniteSet(T) /\ Differ \in SUBSET (SUBSET T)
        BY FS_Subset
    <2> HIDE DEF Differ
    <2> QED
        BY <2>1, Smallest
<1>2. s \in SUBSET T /\ s \in SUBSET S /\ g[s] # h[s]
    OBVIOUS
<1>3. /\ g[s] = IF s = {} THEN 0 ELSE f[Pick(s)] + g[s \ {Pick(s)}]
      /\ h[s] = IF s = {} THEN 0 ELSE f[Pick(s)] + h[s \ {Pick(s)}]
    BY <1>2 DEF Iterates
<1>4. CASE s = {}
    BY <1>2, <1>3, <1>4
<1>5. CASE s # {}
    <2>1. Pick(s) \in s
        BY <1>5, Picked
    <2>2. s \ {Pick(s)} \in SUBSET T /\ s \ {Pick(s)} \subseteq s /\ s \ {Pick(s)} # s
        BY <1>2, <2>1
    <2>3. s \ {Pick(s)} \notin Differ
        BY <1>1, <2>2
    <2> QED
        BY <1>2, <1>3, <1>5, <2>2, <2>3
<1> QED
    BY <1>4, <1>5

\* The sum over nothing.
LEMMA SumEmpty ==
    ASSUME NEW f
    PROVE  SumFunctionOnSet(f, {}) = 0
<1>1. PICK g : Iterates(g, f, {}) /\ SumFunctionOnSet(f, {}) = g[{}]
    BY SumIterates, FS_EmptySet
<1> QED
    BY <1>1 DEF Iterates

\* The first step of the fold.
LEMMA SumPicked ==
    ASSUME NEW f, NEW S, IsFiniteSet(S), S # {}
    PROVE  SumFunctionOnSet(f, S) = f[Pick(S)] + SumFunctionOnSet(f, S \ {Pick(S)})
<1> DEFINE T == S \ {Pick(S)}
<1>1. PICK g : Iterates(g, f, S) /\ SumFunctionOnSet(f, S) = g[S]
    BY SumIterates
<1>2. IsFiniteSet(T) /\ T \subseteq S
    BY FS_Subset
<1>3. PICK h : Iterates(h, f, T) /\ SumFunctionOnSet(f, T) = h[T]
    BY <1>2, SumIterates
<1>4. g[T] = h[T]
    BY <1>1, <1>2, <1>3, IteratesAgree
<1>5. g[S] = f[Pick(S)] + g[T]
    BY <1>1 DEF Iterates
<1> QED
    BY <1>1, <1>3, <1>4, <1>5

\* A sum of naturals is a natural.
LEMMA SumType ==
    ASSUME NEW S, IsFiniteSet(S), NEW f, \A x \in S : f[x] \in Nat
    PROVE  SumFunctionOnSet(f, S) \in Nat
<1> DEFINE Bad == {s \in SUBSET S : SumFunctionOnSet(f, s) \notin Nat}
<1>1. Bad = {}
    <2> SUFFICES ASSUME Bad # {} PROVE FALSE
        OBVIOUS
    <2>1. PICK s \in Bad : \A t \in Bad : ~ (t \subseteq s /\ t # s)
        <3>1. Bad \in SUBSET (SUBSET S)
            OBVIOUS
        <3> HIDE DEF Bad
        <3> QED
            BY <3>1, Smallest
    <2>2. s \subseteq S /\ IsFiniteSet(s) /\ SumFunctionOnSet(f, s) \notin Nat
        BY FS_Subset
    <2>3. s # {}
        BY <2>2, SumEmpty
    <2>4. Pick(s) \in s /\ SumFunctionOnSet(f, s) = f[Pick(s)] + SumFunctionOnSet(f, s \ {Pick(s)})
        BY <2>2, <2>3, Picked, SumPicked
    <2>5. SumFunctionOnSet(f, s \ {Pick(s)}) \in Nat
        BY <2>1, <2>2, <2>4
    <2> QED
        BY <2>2, <2>4, <2>5
<1> QED
    BY <1>1

\* Any element may be taken out first.
LEMMA SumRemove ==
    ASSUME NEW S, IsFiniteSet(S), NEW f, \A x \in S : f[x] \in Nat, NEW x \in S
    PROVE  SumFunctionOnSet(f, S) = f[x] + SumFunctionOnSet(f, S \ {x})
<1> DEFINE Total(s) == SumFunctionOnSet(f, s)
           Fine(s) == \A y \in s : Total(s) = f[y] + Total(s \ {y})
           Bad == {s \in SUBSET S : ~Fine(s)}
<1>1. \A s \in SUBSET S : IsFiniteSet(s) /\ Total(s) \in Nat
    BY FS_Subset, SumType
<1>2. Bad = {}
    <2> SUFFICES ASSUME Bad # {} PROVE FALSE
        OBVIOUS
    <2>1. PICK s \in Bad : \A t \in Bad : ~ (t \subseteq s /\ t # s)
        <3>1. Bad \in SUBSET (SUBSET S)
            OBVIOUS
        <3> HIDE DEF Bad
        <3> QED
            BY <3>1, Smallest
    <2>2. s \in SUBSET S
        OBVIOUS
    <2>3. PICK y \in s : Total(s) # f[y] + Total(s \ {y})
        OBVIOUS
    <2> DEFINE z == Pick(s)
    <2>4. z \in s /\ Total(s) = f[z] + Total(s \ {z})
        BY <1>1, <2>2, <2>3, Picked, SumPicked
    <2>5. y # z
        BY <2>3, <2>4
    <2>6. Fine(s \ {y}) /\ Fine(s \ {z})
        BY <2>1, <2>2, <2>4, <2>3
    <2>7. Total(s \ {y}) = f[z] + Total((s \ {y}) \ {z}) /\ Total(s \ {z}) = f[y] + Total((s \ {z}) \ {y})
        BY <2>3, <2>4, <2>5, <2>6
    <2>8. (s \ {y}) \ {z} = (s \ {z}) \ {y} /\ (s \ {z}) \ {y} \in SUBSET S
        BY <2>2
    <2>9. f[y] \in Nat /\ f[z] \in Nat /\ Total((s \ {z}) \ {y}) \in Nat
        BY <1>1, <2>2, <2>3, <2>4, <2>8
    <2> HIDE DEF Total, z
    <2> QED
        BY <2>3, <2>4, <2>7, <2>8, <2>9
<1> QED
    BY <1>2

\* Only the values on the set matter.
LEMMA SumSame ==
    ASSUME NEW S, IsFiniteSet(S), NEW f, NEW g, \A x \in S : f[x] \in Nat /\ g[x] = f[x]
    PROVE  SumFunctionOnSet(g, S) = SumFunctionOnSet(f, S)
<1> DEFINE Bad == {s \in SUBSET S : SumFunctionOnSet(g, s) # SumFunctionOnSet(f, s)}
<1> SUFFICES ASSUME Bad # {} PROVE FALSE
    OBVIOUS
<1>1. PICK s \in Bad : \A t \in Bad : ~ (t \subseteq s /\ t # s)
    <2>1. Bad \in SUBSET (SUBSET S)
        OBVIOUS
    <2> HIDE DEF Bad
    <2> QED
        BY <2>1, Smallest
<1>2. s \subseteq S /\ IsFiniteSet(s) /\ s # {}
    BY FS_Subset, SumEmpty
<1>3. PICK x \in s : TRUE
    BY <1>2
<1>4. SumFunctionOnSet(g, s \ {x}) = SumFunctionOnSet(f, s \ {x})
    BY <1>1, <1>2
<1>5. /\ SumFunctionOnSet(f, s) = f[x] + SumFunctionOnSet(f, s \ {x})
      /\ SumFunctionOnSet(g, s) = g[x] + SumFunctionOnSet(g, s \ {x})
    BY <1>2, SumRemove
<1> QED
    BY <1>2, <1>4, <1>5

\* The sum of all values.
LEMMA SumNat ==
    ASSUME NEW S, IsFiniteSet(S), NEW f \in [S -> Nat]
    PROVE  SumFunction(f) \in Nat
<1>1. SumFunction(f) = SumFunctionOnSet(f, S)
    BY DEF SumFunction
<1> QED
    BY <1>1, SumType

\* One value changes: the sum changes by as much.
LEMMA SumUpdate ==
    ASSUME NEW S, IsFiniteSet(S), NEW f \in [S -> Nat], NEW g \in [S -> Nat], NEW x \in S,
           \A y \in S \ {x} : g[y] = f[y]
    PROVE  /\ SumFunction(f) \in Nat /\ SumFunction(g) \in Nat
           /\ SumFunction(g) + f[x] = SumFunction(f) + g[x]
<1> DEFINE rest == SumFunctionOnSet(f, S \ {x})
<1>1. IsFiniteSet(S \ {x}) /\ \A y \in S : f[y] \in Nat /\ g[y] \in Nat
    BY FS_RemoveElement
<1>2. rest \in Nat /\ SumFunctionOnSet(f, S) \in Nat /\ SumFunctionOnSet(g, S) \in Nat
    BY <1>1, SumType
<1>3. SumFunctionOnSet(g, S \ {x}) = rest
    BY <1>1, SumSame
<1>4. SumFunctionOnSet(f, S) = f[x] + rest /\ SumFunctionOnSet(g, S) = g[x] + rest
    BY <1>1, <1>3, SumRemove
<1>5. SumFunction(f) = SumFunctionOnSet(f, S) /\ SumFunction(g) = SumFunctionOnSet(g, S)
    BY DEF SumFunction
<1> HIDE DEF rest
<1> QED
    BY <1>1, <1>2, <1>4, <1>5

\* A sum of zeros.
LEMMA SumZero ==
    ASSUME NEW S, IsFiniteSet(S), NEW f, \A x \in S : f[x] = 0
    PROVE  SumFunctionOnSet(f, S) = 0
<1> DEFINE Bad == {s \in SUBSET S : SumFunctionOnSet(f, s) # 0}
<1> SUFFICES ASSUME Bad # {} PROVE FALSE
    OBVIOUS
<1>1. PICK s \in Bad : \A t \in Bad : ~ (t \subseteq s /\ t # s)
    <2>1. Bad \in SUBSET (SUBSET S)
        OBVIOUS
    <2> HIDE DEF Bad
    <2> QED
        BY <2>1, Smallest
<1>2. s \subseteq S /\ IsFiniteSet(s) /\ s # {}
    BY FS_Subset, SumEmpty
<1>3. PICK x \in s : TRUE
    BY <1>2
<1>4. SumFunctionOnSet(f, s \ {x}) = 0
    BY <1>1, <1>2
<1>5. SumFunctionOnSet(f, s) = f[x] + SumFunctionOnSet(f, s \ {x})
    BY <1>2, SumRemove
<1> QED
    BY <1>2, <1>3, <1>4, <1>5

\* A sum of zeros and ones counts the ones.
LEMMA SumCount ==
    ASSUME NEW S, IsFiniteSet(S), NEW f, \A x \in S : f[x] \in {0, 1}
    PROVE  SumFunctionOnSet(f, S) = Cardinality({x \in S : f[x] = 1})
<1> DEFINE Ones(s) == {x \in s : f[x] = 1}
           Bad == {s \in SUBSET S : SumFunctionOnSet(f, s) # Cardinality(Ones(s))}
<1> SUFFICES ASSUME Bad # {} PROVE FALSE
    OBVIOUS
<1>1. PICK s \in Bad : \A t \in Bad : ~ (t \subseteq s /\ t # s)
    <2>1. Bad \in SUBSET (SUBSET S)
        OBVIOUS
    <2> HIDE DEF Bad
    <2> QED
        BY <2>1, Smallest
<1>2. s \subseteq S /\ IsFiniteSet(s)
    BY FS_Subset
<1>3. s # {}
    <2>1. Ones({}) = {}
        OBVIOUS
    <2> QED
        BY <2>1, SumEmpty, FS_EmptySet
<1>4. PICK x \in s : TRUE
    BY <1>3
<1>5. SumFunctionOnSet(f, s \ {x}) = Cardinality(Ones(s \ {x}))
    BY <1>1, <1>2
<1>6. SumFunctionOnSet(f, s) = f[x] + SumFunctionOnSet(f, s \ {x})
    BY <1>2, SumRemove
<1>7. IsFiniteSet(Ones(s)) /\ Cardinality(Ones(s)) \in Nat
    BY <1>2, FS_Subset, FS_CardinalityType
<1>8. CASE f[x] = 0
    <2>1. Ones(s \ {x}) = Ones(s)
        BY <1>8
    <2> QED
        BY <1>2, <1>5, <1>6, <1>7, <1>8, <2>1
<1>9. CASE f[x] = 1
    <2>1. Ones(s \ {x}) = Ones(s) \ {x} /\ x \in Ones(s)
        BY <1>9
    <2>2. Cardinality(Ones(s) \ {x}) = Cardinality(Ones(s)) - 1
        BY <1>7, <2>1, FS_RemoveElement
    <2> QED
        BY <1>2, <1>5, <1>6, <1>7, <1>9, <2>1, <2>2
<1> QED
    BY <1>2, <1>8, <1>9

\* A set is split in two.
LEMMA SumUnion ==
    ASSUME NEW S, IsFiniteSet(S), NEW T, IsFiniteSet(T), S \cap T = {},
           NEW f, \A x \in S \cup T : f[x] \in Nat
    PROVE  SumFunctionOnSet(f, S \cup T) = SumFunctionOnSet(f, S) + SumFunctionOnSet(f, T)
<1> DEFINE Total(s) == SumFunctionOnSet(f, s)
           Bad == {s \in SUBSET T : Total(S \cup s) # Total(S) + Total(s)}
<1> SUFFICES ASSUME Bad # {} PROVE FALSE
    OBVIOUS
<1>1. PICK s \in Bad : \A t \in Bad : ~ (t \subseteq s /\ t # s)
    <2>1. Bad \in SUBSET (SUBSET T)
        OBVIOUS
    <2> HIDE DEF Bad
    <2> QED
        BY <2>1, Smallest
<1>2. s \subseteq T /\ IsFiniteSet(s) /\ IsFiniteSet(S \cup s)
    BY FS_Subset, FS_Union
<1>3. Total(S) \in Nat
    BY SumType
<1>4. s # {}
    <2>1. S \cup {} = S /\ Total({}) = 0
        BY SumEmpty
    <2> HIDE DEF Total
    <2> QED
        BY <1>3, <2>1
<1>5. PICK x \in s : TRUE
    BY <1>4
<1>6. Total(S \cup (s \ {x})) = Total(S) + Total(s \ {x})
    BY <1>1, <1>2
<1>7. (S \cup s) \ {x} = S \cup (s \ {x}) /\ x \in S \cup s
    BY <1>2
<1>8. Total(S \cup s) = f[x] + Total((S \cup s) \ {x}) /\ Total(s) = f[x] + Total(s \ {x})
    BY <1>2, <1>7, SumRemove
<1>9. f[x] \in Nat /\ Total(s \ {x}) \in Nat
    <2>1. IsFiniteSet(s \ {x})
        BY <1>2, FS_Subset
    <2> QED
        BY <1>2, <2>1, SumType
<1>10. Total(S \cup s) # Total(S) + Total(s)
    OBVIOUS
<1> HIDE DEF Total
<1> QED
    BY <1>3, <1>6, <1>7, <1>8, <1>9, <1>10

\* The values of an interval move along by one.
LEMMA SumShift ==
    ASSUME NEW a \in Nat, NEW b \in Nat, NEW f, NEW g,
           \A i \in a .. b : f[i] \in Nat /\ g[i + 1] = f[i]
    PROVE  SumFunctionOnSet(g, a + 1 .. b + 1) = SumFunctionOnSet(f, a .. b)
<1> DEFINE Same(n) == SumFunctionOnSet(g, a + 1 .. n) = SumFunctionOnSet(f, a .. n - 1)
           Bad == {n \in a .. b + 1 : ~Same(n)}
<1> SUFFICES ASSUME Bad # {} PROVE FALSE
    <2>1. b + 1 \in Nat /\ (b + 1) - 1 = b
        OBVIOUS
    <2>2. CASE a <= b + 1
        <3>1. b + 1 \in a .. b + 1
            BY <2>2
        <3>2. Same(b + 1)
            <4> HIDE DEF Same
            <4> QED
                BY <3>1
        <3> QED
            BY <2>1, <3>2
    <2>3. CASE ~(a <= b + 1)
        <3>1. a .. b = {} /\ a + 1 .. b + 1 = {}
            BY <2>3
        <3> QED
            BY <3>1, SumEmpty
    <2> QED
        BY <2>2, <2>3
<1>1. PICK n \in Bad : \A m \in Bad : n <= m
    <2>1. Bad \in SUBSET Nat
        OBVIOUS
    <2> HIDE DEF Bad
    <2> QED
        BY <2>1, Least
<1>2. n \in Nat /\ n \in a .. b + 1 /\ ~Same(n)
    OBVIOUS
<1>3. n # a
    <2>1. a + 1 .. a = {} /\ a .. a - 1 = {}
        OBVIOUS
    <2> QED
        BY <1>2, <2>1, SumEmpty
<1>4. n - 1 \in a .. b /\ Same(n - 1)
    BY <1>1, <1>2, <1>3
<1>5. /\ n \in a + 1 .. n /\ (a + 1 .. n) \ {n} = a + 1 .. n - 1
      /\ n - 1 \in a .. n - 1 /\ (a .. n - 1) \ {n - 1} = a .. (n - 1) - 1
    BY <1>2, <1>3
<1>6. /\ \A i \in a .. n - 1 : f[i] \in Nat
      /\ \A i \in a + 1 .. n : g[i] \in Nat
      /\ g[n] = f[n - 1]
    <2>1. ASSUME NEW i \in a + 1 .. n PROVE g[i] \in Nat
        <3>1. i - 1 \in a .. b /\ (i - 1) + 1 = i
            BY <1>2
        <3> QED
            BY <3>1
    <2>2. (n - 1) + 1 = n
        BY <1>2
    <2> QED
        BY <1>2, <1>4, <2>1, <2>2
<1>7. IsFiniteSet(a + 1 .. n) /\ IsFiniteSet(a .. n - 1)
    BY <1>2, FS_Interval
<1>8. SumFunctionOnSet(g, a + 1 .. n) = g[n] + SumFunctionOnSet(g, (a + 1 .. n) \ {n})
    BY <1>5, <1>6, <1>7, SumRemove
<1>9. SumFunctionOnSet(f, a .. n - 1) = f[n - 1] + SumFunctionOnSet(f, (a .. n - 1) \ {n - 1})
    BY <1>5, <1>6, <1>7, SumRemove
<1> QED
    BY <1>2, <1>4, <1>5, <1>6, <1>8, <1>9
=============================================================================
