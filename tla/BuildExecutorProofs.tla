------------------------ MODULE BuildExecutorProofs ------------------------
(* Builds respect their dependencies, for every graph of dependencies, number *)
(* of rules and of builds, and every bound.  The first half is about the      *)
(* functions of DependencyResolver: that the recursive definitions of Wave    *)
(* and Below define what they say, that the waves put every rule after what   *)
(* it depends on, and that Cyclic finds every circle.                         *)
EXTENDS BuildExecutor, FiniteSetTheorems, WellFoundedInduction, TLAPS

-----------------------------------------------------------------------------
(* Recursion *)

\* Every set of naturals has a least one: induction, by the least counterexample.
LEMMA LeastNumber ==
    ASSUME NEW T \in SUBSET Nat, T # {}
    PROVE  \E n \in T : \A m \in T : n <= m
<1> DEFINE R == OpToRel(<, Nat)
<1>1. IsWellFoundedOn(R, Nat)
    BY NatLessThanWellFounded
<1>2. \A i, j \in Nat : i < j => <<i, j>> \in R
    BY DEF OpToRel
<1> HIDE DEF R
<1>3. PICK n \in T : \A m \in T : ~(<<m, n>> \in R)
    BY <1>1, WFMin
<1>4. \A m \in T : ~(m < n)
    BY <1>2, <1>3
<1> QED BY <1>4

\* No set has all its members waiting for each other.
WellFounded(below, S) ==
    /\ below \in [S -> SUBSET S]
    /\ \A T \in SUBSET S : T # {} => \E x \in T : below[x] \intersect T = {}

\* F makes of an x and a function its value at x, in view of those at below[x] only.
OnlyBelow(F, below, S, V) ==
    /\ \A x \in S, g \in [S -> V] : F[x][g] \in V
    /\ \A x \in S : \A g, h \in [S -> V] : (\A y \in below[x] : g[y] = h[y]) => F[x][g] = F[x][h]

Obeys(f, F, S) == \A x \in S : f[x] = F[x][f]

\* A function may be defined by recursion when what it is at x only takes what it is
\* at the members of below[x].
LEMMA RecursionDefines ==
    ASSUME NEW S, NEW V, NEW some \in V, NEW below, NEW F,
           WellFounded(below, S), OnlyBelow(F, below, S, V)
    PROVE  \E f \in [S -> V] : Obeys(f, F, S)
<1> DEFINE At(x, g) == F[x][g]
<1>A. /\ \A x \in S, g \in [S -> V] : At(x, g) \in V
      /\ \A x \in S : \A g, h \in [S -> V] :
             (\A y \in below[x] : g[y] = h[y]) => At(x, g) = At(x, h)
    BY DEF OnlyBelow
<1>W. /\ below \in [S -> SUBSET S]
      /\ \A T \in SUBSET S : T # {} => \E x \in T : below[x] \intersect T = {}
    BY DEF WellFounded
<1>B. SUFFICES \E f \in [S -> V] : \A x \in S : f[x] = At(x, f)
    BY DEF Obeys
<1> HIDE DEF At
<1> DEFINE Solves(D, g) == /\ D \in SUBSET S /\ g \in [S -> V]
                           /\ \A x \in D : below[x] \subseteq D /\ g[x] = At(x, g)
           Says(x, v) == \E D, g : Solves(D, g) /\ x \in D /\ g[x] = v
<1>1. ASSUME NEW D, NEW g, Solves(D, g), NEW E, NEW h, Solves(E, h), NEW x \in D \intersect E
      PROVE  g[x] = h[x]
    <2> DEFINE T == {y \in D \intersect E : g[y] # h[y]}
    <2>1. CASE T = {}
        BY <2>1
    <2>2. CASE T # {}
        <3>1. PICK y \in T : below[y] \intersect T = {}
            BY <1>1, <1>W, <2>2
        <3>2. \A z \in below[y] : g[z] = h[z]
            BY <1>1, <3>1
        <3>3. g[y] = At(y, g) /\ h[y] = At(y, h) /\ y \in S /\ g \in [S -> V] /\ h \in [S -> V]
            BY <1>1
        <3> QED BY <1>A, <3>1, <3>2, <3>3
    <2> QED BY <2>1, <2>2
<1> DEFINE U == {x \in S : \E v : Says(x, v)}
           G == [x \in S |-> IF x \in U THEN CHOOSE v : Says(x, v) ELSE some]
<1>2. ASSUME NEW D, NEW g, Solves(D, g), NEW x \in D PROVE x \in U /\ G[x] = g[x]
    <2>1. Says(x, g[x]) /\ x \in S
        BY <1>2
    <2>2. ASSUME NEW v, Says(x, v) PROVE v = g[x]
        <3>1. PICK E, h : Solves(E, h) /\ x \in E /\ h[x] = v
            BY <2>2
        <3> HIDE DEF Solves
        <3> QED BY <1>1, <1>2, <3>1
    <2>3. x \in U /\ G[x] = CHOOSE v : Says(x, v)
        BY <2>1
    <2> HIDE DEF U, G, Says
    <2> QED BY <2>1, <2>2, <2>3
<1>3. G \in [S -> V]
    <2>1. ASSUME NEW x \in U PROVE G[x] \in V
        <3>1. PICK D, g : Solves(D, g) /\ x \in D
            OBVIOUS
        <3>2. G[x] = g[x] /\ g \in [S -> V] /\ x \in S
            BY <1>2, <3>1
        <3> QED BY <3>2
    <2>2. ASSUME NEW x \in S \ U PROVE G[x] = some
        BY <2>2
    <2>3. G = [x \in S |-> G[x]]
        OBVIOUS
    <2> HIDE DEF U, G
    <2> QED BY <2>1, <2>2, <2>3
<1>4. ASSUME NEW x \in U PROVE below[x] \subseteq U /\ G[x] = At(x, G)
    <2>1. PICK D, g : Solves(D, g) /\ x \in D
        OBVIOUS
    <2>2. below[x] \subseteq D /\ g[x] = At(x, g) /\ g \in [S -> V] /\ x \in S
        BY <2>1
    <2> HIDE DEF U, G, Solves
    <2>3. \A y \in D : y \in U /\ G[y] = g[y]
        BY <1>2, <2>1
    <2> QED BY <1>3, <1>A, <2>1, <2>2, <2>3
<1>5. U = S
    <2>1. SUFFICES ASSUME U # S PROVE FALSE
        OBVIOUS
    <2>2. U \subseteq S
        OBVIOUS
    <2> HIDE DEF U, G, Solves, Says
    <2>3. PICK x \in S \ U : below[x] \intersect (S \ U) = {}
        BY <1>W, <2>1, <2>2
    <2>4. below[x] \subseteq U /\ x \notin below[x]
        BY <1>W, <2>3
    <2> DEFINE h == [G EXCEPT ![x] = At(x, G)]
    <2>5. h \in [S -> V] /\ h[x] = At(x, G) /\ \A y \in S : y # x => h[y] = G[y]
        BY <1>3, <1>A, <2>3
    <2> HIDE DEF h
    <2>6. ASSUME NEW y \in U \union {x}
          PROVE  y \in S /\ below[y] \subseteq U \union {x} /\ h[y] = At(y, h)
        <3>1. y \in S /\ below[y] \subseteq U /\ h[y] = At(y, G)
            BY <1>4, <2>2, <2>3, <2>4, <2>5
        <3>2. \A z \in below[y] : h[z] = G[z]
            BY <2>2, <2>3, <2>5, <3>1
        <3>3. At(y, h) = At(y, G)
            BY <1>3, <1>A, <2>5, <3>1, <3>2
        <3> QED BY <3>1, <3>3
    <2>7. Solves(U \union {x}, h)
        BY <2>5, <2>6 DEF Solves
    <2> QED BY <1>2, <2>3, <2>7
<1> HIDE DEF G, U
<1> QED BY <1>3, <1>4, <1>5

-----------------------------------------------------------------------------
(* The functions of DependencyResolver *)

N == Cardinality(Rules)

LEMMA RulesAreFinite == N \in Nat
BY FS_CardinalityType, SizesAssumption DEF N

Graph == [Rules -> SUBSET Rules]

\* The rules that are reached from r over at most n others.
Reached(r) ==
    CHOOSE reach : reach = [n \in Nat |-> IF n = 0 THEN deps[r]
                                          ELSE reach[n - 1] \union UNION {deps[d] : d \in reach[n - 1]}]

LEMMA BelowIsReached == ASSUME NEW r PROVE Below(r) = Reached(r)[N]
BY DEF Below, Reached, N

LEMMA ReachedRecursion ==
    ASSUME deps \in Graph, NEW r \in Rules
    PROVE  /\ Reached(r) \in [Nat -> SUBSET Rules] /\ Reached(r)[0] = deps[r]
           /\ \A n \in Nat : Reached(r)[n + 1] = Reached(r)[n] \union UNION {deps[d] : d \in Reached(r)[n]}
<1> DEFINE V == SUBSET Rules
           More(s) == s \union UNION {deps[d] : d \in s}
           F == [n \in Nat |-> [g \in [Nat -> V] |-> IF n = 0 THEN deps[r] ELSE More(g[n - 1])]]
           below == [n \in Nat |-> IF n = 0 THEN {} ELSE {n - 1}]
<1>1. deps[r] \in V /\ \A s \in V : More(s) \in V
    BY DEF Graph
<1> HIDE DEF V, More
<1>2. below \in [Nat -> SUBSET Nat]
    OBVIOUS
<1>3. ASSUME NEW T \in SUBSET Nat, T # {} PROVE \E n \in T : below[n] \intersect T = {}
    <2>1. PICK n \in T : \A m \in T : n <= m
        BY <1>3, LeastNumber
    <2> QED BY <2>1
<1>4. \A n \in Nat, g \in [Nat -> V] : F[n][g] = IF n = 0 THEN deps[r] ELSE More(g[n - 1])
    OBVIOUS
<1>5. OnlyBelow(F, below, Nat, V)
    <2>1. ASSUME NEW n \in Nat, NEW g \in [Nat -> V] PROVE F[n][g] \in V
        <3>1. n # 0 => n - 1 \in Nat
            OBVIOUS
        <3> HIDE DEF F
        <3> QED BY <1>1, <1>4, <3>1
    <2>2. ASSUME NEW n \in Nat, NEW g \in [Nat -> V], NEW h \in [Nat -> V],
                 \A m \in below[n] : g[m] = h[m]
          PROVE  F[n][g] = F[n][h]
        <3>1. n # 0 => g[n - 1] = h[n - 1]
            BY <2>2
        <3> HIDE DEF F, below
        <3> QED BY <1>4, <3>1
    <2> QED BY <2>1, <2>2 DEF OnlyBelow
<1>6. PICK f \in [Nat -> V] : Obeys(f, F, Nat)
    <2>1. WellFounded(below, Nat)
        BY <1>2, <1>3 DEF WellFounded
    <2>2. deps[r] \in V
        BY <1>1
    <2> HIDE DEF F, below
    <2> QED BY <1>5, <2>1, <2>2, RecursionDefines
<1> DEFINE Eq(g) == g = [n \in Nat |-> IF n = 0 THEN deps[r] ELSE More(g[n - 1])]
<1>7. Eq(f)
    <2>1. \A n \in Nat : f[n] = IF n = 0 THEN deps[r] ELSE More(f[n - 1])
        <3> HIDE DEF F
        <3> QED BY <1>4, <1>6 DEF Obeys
    <2>2. f = [n \in Nat |-> f[n]]
        OBVIOUS
    <2> QED BY <2>1, <2>2
<1>8. Reached(r) = CHOOSE g : Eq(g)
    BY DEF Reached, More
<1>9. Eq(Reached(r))
    <2> HIDE DEF Eq
    <2> QED BY <1>7, <1>8
<1>10. Reached(r) \in [Nat -> V]
    <2> DEFINE T == {n \in Nat : Reached(r)[n] \notin V}
    <2>1. CASE T = {}
        BY <1>9, <2>1
    <2>2. CASE T # {}
        <3>1. PICK n \in T : \A m \in T : n <= m
            BY <2>2, LeastNumber
        <3>2. n # 0 => n - 1 \in Nat /\ Reached(r)[n - 1] \in V
            BY <3>1
        <3> QED BY <1>1, <1>9, <3>1, <3>2
    <2> QED BY <2>1, <2>2
<1> QED BY <1>9, <1>10 DEF V, More

LEMMA ReachedGrows ==
    ASSUME deps \in Graph, NEW r \in Rules, NEW m \in Nat, NEW n \in Nat, m <= n
    PROVE  Reached(r)[m] \subseteq Reached(r)[n]
<1> DEFINE T == {k \in Nat : m <= k /\ ~(Reached(r)[m] \subseteq Reached(r)[k])}
<1>1. CASE T = {}
    BY <1>1
<1>2. CASE T # {}
    <2>1. PICK k \in T : \A j \in T : k <= j
        BY <1>2, LeastNumber
    <2>2. k # m /\ k - 1 \in Nat /\ m <= k - 1 /\ k - 1 \notin T
        BY <2>1
    <2>3. Reached(r)[m] \subseteq Reached(r)[k - 1]
        BY <2>2
    <2>4. Reached(r)[k - 1] \subseteq Reached(r)[(k - 1) + 1] /\ (k - 1) + 1 = k
        BY <2>2, ReachedRecursion
    <2> QED BY <2>1, <2>3, <2>4
<1> QED BY <1>1, <1>2

\* A set that has what r depends on, and with a rule what that depends on, has
\* everything below r.
LEMMA ReachedWithin ==
    ASSUME deps \in Graph, NEW r \in Rules, NEW X, deps[r] \subseteq X,
           \A d \in X \intersect Rules : deps[d] \subseteq X, NEW n \in Nat
    PROVE  Reached(r)[n] \subseteq X
<1> DEFINE T == {k \in Nat : ~(Reached(r)[k] \subseteq X)}
<1>1. CASE T = {}
    BY <1>1
<1>2. CASE T # {}
    <2>1. PICK k \in T : \A j \in T : k <= j
        BY <1>2, LeastNumber
    <2>2. k # 0
        BY <2>1, ReachedRecursion
    <2>3. k - 1 \in Nat /\ k - 1 \notin T /\ (k - 1) + 1 = k
        BY <2>1, <2>2
    <2>4. Reached(r)[k - 1] \subseteq X \intersect Rules
        BY <2>3, ReachedRecursion
    <2>5. Reached(r)[k] = Reached(r)[k - 1] \union UNION {deps[d] : d \in Reached(r)[k - 1]}
        BY <2>3, ReachedRecursion
    <2> QED BY <2>1, <2>4, <2>5
<1> QED BY <1>1, <1>2

LEMMA RulesCardinality ==
    ASSUME NEW A \in SUBSET Rules
    PROVE  /\ IsFiniteSet(A) /\ Cardinality(A) \in Nat /\ Cardinality(A) <= N
           /\ \A B \in SUBSET A : B # A => Cardinality(B) < Cardinality(A)
BY FS_Subset, FS_CardinalityType, SizesAssumption DEF N

\* N steps are enough: as long as one more adds something, there is a rule for each step.
LEMMA ReachingStops ==
    ASSUME deps \in Graph, NEW r \in Rules
    PROVE  \E n \in 0..N : Reached(r)[n + 1] = Reached(r)[n]
<1> DEFINE R == Reached(r)
<1>1. SUFFICES ASSUME \A n \in 0..N : R[n + 1] # R[n] PROVE FALSE
    OBVIOUS
<1>2. R \in [Nat -> SUBSET Rules] /\ N \in Nat
    BY ReachedRecursion, RulesAreFinite
<1>3. \A n \in Nat : R[n] \subseteq R[n + 1]
    BY ReachedRecursion
<1> HIDE DEF R
<1>4. \A n \in Nat : R[n] \in SUBSET Rules /\ Cardinality(R[n]) \in Nat /\ Cardinality(R[n]) <= N
    BY <1>2, RulesCardinality
<1> DEFINE T == {n \in 0..(N + 1) : Cardinality(R[n]) < n}
<1>5. CASE T = {}
    BY <1>2, <1>4, <1>5
<1>6. CASE T # {}
    <2>0. T \in SUBSET Nat
        BY <1>2
    <2>1. PICK n \in T : \A m \in T : n <= m
        BY <1>6, <2>0, LeastNumber
    <2>2. n # 0
        BY <1>4, <2>1
    <2>3. n - 1 \in 0..N /\ (n - 1) + 1 = n /\ n - 1 \notin T /\ n - 1 \in Nat
        BY <1>2, <2>1, <2>2
    <2>4. R[n - 1] \subseteq R[n] /\ R[n - 1] # R[n]
        BY <1>1, <1>3, <2>3
    <2>5. Cardinality(R[n - 1]) < Cardinality(R[n])
        BY <1>4, <2>1, <2>4, RulesCardinality
    <2>6. ~(Cardinality(R[n - 1]) < n - 1)
        BY <1>2, <2>3
    <2> QED BY <1>4, <2>1, <2>3, <2>5, <2>6
<1> QED BY <1>5, <1>6

LEMMA BelowIsClosed ==
    ASSUME deps \in Graph, NEW r \in Rules
    PROVE  /\ Below(r) \subseteq Rules /\ deps[r] \subseteq Below(r)
           /\ \A d \in Below(r) : deps[d] \subseteq Below(r)
<1>1. PICK n \in 0..N : Reached(r)[n + 1] = Reached(r)[n]
    BY ReachingStops
<1>2. N \in Nat /\ n \in Nat /\ n <= N /\ n + 1 \in Nat
    BY RulesAreFinite
<1>3. deps[r] \subseteq Reached(r)[n]
    BY <1>2, ReachedGrows, ReachedRecursion
<1>4. \A d \in Reached(r)[n] : deps[d] \subseteq Reached(r)[n]
    BY <1>1, <1>2, ReachedRecursion
<1>5. Reached(r)[N] = Reached(r)[n]
    <2>1. Reached(r)[N] \subseteq Reached(r)[n]
        BY <1>2, <1>3, <1>4, ReachedWithin
    <2> QED BY <1>2, <2>1, ReachedGrows
<1>6. Reached(r)[n] \subseteq Rules
    BY <1>2, ReachedRecursion
<1> QED BY <1>3, <1>4, <1>5, <1>6, BelowIsReached

LEMMA BelowWithin ==
    ASSUME deps \in Graph, NEW r \in Rules, NEW X, deps[r] \subseteq X,
           \A d \in X \intersect Rules : deps[d] \subseteq X
    PROVE  Below(r) \subseteq X
BY ReachedWithin, RulesAreFinite, BelowIsReached

\* detectCycles finds a circle exactly when there is a set of rules each of which
\* waits for another one of the set.
LEMMA CyclicIsCircular == ASSUME deps \in Graph PROVE Cyclic <=> Service!Circular
<1>1. ASSUME NEW r \in Rules, r \in Below(r) PROVE Service!Circular
    <2> DEFINE ring == {x \in Rules : x \in Below(r) /\ r \in Below(x)}
    <2>1. ASSUME NEW x \in ring PROVE deps[x] \intersect ring # {}
        <3> DEFINE X == deps[x] \union UNION {Below(y) : y \in deps[x]}
        <3>1. deps[x] \subseteq Rules /\ \A y \in deps[x] : y \in Below(r)
            BY BelowIsClosed DEF Graph
        <3>2. \A d \in X \intersect Rules : deps[d] \subseteq X
            BY <3>1, BelowIsClosed
        <3>3. Below(x) \subseteq X
            BY <3>2, BelowWithin
        <3>4. r \in X
            BY <3>3
        <3> QED BY <1>1, <3>1, <3>4
    <2>2. r \in ring /\ ring \in SUBSET Rules
        BY <1>1
    <2> HIDE DEF ring
    <2> QED BY <2>1, <2>2 DEF Service!Circular
<1>2. ASSUME NEW ring \in SUBSET Rules, ring # {}, \A r \in ring : deps[r] \intersect ring # {}
      PROVE  Cyclic
    <2> DEFINE sizes == {Cardinality(Below(r)) : r \in ring}
    <2>1. \A r \in Rules : Below(r) \in SUBSET Rules
        BY BelowIsClosed
    <2>2. \A r \in ring : Cardinality(Below(r)) \in Nat
        BY <2>1, RulesCardinality
    <2>3. sizes \in SUBSET Nat /\ sizes # {}
        BY <1>2, <2>2
    <2>4. PICK k \in sizes : \A n \in sizes : k <= n
        BY <2>3, LeastNumber
    <2>5. PICK r \in ring : k = Cardinality(Below(r))
        BY <2>4
    <2>6. PICK y \in ring : y \in deps[r]
        BY <1>2
    <2>7. y \in Below(r) /\ deps[y] \subseteq Below(r)
        BY <2>6, BelowIsClosed
    <2>8. Below(y) \subseteq Below(r)
        BY <2>7, BelowWithin, BelowIsClosed
    <2>9. ~(Cardinality(Below(y)) < Cardinality(Below(r)))
        BY <2>2, <2>4, <2>5
    <2>10. Below(y) = Below(r)
        BY <2>1, <2>8, <2>9, RulesCardinality
    <2> QED BY <2>7, <2>10 DEF Cyclic
<1>3. Cyclic => Service!Circular
    BY <1>1 DEF Cyclic
<1>4. Service!Circular => Cyclic
    <2>1. SUFFICES ASSUME Service!Circular PROVE Cyclic
        OBVIOUS
    <2>2. PICK ring \in (SUBSET Rules) \ {{}} : \A r \in ring : deps[r] \intersect ring # {}
        BY <2>1 DEF Service!Circular
    <2> QED BY <1>2, <2>2
<1> QED BY <1>3, <1>4

-----------------------------------------------------------------------------
(* topologicalSort *)

Numbers == 1..(N + 1)
Free(before) == {r \in Rules \ before : deps[r] \subseteq before}
Waves == CHOOSE waves : waves = [i \in Numbers |-> Free(UNION {waves[j] : j \in 1..(i - 1)})]

\* The rules of the waves before the n-th.
Before(n) == UNION {Wave(j) : j \in 1..(n - 1)}

LEMMA WaveIsInWaves == ASSUME NEW n PROVE Wave(n) = Waves[n]
BY DEF Wave, Waves, Numbers, Free, N

\* A wave holds the rules left whose dependencies are all in the waves before it.
LEMMA WaveRecursion ==
    ASSUME NEW n \in Numbers
    PROVE  Wave(n) = {r \in Rules \ Before(n) : deps[r] \subseteq Before(n)}
<1> DEFINE V == SUBSET Rules
           F == [i \in Numbers |-> [g \in [Numbers -> V] |-> Free(UNION {g[j] : j \in 1..(i - 1)})]]
           below == [i \in Numbers |-> 1..(i - 1)]
<1>0. N \in Nat /\ Numbers \subseteq Nat
    BY RulesAreFinite DEF Numbers
<1>1. {} \in V /\ \A s : Free(s) \in V
    BY DEF Free
<1>2. WellFounded(below, Numbers)
    <2>1. below \in [Numbers -> SUBSET Numbers]
        BY <1>0 DEF Numbers
    <2>2. ASSUME NEW T \in SUBSET Numbers, T # {} PROVE \E i \in T : below[i] \intersect T = {}
        <3>1. T \in SUBSET Nat
            BY <1>0
        <3>2. PICK i \in T : \A j \in T : i <= j
            BY <2>2, <3>1, LeastNumber
        <3> QED BY <1>0, <3>2
    <2> QED BY <2>1, <2>2 DEF WellFounded
<1> HIDE DEF V
<1>3. \A i \in Numbers, g \in [Numbers -> V] : F[i][g] = Free(UNION {g[j] : j \in 1..(i - 1)})
    OBVIOUS
<1>4. OnlyBelow(F, below, Numbers, V)
    <2>1. ASSUME NEW i \in Numbers, NEW g \in [Numbers -> V], NEW h \in [Numbers -> V],
                 \A j \in below[i] : g[j] = h[j]
          PROVE  F[i][g] = F[i][h]
        <3>1. {g[j] : j \in 1..(i - 1)} = {h[j] : j \in 1..(i - 1)}
            BY <2>1
        <3> HIDE DEF F, below
        <3> QED BY <1>3, <3>1
    <2>2. \A i \in Numbers, g \in [Numbers -> V] : F[i][g] \in V
        <3> HIDE DEF F
        <3> QED BY <1>1, <1>3
    <2> HIDE DEF F
    <2> QED BY <2>1, <2>2 DEF OnlyBelow
<1>5. PICK f \in [Numbers -> V] : Obeys(f, F, Numbers)
    <2>1. {} \in V
        BY <1>1
    <2> HIDE DEF F, below
    <2> QED BY <1>2, <1>4, <2>1, RecursionDefines
<1> DEFINE Eq(g) == g = [i \in Numbers |-> Free(UNION {g[j] : j \in 1..(i - 1)})]
<1>6. Eq(f)
    <2>1. \A i \in Numbers : f[i] = Free(UNION {f[j] : j \in 1..(i - 1)})
        <3> HIDE DEF F
        <3> QED BY <1>3, <1>5 DEF Obeys
    <2>2. f = [i \in Numbers |-> f[i]]
        OBVIOUS
    <2> QED BY <2>1, <2>2
<1>7. Waves = CHOOSE g : Eq(g)
    BY DEF Waves
<1>8. Eq(Waves)
    <2> HIDE DEF Eq
    <2> QED BY <1>6, <1>7
<1>9. Wave(n) = Free(UNION {Waves[j] : j \in 1..(n - 1)})
    BY <1>8, WaveIsInWaves
<1>10. UNION {Waves[j] : j \in 1..(n - 1)} = Before(n)
    BY WaveIsInWaves DEF Before
<1> QED BY <1>9, <1>10 DEF Free

LEMMA BeforeGrows ==
    /\ Before(1) = {}
    /\ \A n \in Numbers : /\ Before(n + 1) = Before(n) \union Wave(n)
                          /\ Before(n) \intersect Wave(n) = {} /\ Wave(n) \subseteq Rules
                          /\ \A r \in Wave(n) : deps[r] \subseteq Before(n)
<1>1. N \in Nat
    BY RulesAreFinite
<1>2. Before(1) = {}
    BY DEF Before
<1>3. ASSUME NEW n \in Numbers
      PROVE  /\ Before(n + 1) = Before(n) \union Wave(n)
             /\ Before(n) \intersect Wave(n) = {} /\ Wave(n) \subseteq Rules
             /\ \A r \in Wave(n) : deps[r] \subseteq Before(n)
    <2>1. 1..((n + 1) - 1) = 1..(n - 1) \union {n}
        BY <1>1 DEF Numbers
    <2>2. Before(n + 1) = Before(n) \union Wave(n)
        BY <2>1 DEF Before
    <2> QED BY <2>2, WaveRecursion
<1> QED BY <1>2, <1>3

\* Before every wave come only rules, and with each what it depends on.
LEMMA BeforeIsClosed ==
    ASSUME NEW n \in 1..(N + 2)
    PROVE  Before(n) \subseteq Rules /\ \A r \in Before(n) : deps[r] \subseteq Before(n)
<1>1. N \in Nat
    BY RulesAreFinite
<1> DEFINE T == {m \in 1..(N + 2) :
                   ~(Before(m) \subseteq Rules /\ \A r \in Before(m) : deps[r] \subseteq Before(m))}
<1>2. CASE T = {}
    BY <1>2
<1>3. CASE T # {}
    <2>1. T \in SUBSET Nat
        BY <1>1
    <2>2. PICK m \in T : \A k \in T : m <= k
        BY <1>3, <2>1, LeastNumber
    <2>3. m # 1
        BY <2>2, BeforeGrows
    <2>4. m - 1 \in Numbers /\ m - 1 \in 1..(N + 2) /\ m - 1 \notin T /\ (m - 1) + 1 = m
        BY <1>1, <2>2, <2>3 DEF Numbers
    <2>5. /\ Before(m) = Before(m - 1) \union Wave(m - 1) /\ Wave(m - 1) \subseteq Rules
          /\ \A r \in Wave(m - 1) : deps[r] \subseteq Before(m - 1)
        BY <2>4, BeforeGrows
    <2>6. Before(m - 1) \subseteq Rules /\ \A r \in Before(m - 1) : deps[r] \subseteq Before(m - 1)
        BY <2>4
    <2> QED BY <2>2, <2>5, <2>6
<1> QED BY <1>2, <1>3

\* When a wave is empty and the graph has no circle, no rule is left.
LEMMA LastWaveIsLast ==
    ASSUME NEW n \in Numbers, deps \in Graph, ~Service!Circular, Wave(n) = {}
    PROVE  Before(n) = Rules
<1>1. n \in 1..(N + 2)
    BY RulesAreFinite DEF Numbers
<1>2. Before(n) \subseteq Rules
    BY <1>1, BeforeIsClosed
<1> DEFINE ring == Rules \ Before(n)
<1>3. ASSUME NEW r \in ring PROVE deps[r] \intersect ring # {}
    BY WaveRecursion DEF Graph
<1>4. CASE ring = {}
    BY <1>2, <1>4
<1>5. CASE ring # {}
    <2>1. ring \in (SUBSET Rules) \ {{}}
        BY <1>5
    <2> HIDE DEF ring
    <2> QED BY <1>3, <2>1 DEF Service!Circular
<1> QED BY <1>4, <1>5

-----------------------------------------------------------------------------
(* Batches *)

Good == {"success", "cached"}

\* The types; a version is one more than the edits at most.
TypeInv ==
    /\ TypeOK
    /\ \A r \in Rules : source[r] <= edits + 1

\* Batch b settles the rules of its waves: while it runs, these are the rules that have
\* settled, are in flight or are still to be started; the waves are as many as their
\* rules at most; and the graph has no circle.
InWaves(b, w) ==
    /\ w = wave[b] /\ w <= Cardinality(Before(w + 1))
    /\ Running(b) =>
         /\ ~Service!Circular
         /\ \A r \in Rules : r \in Before(w + 1) <=>
                               status[b][r] # "none" \/ at[b][r] # "idle" \/ r \in todo[b]

\* A rule is started, and succeeds, after its dependencies have; and it settles once.
InOrder(b) ==
    \A r \in Rules :
        /\ at[b][r] # "idle" => status[b][r] = "none" /\ r \notin todo[b]
                                /\ outcome[b] \in {"running", "rejected"}
        /\ r \in todo[b] => status[b][r] = "none" /\ Running(b)
        /\ at[b][r] # "idle" \/ r \in todo[b] \/ status[b][r] \in Good =>
             \A d \in deps[r] : status[b][d] \in Good

BatchInv == \A b \in Builds : InOrder(b) /\ \E w \in 0..N : InWaves(b, w)

LEMMA SameGraph ==
    ASSUME deps' = deps
    PROVE  /\ \A n : Before(n)' = Before(n)
           /\ Service!Circular' <=> Service!Circular
BY DEF Before, Wave, Service!Circular

LEMMA BatchFrame ==
    ASSUME BatchInv, NEW b \in Builds, deps' = deps, outcome'[b] = outcome[b], wave'[b] = wave[b],
           todo'[b] = todo[b], at'[b] = at[b], status'[b] = status[b]
    PROVE  (InOrder(b) /\ \E w \in 0..N : InWaves(b, w))'
<1>1. InOrder(b)'
    BY DEF BatchInv, InOrder, Running
<1>2. PICK w \in 0..N : InWaves(b, w)
    BY DEF BatchInv
<1>3. InWaves(b, w)'
    BY <1>2, SameGraph DEF InWaves, Running
<1> QED BY <1>1, <1>3

\* A step of batch b keeps what holds of the others.
LEMMA OnlyOneBatch ==
    ASSUME BatchInv, NEW b \in Builds, (InOrder(b) /\ \E w \in 0..N : InWaves(b, w))', deps' = deps,
           \A c \in Builds \ {b} : /\ outcome'[c] = outcome[c] /\ wave'[c] = wave[c]
                                   /\ todo'[c] = todo[c] /\ at'[c] = at[c] /\ status'[c] = status[c]
    PROVE  BatchInv'
<1>1. ASSUME NEW c \in Builds PROVE (InOrder(c) /\ \E w \in 0..N : InWaves(c, w))'
    <2>1. CASE c = b
        BY <2>1
    <2>2. CASE c # b
        BY <2>2, BatchFrame
    <2> QED BY <2>1, <2>2
<1> QED BY <1>1 DEF BatchInv

\* A rule goes on to its next step.
LEMMA MoveStep ==
    ASSUME TypeInv, BatchInv, NEW b \in Builds, NEW r \in Rules, at[b][r] # "idle", NEW step,
           step # "idle", at' = [at EXCEPT ![b][r] = step], UNCHANGED <<deps, outcome, wave, todo, status>>
    PROVE  BatchInv'
<1>1. /\ \A q \in Rules : at'[b][q] = IF q = r THEN step ELSE at[b][q]
      /\ \A c \in Builds \ {b} : at'[c] = at[c]
    BY DEF TypeInv, TypeOK
<1>2. InOrder(b)'
    BY <1>1 DEF BatchInv, InOrder, Running
<1>3. PICK w \in 0..N : InWaves(b, w)
    BY DEF BatchInv
<1>4. InWaves(b, w)'
    BY <1>1, <1>3, SameGraph DEF InWaves, Running
<1> QED BY <1>1, <1>2, <1>4, OnlyOneBatch

\* A rule is done: its dependencies have settled well, as the service has it.
LEMMA DoneStep ==
    ASSUME TypeInv, BatchInv, NEW b \in Builds, NEW r \in Rules, at[b][r] # "idle",
           NEW result \in {"success", "cached", "failure"}, Done(b, r, result),
           UNCHANGED <<deps, outcome, wave, todo>>
    PROVE  BatchInv' /\ Service!Settle(b)
<1>1. /\ \A q \in Rules : at'[b][q] = IF q = r THEN "idle" ELSE at[b][q]
      /\ \A q \in Rules : status'[b][q] = IF q = r THEN result ELSE status[b][q]
      /\ \A c \in Builds \ {b} : at'[c] = at[c] /\ status'[c] = status[c]
    BY DEF TypeInv, TypeOK, Done
<1>2. /\ status[b][r] = "none" /\ r \notin todo[b] /\ outcome[b] \in {"running", "rejected"}
      /\ \A d \in deps[r] : status[b][d] \in Good
    BY DEF BatchInv, InOrder
<1>3. deps \in Graph
    BY SizesAssumption DEF TypeInv, TypeOK, Graph
<1>4. InOrder(b)'
    <2>1. ASSUME NEW q \in Rules, at'[b][q] # "idle" \/ q \in todo'[b] \/ status'[b][q] \in Good
          PROVE  \A d \in deps[q] : status'[b][d] \in Good
        <3>1. \A d \in deps[q] : status[b][d] \in Good /\ d \in Rules
            BY <1>1, <1>2, <1>3, <2>1 DEF BatchInv, InOrder, Graph
        <3>2. r \notin deps[q]
            BY <1>2, <3>1 DEF Good
        <3> QED BY <1>1, <3>1, <3>2
    <2>2. ASSUME NEW q \in Rules
          PROVE  /\ at'[b][q] # "idle" => status'[b][q] = "none" /\ q \notin todo'[b]
                                         /\ outcome'[b] \in {"running", "rejected"}
                 /\ q \in todo'[b] => status'[b][q] = "none" /\ Running(b)'
        BY <1>1, <1>2 DEF BatchInv, InOrder, Running
    <2> QED BY <2>1, <2>2 DEF InOrder
<1>5. PICK w \in 0..N : InWaves(b, w)
    BY DEF BatchInv
<1>6. InWaves(b, w)'
    BY <1>1, <1>2, <1>5, SameGraph DEF InWaves, Running
<1>7. BatchInv'
    BY <1>1, <1>4, <1>6, OnlyOneBatch
<1>8. Service!Settle(b)
    <2>1. {q \in Rules : status'[b][q] # status[b][q]} = {r}
        BY <1>1, <1>2
    <2>2. status'[b][r] \in Service!Verdicts({status[b][d] : d \in deps[r]})
        BY <1>1, <1>2 DEF Service!Verdicts, Good
    <2>3. DOMAIN status'[b] = Rules /\ status' = [status EXCEPT ![b] = status'[b]]
        BY DEF Done, TypeInv, TypeOK
    <2> QED BY <1>2, <2>1, <2>2, <2>3 DEF Service!Settle
<1> QED BY <1>7, <1>8

LEMMA StartStep ==
    ASSUME TypeInv, BatchInv, NEW b \in Builds, StartBatch(b)
    PROVE  BatchInv' /\ Service!Begin(b)
<1>1. deps \in Graph /\ N \in Nat
    BY SizesAssumption, RulesAreFinite DEF TypeInv, TypeOK, Graph
<1>2. /\ ~Running(b) /\ \A r \in Rules : at[b][r] = "idle"
      /\ outcome' = [outcome EXCEPT ![b] = IF Cyclic THEN "rejected" ELSE "running"]
      /\ status' = [status EXCEPT ![b] = [r \in Rules |-> "none"]]
      /\ wave' = [wave EXCEPT ![b] = 0] /\ UNCHANGED <<deps, todo, at>>
    BY DEF StartBatch, InFlight
<1>3. /\ wave'[b] = 0 /\ (outcome'[b] = IF Cyclic THEN "rejected" ELSE "running")
      /\ \A r \in Rules : status'[b][r] = "none" /\ r \notin todo[b]
      /\ \A c \in Builds \ {b} : wave'[c] = wave[c] /\ outcome'[c] = outcome[c] /\ status'[c] = status[c]
    BY <1>2 DEF TypeInv, TypeOK, BatchInv, InOrder
<1>4. InOrder(b)'
    BY <1>2, <1>3 DEF InOrder, Good
<1>5. InWaves(b, 0)'
    <2>1. Before(0 + 1) = {} /\ Cardinality({}) = 0
        BY BeforeGrows, FS_EmptySet
    <2>2. Running(b)' => ~Service!Circular'
        BY <1>1, <1>2, <1>3, CyclicIsCircular, SameGraph DEF Running
    <2>3. Before(0 + 1)' = {}
        BY <1>2, <2>1, SameGraph
    <2> QED BY <1>2, <1>3, <2>1, <2>2, <2>3 DEF InWaves
<1>6. BatchInv'
    BY <1>1, <1>2, <1>3, <1>4, <1>5, OnlyOneBatch
<1>7. Service!Begin(b)
    BY <1>1, <1>2, CyclicIsCircular DEF Service!Begin, Service!Unsettled, Running
<1> QED BY <1>6, <1>7

\* The next wave: its rules have all they depend on settled, and are skipped if one of
\* these failed.
LEMMA WaveStep ==
    ASSUME TypeInv, BatchInv, NEW b \in Builds, NextWave(b)
    PROVE  /\ BatchInv' /\ wave'[b] \in 0..N
           /\ Service!Settle(b) \/ UNCHANGED Service!serviceVars
<1> DEFINE rules == Wave(wave[b] + 1)
           skipped == {r \in rules : DependencyFailed(b, r)}
<1>1. PICK w \in 0..N : InWaves(b, w)
    BY DEF BatchInv
<1>2. /\ w = wave[b] /\ w + 1 \in Numbers /\ w \in Nat /\ N \in Nat /\ w + 1 \in 1..(N + 2) /\ (w + 1) + 1 \in 1..(N + 2)
      /\ deps \in Graph /\ w <= Cardinality(Before(w + 1)) /\ Running(b) /\ ~Service!Circular
    BY <1>1, SizesAssumption, RulesAreFinite DEF InWaves, Numbers, TypeInv, TypeOK, Graph, NextWave
<1>3. /\ rules # {} /\ todo[b] = {} /\ \A r \in Rules : at[b][r] = "idle"
      /\ wave' = [wave EXCEPT ![b] = @ + 1] /\ todo' = [todo EXCEPT ![b] = rules \ skipped]
      /\ status' = [status EXCEPT ![b] = [r \in Rules |-> IF r \in skipped THEN "skipped" ELSE @[r]]]
      /\ UNCHANGED <<deps, outcome, at>>
    BY DEF NextWave, InFlight
<1>4. /\ Before((w + 1) + 1) = Before(w + 1) \union rules /\ Before(w + 1) \intersect rules = {}
      /\ rules \subseteq Rules /\ \A r \in rules : deps[r] \subseteq Before(w + 1)
    BY <1>2, BeforeGrows
<1>5. Before(w + 1) \subseteq Rules /\ Before((w + 1) + 1) \subseteq Rules
    BY <1>2, BeforeIsClosed
<1>6. \A r \in Rules : r \in Before(w + 1) <=> status[b][r] # "none"
    BY <1>1, <1>2, <1>3 DEF InWaves
<1> HIDE DEF rules
<1>7. /\ wave'[b] = w + 1 /\ todo'[b] = rules \ skipped
      /\ \A r \in Rules : status'[b][r] = IF r \in skipped THEN "skipped" ELSE status[b][r]
      /\ \A c \in Builds \ {b} : wave'[c] = wave[c] /\ todo'[c] = todo[c] /\ status'[c] = status[c]
    BY <1>2, <1>3 DEF TypeInv, TypeOK
<1>8. \A r \in rules : status[b][r] = "none" /\ r \in Rules /\ \A d \in deps[r] : d \in Rules /\ status[b][d] # "none"
    BY <1>4, <1>5, <1>6
<1>9. \A r \in rules \ skipped : \A d \in deps[r] : status[b][d] \in Good
    BY <1>8 DEF DependencyFailed, Good, TypeInv, TypeOK, Results
<1>10. w + 1 <= Cardinality(Before((w + 1) + 1)) /\ w + 1 <= N
    <2>1. Cardinality(Before(w + 1)) < Cardinality(Before((w + 1) + 1))
        BY <1>3, <1>4, <1>5, RulesCardinality
    <2>2. /\ Cardinality(Before(w + 1)) \in Nat /\ Cardinality(Before((w + 1) + 1)) \in Nat
          /\ Cardinality(Before((w + 1) + 1)) <= N
        BY <1>5, RulesCardinality
    <2> QED BY <1>2, <2>1, <2>2
<1>11. InOrder(b)'
    <2>1. ASSUME NEW r \in Rules, r \in todo'[b] \/ status'[b][r] \in Good
          PROVE  \A d \in deps[r] : status'[b][d] \in Good
        <3>1. \A d \in deps[r] : d \in Rules /\ status[b][d] \in Good
            BY <1>2, <1>7, <1>9, <2>1 DEF Graph, BatchInv, InOrder, Good
        <3>2. \A d \in deps[r] : d \notin skipped
            BY <1>8, <3>1 DEF Good
        <3> QED BY <1>7, <3>1, <3>2
    <2>2. \A r \in Rules : at'[b][r] = "idle"
        BY <1>3
    <2>3. \A r \in todo'[b] : status'[b][r] = "none" /\ Running(b)'
        BY <1>2, <1>3, <1>7, <1>8 DEF Running
    <2> QED BY <1>3, <2>1, <2>2, <2>3 DEF InOrder
<1>12. InWaves(b, w + 1)'
    <2>1. Before((w + 1) + 1)' = Before((w + 1) + 1)
        BY <1>3, SameGraph
    <2>2. ASSUME NEW r \in Rules
          PROVE  r \in Before((w + 1) + 1) <=> status'[b][r] # "none" \/ at'[b][r] # "idle" \/ r \in todo'[b]
        BY <1>3, <1>4, <1>6, <1>7
    <2>3. ~Service!Circular'
        BY <1>2, <1>3, SameGraph
    <2> QED BY <1>7, <1>10, <2>1, <2>2, <2>3 DEF InWaves
<1>13. BatchInv'
    BY <1>2, <1>3, <1>7, <1>10, <1>11, <1>12, OnlyOneBatch
<1>14. CASE skipped = {}
    <2>1. status' = status
        BY <1>3, <1>14 DEF TypeInv, TypeOK
    <2> QED BY <1>2, <1>3, <1>7, <1>10, <1>13, <2>1 DEF Service!serviceVars
<1>15. CASE skipped # {}
    <2> DEFINE settling == {r \in Rules : status'[b][r] # status[b][r]}
    <2>1. settling = skipped
        BY <1>7, <1>8
    <2>2. ASSUME NEW r \in skipped
          PROVE  status[b][r] = "none" /\ status'[b][r] \in Service!Verdicts({status[b][d] : d \in deps[r]})
        <3>1. PICK d \in deps[r] : status[b][d] \in {"failure", "skipped"}
            BY <2>2 DEF DependencyFailed
        <3>2. {status[b][e] : e \in deps[r]} \intersect {"failure", "skipped"} # {}
            BY <3>1
        <3> QED BY <1>7, <1>8, <2>2, <3>2 DEF Service!Verdicts
    <2>3. DOMAIN status'[b] = Rules /\ status' = [status EXCEPT ![b] = status'[b]]
        BY <1>3 DEF TypeInv, TypeOK
    <2>4. outcome[b] = "running"
        BY <1>2 DEF Running
    <2>5. Service!Settle(b)
        <3> HIDE DEF skipped
        <3> QED BY <1>3, <1>15, <2>1, <2>2, <2>3, <2>4 DEF Service!Settle
    <2> QED BY <1>2, <1>7, <1>10, <1>13, <2>5
<1> QED BY <1>14, <1>15

LEMMA SliceStep ==
    ASSUME TypeInv, BatchInv, NEW b \in Builds, NextSlice(b)
    PROVE  BatchInv'
<1> PICK slice \in SUBSET todo[b] :
        /\ at' = [at EXCEPT ![b] = [r \in Rules |-> IF r \notin slice THEN "idle"
                                                    ELSE IF ForceRebuild(b, r) THEN "run" ELSE "load"]]
        /\ todo' = [todo EXCEPT ![b] = @ \ slice]
    BY DEF NextSlice
<1>1. \A r \in Rules : at[b][r] = "idle"
    BY DEF NextSlice, InFlight
<1>2. UNCHANGED <<deps, outcome, wave, status>>
    BY DEF NextSlice
<1>3. /\ \A r \in Rules : at'[b][r] # "idle" <=> r \in slice
      /\ todo'[b] = todo[b] \ slice
      /\ \A c \in Builds \ {b} : at'[c] = at[c] /\ todo'[c] = todo[c]
    BY DEF TypeInv, TypeOK
<1>4. InOrder(b)'
    BY <1>1, <1>2, <1>3 DEF BatchInv, InOrder, Running
<1>5. PICK w \in 0..N : InWaves(b, w)
    BY DEF BatchInv
<1>6. InWaves(b, w)'
    BY <1>1, <1>2, <1>3, <1>5, SameGraph DEF InWaves, Running
<1> QED BY <1>2, <1>3, <1>4, <1>6, OnlyOneBatch

\* A batch that throws leaves the rules in flight behind, and starts no other one.
LEMMA ThrowStep ==
    ASSUME TypeInv, BatchInv, NEW b \in Builds, NEW r \in Rules, CompareThrows(b, r)
    PROVE  BatchInv' /\ (Service!Reject(b) \/ UNCHANGED Service!serviceVars)
<1>1. /\ at[b][r] # "idle" /\ Done(b, r, "none") /\ UNCHANGED <<deps, wave>>
      /\ outcome' = [outcome EXCEPT ![b] = "rejected"] /\ todo' = [todo EXCEPT ![b] = {}]
    BY DEF CompareThrows
<1>2. status[b][r] = "none" /\ outcome[b] \in {"running", "rejected"}
    BY <1>1 DEF BatchInv, InOrder
<1>3. status' = status
    BY <1>1, <1>2 DEF Done, TypeInv, TypeOK
<1>4. /\ \A q \in Rules : at'[b][q] # "idle" => at[b][q] # "idle"
      /\ todo'[b] = {} /\ outcome'[b] = "rejected"
      /\ \A c \in Builds \ {b} : at'[c] = at[c] /\ todo'[c] = todo[c] /\ outcome'[c] = outcome[c]
    BY <1>1 DEF TypeInv, TypeOK, Done
<1>5. InOrder(b)'
    BY <1>1, <1>3, <1>4 DEF BatchInv, InOrder
<1>6. PICK w \in 0..N : InWaves(b, w)
    BY DEF BatchInv
<1>7. InWaves(b, w)'
    BY <1>1, <1>4, <1>6, SameGraph DEF InWaves, Running
<1>8. BatchInv'
    BY <1>1, <1>3, <1>4, <1>5, <1>7, OnlyOneBatch
<1>9. outcome[b] = "rejected" => outcome' = outcome
    BY <1>1 DEF TypeInv, TypeOK
<1> QED BY <1>1, <1>2, <1>3, <1>8, <1>9 DEF Service!Reject, Service!serviceVars

\* No rule is left after the last wave.
LEMMA AllSettled ==
    ASSUME TypeInv, BatchInv, NEW b \in Builds, EndBatch(b)
    PROVE  \A r \in Rules : status[b][r] # "none"
<1>1. PICK w \in 0..N : InWaves(b, w)
    BY DEF BatchInv
<1>2. /\ w = wave[b] /\ w + 1 \in Numbers /\ deps \in Graph /\ ~Service!Circular /\ Wave(w + 1) = {}
      /\ Running(b) /\ todo[b] = {} /\ \A r \in Rules : at[b][r] = "idle"
    BY <1>1, SizesAssumption, RulesAreFinite DEF InWaves, Numbers, TypeInv, TypeOK, Graph, EndBatch, InFlight
<1> QED BY <1>1, <1>2, LastWaveIsLast DEF InWaves

\* So a batch is answered when every rule has settled.
LEMMA EndStep ==
    ASSUME TypeInv, BatchInv, NEW b \in Builds, EndBatch(b)
    PROVE  BatchInv' /\ Service!Answer(b)
<1>1. PICK w \in 0..N : InWaves(b, w)
    BY DEF BatchInv
<1>2. Running(b) /\ todo[b] = {} /\ \A r \in Rules : at[b][r] = "idle"
    BY DEF EndBatch, InFlight
<1>3. \A r \in Rules : status[b][r] # "none"
    BY AllSettled
<1>4. outcome' = [outcome EXCEPT ![b] = "answered"] /\ UNCHANGED <<deps, wave, todo, at, status>>
    BY DEF EndBatch
<1>5. outcome'[b] = "answered" /\ \A c \in Builds \ {b} : outcome'[c] = outcome[c]
    BY <1>4 DEF TypeInv, TypeOK
<1>6. InOrder(b)'
    BY <1>2, <1>4 DEF BatchInv, InOrder
<1>7. InWaves(b, w)'
    BY <1>1, <1>4, <1>5, SameGraph DEF InWaves, Running
<1>8. BatchInv'
    BY <1>4, <1>5, <1>6, <1>7, OnlyOneBatch
<1> QED BY <1>2, <1>3, <1>4, <1>8 DEF Service!Answer, Running

\* What each step is to the service.
LEMMA BatchNext ==
    ASSUME TypeInv, BatchInv, [Next]_vars
    PROVE  BatchInv' /\ (Service!ServiceNext \/ UNCHANGED Service!serviceVars)
<1>A. ASSUME UNCHANGED <<deps, batchVars>> PROVE BatchInv' /\ UNCHANGED Service!serviceVars
    <2>1. \A b \in Builds : (InOrder(b) /\ \E w \in 0..N : InWaves(b, w))'
        BY <1>A, BatchFrame DEF batchVars
    <2> QED BY <1>A, <2>1 DEF BatchInv, batchVars, Service!serviceVars
<1>1. ASSUME NEW b \in Builds, StartBatch(b) PROVE BatchInv' /\ Service!ServiceNext
    BY <1>1, StartStep DEF Service!ServiceNext
<1>2. ASSUME NEW b \in Builds, NextWave(b)
      PROVE  BatchInv' /\ (Service!ServiceNext \/ UNCHANGED Service!serviceVars)
    BY <1>2, WaveStep DEF Service!ServiceNext
<1>3. ASSUME NEW b \in Builds, NextSlice(b) PROVE BatchInv' /\ UNCHANGED Service!serviceVars
    BY <1>3, SliceStep DEF NextSlice, Service!serviceVars
<1>4. ASSUME NEW b \in Builds, EndBatch(b) PROVE BatchInv' /\ Service!ServiceNext
    BY <1>4, EndStep DEF Service!ServiceNext
<1>5. ASSUME NEW b \in Builds, NEW r \in Rules, RuleStep(b, r)
      PROVE  BatchInv' /\ (Service!ServiceNext \/ UNCHANGED Service!serviceVars)
    <2>1. CASE LoadCache(b, r)
        BY <2>1, MoveStep DEF LoadCache, Service!serviceVars
    <2>2. CASE CompareInputs(b, r)
        <3>1. CASE Done(b, r, "cached")
            BY <2>2, <3>1, DoneStep DEF CompareInputs, Service!ServiceNext
        <3>2. CASE at' = [at EXCEPT ![b][r] = "run"] /\ UNCHANGED <<entry, status>>
            BY <2>2, <3>2, MoveStep DEF CompareInputs, Service!serviceVars
        <3> QED BY <2>2, <3>1, <3>2 DEF CompareInputs
    <2>3. CASE CompareThrows(b, r)
        BY <2>3, ThrowStep DEF Service!ServiceNext
    <2>4. CASE CommandSucceeds(b, r)
        BY <2>4, MoveStep DEF CommandSucceeds, Service!serviceVars
    <2>5. CASE CommandFails(b, r)
        BY <2>5, DoneStep DEF CommandFails, Service!ServiceNext
    <2>6. CASE SaveCache(b, r)
        BY <2>6, DoneStep DEF SaveCache, Service!ServiceNext
    <2>7. CASE SaveFails(b, r)
        BY <2>7, DoneStep DEF SaveFails, Service!ServiceNext
    <2> QED BY <1>5, <2>1, <2>2, <2>3, <2>4, <2>5, <2>6, <2>7 DEF RuleStep
<1>6. ASSUME NEW r \in Rules, Edit(r) \/ ClearCache(r) PROVE BatchInv' /\ UNCHANGED Service!serviceVars
    BY <1>6, <1>A DEF Edit, ClearCache
<1>7. CASE UNCHANGED vars
    BY <1>7, <1>A DEF vars
<1> QED BY <1>1, <1>2, <1>3, <1>4, <1>5, <1>6, <1>7 DEF Next, BatchStep

LEMMA TypeInit == Init => TypeInv
<1> SUFFICES ASSUME Init PROVE TypeInv
    OBVIOUS
<1>1. N \in Nat /\ MaxEdits \in Nat /\ MaxBatches \in Nat
    BY SizesAssumption, RulesAreFinite
<1>2. /\ outcome \in [Builds -> Outcomes] /\ wave \in [Builds -> 0..Cardinality(Rules)]
      /\ todo \in [Builds -> SUBSET Rules] /\ lastRun \in [Rules -> {"none", "success", "failure"}]
    BY <1>1 DEF Init, Outcomes, N
<1>3. /\ source \in [Rules -> 1..(MaxEdits + 1)] /\ cache \in [Rules -> 0..(MaxEdits + 1)]
      /\ \A r \in Rules : source[r] <= edits + 1
    BY <1>1 DEF Init, NoEntry
<1>4. /\ at \in [Builds -> [Rules -> Steps]] /\ entry \in [Builds -> [Rules -> 0..(MaxEdits + 1)]]
      /\ status \in [Builds -> [Rules -> Results]]
    BY <1>1 DEF Init, Steps, Results, NoEntry
<1>5. deps \in RuleSets /\ batches \in 0..MaxBatches /\ edits \in 0..MaxEdits
    BY <1>1 DEF Init
<1>6. edited \in BOOLEAN /\ calm \in BOOLEAN
    BY DEF Init
<1> QED BY <1>2, <1>3, <1>4, <1>5, <1>6 DEF TypeInv, TypeOK

LEMMA TypeNext == TypeInv /\ BatchInv /\ [Next]_vars => TypeInv'
<1> SUFFICES ASSUME TypeInv, BatchInv, [Next]_vars PROVE TypeInv'
    OBVIOUS
<1> USE DEF TypeInv, TypeOK, fileVars, batchVars, historyVars
<1>0. N \in Nat /\ MaxEdits \in Nat /\ MaxBatches \in Nat
    BY SizesAssumption, RulesAreFinite
<1>1. ASSUME NEW b \in Builds, StartBatch(b) PROVE TypeInv'
    <2>1. status' \in [Builds -> [Rules -> Results]] /\ outcome' \in [Builds -> Outcomes]
        BY <1>1 DEF StartBatch, Outcomes, Results
    <2>2. wave' \in [Builds -> 0..Cardinality(Rules)] /\ batches' \in 0..MaxBatches
        BY <1>0, <1>1 DEF StartBatch, N
    <2> QED BY <1>1, <2>1, <2>2 DEF StartBatch
<1>2. ASSUME NEW b \in Builds, NextWave(b) PROVE TypeInv'
    <2> DEFINE rules == Wave(wave[b] + 1)
               skipped == {r \in rules : DependencyFailed(b, r)}
    <2>1. wave'[b] \in 0..N
        BY <1>2, WaveStep
    <2>2. rules \subseteq Rules
        BY <1>0, BeforeGrows DEF Numbers, N
    <2>3. /\ wave' = [wave EXCEPT ![b] = @ + 1] /\ todo' = [todo EXCEPT ![b] = rules \ skipped]
          /\ status' = [status EXCEPT ![b] = [r \in Rules |-> IF r \in skipped THEN "skipped" ELSE @[r]]]
          /\ UNCHANGED <<deps, fileVars, outcome, at, entry, batches, edits, historyVars>>
        BY <1>2 DEF NextWave
    <2> HIDE DEF rules, skipped
    <2>4. wave' \in [Builds -> 0..Cardinality(Rules)]
        BY <1>0, <2>1, <2>3 DEF N
    <2>5. todo' \in [Builds -> SUBSET Rules]
        BY <2>2, <2>3
    <2>6. status' \in [Builds -> [Rules -> Results]]
        BY <2>3 DEF Results
    <2> QED BY <2>3, <2>4, <2>5, <2>6
<1>3. ASSUME NEW b \in Builds, NextSlice(b) PROVE TypeInv'
    <2> PICK slice \in SUBSET todo[b] :
            /\ at' = [at EXCEPT ![b] = [r \in Rules |-> IF r \notin slice THEN "idle"
                                                        ELSE IF ForceRebuild(b, r) THEN "run" ELSE "load"]]
            /\ todo' = [todo EXCEPT ![b] = @ \ slice]
        BY <1>3 DEF NextSlice
    <2>1. at' \in [Builds -> [Rules -> Steps]]
        BY DEF Steps
    <2>2. todo' \in [Builds -> SUBSET Rules]
        OBVIOUS
    <2> QED BY <1>3, <2>1, <2>2 DEF NextSlice
<1>4. ASSUME NEW b \in Builds, EndBatch(b) PROVE TypeInv'
    BY <1>4 DEF EndBatch, Outcomes
<1>5. ASSUME NEW b \in Builds, NEW r \in Rules, RuleStep(b, r) PROVE TypeInv'
    <2>1. ASSUME NEW result \in Results, Done(b, r, result)
          PROVE  /\ at' \in [Builds -> [Rules -> Steps]] /\ status' \in [Builds -> [Rules -> Results]]
                 /\ entry' \in [Builds -> [Rules -> 0..(MaxEdits + 1)]]
        BY <1>0, <2>1 DEF Done, Steps, NoEntry
    <2>2. CASE LoadCache(b, r)
        BY <2>2 DEF LoadCache, Steps
    <2>3. CASE CompareInputs(b, r)
        <3>1. UNCHANGED <<deps, fileVars, outcome, wave, todo, batches, edits, historyVars>>
            BY <2>3 DEF CompareInputs
        <3>2. CASE Done(b, r, "cached")
            BY <2>1, <3>1, <3>2 DEF Results
        <3>3. CASE at' = [at EXCEPT ![b][r] = "run"] /\ UNCHANGED <<entry, status>>
            BY <3>1, <3>3 DEF Steps
        <3> QED BY <2>3, <3>2, <3>3 DEF CompareInputs
    <2>4. CASE CompareThrows(b, r)
        BY <2>1, <2>4 DEF CompareThrows, Outcomes, Results
    <2>5. CASE CommandSucceeds(b, r)
        BY <2>5 DEF CommandSucceeds, Steps
    <2>6. CASE CommandFails(b, r)
        BY <2>1, <2>6 DEF CommandFails, Results
    <2>7. CASE SaveCache(b, r)
        <3>1. cache' \in [Rules -> 0..(MaxEdits + 1)]
            BY <1>0, <2>7 DEF SaveCache
        <3> QED BY <2>1, <2>7, <3>1 DEF SaveCache, Results
    <2>8. CASE SaveFails(b, r)
        BY <2>1, <2>8 DEF SaveFails, Results
    <2> QED BY <1>5, <2>2, <2>3, <2>4, <2>5, <2>6, <2>7, <2>8 DEF RuleStep
<1>6. ASSUME NEW r \in Rules, Edit(r) PROVE TypeInv'
    <2>1. edits' \in 0..MaxEdits /\ source' \in [Rules -> 1..(MaxEdits + 1)]
          /\ \A q \in Rules : source'[q] <= edits' + 1
        BY <1>0, <1>6 DEF Edit
    <2>2. calm' \in BOOLEAN
        BY <1>6, Zenon DEF Edit
    <2> QED BY <1>6, <2>1, <2>2 DEF Edit
<1>7. ASSUME NEW r \in Rules, ClearCache(r) PROVE TypeInv'
    BY <1>0, <1>7 DEF ClearCache, NoEntry
<1>8. CASE UNCHANGED vars
    BY <1>8 DEF vars
<1> QED BY <1>1, <1>2, <1>3, <1>4, <1>5, <1>6, <1>7, <1>8 DEF Next, BatchStep

LEMMA BatchInit == Init => BatchInv
<1> SUFFICES ASSUME Init PROVE BatchInv
    OBVIOUS
<1>1. \A b \in Builds : /\ outcome[b] = "none" /\ todo[b] = {} /\ wave[b] = 0
                        /\ \A r \in Rules : at[b][r] = "idle" /\ status[b][r] = "none"
    BY DEF Init
<1>2. Before(0 + 1) = {} /\ Cardinality({}) = 0 /\ 0 \in 0..N
    BY BeforeGrows, FS_EmptySet, RulesAreFinite
<1>3. \A b \in Builds : InOrder(b)
    BY <1>1 DEF InOrder, Good
<1>4. \A b \in Builds : InWaves(b, 0)
    <2>1. 0 <= Cardinality(Before(0 + 1))
        BY <1>2
    <2> QED BY <1>1, <2>1 DEF InWaves, Running
<1> QED BY <1>2, <1>3, <1>4 DEF BatchInv

\* When a command runs, everything below its rule, directly or not, was built or found
\* cached in the same batch: waves put every rule after its dependencies, and what is
\* started has had no failure among them (executeBatch).
THEOREM CommandsWaitForDependencies == Spec => []DependenciesFirst
<1>1. TypeInv /\ BatchInv => DependenciesFirst
    <2> SUFFICES ASSUME TypeInv, BatchInv, NEW b \in Builds, NEW r \in Rules, at[b][r] \in {"run", "save"}
                 PROVE  \A d \in Below(r) : status[b][d] \in Good
        BY DEF DependenciesFirst, TypeInv, Good
    <2> DEFINE X == {d \in Rules : status[b][d] \in Good}
    <2>1. deps \in Graph
        BY SizesAssumption DEF TypeInv, TypeOK, Graph
    <2>2. deps[r] \subseteq X /\ \A d \in X \intersect Rules : deps[d] \subseteq X
        BY <2>1 DEF BatchInv, InOrder, Graph
    <2> HIDE DEF X
    <2>3. Below(r) \subseteq X
        BY <2>1, <2>2, BelowWithin
    <2> QED BY <2>3 DEF X
<1> QED BY <1>1, TypeInit, TypeNext, BatchInit, BatchNext, PTL DEF Spec

\* executeBatch, with its waves, slices and cache, is an implementation of the service:
\* every rule settles once, in view of what it depends on; a batch is answered when all
\* have; and a graph is refused exactly if it has a circle.
THEOREM ExecutorIsService == Spec => IsBuildService
<1>1. Init => Service!ServiceInit
    BY SizesAssumption DEF Init, Service!ServiceInit, Service!Unsettled
<1>2. TypeInv /\ BatchInv /\ [Next]_vars => BatchInv' /\ [Service!ServiceNext]_Service!serviceVars
    BY BatchNext
<1> QED BY <1>1, <1>2, TypeInit, TypeNext, BatchInit, PTL DEF Spec, IsBuildService, Service!ServiceSpec

-----------------------------------------------------------------------------
(* What is up to date *)

Fresh(r) == output[r] = Built(r)

\* Batch b will run the command of r, which it has not run yet: a dependency was rebuilt ...
Unsettled(b, r) == Running(b) /\ status[b][r] = "none"
Forced(b, r) ==
    /\ Unsettled(b, r) /\ at[b][r] \in {"idle", "run"}
    /\ \E d \in deps[r] : status[b][d] = "success" \/ at[b][d] = "save"

\* ... or the sources are not those of the cache entry, as it is or was loaded.
Outdated(b, r) ==
    /\ Unsettled(b, r)
    /\ \/ at[b][r] = "run"
       \/ at[b][r] = "compare" /\ entry[b][r] # source[r]
       \/ at[b][r] \in {"idle", "load"} /\ cache[r] # source[r]

\* Every version in the cache is one the sources have or had.
FilesInv == output = [r \in Rules |-> output[r]] /\ \A r \in Rules : cache[r] <= source[r]

\* Nothing has failed or was given up; a rule that asks the cache is not forced.
Quiet ==
    \A b \in Builds, r \in Rules :
        /\ at[b][r] # "idle" => Running(b)
        /\ status[b][r] \notin {"failure", "skipped"}
        /\ at[b][r] \in {"load", "compare"} => \A d \in deps[r] : status[b][d] # "success"

\* A rule that is not up to date and has a good cache entry, or is about to get one, is
\* rebuilt by a batch that rebuilt one of its dependencies.
StaleIsForced ==
    \A r \in Rules : \/ Fresh(r) \/ \E b \in Builds : Forced(b, r)
                     \/ cache[r] # source[r] /\ \A b \in Builds : at[b][r] # "save"

\* Since the last batch started, each rule that is not up to date is rebuilt by some batch.
StaleIsRebuilt ==
    ~edited /\ batches > 0 /\ ~Service!Circular =>
        \A r \in Rules : Fresh(r) \/ \E b \in Builds : Forced(b, r) \/ Outdated(b, r)

CalmInv == FilesInv /\ (calm => Quiet /\ StaleIsForced /\ StaleIsRebuilt)

LEMMA FreshKept ==
    ASSUME deps' = deps, NEW r \in Rules, source'[r] = source[r], output'[r] = output[r],
           \A d \in deps[r] : output'[d] = output[d], Fresh(r)
    PROVE  Fresh(r)'
<1>1. [d \in deps[r] |-> output'[d]] = [d \in deps[r] |-> output[d]]
    OBVIOUS
<1> QED BY <1>1 DEF Fresh, Built

\* A step of batch b that only changes the batch, and leaves it with what it is to rebuild.
LEMMA CalmStep ==
    ASSUME TypeInv, CalmInv, NEW b \in Builds, UNCHANGED <<deps, fileVars, batches, edited, calm>>,
           \A c \in Builds \ {b} : /\ outcome'[c] = outcome[c] /\ at'[c] = at[c]
                                   /\ status'[c] = status[c] /\ entry'[c] = entry[c],
           calm => Quiet',
           calm => \A r \in Rules : /\ Forced(b, r) => Forced(b, r)'
                                    /\ Outdated(b, r) => Outdated(b, r)'
                                    /\ at'[b][r] = "save" => at[b][r] = "save"
    PROVE  CalmInv'
<1>1. FilesInv'
    BY DEF CalmInv, FilesInv, fileVars
<1> SUFFICES ASSUME calm PROVE StaleIsForced' /\ StaleIsRebuilt'
    BY <1>1 DEF CalmInv
<1>2. \A r \in Rules : Fresh(r) => Fresh(r)'
    BY FreshKept DEF fileVars, TypeInv, TypeOK
<1>3. ASSUME NEW c \in Builds, NEW r \in Rules
      PROVE  /\ Forced(c, r) => Forced(c, r)'
             /\ Outdated(c, r) => Outdated(c, r)'
             /\ at'[c][r] = "save" => at[c][r] = "save"
    <2>1. CASE c = b
        BY <2>1
    <2>2. CASE c # b
        BY <2>2 DEF Forced, Outdated, Unsettled, Running, fileVars
    <2> QED BY <2>1, <2>2
<1>4. StaleIsForced'
    BY <1>2, <1>3 DEF CalmInv, StaleIsForced, fileVars
<1>5. StaleIsRebuilt'
    <2>1. Service!Circular' <=> Service!Circular
        BY SameGraph
    <2> QED BY <1>2, <1>3, <2>1 DEF CalmInv, StaleIsRebuilt
<1> QED BY <1>4, <1>5

LEMMA CalmWave ==
    ASSUME TypeInv, CalmInv, NEW b \in Builds, NextWave(b)
    PROVE  CalmInv'
<1> DEFINE skipped == {r \in Wave(wave[b] + 1) : DependencyFailed(b, r)}
<1>1. /\ status' = [status EXCEPT ![b] = [r \in Rules |-> IF r \in skipped THEN "skipped" ELSE @[r]]]
      /\ UNCHANGED <<deps, fileVars, outcome, at, entry, batches, edits, historyVars>>
    BY DEF NextWave
<1>2. ASSUME calm PROVE status' = status
    <2>1. \A r \in Rules : r \notin skipped
        <3>1. deps \in Graph
            BY SizesAssumption DEF TypeInv, TypeOK, Graph
        <3> QED BY <1>2, <3>1 DEF CalmInv, Quiet, DependencyFailed, Graph
    <2> HIDE DEF skipped
    <2> QED BY <1>1, <2>1 DEF TypeInv, TypeOK
<1>3. calm => Quiet'
    BY <1>1, <1>2 DEF CalmInv, Quiet, Running
<1>4. calm => \A r \in Rules : /\ Forced(b, r) => Forced(b, r)'
                               /\ Outdated(b, r) => Outdated(b, r)'
                               /\ at'[b][r] = "save" => at[b][r] = "save"
    BY <1>1, <1>2 DEF Forced, Outdated, Unsettled, Running, fileVars
<1>5. \A c \in Builds \ {b} : /\ outcome'[c] = outcome[c] /\ at'[c] = at[c]
                              /\ status'[c] = status[c] /\ entry'[c] = entry[c]
    BY <1>1 DEF TypeInv, TypeOK
<1> QED BY <1>1, <1>3, <1>4, <1>5, CalmStep DEF historyVars

\* A forced rule of the slice is run, another one asks the cache.
LEMMA CalmSlice ==
    ASSUME TypeInv, BatchInv, CalmInv, NEW b \in Builds, NextSlice(b)
    PROVE  CalmInv'
<1> PICK slice \in SUBSET todo[b] :
        at' = [at EXCEPT ![b] = [r \in Rules |-> IF r \notin slice THEN "idle"
                                                 ELSE IF ForceRebuild(b, r) THEN "run" ELSE "load"]]
    BY DEF NextSlice
<1>1. \A r \in Rules : at[b][r] = "idle"
    BY DEF NextSlice, InFlight
<1>2. UNCHANGED <<deps, fileVars, outcome, entry, status, batches, historyVars>>
    BY DEF NextSlice
<1>3. /\ \A r \in Rules : at'[b][r] = IF r \notin slice THEN "idle"
                                      ELSE IF ForceRebuild(b, r) THEN "run" ELSE "load"
      /\ \A c \in Builds \ {b} : at'[c] = at[c]
    BY DEF TypeInv, TypeOK
<1>4. \A r \in Rules : r \in slice => Running(b) /\ r \in todo[b]
    BY DEF BatchInv, InOrder
<1>5. deps \in Graph
    BY SizesAssumption DEF TypeInv, TypeOK, Graph
<1>6. ASSUME calm PROVE Quiet'
    <2>1. ASSUME NEW c \in Builds, NEW r \in Rules
          PROVE  /\ at'[c][r] # "idle" => Running(c)'
                 /\ at'[c][r] \in {"load", "compare"} => \A d \in deps'[r] : status'[c][d] # "success"
        <3>1. CASE c = b
            BY <1>2, <1>3, <1>4, <3>1 DEF ForceRebuild, Running
        <3>2. CASE c # b
            BY <1>2, <1>3, <1>6, <3>2 DEF CalmInv, Quiet, Running
        <3> QED BY <3>1, <3>2
    <2> QED BY <1>2, <1>6, <2>1 DEF CalmInv, Quiet
<1>7. ASSUME NEW r \in Rules
      PROVE  /\ Forced(b, r) => Forced(b, r)'
             /\ Outdated(b, r) => Outdated(b, r)'
             /\ at'[b][r] = "save" => at[b][r] = "save"
    <2>1. Forced(b, r) => Forced(b, r)'
        <3>1. \A d \in deps[r] : at[b][d] # "save"
            BY <1>1, <1>5 DEF Graph
        <3> QED BY <1>2, <1>3, <3>1 DEF Forced, Unsettled, Running, ForceRebuild
    <2>2. Outdated(b, r) => Outdated(b, r)'
        BY <1>1, <1>2, <1>3 DEF Outdated, Unsettled, Running, fileVars
    <2>3. at'[b][r] # "save"
        BY <1>3
    <2> QED BY <2>1, <2>2, <2>3
<1> QED BY <1>2, <1>3, <1>6, <1>7, CalmStep DEF historyVars

LEMMA CalmEnd ==
    ASSUME TypeInv, BatchInv, CalmInv, NEW b \in Builds, EndBatch(b)
    PROVE  CalmInv'
<1>1. /\ outcome' = [outcome EXCEPT ![b] = "answered"] /\ \A r \in Rules : at[b][r] = "idle"
      /\ UNCHANGED <<deps, fileVars, at, entry, status, batches, historyVars>>
    BY DEF EndBatch, InFlight
<1>2. \A c \in Builds \ {b} : outcome'[c] = outcome[c]
    BY <1>1 DEF TypeInv, TypeOK
<1>3. calm => Quiet'
    BY <1>1, <1>2 DEF CalmInv, Quiet, Running
<1>4. \A r \in Rules : ~Forced(b, r) /\ ~Outdated(b, r)
    BY AllSettled DEF Forced, Outdated, Unsettled
<1> QED BY <1>1, <1>2, <1>3, <1>4, CalmStep DEF historyVars

LEMMA CalmLoad ==
    ASSUME TypeInv, CalmInv, NEW b \in Builds, NEW r \in Rules, LoadCache(b, r)
    PROVE  CalmInv'
<1>1. /\ at[b][r] = "load" /\ entry' = [entry EXCEPT ![b][r] = cache[r]]
      /\ at' = [at EXCEPT ![b][r] = IF cache[r] = NoEntry THEN "run" ELSE "compare"]
      /\ UNCHANGED <<deps, fileVars, outcome, status, batches, historyVars>>
    BY DEF LoadCache
<1>2. /\ at'[b][r] = (IF cache[r] = NoEntry THEN "run" ELSE "compare") /\ entry'[b][r] = cache[r]
      /\ \A q \in Rules \ {r} : at'[b][q] = at[b][q] /\ entry'[b][q] = entry[b][q]
      /\ \A c \in Builds \ {b} : at'[c] = at[c] /\ entry'[c] = entry[c]
    BY <1>1 DEF TypeInv, TypeOK
<1>3. ASSUME calm PROVE Quiet'
    BY <1>1, <1>2, <1>3 DEF CalmInv, Quiet, Running
<1>4. deps \in Graph
    BY SizesAssumption DEF TypeInv, TypeOK, Graph
<1>5. ASSUME NEW q \in Rules
      PROVE  /\ Forced(b, q) => Forced(b, q)'
             /\ Outdated(b, q) => Outdated(b, q)'
             /\ at'[b][q] = "save" => at[b][q] = "save"
    <2>1. Forced(b, q) => Forced(b, q)'
        BY <1>1, <1>2, <1>4 DEF Forced, Unsettled, Running, Graph
    <2>2. Outdated(b, q) => Outdated(b, q)'
        BY <1>1, <1>2 DEF Outdated, Unsettled, Running, fileVars
    <2> QED BY <1>2, <2>1, <2>2
<1> QED BY <1>1, <1>2, <1>3, <1>5, CalmStep DEF historyVars

LEMMA CalmCompare ==
    ASSUME TypeInv, BatchInv, CalmInv, NEW b \in Builds, NEW r \in Rules, CompareInputs(b, r)
    PROVE  CalmInv'
<1>1. /\ at[b][r] = "compare" /\ UNCHANGED <<deps, fileVars, outcome, batches, historyVars>>
      /\ \/ entry[b][r] = source[r] /\ Done(b, r, "cached")
         \/ entry[b][r] # source[r] /\ at' = [at EXCEPT ![b][r] = "run"] /\ UNCHANGED <<entry, status>>
    BY DEF CompareInputs
<1>2. deps \in Graph /\ status[b][r] = "none"
    BY <1>1, SizesAssumption DEF TypeInv, TypeOK, Graph, BatchInv, InOrder
<1>3. /\ \A q \in Rules \ {r} : /\ at'[b][q] = at[b][q] /\ entry'[b][q] = entry[b][q]
                                /\ status'[b][q] = status[b][q]
      /\ \A c \in Builds \ {b} : at'[c] = at[c] /\ entry'[c] = entry[c] /\ status'[c] = status[c]
      /\ \/ entry[b][r] = source[r] /\ at'[b][r] = "idle" /\ status'[b][r] = "cached"
         \/ entry[b][r] # source[r] /\ at'[b][r] = "run" /\ status'[b][r] = "none"
    BY <1>1, <1>2 DEF TypeInv, TypeOK, Done
<1>4. ASSUME calm PROVE Quiet'
    BY <1>1, <1>2, <1>3, <1>4 DEF CalmInv, Quiet, Running, Graph
<1>5. ASSUME NEW q \in Rules
      PROVE  /\ Forced(b, q) => Forced(b, q)'
             /\ Outdated(b, q) => Outdated(b, q)'
             /\ at'[b][q] = "save" => at[b][q] = "save"
    <2>1. Forced(b, q) => Forced(b, q)'
        BY <1>1, <1>2, <1>3 DEF Forced, Unsettled, Running, Graph
    <2>2. Outdated(b, q) => Outdated(b, q)'
        BY <1>1, <1>3 DEF Outdated, Unsettled, Running, fileVars
    <2> QED BY <1>3, <2>1, <2>2
<1> QED BY <1>1, <1>3, <1>4, <1>5, CalmStep DEF historyVars

\* A cache entry is saved for a rule that is up to date, or will be forced.
LEMMA CalmSave ==
    ASSUME TypeInv, BatchInv, CalmInv, NEW b \in Builds, NEW r \in Rules, SaveCache(b, r)
    PROVE  CalmInv'
<1>1. /\ at[b][r] = "save" /\ cache' = [cache EXCEPT ![r] = source[r]] /\ Done(b, r, "success")
      /\ UNCHANGED <<deps, source, output, outcome, batches, historyVars>>
    BY DEF SaveCache
<1>2. deps \in Graph
    BY SizesAssumption DEF TypeInv, TypeOK, Graph
<1>3. /\ \A q \in Rules \ {r} : /\ at'[b][q] = at[b][q] /\ entry'[b][q] = entry[b][q]
                                /\ status'[b][q] = status[b][q]
      /\ \A c \in Builds \ {b} : at'[c] = at[c] /\ entry'[c] = entry[c] /\ status'[c] = status[c]
      /\ at'[b][r] = "idle" /\ status'[b][r] = "success"
      /\ \A q \in Rules : cache'[q] = IF q = r THEN source[r] ELSE cache[q]
    BY <1>1 DEF TypeInv, TypeOK, Done
<1>4. FilesInv'
    BY <1>1, <1>3 DEF CalmInv, FilesInv, TypeInv, TypeOK
<1> SUFFICES ASSUME calm PROVE Quiet' /\ StaleIsForced' /\ StaleIsRebuilt'
    BY <1>1, <1>4 DEF CalmInv, historyVars
<1>5. Quiet'
    <2>1. ASSUME NEW q \in Rules, at[b][q] # "idle" PROVE r \notin deps[q]
        BY <1>1, <2>1 DEF BatchInv, InOrder, Good
    <2>2. ASSUME NEW q \in Rules PROVE at'[b][q] # "idle" => at'[b][q] = at[b][q] /\ q # r
        BY <1>3
    <2> QED BY <1>1, <1>2, <1>3, <2>1, <2>2 DEF CalmInv, Quiet, Running, Graph
<1>6. \A q \in Rules : Fresh(q) => Fresh(q)'
    BY <1>1, <1>2, FreshKept DEF Graph
<1>7. ASSUME NEW c \in Builds, NEW q \in Rules, Forced(c, q) PROVE Forced(c, q)'
    <2>1. CASE c = b
        <3>1. q # r
            BY <1>1, <1>7, <2>1 DEF Forced
        <3> QED BY <1>1, <1>2, <1>3, <1>7, <2>1, <3>1 DEF Forced, Unsettled, Running, Graph
    <2>2. CASE c # b
        BY <1>1, <1>3, <1>7, <2>2 DEF Forced, Unsettled, Running
    <2> QED BY <2>1, <2>2
<1>8. ASSUME NEW c \in Builds, NEW q \in Rules \ {r}, Outdated(c, q) PROVE Outdated(c, q)'
    BY <1>1, <1>3, <1>8 DEF Outdated, Unsettled, Running
<1>9. Fresh(r) \/ \E c \in Builds : Forced(c, r)
    BY <1>1 DEF CalmInv, StaleIsForced
<1>10. StaleIsForced'
    <2>1. ASSUME NEW q \in Rules \ {r}
          PROVE  cache'[q] = cache[q] /\ source'[q] = source[q] /\ \A c \in Builds : at'[c][q] = at[c][q]
        BY <1>1, <1>3
    <2> QED BY <1>6, <1>7, <1>9, <2>1 DEF CalmInv, StaleIsForced
<1>11. StaleIsRebuilt'
    <2>1. Service!Circular' <=> Service!Circular
        BY <1>1, SameGraph
    <2> QED BY <1>1, <1>6, <1>7, <1>8, <1>9, <2>1 DEF CalmInv, StaleIsRebuilt, historyVars
<1> QED BY <1>5, <1>10, <1>11

\* A command brings its rule up to date; the rules above it are behind then, and forced.
LEMMA CalmCommand ==
    ASSUME TypeInv, BatchInv, CalmInv, NEW b \in Builds, NEW r \in Rules, CommandSucceeds(b, r)
    PROVE  CalmInv'
<1>1. /\ at[b][r] = "run" /\ output' = [output EXCEPT ![r] = Built(r)]
      /\ at' = [at EXCEPT ![b][r] = "save"]
      /\ UNCHANGED <<deps, source, cache, outcome, entry, status, batches, edited, calm>>
    BY DEF CommandSucceeds
<1>2. deps \in Graph /\ status[b][r] = "none"
    BY <1>1, SizesAssumption DEF TypeInv, TypeOK, Graph, BatchInv, InOrder
<1>3. /\ \A q \in Rules \ {r} : at'[b][q] = at[b][q]
      /\ \A c \in Builds \ {b} : at'[c] = at[c]
      /\ at'[b][r] = "save"
      /\ \A q \in Rules : output'[q] = IF q = r THEN Built(r) ELSE output[q]
    BY <1>1 DEF TypeInv, TypeOK, CalmInv, FilesInv
<1>4. FilesInv'
    BY <1>1 DEF CalmInv, FilesInv
<1> SUFFICES ASSUME calm PROVE Quiet' /\ StaleIsForced' /\ StaleIsRebuilt'
    BY <1>1, <1>4 DEF CalmInv
<1>5. Running(b)
    BY <1>1 DEF CalmInv, Quiet
<1>6. Quiet'
    BY <1>1, <1>2, <1>3, <1>5 DEF CalmInv, Quiet, Running, Graph
<1>7. r \notin deps[r]
    <2>1. ~Service!Circular
        BY <1>5 DEF BatchInv, InWaves
    <2>2. {r} \in (SUBSET Rules) \ {{}}
        OBVIOUS
    <2> QED BY <2>1, <2>2 DEF Service!Circular
<1>8. Fresh(r)'
    <2>1. [d \in deps[r] |-> output'[d]] = [d \in deps[r] |-> output[d]]
        BY <1>2, <1>3, <1>7 DEF Graph
    <2> QED BY <1>1, <1>3, <2>1 DEF Fresh, Built
<1>9. ASSUME NEW q \in Rules \ {r}, r \notin deps[q], Fresh(q) PROVE Fresh(q)'
    BY <1>1, <1>2, <1>3, <1>9, FreshKept DEF Graph
<1>10. ASSUME NEW q \in Rules, r \in deps[q] PROVE Forced(b, q)'
    <2>1. at[b][q] = "idle" /\ status[b][q] \notin Good
        BY <1>2, <1>10 DEF BatchInv, InOrder, Good
    <2>2. status[b][q] = "none" /\ q # r
        BY <1>7, <1>10, <2>1 DEF CalmInv, Quiet, TypeInv, TypeOK, Results, Good
    <2> QED BY <1>1, <1>3, <1>5, <1>10, <2>1, <2>2 DEF Forced, Unsettled, Running
<1>11. ASSUME NEW c \in Builds, NEW q \in Rules \ {r}
       PROVE  /\ Forced(c, q) => Forced(c, q)'
              /\ Outdated(c, q) => Outdated(c, q)'
              /\ at'[c][q] = at[c][q]
    <2>1. at'[c][q] = at[c][q]
        BY <1>3
    <2>2. Forced(c, q) => Forced(c, q)'
        <3>1. \A d \in deps[q] : at[c][d] = "save" => at'[c][d] = "save"
            BY <1>2, <1>3 DEF Graph
        <3> QED BY <1>1, <2>1, <3>1 DEF Forced, Unsettled, Running
    <2>3. Outdated(c, q) => Outdated(c, q)'
        BY <1>1, <2>1 DEF Outdated, Unsettled, Running
    <2> QED BY <2>1, <2>2, <2>3
<1>12. StaleIsForced'
    BY <1>1, <1>8, <1>9, <1>10, <1>11 DEF CalmInv, StaleIsForced
<1>13. StaleIsRebuilt'
    <2>1. Service!Circular' <=> Service!Circular
        BY <1>1, SameGraph
    <2> QED BY <1>1, <1>8, <1>9, <1>10, <1>11, <2>1 DEF CalmInv, StaleIsRebuilt
<1> QED BY <1>6, <1>12, <1>13

\* A batch that starts rebuilds what has no good cache entry; of the rest some batch that
\* is under way rebuilds what is behind.
LEMMA CalmStart ==
    ASSUME TypeInv, BatchInv, CalmInv, NEW b \in Builds, StartBatch(b)
    PROVE  CalmInv'
<1>1. /\ ~Running(b) /\ \A r \in Rules : at[b][r] = "idle"
      /\ outcome' = [outcome EXCEPT ![b] = IF Cyclic THEN "rejected" ELSE "running"]
      /\ status' = [status EXCEPT ![b] = [r \in Rules |-> "none"]]
      /\ UNCHANGED <<deps, fileVars, at, entry, calm>>
    BY DEF StartBatch, InFlight
<1>2. /\ outcome'[b] = (IF Cyclic THEN "rejected" ELSE "running") /\ \A r \in Rules : status'[b][r] = "none"
      /\ \A c \in Builds \ {b} : outcome'[c] = outcome[c] /\ status'[c] = status[c]
    BY <1>1 DEF TypeInv, TypeOK
<1>3. deps \in Graph
    BY SizesAssumption DEF TypeInv, TypeOK, Graph
<1>4. FilesInv'
    BY <1>1 DEF CalmInv, FilesInv, fileVars
<1> SUFFICES ASSUME calm PROVE Quiet' /\ StaleIsForced' /\ StaleIsRebuilt'
    BY <1>1, <1>4 DEF CalmInv
<1>5. Quiet'
    BY <1>1, <1>2 DEF CalmInv, Quiet, Running
<1>6. \A r \in Rules : Fresh(r) => Fresh(r)'
    BY <1>1, <1>3, FreshKept DEF Graph, fileVars
<1>7. ASSUME NEW c \in Builds, NEW r \in Rules, Forced(c, r) PROVE Forced(c, r)'
    <2>1. c # b
        BY <1>1, <1>7 DEF Forced, Unsettled
    <2> QED BY <1>1, <1>2, <1>7, <2>1 DEF Forced, Unsettled, Running
<1>8. StaleIsForced'
    BY <1>1, <1>6, <1>7 DEF CalmInv, StaleIsForced, fileVars
<1>9. StaleIsRebuilt'
    <2>1. SUFFICES ASSUME ~Service!Circular, NEW r \in Rules, cache[r] # source[r] PROVE Outdated(b, r)'
        <3>1. Service!Circular' <=> Service!Circular
            BY <1>1, SameGraph
        <3> QED BY <1>6, <1>7, <3>1 DEF CalmInv, StaleIsForced, StaleIsRebuilt
    <2>2. outcome'[b] = "running"
        BY <1>2, <1>3, <2>1, CyclicIsCircular
    <2> QED BY <1>1, <1>2, <2>1, <2>2 DEF Outdated, Unsettled, Running, fileVars
<1> QED BY <1>5, <1>8, <1>9

\* An edit leaves a version that no cache entry has.
LEMMA CalmEdit ==
    ASSUME TypeInv, CalmInv, NEW r \in Rules, Edit(r)
    PROVE  CalmInv'
<1>1. /\ source' = [source EXCEPT ![r] = @ + 1] /\ edited' = TRUE
      /\ UNCHANGED <<deps, output, cache, batchVars>>
    BY DEF Edit
<1>2. calm' => calm /\ \A b \in Builds : ~Running(b)
    BY Zenon DEF Edit
<1>3. \A q \in Rules : /\ cache[q] \in Nat /\ source[q] \in Nat /\ cache[q] <= source[q]
                       /\ source'[q] = IF q = r THEN source[q] + 1 ELSE source[q]
    BY <1>1, SizesAssumption DEF TypeInv, TypeOK, CalmInv, FilesInv
<1>4. FilesInv'
    BY <1>1, <1>3 DEF CalmInv, FilesInv
<1>5. deps \in Graph
    BY SizesAssumption DEF TypeInv, TypeOK, Graph
<1> SUFFICES ASSUME calm' PROVE Quiet' /\ StaleIsForced' /\ StaleIsRebuilt'
    BY <1>4 DEF CalmInv
<1>6. calm /\ \A b \in Builds : ~Running(b)
    BY <1>2
<1>7. Quiet'
    BY <1>1, <1>6 DEF CalmInv, Quiet, Running, batchVars
<1>8. \A q \in Rules \ {r} : Fresh(q) => Fresh(q)'
    BY <1>1, <1>3, <1>5, FreshKept DEF Graph
<1>9. StaleIsForced'
    <2>1. ASSUME NEW q \in Rules, ~Fresh(q)'
          PROVE  cache'[q] # source'[q] /\ \A b \in Builds : at'[b][q] # "save"
        <3>1. \A b \in Builds : at'[b][q] # "save"
            BY <1>1, <1>6 DEF CalmInv, Quiet, batchVars
        <3>2. CASE q = r
            BY <1>1, <1>3, <3>1, <3>2
        <3>3. CASE q # r
            BY <1>1, <1>3, <1>6, <1>8, <2>1, <3>1, <3>3 DEF CalmInv, StaleIsForced, Forced, Unsettled
        <3> QED BY <3>2, <3>3
    <2> QED BY <2>1 DEF StaleIsForced
<1>10. StaleIsRebuilt'
    BY <1>1 DEF StaleIsRebuilt
<1> QED BY <1>7, <1>9, <1>10

LEMMA CalmClear ==
    ASSUME TypeInv, CalmInv, NEW r \in Rules, ClearCache(r)
    PROVE  CalmInv'
<1>1. /\ cache' = [cache EXCEPT ![r] = NoEntry]
      /\ UNCHANGED <<deps, source, output, batchVars, batches, edited, calm>>
    BY DEF ClearCache, historyVars
<1>2. \A q \in Rules : cache'[q] <= source[q] /\ (cache[q] # source[q] => cache'[q] # source[q])
    BY <1>1, SizesAssumption DEF TypeInv, TypeOK, CalmInv, FilesInv, NoEntry
<1>3. FilesInv'
    BY <1>1, <1>2 DEF CalmInv, FilesInv
<1>4. deps \in Graph
    BY SizesAssumption DEF TypeInv, TypeOK, Graph
<1> SUFFICES ASSUME calm PROVE Quiet' /\ StaleIsForced' /\ StaleIsRebuilt'
    BY <1>1, <1>3 DEF CalmInv
<1>5. Quiet'
    BY <1>1 DEF CalmInv, Quiet, Running, batchVars
<1>6. \A q \in Rules : Fresh(q) => Fresh(q)'
    BY <1>1, <1>4, FreshKept DEF Graph
<1>7. \A c \in Builds, q \in Rules : /\ Forced(c, q) => Forced(c, q)'
                                     /\ Outdated(c, q) => Outdated(c, q)'
    BY <1>1, <1>2 DEF Forced, Outdated, Unsettled, Running, batchVars
<1>8. StaleIsForced'
    BY <1>1, <1>2, <1>6, <1>7 DEF CalmInv, StaleIsForced, batchVars
<1>9. StaleIsRebuilt'
    <2>1. Service!Circular' <=> Service!Circular
        BY <1>1, SameGraph
    <2> QED BY <1>1, <1>6, <1>7, <2>1 DEF CalmInv, StaleIsRebuilt
<1> QED BY <1>5, <1>8, <1>9

LEMMA CalmNext == TypeInv /\ BatchInv /\ CalmInv /\ [Next]_vars => CalmInv'
<1> SUFFICES ASSUME TypeInv, BatchInv, CalmInv, [Next]_vars PROVE CalmInv'
    OBVIOUS
<1>A. ASSUME ~calm', UNCHANGED fileVars PROVE CalmInv'
    BY <1>A DEF CalmInv, FilesInv, fileVars
<1>1. ASSUME NEW b \in Builds, StartBatch(b) \/ NextWave(b) \/ NextSlice(b) \/ EndBatch(b) PROVE CalmInv'
    BY <1>1, CalmStart, CalmWave, CalmSlice, CalmEnd
<1>2. ASSUME NEW b \in Builds, NEW r \in Rules, RuleStep(b, r) PROVE CalmInv'
    <2>1. CASE CompareThrows(b, r) \/ CommandFails(b, r) \/ SaveFails(b, r)
        BY <1>A, <2>1 DEF CompareThrows, CommandFails, SaveFails
    <2>2. CASE LoadCache(b, r) \/ CompareInputs(b, r) \/ CommandSucceeds(b, r) \/ SaveCache(b, r)
        BY <2>2, CalmLoad, CalmCompare, CalmCommand, CalmSave
    <2> QED BY <1>2, <2>1, <2>2 DEF RuleStep
<1>3. ASSUME NEW r \in Rules, Edit(r) \/ ClearCache(r) PROVE CalmInv'
    BY <1>3, CalmEdit, CalmClear
<1>4. CASE UNCHANGED vars
    <2>1. \A r \in Rules : Fresh(r)' <=> Fresh(r)
        BY <1>4 DEF vars, fileVars, Fresh, Built
    <2>2. Service!Circular' <=> Service!Circular
        BY <1>4, SameGraph DEF vars
    <2>3. \A b \in Builds, r \in Rules : (Forced(b, r)' <=> Forced(b, r)) /\ (Outdated(b, r)' <=> Outdated(b, r))
        BY <1>4 DEF vars, fileVars, batchVars, Forced, Outdated, Unsettled, Running
    <2>4. FilesInv' /\ (Quiet => Quiet')
        BY <1>4 DEF vars, fileVars, batchVars, CalmInv, FilesInv, Quiet, Running
    <2> QED BY <1>4, <2>1, <2>2, <2>3, <2>4
            DEF vars, fileVars, batchVars, historyVars, CalmInv, StaleIsForced, StaleIsRebuilt
<1> QED BY <1>1, <1>2, <1>3, <1>4 DEF Next, BatchStep

LEMMA CalmInit == Init => CalmInv
<1> SUFFICES ASSUME Init PROVE CalmInv
    OBVIOUS
<1>1. output = [r \in Rules |-> NoOutput] /\ \A r \in Rules : cache[r] = 0 /\ source[r] = 1
    BY DEF Init, NoEntry
<1>2. \A b \in Builds, r \in Rules : at[b][r] = "idle" /\ status[b][r] = "none"
    BY DEF Init
<1>3. FilesInv
    BY <1>1 DEF FilesInv
<1> QED BY <1>1, <1>2, <1>3 DEF CalmInv, Quiet, StaleIsForced, StaleIsRebuilt, Init

\* When nothing failed and no file was edited meanwhile, and all batches that followed
\* the last edit are over, however they overlapped, every rule is built from the current
\* sources and outputs: the cache answers for a rule that is behind only while another
\* batch is to rebuild it (isCacheValid, forceRebuild).
THEOREM CalmBuildsAreCurrent == Spec => []CalmIsCurrent
<1>1. TypeInv /\ CalmInv => CalmIsCurrent
    <2> SUFFICES ASSUME TypeInv, CalmInv, calm /\ ~edited /\ batches > 0 /\ ~Cyclic,
                        \A b \in Builds : ~Running(b), NEW r \in Rules
                 PROVE  output[r] = Built(r)
        BY DEF CalmIsCurrent
    <2>1. ~Service!Circular
        BY SizesAssumption, CyclicIsCircular DEF TypeInv, TypeOK, Graph
    <2> QED BY <2>1 DEF CalmInv, StaleIsRebuilt, Forced, Outdated, Unsettled, Fresh
<1> QED BY <1>1, TypeInit, TypeNext, BatchInit, BatchNext, CalmInit, CalmNext, PTL DEF Spec
============================================================================
