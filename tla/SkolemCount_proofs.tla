------------------------- MODULE SkolemCount_proofs -------------------------
(***************************************************************************)
(* What SkolemFC counts is the number of Skolem functions, for well-formed *)
(* files of any size: a Skolem function chooses an answer for each input   *)
(* on its own, so that their number is the product over the inputs of the  *)
(* number of answers each allows.                                          *)
(***************************************************************************)
EXTENDS SklFCInt_proofs, FiniteSetTheorems, Problem

(***************************************************************************)
(* Counting, for any sets.                                                 *)
(***************************************************************************)

\* A function that is one to one and onto makes two sets as large.
LEMMA SameSize ==
  ASSUME NEW S, NEW T, NEW f \in [S -> T], IsFiniteSet(S),
         \A a, b \in S : f[a] = f[b] => a = b,
         \A t \in T : \E s \in S : f[s] = t
  PROVE  IsFiniteSet(T) /\ Cardinality(T) = Cardinality(S)
<1>1. ExistsBijection(S, T)
  BY DEF ExistsBijection, Bijection, Injection, Surjection, IsInjective
<1> QED
  BY <1>1, FS_Bijection

\* The size of what a set leaves of a larger one.
LEMMA SizeOfRest ==
  ASSUME NEW S, NEW T, IsFiniteSet(S), T \subseteq S
  PROVE  /\ IsFiniteSet(S \ T)
         /\ Cardinality(S \ T) = Cardinality(S) - Cardinality(T)
<1>1. S \cap T = T
  OBVIOUS
<1>2. IsFiniteSet(S \ T) /\ Cardinality(S \ T) = Cardinality(S) - Cardinality(S \cap T)
  BY FS_Difference, Zenon
<1> QED
  BY <1>1, <1>2, Zenon

\* The Boolean functions on a set are as many as its subsets.
LEMMA BooleanFunctions ==
  ASSUME NEW S, IsFiniteSet(S)
  PROVE  /\ IsFiniteSet([S -> BOOLEAN])
         /\ Cardinality([S -> BOOLEAN]) = 2^Cardinality(S)
<1> DEFINE F == [P \in SUBSET S |-> [s \in S |-> IF s \in P THEN TRUE ELSE FALSE]]
<1>1. F \in [SUBSET S -> [S -> BOOLEAN]]
  OBVIOUS
<1>2. ASSUME NEW P \in SUBSET S, NEW Q \in SUBSET S, F[P] = F[Q]
      PROVE  P = Q
  <2>1. \A s \in S : /\ F[P][s] = IF s \in P THEN TRUE ELSE FALSE
                     /\ F[Q][s] = IF s \in Q THEN TRUE ELSE FALSE
    OBVIOUS
  <2>2. \A s \in S : s \in P <=> s \in Q
    BY <1>2, <2>1
  <2> QED
    BY <2>2
<1>3. ASSUME NEW g \in [S -> BOOLEAN]
      PROVE  \E P \in SUBSET S : F[P] = g
  <2> DEFINE P == {s \in S : g[s] = TRUE}
  <2>1. P \in SUBSET S
    OBVIOUS
  <2>2. \A s \in S : g[s] = IF s \in P THEN TRUE ELSE FALSE
    OBVIOUS
  <2>3. [s \in S |-> IF s \in P THEN TRUE ELSE FALSE] = g
    BY <2>2
  <2> QED
    BY <2>1, <2>3
<1>4. IsFiniteSet(SUBSET S) /\ Cardinality(SUBSET S) = 2^Cardinality(S)
  BY FS_SUBSET
<1> HIDE DEF F
<1> QED
  BY <1>1, <1>2, <1>3, <1>4, SameSize

\* The functions from U that choose of each x one of A[x].
Selections(A, U, Y) == {f \in [U -> Y] : \A x \in U : f[x] \in A[x]}

\* One more argument multiplies the selections by its number of choices.
LEMMA SelectionsAdd ==
  ASSUME NEW A, NEW U, NEW Y, NEW x \in U, A[x] \subseteq Y,
         IsFiniteSet(Selections(A, U \ {x}, Y)), IsFiniteSet(A[x])
  PROVE  /\ IsFiniteSet(Selections(A, U, Y))
         /\ Cardinality(Selections(A, U, Y))
              = Cardinality(Selections(A, U \ {x}, Y)) * Cardinality(A[x])
<1> DEFINE D == Selections(A, U \ {x}, Y)
           G(d, w) == [u \in U |-> IF u = x THEN w ELSE d[u]]
           F == [p \in D \X A[x] |-> G(p[1], p[2])]
<1>1. ASSUME NEW d \in D, NEW w \in A[x]
      PROVE  /\ G(d, w) \in Selections(A, U, Y)
             /\ G(d, w)[x] = w
             /\ \A u \in U \ {x} : G(d, w)[u] = d[u]
  <2>1. d \in [U \ {x} -> Y] /\ \A u \in U \ {x} : d[u] \in A[u]
    BY DEF Selections
  <2>2. w \in Y
    OBVIOUS
  <2>3. G(d, w) \in [U -> Y]
    BY <2>1, <2>2
  <2>4. \A u \in U : G(d, w)[u] \in A[u]
    BY <2>1
  <2> QED
    BY <2>3, <2>4 DEF Selections
<1>2. \A p \in D \X A[x] : p[1] \in D /\ p[2] \in A[x] /\ p = <<p[1], p[2]>>
  OBVIOUS
<1>3. F \in [D \X A[x] -> Selections(A, U, Y)]
  <2>1. \A p \in D \X A[x] : G(p[1], p[2]) \in Selections(A, U, Y)
    BY <1>1, <1>2
  <2> HIDE DEF G
  <2> QED
    BY <2>1
<1>4. ASSUME NEW p \in D \X A[x], NEW q \in D \X A[x], F[p] = F[q]
      PROVE  p = q
  <2>1. G(p[1], p[2]) = G(q[1], q[2])
    BY <1>4
  <2>2. p[2] = q[2]
    BY <1>1, <1>2, <2>1
  <2>3. \A u \in U \ {x} : p[1][u] = q[1][u]
    BY <1>1, <1>2, <2>1
  <2>4. p[1] \in [U \ {x} -> Y] /\ q[1] \in [U \ {x} -> Y]
    BY <1>2 DEF Selections
  <2>5. p[1] = q[1]
    BY <2>3, <2>4
  <2> QED
    BY <1>2, <2>2, <2>5
<1>5. ASSUME NEW f \in Selections(A, U, Y)
      PROVE  \E p \in D \X A[x] : F[p] = f
  <2> DEFINE d == [u \in U \ {x} |-> f[u]]
  <2>1. f \in [U -> Y] /\ \A u \in U : f[u] \in A[u]
    BY DEF Selections
  <2>2. d \in D /\ f[x] \in A[x]
    BY <2>1 DEF Selections
  <2>3. G(d, f[x]) = f
    BY <2>1
  <2>4. <<d, f[x]>> \in D \X A[x] /\ F[<<d, f[x]>>] = G(d, f[x])
    BY <2>2
  <2> QED
    BY <2>3, <2>4
<1>6. IsFiniteSet(D \X A[x])
      /\ Cardinality(D \X A[x]) = Cardinality(D) * Cardinality(A[x])
  BY FS_Product
<1> HIDE DEF F, D
<1>7. IsFiniteSet(Selections(A, U, Y))
      /\ Cardinality(Selections(A, U, Y)) = Cardinality(D \X A[x])
  BY <1>3, <1>4, <1>5, <1>6, SameSize
<1> QED
  BY <1>6, <1>7 DEF D

\* When every argument outside S has one choice and every argument of S any
\* Boolean function on E, the selections are the sets of pairs of S and E.
LEMMA SelectionsBase ==
  ASSUME NEW A, NEW U, NEW E, NEW S \in SUBSET U, IsFiniteSet(S), IsFiniteSet(E),
         \A x \in S : A[x] = [E -> BOOLEAN],
         \A x \in U \ S : \E w \in [E -> BOOLEAN] : A[x] = {w}
  PROVE  /\ IsFiniteSet(Selections(A, U, [E -> BOOLEAN]))
         /\ Cardinality(Selections(A, U, [E -> BOOLEAN]))
              = 2^(Cardinality(S) * Cardinality(E))
<1> DEFINE Y == [E -> BOOLEAN]
           The(x) == CHOOSE w \in Y : A[x] = {w}
           Row(P, x) == [e \in E |-> IF <<x, e>> \in P THEN TRUE ELSE FALSE]
           G(P) == [x \in U |-> IF x \in S THEN Row(P, x) ELSE The(x)]
           F == [P \in SUBSET (S \X E) |-> G(P)]
<1>0. \A x \in U \ S : The(x) \in Y /\ A[x] = {The(x)}
  OBVIOUS
<1> HIDE DEF The
<1>1. ASSUME NEW P \in SUBSET (S \X E)
      PROVE  G(P) \in Selections(A, U, Y)
  <2>1. \A x \in U : G(P)[x] = IF x \in S THEN Row(P, x) ELSE The(x)
    OBVIOUS
  <2>2. \A x \in S : Row(P, x) \in Y
    OBVIOUS
  <2>3. \A x \in U : G(P)[x] \in Y /\ G(P)[x] \in A[x]
    BY <1>0, <2>1, <2>2
  <2>4. G(P) \in [U -> Y]
    BY <2>3
  <2> QED
    BY <2>3, <2>4 DEF Selections
<1>2. F \in [SUBSET (S \X E) -> Selections(A, U, Y)]
  BY <1>1
<1>3. ASSUME NEW P \in SUBSET (S \X E), NEW Q \in SUBSET (S \X E), F[P] = F[Q]
      PROVE  P = Q
  <2>1. G(P) = G(Q)
    BY <1>3
  <2>2. ASSUME NEW x \in S, NEW e \in E
        PROVE  <<x, e>> \in P <=> <<x, e>> \in Q
    <3>1. /\ G(P)[x][e] = IF <<x, e>> \in P THEN TRUE ELSE FALSE
          /\ G(Q)[x][e] = IF <<x, e>> \in Q THEN TRUE ELSE FALSE
      OBVIOUS
    <3> QED
      BY <2>1, <3>1
  <2>3. \A p \in S \X E : p[1] \in S /\ p[2] \in E /\ p = <<p[1], p[2]>>
    OBVIOUS
  <2>4. \A p \in S \X E : p \in P <=> p \in Q
    BY <2>2, <2>3
  <2> QED
    BY <2>4
<1>4. ASSUME NEW f \in Selections(A, U, Y)
      PROVE  \E P \in SUBSET (S \X E) : F[P] = f
  <2> DEFINE P == {p \in S \X E : f[p[1]][p[2]] = TRUE}
  <2>1. f \in [U -> Y] /\ \A x \in U : f[x] \in A[x]
    BY DEF Selections
  <2>2. \A x \in S : f[x] \in [E -> BOOLEAN]
    BY <2>1
  <2>3. \A x \in S, e \in E : f[x][e] = IF <<x, e>> \in P THEN TRUE ELSE FALSE
    <3> SUFFICES ASSUME NEW x \in S, NEW e \in E
                 PROVE  f[x][e] = IF <<x, e>> \in P THEN TRUE ELSE FALSE
      OBVIOUS
    <3>1. f[x][e] \in BOOLEAN
      BY <2>2
    <3>2. <<x, e>> \in S \X E /\ <<x, e>>[1] = x /\ <<x, e>>[2] = e
      OBVIOUS
    <3>3. <<x, e>> \in P <=> f[x][e] = TRUE
      BY <3>2
    <3> HIDE DEF P
    <3> QED
      BY <3>1, <3>3
  <2>4. ASSUME NEW x \in S
        PROVE  G(P)[x] = f[x]
    <3>1. G(P)[x] = Row(P, x)
      OBVIOUS
    <3> HIDE DEF P
    <3> QED
      BY <2>2, <2>3, <3>1
  <2>5. ASSUME NEW x \in U \ S
        PROVE  G(P)[x] = f[x]
    BY <1>0, <2>1
  <2>6. G(P) = f
    BY <2>1, <2>4, <2>5
  <2>7. P \in SUBSET (S \X E)
    OBVIOUS
  <2> QED
    BY <2>6, <2>7
<1>5. /\ IsFiniteSet(S \X E)
      /\ Cardinality(S \X E) = Cardinality(S) * Cardinality(E)
  BY FS_Product
<1>6. /\ IsFiniteSet(SUBSET (S \X E))
      /\ Cardinality(SUBSET (S \X E)) = 2^Cardinality(S \X E)
  BY <1>5, FS_SUBSET
<1> HIDE DEF F, Y
<1>7. /\ IsFiniteSet(Selections(A, U, Y))
      /\ Cardinality(Selections(A, U, Y)) = Cardinality(SUBSET (S \X E))
  BY <1>2, <1>3, <1>4, <1>6, SameSize
<1> QED
  BY <1>5, <1>6, <1>7 DEF Y

(***************************************************************************)
(* The fold of CountsSkolemFunctions.                                      *)
(***************************************************************************)

\* A function on the subsets of S that multiplies as the fold does.
FollowsFold(f, S, base) ==
  f = [T \in SUBSET S |->
         IF T = {} THEN base
         ELSE f[T \ {CHOOSE x \in T : TRUE}]
                * Cardinality(Outputs(CHOOSE x \in T : TRUE))]

\* The fold is a function on the subsets of S, when there is one.
LEMMA FoldUnfolds ==
  ASSUME NEW S, NEW base, NEW g, FollowsFold(g, S, base)
  PROVE  \E f : /\ FollowsFold(f, S, base)
                /\ FoldSet(LAMBDA x, p : p * Cardinality(Outputs(x)), base, S) = f[S]
  BY Zenon DEF FoldSet, MapThenFoldSet, FollowsFold

\* There is one such function, so that the fold is any of them.
LEMMA FoldIs ==
  ASSUME NEW S, IsFiniteSet(S), NEW base, NEW g, FollowsFold(g, S, base)
  PROVE  FoldSet(LAMBDA x, p : p * Cardinality(Outputs(x)), base, S) = g[S]
<1>1. PICK f : /\ FollowsFold(f, S, base)
               /\ FoldSet(LAMBDA x, p : p * Cardinality(Outputs(x)), base, S) = f[S]
  BY FoldUnfolds
<1>2. ASSUME NEW h, FollowsFold(h, S, base), NEW T \in SUBSET S
      PROVE  h[T] = IF T = {} THEN base
                    ELSE h[T \ {CHOOSE x \in T : TRUE}]
                           * Cardinality(Outputs(CHOOSE x \in T : TRUE))
  BY <1>2, Zenon DEF FollowsFold
<1>3. ASSUME NEW T \in SUBSET S
      PROVE  IsFiniteSet(T) /\ Cardinality(T) \in Nat
  BY FS_Subset, FS_CardinalityType
<1> DEFINE Bad == {T \in SUBSET S : f[T] # g[T]}
           Sizes == {Cardinality(T) : T \in Bad}
<1>4. ASSUME NEW T \in Bad
      PROVE  FALSE
  <2>1. Sizes \in SUBSET Nat /\ Cardinality(T) \in Sizes
    BY <1>3
  <2>2. PICK n \in Sizes : \A m \in Sizes : n <= m
    BY <2>1, SmallestNat
  <2>3. PICK L \in Bad : n = Cardinality(L)
    OBVIOUS
  <2>4. L \in SUBSET S /\ f[L] # g[L]
    OBVIOUS
  <2>5. L # {}
    BY <1>1, <1>2, <2>4
  <2> DEFINE x == CHOOSE x \in L : TRUE
             R == L \ {x}
  <2>6. x \in L
    BY <2>5
  <2> HIDE DEF x
  <2>7. R \in SUBSET S /\ Cardinality(R) = n - 1 /\ n \in Nat
    BY <1>3, <2>3, <2>4, <2>6, FS_RemoveElement
  <2>8. R \notin Bad
    <3>1. Cardinality(R) \notin Sizes
      BY <2>2, <2>7
    <3> HIDE DEF Bad, R
    <3> QED
      BY <3>1
  <2>9. f[R] = g[R]
    BY <2>7, <2>8
  <2>10. /\ f[L] = f[R] * Cardinality(Outputs(x))
         /\ g[L] = g[R] * Cardinality(Outputs(x))
    BY <1>1, <1>2, <2>4, <2>5 DEF x
  <2> QED
    BY <2>4, <2>9, <2>10
<1>5. f[S] = g[S]
  BY <1>4
<1> QED
  BY <1>1, <1>5

(***************************************************************************)
(* The inputs and their answers.                                           *)
(***************************************************************************)

\* The valuations of X and those of Y.
Inputs == [ForallSet -> BOOLEAN]
AnyAnswer == [ExistsSet -> BOOLEAN]

\* The part of an assignment that is a valuation of Y.
Answer(a) == [y \in ExistsSet |-> a[y]]

\* The answers a Skolem function may give to each input.
Allowed ==
  [x \in Inputs |->
     IF Outputs(x) = {} THEN AnyAnswer ELSE {Answer(a) : a \in Outputs(x)}]

\* A well-formed file's quantifiers name each variable once.
LEMMA VariableCounts ==
  ASSUME TypeOK, FInv, WellFormed
  PROVE  /\ IsFiniteSet(ForallSet) /\ Cardinality(ForallSet) = Len(forall_vars)
         /\ IsFiniteSet(ExistsSet) /\ Cardinality(ExistsSet) = Len(exists_vars)
<1>1. /\ Len(forall_vars) \in Nat /\ DOMAIN forall_vars = 1 .. Len(forall_vars)
      /\ Len(exists_vars) \in Nat /\ DOMAIN exists_vars = 1 .. Len(exists_vars)
      /\ forall_vars = [i \in DOMAIN forall_vars |-> forall_vars[i]]
      /\ exists_vars = [i \in DOMAIN exists_vars |-> exists_vars[i]]
  BY DEF TypeOK
<1>2. \A n \in Nat : IsFiniteSet(1 .. n) /\ Cardinality(1 .. n) = n
  <2> SUFFICES ASSUME NEW n \in Nat
               PROVE  IsFiniteSet(1 .. n) /\ Cardinality(1 .. n) = n
    OBVIOUS
  <2>1. /\ IsFiniteSet(1 .. n)
        /\ Cardinality(1 .. n) = IF 1 > n THEN 0 ELSE n - 1 + 1
    BY FS_Interval
  <2> QED
    BY <2>1
<1>3. /\ forall_vars \in [DOMAIN forall_vars -> ForallSet]
      /\ \A v \in ForallSet : \E i \in DOMAIN forall_vars : forall_vars[i] = v
      /\ \A i, j \in DOMAIN forall_vars : forall_vars[i] = forall_vars[j] => i = j
  BY <1>1 DEF ForallSet, FInv, PrefixInv
<1>4. /\ exists_vars \in [DOMAIN exists_vars -> ExistsSet]
      /\ \A v \in ExistsSet : \E i \in DOMAIN exists_vars : exists_vars[i] = v
      /\ \A i, j \in DOMAIN exists_vars : exists_vars[i] = exists_vars[j] => i = j
  BY <1>1 DEF ExistsSet, FInv, PrefixInv
<1>5. IsFiniteSet(ForallSet) /\ Cardinality(ForallSet) = Len(forall_vars)
  <2>1. IsFiniteSet(DOMAIN forall_vars) /\ Cardinality(DOMAIN forall_vars) = Len(forall_vars)
    BY <1>1, <1>2
  <2> QED
    BY <1>3, <2>1, SameSize, Zenon
<1>6. IsFiniteSet(ExistsSet) /\ Cardinality(ExistsSet) = Len(exists_vars)
  <2>1. IsFiniteSet(DOMAIN exists_vars) /\ Cardinality(DOMAIN exists_vars) = Len(exists_vars)
    BY <1>1, <1>2
  <2> QED
    BY <1>4, <2>1, SameSize, Zenon
<1> QED
  BY <1>5, <1>6

\* An input and an answer are an assignment, and the only one.
LEMMA OutputsAreAnswers ==
  ASSUME TypeOK, FInv, WellFormed, phase = "ready", NEW x \in Inputs
  PROVE  /\ \A a \in Outputs(x) : Answer(a) \in AnyAnswer
         /\ \A a, b \in Outputs(x) : Answer(a) = Answer(b) => a = b
         /\ IsFiniteSet(Outputs(x))
         /\ Cardinality({Answer(a) : a \in Outputs(x)}) = Cardinality(Outputs(x))
<1>1. \A a \in Outputs(x) : a \in [0 .. nvars - 1 -> BOOLEAN] /\ Input(a) = x
  BY DEF Outputs, Models, Assignments
<1>2. nvars \in Nat /\ 0 .. nvars - 1 = ForallSet \cup ExistsSet
  BY Closed
<1>3. \A a \in Outputs(x) : Answer(a) \in AnyAnswer
  BY <1>1, <1>2 DEF Answer, AnyAnswer
<1>4. ASSUME NEW a \in Outputs(x), NEW b \in Outputs(x), Answer(a) = Answer(b)
      PROVE  a = b
  <2>1. \A v \in ForallSet : a[v] = x[v] /\ b[v] = x[v]
    <3>1. \A v \in ForallSet : Input(a)[v] = a[v] /\ Input(b)[v] = b[v]
      BY DEF Input
    <3> QED
      BY <1>1, <3>1
  <2>2. \A v \in ExistsSet : a[v] = b[v]
    <3>1. \A v \in ExistsSet : Answer(a)[v] = a[v] /\ Answer(b)[v] = b[v]
      BY DEF Answer
    <3> QED
      BY <1>4, <3>1
  <2>3. \A v \in 0 .. nvars - 1 : a[v] = b[v]
    BY <1>2, <2>1, <2>2
  <2> DEFINE V == 0 .. nvars - 1
  <2>4. a = [v \in V |-> a[v]] /\ b = [v \in V |-> b[v]]
    BY <1>1, Zenon
  <2> HIDE DEF V
  <2>5. \A v \in V : a[v] = b[v]
    BY <2>3 DEF V
  <2> QED
    BY <2>4, <2>5
<1>5. IsFiniteSet(Outputs(x))
  <2>1. IsFiniteSet(0 .. nvars - 1)
    BY <1>2, FS_Interval
  <2>2. IsFiniteSet([0 .. nvars - 1 -> BOOLEAN])
    BY <2>1, BooleanFunctions
  <2>3. Outputs(x) \in SUBSET [0 .. nvars - 1 -> BOOLEAN]
    BY <1>1
  <2> QED
    BY <2>2, <2>3, FS_Subset
<1>6. Cardinality({Answer(a) : a \in Outputs(x)}) = Cardinality(Outputs(x))
  <2> DEFINE T == {Answer(a) : a \in Outputs(x)}
             f == [a \in Outputs(x) |-> Answer(a)]
  <2>1. f \in [Outputs(x) -> T]
    BY Zenon
  <2>2. \A a, b \in Outputs(x) : f[a] = f[b] => a = b
    BY <1>4
  <2>3. \A t \in T : \E a \in Outputs(x) : f[a] = t
    BY Zenon
  <2> HIDE DEF f, T
  <2>4. Cardinality(T) = Cardinality(Outputs(x))
    BY <1>5, <2>1, <2>2, <2>3, SameSize
  <2> QED
    BY <2>4 DEF T
<1> QED
  BY <1>3, <1>4, <1>5, <1>6

\* A Skolem function chooses an allowed answer for each input.
LEMMA SkolemChooses ==
  SkolemFunctions = Selections(Allowed, Inputs, AnyAnswer)
<1>1. ASSUME NEW f \in [Inputs -> AnyAnswer], NEW x \in Inputs
      PROVE  (Outputs(x) # {} =>
                \E a \in Outputs(x) : \A y \in ExistsSet : f[x][y] = a[y])
             <=> f[x] \in Allowed[x]
  <2>1. f[x] \in [ExistsSet -> BOOLEAN]
    BY DEF AnyAnswer
  <2>2. \A a : (\A y \in ExistsSet : f[x][y] = a[y]) <=> f[x] = Answer(a)
    BY <2>1 DEF Answer
  <2>3. Allowed[x] = IF Outputs(x) = {} THEN AnyAnswer
                     ELSE {Answer(a) : a \in Outputs(x)}
    BY DEF Allowed
  <2>4. CASE Outputs(x) = {}
    BY <2>3, <2>4
  <2>5. CASE Outputs(x) # {}
    <3>1. f[x] \in Allowed[x] <=> \E a \in Outputs(x) : f[x] = Answer(a)
      BY <2>3, <2>5
    <3> QED
      BY <2>2, <2>5, <3>1
  <2> QED
    BY <2>4, <2>5
<1>2. SkolemFunctions =
        {f \in [Inputs -> AnyAnswer] :
           \A x \in Inputs : Outputs(x) # {} =>
             \E a \in Outputs(x) : \A y \in ExistsSet : f[x][y] = a[y]}
  BY DEF SkolemFunctions, Inputs, AnyAnswer
<1> QED
  BY <1>1, <1>2, Zenon DEF Selections

\* Every selection is among those that choose freely.
LEMMA SelectionsFinite ==
  ASSUME TypeOK, FInv, WellFormed, NEW A, NEW U \in SUBSET Inputs
  PROVE  IsFiniteSet(Selections(A, U, AnyAnswer))
<1> DEFINE Free == [x \in U |-> AnyAnswer]
<1>1. IsFiniteSet(U) /\ IsFiniteSet(ExistsSet)
  <2>1. IsFiniteSet(Inputs)
    BY VariableCounts, BooleanFunctions DEF Inputs
  <2> QED
    BY <2>1, FS_Subset, VariableCounts
<1>2. U \in SUBSET U /\ U \ U = {}
  OBVIOUS
<1>3. \A x \in U : Free[x] = [ExistsSet -> BOOLEAN]
  BY DEF AnyAnswer
<1> HIDE DEF Free
<1>4. IsFiniteSet(Selections(Free, U, [ExistsSet -> BOOLEAN]))
  BY <1>1, <1>2, <1>3, SelectionsBase
<1>5. Selections(A, U, AnyAnswer) \in SUBSET Selections(Free, U, [ExistsSet -> BOOLEAN])
  BY <1>3 DEF Selections, AnyAnswer
<1> QED
  BY <1>4, <1>5, FS_Subset

\* The inputs of F's models are those with an output, those of G's those with two.
LEMMA ProjectionsOf ==
  ASSUME TypeOK, FInv, GCountsTwoOutputs, WellFormed, phase = "ready",
         NEW projF, projF = {Input(a) : a \in Models(clauses, nvars)},
         NEW projG, projG = {Input(g) : g \in Models(g_formula_clauses, n_g_vars)}
  PROVE  /\ projF \subseteq Inputs /\ projG \subseteq projF
         /\ \A x \in Inputs : x \in projF <=> Outputs(x) # {}
         /\ \A x \in Inputs \ projG : \A a, b \in Outputs(x) : Answer(a) = Answer(b)
<1>1. ASSUME NEW a \in Models(clauses, nvars)
      PROVE  Input(a) \in Inputs
  <2>1. a \in [0 .. nvars - 1 -> BOOLEAN]
    BY DEF Models, Assignments
  <2>2. \A v \in ForallSet : v \in 0 .. nvars - 1
    BY Closed
  <2>3. \A v \in ForallSet : a[v] \in BOOLEAN
    BY <2>1, <2>2
  <2> QED
    BY <2>3, Zenon DEF Input, Inputs
<1>2. projF \subseteq Inputs
  BY <1>1
<1>3. projG = TwoOutputs
  BY DEF GCountsTwoOutputs
<1>4. TwoOutputs \subseteq projF
  BY Zenon DEF TwoOutputs
<1>5. \A x \in Inputs : x \in projF <=> Outputs(x) # {}
  BY Zenon DEF Outputs
<1>6. ASSUME NEW x \in Inputs \ projG, NEW a \in Outputs(x), NEW b \in Outputs(x)
      PROVE  Answer(a) = Answer(b)
  <2>1. /\ a \in Models(clauses, nvars) /\ b \in Models(clauses, nvars)
        /\ Input(a) = x /\ Input(b) = x
    BY DEF Outputs
  <2>2. x \notin TwoOutputs
    BY <1>3
  <2>3. \A y \in ExistsSet : b[y] = a[y]
    BY <2>1, <2>2, Zenon DEF TwoOutputs
  <2> QED
    BY <2>3, Zenon DEF Answer
<1> QED
  BY <1>2, <1>3, <1>4, <1>5, <1>6

\* The number of Skolem functions of a well-formed formula, once G is built.
LEMMA SkolemCount ==
  ASSUME TypeOK, FInv, GCountsTwoOutputs, WellFormed, phase = "ready",
         NEW projF, projF = {Input(a) : a \in Models(clauses, nvars)},
         NEW projG, projG = {Input(g) : g \in Models(g_formula_clauses, n_g_vars)},
         NEW s0, s0 = 2^Len(forall_vars) - Cardinality(projF)
  PROVE  Cardinality(SkolemFunctions)
           = FoldSet(LAMBDA x, p : p * Cardinality(Outputs(x)),
                     2^(s0 * Len(exists_vars)), projG)
<1> DEFINE S0 == Inputs \ projF
           U(T) == (Inputs \ projG) \cup T
           Count(T) == Cardinality(Selections(Allowed, U(T), AnyAnswer))
           g == [T \in SUBSET projG |-> Count(T)]
           base == 2^(s0 * Len(exists_vars))
<1>1. /\ IsFiniteSet(Inputs) /\ Cardinality(Inputs) = 2^Len(forall_vars)
      /\ IsFiniteSet(ExistsSet) /\ Cardinality(ExistsSet) = Len(exists_vars)
  BY VariableCounts, BooleanFunctions DEF Inputs
<1>2. /\ projF \subseteq Inputs /\ projG \subseteq projF
      /\ \A x \in Inputs : x \in projF <=> Outputs(x) # {}
      /\ \A x \in Inputs \ projG : \A a, b \in Outputs(x) : Answer(a) = Answer(b)
  BY ProjectionsOf
<1>3. IsFiniteSet(S0) /\ Cardinality(S0) = s0
  <2>1. /\ IsFiniteSet(Inputs \ projF)
        /\ Cardinality(Inputs \ projF) = Cardinality(Inputs) - Cardinality(projF)
    BY <1>1, <1>2, SizeOfRest, Zenon
  <2> QED
    BY <1>1, <2>1, Zenon
<1>4. \A x \in S0 : Allowed[x] = [ExistsSet -> BOOLEAN]
  BY <1>2 DEF Allowed, AnyAnswer
<1>5. ASSUME NEW x \in Inputs, Outputs(x) # {}
      PROVE  /\ Allowed[x] = {Answer(a) : a \in Outputs(x)}
             /\ Allowed[x] \subseteq AnyAnswer /\ IsFiniteSet(Allowed[x])
             /\ Cardinality(Allowed[x]) = Cardinality(Outputs(x))
  <2>1. Allowed[x] = {Answer(a) : a \in Outputs(x)}
    BY <1>5 DEF Allowed
  <2>2. Allowed[x] \subseteq AnyAnswer
    BY <2>1, OutputsAreAnswers
  <2>3. IsFiniteSet(AnyAnswer)
    BY <1>1, BooleanFunctions DEF AnyAnswer
  <2>4. IsFiniteSet(Allowed[x])
    BY <2>2, <2>3, FS_Subset
  <2>5. Cardinality(Allowed[x]) = Cardinality(Outputs(x))
    BY <2>1, OutputsAreAnswers
  <2> QED
    BY <2>1, <2>2, <2>4, <2>5
<1>6. ASSUME NEW x \in (Inputs \ projG) \ S0
      PROVE  \E w \in [ExistsSet -> BOOLEAN] : Allowed[x] = {w}
  <2>1. x \in Inputs /\ x \notin projG /\ Outputs(x) # {}
    BY <1>2
  <2>2. PICK a \in Outputs(x) : TRUE
    BY <2>1
  <2>3. \A b \in Outputs(x) : Answer(b) = Answer(a)
    BY <1>2, <2>1
  <2>4. Allowed[x] = {Answer(a)}
    BY <1>5, <2>1, <2>2, <2>3
  <2>5. Answer(a) \in [ExistsSet -> BOOLEAN]
    BY <1>5, <2>1, <2>4 DEF AnyAnswer
  <2> QED
    BY <2>4, <2>5
<1>7. Count({}) = base
  <2>1. S0 \in SUBSET (Inputs \ projG) /\ U({}) = Inputs \ projG
    BY <1>2
  <2> HIDE DEF S0, U
  <2>2. Cardinality(Selections(Allowed, Inputs \ projG, [ExistsSet -> BOOLEAN]))
          = 2^(Cardinality(S0) * Cardinality(ExistsSet))
    BY <1>1, <1>3, <1>4, <1>6, <2>1, SelectionsBase
  <2>3. Cardinality(Selections(Allowed, Inputs \ projG, [ExistsSet -> BOOLEAN])) = base
    BY <1>1, <1>3, <2>2
  <2> QED
    BY <2>1, <2>3 DEF AnyAnswer
<1>8. ASSUME NEW T \in SUBSET projG, NEW x \in T
      PROVE  /\ T \ {x} \in SUBSET projG
             /\ Count(T) = Count(T \ {x}) * Cardinality(Outputs(x))
  <2>1. /\ x \in Inputs /\ Outputs(x) # {} /\ x \in U(T)
        /\ U(T) \ {x} = U(T \ {x}) /\ U(T) \ {x} \in SUBSET Inputs
    BY <1>2
  <2> HIDE DEF U
  <2>2. IsFiniteSet(Selections(Allowed, U(T) \ {x}, AnyAnswer))
    BY <2>1, SelectionsFinite
  <2>3. Cardinality(Selections(Allowed, U(T), AnyAnswer))
          = Cardinality(Selections(Allowed, U(T) \ {x}, AnyAnswer))
              * Cardinality(Allowed[x])
    <3>1. Allowed[x] \subseteq AnyAnswer /\ IsFiniteSet(Allowed[x])
      BY <1>5, <2>1
    <3>2. PICK V : V = U(T)
      OBVIOUS
    <3>3. x \in V /\ IsFiniteSet(Selections(Allowed, V \ {x}, AnyAnswer))
      BY <2>1, <2>2, <3>2
    <3>4. Cardinality(Selections(Allowed, V, AnyAnswer))
            = Cardinality(Selections(Allowed, V \ {x}, AnyAnswer))
                * Cardinality(Allowed[x])
      BY <3>1, <3>3, SelectionsAdd
    <3> QED
      BY <3>2, <3>4
  <2>4. T \ {x} \in SUBSET projG /\ Cardinality(Allowed[x]) = Cardinality(Outputs(x))
    BY <1>5, <2>1
  <2> QED
    BY <2>1, <2>3, <2>4
<1> HIDE DEF Count, base
<1>9. FollowsFold(g, projG, base)
  <2>1. ASSUME NEW T \in SUBSET projG
        PROVE  Count(T) = IF T = {} THEN base
                          ELSE g[T \ {CHOOSE x \in T : TRUE}]
                                 * Cardinality(Outputs(CHOOSE x \in T : TRUE))
    <3>1. CASE T = {}
      BY <1>7, <3>1
    <3>2. CASE T # {}
      <4> DEFINE x == CHOOSE x \in T : TRUE
      <4>1. x \in T
        BY <3>2
      <4> HIDE DEF x
      <4>2. /\ T \ {x} \in SUBSET projG
            /\ Count(T) = Count(T \ {x}) * Cardinality(Outputs(x))
        BY <1>8, <4>1
      <4>3. Count(T) = g[T \ {x}] * Cardinality(Outputs(x))
        BY <4>2
      <4> QED
        BY <3>2, <4>3 DEF x
    <3> QED
      BY <3>1, <3>2
  <2> QED
    BY <2>1, Zenon DEF FollowsFold
<1>10. FoldSet(LAMBDA x, p : p * Cardinality(Outputs(x)), base, projG) = g[projG]
  <2>1. IsFiniteSet(projG)
    BY <1>1, <1>2, FS_Subset
  <2> HIDE DEF g
  <2> QED
    BY <1>9, <2>1, FoldIs
<1>11. g[projG] = Cardinality(SkolemFunctions)
  <2>1. U(projG) = Inputs
    BY <1>2
  <2>2. Count(projG) = Cardinality(SkolemFunctions)
    BY <2>1, SkolemChooses DEF Count
  <2> QED
    BY <2>2
<1> QED
  BY <1>10, <1>11, Zenon DEF base

\* Whatever the formula and its quantifiers, those with an input variable, the
\* number of Skolem functions is 2 to the |S0| * |Y|, for the inputs without an output, times, for each input of
\* G's projection, the number of models of F with that input's literals.
THEOREM SkolemCountCorrect ==
  ASSUME WellFormed
  PROVE  Spec => []CountsSkolemFunctions
<1>1. TypeOK /\ FInv /\ GCountsTwoOutputs => CountsSkolemFunctions
  <2> SUFFICES ASSUME TypeOK, FInv, GCountsTwoOutputs, phase = "ready",
                      forall_vars # <<>>
               PROVE  CountsSkolemFunctions
    BY Zenon DEF CountsSkolemFunctions
  <2>1. Counted(clauses, nvars) = Cardinality({Input(a) : a \in Models(clauses, nvars)})
    BY DEF Counted
  <2> QED
    BY <2>1, SkolemCount, Zenon DEF CountsSkolemFunctions
<1> QED
  BY <1>1, FormulaTypeCorrect, FormulaInvariant, GCorrect, PTL

(***************************************************************************)
(* What SklFC is told of the formula.                                      *)
(***************************************************************************)

\* The sizes of S0, S1 and S2, and what is counted of F and of G, are those of a
\* formula in SklFC's Inputs, also when X is empty, and each sample, an input of G's
\* projection, has two outputs or more: the logarithm of its count is not 0.
EstimatorAssumptions ==
  phase = "ready" =>
    LET projF == {Input(a) : a \in Models(clauses, nvars)}
        projG == {Input(g) : g \in Models(g_formula_clauses, n_g_vars)}
    IN /\ Len(exists_vars) \in Nat
       /\ [forall |-> Len(forall_vars), s0 |-> Cardinality(Inputs \ projF),
           s1 |-> Cardinality(projF \ projG), s2 |-> Cardinality(projG),
           f |-> Counted(clauses, nvars), g |-> Counted(g_formula_clauses, n_g_vars)]
            \in Problems
       /\ \A x \in projG : Cardinality(Outputs(x)) >= 2

\* A set with two elements that differ has two or more.
LEMMA TwoElements ==
  ASSUME NEW S, IsFiniteSet(S), NEW a \in S, NEW b \in S, a # b
  PROVE  Cardinality(S) >= 2
<1>1. IsFiniteSet({a}) /\ Cardinality({a}) = 1
  BY FS_Singleton
<1>2. IsFiniteSet({a} \cup {b}) /\ Cardinality({a} \cup {b}) = 2
  <2>1. /\ IsFiniteSet({a} \cup {b})
        /\ Cardinality({a} \cup {b})
             = IF b \in {a} THEN Cardinality({a}) ELSE Cardinality({a}) + 1
    BY <1>1, FS_AddElement, Zenon
  <2>2. b \notin {a}
    OBVIOUS
  <2> QED
    BY <1>1, <2>1, <2>2
<1>3. {a} \cup {b} \in SUBSET S
  OBVIOUS
<1> QED
  BY <1>2, <1>3, FS_Subset

\* The three sets of inputs, and the outputs of a sample.
LEMMA InputSizes ==
  ASSUME TypeOK, FInv, GCountsTwoOutputs, WellFormed, phase = "ready",
         NEW projF, projF = {Input(a) : a \in Models(clauses, nvars)},
         NEW projG, projG = {Input(g) : g \in Models(g_formula_clauses, n_g_vars)}
  PROVE  /\ Cardinality(Inputs \ projF) \in Nat /\ Cardinality(projF \ projG) \in Nat
         /\ Cardinality(projG) \in Nat
         /\ Cardinality(Inputs \ projF) + Cardinality(projF \ projG) + Cardinality(projG)
              = 2^Len(forall_vars)
         /\ Cardinality(projF \ projG) + Cardinality(projG) = Cardinality(projF)
         /\ IsFiniteSet(projF) /\ IsFiniteSet(projG)
         /\ \A x \in projG : Cardinality(Outputs(x)) >= 2
<1>1. IsFiniteSet(Inputs) /\ Cardinality(Inputs) = 2^Len(forall_vars)
  BY VariableCounts, BooleanFunctions DEF Inputs
<1>2. projF \subseteq Inputs /\ projG \subseteq projF
  BY ProjectionsOf
<1>3. IsFiniteSet(projF) /\ IsFiniteSet(projG)
  BY <1>1, <1>2, FS_Subset
<1>4. /\ Cardinality(Inputs) \in Nat /\ Cardinality(projF) \in Nat
      /\ Cardinality(projG) \in Nat
  BY <1>1, <1>3, FS_CardinalityType
<1>5. /\ IsFiniteSet(Inputs \ projF)
      /\ Cardinality(Inputs \ projF) = Cardinality(Inputs) - Cardinality(projF)
  BY <1>1, <1>2, SizeOfRest, Zenon
<1>6. /\ IsFiniteSet(projF \ projG)
      /\ Cardinality(projF \ projG) = Cardinality(projF) - Cardinality(projG)
  BY <1>2, <1>3, SizeOfRest, Zenon
<1>7. Cardinality(Inputs \ projF) \in Nat /\ Cardinality(projF \ projG) \in Nat
  BY <1>5, <1>6, FS_CardinalityType
<1>8. ASSUME NEW x \in projG
      PROVE  Cardinality(Outputs(x)) >= 2
  <2>1. x \in TwoOutputs
    BY DEF GCountsTwoOutputs
  <2>2. PICK b \in Models(clauses, nvars), c \in Models(clauses, nvars) :
          x = Input(b) /\ Input(c) = Input(b) /\ \E y \in ExistsSet : c[y] # b[y]
    BY <2>1, Zenon DEF TwoOutputs
  <2>3. b \in Outputs(x) /\ c \in Outputs(x) /\ b # c
    BY <2>2, Zenon DEF Outputs
  <2>4. IsFiniteSet(Outputs(x))
    BY <1>2, OutputsAreAnswers
  <2> QED
    BY <2>3, <2>4, TwoElements
<1> QED
  BY <1>1, <1>3, <1>4, <1>5, <1>6, <1>7, <1>8

\* Numbers that are those of a problem.
LEMMA IsProblem ==
  ASSUME NEW n \in Nat, NEW a \in Nat, NEW b \in Nat, NEW c \in Nat,
         NEW f \in Nat, NEW g \in Nat, a + b + c = 2^n,
         f = 0 <=> b + c = 0, g = 0 <=> c = 0, n # 0 => f = b + c /\ g = c
  PROVE  [forall |-> n, s0 |-> a, s1 |-> b, s2 |-> c, f |-> f, g |-> g] \in Problems
<1> DEFINE p == [forall |-> n, s0 |-> a, s1 |-> b, s2 |-> c, f |-> f, g |-> g]
<1>1. /\ p \in [forall : Nat, s0 : Nat, s1 : Nat, s2 : Nat, f : Nat, g : Nat]
      /\ p.forall = n /\ p.s0 = a /\ p.s1 = b /\ p.s2 = c /\ p.f = f /\ p.g = g
  OBVIOUS
<1> HIDE DEF p
<1>2. p \in Problems
  BY <1>1, Zenon DEF Problems
<1> QED
  BY <1>2 DEF p

\* What is counted of a formula is 0 for one without models only, and the number of
\* its projected models when there is something to project on.
LEMMA CountedProjection ==
  ASSUME TypeOK, NEW f, NEW n \in Nat, NEW proj, IsFiniteSet(proj),
         proj = {Input(a) : a \in Models(f, n)}
  PROVE  /\ Counted(f, n) \in Nat
         /\ Counted(f, n) = 0 <=> Cardinality(proj) = 0
         /\ Len(forall_vars) # 0 => Counted(f, n) = Cardinality(proj)
<1>1. IsFiniteSet(Models(f, n))
  <2>1. IsFiniteSet(0 .. n - 1)
    BY FS_Interval
  <2>2. IsFiniteSet([0 .. n - 1 -> BOOLEAN])
    BY <2>1, BooleanFunctions
  <2>3. Models(f, n) \in SUBSET [0 .. n - 1 -> BOOLEAN]
    BY DEF Models, Assignments
  <2> QED
    BY <2>2, <2>3, FS_Subset
<1>2. /\ Cardinality(Models(f, n)) \in Nat /\ Cardinality(proj) \in Nat
      /\ Cardinality(Models(f, n)) = 0 <=> Models(f, n) = {}
      /\ Cardinality(proj) = 0 <=> proj = {}
  BY <1>1, FS_CardinalityType, FS_EmptySet
<1>3. Models(f, n) = {} <=> proj = {}
  OBVIOUS
<1>4. CASE forall_vars = <<>>
  <2>1. Counted(f, n) = Cardinality(Models(f, n)) /\ Len(forall_vars) = 0
    BY <1>4 DEF Counted
  <2> QED
    BY <1>2, <1>3, <2>1
<1>5. CASE forall_vars # <<>>
  <2>1. Counted(f, n) = Cardinality(proj)
    BY <1>5 DEF Counted
  <2> QED
    BY <1>2, <2>1
<1> QED
  BY <1>4, <1>5

\* What the estimator assumes of its formula and of its samples holds of every
\* well-formed file: the theorems about SklFC apply to it.
THEOREM EstimatorAssumptionsHold ==
  ASSUME WellFormed
  PROVE  Spec => []EstimatorAssumptions
<1>1. TypeOK /\ FInv /\ GCountsTwoOutputs => EstimatorAssumptions
  <2> SUFFICES ASSUME TypeOK, FInv, GCountsTwoOutputs, phase = "ready"
               PROVE  EstimatorAssumptions
    BY DEF EstimatorAssumptions
  <2> DEFINE projF == {Input(a) : a \in Models(clauses, nvars)}
             projG == {Input(g) : g \in Models(g_formula_clauses, n_g_vars)}
             f == Counted(clauses, nvars)
             g == Counted(g_formula_clauses, n_g_vars)
  <2>1. nvars \in Nat /\ n_g_vars \in Nat
    BY Closed DEF TypeOK
  <2>2. /\ Cardinality(Inputs \ projF) \in Nat /\ Cardinality(projF \ projG) \in Nat
        /\ Cardinality(projG) \in Nat
        /\ Cardinality(Inputs \ projF) + Cardinality(projF \ projG)
             + Cardinality(projG) = 2^Len(forall_vars)
        /\ Cardinality(projF \ projG) + Cardinality(projG) = Cardinality(projF)
        /\ IsFiniteSet(projF) /\ IsFiniteSet(projG)
        /\ \A x \in projG : Cardinality(Outputs(x)) >= 2
    BY InputSizes, Zenon
  <2>3. /\ f \in Nat /\ (f = 0 <=> Cardinality(projF) = 0)
        /\ Len(forall_vars) # 0 => f = Cardinality(projF)
    BY <2>1, <2>2, CountedProjection, Zenon
  <2>4. /\ g \in Nat /\ (g = 0 <=> Cardinality(projG) = 0)
        /\ Len(forall_vars) # 0 => g = Cardinality(projG)
    BY <2>1, <2>2, CountedProjection, Zenon
  <2>5. Len(forall_vars) \in Nat /\ Len(exists_vars) \in Nat
    BY DEF TypeOK
  <2> HIDE DEF projF, projG, f, g
  <2> DEFINE problem == [forall |-> Len(forall_vars), s0 |-> Cardinality(Inputs \ projF),
                         s1 |-> Cardinality(projF \ projG), s2 |-> Cardinality(projG),
                         f |-> f, g |-> g]
  <2>6. problem \in Problems
    <3>1. /\ f = 0 <=> Cardinality(projF \ projG) + Cardinality(projG) = 0
          /\ g = 0 <=> Cardinality(projG) = 0
          /\ Len(forall_vars) # 0 =>
               /\ f = Cardinality(projF \ projG) + Cardinality(projG)
               /\ g = Cardinality(projG)
      BY <2>2, <2>3, <2>4
    <3> QED
      BY <2>2, <2>3, <2>4, <2>5, <3>1, IsProblem, Zenon
  <2> QED
    BY <2>2, <2>5, <2>6, Zenon DEF EstimatorAssumptions, projF, projG, f, g
<1> QED
  BY <1>1, FormulaTypeCorrect, FormulaInvariant, GCorrect, PTL
=============================================================================
