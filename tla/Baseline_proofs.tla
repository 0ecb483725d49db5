--------------------------- MODULE Baseline_proofs ---------------------------
(***************************************************************************)
(* The baseline's formula and that of create_g_formula() have the same     *)
(* models on X, for well-formed files of any size: the argument for the    *)
(* second, in SklFCInt_proofs, is made again for the first, whose new      *)
(* variables stand in the order of the variables and not of the e line.    *)
(***************************************************************************)
EXTENDS Baseline, SklFCInt_proofs, FiniteSetTheorems

\* The variables of Y are as many as their ranks, which follow their order.
LEMMA Ranks ==
  ASSUME TypeOK, FInv, WellFormed, phase = "ready"
  PROVE  /\ Cardinality(ExistsSet) \in Nat
         /\ \A v \in ExistsSet : RankOf(v) \in 0 .. Cardinality(ExistsSet) - 1
         /\ \A v, w \in ExistsSet : RankOf(v) = RankOf(w) => v = w
<1> DEFINE Below(v) == {y \in ExistsSet : y < v}
<1>1. nvars \in Nat /\ ExistsSet \subseteq 0 .. nvars - 1
  BY Closed
<1>2. IsFiniteSet(ExistsSet)
  <2>1. IsFiniteSet(0 .. nvars - 1)
    BY <1>1, FS_Interval
  <2> QED
    BY <1>1, <2>1, FS_Subset
<1>3. \A v \in ExistsSet : Below(v) \in SUBSET ExistsSet /\ v \notin Below(v)
  BY <1>1
<1>4. \A v \in ExistsSet : IsFiniteSet(Below(v)) /\ Cardinality(Below(v)) \in Nat
  BY <1>2, <1>3, FS_Subset, FS_CardinalityType
<1>5. ASSUME NEW v \in ExistsSet
      PROVE  Cardinality(Below(v)) < Cardinality(ExistsSet)
  <2>1. Cardinality(Below(v)) <= Cardinality(ExistsSet)
    BY <1>2, <1>3, FS_Subset
  <2>2. Cardinality(Below(v)) # Cardinality(ExistsSet)
    BY <1>2, <1>3, FS_Subset
  <2> QED
    BY <1>2, <1>4, <2>1, <2>2, FS_CardinalityType
<1>6. ASSUME NEW v \in ExistsSet, NEW w \in ExistsSet, v < w
      PROVE  Cardinality(Below(v)) # Cardinality(Below(w))
  <2>1. Below(v) \in SUBSET Below(w) /\ v \in Below(w) /\ v \notin Below(v)
    <3>1. v \in Int /\ w \in Int /\ \A y \in ExistsSet : y \in Int
      BY <1>1
    <3>2. ~(v < v) /\ \A y \in ExistsSet : y < v => y < w
      BY <1>6, <3>1
    <3> QED
      BY <1>6, <3>2
  <2> HIDE DEF Below
  <2> QED
    BY <1>4, <2>1, FS_Subset
<1>7. Cardinality(ExistsSet) \in Nat
  BY <1>2, FS_CardinalityType
<1>8. \A v \in ExistsSet : RankOf(v) = Cardinality(Below(v))
  BY DEF RankOf
<1> HIDE DEF Below
<1>9. ASSUME NEW v \in ExistsSet, NEW w \in ExistsSet, RankOf(v) = RankOf(w)
      PROVE  v = w
  <2>1. v \in Int /\ w \in Int
    BY <1>1
  <2>2. ~(v < w) /\ ~(w < v)
    BY <1>6, <1>8, <1>9
  <2> QED
    BY <2>1, <2>2
<1> QED
  BY <1>4, <1>5, <1>7, <1>8, <1>9

\* Where the script puts the copies and the auxiliary variables.
LEMMA BaselinePlaces ==
  ASSUME TypeOK, FInv, WellFormed, phase = "ready"
  PROVE  /\ num_new_vars \in Nat /\ nvars \in Nat
         /\ 0 .. nvars - 1 \subseteq 0 .. num_new_vars - 1
         /\ \A v \in 0 .. nvars - 1 : v \notin ExistsSet => mapping[v] = v
         /\ \A v \in ExistsSet :
              /\ v \in 0 .. nvars - 1
              /\ mapping[v] \in 0 .. num_new_vars - 1 /\ ~(mapping[v] < nvars)
              /\ DiffOffset(v) \in 0 .. num_new_vars - 1 /\ ~(DiffOffset(v) < nvars)
         /\ \A v, w \in ExistsSet :
              /\ mapping[v] # DiffOffset(w)
              /\ mapping[v] = mapping[w] => v = w
              /\ DiffOffset(v) = DiffOffset(w) => v = w
<1> DEFINE m == Cardinality(ExistsSet)
<1>1. /\ m \in Nat /\ nvars \in Nat
      /\ \A v \in ExistsSet : v \in 0 .. nvars - 1 /\ RankOf(v) \in 0 .. m - 1
      /\ \A v, w \in ExistsSet : RankOf(v) = RankOf(w) => v = w
  BY Ranks, Closed
<1>2. /\ num_new_vars = nvars + 2 * m
      /\ \A v \in ExistsSet : /\ mapping[v] = nvars + RankOf(v)
                              /\ DiffOffset(v) = nvars + m + RankOf(v)
      /\ \A v \in 0 .. nvars - 1 : v \notin ExistsSet => mapping[v] = v
  BY <1>1 DEF num_new_vars, mapping, DiffOffset
<1> HIDE DEF m
<1>3. num_new_vars \in Nat /\ 0 .. nvars - 1 \subseteq 0 .. num_new_vars - 1
  BY <1>1, <1>2
<1>4. ASSUME NEW v \in ExistsSet
      PROVE  /\ mapping[v] \in 0 .. num_new_vars - 1 /\ ~(mapping[v] < nvars)
             /\ DiffOffset(v) \in 0 .. num_new_vars - 1 /\ ~(DiffOffset(v) < nvars)
  BY <1>1, <1>2
<1>5. ASSUME NEW v \in ExistsSet, NEW w \in ExistsSet
      PROVE  /\ mapping[v] # DiffOffset(w)
             /\ mapping[v] = mapping[w] => RankOf(v) = RankOf(w)
             /\ DiffOffset(v) = DiffOffset(w) => RankOf(v) = RankOf(w)
  BY <1>1, <1>2
<1> QED
  BY <1>1, <1>2, <1>3, <1>4, <1>5

\* The clauses of the script's formula, in one list.
LEMMA BaselineClauses ==
  ASSUME NEW c
  PROVE  c \in BaselineFormula <=>
           \/ c \in clauses
           \/ \E d \in clauses : Copied(d) /\ c = Renamed(d)
           \/ \E v \in ExistsSet : c \in Unequal(v)
           \/ c = k_const
<1> DEFINE copies == {Renamed(d) : d \in {e \in clauses : Copied(e)}}
           differ == UNION {Unequal(v) : v \in ExistsSet}
<1>1. c \in differ <=> \E v \in ExistsSet : c \in Unequal(v)
  BY Zenon
<1>2. c \in copies <=> \E d \in clauses : Copied(d) /\ c = Renamed(d)
  BY Zenon
<1>3. BaselineFormula = clauses \cup copies \cup differ \cup {k_const}
  BY DEF BaselineFormula
<1> HIDE DEF copies, differ
<1> QED
  BY <1>1, <1>2, <1>3

\* A clause that is not copied is over X alone.
LEMMA NotCopied ==
  ASSUME TypeOK, FInv, WellFormed, phase = "ready", NEW c \in clauses, ~Copied(c),
         NEW l \in c
  PROVE  l.var \in ForallSet /\ l.var \notin ExistsSet
<1>1. l.var \in ForallSet
  BY DEF Copied, OnlyInputs
<1> QED
  BY <1>1, Closed

(***************************************************************************)
(* The models of the script's formula are pairs of models of F.            *)
(***************************************************************************)

\* The second of the two; the first is FirstOf.
MappedOf(g) == [v \in 0 .. nvars - 1 |-> g[mapping[v]]]

\* The assignment to the variables of the script's formula that stands for a and b.
BaselinePair(a, b) ==
  [u \in 0 .. num_new_vars - 1 |->
     IF u < nvars THEN a[u]
     ELSE IF \E y \in ExistsSet : mapping[y] = u
     THEN b[CHOOSE y \in ExistsSet : mapping[y] = u]
     ELSE IF \E y \in ExistsSet : DiffOffset(y) = u
     THEN LET y == CHOOSE y \in ExistsSet : DiffOffset(y) = u IN a[y] # b[y]
     ELSE FALSE]

\* A model of the script's formula gives two models of F with the same input and
\* other outputs.
LEMMA BaselineSound ==
  ASSUME TypeOK, FInv, WellFormed, phase = "ready",
         NEW g \in Models(BaselineFormula, num_new_vars)
  PROVE  /\ FirstOf(g) \in Models(clauses, nvars)
         /\ MappedOf(g) \in Models(clauses, nvars)
         /\ Input(FirstOf(g)) = Input(g) /\ Input(MappedOf(g)) = Input(g)
         /\ \E y \in ExistsSet : MappedOf(g)[y] # FirstOf(g)[y]
<1> DEFINE a == FirstOf(g)
           b == MappedOf(g)
<1>1. /\ g \in [0 .. num_new_vars - 1 -> BOOLEAN]
      /\ \A c \in BaselineFormula : \E l \in c : Holds(g, l)
  BY DEF Models, Satisfies, Assignments
<1>2. \A v \in 0 .. nvars - 1 : g[v] \in BOOLEAN /\ g[mapping[v]] \in BOOLEAN
  <2>1. \A v \in 0 .. nvars - 1 : v \in 0 .. num_new_vars - 1
                                 /\ mapping[v] \in 0 .. num_new_vars - 1
    BY BaselinePlaces
  <2> QED
    BY <1>1, <2>1
<1>3. a \in [0 .. nvars - 1 -> BOOLEAN] /\ b \in [0 .. nvars - 1 -> BOOLEAN]
  BY <1>2 DEF FirstOf, MappedOf
<1>4. \A v \in 0 .. nvars - 1 :
        a[v] = g[v] /\ b[v] = g[mapping[v]] /\ (v \notin ExistsSet => b[v] = g[v])
  BY BaselinePlaces DEF FirstOf, MappedOf
<1>5. Satisfies(a, clauses)
  <2> SUFFICES ASSUME NEW c \in clauses
               PROVE  \E l \in c : Holds(a, l)
    BY DEF Satisfies
  <2>1. PICK l \in c : Holds(g, l)
    BY <1>1, BaselineClauses
  <2>2. a[l.var] = g[l.var]
    BY <1>4, ClauseVars
  <2> QED
    BY <2>1, <2>2 DEF Holds
<1>6. Satisfies(b, clauses)
  <2> SUFFICES ASSUME NEW c \in clauses
               PROVE  \E l \in c : Holds(b, l)
    BY DEF Satisfies
  <2>1. CASE Copied(c)
    <3>1. PICK k \in Renamed(c) : Holds(g, k)
      BY <1>1, <2>1, BaselineClauses
    <3>2. PICK l \in c : k = Lit(mapping[l.var], l.sign)
      BY DEF Renamed
    <3>3. b[l.var] = g[mapping[l.var]]
      BY <1>4, ClauseVars
    <3>4. g[mapping[l.var]] # l.sign
      BY <3>1, <3>2, HoldsLit
    <3> QED
      BY <3>3, <3>4 DEF Holds
  <2>2. CASE ~Copied(c)
    <3>1. PICK l \in c : Holds(g, l)
      BY <1>1, BaselineClauses
    <3>2. b[l.var] = g[l.var]
      BY <1>4, <2>2, NotCopied, ClauseVars
    <3> QED
      BY <3>1, <3>2 DEF Holds
  <2> QED
    BY <2>1, <2>2
<1>7. Input(a) = Input(g) /\ Input(b) = Input(g)
  <2>1. \A v \in ForallSet : v \in 0 .. nvars - 1 /\ v \notin ExistsSet
    BY Closed
  <2>2. \A v \in ForallSet : a[v] = g[v] /\ b[v] = g[v]
    BY <1>4, <2>1
  <2> QED
    BY <2>2, Zenon DEF Input
<1>8. \E y \in ExistsSet : b[y] # a[y]
  <2>1. PICK y \in ExistsSet : Holds(g, Lit(DiffOffset(y), FALSE))
    <3>1. \E l \in k_const : Holds(g, l)
      BY <1>1, BaselineClauses
    <3> QED
      BY <3>1 DEF k_const
  <2>2. y \in 0 .. nvars - 1 /\ DiffOffset(y) \in 0 .. num_new_vars - 1
    BY BaselinePlaces
  <2>3. g[DiffOffset(y)] = TRUE
    BY <1>1, <2>1, <2>2, HoldsLit
  <2>4. \A s \in BOOLEAN : g[y] # s \/ g[mapping[y]] # s
    <3> SUFFICES ASSUME NEW s \in BOOLEAN
                 PROVE  g[y] # s \/ g[mapping[y]] # s
      OBVIOUS
    <3> DEFINE c == {Lit(y, s), Lit(mapping[y], s), Lit(DiffOffset(y), TRUE)}
    <3>1. c \in Unequal(y)
      BY DEF Unequal
    <3> HIDE DEF c
    <3>2. PICK l \in c : Holds(g, l)
      BY <1>1, <3>1, BaselineClauses
    <3> QED
      BY <2>3, <3>2, HoldsLit DEF c
  <2>5. g[y] \in BOOLEAN /\ b[y] = g[mapping[y]] /\ a[y] = g[y]
    BY <1>2, <1>4, <2>2
  <2> QED
    BY <2>4, <2>5
<1> QED
  BY <1>3, <1>5, <1>6, <1>7, <1>8 DEF Models, Assignments

\* What BaselinePair puts on the variables of F, on the copies and on the others.
LEMMA BaselineValues ==
  ASSUME TypeOK, FInv, WellFormed, phase = "ready", NEW a, NEW b
  PROVE  /\ \A v \in 0 .. nvars - 1 : BaselinePair(a, b)[v] = a[v]
         /\ \A y \in ExistsSet :
              /\ BaselinePair(a, b)[mapping[y]] = b[y]
              /\ BaselinePair(a, b)[DiffOffset(y)] = (a[y] # b[y])
<1>1. ASSUME NEW v \in 0 .. nvars - 1
      PROVE  BaselinePair(a, b)[v] = a[v]
  <2>1. v \in 0 .. num_new_vars - 1 /\ v < nvars
    BY BaselinePlaces
  <2> QED
    BY <2>1 DEF BaselinePair
<1>2. ASSUME NEW y \in ExistsSet
      PROVE  BaselinePair(a, b)[mapping[y]] = b[y]
  <2> DEFINE u == mapping[y]
  <2>1. u \in 0 .. num_new_vars - 1 /\ ~(u < nvars)
    BY BaselinePlaces
  <2>2. (CHOOSE z \in ExistsSet : mapping[z] = u) = y
    BY BaselinePlaces
  <2> HIDE DEF u
  <2>3. \E z \in ExistsSet : mapping[z] = u
    BY DEF u
  <2> QED
    BY <2>1, <2>2, <2>3 DEF BaselinePair, u
<1>3. ASSUME NEW y \in ExistsSet
      PROVE  BaselinePair(a, b)[DiffOffset(y)] = (a[y] # b[y])
  <2> DEFINE u == DiffOffset(y)
  <2>1. u \in 0 .. num_new_vars - 1 /\ ~(u < nvars)
    BY BaselinePlaces
  <2>2. (CHOOSE z \in ExistsSet : DiffOffset(z) = u) = y
    BY BaselinePlaces
  <2>3. (\E z \in ExistsSet : DiffOffset(z) = u) /\ ~ \E z \in ExistsSet : mapping[z] = u
    BY BaselinePlaces
  <2> HIDE DEF u
  <2>4. BaselinePair(a, b)[u] = (a[y] # b[y])
    BY <2>1, <2>2, <2>3 DEF BaselinePair
  <2> QED
    BY <2>4 DEF u
<1> QED
  BY <1>1, <1>2, <1>3

\* Two models of F with the same input and other outputs give a model of the
\* script's formula.
LEMMA BaselineComplete ==
  ASSUME TypeOK, FInv, WellFormed, phase = "ready",
         NEW a \in Models(clauses, nvars), NEW b \in Models(clauses, nvars),
         Input(b) = Input(a), NEW y0 \in ExistsSet, b[y0] # a[y0]
  PROVE  /\ BaselinePair(a, b) \in Models(BaselineFormula, num_new_vars)
         /\ Input(BaselinePair(a, b)) = Input(a)
<1> DEFINE g == BaselinePair(a, b)
<1>1. /\ a \in [0 .. nvars - 1 -> BOOLEAN] /\ b \in [0 .. nvars - 1 -> BOOLEAN]
      /\ \A c \in clauses : (\E l \in c : Holds(a, l)) /\ (\E l \in c : Holds(b, l))
  BY DEF Models, Satisfies, Assignments
<1>2. \A v \in 0 .. nvars - 1 : v \notin ExistsSet => a[v] = b[v]
  <2>1. \A v \in ForallSet : Input(a)[v] = a[v] /\ Input(b)[v] = b[v]
    BY DEF Input
  <2> QED
    BY <2>1, Closed
<1>3. /\ \A v \in 0 .. nvars - 1 : g[v] = a[v]
      /\ \A y \in ExistsSet : g[mapping[y]] = b[y] /\ g[DiffOffset(y)] = (a[y] # b[y])
  BY BaselineValues
<1>4. g \in [0 .. num_new_vars - 1 -> BOOLEAN]
  <2> SUFFICES ASSUME NEW u \in 0 .. num_new_vars - 1
               PROVE  g[u] \in BOOLEAN
    BY DEF BaselinePair
  <2>1. CASE u < nvars
    <3>1. u \in 0 .. nvars - 1
      BY <2>1, BaselinePlaces
    <3> QED
      BY <1>1, <1>3, <3>1
  <2>2. CASE ~(u < nvars) /\ \E y \in ExistsSet : mapping[y] = u
    <3>1. PICK y \in ExistsSet : mapping[y] = u
      BY <2>2
    <3>2. b[y] \in BOOLEAN
      BY <1>1, BaselinePlaces
    <3> QED
      BY <1>3, <3>1, <3>2
  <2>3. CASE ~(u < nvars) /\ \E y \in ExistsSet : DiffOffset(y) = u
    <3>1. PICK y \in ExistsSet : DiffOffset(y) = u
      BY <2>3
    <3> QED
      BY <1>3, <3>1
  <2>4. CASE ~(u < nvars) /\ ~(\E y \in ExistsSet : mapping[y] = u)
               /\ ~(\E y \in ExistsSet : DiffOffset(y) = u)
    <3>1. g[u] = FALSE
      BY <2>4 DEF BaselinePair
    <3> QED
      BY <3>1
  <2> QED
    BY <2>1, <2>2, <2>3, <2>4
<1>5. ASSUME NEW c \in BaselineFormula
      PROVE  \E l \in c : Holds(g, l)
  <2>1. CASE c \in clauses
    <3>1. PICK l \in c : Holds(a, l)
      BY <1>1, <2>1
    <3>2. g[l.var] = a[l.var]
      BY <1>3, <2>1, ClauseVars
    <3> QED
      BY <3>1, <3>2 DEF Holds
  <2>2. CASE \E d \in clauses : Copied(d) /\ c = Renamed(d)
    <3>1. PICK d \in clauses : c = Renamed(d)
      BY <2>2
    <3>2. PICK l \in d : Holds(b, l)
      BY <1>1
    <3>3. l.var \in 0 .. nvars - 1
      BY ClauseVars
    <3>4. g[mapping[l.var]] = b[l.var]
      <4>1. CASE l.var \in ExistsSet
        BY <1>3, <4>1
      <4>2. CASE l.var \notin ExistsSet
        BY <1>2, <1>3, <3>3, <4>2, BaselinePlaces
      <4> QED
        BY <4>1, <4>2
    <3>5. Holds(g, Lit(mapping[l.var], l.sign))
      BY <3>2, <3>4, HoldsLit DEF Holds
    <3>6. Lit(mapping[l.var], l.sign) \in c
      BY <3>1 DEF Renamed
    <3> QED
      BY <3>5, <3>6
  <2>3. CASE \E y \in ExistsSet : c \in Unequal(y)
    <3>1. PICK y \in ExistsSet : c \in Unequal(y)
      BY <2>3
    <3>2. PICK s \in BOOLEAN :
            c = {Lit(y, s), Lit(mapping[y], s), Lit(DiffOffset(y), TRUE)}
      BY <3>1 DEF Unequal
    <3>3. /\ g[y] = a[y] /\ g[mapping[y]] = b[y] /\ g[DiffOffset(y)] = (a[y] # b[y])
          /\ a[y] \in BOOLEAN /\ b[y] \in BOOLEAN
      BY <1>1, <1>3, BaselinePlaces
    <3>4. g[y] # s \/ g[mapping[y]] # s \/ g[DiffOffset(y)] # TRUE
      BY <3>3
    <3> QED
      BY <3>2, <3>4, HoldsLit
  <2>4. CASE c = k_const
    <3>1. g[DiffOffset(y0)] = TRUE
      BY <1>3
    <3>2. Holds(g, Lit(DiffOffset(y0), FALSE))
      BY <3>1, HoldsLit
    <3> QED
      BY <2>4, <3>2 DEF k_const
  <2> QED
    BY <2>1, <2>2, <2>3, <2>4, BaselineClauses
<1>6. Input(g) = Input(a)
  <2>1. \A v \in ForallSet : g[v] = a[v]
    BY <1>3, Closed
  <2> QED
    BY <2>1, Zenon DEF Input
<1> QED
  BY <1>4, <1>5, <1>6 DEF Models, Satisfies, Assignments

\* BaselineAgrees: whatever the formula and its quantifiers, what the exact baseline
\* counts and what the estimator samples from are the same set of inputs.
THEOREM BaselineCorrect ==
  ASSUME WellFormed
  PROVE  Spec => []BaselineAgrees
<1>1. TypeOK /\ FInv /\ GCountsTwoOutputs => BaselineAgrees
  <2> SUFFICES ASSUME TypeOK, FInv, GCountsTwoOutputs, phase = "ready"
               PROVE  {Input(g) : g \in Models(BaselineFormula, num_new_vars)} = TwoOutputs
    BY DEF BaselineAgrees, GCountsTwoOutputs
  <2>1. ASSUME NEW g \in Models(BaselineFormula, num_new_vars)
        PROVE  Input(g) \in TwoOutputs
    <3> DEFINE a == FirstOf(g)
               b == MappedOf(g)
    <3>1. /\ a \in Models(clauses, nvars) /\ b \in Models(clauses, nvars)
          /\ Input(a) = Input(g) /\ Input(b) = Input(a)
          /\ \E y \in ExistsSet : b[y] # a[y]
      BY BaselineSound
    <3> HIDE DEF a, b
    <3> QED
      BY <3>1 DEF TwoOutputs
  <2>2. ASSUME NEW x \in TwoOutputs
        PROVE  \E g \in Models(BaselineFormula, num_new_vars) : x = Input(g)
    <3>1. PICK a \in Models(clauses, nvars), b \in Models(clauses, nvars) :
            x = Input(a) /\ Input(b) = Input(a) /\ \E y \in ExistsSet : b[y] # a[y]
      BY DEF TwoOutputs
    <3>2. PICK y0 \in ExistsSet : b[y0] # a[y0]
      BY <3>1
    <3> QED
      BY <3>1, <3>2, BaselineComplete
  <2> QED
    BY <2>1, <2>2
<1> QED
  BY <1>1, FormulaTypeCorrect, FormulaInvariant, GCorrect, PTL
=============================================================================
