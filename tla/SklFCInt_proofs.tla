-------------------------- MODULE SklFCInt_proofs --------------------------
(***************************************************************************)
(* Theorems about SklFCInt, for formulas and quantifiers of any size: the  *)
(* variables that create_g_formula() adds are new, and G has, projected on *)
(* X, exactly the inputs with two outputs for models.                      *)
(***************************************************************************)
EXTENDS SklFCInt, WellFoundedInduction, TLAPS

\* The assumptions on the constants, in one list.
LEMMA Constants ==
  /\ NumVars \in Nat \ {0} /\ VarChoices \subseteq Nat
  /\ MaxClauses \in Nat /\ MaxQuantified \in Nat /\ WellFormed \in BOOLEAN
  BY FormulaAssumption DEF FormulaAssumption

\* The clauses a file may hold are sets of literals.
LEMMA ClauseTypes == ClauseChoices \subseteq SUBSET Literals
  BY FormulaAssumption DEF FormulaAssumption

\* The quantifiers of a well-formed file, the clauses that check_var() let pass,
\* and what create_g_formula() has left.
PrefixInv ==
  WellFormed =>
    /\ \A i \in DOMAIN exists_vars : exists_vars[i] < NumVars
    /\ \A i \in DOMAIN forall_vars : forall_vars[i] < NumVars
    /\ \A i, j \in DOMAIN exists_vars : exists_vars[i] = exists_vars[j] => i = j
    /\ \A i, j \in DOMAIN forall_vars : forall_vars[i] = forall_vars[j] => i = j
    /\ ForallSet \cap ExistsSet = {}

ClausesInv == \A c \in clauses : Declared(c)

ReadyInv ==
  phase = "ready" =>
    /\ g_formula_clauses = GFormula
    /\ n_g_vars = nvars + 2 * Len(exists_vars)
    /\ WellFormed => nvars = NumVars /\ ForallSet \cup ExistsSet = 0 .. NumVars - 1

FInv == PrefixInv /\ ClausesInv /\ ReadyInv

\* Lit makes a literal of a variable and a sign.
LEMMA LitType ==
  ASSUME NEW v \in Nat, NEW s \in BOOLEAN
  PROVE  Lit(v, s) \in Literals
  BY DEF Lit, Literals

\* The copies and the auxiliary variables are variables.
LEMMA NewVariablesNat ==
  ASSUME TypeOK, NEW i \in DOMAIN exists_vars
  PROVE  /\ i \in 1 .. Len(exists_vars) /\ Len(exists_vars) \in Nat
         /\ exists_vars[i] \in Nat /\ Prime(i) \in Nat /\ Aux(i) \in Nat
<1>1. /\ i \in 1 .. Len(exists_vars) /\ Len(exists_vars) \in Nat
      /\ exists_vars[i] \in Nat /\ nvars \in Nat
  <2>1. exists_vars \in Seq(VarChoices) /\ nvars \in {0, NumVars}
    BY DEF TypeOK
  <2>2. i \in 1 .. Len(exists_vars) /\ Len(exists_vars) \in Nat
    BY <2>1
  <2>3. exists_vars[i] \in VarChoices
    BY <2>1
  <2>4. nvars \in Nat
    BY <2>1, Constants
  <2>5. exists_vars[i] \in Nat
    BY <2>3, Constants
  <2> QED
    BY <2>2, <2>4, <2>5
<1> QED
  BY <1>1 DEF Prime, Aux

\* std::find finds the variable it looks for.
LEMMA PlaceOfFinds ==
  ASSUME TypeOK, PrefixInv, WellFormed, NEW i \in DOMAIN exists_vars
  PROVE  PlaceOf(exists_vars[i]) = i
<1> DEFINE v == exists_vars[i]
<1>1. DOMAIN exists_vars = 1 .. Len(exists_vars) /\ Len(exists_vars) \in Nat
  BY DEF TypeOK
<1>2. exists_vars[i] = v /\ \A j \in 1 .. i - 1 : exists_vars[j] # v
  BY <1>1 DEF PrefixInv
<1>3. /\ PlaceOf(v) \in DOMAIN exists_vars
      /\ exists_vars[PlaceOf(v)] = v
  BY <1>2 DEF PlaceOf
<1> QED
  BY <1>3 DEF PrefixInv

\* The clauses of G, in one list.
LEMMA GClauses ==
  ASSUME NEW c
  PROVE  c \in GFormula <=>
           \/ c \in clauses
           \/ \E d \in clauses : c = PrimeClause(d)
           \/ \E i \in DOMAIN exists_vars : c \in DiffersAt(i)
           \/ c = diff_clause
<1> DEFINE copies == {PrimeClause(d) : d \in clauses}
           differ == UNION {DiffersAt(i) : i \in DOMAIN exists_vars}
<1>1. c \in differ <=> \E i \in DOMAIN exists_vars : c \in DiffersAt(i)
  BY Zenon
<1>2. c \in copies <=> \E d \in clauses : c = PrimeClause(d)
  BY Zenon
<1>3. GFormula = clauses \cup copies \cup differ \cup {diff_clause}
  BY DEF GFormula
<1> HIDE DEF copies, differ
<1> QED
  BY <1>1, <1>2, <1>3

\* A set of natural numbers has a least element.
LEMMA SmallestNat ==
  ASSUME NEW S \in SUBSET Nat, NEW k \in S
  PROVE  \E i \in S : \A j \in S : i <= j
<1> DEFINE R == OpToRel(<, Nat)
<1>1. \E i \in S : \A j \in S : <<j, i>> \notin R
  <2>1. IsWellFoundedOn(R, Nat)
    BY NatLessThanWellFounded
  <2> HIDE DEF R
  <2> QED
    BY <2>1, WFMin
<1>2. \A i, j \in Nat : j < i => <<j, i>> \in R
  BY DEF OpToRel
<1>3. PICK i \in S : \A j \in S : <<j, i>> \notin R
  BY <1>1
<1>4. ASSUME NEW j \in S
      PROVE  i <= j
  <2>1. ~(j < i)
    BY <1>2, <1>3 
  <2> QED
    BY <2>1
<1> QED
  BY <1>3, <1>4

\* Reading and building keep the types.
THEOREM FormulaTypeCorrect == Spec => []TypeOK
<1>1. Init => TypeOK
  BY DEF Init, TypeOK
<1>2. TypeOK /\ [Next]_fvars => TypeOK'
  <2> SUFFICES ASSUME TypeOK, [Next]_fvars
               PROVE  TypeOK'
    OBVIOUS
  <2>1. CASE ReadHeader
    BY <2>1 DEF ReadHeader, TypeOK
  <2>2. CASE Reject
    BY <2>2 DEF Reject, TypeOK
  <2>3. ASSUME NEW v \in VarChoices, AddForallVar(v)
        PROVE  TypeOK'
    BY <2>3 DEF AddForallVar, TypeOK
  <2>4. ASSUME NEW v \in VarChoices, AddExistsVar(v)
        PROVE  TypeOK'
    BY <2>4 DEF AddExistsVar, TypeOK
  <2>5. ASSUME NEW c \in ClauseChoices, AddClause(c)
        PROVE  TypeOK'
    BY <2>5 DEF AddClause, TypeOK
  <2>6. CASE CreateGFormula
    <3>1. \A c \in clauses : PrimeClause(c) \in SUBSET Literals
      <4> SUFFICES ASSUME NEW c \in clauses, NEW l \in c
                   PROVE  PrimeLit(l) \in Literals
        BY DEF PrimeClause
      <4>1. l \in Literals
        BY ClauseTypes DEF TypeOK
      <4>2. CASE l.var \in ExistsSet
        <5>1. PlaceOf(l.var) \in DOMAIN exists_vars
          <6>1. PICK k \in DOMAIN exists_vars : exists_vars[k] = l.var
            BY <4>2 DEF ExistsSet
          <6>2. \E i \in DOMAIN exists_vars :
                  exists_vars[i] = l.var /\ \A j \in 1 .. i - 1 : exists_vars[j] # l.var
            <7> DEFINE S == {i \in DOMAIN exists_vars : exists_vars[i] = l.var}
            <7>1. S \subseteq Nat /\ k \in S
              BY <6>1 DEF TypeOK
            <7>2. PICK i \in S : \A j \in S : i <= j
              BY <7>1, SmallestNat
            <7> QED
              BY <7>1, <7>2 DEF TypeOK
          <6> QED
            BY <6>2 DEF PlaceOf
        <5> QED
          BY <4>1, <4>2, <5>1, NewVariablesNat, LitType DEF PrimeLit, Literals
      <4> QED
        BY <4>1, <4>2 DEF PrimeLit
    <3>2. \A i \in DOMAIN exists_vars :
            DiffersAt(i) \subseteq SUBSET Literals /\ Lit(Aux(i), FALSE) \in Literals
      <4> SUFFICES ASSUME NEW i \in DOMAIN exists_vars
                   PROVE  DiffersAt(i) \subseteq SUBSET Literals
                          /\ Lit(Aux(i), FALSE) \in Literals
        OBVIOUS
      <4>1. \A s \in BOOLEAN : /\ Lit(exists_vars[i], s) \in Literals
                              /\ Lit(Prime(i), s) \in Literals
                              /\ Lit(Aux(i), s) \in Literals
        BY NewVariablesNat, LitType
      <4> QED
        BY <4>1, Zenon DEF DiffersAt
    <3>3. GFormula \subseteq SUBSET Literals
      <4> SUFFICES ASSUME NEW c \in GFormula
                   PROVE  c \in SUBSET Literals
        OBVIOUS
      <4>1. \/ c \in clauses
            \/ \E d \in clauses : c = PrimeClause(d)
            \/ \E i \in DOMAIN exists_vars : c \in DiffersAt(i)
            \/ c = diff_clause
        BY GClauses
      <4>2. CASE c \in clauses
        BY <4>2, ClauseTypes DEF TypeOK
      <4>3. CASE \E d \in clauses : c = PrimeClause(d)
        BY <3>1, <4>3
      <4>4. CASE \E i \in DOMAIN exists_vars : c \in DiffersAt(i)
        BY <3>2, <4>4
      <4>5. CASE c = diff_clause
        <5> SUFFICES ASSUME NEW i \in DOMAIN exists_vars
                     PROVE  Lit(Aux(i), FALSE) \in Literals
          BY <4>5 DEF diff_clause
        <5> QED
          BY <3>2
      <4> QED
        BY <4>1, <4>2, <4>3, <4>4, <4>5
    <3>4. nvars + 2 * Len(exists_vars) \in Nat
      <4>1. nvars \in Nat /\ exists_vars \in Seq(VarChoices)
        BY Constants DEF TypeOK
      <4>2. Len(exists_vars) \in Nat
        BY <4>1
      <4> QED
        BY <4>1, <4>2
    <3> QED
      BY <2>6, <3>3, <3>4 DEF CreateGFormula, TypeOK
  <2>7. CASE Done \/ UNCHANGED fvars
    BY <2>7 DEF Done, TypeOK, fvars
  <2> QED
    BY <2>1, <2>2, <2>3, <2>4, <2>5, <2>6, <2>7 DEF Next
<1> QED
  BY <1>1, <1>2, PTL DEF Spec

\* What reading keeps: the quantifiers of a well-formed file name each variable
\* once and within the header, and so do the clauses of any file.
THEOREM FormulaInvariant == Spec => []FInv
<1>1. Init => FInv
  BY DEF Init, FInv, PrefixInv, ClausesInv, ReadyInv, ForallSet, ExistsSet
<1>2. TypeOK /\ FInv /\ [Next]_fvars => FInv'
  <2> SUFFICES ASSUME TypeOK, FInv, [Next]_fvars
               PROVE  FInv'
    OBVIOUS
  <2>0. exists_vars \in Seq(VarChoices) /\ forall_vars \in Seq(VarChoices)
    BY DEF TypeOK
  <2>1. CASE ReadHeader
    <3>1. ClausesInv'
      <4> SUFFICES ASSUME NEW c \in clauses, NEW l \in c
                   PROVE  l.var < NumVars
        BY <2>1 DEF ReadHeader, ClausesInv, Declared
      <4>1. l \in Literals
        BY ClauseTypes DEF TypeOK
      <4>2. l.var \in Nat /\ l.var < 0
        BY <2>1, <4>1 DEF ReadHeader, FInv, ClausesInv, Declared, Literals
      <4> QED
        BY <4>2
    <3> QED
      BY <2>1, <3>1 DEF ReadHeader, FInv, PrefixInv, ReadyInv, ForallSet, ExistsSet
  <2>2. CASE Reject
    BY <2>2 DEF Reject, FInv, PrefixInv, ClausesInv, Declared, ReadyInv,
                ForallSet, ExistsSet
  <2>3. ASSUME NEW v \in VarChoices, AddForallVar(v)
        PROVE  FInv'
    <3>1. /\ Len(forall_vars) \in Nat
          /\ DOMAIN forall_vars = 1 .. Len(forall_vars)
          /\ forall_vars' = Append(forall_vars, v)
          /\ DOMAIN forall_vars' = 1 .. Len(forall_vars) + 1
          /\ \A i \in DOMAIN forall_vars : forall_vars'[i] = forall_vars[i]
          /\ forall_vars'[Len(forall_vars) + 1] = v
      BY <2>0, <2>3 DEF AddForallVar
    <3>2. ForallSet' = ForallSet \cup {v}
      BY <3>1 DEF ForallSet
    <3>3. ExistsSet' = ExistsSet
      BY <2>3 DEF AddForallVar, ExistsSet
    <3>4. PrefixInv'
      <4> SUFFICES ASSUME WellFormed
                   PROVE  PrefixInv'
        BY DEF PrefixInv
      <4>1. v < NumVars /\ v \notin ForallSet \cup ExistsSet
        BY <2>3 DEF AddForallVar, MayQuantify
      <4>2. ForallSet' \cap ExistsSet' = {}
        BY <3>2, <3>3, <4>1 DEF FInv, PrefixInv
      <4>3. \A i \in DOMAIN forall_vars' : forall_vars'[i] < NumVars
        BY <3>1, <4>1 DEF FInv, PrefixInv
      <4>4. \A i \in DOMAIN forall_vars : forall_vars[i] # v
        BY <4>1 DEF ForallSet
      <4>5. \A i, j \in DOMAIN forall_vars' :
              forall_vars'[i] = forall_vars'[j] => i = j
        BY <3>1, <4>4 DEF FInv, PrefixInv
      <4> QED
        BY <2>3, <4>2, <4>3, <4>5 DEF AddForallVar, FInv, PrefixInv
    <3> QED
      BY <2>3, <3>4 DEF AddForallVar, FInv, ClausesInv, Declared, ReadyInv
  <2>4. ASSUME NEW v \in VarChoices, AddExistsVar(v)
        PROVE  FInv'
    <3>1. /\ Len(exists_vars) \in Nat
          /\ DOMAIN exists_vars = 1 .. Len(exists_vars)
          /\ exists_vars' = Append(exists_vars, v)
          /\ DOMAIN exists_vars' = 1 .. Len(exists_vars) + 1
          /\ \A i \in DOMAIN exists_vars : exists_vars'[i] = exists_vars[i]
          /\ exists_vars'[Len(exists_vars) + 1] = v
      BY <2>0, <2>4 DEF AddExistsVar
    <3>2. ExistsSet' = ExistsSet \cup {v}
      BY <3>1 DEF ExistsSet
    <3>3. ForallSet' = ForallSet
      BY <2>4 DEF AddExistsVar, ForallSet
    <3>4. PrefixInv'
      <4> SUFFICES ASSUME WellFormed
                   PROVE  PrefixInv'
        BY DEF PrefixInv
      <4>1. v < NumVars /\ v \notin ForallSet \cup ExistsSet
        BY <2>4 DEF AddExistsVar, MayQuantify
      <4>2. ForallSet' \cap ExistsSet' = {}
        BY <3>2, <3>3, <4>1 DEF FInv, PrefixInv
      <4>3. \A i \in DOMAIN exists_vars' : exists_vars'[i] < NumVars
        BY <3>1, <4>1 DEF FInv, PrefixInv
      <4>4. \A i \in DOMAIN exists_vars : exists_vars[i] # v
        BY <4>1 DEF ExistsSet
      <4>5. \A i, j \in DOMAIN exists_vars' :
              exists_vars'[i] = exists_vars'[j] => i = j
        BY <3>1, <4>4 DEF FInv, PrefixInv
      <4> QED
        BY <2>4, <4>2, <4>3, <4>5 DEF AddExistsVar, FInv, PrefixInv
    <3> QED
      BY <2>4, <3>4 DEF AddExistsVar, FInv, ClausesInv, Declared, ReadyInv
  <2>5. ASSUME NEW c \in ClauseChoices, AddClause(c)
        PROVE  FInv'
    <3>1. ClausesInv'
      BY <2>5 DEF AddClause, FInv, ClausesInv, Declared
    <3> QED
      BY <2>5, <3>1 DEF AddClause, FInv, PrefixInv, ReadyInv, ForallSet, ExistsSet
  <2>6. CASE CreateGFormula
    <3>1. GFormula' = GFormula /\ ForallSet' = ForallSet /\ ExistsSet' = ExistsSet
      BY <2>6 DEF CreateGFormula, GFormula, PrimeClause, PrimeLit, PlaceOf, DiffersAt,
                  diff_clause, Prime, Aux, ForallSet, ExistsSet
    <3>2. ReadyInv'
      BY <2>6, <3>1 DEF CreateGFormula, ReadyInv
    <3> QED
      BY <2>6, <3>1, <3>2 DEF CreateGFormula, FInv, PrefixInv, ClausesInv, Declared
  <2>7. CASE Done \/ UNCHANGED fvars
    <3>1. UNCHANGED fvars
      BY <2>7 DEF Done
    <3>2. GFormula' = GFormula /\ ForallSet' = ForallSet /\ ExistsSet' = ExistsSet
      BY <3>1 DEF fvars, GFormula, PrimeClause, PrimeLit, PlaceOf, DiffersAt,
                  diff_clause, Prime, Aux, ForallSet, ExistsSet
    <3> QED
      BY <3>1, <3>2 DEF fvars, FInv, PrefixInv, ClausesInv, Declared, ReadyInv
  <2> QED
    BY <2>1, <2>2, <2>3, <2>4, <2>5, <2>6, <2>7 DEF Next
<1> QED
  BY <1>1, <1>2, FormulaTypeCorrect, PTL DEF Spec

(***************************************************************************)
(* G of a well-formed file.                                                *)
(***************************************************************************)

\* The variables of a well-formed file: X and Y split 0 .. nvars - 1.
LEMMA Closed ==
  ASSUME TypeOK, FInv, WellFormed, phase = "ready"
  PROVE  /\ nvars \in Nat /\ nvars = NumVars
         /\ Len(exists_vars) \in Nat /\ DOMAIN exists_vars = 1 .. Len(exists_vars)
         /\ ForallSet \cup ExistsSet = 0 .. nvars - 1
         /\ ForallSet \cap ExistsSet = {}
         /\ n_g_vars = nvars + 2 * Len(exists_vars) /\ n_g_vars \in Nat
         /\ 0 .. nvars - 1 \subseteq 0 .. n_g_vars - 1
<1>1. nvars = NumVars /\ nvars \in Nat
  BY Constants DEF FInv, ReadyInv
<1>2. exists_vars \in Seq(VarChoices)
  BY DEF TypeOK
<1>3. Len(exists_vars) \in Nat /\ DOMAIN exists_vars = 1 .. Len(exists_vars)
  BY <1>2
<1>4. n_g_vars = nvars + 2 * Len(exists_vars)
  BY DEF FInv, ReadyInv
<1>5. n_g_vars \in Nat /\ nvars <= n_g_vars
  BY <1>1, <1>3, <1>4
<1>6. 0 .. nvars - 1 \subseteq 0 .. n_g_vars - 1
  BY <1>1, <1>5
<1> QED
  BY <1>1, <1>3, <1>4, <1>5, <1>6 DEF FInv, PrefixInv, ReadyInv

\* Where the copies and the auxiliary variables lie.
LEMMA Places ==
  ASSUME TypeOK, FInv, WellFormed, phase = "ready", NEW i \in DOMAIN exists_vars
  PROVE  /\ exists_vars[i] \in ExistsSet /\ exists_vars[i] \in 0 .. nvars - 1
         /\ Prime(i) \in nvars .. nvars + Len(exists_vars) - 1
         /\ Prime(i) - nvars + 1 = i
         /\ Aux(i) \in nvars + Len(exists_vars) .. n_g_vars - 1
         /\ Aux(i) - nvars - Len(exists_vars) + 1 = i
<1>1. exists_vars[i] \in ExistsSet
  BY DEF ExistsSet
<1>2. exists_vars[i] \in 0 .. nvars - 1
  BY <1>1, Closed
<1>3. PICK n \in Nat : n = Len(exists_vars) /\ i \in 1 .. n
  BY Closed
<1>4. nvars \in Nat /\ n_g_vars = nvars + 2 * n
  BY <1>3, Closed
<1>5. Prime(i) \in nvars .. nvars + n - 1 /\ Prime(i) - nvars + 1 = i
  BY <1>3, <1>4 DEF Prime
<1>6. Aux(i) \in nvars + n .. n_g_vars - 1 /\ Aux(i) - nvars - n + 1 = i
  <2>1. Aux(i) = nvars + n + (i - 1)
    BY <1>3 DEF Aux
  <2> QED
    BY <1>3, <1>4, <2>1
<1> QED
  BY <1>1, <1>2, <1>3, <1>5, <1>6

\* A well-formed file has clauses over its declared variables only.
LEMMA ClauseVars ==
  ASSUME TypeOK, FInv, WellFormed, phase = "ready",
         NEW c \in clauses, NEW l \in c
  PROVE  /\ l \in Literals /\ l.sign \in BOOLEAN
         /\ l.var \in 0 .. nvars - 1
<1>1. l \in Literals
  BY ClauseTypes DEF TypeOK
<1>2. l.var < nvars
  BY DEF FInv, ClausesInv, Declared
<1> QED
  BY <1>1, <1>2, Closed DEF Literals

\* Every variable of Y has a place in exists_vars.
LEMMA PrimeOf ==
  ASSUME TypeOK, FInv, WellFormed, NEW v \in ExistsSet
  PROVE  /\ PlaceOf(v) \in DOMAIN exists_vars
         /\ exists_vars[PlaceOf(v)] = v
<1>1. PICK i \in DOMAIN exists_vars : exists_vars[i] = v
  BY DEF ExistsSet
<1> QED
  BY <1>1, PlaceOfFinds DEF FInv

\* The fields of a literal are what it was made of.
LEMMA LitFields ==
  ASSUME NEW v, NEW s
  PROVE  Lit(v, s).var = v /\ Lit(v, s).sign = s
  BY DEF Lit

\* The copies and the auxiliary variables are new, pairwise distinct, and
\* n_g_vars counts all the variables of G.
THEOREM NewVariables ==
  ASSUME WellFormed
  PROVE  Spec => []NewVariablesAreNew
<1>1. TypeOK /\ FInv => NewVariablesAreNew
  <2> SUFFICES ASSUME TypeOK, FInv, phase = "ready"
               PROVE  NewVariablesAreNew
    BY DEF NewVariablesAreNew
  <2> DEFINE m == Len(exists_vars)
  <2>1. ASSUME NEW i \in DOMAIN exists_vars, NEW v \in {Prime(i), Aux(i)}
        PROVE  v \notin ForallSet \cup ExistsSet
               /\ \A c \in clauses : \A l \in c : l.var # v
    <3>1. v \notin 0 .. nvars - 1
      <4>1. nvars \in Nat /\ m \in Nat
        BY Closed
      <4>2. Prime(i) \in nvars .. nvars + m - 1 /\ Aux(i) \in nvars + m .. n_g_vars - 1
        BY Places
      <4> HIDE DEF m
      <4>3. CASE v = Prime(i)
        BY <4>1, <4>2, <4>3
      <4>4. CASE v = Aux(i)
        BY <4>1, <4>2, <4>4
      <4> QED
        BY <4>3, <4>4
    <3> QED
      BY <3>1, Closed, ClauseVars
  <2>2. ASSUME NEW i \in DOMAIN exists_vars, NEW j \in DOMAIN exists_vars
        PROVE  Prime(i) # Aux(j) /\ (i # j => Prime(i) # Prime(j) /\ Aux(i) # Aux(j))
    <3>1. nvars \in Nat /\ m \in Nat
      BY Closed
    <3>2. Prime(i) < nvars + m /\ nvars + m <= Aux(j)
      <4>1. Prime(i) \in nvars .. nvars + m - 1 /\ Aux(j) \in nvars + m .. n_g_vars - 1
        BY Places
      <4> HIDE DEF m
      <4> QED
        BY <3>1, <4>1
    <3>3. /\ Prime(i) - nvars + 1 = i /\ Prime(j) - nvars + 1 = j
          /\ Aux(i) - nvars - m + 1 = i /\ Aux(j) - nvars - m + 1 = j
      BY Places
    <3>4. Prime(i) \in Nat /\ Aux(j) \in Nat
      BY NewVariablesNat
    <3> HIDE DEF m
    <3> QED
      BY <3>1, <3>2, <3>3, <3>4
  <2>3. ASSUME NEW c \in g_formula_clauses, NEW l \in c
        PROVE  l.var < n_g_vars
    <3>0. nvars <= n_g_vars /\ nvars + m <= n_g_vars
      BY Closed
    <3>1. c \in GFormula
      BY DEF FInv, ReadyInv
    <3>2. CASE c \in clauses
      BY <3>0, <3>2, ClauseVars, Closed
    <3>3. CASE \E d \in clauses : c = PrimeClause(d)
      <4>1. PICK d \in clauses : c = PrimeClause(d)
        BY <3>3
      <4>2. PICK k \in d : l = PrimeLit(k)
        BY <4>1 DEF PrimeClause
      <4>3. CASE k.var \in ExistsSet
        <5>1. l.var = Prime(PlaceOf(k.var))
          BY <4>2, <4>3, LitFields DEF PrimeLit
        <5> QED
          BY <3>0, <4>3, <5>1, PrimeOf, Places, Closed
      <4>4. CASE k.var \notin ExistsSet
        BY <3>0, <4>2, <4>4, ClauseVars, Closed DEF PrimeLit
      <4> QED
        BY <4>3, <4>4
    <3>4. CASE \E i \in DOMAIN exists_vars : c \in DiffersAt(i)
      <4>1. PICK i \in DOMAIN exists_vars : c \in DiffersAt(i)
        BY <3>4
      <4>2. l.var \in {exists_vars[i], Prime(i), Aux(i)}
        <5>1. \E v \in {exists_vars[i], Prime(i), Aux(i)} : \E s \in BOOLEAN : l = Lit(v, s)
          BY <4>1, Zenon DEF DiffersAt
        <5> QED
          BY <5>1, LitFields
      <4>3. /\ exists_vars[i] \in 0 .. nvars - 1
            /\ Prime(i) \in nvars .. nvars + m - 1
            /\ Aux(i) \in nvars + m .. n_g_vars - 1
        BY Places
      <4>4. nvars \in Nat /\ m \in Nat /\ n_g_vars \in Nat
        BY Closed
      <4> HIDE DEF m
      <4> QED
        BY <3>0, <4>2, <4>3, <4>4
    <3>5. CASE c = diff_clause
      <4>1. PICK i \in DOMAIN exists_vars : l = Lit(Aux(i), FALSE)
        BY <3>5 DEF diff_clause
      <4>2. l.var = Aux(i) /\ Aux(i) \in nvars + m .. n_g_vars - 1
        BY <4>1, LitFields, Places
      <4>3. nvars \in Nat /\ m \in Nat /\ n_g_vars \in Nat
        BY Closed
      <4> HIDE DEF m
      <4> QED
        BY <4>2, <4>3
    <3> QED
      BY <3>1, <3>2, <3>3, <3>4, <3>5, GClauses
  <2> QED
    BY <2>1, <2>2, <2>3 DEF NewVariablesAreNew
<1> QED
  BY <1>1, FormulaTypeCorrect, FormulaInvariant, PTL

(***************************************************************************)
(* The models of G are pairs of models of F.                               *)
(***************************************************************************)

\* The two assignments to the variables of F that an assignment to those of G
\* stands for.
FirstOf(g)  == [v \in 0 .. nvars - 1 |-> g[v]]
SecondOf(g) == [v \in 0 .. nvars - 1 |->
                  IF v \in ExistsSet THEN g[Prime(PlaceOf(v))] ELSE g[v]]

\* The assignment to the variables of G that stands for a and b.
PairOf(a, b) ==
  [v \in 0 .. n_g_vars - 1 |->
     IF v < nvars THEN a[v]
     ELSE IF v < nvars + Len(exists_vars) THEN b[exists_vars[v - nvars + 1]]
     ELSE LET y == exists_vars[v - nvars - Len(exists_vars) + 1] IN a[y] # b[y]]

\* When an assignment makes a literal true.
LEMMA HoldsLit ==
  ASSUME NEW a, NEW v, NEW s
  PROVE  Holds(a, Lit(v, s)) <=> a[v] # s
  BY LitFields DEF Holds

\* A model of G gives two models of F with the same input and other outputs.
LEMMA GSound ==
  ASSUME TypeOK, FInv, WellFormed, phase = "ready",
         NEW g \in Models(g_formula_clauses, n_g_vars)
  PROVE  /\ FirstOf(g) \in Models(clauses, nvars)
         /\ SecondOf(g) \in Models(clauses, nvars)
         /\ Input(FirstOf(g)) = Input(g) /\ Input(SecondOf(g)) = Input(g)
         /\ \E y \in ExistsSet : SecondOf(g)[y] # FirstOf(g)[y]
<1> DEFINE a == FirstOf(g)
           b == SecondOf(g)
<1>1. /\ g \in [0 .. n_g_vars - 1 -> BOOLEAN]
      /\ \A c \in GFormula : \E l \in c : Holds(g, l)
  BY DEF Models, Satisfies, Assignments, FInv, ReadyInv
<1>2. \A v \in 0 .. nvars - 1 : g[v] \in BOOLEAN
  BY <1>1, Closed
<1>3. \A v \in ExistsSet : g[Prime(PlaceOf(v))] \in BOOLEAN
  <2> SUFFICES ASSUME NEW v \in ExistsSet
               PROVE  g[Prime(PlaceOf(v))] \in BOOLEAN
    OBVIOUS
  <2> DEFINE i == PlaceOf(v)
  <2>1. i \in DOMAIN exists_vars
    BY PrimeOf
  <2> HIDE DEF i
  <2>2. Prime(i) \in nvars .. nvars + Len(exists_vars) - 1
    BY <2>1, Places
  <2>3. Prime(i) \in 0 .. n_g_vars - 1
    BY <2>2, Closed
  <2> QED
    BY <1>1, <2>3 DEF i
<1>4. a \in [0 .. nvars - 1 -> BOOLEAN] /\ b \in [0 .. nvars - 1 -> BOOLEAN]
  BY <1>2, <1>3 DEF FirstOf, SecondOf
<1>5. \A v \in 0 .. nvars - 1 :
        /\ a[v] = g[v]
        /\ v \in ExistsSet => b[v] = g[Prime(PlaceOf(v))]
        /\ v \notin ExistsSet => b[v] = g[v]
  BY DEF FirstOf, SecondOf
<1>6. Satisfies(a, clauses)
  <2> SUFFICES ASSUME NEW c \in clauses
               PROVE  \E l \in c : Holds(a, l)
    BY DEF Satisfies
  <2>1. PICK l \in c : Holds(g, l)
    BY <1>1, GClauses
  <2>2. a[l.var] = g[l.var]
    BY <1>5, ClauseVars
  <2> QED
    BY <2>1, <2>2 DEF Holds
<1>7. Satisfies(b, clauses)
  <2> SUFFICES ASSUME NEW c \in clauses
               PROVE  \E l \in c : Holds(b, l)
    BY DEF Satisfies
  <2>1. PICK k \in PrimeClause(c) : Holds(g, k)
    BY <1>1, GClauses
  <2>2. PICK l \in c : k = PrimeLit(l)
    BY DEF PrimeClause
  <2>3. l.var \in 0 .. nvars - 1
    BY ClauseVars
  <2>4. CASE l.var \in ExistsSet
    <3>1. g[Prime(PlaceOf(l.var))] # l.sign
      BY <2>1, <2>2, <2>4, HoldsLit DEF PrimeLit
    <3>2. b[l.var] = g[Prime(PlaceOf(l.var))]
      BY <1>5, <2>3, <2>4
    <3> QED
      BY <3>1, <3>2 DEF Holds
  <2>5. CASE l.var \notin ExistsSet
    <3>1. Holds(g, l)
      BY <2>1, <2>2, <2>5 DEF PrimeLit
    <3>2. b[l.var] = g[l.var]
      BY <1>5, <2>3, <2>5
    <3> QED
      BY <3>1, <3>2 DEF Holds
  <2> QED
    BY <2>4, <2>5
<1>8. Input(a) = Input(g) /\ Input(b) = Input(g)
  <2>1. \A v \in ForallSet : v \in 0 .. nvars - 1 /\ v \notin ExistsSet
    BY Closed
  <2>2. \A v \in ForallSet : a[v] = g[v] /\ b[v] = g[v]
    BY <1>5, <2>1
  <2> QED
    BY <2>2, Zenon DEF Input
<1>9. \E y \in ExistsSet : b[y] # a[y]
  <2>1. PICK i \in DOMAIN exists_vars : Holds(g, Lit(Aux(i), FALSE))
    <3>1. \E l \in diff_clause : Holds(g, l)
      BY <1>1, GClauses
    <3> QED
      BY <3>1 DEF diff_clause
  <2> DEFINE y == exists_vars[i]
  <2>2. /\ y \in ExistsSet /\ y \in 0 .. nvars - 1
        /\ PlaceOf(y) = i
    BY Places, PlaceOfFinds DEF FInv
  <2>3. Aux(i) \in 0 .. n_g_vars - 1
    <3>1. Aux(i) \in nvars + Len(exists_vars) .. n_g_vars - 1
      BY Places
    <3> QED
      BY <3>1, Closed
  <2>4. g[Aux(i)] = TRUE
    BY <1>1, <2>1, <2>3, HoldsLit
  <2>5. b[y] = g[Prime(i)] /\ a[y] = g[y]
    BY <1>5, <2>2
  <2> DEFINE c1 == {Lit(y, FALSE), Lit(Prime(i), FALSE), Lit(Aux(i), TRUE)}
             c2 == {Lit(y, TRUE),  Lit(Prime(i), TRUE),  Lit(Aux(i), TRUE)}
  <2>6. c1 \in GFormula /\ c2 \in GFormula
    <3>1. c1 \in DiffersAt(i) /\ c2 \in DiffersAt(i)
      BY DEF DiffersAt
    <3> HIDE DEF c1, c2
    <3> QED
      BY <3>1, GClauses
  <2>7. g[y] # FALSE \/ g[Prime(i)] # FALSE
    <3>1. \E l \in c1 : Holds(g, l)
      BY <1>1, <2>6
    <3> QED
      BY <2>4, <3>1, HoldsLit
  <2>8. g[y] # TRUE \/ g[Prime(i)] # TRUE
    <3>1. \E l \in c2 : Holds(g, l)
      BY <1>1, <2>6
    <3> QED
      BY <2>4, <3>1, HoldsLit
  <2>9. g[y] \in BOOLEAN /\ g[Prime(i)] \in BOOLEAN
    BY <1>2, <1>3, <2>2
  <2> QED
    BY <2>2, <2>5, <2>7, <2>8, <2>9
<1> QED
  BY <1>4, <1>6, <1>7, <1>8, <1>9 DEF Models, Assignments

\* What PairOf puts on the variables of F, on the copies and on the others.
LEMMA PairValues ==
  ASSUME TypeOK, FInv, WellFormed, phase = "ready", NEW a, NEW b
  PROVE  /\ \A v \in 0 .. nvars - 1 : PairOf(a, b)[v] = a[v]
         /\ \A i \in DOMAIN exists_vars :
              /\ PairOf(a, b)[Prime(i)] = b[exists_vars[i]]
              /\ PairOf(a, b)[Aux(i)] = (a[exists_vars[i]] # b[exists_vars[i]])
<1> DEFINE m == Len(exists_vars)
<1>1. nvars \in Nat /\ m \in Nat /\ n_g_vars = nvars + 2 * m
  BY Closed
<1>2. ASSUME NEW v \in 0 .. nvars - 1
      PROVE  PairOf(a, b)[v] = a[v]
  <2>1. v \in 0 .. n_g_vars - 1 /\ v < nvars
    BY <1>1
  <2> QED
    BY <2>1 DEF PairOf
<1>3. ASSUME NEW i \in DOMAIN exists_vars
      PROVE  /\ PairOf(a, b)[Prime(i)] = b[exists_vars[i]]
             /\ PairOf(a, b)[Aux(i)] = (a[exists_vars[i]] # b[exists_vars[i]])
  <2>1. /\ Prime(i) \in nvars .. nvars + m - 1 /\ Prime(i) - nvars + 1 = i
        /\ Aux(i) \in nvars + m .. n_g_vars - 1 /\ Aux(i) - nvars - m + 1 = i
    BY Places
  <2>2. /\ Prime(i) \in 0 .. n_g_vars - 1 /\ ~(Prime(i) < nvars) /\ Prime(i) < nvars + m
        /\ Aux(i) \in 0 .. n_g_vars - 1 /\ ~(Aux(i) < nvars) /\ ~(Aux(i) < nvars + m)
    <3> HIDE DEF m
    <3> QED
      BY <1>1, <2>1
  <2>3. PairOf(a, b)[Prime(i)] = b[exists_vars[i]]
    BY <2>1, <2>2 DEF PairOf
  <2>4. PairOf(a, b)[Aux(i)] = (a[exists_vars[i]] # b[exists_vars[i]])
    BY <2>1, <2>2 DEF PairOf
  <2> QED
    BY <2>3, <2>4
<1> QED
  BY <1>2, <1>3

\* Two models of F with the same input and other outputs give a model of G.
LEMMA GComplete ==
  ASSUME TypeOK, FInv, WellFormed, phase = "ready",
         NEW a \in Models(clauses, nvars), NEW b \in Models(clauses, nvars),
         Input(b) = Input(a), NEW y0 \in ExistsSet, b[y0] # a[y0]
  PROVE  /\ PairOf(a, b) \in Models(g_formula_clauses, n_g_vars)
         /\ Input(PairOf(a, b)) = Input(a)
<1> DEFINE g == PairOf(a, b)
<1>1. /\ a \in [0 .. nvars - 1 -> BOOLEAN] /\ b \in [0 .. nvars - 1 -> BOOLEAN]
      /\ \A c \in clauses : (\E l \in c : Holds(a, l)) /\ (\E l \in c : Holds(b, l))
  BY DEF Models, Satisfies, Assignments
<1>2. \A v \in 0 .. nvars - 1 : v \notin ExistsSet => a[v] = b[v]
  <2>1. \A v \in ForallSet : Input(a)[v] = a[v] /\ Input(b)[v] = b[v]
    BY DEF Input
  <2> QED
    BY <2>1, Closed
<1>3. /\ \A v \in 0 .. nvars - 1 : g[v] = a[v]
      /\ \A i \in DOMAIN exists_vars :
           /\ g[Prime(i)] = b[exists_vars[i]]
           /\ g[Aux(i)] = (a[exists_vars[i]] # b[exists_vars[i]])
  BY PairValues
<1>4. g \in [0 .. n_g_vars - 1 -> BOOLEAN]
  <2> DEFINE m == Len(exists_vars)
  <2>1. nvars \in Nat /\ m \in Nat /\ n_g_vars = nvars + 2 * m
        /\ DOMAIN exists_vars = 1 .. m
    BY Closed
  <2>2. \A i \in DOMAIN exists_vars : a[exists_vars[i]] \in BOOLEAN
                                   /\ b[exists_vars[i]] \in BOOLEAN
    BY <1>1, Places
  <2> SUFFICES ASSUME NEW v \in 0 .. n_g_vars - 1
               PROVE  g[v] \in BOOLEAN
    BY DEF PairOf
  <2>3. CASE v < nvars
    <3>1. v \in 0 .. nvars - 1
      BY <2>1, <2>3
    <3> QED
      BY <1>1, <1>3, <3>1
  <2>4. CASE ~(v < nvars) /\ v < nvars + m
    <3>1. v - nvars + 1 \in 1 .. m
      <4> HIDE DEF m
      <4> QED
        BY <2>1, <2>4
    <3>2. g[v] = b[exists_vars[v - nvars + 1]]
      BY <2>4 DEF PairOf
    <3> QED
      BY <2>1, <2>2, <3>1, <3>2
  <2>5. CASE ~(v < nvars) /\ ~(v < nvars + m)
    <3>1. g[v] = (a[exists_vars[v - nvars - m + 1]] # b[exists_vars[v - nvars - m + 1]])
      BY <2>5 DEF PairOf
    <3> QED
      BY <3>1
  <2> QED
    BY <2>3, <2>4, <2>5
<1>5. ASSUME NEW c \in GFormula
      PROVE  \E l \in c : Holds(g, l)
  <2>1. CASE c \in clauses
    <3>1. PICK l \in c : Holds(a, l)
      BY <1>1, <2>1
    <3>2. g[l.var] = a[l.var]
      BY <1>3, <2>1, ClauseVars
    <3> QED
      BY <3>1, <3>2 DEF Holds
  <2>2. CASE \E d \in clauses : c = PrimeClause(d)
    <3>1. PICK d \in clauses : c = PrimeClause(d)
      BY <2>2
    <3>2. PICK l \in d : Holds(b, l)
      BY <1>1
    <3>3. PrimeLit(l) \in c
      BY <3>1 DEF PrimeClause
    <3>4. l.var \in 0 .. nvars - 1
      BY ClauseVars
    <3>5. CASE l.var \in ExistsSet
      <4>1. g[Prime(PlaceOf(l.var))] = b[l.var]
        BY <1>3, <3>5, PrimeOf
      <4>2. Holds(g, Lit(Prime(PlaceOf(l.var)), l.sign))
        BY <3>2, <4>1, HoldsLit DEF Holds
      <4> QED
        BY <3>3, <3>5, <4>2 DEF PrimeLit
    <3>6. CASE l.var \notin ExistsSet
      <4>1. g[l.var] = b[l.var]
        BY <1>2, <1>3, <3>4, <3>6
      <4>2. Holds(g, l)
        BY <3>2, <4>1 DEF Holds
      <4> QED
        BY <3>3, <3>6, <4>2 DEF PrimeLit
    <3> QED
      BY <3>5, <3>6
  <2>3. CASE \E i \in DOMAIN exists_vars : c \in DiffersAt(i)
    <3>1. PICK i \in DOMAIN exists_vars : c \in DiffersAt(i)
      BY <2>3
    <3> DEFINE y == exists_vars[i]
    <3>2. y \in 0 .. nvars - 1
      BY Places
    <3>3. /\ g[y] = a[y] /\ g[Prime(i)] = b[y] /\ g[Aux(i)] = (a[y] # b[y])
          /\ a[y] \in BOOLEAN /\ b[y] \in BOOLEAN
      BY <1>1, <1>3, <3>2
    <3>4. CASE c = {Lit(y, FALSE), Lit(Prime(i), FALSE), Lit(Aux(i), TRUE)}
      <4>1. g[y] # FALSE \/ g[Prime(i)] # FALSE \/ g[Aux(i)] # TRUE
        BY <3>3
      <4> QED
        BY <3>4, <4>1, HoldsLit
    <3>5. CASE c = {Lit(y, TRUE), Lit(Prime(i), TRUE), Lit(Aux(i), TRUE)}
      <4>1. g[y] # TRUE \/ g[Prime(i)] # TRUE \/ g[Aux(i)] # TRUE
        BY <3>3
      <4> QED
        BY <3>5, <4>1, HoldsLit
    <3> QED
      BY <3>1, <3>4, <3>5 DEF DiffersAt
  <2>4. CASE c = diff_clause
    <3>1. PICK i \in DOMAIN exists_vars : exists_vars[i] = y0
      BY DEF ExistsSet
    <3>2. g[Aux(i)] = TRUE
      BY <1>3, <3>1
    <3>3. Holds(g, Lit(Aux(i), FALSE))
      BY <3>2, HoldsLit
    <3> QED
      BY <2>4, <3>3 DEF diff_clause
  <2> QED
    BY <2>1, <2>2, <2>3, <2>4, GClauses
<1>6. Input(g) = Input(a)
  <2>1. \A v \in ForallSet : g[v] = a[v]
    BY <1>3, Closed
  <2> QED
    BY <2>1, Zenon DEF Input
<1> QED
  BY <1>4, <1>5, <1>6 DEF Models, Satisfies, Assignments, FInv, ReadyInv

\* Whatever the formula and its quantifiers, the models of G projected on X are
\* the inputs for which F has two outputs or more: counting G counts S2.
THEOREM GCorrect ==
  ASSUME WellFormed
  PROVE  Spec => []GCountsTwoOutputs
<1>1. TypeOK /\ FInv => GCountsTwoOutputs
  <2> SUFFICES ASSUME TypeOK, FInv, phase = "ready"
               PROVE  {Input(g) : g \in Models(g_formula_clauses, n_g_vars)} = TwoOutputs
    BY DEF GCountsTwoOutputs
  <2>1. ASSUME NEW g \in Models(g_formula_clauses, n_g_vars)
        PROVE  Input(g) \in TwoOutputs
    <3> DEFINE a == FirstOf(g)
               b == SecondOf(g)
    <3>1. /\ a \in Models(clauses, nvars) /\ b \in Models(clauses, nvars)
          /\ Input(a) = Input(g) /\ Input(b) = Input(a)
          /\ \E y \in ExistsSet : b[y] # a[y]
      BY GSound
    <3> HIDE DEF a, b
    <3> QED
      BY <3>1 DEF TwoOutputs
  <2>2. ASSUME NEW x \in TwoOutputs
        PROVE  \E g \in Models(g_formula_clauses, n_g_vars) : x = Input(g)
    <3>1. PICK a \in Models(clauses, nvars), b \in Models(clauses, nvars) :
            x = Input(a) /\ Input(b) = Input(a) /\ \E y \in ExistsSet : b[y] # a[y]
      BY DEF TwoOutputs
    <3>2. PICK y0 \in ExistsSet : b[y0] # a[y0]
      BY <3>1
    <3> QED
      BY <3>1, <3>2, GComplete
  <2> QED
    BY <2>1, <2>2
<1> QED
  BY <1>1, FormulaTypeCorrect, FormulaInvariant, PTL
=============================================================================
