------------------------------ MODULE SklFCInt ------------------------------
(***************************************************************************)
(* The problem held by SklFCInt (src/skolemfc-int.cpp), as the QDIMACS     *)
(* parser of src/dimacsparser.h fills it, and create_g_formula(): from     *)
(* F(X, Y) the formula G = F(X, Y) /\ F(X, Y') /\ (Y # Y'), whose models   *)
(* projected on X are the inputs with two outputs or more.                 *)
(*                                                                         *)
(* A literal is a CMSat::Lit: a variable and a sign, TRUE when negated.    *)
(* Clauses and formulas are sets; the code keeps them in vectors, whose    *)
(* order and repetitions mean nothing.                                     *)
(***************************************************************************)
EXTENDS Integers, Sequences, FiniteSetsExt

CONSTANTS
  NumVars,       \* the variables the header declares
  VarChoices,    \* the variables a quantifier line may name, from 0
  ClauseChoices, \* the clauses a file may hold
  MaxClauses,    \* bound on their number
  MaxQuantified, \* bound on the variables of the a lines, and of the e lines
  WellFormed     \* only closed QDIMACS files, every variable quantified once

Lit(v, s) == [var |-> v, sign |-> s]
Literals == [var : Nat, sign : BOOLEAN]

ASSUME FormulaAssumption ==
  /\ NumVars \in Nat \ {0}
  /\ VarChoices \subseteq Nat
  /\ ClauseChoices \subseteq SUBSET Literals
  /\ MaxClauses \in Nat
  /\ MaxQuantified \in Nat
  /\ WellFormed \in BOOLEAN

VARIABLES
  phase,              \* "reading", "rejected" (exit(-1)) or "ready"
  nvars,              \* 0 before the header
  forall_vars,
  exists_vars,
  clauses,
  g_formula_clauses,
  n_g_vars

fvars == <<phase, nvars, forall_vars, exists_vars, clauses,
           g_formula_clauses, n_g_vars>>

Init ==
  /\ phase = "reading"
  /\ nvars = 0
  /\ forall_vars = <<>> /\ exists_vars = <<>>
  /\ clauses = {}
  /\ g_formula_clauses = {} /\ n_g_vars = 0

ForallSet == {forall_vars[i] : i \in DOMAIN forall_vars}
ExistsSet == {exists_vars[i] : i \in DOMAIN exists_vars}
-----------------------------------------------------------------------------
(***************************************************************************)
(* Reading the file.  A clause is over declared variables; a quantifier    *)
(* line is taken as it is.                                                 *)
(***************************************************************************)

ReadHeader ==
  /\ phase = "reading"
  /\ nvars = 0
  /\ nvars' = NumVars
  /\ UNCHANGED <<phase, forall_vars, exists_vars, clauses, g_formula_clauses,
                 n_g_vars>>

\* What a well-formed file names on its quantifier lines.
MayQuantify(v) == WellFormed => v < NumVars /\ v \notin ForallSet \cup ExistsSet

\* Slip: the 1-based variable of the file is stored.
AddFileVar(v) ==
  /\ phase = "reading"
  /\ Len(forall_vars) < MaxQuantified
  /\ MayQuantify(v)
  /\ forall_vars' = Append(forall_vars, v + 1)
  /\ UNCHANGED <<phase, nvars, exists_vars, clauses, g_formula_clauses, n_g_vars>>

AddForallVar(v) ==
  /\ phase = "reading"
  /\ Len(forall_vars) < MaxQuantified
  /\ MayQuantify(v)
  /\ forall_vars' = Append(forall_vars, v)
  /\ UNCHANGED <<phase, nvars, exists_vars, clauses, g_formula_clauses, n_g_vars>>

AddExistsVar(v) ==
  /\ phase = "reading"
  /\ Len(exists_vars) < MaxQuantified
  /\ MayQuantify(v)
  /\ exists_vars' = Append(exists_vars, v)
  /\ UNCHANGED <<phase, nvars, forall_vars, clauses, g_formula_clauses, n_g_vars>>

\* check_var() of every literal, with a strict header.
Declared(c) == \A l \in c : l.var < nvars

AddClause(c) ==
  /\ phase = "reading"
  /\ Cardinality(clauses) < MaxClauses
  /\ Declared(c)
  /\ clauses' = clauses \cup {c}
  /\ UNCHANGED <<phase, nvars, forall_vars, exists_vars, g_formula_clauses, n_g_vars>>

\* Any other file; which lines those are is told by Parser.
Reject ==
  /\ phase = "reading"
  /\ phase' = "rejected"
  /\ UNCHANGED <<nvars, forall_vars, exists_vars, clauses, g_formula_clauses,
                 n_g_vars>>
-----------------------------------------------------------------------------
(***************************************************************************)
(* create_g_formula().  The i-th variable of Y gets a copy y' and a        *)
(* variable aux that implies y # y'.                                       *)
(***************************************************************************)

Prime(i) == nvars + (i - 1)

\* Slip: the auxiliary variables start where the copies do.
AuxOfCopy(i) == nvars + (i - 1)

Aux(i)   == nvars + Len(exists_vars) + (i - 1)

\* std::find: the first place of v among the variables of Y.
PlaceOf(v) ==
  CHOOSE i \in DOMAIN exists_vars :
    exists_vars[i] = v /\ \A j \in 1 .. i - 1 : exists_vars[j] # v

\* Slip: the sign of a copied literal is lost.
PrimePositive(l) ==
  IF l.var \in ExistsSet THEN Lit(Prime(PlaceOf(l.var)), FALSE) ELSE l

PrimeLit(l) ==
  IF l.var \in ExistsSet THEN Lit(Prime(PlaceOf(l.var)), l.sign) ELSE l

PrimeClause(c) == {PrimeLit(l) : l \in c}

DiffersAt(i) ==
  {{Lit(exists_vars[i], FALSE), Lit(Prime(i), FALSE), Lit(Aux(i), TRUE)},
   {Lit(exists_vars[i], TRUE),  Lit(Prime(i), TRUE),  Lit(Aux(i), TRUE)}}

diff_clause == {Lit(Aux(i), FALSE) : i \in DOMAIN exists_vars}

GFormula ==
  clauses \cup {PrimeClause(c) : c \in clauses}
          \cup (UNION {DiffersAt(i) : i \in DOMAIN exists_vars})
          \cup {diff_clause}

\* main() reaches create_g_formula() with any file it has read to the end.
CreateGFormula ==
  /\ phase = "reading"
  /\ WellFormed => nvars = NumVars /\ ForallSet \cup ExistsSet = 0 .. NumVars - 1
  /\ g_formula_clauses' = GFormula
  /\ n_g_vars' = nvars + 2 * Len(exists_vars)
  /\ phase' = "ready"
  /\ UNCHANGED <<nvars, forall_vars, exists_vars, clauses>>

Done ==
  /\ phase \in {"rejected", "ready"}
  /\ UNCHANGED fvars

Next ==
  \/ ReadHeader \/ Reject
  \/ \E v \in VarChoices : AddForallVar(v) \/ AddExistsVar(v)
  \/ \E c \in ClauseChoices : AddClause(c)
  \/ CreateGFormula
  \/ Done

Spec == Init /\ [][Next]_fvars
-----------------------------------------------------------------------------
(***************************************************************************)
(* Meaning.                                                                *)
(***************************************************************************)

Assignments(n) == [0 .. n - 1 -> BOOLEAN]

Holds(a, l) == a[l.var] # l.sign

Satisfies(a, f) == \A c \in f : \E l \in c : Holds(a, l)

Models(f, n) == {a \in Assignments(n) : Satisfies(a, f)}

\* The part of an assignment that is a valuation of X.
Input(a) == [v \in ForallSet |-> a[v]]

\* What the counters count of a formula: its models projected on X, but all of them
\* when X is empty.
Counted(f, n) ==
  IF forall_vars = <<>> THEN Cardinality(Models(f, n))
  ELSE Cardinality({Input(a) : a \in Models(f, n)})

\* The inputs with two outputs, from F alone.
TwoOutputs ==
  {Input(a) : a \in {b \in Models(clauses, nvars) :
     \E c \in Models(clauses, nvars) :
       Input(c) = Input(b) /\ \E y \in ExistsSet : c[y] # b[y]}}
-----------------------------------------------------------------------------
(***************************************************************************)
(* Properties.                                                             *)
(***************************************************************************)

TypeOK ==
  /\ phase \in {"reading", "rejected", "ready"}
  /\ nvars \in {0, NumVars}
  /\ forall_vars \in Seq(VarChoices) /\ exists_vars \in Seq(VarChoices)
  /\ clauses \in SUBSET ClauseChoices
  /\ g_formula_clauses \subseteq SUBSET Literals
  /\ n_g_vars \in Nat

\* The comment on the mapping (skolemfc-int.cpp:103): the copies, and the
\* auxiliary variables with them, are new: none of them is a variable of F or of
\* its quantifiers, no two are the same, and the n_g_vars variables that the
\* counters are given include all those of G.
NewVariablesAreNew ==
  phase = "ready" =>
    /\ \A i \in DOMAIN exists_vars : \A v \in {Prime(i), Aux(i)} :
         /\ v \notin ForallSet \cup ExistsSet
         /\ \A c \in clauses : \A l \in c : l.var # v
    /\ \A i, j \in DOMAIN exists_vars :
         Prime(i) # Aux(j) /\ (i # j => Prime(i) # Prime(j) /\ Aux(i) # Aux(j))
    /\ \A c \in g_formula_clauses : \A l \in c : l.var < n_g_vars

\* The models of G, projected on X, are the inputs with two outputs or more.
GCountsTwoOutputs ==
  phase = "ready" =>
    {Input(g) : g \in Models(g_formula_clauses, n_g_vars)} = TwoOutputs

\* The models of F with the literals of a sample (create_formula_from_sample).
Outputs(x) == {a \in Models(clauses, nvars) : Input(a) = x}

\* The functions from X to Y that give an output wherever there is one.
SkolemFunctions ==
  {f \in [[ForallSet -> BOOLEAN] -> [ExistsSet -> BOOLEAN]] :
     \A x \in [ForallSet -> BOOLEAN] : Outputs(x) # {} =>
       \E a \in Outputs(x) : \A y \in ExistsSet : f[x][y] = a[y]}

\* The count that SkolemFC estimates is that of the Skolem functions, for files with
\* an input variable: each input without an output, 2^|X| less the count of F, may
\* have any, and every other input of G's projection multiplies the count by the
\* number of its outputs.  Without an input variable the program counts all models
\* of F and G, and estimates another number.
CountsSkolemFunctions ==
  phase = "ready" /\ forall_vars # <<>> =>
    LET s0    == 2^Len(forall_vars) - Counted(clauses, nvars)
        projG == {Input(g) : g \in Models(g_formula_clauses, n_g_vars)}
    IN Cardinality(SkolemFunctions)
         = FoldSet(LAMBDA x, p : p * Cardinality(Outputs(x)),
                   2^(s0 * Len(exists_vars)), projG)
=============================================================================
