------------------------------ MODULE Baseline ------------------------------
(***************************************************************************)
(* The G formula of utils/baseline/f2_formula_creator.py, beside the one   *)
(* that create_g_formula() makes of the same problem.  The script numbers  *)
(* the copies in the order of the variables, not of the e line, leaves out *)
(* the copies of clauses over X alone, and numbers the auxiliary variables *)
(* after all copies.  It keeps the last a line and the last e line; the    *)
(* problem here has one of each.  A variable is one less than in the file. *)
(***************************************************************************)
EXTENDS SklFCInt

OnlyInputs(c) == \A l \in c : l.var \in ForallSet

Copied(c) == ~OnlyInputs(c)

\* The place of v among the variables of Y, in their order.
RankOf(v) == Cardinality({y \in ExistsSet : y < v})

mapping == [v \in 0 .. nvars - 1 |-> IF v \in ExistsSet THEN nvars + RankOf(v) ELSE v]

\* Slip: offset is not advanced over the copies.
OffsetReset(v) == nvars + RankOf(v)

DiffOffset(v) == nvars + Cardinality(ExistsSet) + RankOf(v)

Renamed(c) == {Lit(mapping[l.var], l.sign) : l \in c}

Unequal(v) ==
  {{Lit(v, s), Lit(mapping[v], s), Lit(DiffOffset(v), TRUE)} : s \in BOOLEAN}

k_const == {Lit(DiffOffset(v), FALSE) : v \in ExistsSet}

BaselineFormula ==
  clauses \cup {Renamed(c) : c \in {d \in clauses : Copied(d)}}
          \cup (UNION {Unequal(v) : v \in ExistsSet})
          \cup {k_const}

num_new_vars == nvars + 2 * Cardinality(ExistsSet)

\* The exact baseline and the estimator are measured on the same set: the two
\* formulas have, projected on X, the same models.
BaselineAgrees ==
  phase = "ready" =>
    {Input(g) : g \in Models(BaselineFormula, num_new_vars)}
      = {Input(g) : g \in Models(g_formula_clauses, n_g_vars)}
=============================================================================
