------------------------------ MODULE Problem ------------------------------
(***************************************************************************)
(* What the estimator is told of a formula F(X, Y) and of its G: the sizes *)
(* of three sets of valuations of X, S0 (no Y satisfies F), S1 (exactly    *)
(* one does) and S2 (at least two do), and what the counters count of F    *)
(* and of G.  That is the models projected on X, unless X is empty: the    *)
(* counters are then given no projection and count all models.  SklFC      *)
(* assumes that its inputs are of this kind, and SkolemCount_proofs proves *)
(* it of every well-formed file.                                           *)
(***************************************************************************)
EXTENDS Integers

Problems ==
  {p \in [forall : Nat, s0 : Nat, s1 : Nat, s2 : Nat, f : Nat, g : Nat] :
     /\ p.s0 + p.s1 + p.s2 = 2^p.forall
     /\ p.f = 0 <=> p.s1 + p.s2 = 0
     /\ p.g = 0 <=> p.s2 = 0
     /\ p.forall # 0 => p.f = p.s1 + p.s2 /\ p.g = p.s2}
=============================================================================
