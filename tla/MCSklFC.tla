------------------------------ MODULE MCSklFC ------------------------------
(***************************************************************************)
(* Small instances of SklFC for TLC.                                       *)
(***************************************************************************)
EXTENDS SklFC

\* A problem with n input variables, which the counters project on.
Projected(n, s1, s2) ==
  [forall |-> n, s0 |-> 2^n - s1 - s2, s1 |-> s1, s2 |-> s2, f |-> s1 + s2, g |-> s2]

\* A problem without one: the counters count the f models of F and the g of G.
Unprojected(f, g) ==
  [forall |-> 0, s0 |-> IF f = 0 THEN 1 ELSE 0, s1 |-> IF f = 1 THEN 1 ELSE 0,
   s2 |-> IF f > 1 THEN 1 ELSE 0, f |-> f, g |-> g]

\* Of formulas over two outputs without an input: FALSE, y1 /\ y2, y1, y1 \/ y2.
MCUnprojected ==
  {Unprojected(0, 0), Unprojected(1, 0), Unprojected(2, 2), Unprojected(3, 10)}

\* Those, and every way to split the four valuations of two input variables.
MCInputs ==
  {Projected(2, s[1], s[2]) : s \in {t \in (0 .. 4) \X (0 .. 4) : t[1] + t[2] <= 4}}
    \cup MCUnprojected

\* One formula with many outputs, and one with none at all.
MCTwoInputs == {Projected(1, 1, 1), Projected(1, 0, 0)}

\* Those, and some without an input variable.
MCFewInputs == MCTwoInputs \cup {Unprojected(0, 0), Unprojected(3, 10)}

\* The settings, with one seed; and the default seed with some of them.
MCOptions ==
  {o \in [ignore_unsat : BOOLEAN, exactcount_s0 : BOOLEAN,
          exactcount_s2 : BOOLEAN, static_samp : BOOLEAN, seed : {0, 3}] :
     o.seed = 0 => o.ignore_unsat /\ ~o.exactcount_s0}

\* What the command line can set: --no-static-samp only sets what is set.
MCCommandLine == {o \in MCOptions : o.static_samp}
=============================================================================
