----------------------------- MODULE MCSklFCInt -----------------------------
(***************************************************************************)
(* Small instances of SklFCInt and Baseline for TLC.                       *)
(***************************************************************************)
EXTENDS Baseline

\* Every clause over two of the first three variables or fewer, and over a
\* variable that the header does not declare.
MCClauses ==
  {c \in SUBSET [var : 0 .. 2, sign : BOOLEAN] :
     Cardinality(c) <= 2 /\ Cardinality({l.var : l \in c}) = Cardinality(c)}
  \cup {{Lit(3, FALSE)}}

MCOneClause == {{Lit(0, FALSE), Lit(1, TRUE)}, {Lit(1, FALSE)}}
=============================================================================
