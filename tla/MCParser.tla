------------------------------ MODULE MCParser ------------------------------
(***************************************************************************)
(* Small instances of Parser for TLC.                                      *)
(***************************************************************************)
EXTENDS Parser

H(n, m) == <<Word("p"), Word("cnf"), Num(n), Num(m)>>

\* Lines of every kind, right and wrong: numbers that are missing, too large or
\* negative, words among numbers, tokens after the 0, and no line at all.
MCLines ==
  {<<>>, <<Word("c"), Word("a"), Num(1)>>,
   H(2, 1), H(0, 0) \o <<Word("junk")>>, H(-1, 1), SubSeq(H(2, 1), 1, 3),
   <<Word("p"), Word("junk"), Num(2), Num(1)>>,
   <<Word("a"), Num(1), Num(0)>>, <<Word("a"), Num(3), Num(0), Num(2), Num(0)>>,
   <<Word("a"), Num(1)>>, <<Word("e"), Num(-2), Num(1), Num(0), Word("junk")>>,
   <<Word("e"), Word("junk"), Num(0)>>,
   <<Num(1), Num(-2), Num(0)>>, <<Num(-1), Num(0)>>, <<Num(1), Num(-2)>>,
   <<Num(0)>>, <<Num(3), Num(0)>>, <<Num(1), Num(0), Num(2), Num(0)>>,
   <<Num(1), Word("cnf"), Num(0)>>, <<Word("cnf"), Num(1)>>,
   <<Word("junk")>>}
=============================================================================
