---------------------------- MODULE MCGanakCall ----------------------------
(***************************************************************************)
(* Small instances of GanakCall for TLC.                                   *)
(***************************************************************************)
EXTENDS GanakCall

\* Outputs longer than the pipe, with the line of the count at either end, in
\* the middle or missing; and no output.
MCScripts ==
  {<<"other", "other", "other", "head", "tail">>,
   <<"other", "head", "tail", "other">>,
   <<"other", "other", "other", "other">>,
   <<"head", "tail">>, <<>>}
=============================================================================
