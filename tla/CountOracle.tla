---------------------------- MODULE CountOracle ----------------------------
(***************************************************************************)
(* What SklFC::count() takes an exact counter to be: asked once, it either *)
(* answers with the number of models, projected if it is given variables   *)
(* to project on, or with 1, or it ends the process.  Another answer comes *)
(* only after the outside has disturbed the call: a disk without room, or  *)
(* a Ganak that was stopped.                                               *)
(***************************************************************************)
VARIABLES
  asked,
  reply,      \* "none" until it answers
  disturbed

oracleVars == <<asked, reply, disturbed>>

OracleInit == asked = TRUE /\ reply = "none" /\ disturbed = FALSE

AnswerCount ==
  /\ asked /\ reply' = "count" /\ asked' = FALSE /\ UNCHANGED disturbed

AnswerOne ==
  /\ asked /\ reply' = "one" /\ asked' = FALSE /\ UNCHANGED disturbed

AnswerWrong ==
  /\ disturbed
  /\ asked /\ reply' = "wrong" /\ asked' = FALSE /\ UNCHANGED disturbed

EndProcess ==
  /\ asked /\ asked' = FALSE /\ UNCHANGED <<reply, disturbed>>

Disturb ==
  /\ asked /\ disturbed' = TRUE /\ UNCHANGED <<asked, reply>>

OracleNext ==
  AnswerCount \/ AnswerOne \/ AnswerWrong \/ EndProcess \/ Disturb

OracleSpec == OracleInit /\ [][OracleNext]_oracleVars
=============================================================================
