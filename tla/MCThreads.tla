----------------------------- MODULE MCThreads ------------------------------
(***************************************************************************)
(* Small instances of Threads for TLC.                                     *)
(***************************************************************************)
EXTENDS Threads

\* A count of 0, and counts of one and two bits.
MCLogs == {1, 2, NegInf}
=============================================================================
