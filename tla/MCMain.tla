------------------------------- MODULE MCMain -------------------------------
(***************************************************************************)
(* Small instances of Main for TLC.                                        *)
(***************************************************************************)
EXTENDS Main, FiniteSets

\* One input has two outputs, or none has; and F is y1 /\ y2, or y1, without an
\* input variable.
MCInputs ==
  {[forall |-> 1, s0 |-> 1, s1 |-> 0, s2 |-> 1, f |-> 1, g |-> 1],
   [forall |-> 1, s0 |-> 1, s1 |-> 1, s2 |-> 0, f |-> 1, g |-> 0],
   [forall |-> 0, s0 |-> 0, s1 |-> 1, s2 |-> 0, f |-> 1, g |-> 0],
   [forall |-> 0, s0 |-> 0, s1 |-> 0, s2 |-> 1, f |-> 2, g |-> 2]}

MCOptions == [ignore_unsat : BOOLEAN, exactcount_s0 : BOOLEAN,
              exactcount_s2 : BOOLEAN, static_samp : BOOLEAN, seed : {0, 1, 3}]

\* What each option may be besides its default.
Others ==
  [request |-> {"help", "version", "invalid"},
   file |-> {"none", "unreadable", "rejected"},
   epsilon |-> {5, 8, 20}, delta |-> {5, 8, 20},
   g_counter_epsilon |-> {0, 25, 100}, g_counter_delta |-> {0, 25},
   epsilon_weightage_fc |-> {3}, delta_weightage_fc |-> {3, 9},
   max_error_logcounter |-> {90},
   noguarantee |-> {TRUE}, exactcount_f |-> {FALSE}, exactcount_g |-> {TRUE},
   count_unsat_inputs |-> {TRUE}, no_static_samp |-> {TRUE},
   seed |-> {3}, nthreads |-> {2}]

OneSet(c) ==
  UNION {{[c EXCEPT ![o] = v] : v \in Others[o]} : o \in DOMAIN Others}

\* The command lines that set up to two options.
MCCommandLines ==
  {DefaultSettings} \cup OneSet(DefaultSettings)
    \cup UNION {OneSet(c) : c \in OneSet(DefaultSettings)}

\* Those that set one.
MCOneOption == {DefaultSettings} \cup OneSet(DefaultSettings)
=============================================================================
