-------------------------------- MODULE Main --------------------------------
(***************************************************************************)
(* main() of src/main.cpp around SklFC: the command line, the file, the    *)
(* setters of SklFC in the order in which main() calls them, and count(),  *)
(* which begins with set_constants() and goes on with the steps of SklFC.  *)
(* The members that count() reads while it runs are SklFC's variable       *)
(* options; the others are in skl.  With two threads or more Threads takes *)
(* over.  What --verb, --log and --use-unisamp set is left out, and so is  *)
(* epsilon_s, which nothing reads.  SklFC has the threshold of the loop    *)
(* and the limit of the final check as constants, ThreshPerVar and         *)
(* MaxError: they are not tied to the parameters here.                     *)
(*                                                                         *)
(* --epsilon, --delta and the parameters of the counter of G are whole     *)
(* percents, the weights tenths; what is computed of them is a fraction.   *)
(***************************************************************************)
EXTENDS SklFC

CONSTANTS
  CommandLines,   \* the command lines considered
  Assertions      \* not a Release build

CommandLine ==
  [request : {"run", "help", "version", "invalid"},
   file : {"none", "unreadable", "rejected", "accepted"},
   epsilon : Nat, delta : Nat, g_counter_epsilon : Nat, g_counter_delta : Nat,
   epsilon_weightage_fc : 0 .. 10, delta_weightage_fc : 0 .. 10,
   max_error_logcounter : Nat,
   noguarantee : BOOLEAN, exactcount_f : BOOLEAN, exactcount_g : BOOLEAN,
   count_unsat_inputs : BOOLEAN, no_static_samp : BOOLEAN,
   seed : Nat, nthreads : Nat]

ASSUME MainAssumption ==
  /\ CommandLines \subseteq CommandLine
  /\ Assertions \in BOOLEAN

VARIABLES
  stage,   \* where main() is
  cmd,     \* the command line
  at,      \* the next of the setters
  p,       \* the parameters kept in SklFCInt
  skl,     \* the members of SklFC that are not in options
  status   \* the status with which main() exits

mainVars == <<stage, cmd, at, p, skl, status, vars>>

(***************************************************************************)
(* Fractions.                                                              *)
(***************************************************************************)
Frac == [num : Int, den : Nat \ {0}]

Percent(k) == [num |-> k, den |-> 100]

Times(f, n, d) == [num |-> f.num * n, den |-> f.den * d]

Plus(f, g) ==
  CASE f.den % g.den = 0 -> [f EXCEPT !.num = @ + g.num * (f.den \div g.den)]
    [] g.den % f.den = 0 -> [g EXCEPT !.num = @ + f.num * (g.den \div f.den)]
    [] OTHER -> [num |-> f.num * g.den + g.num * f.den, den |-> f.den * g.den]

AtMost(f, g) == f.num * g.den <= g.num * f.den
Equal(f, g)  == AtMost(f, g) /\ AtMost(g, f)
Least(f, g)  == IF AtMost(f, g) THEN f ELSE g
Positive(f)  == f.num > 0

-----------------------------------------------------------------------------
\* The members as the class declares them; those without a value there are set
\* before anything reads them.
MemberDefaults ==
  [noguarnatee |-> FALSE, epsilon_gc |-> 20, delta_gc |-> 40,
   epsilon |-> Percent(0), delta |-> Percent(0), epsilon_f |-> Percent(0),
   delta_f |-> Percent(0), delta_c |-> Percent(0), numthreads |-> 1]

OptionDefaults ==
  [ignore_unsat |-> TRUE, exactcount_s0 |-> TRUE, exactcount_s2 |-> FALSE,
   static_samp |-> FALSE, seed |-> 1]

MainInit ==
  /\ Init
  /\ options = OptionDefaults
  /\ stage = "arguments"
  /\ cmd \in CommandLines
  /\ at = 1
  /\ p = [epsilon |-> Percent(80), delta |-> Percent(80), seed |-> 1]
  /\ skl = MemberDefaults
  /\ status = "none"

Exits(s) ==
  /\ stage' = "exited" /\ status' = s
  /\ UNCHANGED <<cmd, at, p, skl, vars>>

\* add_supported_options(), and the constructor of SklFC.
ReadCommandLine ==
  /\ stage = "arguments"
  /\ \/ cmd.request \in {"help", "version"} /\ Exits("success")
     \/ cmd.request = "invalid" /\ Exits("failure")
     \/ /\ cmd.request = "run"
        /\ p' = [epsilon |-> Percent(cmd.epsilon), delta |-> Percent(cmd.delta),
                 seed |-> cmd.seed]
        /\ stage' = "file"
        /\ UNCHANGED <<cmd, at, skl, status, vars>>

\* readInAFile(); Parser tells which files are rejected.
ReadFile ==
  /\ stage = "file"
  /\ IF cmd.file = "accepted"
     THEN stage' = "settings" /\ UNCHANGED <<cmd, at, p, skl, status, vars>>
     ELSE Exits("failure")
-----------------------------------------------------------------------------
(***************************************************************************)
(* The setters.                                                            *)
(***************************************************************************)

\* Slip: the parameters of the counter of G come before the choice of it.
OraclesLate ==
  <<"set_noguarntee_mode", "set_g_counter_parameters", "set_oracles",
    "set_num_threads", "set_parameters", "set_ignore_unsat",
    "set_static_samp", "set_dklr_parameters", "set_constants">>

\* Slip: the parameters are taken before G's share is taken off them.
ParametersEarly ==
  <<"set_noguarntee_mode", "set_oracles", "set_parameters",
    "set_g_counter_parameters", "set_num_threads", "set_ignore_unsat",
    "set_static_samp", "set_dklr_parameters", "set_constants">>

\* Slip: the assertion comes before the member that it reads is set.
DklrEarly ==
  <<"set_noguarntee_mode", "set_oracles", "set_g_counter_parameters",
    "set_num_threads", "set_dklr_parameters", "set_parameters",
    "set_ignore_unsat", "set_static_samp", "set_constants">>

\* Slip: count() begins before set_static_samp() is called.
SamplingLate ==
  <<"set_noguarntee_mode", "set_oracles", "set_g_counter_parameters",
    "set_num_threads", "set_parameters", "set_ignore_unsat",
    "set_dklr_parameters", "set_constants", "set_static_samp">>

\* "Please do not change the order", says main().
Calls ==
  <<"set_noguarntee_mode", "set_oracles", "set_g_counter_parameters",
    "set_num_threads", "set_parameters", "set_ignore_unsat",
    "set_static_samp", "set_dklr_parameters", "set_constants">>

Call(f) ==
  /\ stage = "settings" /\ Calls[at] = f
  /\ at' = at + 1
  /\ UNCHANGED <<cmd, status, pc, input, counts, pool, rule, result>>

SetNoguarnteeMode ==
  /\ Call("set_noguarntee_mode")
  /\ skl' = [skl EXCEPT !.noguarnatee = cmd.noguarantee]
  /\ UNCHANGED <<stage, p, options>>

SetOracles ==
  /\ Call("set_oracles")
  /\ options' = [options EXCEPT !.exactcount_s0 = cmd.exactcount_f,
                                !.exactcount_s2 = cmd.exactcount_g]
  /\ UNCHANGED <<stage, p, skl>>

\* Slip: the sign in a denominator.
LooseEpsilon(e, g) ==
  Least([num |-> e - g, den |-> 100 - g],
        [num |-> 100 * e + g * e - 100 * g, den |-> 10000])

\* What is left of epsilon e when an approximate count of G may err by g.
EpsilonBeside(e, g) ==
  Least([num |-> e - g, den |-> 100 + g],
        [num |-> 100 * e + g * e - 100 * g, den |-> 10000])

\* Slip: the counter of G gets no share of delta.
WholeDelta(d, g) == Percent(d)

DeltaBeside(d, g) == [num |-> d - g, den |-> 100 + g]

\* p still has the --epsilon and --delta of the command line.
SetGCounterParameters ==
  /\ Call("set_g_counter_parameters")
  /\ skl' = [skl EXCEPT
       !.epsilon_gc = IF skl.noguarnatee THEN 480 ELSE cmd.g_counter_epsilon,
       !.delta_gc   = IF skl.noguarnatee THEN 80 ELSE cmd.g_counter_delta]
  /\ p' = IF options.exactcount_s2 THEN p
          ELSE [p EXCEPT !.epsilon = EpsilonBeside(cmd.epsilon, cmd.g_counter_epsilon),
                         !.delta   = DeltaBeside(cmd.delta, cmd.g_counter_delta)]
  /\ UNCHANGED <<stage, options>>

SetNumThreads ==
  /\ Call("set_num_threads")
  /\ skl' = [skl EXCEPT !.numthreads = cmd.nthreads]
  /\ UNCHANGED <<stage, p, options>>

SetParameters ==
  /\ Call("set_parameters")
  /\ skl' = [skl EXCEPT !.epsilon = p.epsilon, !.delta = p.delta]
  /\ options' = [options EXCEPT !.seed = p.seed]
  /\ UNCHANGED <<stage, p>>

SetIgnoreUnsat ==
  /\ Call("set_ignore_unsat")
  /\ options' = [options EXCEPT !.ignore_unsat = ~cmd.count_unsat_inputs]
  /\ UNCHANGED <<stage, p, skl>>

\* static_samp_est is a switch that is on by default: --no-static-samp, which
\* sets it, changes nothing.
static_samp_est == TRUE \/ cmd.no_static_samp

SetStaticSamp ==
  /\ Call("set_static_samp")
  /\ options' = [options EXCEPT !.static_samp = static_samp_est]
  /\ UNCHANGED <<stage, p, skl>>

\* assert(epsilon > 0) ends the process.
SetDklrParameters ==
  /\ Call("set_dklr_parameters")
  /\ IF Assertions /\ ~Positive(skl.epsilon)
     THEN stage' = "aborted" /\ UNCHANGED skl
     ELSE /\ skl' = [skl EXCEPT
               !.epsilon_f = Times(Plus(skl.epsilon, Percent(-cmd.max_error_logcounter)),
                                   cmd.epsilon_weightage_fc, 10),
               !.delta_f   = Times(skl.delta, cmd.delta_weightage_fc, 10),
               !.delta_c   = Times(skl.delta, 10 - cmd.delta_weightage_fc, 10)]
          /\ UNCHANGED stage
  /\ UNCHANGED <<p, options>>

\* The first call of count().  epsilon_f and delta_f are set anew.  The threshold
\* is 4 ln(2 / delta_f) (1 + epsilon_f) / epsilon_f^2 in a GMP number, which
\* takes neither an infinity nor a NaN.
SetConstants ==
  /\ Call("set_constants")
  /\ skl' = [skl EXCEPT !.epsilon = p.epsilon, !.delta = p.delta,
                        !.epsilon_f = Times(p.epsilon, 6, 10),
                        !.delta_f = Times(p.delta, 1, 2)]
  /\ stage' = IF ~Positive(p.delta) \/ p.epsilon.num = 0 THEN "sigfpe"
              ELSE IF skl.numthreads > 1 THEN "threads"
              ELSE "count"
  /\ UNCHANGED <<p, options>>
-----------------------------------------------------------------------------
\* A step of the rest of count().
CountStep ==
  /\ stage = "count" /\ pc \notin Ended
  /\ Next
  /\ UNCHANGED <<stage, cmd, at, p, skl, status>>

\* main() returns 0 after a result, and count() exits with 0 without one.
ReturnFromCount ==
  /\ stage = "count" /\ pc \in {"printed", "exited"}
  /\ Exits("success")

MainEnded ==
  \/ stage \in {"exited", "aborted", "sigfpe", "threads"}
  \/ stage = "count" /\ pc \in {"sigfpe", "undefined"}

MainStopped == MainEnded /\ UNCHANGED mainVars

MainNext ==
  \/ ReadCommandLine \/ ReadFile
  \/ SetNoguarnteeMode \/ SetOracles \/ SetGCounterParameters \/ SetNumThreads
  \/ SetParameters \/ SetIgnoreUnsat \/ SetStaticSamp \/ SetDklrParameters
  \/ SetConstants \/ CountStep \/ ReturnFromCount \/ MainStopped

\* One thread, whose oracles always answer: it keeps stepping.
MainSpec == MainInit /\ [][MainNext]_mainVars /\ WF_mainVars(MainNext)
-----------------------------------------------------------------------------
(***************************************************************************)
(* Properties.                                                             *)
(***************************************************************************)

MainTypeOK ==
  /\ stage \in {"arguments", "file", "settings", "count", "exited", "aborted",
                "sigfpe", "threads"}
  /\ cmd \in CommandLine
  /\ at \in 1 .. Len(Calls) + 1
  /\ p \in [epsilon : Frac, delta : Frac, seed : Nat]
  /\ skl \in [noguarnatee : BOOLEAN, epsilon_gc : Nat, delta_gc : Nat,
              epsilon : Frac, delta : Frac, epsilon_f : Frac, delta_f : Frac,
              delta_c : Frac, numthreads : Nat]
  /\ status \in {"none", "success", "failure"}

Counting == stage = "count"

\* "The ordering of setting oracles are interdependent" (main.cpp:390): when
\* count() runs, the error left to the estimate and that of an approximate count
\* of G make up --epsilon together, above and below; with an exact count of G
\* the estimate has all of it.
ErrorBudget ==
  Counting /\ ~cmd.noguarantee =>
    LET e == skl.epsilon
        g == skl.epsilon_gc
    IN IF options.exactcount_s2
       THEN Equal(e, Percent(cmd.epsilon))
       ELSE /\ (e.den + e.num) * (100 + g) <= e.den * (100 + cmd.epsilon)
            /\ e.den * (100 - cmd.epsilon) * (100 + g) <= (e.den - e.num) * 10000

\* Likewise the probabilities to fail of the estimate, of the counts of its
\* samples and of the counter of G: at most --delta, if --delta-fc is 0.5 or more.
ConfidenceBudget ==
  Counting /\ ~cmd.noguarantee /\ cmd.delta_weightage_fc >= 5 =>
    AtMost(Plus(Plus(skl.delta_f, skl.delta_c),
                Percent(IF options.exactcount_s2 THEN 0 ELSE skl.delta_gc)),
           Percent(cmd.delta))

\* Nothing is counted with a tolerance or a probability that is not positive:
\* the assertion of set_dklr_parameters() and the trap of set_constants() see
\* the very values that count() goes on with.
CountsOnlyWithTolerance ==
  Assertions /\ Counting =>
    Positive(skl.epsilon) /\ Positive(skl.delta) /\ Positive(skl.epsilon_f)

\* With the default settings a formula that has an input with two outputs comes
\* to a printed result and the status 0.
DefaultSettings ==
  [request |-> "run", file |-> "accepted", epsilon |-> 80, delta |-> 40,
   g_counter_epsilon |-> 8, g_counter_delta |-> 8, epsilon_weightage_fc |-> 6,
   delta_weightage_fc |-> 5, max_error_logcounter |-> 10, noguarantee |-> FALSE,
   exactcount_f |-> TRUE, exactcount_g |-> FALSE, count_unsat_inputs |-> FALSE,
   no_static_samp |-> FALSE, seed |-> 0, nthreads |-> 1]

DefaultsPrint ==
  cmd = DefaultSettings /\ input.s2 > 0 => <>(pc = "printed" /\ status = "success")

\* The help text of --delta-fc, "Weightage of Tolerance allowed for function
\* counter" (main.cpp:176): the share of delta that the threshold is made of is
\* the one given.
WeightApplied ==
  Counting => Equal(skl.delta_f, Times(skl.delta, cmd.delta_weightage_fc, 10))

\* The README on epsilon and delta, "Both values are configurable" (README.md:65),
\* and the help text of --epsilon, "Lower value means more precise": the program
\* comes to its count with every value between 0 and 1.
TolerancesConfigurable ==
  cmd.epsilon \in 1 .. 99 /\ cmd.delta \in 1 .. 99 =>
    stage \notin {"aborted", "sigfpe"}
-----------------------------------------------------------------------------
(***************************************************************************)
(* count() as SklFC has it, with its settings made beforehand.             *)
(***************************************************************************)
SettingsOf(c) ==
  [ignore_unsat |-> ~c.count_unsat_inputs, exactcount_s0 |-> c.exactcount_f,
   exactcount_s2 |-> c.exactcount_g, static_samp |-> TRUE, seed |-> c.seed]

Estimator == INSTANCE SklFC WITH options <- SettingsOf(cmd)

\* Whatever the command line, count() runs as SklFC does with the settings that
\* the line asks for (--no-static-samp aside): main() has made them all before
\* its first step, changes none after it, and leaves the estimator alone besides.
RunsEstimator == Estimator!Spec
=============================================================================
