-------------------------------- MODULE SklFC --------------------------------
(***************************************************************************)
(* SklFC::count() of src/skolemfc.cpp run with one thread: the estimate    *)
(* for the inputs without an output (Est0), the count of the G formula,    *)
(* the number of samples to ask for, and the loop that counts one sample   *)
(* after another, refilling the pool when it has run dry, until the sum of *)
(* the logarithms passes the threshold.                                    *)
(*                                                                         *)
(* The input formula F(X, Y) is known by the sizes that Problem lists.     *)
(* Formulas, samples and counts are otherwise opaque: a sample is the      *)
(* number at which the sampler produced it, and a count enters the loop    *)
(* only by its logarithm, in whole bits.                                   *)
(* ApproxMC, Arjun, Ganak and UniGen are not part of the repository; they  *)
(* answer anything the code has to be ready for.                           *)
(***************************************************************************)
EXTENDS Integers, Sequences, Problem

CONSTANTS
  NumExists,        \* exists_vars.size()
  Inputs,           \* the formulas considered
  OptionSet,        \* the settings considered
  ThreshPerVar,     \* 4 ln(2 / delta_f) (1 + epsilon_f) / epsilon_f^2
  SampleLogs,       \* log2 of the count of F under one sample
  PairLogs,         \* log2 of the count of G under one sample
  NegInf,           \* log2(0)
  MultiSample,      \* the batch unit, 500 in the code
  MaxBatch,         \* the largest refill, 1000 in the code
  Overshoot,        \* how many samples beyond the request UniGen may deliver
  Word,             \* 2^32, the range of uint32_t
  Tolerance,        \* ApproxMC errs by at most this factor
  WrongCounts,      \* what Ganak may give for a count when it is disturbed
  LogEpsC,          \* log(1 + epsilon_c), in hundredths
  MaxError,         \* max_error_logcounter, in hundredths
  ApproxThreshold,  \* approxmc_threshold
  TrapFpe,          \* main() runs on Linux, where it enables FPE traps
  MaxIteration      \* bound on the number of iterations explored

Options == [ignore_unsat : BOOLEAN, exactcount_s0 : BOOLEAN,
            exactcount_s2 : BOOLEAN, static_samp : BOOLEAN, seed : Nat]

ASSUME SizeAssumption ==
  /\ NumExists \in Nat
  /\ Inputs \subseteq Problems

ASSUME LogAssumption ==
  /\ SampleLogs \subseteq Nat \cup {NegInf}
  /\ PairLogs \subseteq Nat
  /\ NegInf \notin Nat

\* A restriction: --delta is a probability to fail, but the code does not refuse
\* one above 4, for which 2 / delta_f is below 1 and its logarithm negative.
ASSUME ThresholdAssumption == ThreshPerVar \in Nat

ASSUME BatchAssumption ==
  /\ MultiSample \in Nat /\ MultiSample >= 2
  /\ MaxBatch \in Nat /\ MaxBatch >= 1
  /\ Overshoot \in Nat

ASSUME WordAssumption ==
  /\ Word \in Nat /\ Word > MaxBatch + Overshoot

ASSUME SettingAssumption ==
  /\ OptionSet \subseteq Options
  /\ Tolerance \in Nat \ {0}
  /\ WrongCounts \subseteq Nat
  /\ LogEpsC \in Nat
  /\ MaxError \in Nat
  /\ ApproxThreshold \in Nat
  /\ TrapFpe \in BOOLEAN
  /\ MaxIteration \in Nat

VARIABLES
  pc,                          \* where count() is
  input,                       \* the formula
  options,                     \* the settings made before count()
  est0,                        \* get_est0()
  s2size,                      \* get_g_count()
  okay,
  sample_num_est,
  samples_from_unisamp,
  sample_clearance_iteration,
  requested,                   \* samples_needed of the running get_samples()
  generated,                   \* samples produced since the start (history)
  seeds,                       \* seeds given to UniGen's counter (history)
  iteration,
  log_skolemcount,
  sample,                      \* the last sample counted (history)
  result                       \* count, as the fraction num / den

setup  == <<input, options>>
counts == <<est0, s2size, okay>>
pool   == <<sample_num_est, samples_from_unisamp, sample_clearance_iteration,
            requested, generated, seeds>>
rule   == <<iteration, log_skolemcount, sample>>
vars   == <<pc, setup, counts, pool, rule, result>>

Ended == {"printed", "exited", "sigfpe", "undefined"}
Locations == {"get_est0", "get_g_count", "get_sample_num_est", "get_samples",
              "sampling", "while", "resampling", "create", "get_est1"} \cup Ended

\* set_constants() multiplies the threshold by the number of outputs.
thresh == ThreshPerVar * NumExists

Init ==
  /\ pc = "get_est0"
  /\ input \in Inputs
  /\ options \in OptionSet
  /\ est0 = 0 /\ s2size = 0 /\ okay = TRUE
  /\ sample_num_est = 0
  /\ samples_from_unisamp = <<>>
  /\ sample_clearance_iteration = 0
  /\ requested = 0 /\ generated = 0 /\ seeds = <<>>
  /\ iteration = 0 /\ log_skolemcount = 0 /\ sample = 0
  /\ result = [num |-> 0, den |-> 1]
-----------------------------------------------------------------------------
(***************************************************************************)
(* The counting oracles.                                                   *)
(***************************************************************************)

\* What count_using_approxmc() may report for a projected count of k.  A
\* formula with at most one projected model may have an empty independent
\* support, for which the code takes the count to be 1 without asking.
ApproxCounts(k) ==
  IF k = 0 THEN {0, 1}
           ELSE {c \in 1 .. Tolerance * k : Tolerance * c >= k}

\* What the exact or the approximate counter may report.  The exact counter
\* reports 1 without a pipe to Ganak, and anything when Ganak has been stopped or
\* the disk is full: the three answers of CountOracle.
OracleCounts(exact, k) ==
  IF exact THEN {k, 1} \cup WrongCounts ELSE ApproxCounts(k)

\* A double divided by zero and the quotient converted to an integer: a signal
\* when main() has enabled the traps, undefined behaviour otherwise.
DivideByZero == pc' = IF TrapFpe THEN "sigfpe" ELSE "undefined"
-----------------------------------------------------------------------------
(***************************************************************************)
(* Before the loop.                                                        *)
(***************************************************************************)

\* get_est0(): every valuation in S0 leaves all the outputs free.
GetEst0 ==
  /\ pc = "get_est0"
  /\ IF options.ignore_unsat
     THEN est0' = 0
     ELSE \E c \in OracleCounts(options.exactcount_s0, input.f) :
            est0' = (2^input.forall - c) * NumExists
  /\ pc' = "get_g_count"
  /\ UNCHANGED <<setup, s2size, okay, pool, rule, result>>

\* get_g_count(): for a problem with input variables the size of S2.
GetGCount ==
  /\ pc = "get_g_count"
  /\ \E c \in OracleCounts(options.exactcount_s2, input.g) :
       /\ s2size' = c
       /\ okay' = (c # 0)
       /\ pc' = IF c # 0 THEN "get_sample_num_est" ELSE "get_est1"
  /\ UNCHANGED <<setup, est0, pool, rule, result>>

\* Ganak printed no count line: count_using_ganak() ends the process.
GanakExit ==
  /\ \/ pc = "get_est0" /\ ~options.ignore_unsat /\ options.exactcount_s0
     \/ pc = "get_g_count" /\ options.exactcount_s2
  /\ pc' = "exited"
  /\ UNCHANGED <<setup, counts, pool, rule, result>>

\* The logarithm of the count of G with the literals of one of its models.  X has
\* no literals when it is empty: G is then counted also when it has no model.
FirstLogs == IF input.s2 > 0 THEN PairLogs ELSE {0, NegInf}

\* The threshold divided by that logarithm, rounded up past the next multiple of
\* MultiSample; a quotient by -infinity is 0.
SampleNum(l) ==
  LET quotient == IF l = NegInf THEN 0 ELSE thresh \div l
  IN  ((quotient + MultiSample) \div MultiSample) * MultiSample

\* get_sample_num_est().  Without a model of G the code reads an element of an
\* empty vector for each variable of X.
GetSampleNumEst ==
  /\ pc = "get_sample_num_est"
  /\ \/ /\ options.static_samp
        /\ sample_num_est' = MultiSample
        /\ pc' = "get_samples"
     \/ /\ ~options.static_samp
        /\ input.s2 > 0 \/ input.forall = 0
        /\ \E l \in FirstLogs :
             IF l = 0 \/ (l = NegInf /\ TrapFpe)
             THEN DivideByZero /\ UNCHANGED sample_num_est
             ELSE sample_num_est' = SampleNum(l) /\ pc' = "get_samples"
     \/ /\ ~options.static_samp
        /\ input.s2 = 0 /\ input.forall # 0
        /\ pc' = "undefined"
        /\ UNCHANGED sample_num_est
  /\ UNCHANGED <<setup, counts, samples_from_unisamp, sample_clearance_iteration,
                 requested, generated, seeds, rule, result>>
-----------------------------------------------------------------------------
(***************************************************************************)
(* Sampling.  get_samples() runs UniGen, which calls unigen_callback()     *)
(* once per sample, and returns when it has the samples it was asked for.  *)
(***************************************************************************)

\* Slip: the batch is not part of the seed.
SeedOfOption(s) == s % Word

\* Slip: the seed is computed in 64 bits.
WideSeed(s) == iteration * s

\* The seed that get_samples() computes, in the 32 bits of set_seed().
SeedFor(s) == (iteration * s) % Word

\* The first batch; get_samples() is called with its default seed, 1.
StartSampling ==
  /\ pc = "get_samples"
  /\ requested' = sample_num_est
  /\ seeds' = Append(seeds, SeedFor(1))
  /\ pc' = "sampling"
  /\ UNCHANGED <<setup, counts, sample_num_est, samples_from_unisamp,
                 sample_clearance_iteration, generated, rule, result>>

\* Samples are models of G: there are none when S2 is empty.  For an empty X they
\* are samples without literals, in the numbers asked for as for any other.
UnigenCallback ==
  /\ pc \in {"sampling", "resampling"}
  /\ input.s2 > 0
  /\ Len(samples_from_unisamp) < requested + Overshoot
  /\ generated' = generated + 1
  /\ samples_from_unisamp' = Append(samples_from_unisamp, generated + 1)
  /\ UNCHANGED <<pc, setup, counts, sample_num_est, sample_clearance_iteration,
                 requested, seeds, rule, result>>

SamplingReturns ==
  /\ \/ Len(samples_from_unisamp) >= requested
     \/ input.s2 = 0
  /\ \/ pc = "sampling" /\ pc' = "while"
     \/ pc = "resampling" /\ pc' = "create"
  /\ UNCHANGED <<setup, counts, pool, rule, result>>
-----------------------------------------------------------------------------
(***************************************************************************)
(* The loop.  get_and_add_count_for_a_sample() refills the pool when every *)
(* sample in it has been counted, then counts the sample of this iteration.*)
(***************************************************************************)

\* Slip: the loop ends when the total reaches the threshold.
GuardBelow == log_skolemcount < thresh /\ okay

\* Slip: the loop never looks at the total.
GuardOkay == okay

LoopGuard == log_skolemcount <= thresh /\ okay

\* Slip: the pool is taken to be dry one sample too late.
DryLate ==
  /\ iteration > Len(samples_from_unisamp) + sample_clearance_iteration
  /\ iteration > 1

\* Slip: samples cleared earlier are forgotten.
DryForgetful == iteration >= Len(samples_from_unisamp) /\ iteration > 1

PoolIsDry ==
  /\ iteration >= Len(samples_from_unisamp) + sample_clearance_iteration
  /\ iteration > 1

\* The number of iterations the samples so far predict, and a batch on top.
PredictedIterations ==
  (thresh * iteration) \div log_skolemcount + MultiSample

Refill ==
  /\ pc = "while"
  /\ LoopGuard
  /\ PoolIsDry
  /\ IF log_skolemcount = 0
     THEN DivideByZero /\ UNCHANGED pool
     ELSE /\ sample_num_est' = PredictedIterations
          /\ requested' = IF PredictedIterations > MaxBatch
                          THEN MaxBatch ELSE PredictedIterations
          /\ samples_from_unisamp' = <<>>
          /\ sample_clearance_iteration' = iteration % Word
          /\ seeds' = Append(seeds, SeedFor(options.seed))
          /\ pc' = "resampling"
          /\ UNCHANGED generated
  /\ UNCHANGED <<setup, counts, rule, result>>

\* Slip: the pool is read like a ring, from wherever the iteration falls.
RingIndex ==
  IF samples_from_unisamp = <<>> THEN 0
  ELSE iteration % Len(samples_from_unisamp)

\* create_formula_from_sample() subtracts in uint32_t; the index is 0-based.
SampleIndex == ((iteration % Word) - sample_clearance_iteration) % Word

AboutToCount ==
  \/ pc = "while" /\ LoopGuard /\ ~PoolIsDry
  \/ pc = "create"

\* The formula is built from the sample and counted.  A count of 0 traps in
\* log2, or is left out of the sum by the std::isfinite test.
CountSample ==
  /\ AboutToCount
  /\ SampleIndex < Len(samples_from_unisamp)
  /\ iteration < MaxIteration
  /\ \E l \in SampleLogs :
       IF l = NegInf /\ TrapFpe
       THEN pc' = "sigfpe" /\ UNCHANGED rule
       ELSE /\ iteration' = iteration + 1
            /\ sample' = samples_from_unisamp[SampleIndex + 1]
            /\ log_skolemcount' = IF l = NegInf THEN log_skolemcount
                                                ELSE log_skolemcount + l
            /\ pc' = "while"
  /\ UNCHANGED <<setup, counts, pool, result>>

\* samples[...] has no bounds check.
ReadPastEnd ==
  /\ AboutToCount
  /\ SampleIndex >= Len(samples_from_unisamp)
  /\ pc' = "undefined"
  /\ UNCHANGED <<setup, counts, pool, rule, result>>

LeaveLoop ==
  /\ pc = "while"
  /\ ~LoopGuard
  /\ pc' = "get_est1"
  /\ UNCHANGED <<setup, counts, pool, rule, result>>
-----------------------------------------------------------------------------
(***************************************************************************)
(* The result: count = est0 + (thresh / iteration) * s2size.               *)
(***************************************************************************)

Estimate ==
  IF okay
  THEN [num |-> est0 * iteration + thresh * s2size, den |-> iteration]
  ELSE [num |-> est0, den |-> 1]

\* Slip: 0 >= 0 lets the division by s2size through.
ErrorReaches(c) == s2size * LogEpsC * c.den >= MaxError * c.num

\* Slip: the comparison is the wrong way round.
AboveThreshold(c) == c.num > ApproxThreshold * s2size * c.den

\* check_if_approxmc_error_exceeds(), its two comparisons cleared of fractions.
ErrorDominates(c) == s2size * LogEpsC * c.den > MaxError * c.num
BelowThreshold(c) == c.num < ApproxThreshold * s2size * c.den

\* GMP raises the signal itself when the divisor, iteration or s2size, is 0.
Finish ==
  /\ pc = "get_est1"
  /\ IF okay /\ iteration = 0
     THEN pc' = "sigfpe" /\ UNCHANGED result
     ELSE /\ result' = Estimate
          /\ pc' = IF ~ErrorDominates(Estimate) THEN "printed"
                   ELSE IF s2size = 0 THEN "sigfpe"
                   ELSE IF BelowThreshold(Estimate) THEN "printed"
                   ELSE "exited"
  /\ UNCHANGED <<setup, counts, pool, rule>>

\* The process has ended, or the bound on the iterations is reached.
Stopped ==
  /\ \/ pc \in Ended
     \/ AboutToCount /\ iteration = MaxIteration
  /\ UNCHANGED vars

Next ==
  \/ GetEst0 \/ GetGCount \/ GanakExit \/ GetSampleNumEst
  \/ StartSampling \/ UnigenCallback \/ SamplingReturns
  \/ Refill \/ CountSample \/ ReadPastEnd \/ LeaveLoop
  \/ Finish \/ Stopped

Spec == Init /\ [][Next]_vars

\* count() is sequential and its oracles always answer: it keeps stepping.
FairSpec == Spec /\ WF_vars(Next)
-----------------------------------------------------------------------------
(***************************************************************************)
(* Properties.                                                             *)
(***************************************************************************)

TypeOK ==
  /\ pc \in Locations
  /\ input \in Inputs
  /\ options \in OptionSet
  /\ est0 \in Int /\ s2size \in Nat /\ okay \in BOOLEAN
  /\ sample_num_est \in Nat
  /\ samples_from_unisamp \in Seq(Nat)
  /\ sample_clearance_iteration \in 0 .. Word - 1
  /\ requested \in Nat /\ generated \in Nat
  /\ seeds \in Seq(0 .. Word - 1)
  /\ iteration \in 0 .. MaxIteration
  /\ log_skolemcount \in Nat
  /\ sample \in Nat
  /\ result \in [num : Int, den : Nat]

\* The unchecked samples[sample_num - sample_clearance_iteration] and
\* model[var] are in bounds whenever some input has two outputs: whatever the
\* sizes of the batches, the refill guard "iteration > 1" never lets the loop
\* run past the pool.
UndefinedOnlyWithoutS2 == pc = "undefined" => input.s2 = 0

\* Why: short of 2^32 iterations the pool holds the samples after the last
\* refill, the loop is inside it or at its end, and it is never left with fewer
\* samples than the guard of the refill lets pass uncounted.
PoolInv ==
  /\ generated = sample_clearance_iteration + Len(samples_from_unisamp)
  /\ \A k \in 1 .. Len(samples_from_unisamp) :
       samples_from_unisamp[k] = sample_clearance_iteration + k
  /\ sample_clearance_iteration <= iteration /\ iteration <= generated
  /\ sample = iteration
  /\ sample_clearance_iteration # 1
  /\ pc \in {"get_est0", "get_g_count", "get_sample_num_est", "get_samples"} =>
       generated = 0
  /\ pc = "get_samples" => sample_num_est >= 2
  /\ pc = "sampling" => iteration = 0 /\ requested >= 2
  /\ pc = "resampling" =>
       iteration = sample_clearance_iteration /\ iteration > 1 /\ requested >= 1
  /\ pc = "create" =>
       /\ iteration = sample_clearance_iteration /\ iteration > 1
       /\ input.s2 > 0 => generated > iteration
  /\ pc = "while" /\ input.s2 > 0 /\ sample_clearance_iteration = 0 =>
       generated >= 2

\* As above when a logarithm may be 0 or -infinity: the loop can then also
\* divide by a total of 0, and nothing else goes wrong.
UndefinedOnlyAtZeroTotal == pc = "undefined" => log_skolemcount = 0

\* No sample is counted twice, across all refills of the pool: each iteration of
\* the loop counts a sample produced after that of the iteration before it.
SamplesNeverReused == [][iteration' # iteration => sample' > sample]_vars

\* Two runs of the sampler get the same seed, and so deliver the same samples,
\* if and only if --seed is 0, which is its default: a refill is then the
\* samples of the first batch again.
FreshSeeds ==
  \A i, j \in DOMAIN seeds :
    i # j => (seeds[i] = seeds[j] <=> options.seed = 0)

\* The estimate thresh / iteration that is printed lies between the smallest
\* logarithm, the last sample aside, and the largest.
EstimateWithinLogs ==
  pc = "printed" /\ okay =>
    \A lo, hi \in SampleLogs :
      (\A l \in SampleLogs : lo <= l /\ l <= hi) =>
        thresh < hi * iteration /\ lo * (iteration - 1) <= thresh

\* A division by zero ends the process only when F has been counted beyond the
\* number of inputs, by ApproxMC, by a Ganak that was stopped or because X is
\* empty, and G has been counted 0; or else X is empty and G, without a model, has
\* not been counted 0.
SignalOnlyAfterOvercount ==
  pc = "sigfpe" =>
    \/ est0 < 0 /\ ~okay
    \/ okay /\ input.forall = 0 /\ input.s2 = 0

\* With MaxError * ApproxThreshold >= LogEpsC, which holds of the defaults, the
\* final error check never refuses a result: the only exits are those of a
\* Ganak run without a count, before anything is sampled.
NeverRefused == pc = "exited" => seeds = <<>>

\* The help text of --max-error-logcounter (main.cpp:188): the error of the
\* counting oracle, relative to the count printed, is within the limit.
ErrorWithinLimit == pc = "printed" => ~ErrorDominates(result)

\* count() ends.
Terminates == <>(pc \in Ended)
-----------------------------------------------------------------------------
(***************************************************************************)
(* The loop with its batches implements the rule that reads one unbounded  *)
(* stream of samples.                                                      *)
(***************************************************************************)
Phase ==
  CASE pc = "printed" -> IF okay THEN "answered" ELSE "empty"
    [] pc \in Ended \ {"printed"} -> "failed"
    [] OTHER -> "drawing"

\* A logarithm of -infinity adds nothing.
Contributions == {IF l = NegInf THEN 0 ELSE l : l \in SampleLogs}

Rule == INSTANCE StoppingRule
        WITH Threshold <- thresh, Logs <- Contributions, drawn <- iteration,
             total <- log_skolemcount, latest <- sample, phase <- Phase

\* Every sample of the stream is counted once, in order, and the loop answers
\* when, and only when, the total has passed the threshold.
ImplementsStoppingRule == Rule!RuleSpec
=============================================================================
