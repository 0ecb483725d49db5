# SkolemFC in TLA+

SkolemFC estimates the number of Skolem functions of a formula F(X, Y) read
from a QDIMACS file: the functions that map every input (valuation of X) that
has an output to one of its outputs. It prints the logarithm, `s fc 2 ** n`.
The inputs fall into S0 (no output), S1 (one) and S2 (two or more). Only S2, and
S0 when `--count-unsat` is given, contribute:

    n  =  |S0| * |Y|  +  sum over x in S2 of log2 |outputs of x|

The program counts S0 through F, counts S2 through the formula G = F(X, Y) and
F(X, Y') and Y differs from Y', and estimates the average logarithm over S2
by counting F under samples from G until the logarithms add up to a threshold.

This directory holds TLA+ modules for that code, the configurations that
model-check them with TLC, and proofs that TLAPS checks. Line numbers refer to
`src/skolemfc.cpp` unless a file is named.

## Inventory

| component | state | operations | interacts with |
|---|---|---|---|
| estimator, `SklFC` | `okay`, `s2size`, `iteration`, `log_skolemcount`, `thresh`, the pool `samples_from_unisamp` with `sample_num_est` and `sample_clearance_iteration` | `count`, `get_est0`, `get_g_count`, `get_sample_num_est`, `get_samples`, `unigen_callback`, `get_and_add_count_for_a_sample`, `create_formula_from_sample`, `get_est1`, `check_if_approxmc_error_exceeds` | reads the problem; calls the counters and the sampler; UniGen calls back |
| estimator with threads | `threads`, the shared pool and total, `iter_mutex` | `get_samples_multithread`, `get_and_add_count_multithred`, `get_and_add_count_onethred` | main thread, samplers, counters |
| exact counter, `count_using_ganak` | temporary file, pipe, child process | mkstemp, write, pipe, fork, exec, read, waitpid, parse, unlink | Ganak as a child process |
| problem, `SklFCInt` | `nvars`, `forall_vars`, `exists_vars`, `clauses`, `g_formula_clauses`, `n_g_vars` | `add_*`, `create_g_formula` | filled by the parser, read by the estimator |
| parser, `DimacsParser` | `header_found`, `num_header_vars`, `lits`, the rest of the stream | `parse_DIMACS_main`, `parse_header`, `parseForallVars`, `parseExistsVars`, `readClause`, `check_var`, `parseComments` | fills the problem |
| `main` and settings | options, epsilon and delta | the setters, in an order that matters | configures the estimator |
| ApproxMC, Arjun, UniGen, CryptoMiniSat, Ganak | not in the repository | count, sample, solve | called by the estimator |
| baseline (`utils/baseline`) | files | shell script around exact counters, a second generator of G, `f2_formula_creator.py` | none; its counts are what the estimates are measured with |
| `time_mem.h`, version strings, `test.cpp`, build scripts | none that matters to a result | | |

What makes each component correct, and what is hard about it:

* **Estimator.** The loop must see one stream of samples, although it reads them
  from a pool that is emptied and refilled, through an index that is computed in
  32 bits and never checked; it must stop just when the total has passed the
  threshold; it divides by four quantities that can be 0.
* **Threads.** Samplers push into one vector without a lock; `std::thread`
  objects are kept in a member that is never cleared; the samples are divided by
  rounding.
* **Exact counter.** Two processes that can block on each other; output in
  arbitrary pieces; calls can fail, Ganak can be killed, and most results are not
  looked at.
* **Problem and G.** New variables are placed by arithmetic on indices; a wrong
  sign changes results without any error.
* **Parser.** What it accepts is what G is built from. Each handler must leave the
  stream at the start of a line, and a file may end anywhere.
* **Settings.** Each setter reads what an earlier one wrote; epsilon and delta are
  divided between the counter of G and the estimate, and a wrong order spends
  them twice.
* **Baseline.** Its G must mean what the program's G means.

`PROJECT.json` lists the hazards line by line, each with the properties that
would catch it.

## Modules

| module | models |
|---|---|
| `StoppingRule` | abstract: draw from one stream of samples until the total passes a threshold, then answer |
| `Problem` | what the estimator is told of a formula: the sizes of S0, S1 and S2, and what is counted of F and of G |
| `SklFC` | `count()` with one thread |
| `SklFC_proofs` | theorems about `SklFC` |
| `Threads` | the path of `count()` for two threads or more |
| `Threads_proofs` | theorems about `Threads` |
| `CountOracle` | abstract: asked once, a counter answers with the count, or with 1, or the process ends |
| `GanakCall` | `count_using_ganak()` and its child process |
| `GanakCall_proofs` | theorems about `GanakCall` |
| `SklFCInt` | the problem as any file may fill it, and `create_g_formula()` with what it means |
| `SklFCInt_proofs` | theorems about `SklFCInt`: G |
| `SkolemCount_proofs` | and the number of Skolem functions |
| `Baseline` | extends `SklFCInt`: the G of `f2_formula_creator.py` for the same problem |
| `Baseline_proofs` | the theorem about `Baseline` |
| `Parser` | `DimacsParser`, token by token |
| `Parser_proofs` | theorems about `Parser` |
| `Main` | extends `SklFC`: `main()` with the command line, the file, the setters in their order, `set_constants()`, and then the steps of `SklFC` |
| `Main_proofs` | theorems about `Main` |
| `MCSklFC`, `MCThreads`, `MCGanakCall`, `MCSklFCInt`, `MCParser`, `MCMain` | small sets for TLC |

How they fit: `SklFC` refines `StoppingRule` and takes exact counts from
`OracleCounts`, which has the three answers that `CountOracle` promises and
`GanakCall` implements: the count, 1, and after a disturbance any of `WrongCounts`.
`SklFC` knows a formula as one of the `Problems` of `Problem`; `SklFCInt` shows that
the G the program builds does count S2, and `EstimatorAssumptionsHold` that every
well-formed file gives one of `Problems`. `Threads` starts where `SklFC` has left
`okay` and `sample_num_est`. `Parser` implements the reading half of `SklFCInt`
(`ImplementsReading`). `Main` runs `SklFC` with the settings it has made
(`RunsEstimator`), and ends at the hand-over to `Threads` when there are two
threads or more.

Operators whose comment starts with *Slip* are not part of any specification:
each is a definition as a plausible mistake would leave it, and is put in that
definition's place to see that a property notices.

### SklFC

The variables carry the names of the members; `pc` is the function `count()`
is in; `generated`, `seeds`, `sample` and `requested` record what happened.

* `GetEst0`, `GetGCount`, `GanakExit`: lines 261-334 and 497-501. An exact count
  is the count, or 1 when no pipe could be made, or one of `WrongCounts` when Ganak
  was disturbed; an approximate one lies within a factor `Tolerance`, and may be 1
  for an empty formula (lines 847-855). What is counted is the models projected
  on X, but for a file without input variables all models (lines 395 and 820,
  which line 906 relies on): `Problems` has the two counts beside the sizes.
* `GetSampleNumEst`: lines 514-594, with the division by a logarithm that may
  be 0 and the model that is read before the result of `solve()`. Without input
  variables no element of the model is read, and an empty G is counted too.
* `StartSampling`, `UnigenCallback`, `SamplingReturns`: `get_samples()`. A sample
  is its number in the order of production. UniGen may deliver up to `Overshoot`
  samples more than asked for, and none when S2 is empty.
* `Refill`, `CountSample`, `ReadPastEnd`: `get_and_add_count_for_a_sample()`.
  `CountSample` adds one of `SampleLogs`, or nothing for a count of 0
  (`NegInf`), or is stopped by the FPE trap.
* `LeaveLoop`, `Finish`: lines 990-1004. The result is kept as a fraction.

Constants abstract the numbers: logarithms in whole bits, log(1 + epsilon_c) and
`max_error_logcounter` in hundredths. mpz_class times double truncates
log(1 + epsilon_c) = 1.73 to 1 before the multiplication; `NeverRefused` and
`ErrorWithinLimit` come out the same for both values. In `PredictedIterations`
the division by `multisample` and the multiplication cancel, as they do in the
code, where both are in double arithmetic and round to no multiple. The command
line cannot turn `static_samp` off (`--no-static-samp` is a switch whose default
is already true), but the member can be false for a user of the library.

### Threads

The main thread's loops (`i`, and `j` for the range-for over `threads`), one
state per sampler and counter. `push_back` is two steps; when two samplers are
inside it at once the second outcome of `LeavePush` may lose the sample or
corrupt the heap, which is what the race may do. `Join` throws for an object
joined before, and `pc = "terminated"` is the `std::terminate()` that follows.
Reads for log lines are left out.

`SamplerSeed` is the seed a sampler gives to UniGen, `iteration * i` with
iteration 0. `SamplersDrawOneStream` takes the sampler for a function of its
seed, which UniGen is, and says what follows: the pool has as many different
samples as one sampler delivers.

### GanakCall

Ganak's output is a sequence of pieces; the line with the count is two pieces,
so that a cut inside the number can happen. `pipe` is bounded by `PipeCapacity`
and `read()` returns up to `ReadSize` pieces. `pipe()` can fail, and with `MayFail`
`mkstemp`, `write`, `fork`, `exec` and Ganak can, and Ganak can be killed between any
two pieces. `read`, `waitpid`, `dup2` and `close` do not fail: their descriptors are
valid, the child is the process's own, and the program installs no signal
handler, so that nothing interrupts them. (Line 472 would take a failed `read` for
the end of the output, and line 480 does not look at the result of `waitpid`.)
`ImplementsOracle` maps a Ganak that was killed, or a formula that was not
written whole, to `disturbed`: only then may the answer be a wrong number.

### SklFCInt and Baseline

`SklFCInt` lets any file fill the problem, by `new_vars`, `add_forall_var`,
`add_exists_var` and `add_clause`, or end in a rejection, and then runs
`create_g_formula()`. Formulas are sets of clauses. `Models` and `TwoOutputs`
give their meaning; `SkolemFunctions` is the definition of the repository's
README, independent of G. `Counted` is what the counters are asked for.
`CountsSkolemFunctions` is about files with an input variable; without one the
program counts all models of F and of G and estimates another number (see below).

`Baseline` has the other G. It differs in three ways: copies are numbered in the
order of the variables, not of the `e` line; clauses over inputs alone are not
copied; the auxiliary variables are numbered by a running offset. The script keeps
the last `a` line and the last `e` line of a file, the program all of them; the
comparison is for files with one of each.

### Parser

A file is not chosen beforehand: `NextLine` chooses each line when the parser has
come to it, from `LineChoices`, and whether the file ends with it. `in` is what
is left of the line; `pc` is the handler. A token is a number, a word or the end;
the stream buffer's functions are CryptoMiniSat's. `lines` records what was
chosen, so that `ParseCorrect` can compare the outcome with a grammar that is
stated on whole lines, without the parser's state: `Grammatical`, `Named` and
`ClausesOf` the first `m` lines of a file. The grammar is what the code takes, where it is more liberal than
QDIMACS: words after a header or after the 0 of a quantifier line are ignored,
a quantifier line may come before the header and name anything, the number of
clauses is compared with nothing, and a file without a header is accepted if it
has no clause with a literal.

`SklFCInt` has finite choices, so `ImplementsReading` is stated for bounded lines:
`MaxTokens` tokens, names up to `MaxName`, and `NumVars` as the number that a header
declares, if it is above 0 (`BoundsAssumption`). Nothing else uses these bounds.

### Main

`cmd` is the command line. The members that `count()` reads are `options` of
`SklFC`, the others are in `skl`, and `p` has the parameters that are kept in
`SklFCInt`. `Calls` is the sequence of the setters with `set_constants()`, the
first call of `count()`, at its end; each setter is an action that is enabled
when it is its turn. Options are whole percents, and what is computed of them is
a fraction, so that the two halves of `EpsilonBeside` are compared exactly.
An assertion that fails, the trap on log(2 / delta_f) and the exits are stages
of their own. `--no-static-samp` is a switch whose default is already true:
`static_samp_est` is TRUE whatever is given. `Estimator` is `SklFC` over the
settings that a command line asks for: `RunsEstimator` says that `main()` is, for
the variables of `SklFC`, a run of it.

## Runs

| run | question | states | bounds, and why they are enough |
|---|---|---|---|
| `count` | all of `count()`, one thread, under weak fairness | 669k | four inputs in every split into S0, S1, S2, and four formulas without an input variable; wrong counts of 0 and 9; all settings, the seed 0 among them; batches of 2, refills of at most 3, up to one sample too many; threshold 6 with logarithms 1 and 2, so that up to seven iterations and three refills happen, and the total can both reach and skip the threshold |
| `lost_logs` | counts of 0 and 1 without traps, and the modular index | 322k | logarithms 0, 1 and -infinity; eight iterations, four refills; `Word` = 5, so that iteration, clearance and seed all wrap |
| `error_limit` | a statement of the help text | | violated, see below |
| `threads` | every interleaving of three samplers, the main thread and the counters, under weak fairness | 55k | four samples asked for: one for each thread and one lost to the division, one too many from each; parts of different sizes, empty ones included; counts of 0, 1 and 2 bits |
| `threads_usable` | `--threads` above 1 | | violated |
| `formula` | G, the number of Skolem functions, and the baseline's G | 142k | three variables, each quantified either way, up to three clauses of up to two literals: S0, S1 and S2 all occur, as do empty X, empty Y, the empty clause, an `e` line that is not in the order of the variables and clauses over inputs alone |
| `undeclared` | files that quantify undeclared variables | | violated |
| `ganak` | the call, when what it starts may fail and Ganak may never end | 411 | outputs of up to five pieces through a pipe of three, two to a read; the line of the count first, in the middle, last and missing |
| `main` | `main()` with every kind of file | 84k | every pair of options besides their defaults, with values below, at and above the share of the counter of G; four inputs, with an empty G and without input variables among them; a small loop, since `count` has the large one |
| `parser` | every file | 113k | up to four of 21 lines that are right, wrong, cut or empty: a header, both quantifiers and a clause fit in, in every order, as do two headers |
| `weight`, `tolerances` | two statements about options | | violated |

`MaxIteration` bounds the loop in `SklFC`; the runs' thresholds are passed
before it except in `lost_logs`, where samples may add nothing for ever
(`Terminates` is not asked there), and `Stopped` lets such a behaviour stutter.
Deadlock is checked in all runs: a state in which the program is stuck is an
error, the end of the process is the actions `Stopped`, `Finished` and `Done`.

Fairness. `count()` is sequential and its oracles always answer: weak fairness
of `Next` in `SklFC`. In `Threads` the operating system schedules each thread
that can run: weak fairness of the main thread, and of each sampler and counter.
In `GanakCall` the parent and the child up to `exec` are scheduled; nothing is
asked of Ganak, for which the code sets no limit (the alarm of line 463 is
commented out). `HangsOnlyWithGanak` holds without more: the call ends, or stays
in `read()` with a Ganak that is alive and silent. `CallEnds` has the fairness of
the child as a hypothesis. `Parser` and `Main` are sequential: weak fairness of
their next-state relations.

### What the code does otherwise than it says

* `error_limit`: `--max-error-logcounter` is the "maximum error limit allowed to
  logcounter" (`main.cpp:188`), but a larger error passes whenever count / s2size
  is below 35 (line 702). With the default limit every error that fails the
  first comparison passes the second: the check can never refuse a result
  (`NeverRefused`).
* `threads_usable`: with two threads or more the program always ends in
  `std::terminate()` (lines 791-794); `NeverAnswers` and its theorem say that no
  schedule avoids it.
* `undeclared`: the quantifier lines are not checked against the header
  (`dimacsparser.h:454` and `:477`), so the "new" variables of
  `skolemfc-int.cpp:103` may not be new.
* `weight`: `--delta-fc` and `--epsilon-fc` are the "weightage" of tolerance and
  error "allowed for function counter" (`main.cpp:172` and `:176`), but
  `set_constants()` sets `epsilon_f` and `delta_f` anew with the fixed weights 0.6
  and 0.5 (lines 99 and 100) before the threshold is made of them. (`delta_c`
  keeps the weight given: with a small `--delta-fc` the two shares exceed
  `--delta`, which is why `ConfidenceBudget` asks for 0.5 or more.)
* `tolerances`: epsilon and delta are said to be configurable (`README.md:65`), but
  with an approximate count of G `--epsilon 0.08` or less aborts in the assertion
  of line 1046 and `--delta 0.08` or less ends in a SIGFPE in line 102.

Not runs, since no statement of the repository is contradicted plainly enough:

* The default seed is 0 (`main.cpp:78`), and with it all batches have seed 0;
  `FreshSeeds` says that this is so for the seed 0 and, with the hypothesis of
  `SeedsCorrect`, for no other. With threads all samplers get seed 0 whatever `--seed` is
  (`SamplersDrawOneStream`).
* The temporary file of a Ganak call stays on the paths of lines 435 and 500.
* With `--count-unsat` and `--exact-f 0` an overcount of F makes Est0, and with
  an empty G the count printed, negative.
* For a file without input variables there is nothing to project on, and the
  counters count all models (lines 395 and 820): of F = y1 or y2 there are 3, so
  that Est0 is (1 - 3) * 2 = -4, and of its G there are 10, where |S2| is 1.
  QDIMACS allows such files and the parser takes them.
* `--delta` is not limited: above 4 the threshold is negative, the loop is not
  entered, and thresh / iteration (line 694) divides by 0.
* `skolemcount.sh` calls the creator with `-x`, which makes it write
  `sample_F2_<file>_gpmc.cnf` (line 78), and then enumerates the models of
  `sample_F2_<file>.cnf`, two of them at most (line 95).

## Proofs

TLAPS proves the following for all values of the constants that the modules'
assumptions allow. TLC checks the same formulas on the instances above. The
assumptions on constants say what the code's types say, besides:

* `SizeAssumption` (`SklFC`): the inputs are `Problems`. `EstimatorAssumptionsHold`
  proves it of every well-formed file.
* `ThresholdAssumption` (`SklFC`): the threshold is not negative, which leaves out
  `--delta` above 4.
* `LineAssumption` (`GanakCall`): the line with the count is its two pieces in a
  row, so that a Ganak that prints all of its output prints the whole number.
* `ParserAssumption`: what ends a line is not within it. `BoundsAssumption` is
  above; only `SizesCorrect` and `ReadingCorrect` use it.
* Some theorems have hypotheses of their own, given with them. The constants of
  the runs `count`, `formula` and `main` satisfy them; `lost_logs`, where
  everything wraps after five iterations, goes beyond those on `Word`.

### The estimator, `SklFC_proofs`

* `TypeCorrect`: the types. `PoolCorrect` needs them and the hypothesis
  `MaxIteration < Word`, that there are fewer than 2^32 iterations.
* `PoolCorrect`: `PoolInv` is inductive. Its core is that the samples in the pool
  are numbered from `sample_clearance_iteration` on and that `iteration` is
  within them or at their end. That alone does not give the safety of the
  unchecked index: the refill guard lets a dry pool pass when `iteration` is 0
  or 1. The invariant therefore also says that the first batch has at least two
  samples and that no refill happens at iteration 1.
* `LongRunCorrect`: what is left of it after any number of iterations, if a batch
  on top of the threshold is below 2^32 (`IndexFits`). The clearance then is
  that of the last refill modulo 2^32, the pool holds the last samples of the
  stream, and the index, a difference of two remainders, is that of the
  iterations (`ModDifference`). A pool may now be taken to be dry when it is not:
  samples are left out, but none is read beyond the end and none counted again.
* `NeverUndefinedWithS2`: from it, with `TrapFpe`: nothing is read out of bounds
  when some input has two outputs.
* `CountedOnce`: `SamplesNeverReused`, which is about every iteration: the sample it
  counts was produced after that of the iteration before. So no sample is counted
  twice, at once or later.
* `LoopAdvances`: with logarithms above 0 the total is at least the iteration, so
  that there are at most `thresh` + 1 iterations, and every step of `count()`
  makes a measure smaller: the iterations to come, the functions to come in this
  one, the samples to come in this batch.
* `ControlCorrect`, `Refinement`: the total has passed the threshold exactly when
  the loop is left, so that every step of `SklFC` is a step of `StoppingRule` or
  leaves its variables alone.
* `EstimateCorrect`: when all logarithms are numbers, the total lies between the
  products of the iteration with the smallest and the largest one, which bounds
  the estimate.
* `UndefinedAtZero`: without traps, whatever the logarithms, and again under
  `IndexFits`: a sample is only
  there when some input has two outputs, and nothing is counted before the
  first; what is undefined then has a total of 0.
* `DivisorsCorrect`, `SignalCorrect`, `RefusalCorrect`: every sample is a model of G,
  so F has two models under it or more and its logarithm is above 0
  (`SampleLogs` without 0, as in `count`). `DivisorInv` says which divisor is above 0
  in which function: what is left to be 0 is the divisor of an overcounted F, and
  the logarithm of an empty G without input variables.
  `RefusalCorrect` has the hypothesis that the limit is at least `LogEpsC /
  ApproxThreshold`, as the default 0.1 is (1.73 / 35): then a count that the second
  comparison does not let through is not stopped by the first.
* `SeedsCorrect`: the seed of a batch is the product of `--seed` and the iteration,
  in 32 bits. `SeedInv` says that each seed so far is that of an iteration up to
  the last refill, which is below the current one, and that no two are the same.
  The product may wrap, as it does in `count`; the hypothesis is that no multiple
  of `--seed` by an iteration is a multiple of 2^32. An odd one has none below 2^32
  iterations, and 2^a times an odd one none below 2^(32 - a).

### The threads, `Threads_proofs`

* `JoinCorrect`: an inductive invariant on the thread objects: what was joined
  has ended; when the counters are started, the first object in `threads` has
  been joined already, or is the first counter, so that the second turn of the
  loop is never completed.
* `NoAnswer`, `CountersInTurn`, `Settled` follow. `PartitionCorrect` is arithmetic
  on the cuts, for every number of samples and of threads.
* `DataCorrect`: `DataInv` bounds what each sampler has delivered and each counter
  counted. `ThreadsTypeCorrect` and `OneStream` follow: the pool may lose samples
  to the race and hold others twice, but a number beyond what one sampler
  delivers is never in it, so as many threads bring no more samples than one.
* `EachWaitEnds`: whenever the main thread waits in `join()`, the thread it waits
  for has been started, is within its part, and can take its next step
  (`NobodyWaitsInVain`).

### The call of Ganak, `GanakCall_proofs`

`CallCorrect`: `CallInv` is inductive. It follows three things through the call: the
child (`ChildInv`: who holds the pipe, and that nothing is parsed before it is
reaped), the end of the output (`EndInv`: an empty pipe is taken for the end only
when nobody can write to it), and the stream (`StreamInv`: what has been read, what
is in the pipe and what Ganak has still to print are, in this order, one of its
outputs, or the beginning of one if it was killed). The properties follow:
`CallTypeCorrect`, `OutputCorrect`, `ChildReaped`, `FileKept` (the file is there as long
as Ganak may open it), and `OracleCorrect`, the implementation of `CountOracle`, for
pipes and reads of any size.

`CallAdvances`: the parent never waits except in `read()`, for a child that has not
ended and does not wait for the parent, and every step of either takes the call
nearer to its end. What can make it hang is Ganak alone.

### The formula, `SklFCInt_proofs`, `SkolemCount_proofs` and `Baseline_proofs`

* `FormulaTypeCorrect`, `FormulaInvariant`: what reading a well-formed file keeps.
* `NewVariables`: the copies and auxiliary variables are new.
* `GCorrect`: soundness (a model of G is two models of F that agree on X) and
  completeness (two such models make a model of G), for formulas of any size.
* `SkolemCountCorrect`, for well-formed files with an input variable: the product that the program
  estimates, 2^|Y| for each input of S0 and the number of outputs for each of S2,
  is the number of Skolem functions. A function is a choice of one of the
  permitted outputs at each input, so functions over a set with one input more
  are pairs, and their number is multiplied; an input of S1 multiplies it by 1.
  The induction over the inputs has no induction theorem to rest on: it takes a
  smallest size for which the product is wrong, and follows the order in which the
  fold takes its elements.
* `EstimatorAssumptionsHold`: every well-formed file, with input variables or
  without, gives one of the `Problems` that `SklFC` takes its inputs from: the sizes
  of S0, S1 and S2 add up to 2^|X|, what is counted of F and of G (`Counted`) is 0 only
  where there is no model, and for files with an input variable it is |S1| + |S2|
  and |S2|. And every input that G can deliver as a sample has two outputs or more:
  the logarithms above 0 that several theorems of `SklFC_proofs` ask for are those
  of every exact count.
* `BaselineCorrect`, for well-formed files: the same two halves for the other G,
  whose copies are numbered by rank. `Ranks` is the lemma that takes the place of
  the places in the `e` line: ranks are distinct and below the number of
  variables of Y.

### The parser, `Parser_proofs`

Three inductive invariants, each resting on the one before.

* `PlacesCorrect`: types, and where the parser is: what is left of the current line
  is a suffix of it, what has been read of it is what the handler it is in
  accepts, and every line ends where it says. `ParserTypeCorrect` follows.
* `MeaningCorrect`: the problem is what the lines that have been dealt with say,
  together with the part of the current line that has been read (`MeaningInv`),
  and a file is rejected only for a line that no rule of the grammar allows
  (`RejectInv`). The lemmas under it say what one line more adds to `Grammatical`,
  `DeclaredAbove`, `Named` and `ClausesOf`; `Named` is a concatenation, made by a
  fold, and `FlattenIs` states what a fold over a sequence with one element more
  is. `ParsedAsWritten` follows: `ParseCorrect` for files of any number of lines of
  any length.
* `SizesCorrect`: what has been read is within the bounds of `SklFCInt`.
  `ReadingCorrect` follows: every step of the parser is a step of `SklFCInt` or
  leaves its problem alone.

`ParserAdvances` rests on the first: no handler looks past the end of its line, and
every step leaves fewer lines, or handlers, or tokens of the line to come.

### The settings, `Main_proofs`

`SettingTypesCorrect` gives the types and the place among the calls, which are nine
in one order. `SettingsConfigured`: after each call the members it and the calls
before it have set are the fractions of the command line that they should be
(`Configured`). It follows the members from setter to setter, since each
multiplies what an earlier one has left. From it follow `MainTypeCorrect`, `ToleranceCorrect`,
`ErrorBudgetCorrect` and `ConfidenceBudgetCorrect`, which are arithmetic of fractions
for any percents.

`EstimatorRuns` is the refinement `RunsEstimator`: `SettingsMade` follows the options
of `SklFC` through the setters, and once they are complete every step of `count()` is
one of `SklFC` with the settings of the command line. (Its hypothesis is that
`OptionSet` has the settings that `CommandLines` can ask for.) So the theorems about
`SklFC` are theorems about the program: `ProgramDefined` is `NeverUndefinedWithS2`
for every command line, taken from the instance `Proved` of `SklFC_proofs`.

### Only model-checked

* Liveness (`Terminates`, `AlwaysFails`, `CallEnds`, `HangsOnlyWithGanak`,
  `ParsingEnds`, `DefaultsPrint`), since fairness and ENABLED are outside this
  prover. What is proved of it is the safety half: that every step advances
  (`LoopAdvances`, `CallAdvances`, `ParserAdvances`) and that nobody waits for what
  cannot happen (`EachWaitEnds`, `CallAdvances`). That a step is taken again and
  again is left to TLC.
* What is lost past 2^32 iterations: `PoolInv`, `ImplementsStoppingRule` and
  `FreshSeeds` are false there (a refill that comes too early leaves samples out,
  and seeds repeat), so `PoolCorrect`, `Refinement` and `SeedsCorrect` keep the
  hypothesis `MaxIteration < Word`.

## Not modelled

Probabilities: that the answer is within epsilon with probability 1 - delta is
about distributions, not states; nor the shares of `delta_c` that the samples are
counted with (lines 902-912), which are real numbers: when large counts come
first they add up to more than `delta_c`. The numerical values of thresholds. Log
output and progress (`show_count`, `get_progress`, `get_current_estimate`). The
external solvers, beyond what they may answer. The characters of a token, and
non-strict headers, offsets and `debugLib` of the parser, which the program does
not use. What the shell script `skolemcount.sh` does with files and counters. Time
measurement, version strings, build scripts, `test.cpp`.

## State of the work

Every invariant, action property and refinement that a run checks has its theorem;
only liveness is left to TLC. Components are joined by refinement or by a theorem
that one establishes what the next assumes: `Parser` and `SklFCInt`
(`ReadingCorrect`), `SklFCInt` and `SklFC` (`EstimatorAssumptionsHold`), `GanakCall`
and the counts of `SklFC` (`OracleCorrect`), `Main` and `SklFC` (`EstimatorRuns`).
What could be added:

1. `Main` with `Threads` in place of the hand-over, so that a command line with
   `--threads` is followed to its `std::terminate()`.
2. The samples of `SklFC` as inputs of a formula, with the count of each, so that
   the estimate is compared with `SkolemFunctions` itself.
