---------------------------- MODULE StoppingRule ----------------------------
(***************************************************************************)
(* What the estimating loop of SkolemFC promises, without the sampler, the *)
(* batches or the index arithmetic.  The rule looks at an unbounded stream *)
(* of samples 1, 2, 3, ...  It reads them one at a time, in order, adds    *)
(* the logarithm of each one's count to a total, and answers as soon as    *)
(* the total has passed the threshold; its estimate is                     *)
(* Threshold / drawn.  Estimating may fail at any time instead of          *)
(* answering, and there may be nothing to estimate (no input has two       *)
(* outputs), in which case nothing is read.                                *)
(***************************************************************************)
EXTENDS Integers

CONSTANTS
  Threshold,   \* the total at which the rule stops
  Logs         \* the logarithms one sample may contribute

VARIABLES
  drawn,       \* how many samples have been read
  total,       \* the sum of their logarithms
  latest,      \* the number, in the stream, of the last sample read
  phase        \* "drawing", or how the estimation ended

ruleVars == <<drawn, total, latest, phase>>

RuleInit ==
  /\ drawn = 0
  /\ total = 0
  /\ latest = 0
  /\ phase = "drawing"

\* The next sample of the stream is read: no sample is read twice and none is
\* left out.
Draw ==
  /\ phase = "drawing"
  /\ total <= Threshold
  /\ drawn' = drawn + 1
  /\ latest' = drawn + 1
  /\ \E z \in Logs : total' = total + z
  /\ UNCHANGED phase

Answer ==
  /\ phase = "drawing"
  /\ total > Threshold
  /\ phase' = "answered"
  /\ UNCHANGED <<drawn, total, latest>>

NothingToEstimate ==
  /\ phase = "drawing"
  /\ drawn = 0
  /\ phase' = "empty"
  /\ UNCHANGED <<drawn, total, latest>>

Fail ==
  /\ phase = "drawing"
  /\ phase' = "failed"
  /\ UNCHANGED <<drawn, total, latest>>

RuleNext == Draw \/ Answer \/ NothingToEstimate \/ Fail

RuleSpec == RuleInit /\ [][RuleNext]_ruleVars
=============================================================================
