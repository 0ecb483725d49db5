---------------------------- MODULE SklFC_proofs ----------------------------
(***************************************************************************)
(* Theorems about SklFC, for every value of its constants: types, the pool *)
(* of samples and the unchecked index into it, the bounds of the estimate, *)
(* the refinement of the stopping rule, the divisions, the final check on  *)
(* the error, and the seeds of the batches.                                *)
(***************************************************************************)
EXTENDS SklFC, TLAPS

(***************************************************************************)
(* Arithmetic.                                                             *)
(***************************************************************************)

\* A remainder is in the range of its type.
LEMMA ModRange ==
  ASSUME NEW a \in Int, NEW w \in Nat, w > 0
  PROVE  a % w \in 0 .. w - 1
  OBVIOUS

\* A number in the range of uint32_t is its own remainder.
LEMMA ModSmall ==
  ASSUME NEW w \in Nat, NEW a \in 0 .. w - 1
  PROVE  a % w = a
  OBVIOUS

\* A quotient of natural numbers is one.
LEMMA DivNat ==
  ASSUME NEW a \in Nat, NEW b \in Nat, b > 0
  PROVE  a \div b \in Nat
  OBVIOUS

\* A positive factor makes a product at least as large as its other factor.
LEMMA TimesAtLeast ==
  ASSUME NEW a \in Nat, NEW b \in Nat, a >= 1
  PROVE  a * b >= b
<1>1. (a - 1) * b \in Nat
  OBVIOUS
<1>2. (a - 1) * b = a * b - b
  OBVIOUS
<1> QED
  BY <1>1, <1>2

\* A sum of natural numbers is not negative.
LEMMA SumNat ==
  ASSUME NEW a \in Nat, NEW b \in Nat
  PROVE  0 <= a + b
  OBVIOUS

\* A product of natural numbers is one.
LEMMA TimesNat ==
  ASSUME NEW a \in Nat, NEW b \in Nat
  PROVE  a * b \in Nat
  OBVIOUS

(***************************************************************************)
(* Types.                                                                  *)
(***************************************************************************)

\* The numbers of valuations of X, of models and of each kind of valuation.
LEMMA SizesNat ==
  ASSUME NEW i \in Inputs
  PROVE  2^i.forall \in Nat /\ i.f \in Nat /\ i.g \in Nat /\ i.s2 \in Nat
<1>1. i \in Problems
  BY SizeAssumption DEF SizeAssumption
<1>2. i \in [forall : Nat, s0 : Nat, s1 : Nat, s2 : Nat, f : Nat, g : Nat]
      /\ i.s0 + i.s1 + i.s2 = 2^i.forall
  BY <1>1 DEF Problems
<1>3. i.s0 \in Nat /\ i.s1 \in Nat /\ i.s2 \in Nat /\ i.f \in Nat /\ i.g \in Nat
  BY <1>2
<1>4. i.s0 + i.s1 + i.s2 \in Nat
  BY <1>3
<1> QED
  BY <1>2, <1>3, <1>4

\* The assumptions on the constants, in one list.
LEMMA Constants ==
  /\ NumExists \in Nat
  /\ \A i \in Inputs : i.s2 \in Nat
  /\ SampleLogs \subseteq Nat \cup {NegInf} /\ PairLogs \subseteq Nat
  /\ NegInf \notin Nat
  /\ ThreshPerVar \in Nat /\ MultiSample \in Nat /\ MultiSample >= 2
  /\ MaxBatch \in Nat /\ MaxBatch >= 1 /\ Overshoot \in Nat
  /\ Word \in Nat /\ Word > 1
  /\ OptionSet \subseteq Options
  /\ Tolerance \in Nat \ {0} /\ WrongCounts \subseteq Nat
  /\ LogEpsC \in Nat /\ MaxError \in Nat
  /\ ApproxThreshold \in Nat /\ TrapFpe \in BOOLEAN /\ MaxIteration \in Nat
<1>1. \A i \in Inputs : i.s2 \in Nat
  BY SizesNat
<1> QED
  BY <1>1, SizeAssumption, LogAssumption, ThresholdAssumption, BatchAssumption,
     WordAssumption, SettingAssumption
  DEF SizeAssumption, LogAssumption, ThresholdAssumption, BatchAssumption,
      WordAssumption, SettingAssumption

\* The threshold of set_constants() is a natural number here.
LEMMA ThreshNat == thresh \in Nat
  BY Constants, TimesNat DEF thresh

\* What the counters report is a natural number.
LEMMA OracleCountsNat ==
  ASSUME NEW exact \in BOOLEAN, NEW k \in Nat
  PROVE  OracleCounts(exact, k) \subseteq Nat
<1>1. Tolerance * k \in Nat
  BY Constants, TimesNat
<1>2. ApproxCounts(k) \subseteq Nat
  BY <1>1 DEF ApproxCounts
<1>3. WrongCounts \subseteq Nat
  BY Constants
<1>4. {k, 1} \cup WrongCounts \subseteq Nat
  BY <1>3
<1>5. OracleCounts(exact, k) \in {{k, 1} \cup WrongCounts, ApproxCounts(k)}
  BY Zenon DEF OracleCounts
<1> QED
  BY <1>2, <1>4, <1>5, Zenon

\* The refill computes a number of samples, at least the batch unit.
LEMMA PredictedNat ==
  ASSUME TypeOK, log_skolemcount # 0
  PROVE  PredictedIterations \in Nat /\ PredictedIterations >= MultiSample
<1>1. thresh * iteration \in Nat
  BY ThreshNat, TimesNat DEF TypeOK
<1>2. ASSUME NEW x \in Nat
      PROVE  x \div log_skolemcount \in Nat
  <2>1. log_skolemcount \in Nat /\ log_skolemcount > 0
    BY DEF TypeOK
  <2> QED
    BY <2>1, DivNat
<1> QED
  BY <1>1, <1>2, Constants DEF PredictedIterations

\* get_sample_num_est() rounds up past a multiple of the unit: it asks for at
\* least two samples.
LEMMA FirstBatch ==
  ASSUME NEW l \in FirstLogs, l # 0
  PROVE  SampleNum(l) \in Nat /\ SampleNum(l) >= 2
<1> DEFINE quotient == IF l = NegInf THEN 0 ELSE thresh \div l
<1>1. quotient \in Nat
  <2>1. l = NegInf \/ (l \in Nat /\ l > 0)
    BY Constants DEF FirstLogs
  <2> QED
    BY <2>1, ThreshNat, DivNat
<1>2. ASSUME NEW q \in Nat
      PROVE  (q + MultiSample) \div MultiSample \in Nat
             /\ (q + MultiSample) \div MultiSample >= 1
  BY Constants
<1>3. ASSUME NEW r \in Nat, r >= 1
      PROVE  r * MultiSample \in Nat /\ r * MultiSample >= 2
  <2>1. MultiSample \in Nat /\ MultiSample >= 2
    BY Constants
  <2>2. r * MultiSample \in Nat
    BY <2>1, TimesNat
  <2>3. r * MultiSample >= MultiSample
    BY <2>1, <1>3, TimesAtLeast
  <2> QED
    BY <2>1, <2>2, <2>3
<1>4. SampleNum(l) = ((quotient + MultiSample) \div MultiSample) * MultiSample
  BY DEF SampleNum
<1> HIDE DEF quotient
<1> QED
  BY <1>1, <1>2, <1>3, <1>4

\* The seed of a batch fits set_seed().
LEMMA SeedInRange ==
  ASSUME TypeOK, NEW s \in Nat
  PROVE  SeedFor(s) \in 0 .. Word - 1
<1>1. iteration * s \in Nat
  BY TimesNat DEF TypeOK
<1> QED
  BY <1>1, ModRange, Constants DEF SeedFor

\* The unsigned subtraction of create_formula_from_sample() is not negative.
LEMMA IndexNat ==
  ASSUME TypeOK
  PROVE  SampleIndex \in Nat
<1>1. iteration % Word \in 0 .. Word - 1
  BY ModRange, Constants DEF TypeOK
<1>2. (iteration % Word) - sample_clearance_iteration \in Int
  BY <1>1, Constants DEF TypeOK
<1> QED
  BY <1>2, ModRange, Constants DEF SampleIndex

\* Every state has its type.
THEOREM TypeCorrect == Spec => []TypeOK
<1> USE Constants
<1>1. Init => TypeOK
  BY DEF Init, TypeOK, Locations
<1>2. TypeOK /\ [Next]_vars => TypeOK'
  <2> SUFFICES ASSUME TypeOK, [Next]_vars
               PROVE  TypeOK'
    OBVIOUS
  <2>1. CASE GetEst0
    <3>1. \A c \in OracleCounts(options.exactcount_s0, input.f) :
            (2^input.forall - c) * NumExists \in Int
      <4>1. /\ options.exactcount_s0 \in BOOLEAN
            /\ input.f \in Nat /\ 2^input.forall \in Nat
        BY SizesNat DEF TypeOK, Options
      <4>2. OracleCounts(options.exactcount_s0, input.f) \subseteq Nat
        BY <4>1, OracleCountsNat
      <4> QED
        BY <4>1, <4>2
    <3>2. est0' \in Int
      BY <2>1, <3>1 DEF GetEst0
    <3> QED
      BY <2>1, <3>2 DEF GetEst0, TypeOK, Locations, setup, pool, rule
  <2>2. CASE GetGCount
    <3>1. OracleCounts(options.exactcount_s2, input.g) \subseteq Nat
      <4>1. options.exactcount_s2 \in BOOLEAN /\ input.g \in Nat
        BY SizesNat DEF TypeOK, Options
      <4> QED
        BY <4>1, OracleCountsNat
    <3>2. s2size' \in Nat /\ okay' \in BOOLEAN /\ pc' \in Locations
      BY <2>2, <3>1 DEF GetGCount, Locations
    <3> QED
      BY <2>2, <3>2 DEF GetGCount, TypeOK, setup, pool, rule
  <2>3. CASE GanakExit
    BY <2>3 DEF GanakExit, TypeOK, Locations, Ended, setup, counts, pool, rule
  <2>4. CASE GetSampleNumEst
    <3>1. pc' \in Locations
      BY <2>4 DEF GetSampleNumEst, DivideByZero, TypeOK, Locations, Ended
    <3>2. \A l \in FirstLogs : l # 0 => SampleNum(l) \in Nat
      BY FirstBatch
    <3>3. sample_num_est' \in Nat
      BY <2>4, <3>2 DEF GetSampleNumEst, TypeOK
    <3> QED
      BY <2>4, <3>1, <3>3 DEF GetSampleNumEst, TypeOK, setup, counts, rule
  <2>5. CASE StartSampling
    <3>1. SeedFor(1) \in 0 .. Word - 1
      BY SeedInRange
    <3>2. seeds' \in Seq(0 .. Word - 1)
      BY <2>5, <3>1 DEF StartSampling, TypeOK
    <3> QED
      BY <2>5, <3>2 DEF StartSampling, TypeOK, Locations, setup, counts, rule
  <2>6. CASE UnigenCallback
    BY <2>6 DEF UnigenCallback, TypeOK, setup, counts, rule
  <2>7. CASE SamplingReturns
    BY <2>7 DEF SamplingReturns, TypeOK, Locations, setup, counts, pool, rule
  <2>8. CASE Refill
    <3>1. CASE log_skolemcount = 0
      BY <2>8, <3>1
      DEF Refill, DivideByZero, TypeOK, Locations, Ended, setup, counts, pool, rule
    <3>2. CASE log_skolemcount # 0
      <4>1. SeedFor(options.seed) \in 0 .. Word - 1
        <5>1. options.seed \in Nat
          BY Constants DEF TypeOK, Options
        <5> QED
          BY <5>1, SeedInRange
      <4>2. seeds' \in Seq(0 .. Word - 1)
        <5>1. seeds' = Append(seeds, SeedFor(options.seed))
          BY <2>8, <3>2 DEF Refill
        <5> QED
          BY <4>1, <5>1 DEF TypeOK
      <4>3. sample_clearance_iteration' \in 0 .. Word - 1
        BY <2>8, <3>2, ModRange DEF Refill, TypeOK
      <4>4. requested' \in Nat /\ sample_num_est' \in Nat
        BY <2>8, <3>2, PredictedNat DEF Refill
      <4> QED
        BY <2>8, <3>2, <4>2, <4>3, <4>4
        DEF Refill, TypeOK, Locations, setup, counts, rule
    <3> QED
      BY <3>1, <3>2
  <2>9. CASE CountSample
    <3>1. samples_from_unisamp[SampleIndex + 1] \in Nat
      BY <2>9, IndexNat DEF CountSample, TypeOK
    <3>2. PICK l \in SampleLogs :
            IF l = NegInf /\ TrapFpe
            THEN pc' = "sigfpe" /\ UNCHANGED rule
            ELSE /\ iteration' = iteration + 1
                 /\ sample' = samples_from_unisamp[SampleIndex + 1]
                 /\ log_skolemcount' = IF l = NegInf THEN log_skolemcount
                                                     ELSE log_skolemcount + l
                 /\ pc' = "while"
      BY <2>9 DEF CountSample
    <3>3. /\ iteration' \in 0 .. MaxIteration /\ sample' \in Nat
          /\ log_skolemcount' \in Nat /\ pc' \in Locations
      <4>0. /\ iteration < MaxIteration /\ iteration \in 0 .. MaxIteration
            /\ sample \in Nat /\ log_skolemcount \in Nat
        BY <2>9 DEF CountSample, TypeOK
      <4>1. CASE l = NegInf
        <5>1. CASE TrapFpe
          BY <3>2, <4>0, <4>1, <5>1 DEF Locations, Ended, rule
        <5>2. CASE ~TrapFpe
          BY <3>1, <3>2, <4>0, <4>1, <5>2 DEF Locations
        <5> QED
          BY <5>1, <5>2
      <4>2. CASE l # NegInf
        <5>1. l \in Nat
          BY <4>2
        <5> QED
          BY <2>9, <3>1, <3>2, <4>2, <5>1 DEF CountSample, TypeOK, Locations
      <4> QED
        BY <4>1, <4>2
    <3> QED
      BY <2>9, <3>3 DEF CountSample, TypeOK, setup, counts, pool
  <2>10. CASE ReadPastEnd
    BY <2>10 DEF ReadPastEnd, TypeOK, Locations, Ended, setup, counts, pool, rule
  <2>11. CASE LeaveLoop
    BY <2>11 DEF LeaveLoop, TypeOK, Locations, setup, counts, pool, rule
  <2>12. CASE Finish
    <3>1. Estimate \in [num : Int, den : Nat]
      <4>1. est0 * iteration + thresh * s2size \in Int
        BY ThreshNat DEF TypeOK
      <4> QED
        BY <4>1 DEF Estimate, TypeOK
    <3>2. result' \in [num : Int, den : Nat] /\ pc' \in Locations
      BY <2>12, <3>1 DEF Finish, TypeOK, Locations, Ended
    <3> QED
      BY <2>12, <3>2 DEF Finish, TypeOK, setup, counts, pool, rule
  <2>13. CASE Stopped \/ UNCHANGED vars
    BY <2>13 DEF Stopped, TypeOK, vars, setup, counts, pool, rule
  <2> QED
    BY <2>1, <2>2, <2>3, <2>4, <2>5, <2>6, <2>7, <2>8, <2>9, <2>10, <2>11,
       <2>12, <2>13 DEF Next
<1> QED
  BY <1>1, <1>2, PTL DEF Spec

(***************************************************************************)
(* The pool, short of 2^32 iterations.                                     *)
(***************************************************************************)

\* Short of 2^32 iterations the index is the distance from the last refill.
LEMMA IndexWithoutWrap ==
  ASSUME TypeOK, MaxIteration < Word, sample_clearance_iteration <= iteration
  PROVE  SampleIndex = iteration - sample_clearance_iteration
<1>1. iteration \in 0 .. Word - 1 /\ sample_clearance_iteration \in Nat
  BY Constants DEF TypeOK
<1>2. iteration % Word = iteration
  BY <1>1, ModSmall, Constants
<1>3. iteration - sample_clearance_iteration \in 0 .. Word - 1
  BY <1>1, Constants
<1> QED
  BY <1>2, <1>3, ModSmall, Constants DEF SampleIndex

\* An index within the pool is that of the next sample of the stream.
LEMMA NextIsCounted ==
  ASSUME TypeOK, PoolInv, MaxIteration < Word, AboutToCount,
         SampleIndex < Len(samples_from_unisamp)
  PROVE  samples_from_unisamp[SampleIndex + 1] = iteration + 1
<1>1. /\ iteration \in Nat /\ sample_clearance_iteration \in Nat
      /\ Len(samples_from_unisamp) \in Nat
  BY Constants DEF TypeOK
<1>2. SampleIndex = iteration - sample_clearance_iteration
  BY IndexWithoutWrap DEF PoolInv
<1>3. SampleIndex + 1 \in 1 .. Len(samples_from_unisamp)
  BY <1>1, <1>2 DEF PoolInv
<1>4. samples_from_unisamp[SampleIndex + 1]
        = sample_clearance_iteration + (SampleIndex + 1)
  BY <1>3 DEF PoolInv
<1> QED
  BY <1>1, <1>2, <1>4

\* The pool invariant holds: in particular the loop counts the samples of the
\* sampler's stream one by one, none twice and none left out.
THEOREM PoolCorrect ==
  ASSUME MaxIteration < Word
  PROVE  Spec => []PoolInv
<1> USE Constants
<1>1. Init => PoolInv
  BY DEF Init, PoolInv
<1>2. TypeOK /\ TypeOK' /\ PoolInv /\ [Next]_vars => PoolInv'
  <2> SUFFICES ASSUME TypeOK, TypeOK', PoolInv, [Next]_vars
               PROVE  PoolInv'
    OBVIOUS
  <2>0. /\ iteration \in 0 .. Word - 1 /\ sample_clearance_iteration \in Nat
        /\ generated \in Nat /\ requested \in Nat
        /\ samples_from_unisamp \in Seq(Nat) /\ Len(samples_from_unisamp) \in Nat
    <3>1. iteration \in 0 .. MaxIteration /\ samples_from_unisamp \in Seq(Nat)
      BY DEF TypeOK
    <3>2. iteration \in 0 .. Word - 1
      BY <3>1
    <3>3. Len(samples_from_unisamp) \in Nat
      BY <3>1
    <3> QED
      BY <3>1, <3>2, <3>3 DEF TypeOK
  <2>1. CASE GetEst0
    BY <2>1 DEF GetEst0, PoolInv, setup, pool, rule
  <2>2. CASE GetGCount
    BY <2>2 DEF GetGCount, PoolInv, setup, pool, rule
  <2>3. CASE GanakExit
    BY <2>3 DEF GanakExit, PoolInv, setup, counts, pool, rule
  <2>4. CASE GetSampleNumEst
    <3>1. \A l \in FirstLogs : l # 0 => SampleNum(l) >= 2
      BY FirstBatch
    <3>2. pc' = "get_samples" => sample_num_est' >= 2
      BY <2>4, <3>1 DEF GetSampleNumEst, DivideByZero
    <3>3. pc' \in {"get_samples", "sigfpe", "undefined"}
      BY <2>4 DEF GetSampleNumEst, DivideByZero
    <3> QED
      BY <2>4, <3>2, <3>3 DEF GetSampleNumEst, PoolInv, setup, counts, rule
  <2>5. CASE StartSampling
    BY <2>5 DEF StartSampling, PoolInv, TypeOK, setup, counts, rule
  <2>6. CASE UnigenCallback
    <3>1. samples_from_unisamp' = Append(samples_from_unisamp, generated + 1)
      BY <2>6 DEF UnigenCallback
    <3>2. /\ Len(samples_from_unisamp') = Len(samples_from_unisamp) + 1
          /\ \A k \in 1 .. Len(samples_from_unisamp) :
               samples_from_unisamp'[k] = samples_from_unisamp[k]
          /\ samples_from_unisamp'[Len(samples_from_unisamp) + 1] = generated + 1
      BY <2>0, <3>1
    <3>3. \A k \in 1 .. Len(samples_from_unisamp') :
            samples_from_unisamp'[k] = sample_clearance_iteration' + k
      <4> SUFFICES ASSUME NEW k \in 1 .. Len(samples_from_unisamp')
                   PROVE  samples_from_unisamp'[k] = sample_clearance_iteration + k
        BY <2>6 DEF UnigenCallback
      <4>1. CASE k \in 1 .. Len(samples_from_unisamp)
        BY <3>2, <4>1 DEF PoolInv
      <4>2. CASE k = Len(samples_from_unisamp) + 1
        <5>1. generated = sample_clearance_iteration + Len(samples_from_unisamp)
          BY DEF PoolInv
        <5> QED
          BY <2>0, <3>2, <4>2, <5>1
      <4>3. k \in 1 .. Len(samples_from_unisamp) \/ k = Len(samples_from_unisamp) + 1
        <5>1. Len(samples_from_unisamp') = Len(samples_from_unisamp) + 1
          BY <3>2
        <5> QED
          BY <2>0, <5>1
      <4> QED
        BY <4>1, <4>2, <4>3
    <3>4. generated' = sample_clearance_iteration' + Len(samples_from_unisamp')
      BY <2>0, <2>6, <3>2 DEF UnigenCallback, PoolInv
    <3>5. /\ pc \in {"sampling", "resampling"} /\ pc' = pc /\ generated' = generated + 1
          /\ UNCHANGED <<iteration, sample, sample_clearance_iteration, requested>>
      BY <2>6 DEF UnigenCallback, rule
    <3> QED
      BY <2>0, <3>3, <3>4, <3>5 DEF PoolInv
  <2>7. CASE SamplingReturns
    <3>1. pc = "resampling" /\ input.s2 > 0 => generated > iteration
      BY <2>0, <2>7 DEF SamplingReturns, PoolInv
    <3>2. pc = "sampling" /\ input.s2 > 0 => generated >= 2
      BY <2>0, <2>7 DEF SamplingReturns, PoolInv
    <3> QED
      BY <2>7, <3>1, <3>2
      DEF SamplingReturns, PoolInv, TypeOK, setup, counts, pool, rule
  <2>8. CASE Refill
    <3>1. CASE log_skolemcount = 0
      BY <2>8, <3>1 DEF Refill, DivideByZero, PoolInv, setup, counts, pool, rule
    <3>2. CASE log_skolemcount # 0
      <4>1. requested' >= 1
        BY <2>8, <3>2, PredictedNat DEF Refill
      <4>2. iteration % Word = iteration
        BY <2>0, ModSmall
      <4>3. iteration = generated /\ iteration > 1
        BY <2>0, <2>8 DEF Refill, PoolIsDry, PoolInv
      <4>4. /\ samples_from_unisamp' = <<>> /\ sample_clearance_iteration' = iteration
            /\ pc' = "resampling"
            /\ UNCHANGED <<generated, iteration, sample>>
        BY <2>8, <3>2, <4>2 DEF Refill, rule
      <4>5. Len(samples_from_unisamp') = 0
        BY <4>4
      <4> QED
        BY <2>0, <4>1, <4>3, <4>4, <4>5 DEF PoolInv
    <3> QED
      BY <3>1, <3>2
  <2>9. CASE CountSample
    <3>1. CASE UNCHANGED rule /\ pc' = "sigfpe"
      BY <2>9, <3>1 DEF CountSample, PoolInv, setup, counts, pool, rule
    <3>2. CASE /\ iteration' = iteration + 1
               /\ sample' = samples_from_unisamp[SampleIndex + 1]
               /\ pc' = "while"
      <4>1. sample' = iteration'
        BY <2>9, <3>2, NextIsCounted DEF CountSample
      <4>2. iteration + 1 <= generated
        <5>1. SampleIndex = iteration - sample_clearance_iteration
          BY IndexWithoutWrap DEF PoolInv
        <5> QED
          BY <2>9, <5>1 DEF CountSample, PoolInv, TypeOK
      <4>3. sample_clearance_iteration = 0 /\ input.s2 > 0 => generated >= 2
        BY <2>9 DEF CountSample, AboutToCount, PoolInv, TypeOK
      <4> QED
        BY <2>9, <3>2, <4>1, <4>2, <4>3
        DEF CountSample, PoolInv, TypeOK, setup, counts, pool
    <3> QED
      BY <2>9, <3>1, <3>2 DEF CountSample
  <2>10. CASE ReadPastEnd
    BY <2>10 DEF ReadPastEnd, PoolInv, setup, counts, pool, rule
  <2>11. CASE LeaveLoop
    BY <2>11 DEF LeaveLoop, PoolInv, setup, counts, pool, rule
  <2>12. CASE Finish
    <3>1. pc' \in Ended
      BY <2>12 DEF Finish, Ended
    <3> QED
      BY <2>12, <3>1 DEF Finish, PoolInv, Ended, setup, counts, pool, rule
  <2>13. CASE Stopped \/ UNCHANGED vars
    BY <2>13 DEF Stopped, PoolInv, vars, setup, counts, pool, rule
  <2> QED
    BY <2>1, <2>2, <2>3, <2>4, <2>5, <2>6, <2>7, <2>8, <2>9, <2>10, <2>11,
       <2>12, <2>13 DEF Next
<1> QED
  BY <1>1, <1>2, TypeCorrect, PTL DEF Spec

\* No step changes the formula or the settings.
LEMMA InputFixed ==
  ASSUME [Next]_vars
  PROVE  UNCHANGED <<input, options>>
<1>1. CASE GetEst0 \/ GetGCount \/ GanakExit \/ GetSampleNumEst
  BY <1>1 DEF GetEst0, GetGCount, GanakExit, GetSampleNumEst, setup
<1>2. CASE StartSampling \/ UnigenCallback \/ SamplingReturns \/ Refill
  BY <1>2 DEF StartSampling, UnigenCallback, SamplingReturns, Refill, setup
<1>3. CASE CountSample \/ ReadPastEnd \/ LeaveLoop \/ Finish
  BY <1>3 DEF CountSample, ReadPastEnd, LeaveLoop, Finish, setup
<1>4. CASE Stopped \/ UNCHANGED vars
  BY <1>4 DEF Stopped, vars, setup
<1> QED
  BY <1>1, <1>2, <1>3, <1>4 DEF Next

(***************************************************************************)
(* The pool, for any number of iterations.                                 *)
(***************************************************************************)

\* The iterations or else the batches are within the range of uint32_t.
IndexFits == MaxIteration < Word \/ thresh + MultiSample + Overshoot <= Word

\* The pool when the last refill, or the start, came at iteration r: what it holds
\* are the last samples of the stream, and the loop has counted none beyond the
\* place where it stands.  Once the clearance has wrapped, the pool may be taken
\* to be dry when it is not: samples are then left out, never counted again.
PoolSince(r) ==
  /\ sample_clearance_iteration = r % Word
  /\ r # 1
  /\ iteration - r <= Len(samples_from_unisamp)
  /\ Len(samples_from_unisamp) <= generated
  /\ \A k \in 1 .. Len(samples_from_unisamp) :
       samples_from_unisamp[k] = generated - Len(samples_from_unisamp) + k
  /\ sample <= generated - Len(samples_from_unisamp) + (iteration - r)
  /\ generated = 0 => iteration = 0
  /\ pc \in {"get_est0", "get_g_count", "get_sample_num_est", "get_samples"} =>
       generated = 0
  /\ pc = "get_samples" => sample_num_est >= 2
  /\ pc = "sampling" => iteration = 0 /\ requested >= 2
  /\ pc \in {"resampling", "create"} => iteration = r /\ iteration > 1
  /\ pc = "resampling" => requested >= 1
  /\ pc = "create" /\ input.s2 > 0 => Len(samples_from_unisamp) >= 1
  /\ pc = "while" /\ input.s2 > 0 /\ r = 0 => Len(samples_from_unisamp) >= 2

\* When the first batch fits, so does every other.
FitInv ==
  thresh + MultiSample + Overshoot <= Word =>
    /\ Len(samples_from_unisamp) <= Word
    /\ requested + Overshoot <= Word
    /\ pc = "get_samples" => sample_num_est + Overshoot <= Word

LongRunInv == FitInv /\ \E r \in 0 .. iteration : PoolSince(r)

\* The difference of two remainders, in the same range, is that of the numbers.
LEMMA ModDifference ==
  ASSUME NEW w \in Nat, w > 0, NEW a \in Nat, NEW b \in Nat, b <= a, a - b < w
  PROVE  ((a % w) - (b % w)) % w = a - b
<1>1. PICK p \in Int, q \in Int : a % w = a - w * p /\ b % w = b - w * q
  <2>1. /\ a \div w \in Int /\ a = w * (a \div w) + (a % w)
        /\ b \div w \in Int /\ b = w * (b \div w) + (b % w)
    OBVIOUS
  <2>2. PICK p \in Int, q \in Int : p = a \div w /\ q = b \div w
    BY <2>1
  <2>3. a % w \in Int /\ b % w \in Int /\ w * p \in Int /\ w * q \in Int
    BY <2>2
  <2>4. a = w * p + (a % w) /\ b = w * q + (b % w)
    BY <2>1, <2>2
  <2>5. a % w = a - w * p /\ b % w = b - w * q
    BY <2>3, <2>4
  <2> QED
    BY <2>5
<1>2. PICK k \in Int : (a % w) - (b % w) = (a - b) + w * k
  <2>1. w * (q - p) = w * q - w * p /\ w * q \in Int /\ w * p \in Int
    OBVIOUS
  <2>2. PICK u \in Int, v \in Int : u = w * p /\ v = w * q
    BY <2>1
  <2>3. (a % w) - (b % w) = (a - b) + (v - u)
    BY <1>1, <2>2
  <2>4. (a % w) - (b % w) = (a - b) + w * (q - p)
    BY <2>1, <2>2, <2>3
  <2>5. q - p \in Int
    OBVIOUS
  <2> QED
    BY <2>4, <2>5, Zenon
<1>3. ASSUME NEW x \in 0 .. w - 1
      PROVE  (x + w * k) % w = x
  OBVIOUS
<1>4. a - b \in 0 .. w - 1
  OBVIOUS
<1> QED
  BY <1>2, <1>3, <1>4

\* A remainder is not above its number.
LEMMA ModBelow ==
  ASSUME NEW w \in Nat, w > 0, NEW a \in Nat
  PROVE  a % w \in Nat /\ a % w <= a
  OBVIOUS

\* A multiple of the unit, rounded down.
LEMMA DivTimes ==
  ASSUME NEW a \in Nat, NEW m \in Nat, m > 0
  PROVE  (a \div m) * m <= a
  OBVIOUS

\* A quotient is not above its dividend.
LEMMA DivBelow ==
  ASSUME NEW a \in Nat, NEW b \in Nat, b > 0
  PROVE  a \div b <= a
<1>1. a \div b \in Nat
  BY DivNat
<1>2. (a \div b) * b <= a
  BY DivTimes
<1>3. b * (a \div b) >= a \div b
  BY <1>1, TimesAtLeast
<1> QED
  BY <1>1, <1>2, <1>3

\* What get_sample_num_est() asks for is at most the threshold and one unit more.
LEMMA FirstBatchBound ==
  ASSUME NEW l \in FirstLogs, l # 0
  PROVE  SampleNum(l) <= thresh + MultiSample
<1> DEFINE quotient == IF l = NegInf THEN 0 ELSE thresh \div l
<1>1. quotient \in Nat /\ quotient <= thresh /\ thresh \in Nat
  <2>1. l = NegInf \/ (l \in Nat /\ l > 0)
    BY Constants DEF FirstLogs
  <2> QED
    BY <2>1, ThreshNat, DivNat, DivBelow
<1>2. MultiSample \in Nat /\ MultiSample > 0
  BY Constants
<1>3. ASSUME NEW q \in Nat, q <= thresh
      PROVE  ((q + MultiSample) \div MultiSample) * MultiSample <= thresh + MultiSample
  <2>1. q + MultiSample \in Nat
    BY <1>2
  <2>2. ASSUME NEW x \in Nat
        PROVE  (x \div MultiSample) * MultiSample <= x /\ x \div MultiSample \in Nat
    BY <1>2, DivTimes, DivNat
  <2>3. ASSUME NEW y \in Nat
        PROVE  y * MultiSample \in Nat
    BY <1>2
  <2> QED
    BY <1>1, <1>2, <1>3, <2>1, <2>2, <2>3
<1>4. SampleNum(l) = ((quotient + MultiSample) \div MultiSample) * MultiSample
  BY DEF SampleNum
<1> HIDE DEF quotient
<1> QED
  BY <1>1, <1>3, <1>4

\* A batch that is at most as large as one that fits.
LEMMA WithinBatch ==
  ASSUME NEW a \in Nat, NEW m \in Nat, NEW o \in Nat, NEW w \in Nat,
         a <= m, m + o <= w
  PROVE  a + o <= w
  OBVIOUS

\* Every batch fits when the first does.
LEMMA FitCorrect ==
  ASSUME TypeOK, TypeOK', FitInv, [Next]_vars
  PROVE  FitInv'
<1> USE Constants
<1>0. SUFFICES ASSUME thresh + MultiSample + Overshoot <= Word
               PROVE  /\ Len(samples_from_unisamp') <= Word
                      /\ requested' + Overshoot <= Word
                      /\ pc' = "get_samples" => sample_num_est' + Overshoot <= Word
  BY DEF FitInv, thresh
<1>1. /\ thresh \in Nat /\ requested \in Nat /\ Len(samples_from_unisamp) \in Nat
      /\ samples_from_unisamp \in Seq(Nat)
      /\ Len(samples_from_unisamp) <= Word /\ requested + Overshoot <= Word
      /\ pc = "get_samples" => sample_num_est + Overshoot <= Word
  BY <1>0, ThreshNat DEF FitInv, TypeOK
<1>2. CASE GetSampleNumEst
  <2>1. \A l \in FirstLogs : l # 0 => SampleNum(l) <= thresh + MultiSample
    BY FirstBatchBound
  <2>2. pc' = "get_samples" => sample_num_est' <= thresh + MultiSample
    <3>1. CASE options.static_samp /\ sample_num_est' = MultiSample
      BY <1>1, <3>1
    <3>2. ASSUME NEW l \in FirstLogs,
                 IF l = 0 \/ (l = NegInf /\ TrapFpe)
                 THEN DivideByZero /\ UNCHANGED sample_num_est
                 ELSE sample_num_est' = SampleNum(l) /\ pc' = "get_samples"
          PROVE  pc' = "get_samples" => sample_num_est' <= thresh + MultiSample
      <4>1. CASE l = 0 \/ (l = NegInf /\ TrapFpe)
        BY <3>2, <4>1 DEF DivideByZero
      <4>2. CASE ~(l = 0 \/ (l = NegInf /\ TrapFpe))
        BY <2>1, <3>2, <4>2
      <4> QED
        BY <4>1, <4>2
    <3>3. CASE pc' = "undefined"
      BY <3>3
    <3> HIDE DEF thresh
    <3> QED
      BY <1>2, <3>1, <3>2, <3>3 DEF GetSampleNumEst
  <2>3. sample_num_est' \in Nat
    BY DEF TypeOK
  <2> QED
    <3>1. UNCHANGED <<samples_from_unisamp, requested>>
      BY <1>2 DEF GetSampleNumEst
    <3>2. pc' = "get_samples" => sample_num_est' + Overshoot <= Word
      <4>1. PICK m \in Nat : m = thresh + MultiSample
        BY <1>1
      <4>2. m + Overshoot <= Word
        BY <1>0, <4>1
      <4>3. pc' = "get_samples" => sample_num_est' <= m
        BY <2>2, <4>1
      <4>4. Overshoot \in Nat /\ Word \in Nat
        OBVIOUS
      <4> QED
        BY <2>3, <4>2, <4>3, <4>4, WithinBatch
    <3> QED
      BY <1>1, <3>1, <3>2
<1>3. CASE StartSampling
  BY <1>1, <1>3 DEF StartSampling
<1>4. CASE UnigenCallback
  <2>1. Len(samples_from_unisamp') = Len(samples_from_unisamp) + 1
    BY <1>1, <1>4 DEF UnigenCallback
  <2> QED
    BY <1>1, <1>4, <2>1 DEF UnigenCallback
<1>5. CASE Refill
  <2>1. CASE log_skolemcount = 0
    BY <1>1, <1>5, <2>1 DEF Refill, DivideByZero, pool
  <2>2. CASE log_skolemcount # 0
    <3>1. requested' <= MaxBatch /\ requested' \in Nat
      BY <1>5, <2>2, PredictedNat DEF Refill
    <3>2. MaxBatch + Overshoot <= Word
      BY WordAssumption DEF WordAssumption
    <3>3. samples_from_unisamp' = <<>> /\ pc' = "resampling"
      BY <1>5, <2>2 DEF Refill
    <3>4. Len(samples_from_unisamp') = 0
      BY <3>3
    <3>5. requested' + Overshoot <= Word
      <4>1. Overshoot \in Nat /\ MaxBatch \in Nat /\ Word \in Nat
        OBVIOUS
      <4> QED
        BY <3>1, <3>2, <4>1, WithinBatch
    <3> QED
      BY <3>3, <3>4, <3>5
  <2> QED
    BY <2>1, <2>2
<1>6. CASE GetEst0 \/ GetGCount \/ GanakExit \/ SamplingReturns
  BY <1>1, <1>6 DEF GetEst0, GetGCount, GanakExit, SamplingReturns, pool
<1>7. CASE CountSample \/ ReadPastEnd \/ LeaveLoop \/ Finish
  BY <1>1, <1>7 DEF CountSample, ReadPastEnd, LeaveLoop, Finish, pool
<1>8. CASE Stopped \/ UNCHANGED vars
  BY <1>1, <1>8 DEF Stopped, vars, pool
<1> QED
  BY <1>2, <1>3, <1>4, <1>5, <1>6, <1>7, <1>8 DEF Next

\* When the loop is about to count a sample, the index is the distance from the
\* last refill, and it is in the pool.
LEMMA IndexFromRefill ==
  ASSUME TypeOK, FitInv, IndexFits, NEW r \in 0 .. iteration, PoolSince(r), AboutToCount
  PROVE  /\ SampleIndex = iteration - r
         /\ input.s2 > 0 => SampleIndex < Len(samples_from_unisamp)
<1> USE Constants
<1>1. /\ iteration \in Nat /\ r \in Nat /\ r <= iteration /\ iteration <= MaxIteration
      /\ Len(samples_from_unisamp) \in Nat /\ thresh \in Nat
  BY ThreshNat DEF TypeOK
<1>2. r % Word \in Nat /\ r % Word <= r
  BY <1>1, ModBelow
<1>3. /\ iteration - r < Len(samples_from_unisamp) \/ iteration - r <= 1
      /\ input.s2 > 0 => iteration - r < Len(samples_from_unisamp)
  <2>1. CASE pc = "create"
    BY <1>1, <2>1 DEF PoolSince
  <2>2. CASE pc = "while" /\ ~PoolIsDry
    <3>1. CASE iteration > 1
      <4>1. iteration < Len(samples_from_unisamp) + (r % Word)
        <5>1. ~(iteration >= Len(samples_from_unisamp) + (r % Word))
          BY <2>2, <3>1 DEF PoolIsDry, PoolSince
        <5> QED
          BY <1>1, <1>2, <5>1
      <4> QED
        BY <1>1, <1>2, <4>1
    <3>2. CASE iteration <= 1
      BY <1>1, <2>2, <3>2 DEF PoolSince
    <3> QED
      BY <1>1, <3>1, <3>2
  <2> QED
    BY <2>1, <2>2 DEF AboutToCount
<1>4. iteration - r < Word
  <2>1. CASE MaxIteration < Word
    BY <1>1, <2>1
  <2>2. CASE thresh + MultiSample + Overshoot <= Word
    BY <1>1, <1>3, <2>2 DEF FitInv
  <2> QED
    BY <2>1, <2>2 DEF IndexFits
<1>5. SampleIndex = iteration - r
  <2>1. Word \in Nat /\ Word > 0
    OBVIOUS
  <2>2. ((iteration % Word) - (r % Word)) % Word = iteration - r
    <3>1. iteration \in Nat /\ r \in Nat /\ r <= iteration
      BY <1>1
    <3> QED
      BY ONLY <1>4, <2>1, <3>1, ModDifference, Zenon
  <2> QED
    BY <2>2 DEF SampleIndex, PoolSince
<1> QED
  BY <1>3, <1>5

\* The pool holds what PoolSince says, after any number of iterations.
THEOREM LongRunCorrect ==
  ASSUME IndexFits
  PROVE  Spec => []LongRunInv
<1> USE Constants
<1>1. Init => LongRunInv
  <2> SUFFICES ASSUME Init
               PROVE  LongRunInv
    OBVIOUS
  <2>1. Len(samples_from_unisamp) = 0
    BY DEF Init
  <2>2. FitInv
    <3>1. thresh + MultiSample \in Nat
      BY ThreshNat
    <3> HIDE DEF thresh
    <3> QED
      BY <2>1, <3>1 DEF Init, FitInv
  <2>3. 0 \in 0 .. iteration /\ 0 % Word = 0
    BY ModSmall DEF Init
  <2>4. PoolSince(0)
    BY <2>1, <2>3 DEF Init, PoolSince
  <2> QED
    BY <2>2, <2>3, <2>4 DEF LongRunInv
<1>2. TypeOK /\ TypeOK' /\ LongRunInv /\ [Next]_vars => LongRunInv'
  <2> SUFFICES ASSUME TypeOK, TypeOK', LongRunInv, [Next]_vars
               PROVE  \E r \in 0 .. iteration' : PoolSince(r)'
    BY FitCorrect DEF LongRunInv
  <2>0. /\ iteration \in Nat /\ sample \in Nat
        /\ generated \in Nat /\ requested \in Nat
        /\ samples_from_unisamp \in Seq(Nat) /\ Len(samples_from_unisamp) \in Nat
    BY DEF TypeOK
  <2>2. PICK r \in 0 .. iteration : PoolSince(r)
    BY DEF LongRunInv
  <2>3. SUFFICES ASSUME ~(Refill /\ log_skolemcount # 0)
                 PROVE  r \in 0 .. iteration' /\ PoolSince(r)'
    <3>1. CASE Refill /\ log_skolemcount # 0
      <4>1. requested' >= 1
        BY <3>1, PredictedNat DEF Refill
      <4>2. /\ samples_from_unisamp' = <<>>
            /\ sample_clearance_iteration' = iteration % Word
            /\ pc' = "resampling" /\ iteration > 1
            /\ UNCHANGED <<generated, iteration, sample>>
        BY <3>1 DEF Refill, PoolIsDry, rule
      <4>3. Len(samples_from_unisamp') = 0
        BY <4>2
      <4>4. sample <= generated
        BY <2>0, <2>2 DEF PoolSince
      <4>5. PoolSince(iteration)'
        BY <2>0, <2>2, <4>1, <4>2, <4>3, <4>4 DEF PoolSince
      <4>6. iteration \in 0 .. iteration'
        BY <2>0, <4>2
      <4>7. PICK n \in 0 .. iteration' : n = iteration
        BY <4>6
      <4>8. PoolSince(n)'
        BY <4>2, <4>5, <4>7 DEF PoolSince
      <4> QED
        BY <4>7, <4>8
    <3> QED
      BY <2>3, <3>1
  <2>1. CASE GetEst0 \/ GetGCount \/ GanakExit
    BY <2>1, <2>2 DEF GetEst0, GetGCount, GanakExit, PoolSince, setup, pool, rule
  <2>4. CASE GetSampleNumEst
    <3>1. \A l \in FirstLogs : l # 0 => SampleNum(l) >= 2
      BY FirstBatch
    <3>2. pc' = "get_samples" => sample_num_est' >= 2
      BY <2>4, <3>1 DEF GetSampleNumEst, DivideByZero
    <3>3. pc' \in {"get_samples", "sigfpe", "undefined"}
      BY <2>4 DEF GetSampleNumEst, DivideByZero
    <3> QED
      BY <2>4, <2>2, <3>2, <3>3 DEF GetSampleNumEst, PoolSince, setup, counts, rule
  <2>5. CASE StartSampling
    BY <2>0, <2>5, <2>2 DEF StartSampling, PoolSince, setup, counts, rule
  <2>6. CASE UnigenCallback
    <3>1. samples_from_unisamp' = Append(samples_from_unisamp, generated + 1)
      BY <2>6 DEF UnigenCallback
    <3>2. /\ Len(samples_from_unisamp') = Len(samples_from_unisamp) + 1
          /\ \A k \in 1 .. Len(samples_from_unisamp) :
               samples_from_unisamp'[k] = samples_from_unisamp[k]
          /\ samples_from_unisamp'[Len(samples_from_unisamp) + 1] = generated + 1
      BY <2>0, <3>1
    <3>3. PICK m \in Nat : m = Len(samples_from_unisamp)
      BY <2>0
    <3>4. /\ generated' = generated + 1 /\ Len(samples_from_unisamp') = m + 1
          /\ UNCHANGED <<pc, input, sample_num_est, sample_clearance_iteration,
                         requested, iteration, sample>>
      BY <2>6, <3>2, <3>3 DEF UnigenCallback, setup, rule
    <3>5. \A k \in 1 .. m + 1 :
            samples_from_unisamp'[k] = generated' - (m + 1) + k
      <4> SUFFICES ASSUME NEW k \in 1 .. m + 1
                   PROVE  samples_from_unisamp'[k] = generated - m + k
        BY <2>0, <3>3, <3>4
      <4>1. CASE k \in 1 .. m
        BY <2>2, <3>2, <3>3, <4>1 DEF PoolSince
      <4>2. CASE k = m + 1
        BY <2>0, <3>2, <3>3, <4>2
      <4> QED
        BY <3>3, <4>1, <4>2
    <3>6. r \in 0 .. iteration'
      BY <3>4
    <3>7. /\ r # 1 /\ iteration - r <= m + 1 /\ m + 1 <= generated + 1
          /\ sample <= generated - m + (iteration - r)
      BY <2>0, <2>2, <3>3 DEF PoolSince
    <3>8. generated + 1 # 0 /\ (generated + 1) - (m + 1) = generated - m
      BY <2>0, <3>3
    <3>9. pc \in {"sampling", "resampling"}
      BY <2>6 DEF UnigenCallback
    <3>10. \A k \in 1 .. Len(samples_from_unisamp') :
             samples_from_unisamp'[k] = generated' - Len(samples_from_unisamp') + k
      BY <3>4, <3>5
    <3> QED
      BY <2>2, <3>4, <3>6, <3>7, <3>8, <3>9, <3>10 DEF PoolSince
  <2>7. CASE SamplingReturns
    <3>1. /\ pc = "resampling" /\ input.s2 > 0 => Len(samples_from_unisamp) >= 1
          /\ pc = "sampling" /\ input.s2 > 0 => Len(samples_from_unisamp) >= 2
      <4>1. input.s2 \in Nat
        BY DEF TypeOK
      <4>2. input.s2 > 0 => Len(samples_from_unisamp) >= requested
        BY <2>7, <4>1 DEF SamplingReturns
      <4>3. /\ pc = "resampling" => requested >= 1
            /\ pc = "sampling" => requested >= 2
        BY <2>2 DEF PoolSince
      <4> QED
        BY <2>0, <4>2, <4>3
    <3> QED
      BY <2>0, <2>7, <2>2, <3>1 DEF SamplingReturns, PoolSince, setup, counts, pool, rule
  <2>8. CASE Refill
    BY <2>8, <2>3, <2>2 DEF Refill, DivideByZero, PoolSince, setup, counts, pool, rule
  <2>9. CASE CountSample
    <3>1. CASE UNCHANGED rule /\ pc' = "sigfpe"
      BY <2>9, <2>2, <3>1 DEF CountSample, PoolSince, setup, counts, pool, rule
    <3>2. CASE /\ iteration' = iteration + 1
               /\ sample' = samples_from_unisamp[SampleIndex + 1]
               /\ pc' = "while"
      <4>1. SampleIndex = iteration - r
        BY <2>9, <2>2, IndexFromRefill DEF CountSample, LongRunInv
      <4>2. iteration - r < Len(samples_from_unisamp)
        BY <2>9, <4>1 DEF CountSample
      <4>3. iteration - r + 1 \in 1 .. Len(samples_from_unisamp)
        BY <2>0, <4>2
      <4>4. sample' = generated - Len(samples_from_unisamp) + (iteration - r + 1)
        BY <2>2, <3>2, <4>1, <4>3 DEF PoolSince
      <4>5. input.s2 > 0 /\ r = 0 => Len(samples_from_unisamp) >= 2
        <5>1. pc = "while" \/ (pc = "create" /\ iteration = r /\ iteration > 1)
          BY <2>9, <2>2 DEF CountSample, AboutToCount, PoolSince
        <5> QED
          BY <2>0, <2>2, <5>1 DEF PoolSince
      <4>6. UNCHANGED <<input, samples_from_unisamp, sample_clearance_iteration,
                        generated>>
        BY <2>9 DEF CountSample, setup, pool
      <4>7. r \in 0 .. iteration'
        BY <2>0, <3>2
      <4>8. generated # 0
        BY <2>0, <2>2, <4>2 DEF PoolSince
      <4> QED
        BY <2>0, <2>2, <3>2, <4>2, <4>4, <4>5, <4>6, <4>7, <4>8 DEF PoolSince
    <3> QED
      BY <2>9, <3>1, <3>2 DEF CountSample
  <2>10. CASE ReadPastEnd \/ LeaveLoop
    BY <2>10, <2>2 DEF ReadPastEnd, LeaveLoop, PoolSince, setup, counts, pool, rule
  <2>12. CASE Finish
    <3>1. pc' \in Ended
      BY <2>12 DEF Finish, Ended
    <3> QED
      BY <2>12, <2>2, <3>1 DEF Finish, PoolSince, Ended, setup, counts, pool, rule
  <2>13. CASE Stopped \/ UNCHANGED vars
    BY <2>13, <2>2 DEF Stopped, PoolSince, vars, setup, counts, pool, rule
  <2> QED
    BY <2>1, <2>4, <2>5, <2>6, <2>7, <2>8, <2>9, <2>10, <2>12, <2>13 DEF Next
<1> QED
  BY <1>1, <1>2, TypeCorrect, PTL DEF Spec

\* With the FPE traps of Linux nothing undefined happens while some input has
\* two outputs: the unchecked indices are in bounds.
THEOREM NeverUndefinedWithS2 ==
  ASSUME IndexFits, TrapFpe
  PROVE  Spec => []UndefinedOnlyWithoutS2
<1> USE Constants
<1>1. Init => UndefinedOnlyWithoutS2
  BY DEF Init, UndefinedOnlyWithoutS2
<1>2. TypeOK /\ LongRunInv /\ UndefinedOnlyWithoutS2 /\ [Next]_vars
        => UndefinedOnlyWithoutS2'
  <2> SUFFICES ASSUME TypeOK, LongRunInv, UndefinedOnlyWithoutS2, [Next]_vars,
                      pc' = "undefined", input.s2 # 0
               PROVE  FALSE
    BY InputFixed DEF UndefinedOnlyWithoutS2
  <2>0. input.s2 > 0
    BY DEF TypeOK
  <2>1. CASE GetSampleNumEst
    BY <2>0, <2>1 DEF GetSampleNumEst, DivideByZero
  <2>2. CASE Refill
    BY <2>2 DEF Refill, DivideByZero
  <2>3. CASE ReadPastEnd
    <3>1. SampleIndex \in Nat /\ Len(samples_from_unisamp) \in Nat
      BY IndexNat DEF TypeOK
    <3>2. SampleIndex < Len(samples_from_unisamp)
      BY <2>0, <2>3, IndexFromRefill DEF ReadPastEnd, LongRunInv
    <3> QED
      BY <2>3, <3>1, <3>2 DEF ReadPastEnd
  <2>4. CASE UnigenCallback \/ Stopped \/ UNCHANGED vars
    BY <2>0, <2>4
    DEF UnigenCallback, Stopped, UndefinedOnlyWithoutS2, vars
  <2>5. CASE CountSample
    BY <2>5 DEF CountSample
  <2>6. CASE \/ GetEst0 \/ GetGCount \/ GanakExit \/ StartSampling
             \/ SamplingReturns \/ LeaveLoop \/ Finish
    BY <2>6 DEF GetEst0, GetGCount, GanakExit, StartSampling, SamplingReturns,
                LeaveLoop, Finish
  <2> QED
    BY <2>1, <2>2, <2>3, <2>4, <2>5, <2>6 DEF Next
<1> QED
  BY <1>1, <1>2, TypeCorrect, LongRunCorrect, PTL DEF Spec

\* No sample is counted twice, however many iterations and refills there are: each
\* iteration counts a sample produced after that of the iteration before.
THEOREM CountedOnce ==
  ASSUME IndexFits
  PROVE  Spec => SamplesNeverReused
<1> USE Constants
<1>1. TypeOK /\ LongRunInv /\ [Next]_vars
        => [iteration' # iteration => sample' > sample]_vars
  <2> SUFFICES ASSUME TypeOK, LongRunInv, [Next]_vars, iteration' # iteration
               PROVE  sample' > sample
    OBVIOUS
  <2>1. CASE CountSample
    <3>1. PICK r \in 0 .. iteration : PoolSince(r)
      BY DEF LongRunInv
    <3>2. /\ iteration \in Nat /\ sample \in Nat /\ generated \in Nat
          /\ Len(samples_from_unisamp) \in Nat
      BY DEF TypeOK
    <3>3. SampleIndex = iteration - r /\ iteration - r < Len(samples_from_unisamp)
      BY <2>1, <3>1, IndexFromRefill DEF CountSample, LongRunInv
    <3>4. sample' = samples_from_unisamp[SampleIndex + 1]
      BY <2>1 DEF CountSample, rule
    <3>5. SampleIndex + 1 \in 1 .. Len(samples_from_unisamp)
      BY <3>2, <3>3
    <3>6. sample' = generated - Len(samples_from_unisamp) + (SampleIndex + 1)
      BY <3>1, <3>4, <3>5 DEF PoolSince
    <3>7. sample <= generated - Len(samples_from_unisamp) + (iteration - r)
      BY <3>1 DEF PoolSince
    <3> QED
      BY <3>2, <3>3, <3>6, <3>7
  <2>2. CASE ~CountSample
    BY <2>2 DEF Next, GetEst0, GetGCount, GanakExit, GetSampleNumEst,
      StartSampling, UnigenCallback, SamplingReturns, Refill, ReadPastEnd,
      LeaveLoop, Finish, Stopped, vars, rule
  <2> QED
    BY <2>1, <2>2
<1> QED
  BY <1>1, TypeCorrect, LongRunCorrect, PTL DEF Spec, SamplesNeverReused

(***************************************************************************)
(* The stopping condition.                                                 *)
(***************************************************************************)

\* Where the total stands with respect to the threshold, and where count() can
\* be when G has no model.
ControlInv ==
  /\ pc \in {"get_est0", "get_g_count"} => iteration = 0
  /\ ~okay => iteration = 0 /\ pc \in {"get_est1"} \cup Ended
  /\ pc \in {"resampling", "create"} => log_skolemcount <= thresh
  /\ pc \in {"get_est1", "printed"} /\ okay => log_skolemcount > thresh

\* The total passes the threshold exactly when the loop is left.
THEOREM ControlCorrect == Spec => []ControlInv
<1> USE Constants
<1>1. Init => ControlInv
  BY DEF Init, ControlInv
<1>2. TypeOK /\ ControlInv /\ [Next]_vars => ControlInv'
  <2> SUFFICES ASSUME TypeOK, ControlInv, [Next]_vars
               PROVE  ControlInv'
    OBVIOUS
  <2>0. thresh' = thresh /\ thresh \in Nat /\ log_skolemcount \in Nat
    BY ThreshNat DEF thresh, TypeOK
  <2>1. CASE GetEst0 \/ GetGCount \/ GanakExit
    BY <2>0, <2>1 DEF GetEst0, GetGCount, GanakExit, ControlInv, Ended,
                      setup, counts, pool, rule
  <2>2. CASE GetSampleNumEst
    <3>1. pc' \in {"get_samples", "sigfpe", "undefined"}
      BY <2>2 DEF GetSampleNumEst, DivideByZero
    <3> QED
      BY <2>0, <2>2, <3>1 DEF GetSampleNumEst, ControlInv, Ended, counts, rule
  <2>3. CASE StartSampling \/ UnigenCallback \/ SamplingReturns
    BY <2>0, <2>3 DEF StartSampling, UnigenCallback, SamplingReturns,
                      ControlInv, Ended, counts, rule
  <2>4. CASE Refill
    <3>1. pc' \in {"resampling", "sigfpe", "undefined"} /\ log_skolemcount <= thresh
      BY <2>4 DEF Refill, DivideByZero, LoopGuard
    <3> QED
      BY <2>0, <2>4, <3>1 DEF Refill, ControlInv, Ended, counts, rule
  <2>5. CASE CountSample
    <3>1. pc' \in {"while", "sigfpe"} /\ okay' = okay /\ pc \in {"while", "create"}
      BY <2>5 DEF CountSample, AboutToCount, counts
    <3> QED
      BY <3>1 DEF ControlInv, Ended
  <2>6. CASE ReadPastEnd \/ LeaveLoop
    BY <2>0, <2>6 DEF ReadPastEnd, LeaveLoop, LoopGuard, AboutToCount, ControlInv,
                      Ended, counts, rule
  <2>7. CASE Finish
    <3>1. pc = "get_est1" /\ pc' \in Ended /\ UNCHANGED <<okay, rule>>
      BY <2>7 DEF Finish, Ended, counts
    <3> QED
      BY <2>0, <3>1 DEF ControlInv, Ended, rule
  <2>8. CASE Stopped \/ UNCHANGED vars
    BY <2>0, <2>8 DEF Stopped, ControlInv, vars, counts, rule
  <2> QED
    BY <2>1, <2>2, <2>3, <2>4, <2>5, <2>6, <2>7, <2>8 DEF Next
<1> QED
  BY <1>1, <1>2, TypeCorrect, PTL DEF Spec

\* Only CountSample changes the iteration, the total and the sample.
LEMMA RuleFixed ==
  ASSUME [Next]_vars, ~CountSample
  PROVE  UNCHANGED rule
<1>1. CASE GetEst0 \/ GetGCount \/ GanakExit \/ GetSampleNumEst
  BY <1>1 DEF GetEst0, GetGCount, GanakExit, GetSampleNumEst
<1>2. CASE StartSampling \/ UnigenCallback \/ SamplingReturns \/ Refill
  BY <1>2 DEF StartSampling, UnigenCallback, SamplingReturns, Refill
<1>3. CASE ReadPastEnd \/ LeaveLoop \/ Finish
  BY <1>3 DEF ReadPastEnd, LeaveLoop, Finish
<1>4. CASE Stopped \/ UNCHANGED vars
  BY <1>4 DEF Stopped, vars
<1> QED
  BY <1>1, <1>2, <1>3, <1>4 DEF Next

(***************************************************************************)
(* Refinement.                                                             *)
(***************************************************************************)

\* A step that counts a sample draws it, or fails when the logarithm traps.
LEMMA CountSampleDraws ==
  ASSUME TypeOK, PoolInv, ControlInv, MaxIteration < Word, CountSample
  PROVE  Rule!Draw \/ Rule!Fail
<1> USE Constants
<1>1. /\ pc \in {"while", "create"} /\ log_skolemcount <= thresh
      /\ iteration \in Nat
  BY DEF CountSample, AboutToCount, LoopGuard, ControlInv, TypeOK
<1>2. samples_from_unisamp[SampleIndex + 1] = iteration + 1
  BY NextIsCounted DEF CountSample
<1>3. Phase = "drawing"
  BY <1>1 DEF Phase, Ended
<1>4. PICK l \in SampleLogs :
        IF l = NegInf /\ TrapFpe
        THEN pc' = "sigfpe" /\ UNCHANGED rule
        ELSE /\ iteration' = iteration + 1
             /\ sample' = samples_from_unisamp[SampleIndex + 1]
             /\ log_skolemcount' = IF l = NegInf THEN log_skolemcount
                                                 ELSE log_skolemcount + l
             /\ pc' = "while"
  BY DEF CountSample
<1>5. CASE l = NegInf /\ TrapFpe
  <2>1. Phase' = "failed"
    BY <1>4, <1>5 DEF Phase, Ended
  <2> QED
    BY <1>3, <1>4, <1>5, <2>1 DEF Rule!Fail, rule
<1>6. CASE ~(l = NegInf /\ TrapFpe)
  <2>1. Phase' = "drawing"
    BY <1>4, <1>6 DEF Phase, Ended
  <2>2. \E z \in Contributions : log_skolemcount' = log_skolemcount + z
    <3> DEFINE z == IF l = NegInf THEN 0 ELSE l
    <3>1. z \in Contributions
      BY DEF Contributions
    <3>2. log_skolemcount' = log_skolemcount + z
      BY <1>4, <1>6 DEF TypeOK
    <3> QED
      BY <3>1, <3>2
  <2> QED
    BY <1>1, <1>2, <1>3, <1>4, <1>6, <2>1, <2>2 DEF Rule!Draw
<1> QED
  BY <1>5, <1>6

\* The loop over batches implements the rule over one stream of samples: it
\* reads every sample once, in order, and answers just when the total has
\* passed the threshold.
THEOREM Refinement ==
  ASSUME MaxIteration < Word
  PROVE  Spec => ImplementsStoppingRule
<1> USE Constants
<1>1. Init => Rule!RuleInit
  BY DEF Init, Rule!RuleInit, Phase, Ended
<1>2. TypeOK /\ PoolInv /\ ControlInv /\ [Next]_vars
        => [Rule!RuleNext]_(Rule!ruleVars)
  <2> SUFFICES ASSUME TypeOK, PoolInv, ControlInv, [Next]_vars
               PROVE  Rule!RuleNext \/ UNCHANGED Rule!ruleVars
    OBVIOUS
  <2>1. CASE CountSample
    BY <2>1, CountSampleDraws DEF Rule!RuleNext
  <2>2. CASE ~CountSample
    <3>1. UNCHANGED <<iteration, log_skolemcount, sample>>
      BY <2>2, RuleFixed DEF rule
    <3>2. CASE Phase' = Phase
      BY <3>1, <3>2 DEF Rule!ruleVars
    <3>3. CASE Phase = "drawing" /\ Phase' = "failed"
      BY <3>1, <3>3 DEF Rule!RuleNext, Rule!Fail
    <3>4. CASE Finish
      <4>1. Phase = "drawing" /\ okay' = okay
        BY <3>4 DEF Finish, Phase, Ended, counts
      <4>2. CASE pc' = "printed" /\ okay
        BY <3>1, <3>4, <4>1, <4>2
        DEF Finish, ControlInv, Phase, Rule!RuleNext, Rule!Answer
      <4>3. CASE pc' = "printed" /\ ~okay
        BY <3>1, <3>4, <4>1, <4>3
        DEF Finish, ControlInv, Phase, Rule!RuleNext, Rule!NothingToEstimate
      <4>4. CASE pc' # "printed"
        <5>1. Phase' = "failed"
          BY <3>4, <4>4 DEF Finish, Phase, Ended
        <5> QED
          BY <3>3, <4>1, <5>1
      <4> QED
        BY <4>2, <4>3, <4>4 DEF TypeOK
    <3>5. CASE ~Finish
      <4>1. \/ UNCHANGED <<pc, okay>>
            \/ pc \notin Ended /\ pc' \notin Ended
            \/ pc \notin Ended /\ pc' \in Ended \ {"printed"}
        <5>1. CASE GetEst0 \/ GetGCount \/ GanakExit
          BY <5>1 DEF GetEst0, GetGCount, GanakExit, Ended
        <5>2. CASE GetSampleNumEst \/ Refill
          BY <5>2 DEF GetSampleNumEst, Refill, DivideByZero, Ended
        <5>3. CASE \/ StartSampling \/ UnigenCallback \/ SamplingReturns
                   \/ ReadPastEnd \/ LeaveLoop
          BY <5>3 DEF StartSampling, UnigenCallback, SamplingReturns,
                      ReadPastEnd, AboutToCount, LeaveLoop, Ended, counts
        <5>4. CASE Stopped \/ UNCHANGED vars
          BY <5>4 DEF Stopped, vars, counts
        <5> QED
          BY <2>2, <3>5, <5>1, <5>2, <5>3, <5>4 DEF Next
      <4> QED
        BY <3>2, <3>3, <4>1 DEF Phase, Ended
    <3> QED
      BY <3>4, <3>5
  <2> QED
    BY <2>1, <2>2
<1> QED
  BY <1>1, <1>2, TypeCorrect, PoolCorrect, ControlCorrect, PTL
  DEF Spec, ImplementsStoppingRule, Rule!RuleSpec

(***************************************************************************)
(* The estimate.                                                           *)
(***************************************************************************)

\* The total against the number of iterations, for bounds lo and hi of the
\* logarithms.
Bounds(lo, hi) == \A l \in SampleLogs : lo <= l /\ l <= hi

LogSumInv ==
  \A lo, hi \in SampleLogs : Bounds(lo, hi) =>
    /\ lo * iteration <= log_skolemcount
    /\ log_skolemcount <= hi * iteration
    /\ lo * (iteration - 1) <= thresh

\* A product with the next number, for the bounds on the total.
LEMMA TimesSuccessor ==
  ASSUME NEW a \in Nat, NEW n \in Nat
  PROVE  a * (n + 1) = a * n + a /\ a * n \in Nat
  OBVIOUS

\* thresh / iteration, the estimate of the average logarithm, is below the
\* largest and, the last sample aside, at least the smallest of them.
THEOREM EstimateCorrect ==
  ASSUME SampleLogs \subseteq Nat
  PROVE  Spec => []EstimateWithinLogs
<1> USE Constants
<1>1. Init => LogSumInv
  <2> SUFFICES ASSUME Init, NEW lo \in SampleLogs, NEW hi \in SampleLogs
               PROVE  /\ lo * iteration <= log_skolemcount
                      /\ log_skolemcount <= hi * iteration
                      /\ lo * (iteration - 1) <= thresh
    BY DEF LogSumInv
  <2>1. iteration = 0 /\ log_skolemcount = 0
    BY DEF Init
  <2>2. lo \in Nat /\ hi \in Nat /\ lo * 0 = 0 /\ hi * 0 = 0 /\ lo * (0 - 1) <= 0
    OBVIOUS
  <2> QED
    BY <2>1, <2>2, ThreshNat
<1>2. TypeOK /\ ControlInv /\ LogSumInv /\ [Next]_vars => LogSumInv'
  <2> SUFFICES ASSUME TypeOK, ControlInv, LogSumInv, [Next]_vars
               PROVE  LogSumInv'
    OBVIOUS
  <2>1. thresh' = thresh
    BY DEF thresh
  <2>2. CASE UNCHANGED rule
    BY <2>1, <2>2 DEF LogSumInv, rule
  <2>3. CASE CountSample /\ ~UNCHANGED rule
    <3> SUFFICES ASSUME NEW lo \in SampleLogs, NEW hi \in SampleLogs, Bounds(lo, hi)
                 PROVE  /\ lo * iteration' <= log_skolemcount'
                        /\ log_skolemcount' <= hi * iteration'
                        /\ lo * (iteration' - 1) <= thresh
      BY <2>1 DEF LogSumInv
    <3>1. PICK l \in SampleLogs :
            /\ iteration' = iteration + 1
            /\ log_skolemcount' = log_skolemcount + l
      BY <2>3 DEF CountSample
    <3>2. /\ lo \in Nat /\ hi \in Nat /\ l \in Nat /\ lo <= l /\ l <= hi
          /\ iteration \in Nat /\ log_skolemcount \in Nat
      BY DEF TypeOK, Bounds
    <3>3. lo * iteration <= log_skolemcount /\ log_skolemcount <= hi * iteration
      BY DEF LogSumInv
    <3>4. log_skolemcount <= thresh
      BY <2>3 DEF CountSample, AboutToCount, LoopGuard, ControlInv
    <3>5. /\ lo * iteration' = lo * iteration + lo /\ lo * iteration \in Nat
          /\ hi * iteration' = hi * iteration + hi /\ hi * iteration \in Nat
      BY <3>1, <3>2, TimesSuccessor
    <3>6. iteration' - 1 = iteration
      BY <3>1, <3>2
    <3> DEFINE low == lo * iteration
               high == hi * iteration
    <3>7. low + lo <= log_skolemcount + l /\ log_skolemcount + l <= high + hi
      <4> HIDE DEF low, high
      <4>1. low \in Nat /\ high \in Nat
        BY <3>5 DEF low, high
      <4>2. low <= log_skolemcount /\ log_skolemcount <= high
        BY <3>3 DEF low, high
      <4> QED
        BY <3>2, <4>1, <4>2
    <3>8. low <= thresh
      <4> HIDE DEF low
      <4>1. low \in Nat /\ low <= log_skolemcount
        BY <3>3, <3>5 DEF low
      <4> QED
        BY <3>2, <3>4, <4>1, ThreshNat
    <3> QED
      BY <3>1, <3>5, <3>6, <3>7, <3>8
  <2> QED
    BY <2>2, <2>3, RuleFixed
<1>3. TypeOK /\ ControlInv /\ LogSumInv => EstimateWithinLogs
  <2> SUFFICES ASSUME TypeOK, ControlInv, LogSumInv, pc = "printed", okay,
                      NEW lo \in SampleLogs, NEW hi \in SampleLogs, Bounds(lo, hi)
               PROVE  thresh < hi * iteration /\ lo * (iteration - 1) <= thresh
    BY DEF EstimateWithinLogs, Bounds
  <2>1. log_skolemcount > thresh
    BY DEF ControlInv
  <2>2. log_skolemcount <= hi * iteration /\ lo * (iteration - 1) <= thresh
    BY DEF LogSumInv
  <2>3. hi * iteration \in Nat /\ log_skolemcount \in Nat
    BY TimesNat DEF TypeOK
  <2> DEFINE high == hi * iteration
  <2>4. thresh < high
    <3> HIDE DEF high
    <3>1. high \in Nat /\ log_skolemcount <= high
      BY <2>2, <2>3 DEF high
    <3> QED
      BY <2>1, <2>3, <3>1, ThreshNat
  <2> QED
    BY <2>2, <2>4
<1> QED
  BY <1>1, <1>2, <1>3, TypeCorrect, ControlCorrect, PTL DEF Spec

(***************************************************************************)
(* The loop ends.                                                          *)
(***************************************************************************)

\* The loop counts at most thresh + 1 samples, and a batch is bounded.
LoopInv ==
  /\ iteration <= log_skolemcount /\ iteration <= thresh + 1
  /\ AboutToCount => iteration <= thresh
  /\ Len(samples_from_unisamp) <= requested + Overshoot
  /\ pc \in {"get_est0", "get_g_count", "get_sample_num_est", "get_samples"} =>
       Len(samples_from_unisamp) = 0

\* How far count() is from its end, but for the samples still to count.
Stage(p) ==
  CASE p = "get_est0" -> 9 [] p = "get_g_count" -> 8 [] p = "get_sample_num_est" -> 7
    [] p = "get_samples" -> 6 [] p = "sampling" -> 5 [] p = "while" -> 4
    [] p = "resampling" -> 3 [] p = "create" -> 2 [] p = "get_est1" -> 1
    [] OTHER -> 0

\* A step counts a sample, or goes on to a later stage of the same iteration, or
\* adds to a batch that is not complete.
Advances ==
  \/ iteration < iteration'
  \/ iteration' = iteration /\ Stage(pc') < Stage(pc)
  \/ /\ iteration' = iteration /\ pc' = pc
     /\ Len(samples_from_unisamp) < Len(samples_from_unisamp')
     /\ Len(samples_from_unisamp') <= requested' + Overshoot

\* Samples are models of G: their logarithms are not 0 and the total grows.
LEMMA LoopInvCorrect ==
  ASSUME SampleLogs \subseteq Nat \ {0}
  PROVE  Spec => []LoopInv
<1> USE Constants
<1>1. Init => LoopInv
  <2> SUFFICES ASSUME Init PROVE LoopInv
    OBVIOUS
  <2>1. thresh \in Nat /\ Len(samples_from_unisamp) = 0
    BY ThreshNat DEF Init
  <2> HIDE DEF thresh
  <2> QED
    BY <2>1 DEF Init, LoopInv, AboutToCount
<1>2. TypeOK /\ ControlInv' /\ TypeOK' /\ LoopInv /\ [Next]_vars => LoopInv'
  <2> SUFFICES ASSUME TypeOK, TypeOK', ControlInv', LoopInv, [Next]_vars
               PROVE  LoopInv'
    OBVIOUS
  <2>0. /\ thresh \in Nat /\ thresh' = thresh
        /\ iteration \in Nat /\ log_skolemcount \in Nat /\ requested \in Nat
        /\ iteration' \in Nat /\ log_skolemcount' \in Nat
        /\ samples_from_unisamp \in Seq(Nat) /\ Len(samples_from_unisamp) \in Nat
    BY ThreshNat DEF TypeOK, thresh
  <2> HIDE DEF thresh
  <2>1. /\ iteration' <= log_skolemcount' /\ iteration' <= thresh + 1
    <3>1. CASE CountSample
      <4>1. PICK l \in Nat \ {0} :
              \/ iteration' = iteration + 1 /\ log_skolemcount' = log_skolemcount + l
              \/ UNCHANGED rule
        BY <3>1 DEF CountSample
      <4>2. iteration <= log_skolemcount /\ iteration <= thresh
        BY <3>1 DEF CountSample, LoopInv
      <4> QED
        BY <2>0, <4>1, <4>2 DEF rule
    <3>2. CASE ~CountSample
      BY <3>2, RuleFixed DEF rule, LoopInv
    <3> QED
      BY <3>1, <3>2
  <2>2. (AboutToCount => iteration <= thresh)'
    <3> SUFFICES ASSUME AboutToCount'
                 PROVE  iteration' <= thresh
      BY <2>0
    <3>1. log_skolemcount' <= thresh
      BY <2>0 DEF AboutToCount, LoopGuard, ControlInv
    <3> QED
      BY <2>0, <2>1, <3>1
  <2>3. /\ Len(samples_from_unisamp') <= requested' + Overshoot
        /\ pc' \in {"get_est0", "get_g_count", "get_sample_num_est", "get_samples"} =>
             Len(samples_from_unisamp') = 0
    <3>1. CASE UnigenCallback
      <4>1. /\ Len(samples_from_unisamp') = Len(samples_from_unisamp) + 1
            /\ Len(samples_from_unisamp) < requested + Overshoot /\ requested' = requested
            /\ pc' \in {"sampling", "resampling"}
        BY <2>0, <3>1 DEF UnigenCallback
      <4> QED
        BY <2>0, <4>1
    <3>2. CASE StartSampling
      <4>1. requested' \in Nat
        BY DEF TypeOK
      <4> QED
        BY <3>2, <4>1 DEF StartSampling, LoopInv
    <3>3. CASE Refill
      <4>1. CASE log_skolemcount = 0
        BY <3>3, <4>1 DEF Refill, DivideByZero, LoopInv, pool
      <4>2. CASE log_skolemcount # 0
        <5>1. samples_from_unisamp' = <<>> /\ pc' = "resampling" /\ requested' \in Nat
          BY <3>3, <4>2 DEF Refill, TypeOK
        <5>2. Len(samples_from_unisamp') = 0
          BY <5>1
        <5>3. 0 <= requested' + Overshoot
          BY <5>1, SumNat
        <5> QED
          BY <5>1, <5>2, <5>3
      <4> QED
        BY <4>1, <4>2
    <3>4. CASE GetSampleNumEst
      BY <3>4 DEF GetSampleNumEst, LoopInv
    <3>5. CASE GetEst0 \/ GetGCount \/ GanakExit
      BY <3>5 DEF GetEst0, GetGCount, GanakExit, LoopInv, pool
    <3>6. CASE SamplingReturns \/ CountSample \/ ReadPastEnd \/ LeaveLoop
      BY <3>6 DEF SamplingReturns, CountSample, ReadPastEnd, LeaveLoop, LoopInv, pool
    <3>7. CASE Finish
      BY <3>7 DEF Finish, LoopInv, pool
    <3>8. CASE Stopped \/ UNCHANGED vars
      BY <3>8 DEF Stopped, vars, LoopInv, pool
    <3> QED
      BY <3>1, <3>2, <3>3, <3>4, <3>5, <3>6, <3>7, <3>8 DEF Next
  <2> QED
    BY <2>0, <2>1, <2>2, <2>3 DEF LoopInv
<1> QED
  BY <1>1, <1>2, TypeCorrect, ControlCorrect, PTL DEF Spec

\* Where the steps that neither deliver nor count a sample lead.
MovesOn ==
  \/ pc = "get_est0" /\ pc' \in {"get_g_count", "exited"}
  \/ pc = "get_g_count" /\ pc' \in {"get_sample_num_est", "get_est1", "exited"}
  \/ pc = "get_sample_num_est" /\ pc' \in {"get_samples", "sigfpe", "undefined"}
  \/ pc = "get_samples" /\ pc' = "sampling"
  \/ pc = "sampling" /\ pc' = "while"
  \/ pc = "while" /\ pc' \in {"resampling", "get_est1", "sigfpe", "undefined"}
  \/ pc = "resampling" /\ pc' = "create"
  \/ pc = "create" /\ pc' = "undefined"
  \/ pc = "get_est1" /\ pc' \in {"printed", "exited", "sigfpe"}

\* Each step of count() advances.
LEMMA StepAdvances ==
  ASSUME TypeOK, LoopInv', Next, ~UNCHANGED vars
  PROVE  Advances
<1>1. CASE CountSample
  <2>1. CASE iteration' = iteration + 1
    BY <2>1 DEF Advances, TypeOK
  <2>2. CASE iteration' # iteration + 1
    <3>1. pc \in {"while", "create"} /\ pc' = "sigfpe" /\ iteration' = iteration
      BY <1>1, <2>2 DEF CountSample, AboutToCount, rule
    <3> QED
      BY <3>1 DEF Advances, Stage
  <2> QED
    BY <2>1, <2>2
<1>2. CASE UnigenCallback
  <2>1. Len(samples_from_unisamp) < Len(samples_from_unisamp')
    <3>1. samples_from_unisamp \in Seq(Nat) /\ generated \in Nat
      BY DEF TypeOK
    <3>2. Len(samples_from_unisamp') = Len(samples_from_unisamp) + 1
      BY <1>2, <3>1 DEF UnigenCallback
    <3> QED
      BY <3>1, <3>2
  <2> QED
    BY <1>2, <2>1 DEF UnigenCallback, LoopInv, Advances, rule
<1>3. CASE ~CountSample /\ ~UnigenCallback
  <2>1. iteration' = iteration
    BY <1>3, RuleFixed DEF rule
  <2>2. MovesOn
    <3>1. CASE GetEst0 \/ GetGCount \/ GanakExit
      BY <3>1 DEF GetEst0, GetGCount, GanakExit, MovesOn
    <3>2. CASE GetSampleNumEst
      BY <3>2 DEF GetSampleNumEst, DivideByZero, MovesOn
    <3>3. CASE StartSampling \/ SamplingReturns
      BY <3>3 DEF StartSampling, SamplingReturns, MovesOn
    <3>4. CASE Refill
      BY <3>4 DEF Refill, DivideByZero, MovesOn
    <3>5. CASE ReadPastEnd \/ LeaveLoop
      BY <3>5 DEF ReadPastEnd, LeaveLoop, AboutToCount, MovesOn
    <3>6. CASE Finish
      BY <3>6 DEF Finish, MovesOn
    <3> QED
      BY <1>3, <3>1, <3>2, <3>3, <3>4, <3>5, <3>6 DEF Next, Stopped
  <2>3. Stage(pc') < Stage(pc)
    BY <2>2 DEF MovesOn, Stage
  <2> QED
    BY <2>1, <2>3 DEF Advances
<1> QED
  BY <1>1, <1>2, <1>3

\* Every step of count() advances, and the three ways to advance are exhausted:
\* of the first there are thresh + 1 steps, of the second nine in an iteration, of
\* the third as many as the batch lacks.  count() cannot go on for ever, and a
\* MaxIteration above thresh never stops it.
THEOREM LoopAdvances ==
  ASSUME SampleLogs \subseteq Nat \ {0}
  PROVE  Spec => /\ [](iteration <= thresh + 1 /\ (AboutToCount => iteration <= thresh))
                 /\ [][Advances]_vars
<1>1. LoopInv => iteration <= thresh + 1 /\ (AboutToCount => iteration <= thresh)
  BY DEF LoopInv
<1>2. TypeOK /\ LoopInv' /\ [Next]_vars => [Advances]_vars
  BY StepAdvances
<1> QED
  BY <1>1, <1>2, TypeCorrect, LoopInvCorrect, PTL DEF Spec

(***************************************************************************)
(* Ways to end without a result.                                           *)
(***************************************************************************)

\* Only UniGen's callback makes samples.
LEMMA PoolFixed ==
  ASSUME [Next]_vars, ~UnigenCallback
  PROVE  UNCHANGED generated
<1>1. CASE GetEst0 \/ GetGCount \/ GanakExit \/ GetSampleNumEst
  BY <1>1 DEF GetEst0, GetGCount, GanakExit, GetSampleNumEst, pool
<1>2. CASE StartSampling \/ SamplingReturns \/ Refill
  BY <1>2 DEF StartSampling, SamplingReturns, Refill, pool
<1>3. CASE CountSample \/ ReadPastEnd \/ LeaveLoop \/ Finish
  BY <1>3 DEF CountSample, ReadPastEnd, LeaveLoop, Finish, pool
<1>4. CASE Stopped \/ UNCHANGED vars
  BY <1>4 DEF Stopped, vars, pool
<1> QED
  BY <1>1, <1>2, <1>3, <1>4 DEF Next

\* Undefined behaviour is left to a total of 0, whatever the logarithms: where
\* the code divides by the total, or reads a model of a G that has none.
THEOREM UndefinedAtZero ==
  ASSUME IndexFits
  PROVE  Spec => []UndefinedOnlyAtZeroTotal
<1> DEFINE NothingCounted == /\ iteration = 0 => log_skolemcount = 0
                             /\ generated # 0 => input.s2 > 0
<1>1. Init => NothingCounted /\ UndefinedOnlyAtZeroTotal
  BY DEF Init, UndefinedOnlyAtZeroTotal
<1>2. TypeOK /\ NothingCounted /\ [Next]_vars => NothingCounted'
  <2> SUFFICES ASSUME TypeOK, NothingCounted, [Next]_vars PROVE NothingCounted'
    OBVIOUS
  <2>1. iteration' = 0 => log_skolemcount' = 0
    <3>1. CASE CountSample
      BY <3>1 DEF CountSample, TypeOK, rule
    <3>2. CASE ~CountSample
      BY <3>2, RuleFixed DEF rule
    <3> QED
      BY <3>1, <3>2
  <2>2. generated' # 0 => input.s2 > 0
    <3>1. CASE UnigenCallback
      BY <3>1 DEF UnigenCallback
    <3>2. CASE ~UnigenCallback
      BY <3>2, PoolFixed
    <3> QED
      BY <3>1, <3>2
  <2> QED
    BY <2>1, <2>2, InputFixed
<1>3. TypeOK /\ LongRunInv /\ NothingCounted /\ UndefinedOnlyAtZeroTotal /\ [Next]_vars
        => UndefinedOnlyAtZeroTotal'
  <2> SUFFICES ASSUME TypeOK, LongRunInv, NothingCounted, UndefinedOnlyAtZeroTotal,
                      [Next]_vars, pc' = "undefined"
               PROVE  log_skolemcount' = 0
    BY DEF UndefinedOnlyAtZeroTotal
  <2>1. ~CountSample
    BY DEF CountSample
  <2>2. log_skolemcount' = log_skolemcount /\ iteration' = iteration
    BY <2>1, RuleFixed DEF rule
  <2> SUFFICES log_skolemcount = 0
    BY <2>2
  <2>3. CASE GetSampleNumEst
    <3>1. iteration = 0
      BY <2>3 DEF GetSampleNumEst, LongRunInv, PoolSince
    <3> QED
      BY <3>1
  <2>4. CASE Refill
    BY <2>4 DEF Refill
  <2>5. CASE ReadPastEnd
    <3>1. SampleIndex \in Nat /\ Len(samples_from_unisamp) \in Nat
      BY IndexNat DEF TypeOK
    <3>2. ~(input.s2 > 0)
      BY <2>5, <3>1, IndexFromRefill DEF ReadPastEnd, LongRunInv
    <3>3. generated = 0
      BY <3>2
    <3>4. iteration = 0
      BY <3>3 DEF LongRunInv, PoolSince
    <3> QED
      BY <3>4
  <2>6. CASE UNCHANGED vars \/ Stopped \/ UnigenCallback
    BY <2>6 DEF Stopped, UnigenCallback, UndefinedOnlyAtZeroTotal, vars
  <2>7. CASE \/ GetEst0 \/ GetGCount \/ GanakExit \/ StartSampling
             \/ SamplingReturns \/ LeaveLoop \/ Finish
    BY <2>7 DEF GetEst0, GetGCount, GanakExit, StartSampling, SamplingReturns,
                LeaveLoop, Finish
  <2> QED
    BY <2>1, <2>3, <2>4, <2>5, <2>6, <2>7 DEF Next
<1> QED
  BY <1>1, <1>2, <1>3, TypeCorrect, LongRunCorrect, PTL DEF Spec

\* The divisors of the code: the counters have answered what okay says, and the
\* total is 0 only before the first sample.
DivisorInv ==
  /\ pc \in {"get_est0", "get_g_count"} => okay /\ s2size = 0 /\ seeds = <<>>
  /\ pc \notin {"get_est0", "get_g_count"} \cup Ended => (okay <=> s2size # 0)
  /\ log_skolemcount = 0 <=> iteration = 0

\* Every sample is a model of G, so that F has two models under it or more:
\* with such logarithms the divisors are as the invariant says.
THEOREM DivisorsCorrect ==
  ASSUME SampleLogs \subseteq Nat \ {0}
  PROVE  Spec => []DivisorInv
<1>1. Init => DivisorInv
  BY DEF Init, DivisorInv
<1>2. TypeOK /\ DivisorInv /\ [Next]_vars => DivisorInv'
  <2> SUFFICES ASSUME TypeOK, DivisorInv, [Next]_vars PROVE DivisorInv'
    OBVIOUS
  <2>1. CASE GetEst0 \/ GanakExit
    BY <2>1 DEF GetEst0, GanakExit, DivisorInv, Ended, counts, pool, rule
  <2>2. CASE GetGCount
    BY <2>2 DEF GetGCount, DivisorInv, Ended, pool, rule
  <2>3. CASE GetSampleNumEst
    <3>1. pc' \in {"get_samples", "sigfpe", "undefined"}
      BY <2>3 DEF GetSampleNumEst, DivideByZero
    <3> QED
      BY <2>3, <3>1 DEF GetSampleNumEst, DivisorInv, Ended, counts, rule
  <2>4. CASE StartSampling \/ UnigenCallback \/ SamplingReturns
    BY <2>4 DEF StartSampling, UnigenCallback, SamplingReturns, DivisorInv, Ended,
                counts, rule
  <2>5. CASE Refill
    <3>1. pc' \in {"resampling", "sigfpe", "undefined"}
      BY <2>5 DEF Refill, DivideByZero
    <3> QED
      BY <2>5, <3>1 DEF Refill, DivisorInv, Ended, counts, rule
  <2>6. CASE CountSample
    <3>1. PICK l \in SampleLogs :
            /\ iteration' = iteration + 1 /\ pc' = "while"
            /\ log_skolemcount' = log_skolemcount + l
      BY <2>6, Constants DEF CountSample
    <3>2. log_skolemcount' # 0 /\ iteration' # 0
      BY <3>1, Constants DEF TypeOK
    <3>3. pc \in {"while", "create"} /\ UNCHANGED <<okay, s2size>>
      BY <2>6 DEF CountSample, AboutToCount, counts
    <3> QED
      BY <3>1, <3>2, <3>3 DEF DivisorInv, Ended
  <2>7. CASE ReadPastEnd \/ LeaveLoop
    BY <2>7 DEF ReadPastEnd, LeaveLoop, AboutToCount, DivisorInv, Ended, counts, rule
  <2>8. CASE Finish
    BY <2>8 DEF Finish, DivisorInv, Ended, counts, rule
  <2>9. CASE Stopped \/ UNCHANGED vars
    BY <2>9 DEF Stopped, DivisorInv, vars, counts, pool, rule
  <2> QED
    BY <2>1, <2>2, <2>3, <2>4, <2>5, <2>6, <2>7, <2>8, <2>9 DEF Next
<1> QED
  BY <1>1, <1>2, TypeCorrect, PTL DEF Spec

\* A larger factor makes a larger product.
LEMMA TimesMonotone ==
  ASSUME NEW a \in Nat, NEW b \in Int, NEW c \in Int, b <= c
  PROVE  a * b <= a * c /\ b * a <= c * a
<1>1. a * (c - b) \in Nat
  OBVIOUS
<1>2. a * (c - b) = a * c - a * b
  OBVIOUS
<1>3. a * b \in Int /\ a * c \in Int /\ b * a = a * b /\ c * a = a * c
  OBVIOUS
<1> QED
  BY <1>1, <1>2, <1>3

\* An error of L per unit, below M * A, is within M of A times as many units.
LEMMA WithinThreshold ==
  ASSUME NEW s \in Nat, NEW L \in Nat, NEW d \in Nat, NEW M \in Nat, NEW A \in Nat,
         NEW n \in Int, L <= M * A, A * s * d <= n
  PROVE  s * L * d <= M * n
<1> DEFINE x == s * d
<1>1. x \in Nat /\ A * s * d = A * x /\ s * L * d = L * x
  OBVIOUS
<1> HIDE DEF x
<1>2. M * A \in Nat /\ A * x \in Nat /\ L * x \in Nat
  BY <1>1, TimesNat
<1>3. L * x <= (M * A) * x
  BY <1>1, <1>2, TimesMonotone
<1>4. (M * A) * x = M * (A * x)
  BY <1>1
<1>5. M * (A * x) <= M * n
  BY <1>1, <1>2, TimesMonotone
<1>6. (M * A) * x \in Int /\ M * n \in Int
  BY <1>1, <1>2
<1> QED
  BY <1>1, <1>2, <1>3, <1>4, <1>5, <1>6

\* The final check of an estimate with samples: it does not refuse.
LEMMA EstimateAccepted ==
  ASSUME TypeOK, okay, MaxError * ApproxThreshold >= LogEpsC,
         ~BelowThreshold(Estimate)
  PROVE  ~ErrorDominates(Estimate)
<1> USE Constants
<1> DEFINE n == est0 * iteration + thresh * s2size
<1>1. est0 \in Int /\ s2size \in Nat /\ iteration \in Nat /\ thresh \in Nat
  BY ThreshNat DEF TypeOK
<1>2. n \in Int
  BY <1>1
<1>3. Estimate.num = n /\ Estimate.den = iteration
  BY DEF Estimate
<1> HIDE DEF n
<1> DEFINE bound == ApproxThreshold * s2size * iteration
           error == s2size * LogEpsC * iteration
<1>4. bound \in Int /\ error \in Int /\ MaxError * n \in Int
  BY <1>1, <1>2
<1>5. bound <= n
  <2>1. ~(n < bound)
    BY <1>3 DEF BelowThreshold
  <2> HIDE DEF bound
  <2> QED
    BY <1>2, <1>4, <2>1
<1>6. LogEpsC <= MaxError * ApproxThreshold
  OBVIOUS
<1>7. error <= MaxError * n
  BY <1>1, <1>2, <1>5, <1>6, WithinThreshold
<1> HIDE DEF error
<1>8. ~(error > MaxError * n)
  BY <1>4, <1>7
<1> QED
  BY <1>3, <1>8 DEF ErrorDominates, error

\* When G has been counted 0 a signal is raised only after F has been counted above
\* the number of inputs.  When it has not, the divisions are by numbers above 0, but
\* for a G without an input variable and without a model.
THEOREM SignalCorrect ==
  ASSUME SampleLogs \subseteq Nat \ {0}, PairLogs \subseteq Nat \ {0}
  PROVE  Spec => []SignalOnlyAfterOvercount
<1> USE Constants
<1>1. Init => SignalOnlyAfterOvercount
  BY DEF Init, SignalOnlyAfterOvercount
<1>2. TypeOK /\ ControlInv /\ DivisorInv /\ SignalOnlyAfterOvercount /\ [Next]_vars
        => SignalOnlyAfterOvercount'
  <2> SUFFICES ASSUME TypeOK, ControlInv, DivisorInv, SignalOnlyAfterOvercount,
                      [Next]_vars, pc' = "sigfpe"
               PROVE  \/ est0' < 0 /\ ~okay'
                      \/ okay' /\ input'.forall = 0 /\ input'.s2 = 0
    BY DEF SignalOnlyAfterOvercount
  <2>1. CASE GetSampleNumEst
    <3>1. /\ pc = "get_sample_num_est" /\ ~(input.s2 > 0) /\ input.forall = 0
          /\ okay' = okay /\ input' = input
      BY <2>1 DEF GetSampleNumEst, DivideByZero, FirstLogs, counts, setup
    <3>2. okay
      BY <3>1 DEF ControlInv, Ended
    <3> QED
      BY <3>1, <3>2 DEF TypeOK
  <2>2. ~Refill
    <3> SUFFICES ASSUME Refill PROVE FALSE
      OBVIOUS
    <3>1. iteration > 1 /\ log_skolemcount = 0
      BY DEF Refill, PoolIsDry
    <3> QED
      BY <3>1 DEF DivisorInv
  <2>3. ~CountSample
    BY DEF CountSample
  <2>4. CASE Finish
    <3>1. pc = "get_est1" /\ (okay <=> s2size # 0) /\ UNCHANGED <<est0, okay>>
      BY <2>4 DEF Finish, DivisorInv, Ended, counts
    <3>2. ~okay
      <4> SUFFICES ASSUME okay PROVE FALSE
        OBVIOUS
      <4>1. log_skolemcount > thresh /\ log_skolemcount \in Nat /\ thresh \in Nat
        BY <3>1, ThreshNat DEF ControlInv, TypeOK
      <4>2. iteration # 0
        <5>1. log_skolemcount # 0
          BY <4>1
        <5> QED
          BY <5>1 DEF DivisorInv
      <4> QED
        BY <2>4, <3>1, <4>2 DEF Finish
    <3> QED
      <4>1. s2size = 0 /\ Estimate = [num |-> est0, den |-> 1]
        BY <3>1, <3>2 DEF Estimate
      <4>2. ErrorDominates(Estimate)
        BY <2>4, <3>2 DEF Finish
      <4>3. 0 * LogEpsC * 1 > MaxError * est0
        BY <4>1, <4>2 DEF ErrorDominates
      <4>4. ~(est0 >= 0)
        <5> SUFFICES ASSUME est0 >= 0 PROVE FALSE
          OBVIOUS
        <5>1. est0 \in Nat
          BY DEF TypeOK
        <5>2. MaxError * est0 \in Nat
          BY <5>1, TimesNat
        <5>3. 0 * LogEpsC * 1 = 0
          OBVIOUS
        <5> QED
          BY <4>3, <5>2, <5>3
      <4> QED
        BY <3>1, <3>2, <4>4 DEF TypeOK
  <2>5. CASE Stopped \/ UNCHANGED vars
    BY <2>5 DEF Stopped, SignalOnlyAfterOvercount, vars, counts, setup
  <2>6. CASE UnigenCallback
    BY <2>6 DEF UnigenCallback
  <2>7. CASE \/ GetEst0 \/ GetGCount \/ GanakExit \/ StartSampling
             \/ SamplingReturns \/ ReadPastEnd \/ LeaveLoop
    BY <2>7 DEF GetEst0, GetGCount, GanakExit, StartSampling, SamplingReturns,
                ReadPastEnd, LeaveLoop
  <2> QED
    BY <2>1, <2>2, <2>3, <2>4, <2>5, <2>6, <2>7 DEF Next
<1> QED
  BY <1>1, <1>2, TypeCorrect, ControlCorrect, DivisorsCorrect, PTL DEF Spec

\* If a count that stands ApproxThreshold times above the size of S2 is within
\* the limit, which holds of the defaults, the final check refuses no result.
THEOREM RefusalCorrect ==
  ASSUME SampleLogs \subseteq Nat \ {0}, MaxError * ApproxThreshold >= LogEpsC
  PROVE  Spec => []NeverRefused
<1> USE Constants
<1>1. Init => NeverRefused
  BY DEF Init, NeverRefused
<1>2. TypeOK /\ DivisorInv /\ NeverRefused /\ [Next]_vars => NeverRefused'
  <2> SUFFICES ASSUME TypeOK, DivisorInv, NeverRefused, [Next]_vars, pc' = "exited"
               PROVE  seeds' = <<>>
    BY DEF NeverRefused
  <2>1. CASE GanakExit
    BY <2>1 DEF GanakExit, DivisorInv, pool
  <2>2. ~Finish
    <3> SUFFICES ASSUME Finish PROVE FALSE
      OBVIOUS
    <3>1. /\ ErrorDominates(Estimate) /\ s2size # 0 /\ ~BelowThreshold(Estimate)
          /\ pc = "get_est1"
      BY DEF Finish
    <3>2. okay
      BY <3>1 DEF DivisorInv, Ended
    <3> QED
      BY <3>1, <3>2, EstimateAccepted
  <2>3. CASE Stopped \/ UNCHANGED vars
    BY <2>3 DEF Stopped, NeverRefused, vars, pool
  <2>4. ~(GetSampleNumEst \/ Refill)
    BY DEF GetSampleNumEst, Refill, DivideByZero
  <2>5. CASE UnigenCallback
    BY <2>5 DEF UnigenCallback
  <2>6. CASE \/ GetEst0 \/ GetGCount \/ StartSampling \/ SamplingReturns
             \/ CountSample \/ ReadPastEnd \/ LeaveLoop
    BY <2>6 DEF GetEst0, GetGCount, StartSampling, SamplingReturns,
                CountSample, ReadPastEnd, LeaveLoop
  <2> QED
    BY <2>1, <2>2, <2>3, <2>4, <2>5, <2>6 DEF Next
<1> QED
  BY <1>1, <1>2, TypeCorrect, DivisorsCorrect, PTL DEF Spec

(***************************************************************************)
(* The seeds of the sampler.                                               *)
(***************************************************************************)

\* The seed of --seed s at iteration i, and the condition that it comes back to
\* none of an earlier iteration: no multiple of s is one of 2^32.
SeedAt(i, s) == (i * s) % Word

SeedsApart(s) == \A d \in 1 .. MaxIteration : SeedAt(d, s) # 0

\* The iteration grows between two refills, and each seed is that of one of the
\* iterations up to the last refill.
SeedInv ==
  /\ pc \in {"get_est0", "get_g_count", "get_sample_num_est", "get_samples"} =>
       seeds = <<>>
  /\ pc = "while" =>
       sample_clearance_iteration = 0 \/ sample_clearance_iteration < iteration
  /\ \A k \in 1 .. Len(seeds) : \E i \in 0 .. sample_clearance_iteration :
       seeds[k] = SeedAt(i, options.seed)
  /\ options.seed # 0 =>
       \A k, l \in 1 .. Len(seeds) : k < l => seeds[k] # seeds[l]

\* Only the start and the refills call the sampler, and only a refill clears.
LEMMA SeedsFixed ==
  ASSUME [Next]_vars, ~StartSampling, ~Refill
  PROVE  UNCHANGED <<seeds, sample_clearance_iteration>>
<1>1. CASE GetEst0 \/ GetGCount \/ GanakExit \/ GetSampleNumEst
  BY <1>1 DEF GetEst0, GetGCount, GanakExit, GetSampleNumEst, pool
<1>2. CASE UnigenCallback \/ SamplingReturns
  BY <1>2 DEF UnigenCallback, SamplingReturns, pool
<1>3. CASE CountSample \/ ReadPastEnd \/ LeaveLoop \/ Finish
  BY <1>3 DEF CountSample, ReadPastEnd, LeaveLoop, Finish, pool
<1>4. CASE Stopped \/ UNCHANGED vars
  BY <1>4 DEF Stopped, vars, pool
<1> QED
  BY <1>1, <1>2, <1>3, <1>4 DEF Next

\* Of a multiple nothing remains.
LEMMA MultipleMod ==
  ASSUME NEW w \in Nat \ {0}, NEW k \in Int
  PROVE  (w * k) % w = 0
  OBVIOUS

\* Numbers with the same remainder differ by a multiple.
LEMMA SameRemainder ==
  ASSUME NEW x \in Nat, NEW y \in Nat, NEW w \in Nat \ {0}, x % w = y % w
  PROVE  (y - x) % w = 0
<1>1. PICK p \in Int, q \in Int : x = w * p + (x % w) /\ y = w * q + (y % w)
  <2>1. /\ x \div w \in Int /\ x = w * (x \div w) + (x % w)
        /\ y \div w \in Int /\ y = w * (y \div w) + (y % w)
    OBVIOUS
  <2> QED
    BY <2>1
<1>2. x % w \in Int
  OBVIOUS
<1>3. y - x = w * (q - p)
  <2> DEFINE r == x % w
  <2>1. x = w * p + r /\ y = w * q + r /\ r \in Int
    BY <1>1, <1>2
  <2> HIDE DEF r
  <2> QED
    BY <2>1
<1> QED
  BY <1>3, MultipleMod

\* The seeds of two iterations are not the same.
LEMMA SeedsDiffer ==
  ASSUME NEW s \in Nat, SeedsApart(s), NEW i \in Nat, NEW j \in Nat,
         i < j, j <= MaxIteration
  PROVE  SeedAt(i, s) # SeedAt(j, s)
<1> USE Constants
<1>1. SUFFICES ASSUME (i * s) % Word = (j * s) % Word PROVE FALSE
  BY DEF SeedAt
<1>2. i * s \in Nat /\ j * s \in Nat /\ Word \in Nat \ {0}
  BY TimesNat
<1>3. (j * s - i * s) % Word = 0
  BY <1>1, <1>2, SameRemainder
<1>4. j * s - i * s = (j - i) * s
  OBVIOUS
<1>5. j - i \in 1 .. MaxIteration
  OBVIOUS
<1> QED
  BY <1>3, <1>4, <1>5 DEF SeedsApart, SeedAt

\* A refill starts a batch with a seed unlike all earlier ones.
LEMMA RefillSeeds ==
  ASSUME TypeOK, PoolInv, SeedInv, Refill, log_skolemcount # 0,
         MaxIteration < Word, options.seed # 0 => SeedsApart(options.seed)
  PROVE  /\ \A k \in 1 .. Len(seeds') : \E i \in 0 .. sample_clearance_iteration' :
              seeds'[k] = SeedAt(i, options.seed)
         /\ options.seed # 0 =>
              \A k, l \in 1 .. Len(seeds') : k < l => seeds'[k] # seeds'[l]
<1> USE Constants
<1>1. /\ options.seed \in Nat /\ iteration \in 0 .. Word - 1 /\ iteration > 1
      /\ iteration <= MaxIteration
      /\ sample_clearance_iteration \in Nat /\ seeds \in Seq(0 .. Word - 1)
  BY DEF TypeOK, Options, Refill, PoolIsDry
<1>2. sample_clearance_iteration < iteration
  BY <1>1 DEF SeedInv, Refill
<1>3. sample_clearance_iteration' = iteration
  BY <1>1, ModSmall DEF Refill
<1>4. PICK n \in Nat : n = Len(seeds)
  BY <1>1
<1>5. /\ Len(seeds') = n + 1 /\ \A k \in 1 .. n : seeds'[k] = seeds[k]
      /\ seeds'[n + 1] = SeedAt(iteration, options.seed)
  <2>1. seeds' = Append(seeds, SeedAt(iteration, options.seed))
    BY DEF Refill, SeedFor, SeedAt
  <2> QED
    BY <1>1, <1>4, <2>1
<1>6. ASSUME NEW k \in 1 .. n
      PROVE  \E i \in 0 .. sample_clearance_iteration : seeds'[k] = SeedAt(i, options.seed)
  BY <1>4, <1>5 DEF SeedInv
<1>7. ASSUME NEW k \in 1 .. n + 1
      PROVE  \E i \in 0 .. iteration : seeds'[k] = SeedAt(i, options.seed)
  <2>1. CASE k = n + 1
    <3>1. iteration \in 0 .. iteration
      BY <1>1
    <3> QED
      BY <1>5, <2>1, <3>1
  <2>2. CASE k \in 1 .. n
    <3>1. 0 .. sample_clearance_iteration \subseteq 0 .. iteration
      BY <1>1, <1>2
    <3> QED
      BY <1>6, <2>2, <3>1
  <2> QED
    BY <1>4, <2>1, <2>2
<1>8. ASSUME options.seed # 0, NEW k \in 1 .. n + 1, NEW l \in 1 .. n + 1, k < l
      PROVE  seeds'[k] # seeds'[l]
  <2>1. k \in 1 .. n /\ (l = n + 1 \/ l \in 1 .. n)
    BY <1>4, <1>8
  <2>2. CASE l = n + 1
    <3>1. PICK i \in 0 .. sample_clearance_iteration : seeds'[k] = SeedAt(i, options.seed)
      BY <1>6, <2>1
    <3>2. i \in Nat /\ i < iteration
      BY <1>1, <1>2
    <3>3. SeedAt(i, options.seed) # SeedAt(iteration, options.seed)
      BY <1>1, <1>8, <3>2, SeedsDiffer
    <3> QED
      BY <1>5, <2>2, <3>1, <3>3
  <2>3. CASE l \in 1 .. n
    BY <1>4, <1>5, <1>8, <2>1, <2>3 DEF SeedInv
  <2> QED
    BY <2>1, <2>2, <2>3
<1> QED
  BY <1>3, <1>5, <1>7, <1>8

\* Whatever the number of refills, no batch is a repetition of an earlier one,
\* unless --seed is 0, its default: then every batch is.  The seed may wrap: an
\* odd --seed meets the hypothesis for all iterations below 2^32, and 2^a times an
\* odd one for those below 2^(32 - a).
THEOREM SeedsCorrect ==
  ASSUME MaxIteration < Word, \A o \in OptionSet : o.seed # 0 => SeedsApart(o.seed)
  PROVE  Spec => []FreshSeeds
<1> USE Constants
<1>1. Init => SeedInv
  BY DEF Init, SeedInv
<1>2. TypeOK /\ TypeOK' /\ PoolInv /\ SeedInv /\ [Next]_vars => SeedInv'
  <2> SUFFICES ASSUME TypeOK, TypeOK', PoolInv, SeedInv, [Next]_vars
               PROVE  SeedInv'
    OBVIOUS
  <2>0. options \in OptionSet /\ options.seed \in Nat /\ options' = options
    BY InputFixed DEF TypeOK, Options
  <2>1. CASE StartSampling
    <3>1. sample_clearance_iteration = 0 /\ iteration = 0 /\ seeds = <<>>
      BY <2>1 DEF StartSampling, PoolInv, SeedInv, TypeOK
    <3>2. SeedFor(1) = 0
      BY <3>1 DEF SeedFor
    <3>3. seeds' = <<0>> /\ sample_clearance_iteration' = 0 /\ pc' = "sampling"
      BY <2>1, <3>1, <3>2 DEF StartSampling
    <3>4. 0 \in 0 .. 0 /\ SeedAt(0, options.seed) = 0
      BY <2>0 DEF SeedAt
    <3>5. Len(seeds') = 1 /\ seeds'[1] = 0
      BY <3>3
    <3>6. /\ \A k \in 1 .. 1 : \E i \in 0 .. 0 : seeds'[k] = SeedAt(i, options.seed)
          /\ \A k, l \in 1 .. 1 : ~(k < l)
      BY <3>4, <3>5
    <3> QED
      BY <2>0, <3>3, <3>5, <3>6 DEF SeedInv
  <2>2. CASE Refill
    <3>1. CASE log_skolemcount = 0
      BY <2>0, <2>2, <3>1 DEF Refill, DivideByZero, SeedInv, pool
    <3>2. CASE log_skolemcount # 0
      <4>1. pc' = "resampling"
        BY <2>2, <3>2 DEF Refill
      <4> QED
        BY <2>0, <2>2, <3>2, <4>1, RefillSeeds DEF SeedInv
    <3> QED
      BY <3>1, <3>2
  <2>3. CASE ~StartSampling /\ ~Refill
    <3>1. UNCHANGED <<seeds, sample_clearance_iteration>>
      BY <2>3, SeedsFixed
    <3>2. pc' \in {"get_est0", "get_g_count", "get_sample_num_est", "get_samples"}
            => pc \in {"get_est0", "get_g_count", "get_sample_num_est", "get_samples"}
      BY <2>3 DEF Next, GetEst0, GetGCount, GanakExit, GetSampleNumEst, DivideByZero,
                  UnigenCallback, SamplingReturns, CountSample, ReadPastEnd, LeaveLoop,
                  Finish, Stopped, vars
    <3>3. pc' = "while" =>
            sample_clearance_iteration = 0 \/ sample_clearance_iteration < iteration'
      <4>1. CASE CountSample
        BY <4>1 DEF CountSample, AboutToCount, SeedInv, PoolInv, TypeOK
      <4>2. CASE SamplingReturns
        BY <4>2 DEF SamplingReturns, PoolInv, TypeOK
      <4>3. CASE UnigenCallback \/ Stopped \/ UNCHANGED vars
        BY <4>3 DEF UnigenCallback, Stopped, SeedInv, vars, rule
      <4>4. CASE \/ GetEst0 \/ GetGCount \/ GanakExit \/ GetSampleNumEst
                 \/ ReadPastEnd \/ LeaveLoop \/ Finish
        BY <4>4 DEF GetEst0, GetGCount, GanakExit, GetSampleNumEst, DivideByZero,
                    ReadPastEnd, LeaveLoop, Finish
      <4> QED
        BY <2>3, <4>1, <4>2, <4>3, <4>4 DEF Next
    <3> QED
      BY <2>0, <3>1, <3>2, <3>3 DEF SeedInv
  <2> QED
    BY <2>1, <2>2, <2>3
<1>3. TypeOK /\ SeedInv => FreshSeeds
  <2> SUFFICES ASSUME TypeOK, SeedInv, NEW k \in DOMAIN seeds, NEW l \in DOMAIN seeds,
                      k # l
               PROVE  seeds[k] = seeds[l] <=> options.seed = 0
    BY DEF FreshSeeds
  <2>1. /\ seeds \in Seq(0 .. Word - 1) /\ DOMAIN seeds = 1 .. Len(seeds)
        /\ options.seed \in Nat
    BY DEF TypeOK, Options
  <2>2. CASE options.seed = 0
    <3>1. \A i \in Nat : SeedAt(i, 0) = 0
      BY DEF SeedAt
    <3>2. sample_clearance_iteration \in Nat
      BY DEF TypeOK
    <3>3. seeds[k] = 0 /\ seeds[l] = 0
      BY <2>1, <2>2, <3>1, <3>2 DEF SeedInv
    <3> QED
      BY <2>2, <3>3
  <2>3. CASE options.seed # 0
    BY <2>1, <2>3 DEF SeedInv
  <2> QED
    BY <2>2, <2>3
<1> QED
  BY <1>1, <1>2, <1>3, TypeCorrect, PoolCorrect, PTL DEF Spec
=============================================================================
