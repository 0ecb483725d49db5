----------------------------- MODULE Main_proofs -----------------------------
(***************************************************************************)
(* Theorems about Main, for every command line: what the setters leave to  *)
(* count(), in the order in which main() calls them, what of the           *)
(* tolerances given is spent, and that count() then runs as SklFC does, so *)
(* that the theorems about SklFC are theorems about the program.           *)
(***************************************************************************)
EXTENDS Main, SklFC_proofs

(***************************************************************************)
(* Fractions.                                                              *)
(***************************************************************************)

\* Percents and multiples of fractions are fractions.
LEMMA FracMade ==
  /\ \A k \in Int : Percent(k) \in Frac /\ Percent(k).num = k /\ Percent(k).den = 100
  /\ \A f \in Frac, n \in Int, d \in Nat \ {0} :
       /\ Times(f, n, d) \in Frac
       /\ Times(f, n, d).num = f.num * n /\ Times(f, n, d).den = f.den * d
<1>1. \A k \in Int : Percent(k) \in Frac /\ Percent(k).num = k /\ Percent(k).den = 100
  BY DEF Percent, Frac
<1>2. ASSUME NEW f \in Frac, NEW n \in Int, NEW d \in Nat \ {0}
      PROVE  /\ Times(f, n, d) \in Frac
             /\ Times(f, n, d).num = f.num * n /\ Times(f, n, d).den = f.den * d
  <2>1. f.num \in Int /\ f.den \in Nat \ {0}
    BY DEF Frac
  <2>2. f.num * n \in Int /\ f.den * d \in Nat \ {0}
    BY <2>1
  <2> QED
    BY <2>2 DEF Times, Frac
<1> QED
  BY <1>1, <1>2

\* A divisor goes into its multiple.
LEMMA Divides ==
  ASSUME NEW a \in Nat, NEW b \in Nat \ {0}, a % b = 0
  PROVE  a \div b \in Nat /\ a = b * (a \div b)
  OBVIOUS

\* A multiple above 0 is not below its divisor.
LEMMA Multiple ==
  ASSUME NEW a \in Nat \ {0}, NEW b \in Nat \ {0}, a % b = 0
  PROVE  a >= b
  OBVIOUS

\* A common factor above 0 may be taken off both sides.
LEMMA Cancel ==
  ASSUME NEW c \in Nat \ {0}, NEW a \in Int, NEW b \in Int, c * a <= c * b
  PROVE  a <= b
<1> SUFFICES ASSUME b + 1 <= a PROVE FALSE
  OBVIOUS
<1>1. c * (b + 1) <= c * a
  BY TimesMonotone
<1>2. c * (b + 1) = c * b + c /\ c * b \in Int /\ c * a \in Int
  OBVIOUS
<1> QED
  BY <1>1, <1>2

\* Plus is the sum, whichever denominator it takes.
LEMMA PlusValue ==
  ASSUME NEW f \in Frac, NEW g \in Frac
  PROVE  /\ Plus(f, g) \in Frac
         /\ Plus(f, g).num * (f.den * g.den)
              = (f.num * g.den + g.num * f.den) * Plus(f, g).den
<1> DEFINE h == Plus(f, g)
<1>1. f.num \in Int /\ f.den \in Nat \ {0} /\ g.num \in Int /\ g.den \in Nat \ {0}
  BY DEF Frac
<1>2. CASE f.den % g.den = 0 /\ g.den % f.den # 0
  <2> DEFINE q == f.den \div g.den
  <2>1. q \in Nat /\ f.den = g.den * q
    BY <1>1, <1>2, Divides
  <2>2. h = [num |-> f.num + g.num * q, den |-> f.den]
    BY <1>2 DEF Plus, Frac
  <2> HIDE DEF q, h
  <2>3. h.num = f.num + g.num * q /\ h.den = f.den /\ h \in Frac
    BY <1>1, <2>1, <2>2 DEF Frac
  <2>4. (f.num + g.num * q) * (f.den * g.den) = (f.num * g.den + g.num * (g.den * q)) * f.den
    BY <1>1, <2>1
  <2> QED
    BY <2>1, <2>3, <2>4 DEF h
<1>3. CASE f.den % g.den # 0 /\ g.den % f.den = 0
  <2> DEFINE q == g.den \div f.den
  <2>1. q \in Nat /\ g.den = f.den * q
    BY <1>1, <1>3, Divides
  <2>2. h = [num |-> g.num + f.num * q, den |-> g.den]
    BY <1>3 DEF Plus, Frac
  <2> HIDE DEF q, h
  <2>3. h.num = g.num + f.num * q /\ h.den = g.den /\ h \in Frac
    BY <1>1, <2>1, <2>2 DEF Frac
  <2>4. (g.num + f.num * q) * (f.den * g.den) = (f.num * (f.den * q) + g.num * f.den) * g.den
    BY <1>1, <2>1
  <2> QED
    BY <2>1, <2>3, <2>4 DEF h
<1>4. CASE f.den % g.den # 0 /\ g.den % f.den # 0
  <2>1. h = [num |-> f.num * g.den + g.num * f.den, den |-> f.den * g.den]
    BY <1>4 DEF Plus
  <2> HIDE DEF h
  <2>2. h.num = f.num * g.den + g.num * f.den /\ h.den = f.den * g.den
    BY <2>1
  <2>3. h.num \in Int /\ h.den \in Nat \ {0} /\ h \in Frac
    BY <1>1, <2>1, <2>2 DEF Frac
  <2> QED
    BY <2>2, <2>3 DEF h
<1>5. CASE f.den % g.den = 0 /\ g.den % f.den = 0
  <2>1. f.den = g.den /\ f.den \div g.den = 1 /\ g.den \div f.den = 1
    <3>1. f.den >= g.den /\ g.den >= f.den
      BY <1>1, <1>5, Multiple
    <3>2. f.den = g.den
      BY <1>1, <3>1
    <3> QED
      BY <1>1, <3>2
  <2>2. /\ [f EXCEPT !.num = @ + g.num * 1] = [num |-> f.num + g.num, den |-> f.den]
        /\ [g EXCEPT !.num = @ + f.num * 1] = [num |-> f.num + g.num, den |-> f.den]
    BY <1>1, <2>1 DEF Frac
  <2>3. h = [num |-> f.num + g.num, den |-> f.den]
    BY <1>5, <2>1, <2>2 DEF Plus
  <2> HIDE DEF h
  <2>4. h.num = f.num + g.num /\ h.den = f.den /\ h \in Frac
    BY <1>1, <2>3 DEF Frac
  <2>5. (f.num + g.num) * (f.den * f.den) = (f.num * f.den + g.num * f.den) * f.den
    BY <1>1
  <2> QED
    BY <2>1, <2>4, <2>5 DEF h
<1> QED
  BY <1>2, <1>3, <1>4, <1>5

\* Least is one of the two, and above neither.
LEMMA LeastBelow ==
  ASSUME NEW f \in Frac, NEW g \in Frac
  PROVE  /\ Least(f, g) \in {f, g}
         /\ AtMost(Least(f, g), f) /\ AtMost(Least(f, g), g)
<1>1. f.num * g.den \in Int /\ g.num * f.den \in Int /\ f.num * f.den \in Int
        /\ g.num * g.den \in Int
  BY DEF Frac
<1> QED
  BY <1>1 DEF Least, AtMost

(***************************************************************************)
(* Types.                                                                  *)
(***************************************************************************)
Members ==
  [noguarnatee : BOOLEAN, epsilon_gc : Nat, delta_gc : Nat, epsilon : Frac,
   delta : Frac, epsilon_f : Frac, delta_f : Frac, delta_c : Frac, numthreads : Nat]

Parameters == [epsilon : Frac, delta : Frac, seed : Nat]

\* The command line that is taken.
LEMMA CommandFields ==
  ASSUME cmd \in CommandLine
  PROVE  /\ cmd.epsilon \in Nat /\ cmd.delta \in Nat
         /\ cmd.g_counter_epsilon \in Nat /\ cmd.g_counter_delta \in Nat
         /\ cmd.epsilon_weightage_fc \in 0 .. 10 /\ cmd.delta_weightage_fc \in 0 .. 10
         /\ cmd.max_error_logcounter \in Nat /\ cmd.noguarantee \in BOOLEAN
         /\ cmd.exactcount_f \in BOOLEAN /\ cmd.exactcount_g \in BOOLEAN
         /\ cmd.count_unsat_inputs \in BOOLEAN /\ cmd.seed \in Nat /\ cmd.nthreads \in Nat
  BY DEF CommandLine

\* The two bounds of which EpsilonBeside is the least are fractions.
LEMMA BoundsFrac ==
  ASSUME NEW e \in Nat, NEW g \in Nat
  PROVE  /\ [num |-> e - g, den |-> 100 + g] \in Frac
         /\ [num |-> 100 * e + g * e - 100 * g, den |-> 10000] \in Frac
  BY DEF Frac

\* What is left beside the counter of G is a fraction.
LEMMA BesideFrac ==
  ASSUME NEW e \in Nat, NEW g \in Nat
  PROVE  EpsilonBeside(e, g) \in Frac /\ DeltaBeside(e, g) \in Frac
  BY BoundsFrac, LeastBelow DEF EpsilonBeside, DeltaBeside

\* The places of the calls.
LEMMA CallPlaces ==
  /\ Len(Calls) = 9
  /\ Calls[1] = "set_noguarntee_mode" /\ Calls[2] = "set_oracles"
  /\ Calls[3] = "set_g_counter_parameters" /\ Calls[4] = "set_num_threads"
  /\ Calls[5] = "set_parameters" /\ Calls[6] = "set_ignore_unsat"
  /\ Calls[7] = "set_static_samp" /\ Calls[8] = "set_dklr_parameters"
  /\ Calls[9] = "set_constants"
  BY DEF Calls

\* MainTypeOK, with names for the two records.
Typed ==
  /\ p \in Parameters /\ skl \in Members
  /\ cmd \in CommandLine /\ at \in 1 .. 10
  /\ status \in {"none", "success", "failure"}
  /\ stage \in {"arguments", "file", "settings", "count", "exited", "aborted",
                "sigfpe", "threads"}

\* The two say the same.
LEMMA TypedIsTypeOK == Typed <=> MainTypeOK
<1>1. Len(Calls) + 1 = 10
  BY CallPlaces
<1> QED
  BY <1>1, Zenon DEF Typed, MainTypeOK, Parameters, Members

\* The types, and the place of main() among its calls.
SettingTypes ==
  /\ Typed
  /\ options \in Options
  /\ stage \in {"arguments", "file"} => at = 1
  /\ stage = "settings" => at \in 1 .. 9

\* What a setter leaves alone, and where it is called.
LEMMA CallEffect ==
  ASSUME SettingTypes, NEW f, Call(f)
  PROVE  /\ stage = "settings" /\ at \in 1 .. 9 /\ Calls[at] = f /\ at' = at + 1
         /\ cmd' = cmd /\ status' = status
  BY DEF Call, SettingTypes

\* Each setter is called at its place.
LEMMA CallOrder ==
  ASSUME SettingTypes
  PROVE  /\ Call("set_noguarntee_mode") => at = 1
         /\ Call("set_oracles") => at = 2
         /\ Call("set_g_counter_parameters") => at = 3
         /\ Call("set_num_threads") => at = 4
         /\ Call("set_parameters") => at = 5
         /\ Call("set_ignore_unsat") => at = 6
         /\ Call("set_static_samp") => at = 7
         /\ Call("set_dklr_parameters") => at = 8
         /\ Call("set_constants") => at = 9
<1>1. \A f : Call(f) => at \in 1 .. 9 /\ Calls[at] = f
  BY CallEffect
<1>2. at \in 1 .. 9 => \/ at = 1 \/ at = 2 \/ at = 3 \/ at = 4 \/ at = 5
                       \/ at = 6 \/ at = 7 \/ at = 8 \/ at = 9
  OBVIOUS
<1> QED
  BY <1>1, <1>2, CallPlaces

\* A step of count() changes nothing that main() has set.
LEMMA CountStepKeeps ==
  ASSUME CountStep
  PROVE  UNCHANGED <<stage, cmd, at, p, skl, status, options>>
  BY InputFixed DEF CountStep

\* Types, and the place of main() among its calls, in every reachable state.
THEOREM SettingTypesCorrect == MainSpec => []SettingTypes
<1>1. MainInit => SettingTypes
  <2> SUFFICES ASSUME MainInit PROVE SettingTypes
    OBVIOUS
  <2>1. Percent(80) \in Frac /\ Percent(0) \in Frac
    BY FracMade
  <2>2. p \in Parameters /\ skl \in Members
    BY <2>1 DEF MainInit, MemberDefaults, Parameters, Members
  <2>3. options \in Options
    BY DEF MainInit, OptionDefaults, Options
  <2>4. cmd \in CommandLine /\ at = 1 /\ stage = "arguments" /\ status = "none"
    BY MainAssumption DEF MainInit, MainAssumption
  <2> QED
    BY <2>2, <2>3, <2>4 DEF SettingTypes, Typed
<1>2. SettingTypes /\ [MainNext]_mainVars => SettingTypes'
  <2> SUFFICES ASSUME SettingTypes, [MainNext]_mainVars PROVE SettingTypes'
    OBVIOUS
  <2>0. /\ p \in Parameters /\ skl \in Members /\ options \in Options
        /\ cmd \in CommandLine /\ at \in 1 .. 10
        /\ status \in {"none", "success", "failure"}
    BY DEF SettingTypes, Typed
  <2>1. CASE UNCHANGED mainVars \/ MainStopped \/ CountStep
    BY <2>1, CountStepKeeps DEF MainStopped, mainVars, vars, setup, SettingTypes, Typed
  <2>2. CASE ReadCommandLine
    <3>1. cmd.epsilon \in Nat /\ cmd.delta \in Nat /\ cmd.seed \in Nat
      BY <2>0, CommandFields
    <3>2. Percent(cmd.epsilon) \in Frac /\ Percent(cmd.delta) \in Frac
      BY <3>1, FracMade
    <3>3. p' \in Parameters
      BY <2>0, <2>2, <3>1, <3>2 DEF ReadCommandLine, Exits, Parameters
    <3> QED
      BY <2>0, <2>2, <3>3 DEF ReadCommandLine, Exits, vars, setup, SettingTypes, Typed
  <2>3. CASE ReadFile \/ ReturnFromCount
    BY <2>0, <2>3 DEF ReadFile, ReturnFromCount, Exits, vars, setup, SettingTypes, Typed
  <2>4. CASE SetNoguarnteeMode
    <3>1. Call("set_noguarntee_mode") /\ at = 1
      BY <2>4, CallOrder DEF SetNoguarnteeMode
    <3>2. stage = "settings" /\ at' = 2 /\ cmd' = cmd /\ status' = status
      BY <3>1, CallEffect
    <3>3. skl' \in Members
      BY <2>0, <2>4, CommandFields DEF SetNoguarnteeMode, Members
    <3> QED
      BY <2>0, <2>4, <3>2, <3>3 DEF SetNoguarnteeMode, SettingTypes, Typed
  <2>5. CASE SetOracles
    <3>1. Call("set_oracles") /\ at = 2
      BY <2>5, CallOrder DEF SetOracles
    <3>2. stage = "settings" /\ at' = 3 /\ cmd' = cmd /\ status' = status
      BY <3>1, CallEffect
    <3>3. options' \in Options
      BY <2>0, <2>5, CommandFields DEF SetOracles, Options
    <3> QED
      BY <2>0, <2>5, <3>2, <3>3 DEF SetOracles, SettingTypes, Typed
  <2>6. CASE SetGCounterParameters
    <3>1. Call("set_g_counter_parameters") /\ at = 3
      BY <2>6, CallOrder DEF SetGCounterParameters
    <3>2. stage = "settings" /\ at' = 4 /\ cmd' = cmd /\ status' = status
      BY <3>1, CallEffect
    <3> DEFINE eg == IF skl.noguarnatee THEN 480 ELSE cmd.g_counter_epsilon
               dg == IF skl.noguarnatee THEN 80 ELSE cmd.g_counter_delta
    <3>10. eg \in Nat /\ dg \in Nat
      BY <2>0, CommandFields
    <3>11. skl' = [skl EXCEPT !.epsilon_gc = eg, !.delta_gc = dg]
      BY <2>6 DEF SetGCounterParameters
    <3>3. skl' \in Members
      <4> HIDE DEF eg, dg
      <4> QED
        BY <2>0, <3>10, <3>11 DEF Members
    <3>4. /\ EpsilonBeside(cmd.epsilon, cmd.g_counter_epsilon) \in Frac
          /\ DeltaBeside(cmd.delta, cmd.g_counter_delta) \in Frac
      <4>1. /\ cmd.epsilon \in Nat /\ cmd.delta \in Nat
            /\ cmd.g_counter_epsilon \in Nat /\ cmd.g_counter_delta \in Nat
        BY <2>0, CommandFields
      <4> QED
        BY <4>1, BesideFrac
    <3>5. p' \in Parameters
      BY <2>0, <2>6, <3>4 DEF SetGCounterParameters, Parameters
    <3> QED
      BY <2>0, <2>6, <3>2, <3>3, <3>5 DEF SetGCounterParameters, SettingTypes, Typed
  <2>7. CASE SetNumThreads
    <3>1. Call("set_num_threads") /\ at = 4
      BY <2>7, CallOrder DEF SetNumThreads
    <3>2. stage = "settings" /\ at' = 5 /\ cmd' = cmd /\ status' = status
      BY <3>1, CallEffect
    <3>3. skl' \in Members
      BY <2>0, <2>7, CommandFields DEF SetNumThreads, Members
    <3> QED
      BY <2>0, <2>7, <3>2, <3>3 DEF SetNumThreads, SettingTypes, Typed
  <2>8. CASE SetParameters
    <3>1. Call("set_parameters") /\ at = 5
      BY <2>8, CallOrder DEF SetParameters
    <3>2. stage = "settings" /\ at' = 6 /\ cmd' = cmd /\ status' = status
      BY <3>1, CallEffect
    <3>3. skl' \in Members
      BY <2>0, <2>8 DEF SetParameters, Members, Parameters
    <3>4. options' \in Options
      BY <2>0, <2>8 DEF SetParameters, Options, Parameters
    <3> QED
      BY <2>0, <2>8, <3>2, <3>3, <3>4 DEF SetParameters, SettingTypes, Typed
  <2>9. CASE SetIgnoreUnsat
    <3>1. Call("set_ignore_unsat") /\ at = 6
      BY <2>9, CallOrder DEF SetIgnoreUnsat
    <3>2. stage = "settings" /\ at' = 7 /\ cmd' = cmd /\ status' = status
      BY <3>1, CallEffect
    <3>3. options' \in Options
      BY <2>0, <2>9, CommandFields DEF SetIgnoreUnsat, Options
    <3> QED
      BY <2>0, <2>9, <3>2, <3>3 DEF SetIgnoreUnsat, SettingTypes, Typed
  <2>10. CASE SetStaticSamp
    <3>1. Call("set_static_samp") /\ at = 7
      BY <2>10, CallOrder DEF SetStaticSamp
    <3>2. stage = "settings" /\ at' = 8 /\ cmd' = cmd /\ status' = status
      BY <3>1, CallEffect
    <3>3. options' \in Options
      BY <2>0, <2>10 DEF SetStaticSamp, static_samp_est, Options
    <3> QED
      BY <2>0, <2>10, <3>2, <3>3 DEF SetStaticSamp, SettingTypes, Typed
  <2>11. CASE SetDklrParameters
    <3>1. Call("set_dklr_parameters") /\ at = 8
      BY <2>11, CallOrder DEF SetDklrParameters
    <3>2. stage = "settings" /\ at' = 9 /\ cmd' = cmd /\ status' = status
      BY <3>1, CallEffect
    <3>3. /\ skl.epsilon \in Frac /\ skl.delta \in Frac
          /\ Percent(-cmd.max_error_logcounter) \in Frac
          /\ cmd.epsilon_weightage_fc \in Int /\ cmd.delta_weightage_fc \in Int
          /\ 10 - cmd.delta_weightage_fc \in Int
      BY <2>0, CommandFields, FracMade DEF Members
    <3>4. Plus(skl.epsilon, Percent(-cmd.max_error_logcounter)) \in Frac
      BY <3>3, PlusValue
    <3>5. /\ Times(Plus(skl.epsilon, Percent(-cmd.max_error_logcounter)),
                   cmd.epsilon_weightage_fc, 10) \in Frac
          /\ Times(skl.delta, cmd.delta_weightage_fc, 10) \in Frac
          /\ Times(skl.delta, 10 - cmd.delta_weightage_fc, 10) \in Frac
      BY <3>3, <3>4, FracMade
    <3>6. skl' \in Members
      BY <2>0, <2>11, <3>5 DEF SetDklrParameters, Members
    <3>7. stage' \in {"settings", "aborted"}
      BY <2>11, <3>2 DEF SetDklrParameters
    <3> QED
      BY <2>0, <2>11, <3>2, <3>6, <3>7 DEF SetDklrParameters, SettingTypes, Typed
  <2>12. CASE SetConstants
    <3>1. Call("set_constants") /\ at = 9
      BY <2>12, CallOrder DEF SetConstants
    <3>2. stage = "settings" /\ at' = 10 /\ cmd' = cmd /\ status' = status
      BY <3>1, CallEffect
    <3>3. p.epsilon \in Frac /\ p.delta \in Frac
      BY <2>0 DEF Parameters
    <3>4. Times(p.epsilon, 6, 10) \in Frac /\ Times(p.delta, 1, 2) \in Frac
      BY <3>3, FracMade
    <3>5. skl' \in Members
      BY <2>0, <2>12, <3>3, <3>4 DEF SetConstants, Members
    <3>6. stage' \in {"sigfpe", "threads", "count"}
      BY <2>12 DEF SetConstants
    <3> QED
      BY <2>0, <2>12, <3>2, <3>5, <3>6 DEF SetConstants, SettingTypes, Typed
  <2> QED
    BY <2>1, <2>2, <2>3, <2>4, <2>5, <2>6, <2>7, <2>8, <2>9, <2>10, <2>11, <2>12
       DEF MainNext
<1> QED
  BY <1>1, <1>2, PTL DEF MainSpec

(***************************************************************************)
(* What the setters have done when the next of them is called.             *)
(***************************************************************************)

\* Until G's share is taken off, p has what the command line gave.
Untouched ==
  stage \in {"file", "settings"} /\ at <= 3 =>
    p.epsilon = Percent(cmd.epsilon) /\ p.delta = Percent(cmd.delta)

\* From the third call on, G's counter has its parameters and p has the rest.
Shared ==
  stage \in {"settings", "count"} /\ at > 3 =>
    /\ ~cmd.noguarantee => /\ skl.epsilon_gc = cmd.g_counter_epsilon
                           /\ skl.delta_gc = cmd.g_counter_delta
    /\ IF options.exactcount_s2
       THEN p.epsilon = Percent(cmd.epsilon) /\ p.delta = Percent(cmd.delta)
       ELSE /\ p.epsilon = EpsilonBeside(cmd.epsilon, cmd.g_counter_epsilon)
            /\ p.delta = DeltaBeside(cmd.delta, cmd.g_counter_delta)

Configured ==
  /\ Untouched
  /\ stage \in {"settings", "count"} =>
       /\ at > 1 => skl.noguarnatee = cmd.noguarantee
       /\ at > 5 => skl.epsilon = p.epsilon /\ skl.delta = p.delta
       /\ at > 8 => /\ Assertions => Positive(skl.epsilon)
                    /\ skl.delta_c = Times(skl.delta, 10 - cmd.delta_weightage_fc, 10)
  /\ Shared
  /\ stage = "count" =>
       /\ at = 10
       /\ skl.epsilon_f = Times(skl.epsilon, 6, 10) /\ skl.delta_f = Times(skl.delta, 1, 2)
       /\ Positive(skl.delta)

\* What the setters have done, in every reachable state.
THEOREM SettingsConfigured == MainSpec => []Configured
<1>1. MainInit => Configured
  BY DEF MainInit, Configured, Untouched, Shared
<1>2. SettingTypes /\ Configured /\ [MainNext]_mainVars => Configured'
  <2> SUFFICES ASSUME SettingTypes, Configured, [MainNext]_mainVars PROVE Configured'
    OBVIOUS
  <2>0. p \in Parameters /\ skl \in Members /\ options \in Options /\ at \in 1 .. 10
    BY DEF SettingTypes, Typed
  <2>1. CASE UNCHANGED mainVars \/ MainStopped \/ CountStep
    BY <2>1, CountStepKeeps
       DEF MainStopped, mainVars, vars, setup, Configured, Untouched, Shared
  <2>2. CASE ReadCommandLine
    <3>1. at = 1
      BY <2>2 DEF ReadCommandLine, SettingTypes
    <3> QED
      BY <2>2, <3>1
         DEF ReadCommandLine, Exits, vars, setup, Configured, Untouched, Shared
  <2>3. CASE ReadFile \/ ReturnFromCount
    <3>1. stage = "file" => at = 1
      BY DEF SettingTypes
    <3> QED
      BY <2>3, <3>1 DEF ReadFile, ReturnFromCount, Exits, vars, setup,
                        Configured, Untouched, Shared
  <2>4. CASE SetNoguarnteeMode
    <3>1. Call("set_noguarntee_mode") /\ at = 1 /\ at' = 2 /\ cmd' = cmd /\ stage = "settings"
      BY <2>4, CallOrder, CallEffect DEF SetNoguarnteeMode
    <3> QED
      BY <2>0, <2>4, <3>1 DEF SetNoguarnteeMode, Configured, Untouched, Shared, Members, Parameters
  <2>5. CASE SetOracles
    <3>1. Call("set_oracles") /\ at = 2 /\ at' = 3 /\ cmd' = cmd /\ stage = "settings"
      BY <2>5, CallOrder, CallEffect DEF SetOracles
    <3> QED
      BY <2>0, <2>5, <3>1 DEF SetOracles, Configured, Untouched, Shared, Members, Parameters
  <2>6. CASE SetGCounterParameters
    <3>1. Call("set_g_counter_parameters") /\ at = 3 /\ at' = 4 /\ cmd' = cmd /\ stage = "settings"
      BY <2>6, CallOrder, CallEffect DEF SetGCounterParameters
    <3> QED
      BY <2>0, <2>6, <3>1 DEF SetGCounterParameters, Configured, Untouched, Shared, Members, Parameters
  <2>7. CASE SetNumThreads
    <3>1. Call("set_num_threads") /\ at = 4 /\ at' = 5 /\ cmd' = cmd /\ stage = "settings"
      BY <2>7, CallOrder, CallEffect DEF SetNumThreads
    <3> QED
      BY <2>0, <2>7, <3>1 DEF SetNumThreads, Configured, Untouched, Shared, Members, Parameters
  <2>8. CASE SetParameters
    <3>1. Call("set_parameters") /\ at = 5 /\ at' = 6 /\ cmd' = cmd /\ stage = "settings"
      BY <2>8, CallOrder, CallEffect DEF SetParameters
    <3> QED
      BY <2>0, <2>8, <3>1 DEF SetParameters, Configured, Untouched, Shared, Members, Parameters, Options
  <2>9. CASE SetIgnoreUnsat
    <3>1. Call("set_ignore_unsat") /\ at = 6 /\ at' = 7 /\ cmd' = cmd /\ stage = "settings"
      BY <2>9, CallOrder, CallEffect DEF SetIgnoreUnsat
    <3> QED
      BY <2>0, <2>9, <3>1 DEF SetIgnoreUnsat, Configured, Untouched, Shared, Options
  <2>10. CASE SetStaticSamp
    <3>1. Call("set_static_samp") /\ at = 7 /\ at' = 8 /\ cmd' = cmd /\ stage = "settings"
      BY <2>10, CallOrder, CallEffect DEF SetStaticSamp
    <3> QED
      BY <2>0, <2>10, <3>1 DEF SetStaticSamp, Configured, Untouched, Shared, Options
  <2>11. CASE SetDklrParameters
    <3>1. Call("set_dklr_parameters") /\ at = 8 /\ at' = 9 /\ cmd' = cmd /\ stage = "settings"
      BY <2>11, CallOrder, CallEffect DEF SetDklrParameters
    <3>2. CASE Assertions /\ ~Positive(skl.epsilon)
      BY <2>11, <3>1, <3>2 DEF SetDklrParameters, Configured, Untouched, Shared
    <3>3. CASE Assertions => Positive(skl.epsilon)
      <4> DEFINE ef == Times(Plus(skl.epsilon, Percent(-cmd.max_error_logcounter)),
                             cmd.epsilon_weightage_fc, 10)
                 df == Times(skl.delta, cmd.delta_weightage_fc, 10)
                 dc == Times(skl.delta, 10 - cmd.delta_weightage_fc, 10)
      <4>1. /\ skl' = [skl EXCEPT !.epsilon_f = ef, !.delta_f = df, !.delta_c = dc]
            /\ stage' = stage /\ p' = p /\ options' = options
        BY <2>11, <3>3 DEF SetDklrParameters
      <4> HIDE DEF ef, df, dc
      <4>2. /\ skl'.epsilon = skl.epsilon /\ skl'.delta = skl.delta /\ skl'.delta_c = dc
            /\ skl'.noguarnatee = skl.noguarnatee
            /\ skl'.epsilon_gc = skl.epsilon_gc /\ skl'.delta_gc = skl.delta_gc
        BY <2>0, <4>1 DEF Members
      <4>3. skl'.delta_c = Times(skl'.delta, 10 - cmd'.delta_weightage_fc, 10)
        BY <3>1, <4>2 DEF dc
      <4> QED
        BY <3>1, <3>3, <4>1, <4>2, <4>3 DEF Configured, Untouched, Shared
    <3> QED
      BY <3>2, <3>3
  <2>12. CASE SetConstants
    <3>1. Call("set_constants") /\ at = 9 /\ at' = 10 /\ cmd' = cmd /\ stage = "settings"
      BY <2>12, CallOrder, CallEffect DEF SetConstants
    <3> QED
      BY <2>0, <2>12, <3>1 DEF SetConstants, Configured, Untouched, Shared, Members, Parameters
  <2> QED
    BY <2>1, <2>2, <2>3, <2>4, <2>5, <2>6, <2>7, <2>8, <2>9, <2>10, <2>11, <2>12
       DEF MainNext
<1> QED
  BY <1>1, <1>2, SettingTypesCorrect, PTL DEF MainSpec

(***************************************************************************)
(* The theorems on what count() goes on with.                              *)
(***************************************************************************)

\* MainTypeOK: the types of what main() keeps.
THEOREM MainTypeCorrect == MainSpec => []MainTypeOK
<1>1. SettingTypes => MainTypeOK
  BY TypedIsTypeOK DEF SettingTypes
<1> QED
  BY <1>1, SettingTypesCorrect, PTL

\* CountsOnlyWithTolerance: with assertions count() runs with an epsilon, a delta
\* and an epsilon_f above 0, whatever the command line.
THEOREM ToleranceCorrect == MainSpec => []CountsOnlyWithTolerance
<1>1. SettingTypes /\ Configured => CountsOnlyWithTolerance
  <2> SUFFICES ASSUME SettingTypes, Configured, Assertions, Counting
               PROVE  Positive(skl.epsilon) /\ Positive(skl.delta) /\ Positive(skl.epsilon_f)
    BY DEF CountsOnlyWithTolerance
  <2>1. skl.epsilon \in Frac
    BY DEF SettingTypes, Typed, Members
  <2>2. Positive(skl.epsilon) /\ Positive(skl.delta) /\ skl.epsilon_f = Times(skl.epsilon, 6, 10)
    BY DEF Configured, Counting
  <2>3. skl.epsilon_f.num = skl.epsilon.num * 6
    BY <2>1, <2>2, FracMade
  <2> QED
    BY <2>1, <2>2, <2>3 DEF Positive, Frac
<1> QED
  BY <1>1, SettingTypesCorrect, SettingsConfigured, PTL

\* An error e of the estimate beside one of g percent of G's count: (1 + e)(1 + g)
\* is at most 1 + E, and (1 - e) / (1 + g) is at least 1 - E.
WithinBudget(e, E, g) ==
  /\ (e.den + e.num) * (100 + g) <= e.den * (100 + E)
  /\ e.den * (100 - E) * (100 + g) <= (e.den - e.num) * 10000

\* EpsilonBeside is within the budget: above by the first of its two bounds, below
\* by the second.
LEMMA ErrorShared ==
  ASSUME NEW E \in Nat, NEW g \in Nat
  PROVE  WithinBudget(EpsilonBeside(E, g), E, g)
<1> DEFINE e == EpsilonBeside(E, g)
<1> DEFINE up == [num |-> E - g, den |-> 100 + g]
           down == [num |-> 100 * E + g * E - 100 * g, den |-> 10000]
<1>1. e \in Frac /\ AtMost(e, up) /\ AtMost(e, down)
  <2>1. up \in Frac /\ down \in Frac
    BY BoundsFrac
  <2>2. e = Least(up, down)
    BY DEF EpsilonBeside
  <2> HIDE DEF up, down, e
  <2>3. e \in {up, down} /\ AtMost(e, up) /\ AtMost(e, down)
    BY <2>1, <2>2, LeastBelow
  <2> QED
    BY <2>1, <2>3
<1>2. /\ e.num * (100 + g) <= (E - g) * e.den
      /\ e.num * 10000 <= (100 * E + g * E - 100 * g) * e.den
  BY <1>1 DEF AtMost
<1>3. e.num \in Int /\ e.den \in Nat
  BY <1>1 DEF Frac
<1> HIDE DEF e
<1> DEFINE n == e.num
           d == e.den
           w == 100 * E + g * E - 100 * g
<1>4. n \in Int /\ d \in Int /\ w \in Int /\ (100 - E) * (100 + g) = 10000 - w
  BY <1>3
<1>5. n * (100 + g) <= (E - g) * d /\ n * 10000 <= w * d
  BY <1>2
<1> HIDE DEF n, d
<1>6. (d + n) * (100 + g) <= d * (100 + E)
  <2>1. /\ (d + n) * (100 + g) = d * (100 + g) + n * (100 + g)
        /\ d * (100 + g) + (E - g) * d = d * (100 + E)
    BY <1>4
  <2>2. d * (100 + g) \in Int /\ n * (100 + g) \in Int /\ (E - g) * d \in Int
    BY <1>4
  <2> QED
    BY <1>5, <2>1, <2>2
<1>7. d * (100 - E) * (100 + g) <= (d - n) * 10000
  <2>1. d * (100 - E) * (100 + g) = d * ((100 - E) * (100 + g))
    BY <1>4
  <2> HIDE DEF w
  <2>2. d * (10000 - w) = d * 10000 - w * d /\ w * d \in Int
    BY <1>4
  <2>3. (d - n) * 10000 = d * 10000 - n * 10000
    BY <1>4
  <2> QED
    BY <1>4, <1>5, <2>1, <2>2, <2>3
<1> QED
  BY <1>6, <1>7 DEF n, d, e, WithinBudget

\* ErrorBudget: the error left to the estimate and that of G's counter make up
\* --epsilon, whatever the command line.
THEOREM ErrorBudgetCorrect == MainSpec => []ErrorBudget
<1>1. SettingTypes /\ Configured => ErrorBudget
  <2> SUFFICES ASSUME SettingTypes, Configured, Counting, ~cmd.noguarantee
               PROVE  ErrorBudget
    BY DEF ErrorBudget
  <2>1. cmd.epsilon \in Nat /\ cmd.g_counter_epsilon \in Nat
    BY CommandFields DEF SettingTypes, Typed
  <2>2. /\ skl.epsilon = p.epsilon /\ skl.epsilon_gc = cmd.g_counter_epsilon
        /\ IF options.exactcount_s2
           THEN p.epsilon = Percent(cmd.epsilon)
           ELSE p.epsilon = EpsilonBeside(cmd.epsilon, cmd.g_counter_epsilon)
    BY DEF Configured, Shared, Counting
  <2>3. CASE options.exactcount_s2
    <3>1. Percent(cmd.epsilon).num \in Int /\ Percent(cmd.epsilon).den \in Int
      BY <2>1 DEF Percent
    <3>2. Equal(Percent(cmd.epsilon), Percent(cmd.epsilon))
      BY <3>1 DEF Equal, AtMost
    <3> QED
      BY <2>2, <2>3, <3>2 DEF ErrorBudget
  <2>4. CASE ~options.exactcount_s2
    <3>1. skl.epsilon = EpsilonBeside(cmd.epsilon, cmd.g_counter_epsilon)
      BY <2>2, <2>4
    <3>2. WithinBudget(skl.epsilon, cmd.epsilon, cmd.g_counter_epsilon)
      BY <2>1, <3>1, ErrorShared
    <3> QED
      BY <2>2, <2>4, <3>2 DEF ErrorBudget, WithinBudget
  <2> QED
    BY <2>3, <2>4
<1> QED
  BY <1>1, SettingTypesCorrect, SettingsConfigured, PTL

\* A half of a delta d and a half of it or less are at most d.
LEMMA HalvesOfDelta ==
  ASSUME NEW d \in Frac, d.num \in Nat, NEW w \in 5 .. 10
  PROVE  /\ Plus(Times(d, 1, 2), Times(d, 10 - w, 10)) \in Frac
         /\ AtMost(Plus(Times(d, 1, 2), Times(d, 10 - w, 10)), d)
<1> DEFINE a == Times(d, 1, 2)
           b == Times(d, 10 - w, 10)
           s == Plus(a, b)
           n == d.num
           m == d.den
<1>1. n \in Nat /\ m \in Nat \ {0} /\ 10 - w \in 0 .. 5
  BY DEF Frac
<1>2. a \in Frac /\ a.num = n * 1 /\ a.den = m * 2
  BY FracMade
<1>3. b \in Frac /\ b.num = n * (10 - w) /\ b.den = m * 10
  BY <1>1, FracMade
<1>4. /\ s \in Frac
      /\ s.num * (a.den * b.den) = (a.num * b.den + b.num * a.den) * s.den
  BY <1>2, <1>3, PlusValue
<1>5. s.num \in Int /\ s.den \in Nat \ {0}
  BY <1>4 DEF Frac
<1> HIDE DEF a, b, s
<1> DEFINE x == s.num
           y == s.den
           r == 10 - w
<1>6. x * ((m * 2) * (m * 10)) = ((n * 1) * (m * 10) + (n * r) * (m * 2)) * y
  BY <1>2, <1>3, <1>4
<1>7. x \in Int /\ y \in Nat \ {0} /\ r \in 0 .. 5
  BY <1>1, <1>5
<1> HIDE DEF x, y, r, n, m
<1>8. (20 * m) * (x * m) <= (20 * m) * (n * y)
  <2> DEFINE z == (n * m) * y
  <2>1. z \in Nat
    BY <1>1, <1>7
  <2>2. (20 * m) * (x * m) = x * ((m * 2) * (m * 10))
    BY <1>1, <1>7
  <2>3. ((n * 1) * (m * 10) + (n * r) * (m * 2)) * y = (10 + 2 * r) * z
    BY <1>1, <1>7
  <2>4. (20 * m) * (n * y) = 20 * z
    BY <1>1, <1>7
  <2> HIDE DEF z
  <2>5. (10 + 2 * r) * z <= 20 * z
    <3>1. r = 0 \/ r = 1 \/ r = 2 \/ r = 3 \/ r = 4 \/ r = 5
      BY <1>7
    <3> QED
      BY <2>1, <3>1
  <2> QED
    BY <1>6, <2>2, <2>3, <2>4, <2>5
<1>9. x * m <= n * y
  <2>1. 20 * m \in Nat \ {0} /\ x * m \in Int /\ n * y \in Int
    BY <1>1, <1>7
  <2> QED
    BY <1>8, <2>1, Cancel
<1> QED
  BY <1>4, <1>9 DEF AtMost, x, y, n, m, s, a, b

\* Percents added to what leaves room for them stay below the whole.
LEMMA PercentAdded ==
  ASSUME NEW s \in Frac, NEW x \in Nat, NEW D \in Nat,
         s.num * 100 + x * s.den <= D * s.den
  PROVE  AtMost(Plus(s, Percent(x)), Percent(D))
<1> DEFINE t == Plus(s, Percent(x))
           q == Percent(x)
<1>1. q \in Frac /\ q.num = x /\ q.den = 100
  BY FracMade
<1>2. t \in Frac /\ t.num * (s.den * q.den) = (s.num * q.den + q.num * s.den) * t.den
  BY <1>1, PlusValue
<1>3. /\ t.num \in Int /\ t.den \in Nat \ {0} /\ s.num \in Int /\ s.den \in Nat \ {0}
  BY <1>2 DEF Frac
<1>4. t.num * (s.den * 100) = (s.num * 100 + x * s.den) * t.den
  BY <1>1, <1>2
<1> HIDE DEF t, q
<1> DEFINE u == t.num
           v == t.den
           m == s.den
           a == s.num * 100 + x * s.den
<1>5. u \in Int /\ v \in Nat \ {0} /\ m \in Nat \ {0} /\ a \in Int
  BY <1>3
<1>6. u * (m * 100) = a * v /\ a <= D * m
  BY <1>4
<1> HIDE DEF u, v, m, a
<1>7. v * a <= v * (D * m)
  <2>1. D * m \in Int
    BY <1>5
  <2> QED
    BY <1>5, <1>6, <2>1, TimesMonotone
<1>8. m * (u * 100) <= m * (D * v)
  <2>1. m * (u * 100) = u * (m * 100) /\ a * v = v * a /\ v * (D * m) = m * (D * v)
    BY <1>5
  <2> QED
    BY <1>6, <1>7, <2>1
<1>9. u * 100 <= D * v
  <2>1. u * 100 \in Int /\ D * v \in Int
    BY <1>5
  <2> QED
    BY <1>5, <1>8, <2>1, Cancel
<1>10. Percent(D).num = D /\ Percent(D).den = 100
  BY FracMade
<1> QED
  BY <1>9, <1>10 DEF AtMost, u, v, t, q

\* ConfidenceBudget: the probabilities to fail add up to --delta at most, whatever
\* the command line, if --delta-fc is 0.5 or more.
THEOREM ConfidenceBudgetCorrect == MainSpec => []ConfidenceBudget
<1>1. SettingTypes /\ Configured => ConfidenceBudget
  <2> SUFFICES ASSUME SettingTypes, Configured, Counting, ~cmd.noguarantee,
                      cmd.delta_weightage_fc >= 5
               PROVE  AtMost(Plus(Plus(skl.delta_f, skl.delta_c),
                                  Percent(IF options.exactcount_s2 THEN 0 ELSE skl.delta_gc)),
                             Percent(cmd.delta))
    BY DEF ConfidenceBudget
  <2> DEFINE d == skl.delta
             s == Plus(skl.delta_f, skl.delta_c)
             g == cmd.g_counter_delta
             D == cmd.delta
  <2>1. /\ cmd.delta \in Nat /\ cmd.g_counter_delta \in Nat
        /\ cmd.delta_weightage_fc \in 5 .. 10
    BY CommandFields DEF SettingTypes, Typed
  <2>2. /\ skl.delta = p.delta /\ skl.delta_gc = cmd.g_counter_delta
        /\ skl.delta_f = Times(skl.delta, 1, 2)
        /\ skl.delta_c = Times(skl.delta, 10 - cmd.delta_weightage_fc, 10)
        /\ Positive(skl.delta)
        /\ IF options.exactcount_s2
           THEN p.delta = Percent(cmd.delta)
           ELSE p.delta = DeltaBeside(cmd.delta, cmd.g_counter_delta)
    BY DEF Configured, Shared, Counting
  <2>3. d \in Frac /\ d.num \in Nat /\ d.num > 0 /\ d.den \in Nat \ {0}
    BY <2>2 DEF SettingTypes, Typed, Members, Positive, Frac
  <2>4. s \in Frac /\ s.num * d.den <= d.num * s.den
    BY <2>1, <2>2, <2>3, HalvesOfDelta DEF AtMost
  <2>5. s.num \in Int /\ s.den \in Nat \ {0}
    BY <2>4 DEF Frac
  <2>6. CASE options.exactcount_s2
    <3>1. d.num = D /\ d.den = 100
      BY <2>1, <2>2, <2>6, FracMade
    <3> HIDE DEF s
    <3>2. s.num * 100 + 0 * s.den <= D * s.den
      BY <2>4, <2>5, <3>1
    <3>3. AtMost(Plus(s, Percent(0)), Percent(D))
      BY <2>1, <2>4, <3>2, PercentAdded
    <3> QED
      BY <2>6, <3>3 DEF s
  <2>7. CASE ~options.exactcount_s2
    <3>1. d.num = D - g /\ d.den = 100 + g
      BY <2>2, <2>7 DEF DeltaBeside
    <3> HIDE DEF s, D, g
    <3>2. s.num * (100 + g) <= (D - g) * s.den /\ D - g > 0 /\ D \in Nat /\ g \in Nat
      BY <2>1, <2>3, <2>4, <3>1 DEF D, g
    <3>3. s.num * 100 <= (D - g) * s.den
      <4>1. CASE s.num >= 0
        <5>1. s.num * (100 + g) = s.num * 100 + s.num * g /\ s.num * g >= 0
          BY <2>5, <3>2, <4>1
        <5>2. (D - g) * s.den \in Int
          BY <2>5, <3>2
        <5> QED
          BY <2>5, <3>2, <5>1, <5>2
      <4>2. CASE s.num < 0
        <5>1. (D - g) * s.den >= 0 /\ (D - g) * s.den \in Int
          BY <2>5, <3>2
        <5> QED
          BY <2>5, <4>2, <5>1
      <4> QED
        BY <2>5, <4>1, <4>2
    <3>4. s.num * 100 + g * s.den <= D * s.den
      <4>1. (D - g) * s.den = D * s.den - g * s.den /\ D * s.den \in Int /\ g * s.den \in Int
        BY <2>5, <3>2
      <4> QED
        BY <2>5, <3>3, <4>1
    <3>5. AtMost(Plus(s, Percent(g)), Percent(D))
      BY <2>4, <3>2, <3>4, PercentAdded
    <3> QED
      BY <2>2, <2>7, <3>5 DEF s, D, g
  <2> QED
    BY <2>6, <2>7
<1> QED
  BY <1>1, SettingTypesCorrect, SettingsConfigured, PTL

(***************************************************************************)
(* count() as main() runs it.                                              *)
(***************************************************************************)

\* SklFC with the settings of the command line, and the theorems about it.
Proved == INSTANCE SklFC_proofs WITH options <- SettingsOf(cmd)

\* The settings made so far are those of the command line, and main() has called
\* all setters when it is in count().
SettingsMade ==
  /\ stage \in {"settings", "count"} =>
       /\ at > 2 => /\ options.exactcount_s0 = cmd.exactcount_f
                    /\ options.exactcount_s2 = cmd.exactcount_g
       /\ at > 5 => options.seed = cmd.seed
       /\ at > 6 => options.ignore_unsat = ~cmd.count_unsat_inputs
       /\ at > 7 => options.static_samp
       /\ at <= 5 => p.seed = cmd.seed
  /\ stage = "file" => p.seed = cmd.seed
  /\ stage = "count" => at = 10
  /\ cmd \in CommandLines

\* The settings, in every reachable state.
THEOREM SettingsMadeCorrect == MainSpec => []SettingsMade
<1>1. MainInit => SettingsMade
  BY DEF MainInit, SettingsMade
<1>2. SettingTypes /\ SettingsMade /\ [MainNext]_mainVars => SettingsMade'
  <2> SUFFICES ASSUME SettingTypes, SettingsMade, [MainNext]_mainVars PROVE SettingsMade'
    OBVIOUS
  <2>0. p \in Parameters /\ options \in Options /\ at \in 1 .. 10
    BY DEF SettingTypes, Typed
  <2>1. CASE UNCHANGED mainVars \/ MainStopped \/ CountStep
    BY <2>1, CountStepKeeps DEF MainStopped, mainVars, vars, setup, SettingsMade
  <2>2. CASE ReadCommandLine \/ ReadFile \/ ReturnFromCount
    <3>1. stage = "file" => at = 1
      BY DEF SettingTypes
    <3> QED
      BY <2>2, <3>1 DEF ReadCommandLine, ReadFile, ReturnFromCount, Exits, vars, setup,
                        SettingsMade
  <2>3. CASE SetNoguarnteeMode
    <3>1. Call("set_noguarntee_mode") /\ at = 1 /\ at' = 2 /\ cmd' = cmd /\ stage = "settings"
      BY <2>3, CallOrder, CallEffect DEF SetNoguarnteeMode
    <3> QED
      BY <2>3, <3>1 DEF SetNoguarnteeMode, SettingsMade
  <2>4. CASE SetOracles
    <3>1. Call("set_oracles") /\ at = 2 /\ at' = 3 /\ cmd' = cmd /\ stage = "settings"
      BY <2>4, CallOrder, CallEffect DEF SetOracles
    <3> QED
      BY <2>0, <2>4, <3>1 DEF SetOracles, SettingsMade, Options
  <2>5. CASE SetGCounterParameters
    <3>1. Call("set_g_counter_parameters") /\ at = 3 /\ at' = 4 /\ cmd' = cmd
            /\ stage = "settings"
      BY <2>5, CallOrder, CallEffect DEF SetGCounterParameters
    <3>2. p'.seed = p.seed
      BY <2>0, <2>5 DEF SetGCounterParameters, Parameters
    <3> QED
      BY <2>5, <3>1, <3>2 DEF SetGCounterParameters, SettingsMade
  <2>6. CASE SetNumThreads
    <3>1. Call("set_num_threads") /\ at = 4 /\ at' = 5 /\ cmd' = cmd /\ stage = "settings"
      BY <2>6, CallOrder, CallEffect DEF SetNumThreads
    <3> QED
      BY <2>6, <3>1 DEF SetNumThreads, SettingsMade
  <2>7. CASE SetParameters
    <3>1. Call("set_parameters") /\ at = 5 /\ at' = 6 /\ cmd' = cmd /\ stage = "settings"
      BY <2>7, CallOrder, CallEffect DEF SetParameters
    <3> QED
      BY <2>0, <2>7, <3>1 DEF SetParameters, SettingsMade, Options
  <2>8. CASE SetIgnoreUnsat
    <3>1. Call("set_ignore_unsat") /\ at = 6 /\ at' = 7 /\ cmd' = cmd /\ stage = "settings"
      BY <2>8, CallOrder, CallEffect DEF SetIgnoreUnsat
    <3> QED
      BY <2>0, <2>8, <3>1 DEF SetIgnoreUnsat, SettingsMade, Options
  <2>9. CASE SetStaticSamp
    <3>1. Call("set_static_samp") /\ at = 7 /\ at' = 8 /\ cmd' = cmd /\ stage = "settings"
      BY <2>9, CallOrder, CallEffect DEF SetStaticSamp
    <3> QED
      <4>1. static_samp_est
        BY DEF static_samp_est
      <4>2. options' = [options EXCEPT !.static_samp = static_samp_est] /\ p' = p
              /\ stage' = stage
        BY <2>9 DEF SetStaticSamp
      <4> QED
        BY <2>0, <3>1, <4>1, <4>2 DEF SettingsMade, Options
  <2>10. CASE SetDklrParameters
    <3>1. Call("set_dklr_parameters") /\ at = 8 /\ at' = 9 /\ cmd' = cmd /\ stage = "settings"
      BY <2>10, CallOrder, CallEffect DEF SetDklrParameters
    <3> QED
      <4>1. stage' \in {"settings", "aborted"} /\ p' = p /\ options' = options
        BY <2>10, <3>1 DEF SetDklrParameters
      <4> QED
        BY <3>1, <4>1 DEF SettingsMade
  <2>11. CASE SetConstants
    <3>1. Call("set_constants") /\ at = 9 /\ at' = 10 /\ cmd' = cmd /\ stage = "settings"
      BY <2>11, CallOrder, CallEffect DEF SetConstants
    <3> QED
      BY <2>11, <3>1 DEF SetConstants, SettingsMade
  <2> QED
    BY <2>1, <2>2, <2>3, <2>4, <2>5, <2>6, <2>7, <2>8, <2>9, <2>10, <2>11 DEF MainNext
<1> QED
  BY <1>1, <1>2, SettingTypesCorrect, PTL DEF MainSpec

\* In count() the settings are those of the command line.
LEMMA SettingsComplete ==
  ASSUME SettingTypes, SettingsMade, stage = "count"
  PROVE  options = SettingsOf(cmd)
<1>1. options \in Options
  BY DEF SettingTypes
<1>2. /\ options.ignore_unsat = ~cmd.count_unsat_inputs
      /\ options.exactcount_s0 = cmd.exactcount_f
      /\ options.exactcount_s2 = cmd.exactcount_g
      /\ options.static_samp = TRUE /\ options.seed = cmd.seed
  BY <1>1 DEF SettingsMade, Options
<1> QED
  BY <1>1, <1>2 DEF Options, SettingsOf

\* The operators that do not read the settings mean the same there.
LEMMA SameOperators ==
  /\ thresh = Proved!thresh /\ Ended = Proved!Ended
  /\ LoopGuard = Proved!LoopGuard /\ PoolIsDry = Proved!PoolIsDry
  /\ AboutToCount = Proved!AboutToCount /\ SampleIndex = Proved!SampleIndex
  /\ PredictedIterations = Proved!PredictedIterations /\ Estimate = Proved!Estimate
  /\ DivideByZero <=> Proved!DivideByZero
  /\ FirstLogs = Proved!FirstLogs /\ \A l : SampleNum(l) = Proved!SampleNum(l)
  /\ \A x : SeedFor(x) = Proved!SeedFor(x)
  /\ \A e, k : OracleCounts(e, k) = Proved!OracleCounts(e, k)
  /\ \A c : /\ ErrorDominates(c) = Proved!ErrorDominates(c)
            /\ BelowThreshold(c) = Proved!BelowThreshold(c)
<1>1. thresh = Proved!thresh /\ Ended = Proved!Ended
  BY DEF thresh, Proved!thresh, Ended, Proved!Ended
<1>2. LoopGuard = Proved!LoopGuard /\ PoolIsDry = Proved!PoolIsDry
  BY <1>1 DEF LoopGuard, Proved!LoopGuard, PoolIsDry, Proved!PoolIsDry
<1>3. AboutToCount = Proved!AboutToCount /\ SampleIndex = Proved!SampleIndex
  BY <1>2 DEF AboutToCount, Proved!AboutToCount, SampleIndex, Proved!SampleIndex
<1>4. PredictedIterations = Proved!PredictedIterations /\ Estimate = Proved!Estimate
  BY <1>1 DEF PredictedIterations, Proved!PredictedIterations, Estimate, Proved!Estimate
<1>5. DivideByZero <=> Proved!DivideByZero
  BY DEF DivideByZero, Proved!DivideByZero
<1>6. \A x : SeedFor(x) = Proved!SeedFor(x)
  BY DEF SeedFor, Proved!SeedFor
<1>7. \A e, k : OracleCounts(e, k) = Proved!OracleCounts(e, k)
  BY DEF OracleCounts, ApproxCounts, Proved!OracleCounts, Proved!ApproxCounts
<1>8. \A c : /\ ErrorDominates(c) = Proved!ErrorDominates(c)
             /\ BelowThreshold(c) = Proved!BelowThreshold(c)
  BY DEF ErrorDominates, Proved!ErrorDominates, BelowThreshold, Proved!BelowThreshold
<1>9. FirstLogs = Proved!FirstLogs /\ \A l : SampleNum(l) = Proved!SampleNum(l)
  BY <1>1, Zenon DEF FirstLogs, Proved!FirstLogs, SampleNum, Proved!SampleNum
<1> QED
  BY <1>1, <1>2, <1>3, <1>4, <1>5, <1>6, <1>7, <1>8, <1>9

\* With those settings a step of count() is one of SklFC as started with them.
LEMMA CountStepRuns ==
  ASSUME options = SettingsOf(cmd), CountStep
  PROVE  Proved!Next
<1>1. /\ SettingsOf(cmd) = options /\ SettingsOf(cmd') = options /\ options' = options
      /\ Next
  BY CountStepKeeps DEF CountStep
<1>2. CASE GetEst0 \/ GetGCount \/ GanakExit
  BY <1>1, <1>2, SameOperators
     DEF GetEst0, GetGCount, GanakExit, setup, counts, pool, rule,
         Proved!GetEst0, Proved!GetGCount, Proved!GanakExit, Proved!setup,
         Proved!counts, Proved!pool, Proved!rule, Proved!Next
<1>3. CASE GetSampleNumEst
  BY <1>1, <1>3, SameOperators
     DEF GetSampleNumEst, setup, counts, rule,
         Proved!GetSampleNumEst, Proved!setup, Proved!counts, Proved!rule, Proved!Next
<1>4. CASE StartSampling \/ UnigenCallback \/ SamplingReturns
  BY <1>1, <1>4, SameOperators
     DEF StartSampling, UnigenCallback, SamplingReturns, setup, counts, pool, rule,
         Proved!StartSampling, Proved!UnigenCallback, Proved!SamplingReturns,
         Proved!setup, Proved!counts, Proved!pool, Proved!rule, Proved!Next
<1>5. CASE Refill
  BY <1>1, <1>5, SameOperators
     DEF Refill, setup, counts, pool, rule, Proved!Refill,
         Proved!setup, Proved!counts, Proved!pool, Proved!rule, Proved!Next
<1>6. CASE CountSample
  BY <1>1, <1>6, SameOperators
     DEF CountSample, setup, counts, pool, rule, Proved!CountSample,
         Proved!setup, Proved!counts, Proved!pool, Proved!rule, Proved!Next
<1>7. CASE ReadPastEnd \/ LeaveLoop
  BY <1>1, <1>7, SameOperators
     DEF ReadPastEnd, LeaveLoop, setup, counts, pool, rule,
         Proved!ReadPastEnd, Proved!LeaveLoop,
         Proved!setup, Proved!counts, Proved!pool, Proved!rule, Proved!Next
<1>8. CASE Finish
  BY <1>1, <1>8, SameOperators
     DEF Finish, setup, counts, pool, rule, Proved!Finish,
         Proved!setup, Proved!counts, Proved!pool, Proved!rule, Proved!Next
<1>9. CASE Stopped
  BY <1>1, <1>9, SameOperators
     DEF Stopped, vars, setup, counts, pool, rule, Proved!Stopped, Proved!vars,
         Proved!setup, Proved!counts, Proved!pool, Proved!rule, Proved!Next
<1> QED
  BY <1>1, <1>2, <1>3, <1>4, <1>5, <1>6, <1>7, <1>8, <1>9 DEF Next

\* A run of the program is one of SklFC with the settings of the command line.
LEMMA RunsProved ==
  ASSUME \A c \in CommandLines : SettingsOf(c) \in OptionSet
  PROVE  MainSpec => Proved!Spec
<1>1. MainInit => Proved!Init
  <2>1. MainInit => Init /\ SettingsOf(cmd) \in OptionSet
    BY DEF MainInit
  <2> QED
    BY <2>1 DEF Init, Proved!Init
<1>2. SettingTypes /\ SettingsMade /\ [MainNext]_mainVars
        => [Proved!Next]_(Proved!vars)
  <2> SUFFICES ASSUME SettingTypes, SettingsMade, [MainNext]_mainVars,
                      ~UNCHANGED Proved!vars
               PROVE  Proved!Next
    OBVIOUS
  <2>1. CountStep
    <3>1. UNCHANGED <<cmd, pc, input, counts, pool, rule, result>>
            => UNCHANGED Proved!vars
      BY DEF Proved!vars, Proved!setup, Proved!counts, Proved!pool,
             Proved!rule, counts, pool, rule
    <3>2. ~CountStep => UNCHANGED <<cmd, pc, input, counts, pool, rule, result>>
      BY DEF MainNext, ReadCommandLine, ReadFile, ReturnFromCount, Exits, MainStopped,
             mainVars, vars, setup, Call, SetNoguarnteeMode, SetOracles,
             SetGCounterParameters, SetNumThreads, SetParameters, SetIgnoreUnsat,
             SetStaticSamp, SetDklrParameters, SetConstants
    <3> QED
      BY <3>1, <3>2
  <2>2. options = SettingsOf(cmd)
    BY <2>1, SettingsComplete DEF CountStep
  <2> QED
    BY <2>1, <2>2, CountStepRuns
<1> QED
  BY <1>1, <1>2, SettingTypesCorrect, SettingsMadeCorrect, PTL
     DEF MainSpec, Proved!Spec

\* The instance that has the theorems is the one of Main.
LEMMA SameEstimator ==
  /\ Estimator!Init <=> Proved!Init
  /\ [Estimator!Next]_(Estimator!vars) <=> [Proved!Next]_(Proved!vars)
<1>1. Estimator!Init <=> Proved!Init
  BY DEF Estimator!Init, Proved!Init
<1>2. UNCHANGED Estimator!vars <=> UNCHANGED Proved!vars
  BY DEF Estimator!vars, Estimator!setup, Estimator!counts, Estimator!pool,
         Estimator!rule, Proved!vars, Proved!setup, Proved!counts, Proved!pool,
         Proved!rule
<1>3. Estimator!Next <=> Proved!Next
  BY Zenon
     DEF Estimator!Next, Estimator!GetEst0, Estimator!GetGCount,
         Estimator!GanakExit, Estimator!GetSampleNumEst, Estimator!StartSampling,
         Estimator!UnigenCallback, Estimator!SamplingReturns, Estimator!Refill,
         Estimator!CountSample, Estimator!ReadPastEnd, Estimator!LeaveLoop,
         Estimator!Finish, Estimator!Stopped, Estimator!setup, Estimator!counts,
         Estimator!pool, Estimator!rule, Estimator!vars, Estimator!thresh,
         Estimator!Ended, Estimator!OracleCounts, Estimator!ApproxCounts,
         Estimator!DivideByZero, Estimator!SeedFor, Estimator!LoopGuard,
         Estimator!PoolIsDry, Estimator!PredictedIterations, Estimator!SampleIndex,
         Estimator!AboutToCount, Estimator!Estimate, Estimator!ErrorDominates,
         Estimator!BelowThreshold, Estimator!FirstLogs, Estimator!SampleNum,
         Proved!FirstLogs, Proved!SampleNum, Proved!Next, Proved!GetEst0, Proved!GetGCount,
         Proved!GanakExit, Proved!GetSampleNumEst, Proved!StartSampling,
         Proved!UnigenCallback, Proved!SamplingReturns, Proved!Refill,
         Proved!CountSample, Proved!ReadPastEnd, Proved!LeaveLoop, Proved!Finish,
         Proved!Stopped, Proved!setup, Proved!counts, Proved!pool, Proved!rule,
         Proved!vars, Proved!thresh, Proved!Ended, Proved!OracleCounts,
         Proved!ApproxCounts, Proved!DivideByZero, Proved!SeedFor, Proved!LoopGuard,
         Proved!PoolIsDry, Proved!PredictedIterations, Proved!SampleIndex,
         Proved!AboutToCount, Proved!Estimate, Proved!ErrorDominates,
         Proved!BelowThreshold
<1> QED
  BY <1>1, <1>2, <1>3

\* RunsEstimator: every run of the program is one of SklFC, started with the
\* settings of the command line, whatever that is: what is proved of count() holds
\* when main() runs it.
THEOREM EstimatorRuns ==
  ASSUME \A c \in CommandLines : SettingsOf(c) \in OptionSet
  PROVE  MainSpec => RunsEstimator
<1>1. MainSpec => Proved!Spec
  BY RunsProved
<1> QED
  BY <1>1, SameEstimator, PTL DEF RunsEstimator, Estimator!Spec, Proved!Spec

\* The assumptions of SklFC hold of it with the settings of the command line.
LEMMA EstimatorConstants ==
  /\ OptionSet \subseteq Proved!Options /\ Inputs \subseteq Proved!Problems
  /\ SizeAssumption /\ LogAssumption /\ ThresholdAssumption /\ BatchAssumption
  /\ WordAssumption /\ SettingAssumption
<1>1. Options = Proved!Options
  BY DEF Options, Proved!Options
<1>2. OptionSet \subseteq Proved!Options
  BY <1>1, SettingAssumption DEF SettingAssumption
<1>3. Problems = Proved!Problems
  BY DEF Problems, Proved!Problems
<1>4. Inputs \subseteq Proved!Problems
  BY <1>3, SizeAssumption DEF SizeAssumption
<1> QED
  BY <1>2, <1>4, SizeAssumption, LogAssumption, ThresholdAssumption, BatchAssumption,
     WordAssumption, SettingAssumption

\* UndefinedOnlyWithoutS2 of the program: with its FPE traps, and whatever the
\* command line, nothing is read out of bounds when an input has two outputs.
THEOREM ProgramDefined ==
  ASSUME \A c \in CommandLines : SettingsOf(c) \in OptionSet, TrapFpe, IndexFits
  PROVE  MainSpec => []UndefinedOnlyWithoutS2
<1>1. UndefinedOnlyWithoutS2 <=> Proved!UndefinedOnlyWithoutS2
  BY DEF UndefinedOnlyWithoutS2, Proved!UndefinedOnlyWithoutS2
<1>2. Proved!IndexFits /\ TrapFpe
  BY DEF IndexFits, Proved!IndexFits, thresh, Proved!thresh
<1>3. Proved!Spec => []Proved!UndefinedOnlyWithoutS2
  BY <1>2, EstimatorConstants, Proved!NeverUndefinedWithS2, Zenon
     DEF SizeAssumption, LogAssumption, ThresholdAssumption, BatchAssumption,
         WordAssumption, SettingAssumption
<1>4. MainSpec => Proved!Spec
  BY RunsProved
<1> QED
  BY <1>1, <1>3, <1>4, PTL
=============================================================================
