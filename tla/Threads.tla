------------------------------- MODULE Threads -------------------------------
(***************************************************************************)
(* SklFC::count() of src/skolemfc.cpp run with two threads or more: the    *)
(* samplers of get_samples_multithread(), which push their samples into    *)
(* one vector without a lock, the partition of the samples, and the        *)
(* counters of get_and_add_count_multithred(), which add to one total      *)
(* under iter_mutex.  Both functions put their std::thread objects in the  *)
(* member "threads", which is never cleared, and join all that are in it.  *)
(* What precedes the sampling is in SklFC; here it has left okay and the   *)
(* number of samples.  The program runs on Linux, with FPE traps.          *)
(***************************************************************************)
EXTENDS Integers, Sequences, FiniteSets

CONSTANTS
  NumThreads,      \* numthreads
  SamplesNeeded,   \* sample_num_est
  Overshoot,       \* how many samples more than asked for UniGen delivers
  Threshold,       \* thresh
  Logs,            \* log2 of the count of F under one sample
  NegInf           \* log2(0)

ASSUME ThreadsAssumption ==
  /\ NumThreads \in Nat /\ NumThreads >= 2
  /\ SamplesNeeded \in Nat
  /\ Overshoot \in Nat
  /\ Threshold \in Nat
  /\ Logs \subseteq Nat \cup {NegInf}
  /\ NegInf \notin Nat

Places   == 0 .. NumThreads - 1
Samplers == {"sampler"} \X Places
Counters == {"counter"} \X Places

VARIABLES
  pc,                    \* where the main thread is
  okay,                  \* G has models, says its count
  sat,                   \* G has models
  i,                     \* the loop variable of the main thread
  j,                     \* the place of its range-for over threads, from 1
  threads,               \* the thread objects: records [of, joined]
  state,                 \* "none", "running", "pushing" or "done", per thread
  delivered,             \* the samples each sampler has pushed
  samples_from_unisamp,
  it,                    \* the samples each counter has counted
  iteration,
  log_skolemcount

main     == <<pc, okay, sat, i, j, threads>>
sampling == <<delivered, samples_from_unisamp>>
counting == <<it, iteration, log_skolemcount>>
threadVars == <<main, state, sampling, counting>>

\* The process has ended: with an answer, by std::terminate() after the
\* exception of join(), by a corrupted heap or by a signal.
Ended == {"get_est1", "terminated", "corrupted", "sigfpe"}
Alive == pc \notin Ended

Init ==
  /\ okay \in BOOLEAN /\ sat \in BOOLEAN
  /\ pc = IF okay THEN "start_samplers" ELSE "start_counters"
  /\ i = 0 /\ j = 1
  /\ threads = <<>>
  /\ state = [t \in Samplers \cup Counters |-> "none"]
  /\ delivered = [k \in Places |-> 0]
  /\ samples_from_unisamp = <<>>
  /\ it = [k \in Places |-> 0]
  /\ iteration = 0 /\ log_skolemcount = 0
-----------------------------------------------------------------------------
(***************************************************************************)
(* The main thread.                                                        *)
(***************************************************************************)

\* threads.push_back(std::thread(...)).
Start(t) ==
  /\ threads' = Append(threads, [of |-> t, joined |-> FALSE])
  /\ state' = [state EXCEPT ![t] = "running"]

StartSampler ==
  /\ pc = "start_samplers" /\ i < NumThreads
  /\ Start(<<"sampler", i>>)
  /\ i' = i + 1
  /\ UNCHANGED <<pc, okay, sat, j, sampling, counting>>

AllSamplersStarted ==
  /\ pc = "start_samplers" /\ i = NumThreads
  /\ pc' = "join_samplers" /\ j' = 1
  /\ UNCHANGED <<okay, sat, i, threads, state, sampling, counting>>

\* Slip of the model, repair of the code: only joinable threads are joined.
JoinJoinable ==
  /\ j <= Len(threads)
  /\ threads[j].joined \/ state[threads[j].of] = "done"
  /\ threads' = [threads EXCEPT ![j].joined = TRUE]
  /\ j' = j + 1
  /\ UNCHANGED <<pc, okay, sat, i, state, sampling, counting>>

\* Slip: the threads are left to run.
JoinNothing ==
  /\ j <= Len(threads)
  /\ j' = j + 1
  /\ UNCHANGED <<pc, okay, sat, i, threads, state, sampling, counting>>

\* thread.join() waits for the thread; it throws when the object has been
\* joined before, and nothing catches the exception.
Join ==
  /\ j <= Len(threads)
  /\ IF threads[j].joined
     THEN pc' = "terminated" /\ UNCHANGED <<j, threads>>
     ELSE /\ state[threads[j].of] = "done"
          /\ threads' = [threads EXCEPT ![j].joined = TRUE]
          /\ j' = j + 1
          /\ UNCHANGED pc
  /\ UNCHANGED <<okay, sat, i, state, sampling, counting>>

JoinSampler == pc = "join_samplers" /\ Join

AllSamplersJoined ==
  /\ pc = "join_samplers" /\ j > Len(threads)
  /\ pc' = "start_counters" /\ i' = 0
  /\ UNCHANGED <<okay, sat, j, threads, state, sampling, counting>>

\* The part of the samples that counter k is given, after Cut(k) others.
PartitionSize ==
  (Len(samples_from_unisamp) + NumThreads - 1) \div NumThreads

\* Slip: the size of the parts is rounded down.
CutOfFloor(k) == k * (Len(samples_from_unisamp) \div NumThreads)

Cut(k) == IF k * PartitionSize < Len(samples_from_unisamp)
          THEN k * PartitionSize ELSE Len(samples_from_unisamp)

Part(k) == SubSeq(samples_from_unisamp, Cut(k) + 1, Cut(k + 1))

\* The head of the loop that starts the counters.
StartCounter ==
  /\ pc = "start_counters"
  /\ IF i < NumThreads
     THEN Start(<<"counter", i>>) /\ pc' = "join_counters" /\ j' = 1
     ELSE pc' = "get_est1" /\ UNCHANGED <<j, threads, state>>
  /\ UNCHANGED <<okay, sat, i, sampling, counting>>

\* The joins are inside the loop that starts the counters.
JoinCounter == pc = "join_counters" /\ Join

AllCountersJoined ==
  /\ pc = "join_counters" /\ j > Len(threads)
  /\ pc' = "start_counters" /\ i' = i + 1
  /\ UNCHANGED <<okay, sat, j, threads, state, sampling, counting>>

Main == StartSampler \/ AllSamplersStarted \/ JoinSampler
          \/ AllSamplersJoined \/ StartCounter \/ JoinCounter
          \/ AllCountersJoined
-----------------------------------------------------------------------------
(***************************************************************************)
(* The samplers.  UniGen calls unigen_callback() for every sample.         *)
(***************************************************************************)

Share == SamplesNeeded \div NumThreads

\* Slip of the model, repair of the code: the seed is the number of the sampler.
OwnSeed(k) == k

\* get_samples(share, k) gives its counter the seed iteration * k.
SamplerSeed(k) == iteration * k

\* Slip: the number asked of each sampler is not looked at.
PushAnyway(k) ==
  /\ Alive
  /\ state[<<"sampler", k>>] = "running"
  /\ sat /\ delivered[k] <= Share + Overshoot
  /\ state' = [state EXCEPT ![<<"sampler", k>>] = "pushing"]
  /\ UNCHANGED <<main, sampling, counting>>

EnterPush(k) ==
  /\ Alive
  /\ state[<<"sampler", k>>] = "running"
  /\ sat /\ delivered[k] < Share + Overshoot
  /\ state' = [state EXCEPT ![<<"sampler", k>>] = "pushing"]
  /\ UNCHANGED <<main, sampling, counting>>

Overlaps(k) == \E l \in Places \ {k} : state[<<"sampler", l>>] = "pushing"

\* push_back() with the lock commented out: two at a time are a data race, in
\* which a sample may be lost or the heap corrupted.
LeavePush(k) ==
  /\ Alive
  /\ state[<<"sampler", k>>] = "pushing"
  /\ delivered' = [delivered EXCEPT ![k] = @ + 1]
  /\ state' = [state EXCEPT ![<<"sampler", k>>] = "running"]
  /\ \/ /\ samples_from_unisamp' =
             Append(samples_from_unisamp, <<k, delivered[k] + 1>>)
        /\ UNCHANGED pc
     \/ /\ Overlaps(k)
        /\ pc' \in {pc, "corrupted"}
        /\ UNCHANGED samples_from_unisamp
  /\ UNCHANGED <<okay, sat, i, j, threads, counting>>

SamplerReturns(k) ==
  /\ Alive
  /\ state[<<"sampler", k>>] = "running"
  /\ sat => delivered[k] >= Share
  /\ state' = [state EXCEPT ![<<"sampler", k>>] = "done"]
  /\ UNCHANGED <<main, sampling, counting>>

Sampler(k) == EnterPush(k) \/ LeavePush(k) \/ SamplerReturns(k)
-----------------------------------------------------------------------------
(***************************************************************************)
(* The counters, get_and_add_count_onethred().                             *)
(***************************************************************************)

\* ApproxMC counts the formula of the sample, then the total is tested and
\* updated under the lock.  Here a count of 0 is not tested for.
CountSample(k) ==
  /\ Alive
  /\ state[<<"counter", k>>] = "running"
  /\ it[k] < Len(Part(k))
  /\ \E l \in Logs :
       IF l = NegInf
       THEN pc' = "sigfpe" /\ UNCHANGED counting
       ELSE /\ IF log_skolemcount <= Threshold
               THEN /\ iteration' = iteration + 1
                    /\ log_skolemcount' = log_skolemcount + l
               ELSE UNCHANGED <<iteration, log_skolemcount>>
            /\ it' = [it EXCEPT ![k] = @ + 1]
            /\ UNCHANGED pc
  /\ UNCHANGED <<okay, sat, i, j, threads, state, sampling>>

CounterReturns(k) ==
  /\ Alive
  /\ state[<<"counter", k>>] = "running"
  /\ it[k] = Len(Part(k))
  /\ state' = [state EXCEPT ![<<"counter", k>>] = "done"]
  /\ UNCHANGED <<main, sampling, counting>>

Counter(k) == CountSample(k) \/ CounterReturns(k)

Finished == ~Alive /\ UNCHANGED threadVars

Next == Main \/ (\E k \in Places : Sampler(k) \/ Counter(k)) \/ Finished

Spec == Init /\ [][Next]_threadVars

\* The operating system schedules every thread, and the oracles answer.
FairSpec ==
  /\ Spec
  /\ WF_threadVars(Main)
  /\ \A k \in Places : WF_threadVars(Sampler(k)) /\ WF_threadVars(Counter(k))
-----------------------------------------------------------------------------
(***************************************************************************)
(* Properties.                                                             *)
(***************************************************************************)

TypeOK ==
  /\ pc \in {"start_samplers", "join_samplers", "start_counters",
             "join_counters"} \cup Ended
  /\ okay \in BOOLEAN /\ sat \in BOOLEAN
  /\ i \in 0 .. NumThreads
  /\ j \in Nat \ {0}
  /\ threads \in Seq([of : Samplers \cup Counters, joined : BOOLEAN])
  /\ state \in [Samplers \cup Counters -> {"none", "running", "pushing", "done"}]
  /\ delivered \in [Places -> 0 .. Share + Overshoot]
  /\ samples_from_unisamp \in Seq(Places \X Nat)
  /\ it \in [Places -> Nat]
  /\ iteration \in Nat /\ log_skolemcount \in Nat

\* With two threads or more count() never comes to a result: the loop that joins
\* the counters comes upon a thread object that has been joined before.
NeverAnswers == pc # "get_est1"

\* The counters never run side by side, each is joined before the next starts:
\* iter_mutex is never contended.
OneCounterAtATime ==
  \A k, l \in Places :
    state[<<"counter", k>>] = "running" /\ state[<<"counter", l>>] = "running"
      => k = l

\* The partition is made, and stays, over samples that no thread adds to.
SamplesSettled ==
  [][(pc \in {"start_counters", "join_counters"})
       => UNCHANGED samples_from_unisamp]_threadVars

\* Every sample is in the part of one counter, whatever the number of samples
\* that the samplers have left and the rounding of the size of the parts.
PartitionCovers ==
  pc = "start_counters" =>
    \A m \in 1 .. Len(samples_from_unisamp) :
      \E k \in Places : /\ Cut(k) < m /\ m <= Cut(k + 1)
                        /\ \A l \in Places \ {k} : ~(Cut(l) < m /\ m <= Cut(l + 1))

\* A sampler is a function of its seed, and the samplers all run before the
\* first iteration, with seed 0: sample m of one of them is sample m of all, so
\* that the pool holds at most Share + Overshoot different samples, however
\* many threads there are and whatever --seed is.
Draws(p) == {<<SamplerSeed(p[n][1]), p[n][2]>> : n \in DOMAIN p}

SamplersDrawOneStream ==
  pc \in {"start_samplers", "join_samplers"} =>
    Cardinality(Draws(samples_from_unisamp)) <= Share + Overshoot

\* The run always fails, whatever the samplers and the counters do: no thread
\* waits for ever, and no result comes.
AlwaysFails == <>(pc \in Ended \ {"get_est1"})

\* The help text of --threads (main.cpp:126), "Number of threads to use": a
\* number above 1 can be used, join() does not end the process.
ThreadsCanBeUsed == pc # "terminated"
=============================================================================
