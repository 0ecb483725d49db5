--------------------------- MODULE Threads_proofs ---------------------------
(***************************************************************************)
(* Theorems about Threads, for every number of threads above one, every    *)
(* number of samples and every threshold.                                  *)
(***************************************************************************)
EXTENDS Threads, FiniteSetTheorems, SequenceTheorems, TLAPS

AllThreads == Samplers \cup Counters
Handles    == [of : AllThreads, joined : BOOLEAN]

(***************************************************************************)
(* The inductive invariant.  Only the thread objects, the states of the    *)
(* threads and the two loop variables matter.                              *)
(***************************************************************************)
ControlTypes ==
  /\ pc \in {"start_samplers", "join_samplers", "start_counters",
             "join_counters"} \cup Ended
  /\ i \in Nat /\ j \in Nat \ {0}
  /\ threads \in Seq(Handles)
  /\ state \in [AllThreads -> {"none", "running", "pushing", "done"}]

\* What has been joined has ended.
JoinedIsDone ==
  \A n \in 1 .. Len(threads) :
    threads[n].joined => state[threads[n].of] = "done"

\* While the samplers are started and joined, threads holds them in order.
SamplersInOrder ==
  /\ pc = "start_samplers" =>
       i <= NumThreads /\ Len(threads) = i
  /\ pc = "join_samplers" =>
       Len(threads) = NumThreads /\ \A n \in 1 .. j - 1 : n <= NumThreads => threads[n].joined
  /\ pc \in {"start_samplers", "join_samplers"} =>
       /\ \A n \in 1 .. Len(threads) : threads[n].of = <<"sampler", n - 1>>
       /\ \A k \in Places : state[<<"counter", k>>] = "none"

\* When the counters are started, the first object of threads has been joined
\* already, or it is the first counter; the loop never gets past its second turn.
FirstIsJoined ==
  /\ pc = "start_counters" =>
       \/ threads = <<>> /\ i = 0
       \/ /\ Len(threads) >= 1 /\ threads[1].joined /\ i <= 1
          /\ \A n \in 1 .. Len(threads) : threads[n].of # <<"counter", i>>
  /\ pc = "join_counters" =>
       \/ Len(threads) >= 1 /\ threads[1].joined /\ j = 1 /\ i <= 1
       \/ /\ Len(threads) = 1 /\ i = 0 /\ threads[1].of = <<"counter", 0>>
          /\ j = 1 \/ (j = 2 /\ threads[1].joined)

SamplersSettled ==
  pc \in {"start_counters", "join_counters"} =>
    \A k \in Places : state[<<"sampler", k>>] \in {"none", "done"}

OnlyThisCounter ==
  \A k \in Places :
    state[<<"counter", k>>] = "running" =>
      k = i /\ pc \in {"join_counters"} \cup Ended

JoinInv ==
  /\ ControlTypes /\ JoinedIsDone /\ SamplersInOrder /\ FirstIsJoined
  /\ SamplersSettled /\ OnlyThisCounter
  /\ pc # "get_est1"

\* The numbers of the threads.
LEMMA NumThreadsNat == NumThreads \in Nat /\ NumThreads >= 2
  BY ThreadsAssumption DEF ThreadsAssumption

\* Samplers and counters are different threads, and so are those of two places.
LEMMA ThreadNames ==
  /\ \A k \in Places : <<"sampler", k>> \in AllThreads /\ <<"counter", k>> \in AllThreads
  /\ \A k, l \in Places : <<"sampler", k>> # <<"counter", l>>
  /\ \A k, l : <<"sampler", k>> = <<"sampler", l>> => k = l
  /\ \A k, l : <<"counter", k>> = <<"counter", l>> => k = l
  BY DEF AllThreads, Samplers, Counters

\* No thread is both a sampler and a counter.
LEMMA ThreadKinds ==
  ASSUME NEW t \in AllThreads
  PROVE  (\E k \in Places : t = <<"sampler", k>>) \/ (\E k \in Places : t = <<"counter", k>>)
  BY DEF AllThreads, Samplers, Counters

\* An object of threads is of a thread.
LEMMA HandleType ==
  ASSUME JoinInv, NEW n \in 1 .. Len(threads)
  PROVE  /\ threads[n] \in Handles
         /\ threads[n].of \in AllThreads /\ threads[n].joined \in BOOLEAN
<1>1. threads \in Seq(Handles)
  BY DEF JoinInv, ControlTypes
<1>2. threads[n] \in Handles
  BY <1>1
<1> QED
  BY <1>2 DEF Handles

\* What Start does to threads and state.
LEMMA StartEffect ==
  ASSUME JoinInv, NEW t \in AllThreads, Start(t)
  PROVE  /\ threads' \in Seq(Handles)
         /\ Len(threads') = Len(threads) + 1
         /\ \A n \in 1 .. Len(threads) : threads'[n] = threads[n]
         /\ threads'[Len(threads) + 1] = [of |-> t, joined |-> FALSE]
         /\ state' \in [AllThreads -> {"none", "running", "pushing", "done"}]
         /\ state'[t] = "running"
         /\ \A u \in AllThreads \ {t} : state'[u] = state[u]
<1>1. threads \in Seq(Handles)
  BY DEF JoinInv, ControlTypes
<1>2. [of |-> t, joined |-> FALSE] \in Handles
  BY DEF Handles
<1>3. state \in [AllThreads -> {"none", "running", "pushing", "done"}]
  BY DEF JoinInv, ControlTypes
<1>4. threads' = Append(threads, [of |-> t, joined |-> FALSE])
  BY DEF Start
<1>5. state' = [state EXCEPT ![t] = "running"]
  BY DEF Start
<1>6. /\ threads' \in Seq(Handles) /\ Len(threads') = Len(threads) + 1
      /\ \A n \in 1 .. Len(threads) : threads'[n] = threads[n]
      /\ threads'[Len(threads) + 1] = [of |-> t, joined |-> FALSE]
  BY <1>1, <1>2, <1>4
<1>7. /\ state' \in [AllThreads -> {"none", "running", "pushing", "done"}]
      /\ state'[t] = "running" /\ \A u \in AllThreads \ {t} : state'[u] = state[u]
  BY <1>3, <1>5
<1> QED
  BY <1>6, <1>7

(***************************************************************************)
(* The steps of the main thread.                                           *)
(***************************************************************************)

\* Starting a sampler keeps the invariant.
LEMMA StartSamplerStep ==
  ASSUME JoinInv, StartSampler
  PROVE  JoinInv'
<1> DEFINE t == <<"sampler", i>>
<1>1. /\ pc = "start_samplers" /\ i < NumThreads /\ Start(t)
      /\ i' = i + 1 /\ pc' = pc /\ j' = j
  BY DEF StartSampler
<1>2. i \in Places /\ t \in AllThreads
  <2>1. i \in Places
    BY <1>1, NumThreadsNat DEF JoinInv, ControlTypes, Places
  <2> QED
    BY <2>1, ThreadNames
<1>3. /\ threads' \in Seq(Handles)
      /\ Len(threads') = Len(threads) + 1
      /\ \A n \in 1 .. Len(threads) : threads'[n] = threads[n]
      /\ threads'[Len(threads) + 1] = [of |-> t, joined |-> FALSE]
      /\ state' \in [AllThreads -> {"none", "running", "pushing", "done"}]
      /\ state'[t] = "running"
      /\ \A u \in AllThreads \ {t} : state'[u] = state[u]
  BY <1>1, <1>2, StartEffect
<1>4. /\ Len(threads) = i /\ Len(threads) \in Nat
      /\ \A n \in 1 .. Len(threads) : threads[n].of = <<"sampler", n - 1>>
      /\ \A k \in Places : state[<<"counter", k>>] = "none"
  BY <1>1 DEF JoinInv, SamplersInOrder, ControlTypes
<1>5. ControlTypes'
  BY <1>1, <1>3 DEF JoinInv, ControlTypes
<1>6. \A n \in 1 .. Len(threads) : threads'[n].of = <<"sampler", n - 1>> /\ threads'[n].of # t
  <2>1. TAKE n \in 1 .. Len(threads)
  <2>2. threads'[n].of = <<"sampler", n - 1>>
    BY <1>3, <1>4
  <2>3. n - 1 # i
    BY <1>4
  <2> QED
    BY <2>2, <2>3, ThreadNames
<1>7. JoinedIsDone'
  <2> SUFFICES ASSUME NEW n \in 1 .. Len(threads'), threads'[n].joined
               PROVE  state'[threads'[n].of] = "done"
    BY DEF JoinedIsDone
  <2>1. n \in 1 .. Len(threads)
    BY <1>3, <1>4
  <2>2. threads'[n] = threads[n] /\ threads[n].of \in AllThreads
    BY <2>1, <1>3, HandleType
  <2>3. state[threads[n].of] = "done"
    BY <2>1, <2>2 DEF JoinInv, JoinedIsDone
  <2> QED
    BY <2>1, <2>2, <2>3, <1>3, <1>6
<1>8. \A k \in Places : state'[<<"counter", k>>] = "none"
  BY <1>2, <1>3, <1>4, ThreadNames
<1>9. SamplersInOrder'
  <2>1. \A n \in 1 .. Len(threads') : threads'[n].of = <<"sampler", n - 1>>
    BY <1>3, <1>4, <1>6
  <2> QED
    BY <2>1, <1>1, <1>3, <1>4, <1>8, NumThreadsNat DEF SamplersInOrder, JoinInv, ControlTypes
<1>10. FirstIsJoined' /\ SamplersSettled' /\ OnlyThisCounter' /\ pc' # "get_est1"
  BY <1>1, <1>8 DEF FirstIsJoined, SamplersSettled, OnlyThisCounter
<1> QED
  BY <1>5, <1>7, <1>9, <1>10 DEF JoinInv

\* Going from one loop to the next keeps the invariant.
LEMMA TurnStep ==
  ASSUME JoinInv, AllSamplersStarted \/ AllSamplersJoined \/ AllCountersJoined
  PROVE  JoinInv'
<1>1. threads' = threads /\ state' = state
  BY DEF AllSamplersStarted, AllSamplersJoined, AllCountersJoined
<1>2. JoinedIsDone'
  BY <1>1 DEF JoinInv, JoinedIsDone
<1>3. CASE AllSamplersStarted
  <2>1. pc = "start_samplers" /\ i = NumThreads /\ pc' = "join_samplers" /\ j' = 1 /\ i' = i
    BY <1>3 DEF AllSamplersStarted
  <2>2. ControlTypes'
    BY <1>1, <2>1 DEF JoinInv, ControlTypes
  <2>3. SamplersInOrder'
    BY <1>1, <2>1 DEF JoinInv, SamplersInOrder
  <2>4. FirstIsJoined' /\ SamplersSettled' /\ pc' # "get_est1"
    BY <2>1 DEF FirstIsJoined, SamplersSettled
  <2>5. OnlyThisCounter'
    BY <1>1, <2>1 DEF JoinInv, SamplersInOrder, OnlyThisCounter
  <2> QED
    BY <1>2, <2>2, <2>3, <2>4, <2>5 DEF JoinInv
<1>4. CASE AllSamplersJoined
  <2>1. pc = "join_samplers" /\ j > Len(threads) /\ pc' = "start_counters" /\ i' = 0 /\ j' = j
    BY <1>4 DEF AllSamplersJoined
  <2>2. /\ Len(threads) = NumThreads /\ j \in Nat
        /\ \A n \in 1 .. Len(threads) : threads[n].of = <<"sampler", n - 1>>
        /\ \A k \in Places : state[<<"counter", k>>] = "none"
        /\ \A n \in 1 .. j - 1 : n <= NumThreads => threads[n].joined
    BY <2>1 DEF JoinInv, SamplersInOrder, ControlTypes
  <2>3. \A n \in 1 .. Len(threads) : threads[n].joined
    BY <2>1, <2>2, NumThreadsNat
  <2>4. ControlTypes'
    BY <1>1, <2>1 DEF JoinInv, ControlTypes
  <2>5. SamplersInOrder' /\ pc' # "get_est1"
    BY <2>1 DEF SamplersInOrder
  <2>6. 0 \in Places
    BY NumThreadsNat DEF Places
  <2>7. \A n \in 1 .. Len(threads) : threads[n].of # <<"counter", 0>>
    <3>1. TAKE n \in 1 .. Len(threads)
    <3>2. n - 1 \in Places
      BY <2>2, NumThreadsNat DEF Places
    <3> QED
      BY <3>2, <2>2, <2>6, ThreadNames
  <2>8. FirstIsJoined'
    BY <1>1, <2>1, <2>2, <2>3, <2>7, NumThreadsNat DEF FirstIsJoined
  <2>9. SamplersSettled'
    <3>1. \A k \in Places : state[<<"sampler", k>>] = "done"
      <4>1. TAKE k \in Places
      <4>2. k + 1 \in 1 .. Len(threads) /\ (k + 1) - 1 = k
        BY <2>2, NumThreadsNat DEF Places
      <4>3. threads[k + 1].joined /\ threads[k + 1].of = <<"sampler", k>>
        BY <4>2, <2>2, <2>3
      <4> QED
        BY <4>2, <4>3 DEF JoinInv, JoinedIsDone
    <3> QED
      BY <3>1, <1>1 DEF SamplersSettled
  <2>10. OnlyThisCounter'
    BY <1>1, <2>2 DEF OnlyThisCounter
  <2> QED
    BY <1>2, <2>4, <2>5, <2>8, <2>9, <2>10 DEF JoinInv
<1>5. CASE AllCountersJoined
  <2>1. pc = "join_counters" /\ j > Len(threads) /\ pc' = "start_counters" /\ i' = i + 1 /\ j' = j
    BY <1>5 DEF AllCountersJoined
  <2>2. /\ Len(threads) = 1 /\ i = 0 /\ threads[1].of = <<"counter", 0>>
        /\ threads[1].joined
    BY <2>1 DEF JoinInv, FirstIsJoined
  <2>3. ControlTypes'
    BY <1>1, <2>1 DEF JoinInv, ControlTypes
  <2>4. SamplersInOrder' /\ pc' # "get_est1"
    BY <2>1 DEF SamplersInOrder
  <2>5. <<"counter", 0>> # <<"counter", 1>>
    BY ThreadNames
  <2>6. FirstIsJoined'
    BY <1>1, <2>1, <2>2, <2>5 DEF FirstIsJoined
  <2>7. SamplersSettled'
    BY <1>1, <2>1 DEF JoinInv, SamplersSettled
  <2>8. state[<<"counter", 0>>] = "done"
    BY <2>2 DEF JoinInv, JoinedIsDone
  <2>9. OnlyThisCounter'
    BY <1>1, <2>2, <2>8 DEF JoinInv, OnlyThisCounter
  <2> QED
    BY <1>2, <2>3, <2>4, <2>6, <2>7, <2>9 DEF JoinInv
<1> QED
  BY <1>3, <1>4, <1>5

\* Starting a counter keeps the invariant; the loop never ends by itself.
LEMMA StartCounterStep ==
  ASSUME JoinInv, StartCounter
  PROVE  JoinInv'
<1> DEFINE t == <<"counter", i>>
<1>1. pc = "start_counters" /\ i' = i
  BY DEF StartCounter
<1>2. i \in Places
  BY <1>1, NumThreadsNat DEF JoinInv, FirstIsJoined, ControlTypes, Places
<1>3. Start(t) /\ pc' = "join_counters" /\ j' = 1
  BY <1>2, NumThreadsNat DEF StartCounter, Places
<1>4. t \in AllThreads
  BY <1>2, ThreadNames
<1>5. /\ threads' \in Seq(Handles)
      /\ Len(threads') = Len(threads) + 1
      /\ \A n \in 1 .. Len(threads) : threads'[n] = threads[n]
      /\ threads'[Len(threads) + 1] = [of |-> t, joined |-> FALSE]
      /\ state' \in [AllThreads -> {"none", "running", "pushing", "done"}]
      /\ state'[t] = "running"
      /\ \A u \in AllThreads \ {t} : state'[u] = state[u]
  BY <1>3, <1>4, StartEffect
<1>6. /\ Len(threads) \in Nat /\ threads \in Seq(Handles)
      /\ \A n \in 1 .. Len(threads) : threads[n].of # t
      /\ \/ Len(threads) = 0 /\ i = 0
         \/ Len(threads) >= 1 /\ threads[1].joined /\ i <= 1
  BY <1>1 DEF JoinInv, FirstIsJoined, ControlTypes
<1>7. ControlTypes'
  BY <1>1, <1>3, <1>5 DEF JoinInv, ControlTypes
<1>8. JoinedIsDone'
  <2> SUFFICES ASSUME NEW n \in 1 .. Len(threads'), threads'[n].joined
               PROVE  state'[threads'[n].of] = "done"
    BY DEF JoinedIsDone
  <2>1. n \in 1 .. Len(threads)
    BY <1>5, <1>6
  <2>2. threads'[n] = threads[n] /\ threads[n].of \in AllThreads
    BY <2>1, <1>5, HandleType
  <2>3. state[threads[n].of] = "done"
    BY <2>1, <2>2 DEF JoinInv, JoinedIsDone
  <2> QED
    BY <2>1, <2>2, <2>3, <1>5, <1>6
<1>9. SamplersInOrder' /\ pc' # "get_est1"
  BY <1>3 DEF SamplersInOrder
<1>10. FirstIsJoined'
  <2>1. CASE Len(threads) = 0 /\ i = 0
    BY <2>1, <1>1, <1>3, <1>5 DEF FirstIsJoined
  <2>2. CASE Len(threads) >= 1 /\ threads[1].joined /\ i <= 1
    <3>1. threads'[1] = threads[1] /\ Len(threads') >= 1
      BY <2>2, <1>5, <1>6
    <3> QED
      BY <3>1, <2>2, <1>1, <1>3 DEF FirstIsJoined
  <2> QED
    BY <1>6, <2>1, <2>2
<1>11. SamplersSettled'
  <2>1. \A k \in Places : state'[<<"sampler", k>>] = state[<<"sampler", k>>]
    BY <1>2, <1>5, ThreadNames
  <2> QED
    BY <2>1, <1>1 DEF JoinInv, SamplersSettled
<1>12. OnlyThisCounter'
  <2> SUFFICES ASSUME NEW k \in Places, state'[<<"counter", k>>] = "running"
               PROVE  k = i' /\ pc' \in {"join_counters"} \cup Ended
    BY DEF OnlyThisCounter
  <2>1. CASE k = i
    BY <2>1, <1>1, <1>3
  <2>2. CASE k # i
    <3>1. state[<<"counter", k>>] = "running"
      BY <2>2, <1>5, ThreadNames
    <3> QED
      BY <3>1, <1>1 DEF JoinInv, OnlyThisCounter, Ended
  <2> QED
    BY <2>1, <2>2
<1> QED
  BY <1>7, <1>8, <1>9, <1>10, <1>11, <1>12 DEF JoinInv

\* A join keeps the invariant, and when the counters are joined one by one it
\* either joins the first of them or ends the process.
LEMMA JoinStep ==
  ASSUME JoinInv, JoinSampler \/ JoinCounter
  PROVE  JoinInv'
<1>1. pc \in {"join_samplers", "join_counters"} /\ Join
  BY DEF JoinSampler, JoinCounter
<1>2. j <= Len(threads) /\ i' = i /\ state' = state
  BY <1>1 DEF Join
<1>3. j \in 1 .. Len(threads) /\ threads \in Seq(Handles) /\ Len(threads) \in Nat
  BY <1>2 DEF JoinInv, ControlTypes
<1>4. CASE threads[j].joined
  <2>1. pc' = "terminated" /\ j' = j /\ threads' = threads
    BY <1>1, <1>4 DEF Join
  <2>2. ControlTypes' /\ JoinedIsDone'
    BY <1>2, <2>1 DEF JoinInv, ControlTypes, JoinedIsDone, Ended
  <2>3. SamplersInOrder' /\ FirstIsJoined' /\ SamplersSettled' /\ pc' # "get_est1"
    BY <2>1 DEF SamplersInOrder, FirstIsJoined, SamplersSettled
  <2>4. OnlyThisCounter'
    BY <1>2, <2>1 DEF JoinInv, OnlyThisCounter, Ended
  <2> QED
    BY <2>2, <2>3, <2>4 DEF JoinInv
<1>5. CASE ~threads[j].joined
  <2>1. /\ state[threads[j].of] = "done" /\ pc' = pc /\ j' = j + 1
        /\ threads' = [threads EXCEPT ![j].joined = TRUE]
    BY <1>1, <1>5 DEF Join
  <2>2. /\ threads' \in Seq(Handles) /\ Len(threads') = Len(threads)
        /\ \A n \in 1 .. Len(threads) : threads'[n].of = threads[n].of
        /\ \A n \in 1 .. Len(threads) : n # j => threads'[n] = threads[n]
        /\ threads'[j].joined
    <3>1. threads' = [threads EXCEPT ![j] = [threads[j] EXCEPT !.joined = TRUE]]
      BY <2>1
    <3>2. /\ threads[j] \in Handles
          /\ [threads[j] EXCEPT !.joined = TRUE] \in Handles
          /\ [threads[j] EXCEPT !.joined = TRUE].joined
          /\ [threads[j] EXCEPT !.joined = TRUE].of = threads[j].of
      BY <1>3, HandleType DEF Handles
    <3> QED
      BY <1>3, <3>1, <3>2
  <2>3. ControlTypes'
    BY <1>2, <2>1, <2>2 DEF JoinInv, ControlTypes
  <2>4. JoinedIsDone'
    BY <1>2, <2>1, <2>2 DEF JoinInv, JoinedIsDone
  <2>5. SamplersInOrder' /\ pc' # "get_est1"
    BY <1>1, <1>2, <1>3, <2>1, <2>2 DEF JoinInv, SamplersInOrder
  <2>6. FirstIsJoined'
    <3>1. CASE pc = "join_counters"
      <4>1. Len(threads) = 1 /\ i = 0 /\ threads[1].of = <<"counter", 0>> /\ j = 1
        BY <3>1, <1>3, <1>5 DEF JoinInv, FirstIsJoined
      <4> QED
        BY <4>1, <3>1, <1>2, <2>1, <2>2 DEF FirstIsJoined
    <3>2. CASE pc = "join_samplers"
      BY <3>2, <2>1 DEF FirstIsJoined
    <3> QED
      BY <1>1, <3>1, <3>2
  <2>7. SamplersSettled' /\ OnlyThisCounter'
    BY <1>2, <2>1 DEF JoinInv, SamplersSettled, OnlyThisCounter
  <2> QED
    BY <2>3, <2>4, <2>5, <2>6, <2>7 DEF JoinInv
<1> QED
  BY <1>4, <1>5

(***************************************************************************)
(* The steps of the samplers and counters.                                 *)
(***************************************************************************)

\* A step of a sampler or a counter that moves its state keeps the invariant.
LEMMA MoveStep ==
  ASSUME JoinInv, NEW t \in AllThreads, state[t] \in {"running", "pushing"},
         NEW s \in {"running", "pushing", "done"},
         state' = [state EXCEPT ![t] = s],
         t \in Counters => s = "done",
         i' = i, j' = j, threads' = threads,
         pc' = pc \/ pc' = "corrupted"
  PROVE  JoinInv'
<1>1. /\ state' \in [AllThreads -> {"none", "running", "pushing", "done"}]
      /\ state'[t] = s
      /\ \A u \in AllThreads \ {t} : state'[u] = state[u]
  BY DEF JoinInv, ControlTypes
<1>2. ControlTypes' /\ pc' # "get_est1"
  BY <1>1 DEF JoinInv, ControlTypes, Ended
<1>3. JoinedIsDone'
  <2> SUFFICES ASSUME NEW n \in 1 .. Len(threads), threads[n].joined
               PROVE  state'[threads[n].of] = "done"
    BY DEF JoinedIsDone
  <2>1. state[threads[n].of] = "done" /\ threads[n].of \in AllThreads
    BY HandleType DEF JoinInv, JoinedIsDone
  <2> QED
    BY <2>1, <1>1
<1>4. ASSUME NEW k \in Places
      PROVE  /\ state[<<"counter", k>>] = "none" => state'[<<"counter", k>>] = "none"
             /\ state'[<<"counter", k>>] = "running" => state[<<"counter", k>>] = "running"
             /\ state[<<"sampler", k>>] \in {"none", "done"} =>
                  state'[<<"sampler", k>>] = state[<<"sampler", k>>]
  <2>1. <<"counter", k>> \in AllThreads /\ <<"sampler", k>> \in AllThreads
        /\ <<"counter", k>> \in Counters
    BY ThreadNames DEF Counters
  <2> QED
    BY <2>1, <1>1
<1>5. SamplersInOrder'
  BY <1>4 DEF JoinInv, SamplersInOrder
<1>6. FirstIsJoined'
  BY DEF JoinInv, FirstIsJoined
<1>7. SamplersSettled'
  BY <1>4 DEF JoinInv, SamplersSettled
<1>8. OnlyThisCounter'
  BY <1>4 DEF JoinInv, OnlyThisCounter, Ended
<1> QED
  BY <1>2, <1>3, <1>5, <1>6, <1>7, <1>8 DEF JoinInv

\* The steps of the samplers keep the invariant.
LEMMA SamplerStep ==
  ASSUME JoinInv, NEW k \in Places, Sampler(k)
  PROVE  JoinInv'
<1> DEFINE t == <<"sampler", k>>
<1>1. t \in AllThreads /\ t \notin Counters
  BY ThreadNames DEF Counters
<1>2. i' = i /\ j' = j /\ threads' = threads /\ (pc' = pc \/ pc' = "corrupted")
  BY DEF Sampler, EnterPush, LeavePush, SamplerReturns, main
<1>3. /\ state[t] \in {"running", "pushing"}
      /\ \E s \in {"running", "pushing", "done"} : state' = [state EXCEPT ![t] = s]
  BY DEF Sampler, EnterPush, LeavePush, SamplerReturns
<1> QED
  BY <1>1, <1>2, <1>3, MoveStep

\* The steps of the counters keep the invariant.
LEMMA CounterStep ==
  ASSUME JoinInv, NEW k \in Places, Counter(k)
  PROVE  JoinInv'
<1>1. CASE CountSample(k)
  <2>1. i' = i /\ j' = j /\ threads' = threads /\ state' = state
        /\ (pc' = pc \/ pc' = "sigfpe")
    BY <1>1 DEF CountSample
  <2>2. ControlTypes' /\ JoinedIsDone' /\ pc' # "get_est1"
    BY <2>1 DEF JoinInv, ControlTypes, JoinedIsDone, Ended
  <2>3. SamplersInOrder' /\ FirstIsJoined' /\ SamplersSettled'
    BY <2>1 DEF JoinInv, SamplersInOrder, FirstIsJoined, SamplersSettled
  <2>4. OnlyThisCounter'
    BY <2>1 DEF JoinInv, OnlyThisCounter, Ended
  <2> QED
    BY <2>2, <2>3, <2>4 DEF JoinInv
<1>2. CASE CounterReturns(k)
  <2>1. <<"counter", k>> \in AllThreads
    BY ThreadNames
  <2>2. /\ state[<<"counter", k>>] = "running"
        /\ state' = [state EXCEPT ![<<"counter", k>>] = "done"]
        /\ i' = i /\ j' = j /\ threads' = threads /\ pc' = pc
    BY <1>2 DEF CounterReturns, main
  <2> QED
    BY <2>1, <2>2, MoveStep
<1> QED
  BY <1>1, <1>2 DEF Counter

\* The invariant holds at the start.
LEMMA JoinInvInit == Init => JoinInv
<1> SUFFICES ASSUME Init PROVE JoinInv
  OBVIOUS
<1>1. /\ threads = <<>> /\ Len(threads) = 0 /\ i = 0 /\ j = 1
      /\ pc \in {"start_samplers", "start_counters"}
      /\ state = [t \in AllThreads |-> "none"]
  BY DEF Init, AllThreads
<1>2. \A k \in Places : state[<<"counter", k>>] = "none" /\ state[<<"sampler", k>>] = "none"
  BY <1>1, ThreadNames
<1>3. ControlTypes /\ pc # "get_est1"
  BY <1>1 DEF ControlTypes
<1>4. JoinedIsDone /\ SamplersInOrder /\ FirstIsJoined
  <2>1. JoinedIsDone
    BY <1>1 DEF JoinedIsDone
  <2>2. SamplersInOrder
    <3>1. Len(threads) = 0 /\ i = 0 /\ pc # "join_samplers"
      BY <1>1
    <3>2. \A n \in 1 .. Len(threads) : threads[n].of = <<"sampler", n - 1>>
      BY <3>1
    <3>3. i <= NumThreads
      BY <3>1, NumThreadsNat
    <3> QED
      BY <3>1, <3>2, <3>3, <1>2 DEF SamplersInOrder
  <2>3. FirstIsJoined
    BY <1>1 DEF FirstIsJoined
  <2> QED
    BY <2>1, <2>2, <2>3
<1>5. SamplersSettled /\ OnlyThisCounter
  BY <1>2 DEF SamplersSettled, OnlyThisCounter
<1> QED
  BY <1>3, <1>4, <1>5 DEF JoinInv

\* Every step keeps it.
LEMMA JoinInvNext == JoinInv /\ [Next]_threadVars => JoinInv'
<1> SUFFICES ASSUME JoinInv, [Next]_threadVars PROVE JoinInv'
  OBVIOUS
<1>1. CASE StartSampler
  BY <1>1, StartSamplerStep
<1>2. CASE AllSamplersStarted \/ AllSamplersJoined \/ AllCountersJoined
  BY <1>2, TurnStep
<1>3. CASE StartCounter
  BY <1>3, StartCounterStep
<1>4. CASE JoinSampler \/ JoinCounter
  BY <1>4, JoinStep
<1>5. ASSUME NEW k \in Places, Sampler(k) PROVE JoinInv'
  BY <1>5, SamplerStep
<1>6. ASSUME NEW k \in Places, Counter(k) PROVE JoinInv'
  BY <1>6, CounterStep
<1>7. CASE Finished \/ UNCHANGED threadVars
  <2>1. UNCHANGED <<pc, i, j, threads, state>>
    BY <1>7 DEF Finished, threadVars, main
  <2> QED
    BY <2>1 DEF JoinInv, ControlTypes, JoinedIsDone, SamplersInOrder,
                FirstIsJoined, SamplersSettled, OnlyThisCounter
<1> QED
  BY <1>1, <1>2, <1>3, <1>4, <1>5, <1>6, <1>7 DEF Next, Main

\* The thread objects are started and joined as the invariant says.
THEOREM JoinCorrect == Spec => []JoinInv
  BY JoinInvInit, JoinInvNext, PTL DEF Spec

\* However many threads, at least two, count() never reaches its result: the
\* loop that joins the counters always meets an object joined before.
THEOREM NoAnswer == Spec => []NeverAnswers
<1>1. JoinInv => NeverAnswers
  BY DEF JoinInv, NeverAnswers
<1> QED
  BY <1>1, JoinCorrect, PTL

\* No two counters ever run at the same time.
THEOREM CountersInTurn == Spec => []OneCounterAtATime
<1>1. JoinInv => OneCounterAtATime
  BY DEF JoinInv, OnlyThisCounter, OneCounterAtATime
<1> QED
  BY <1>1, JoinCorrect, PTL

\* No sampler adds a sample once the partition may have been made.
THEOREM Settled == Spec => SamplesSettled
<1>1. JoinInv /\ [Next]_threadVars =>
        [(pc \in {"start_counters", "join_counters"})
           => UNCHANGED samples_from_unisamp]_threadVars
  <2> SUFFICES ASSUME JoinInv, Next, pc \in {"start_counters", "join_counters"}
               PROVE  UNCHANGED samples_from_unisamp
    OBVIOUS
  <2>1. CASE Main
    BY <2>1 DEF Main, StartSampler, AllSamplersStarted, JoinSampler, Join,
                AllSamplersJoined, StartCounter, JoinCounter, AllCountersJoined,
                sampling
  <2>2. ASSUME NEW k \in Places, Sampler(k)
        PROVE  UNCHANGED samples_from_unisamp
    <3>1. state[<<"sampler", k>>] \notin {"running", "pushing"}
      BY DEF JoinInv, SamplersSettled
    <3> QED
      BY <3>1, <2>2 DEF Sampler, EnterPush, LeavePush, SamplerReturns, sampling
  <2>3. ASSUME NEW k \in Places, Counter(k)
        PROVE  UNCHANGED samples_from_unisamp
    BY <2>3 DEF Counter, CountSample, CounterReturns, sampling
  <2>4. CASE Finished
    BY <2>4 DEF Finished, threadVars, sampling
  <2> QED
    BY <2>1, <2>2, <2>3, <2>4 DEF Next
<1> QED
  BY <1>1, JoinCorrect, PTL DEF Spec, SamplesSettled

(***************************************************************************)
(* The partition.                                                          *)
(***************************************************************************)

\* A quotient and what it leaves.
LEMMA Quotient ==
  ASSUME NEW a \in Nat, NEW b \in Nat, b > 0
  PROVE  /\ a \div b \in Nat
         /\ b * (a \div b) <= a /\ a < b * (a \div b) + b
  OBVIOUS

\* Products are monotonic.
LEMMA TimesMonotonic ==
  ASSUME NEW a \in Nat, NEW b \in Nat, NEW c \in Nat, a <= b
  PROVE  a * c <= b * c /\ a * c \in Nat /\ b * c \in Nat
<1>1. (b - a) * c \in Nat
  OBVIOUS
<1>2. (b - a) * c = b * c - a * c
  OBVIOUS
<1>3. a * c \in Nat /\ b * c \in Nat
  OBVIOUS
<1> QED
  BY <1>1, <1>2, <1>3

\* NumThreads parts of the size computed hold all the samples.
LEMMA PartsSuffice ==
  ASSUME samples_from_unisamp \in Seq(Places \X Nat)
  PROVE  /\ PartitionSize \in Nat
         /\ NumThreads * PartitionSize \in Nat
         /\ Len(samples_from_unisamp) <= NumThreads * PartitionSize
<1> DEFINE n == Len(samples_from_unisamp)
           a == n + NumThreads - 1
<1>1. n \in Nat /\ a \in Nat
  BY NumThreadsNat
<1>3. PartitionSize = a \div NumThreads
  BY DEF PartitionSize
<1>5. a = n + NumThreads - 1
  OBVIOUS
<1>6. NumThreads \in Nat /\ NumThreads > 0
  BY NumThreadsNat
<1> HIDE DEF a, n
<1>2. /\ a \div NumThreads \in Nat
      /\ a < NumThreads * (a \div NumThreads) + NumThreads
  BY <1>1, <1>6, Quotient
<1>4. NumThreads * PartitionSize \in Nat
  BY <1>2, <1>3, <1>6
<1>7. n <= NumThreads * PartitionSize
  BY <1>1, <1>2, <1>3, <1>4, <1>5, <1>6
<1> QED
  BY <1>2, <1>3, <1>4, <1>7 DEF n

\* Sample m of n is between the two cuts of exactly one part.
LEMMA OnePart ==
  ASSUME samples_from_unisamp \in Seq(Places \X Nat),
         NEW m \in 1 .. Len(samples_from_unisamp)
  PROVE  \E k \in Places :
           /\ Cut(k) < m /\ m <= Cut(k + 1)
           /\ \A l \in Places \ {k} : ~(Cut(l) < m /\ m <= Cut(l + 1))
<1> DEFINE n == Len(samples_from_unisamp)
           p == PartitionSize
           k == (m - 1) \div p
<1>1. n \in Nat /\ m \in Nat /\ m >= 1 /\ m <= n
  OBVIOUS
<1>2. p \in Nat /\ n <= NumThreads * p /\ NumThreads * p \in Nat
  BY PartsSuffice
<1>3. p > 0
  <2>1. p = 0 => NumThreads * p = 0
    BY NumThreadsNat
  <2> QED
    BY <2>1, <1>1, <1>2
<1>4. k \in Nat /\ p * k <= m - 1 /\ m - 1 < p * k + p
  <2>1. m - 1 \in Nat
    BY <1>1
  <2> HIDE DEF p
  <2> QED
    BY <2>1, <1>2, <1>3, Quotient
<1> HIDE DEF k, p, n
<1>5. k * p <= m - 1 /\ m <= (k + 1) * p /\ k * p \in Nat /\ (k + 1) * p \in Nat
  <2>1. k * p = p * k /\ (k + 1) * p = p * k + p /\ k * p \in Nat /\ (k + 1) * p \in Nat
    BY <1>2, <1>4
  <2> QED
    BY <2>1, <1>1, <1>2, <1>4
<1>6. k \in Places
  <2>1. ASSUME k >= NumThreads PROVE FALSE
    <3>1. NumThreads * p <= k * p
      BY <2>1, <1>2, <1>4, NumThreadsNat, TimesMonotonic
    <3> QED
      BY <3>1, <1>1, <1>2, <1>5
  <2> QED
    BY <2>1, <1>4, NumThreadsNat DEF Places
<1>7. ASSUME NEW l \in Nat
      PROVE  l * p \in Nat /\ Cut(l) = IF l * p < n THEN l * p ELSE n
  BY <1>2 DEF Cut, p, n
<1>8. Cut(k) < m /\ m <= Cut(k + 1)
  <2>1. k + 1 \in Nat
    BY <1>4
  <2>2. Cut(k) = IF k * p < n THEN k * p ELSE n
    BY <1>4, <1>7
  <2>3. Cut(k + 1) = IF (k + 1) * p < n THEN (k + 1) * p ELSE n
    BY <2>1, <1>7
  <2> QED
    BY <2>2, <2>3, <1>1, <1>4, <1>5
<1>9. ASSUME NEW l \in Places \ {k}, Cut(l) < m, m <= Cut(l + 1)
      PROVE  FALSE
  <2>1. l \in Nat /\ l + 1 \in Nat
    BY NumThreadsNat DEF Places
  <2>4. l * p \in Nat /\ Cut(l) = IF l * p < n THEN l * p ELSE n
    BY <2>1, <1>7
  <2>5. (l + 1) * p \in Nat
        /\ Cut(l + 1) = IF (l + 1) * p < n THEN (l + 1) * p ELSE n
    BY <2>1, <1>7
  <2>2. CASE l < k
    <3>1. (l + 1) * p <= k * p
      BY <2>1, <2>2, <1>2, <1>4, TimesMonotonic
    <3> QED
      BY <3>1, <2>5, <1>1, <1>5, <1>9
  <2>3. CASE l > k
    <3>1. (k + 1) * p <= l * p
      BY <2>1, <2>3, <1>2, <1>4, TimesMonotonic
    <3> QED
      BY <3>1, <2>4, <1>1, <1>5, <1>9
  <2> QED
    BY <2>1, <2>2, <2>3, <1>4
<1> QED
  BY <1>6, <1>8, <1>9

\* The samples are a sequence in every state.
LEMMA SamplesTyped ==
  Spec => [](samples_from_unisamp \in Seq(Places \X Nat) /\ delivered \in [Places -> Nat])
<1> DEFINE Samples == samples_from_unisamp \in Seq(Places \X Nat) /\ delivered \in [Places -> Nat]
<1>1. Init => Samples
  BY DEF Init
<1>2. Samples /\ [Next]_threadVars => Samples'
  <2> SUFFICES ASSUME Samples, [Next]_threadVars PROVE Samples'
    OBVIOUS
  <2>1. ASSUME UNCHANGED sampling PROVE Samples'
    BY <2>1 DEF sampling
  <2>2. CASE Main
    BY <2>2, <2>1 DEF Main, StartSampler, AllSamplersStarted, JoinSampler, Join,
                      AllSamplersJoined, StartCounter, JoinCounter,
                      AllCountersJoined
  <2>3. ASSUME NEW k \in Places, LeavePush(k) PROVE Samples'
    <3>1. delivered[k] + 1 \in Nat /\ delivered' = [delivered EXCEPT ![k] = @ + 1]
      BY <2>3 DEF LeavePush
    <3>2. samples_from_unisamp' = samples_from_unisamp
          \/ samples_from_unisamp' = Append(samples_from_unisamp, <<k, delivered[k] + 1>>)
      BY <2>3 DEF LeavePush
    <3>3. <<k, delivered[k] + 1>> \in Places \X Nat
      BY <3>1
    <3>4. samples_from_unisamp' \in Seq(Places \X Nat)
      <4> DEFINE S == Places \X Nat
      <4>1. samples_from_unisamp \in Seq(S)
        OBVIOUS
      <4> HIDE DEF S
      <4>2. <<k, delivered[k] + 1>> \in S
        BY <3>3 DEF S
      <4>3. ASSUME NEW e \in S PROVE Append(samples_from_unisamp, e) \in Seq(S)
        BY <4>1
      <4>4. samples_from_unisamp' \in Seq(S)
        BY <3>2, <4>1, <4>2, <4>3
      <4> QED
        BY <4>4 DEF S
    <3>5. delivered' \in [Places -> Nat]
      BY <3>1
    <3> QED
      BY <3>4, <3>5
  <2>4. ASSUME NEW k \in Places, EnterPush(k) \/ SamplerReturns(k) \/ Counter(k)
        PROVE  Samples'
    BY <2>4, <2>1 DEF EnterPush, SamplerReturns, Counter, CountSample, CounterReturns
  <2>5. CASE Finished \/ UNCHANGED threadVars
    BY <2>5, <2>1 DEF Finished, threadVars
  <2> QED
    BY <2>2, <2>3, <2>4, <2>5 DEF Next, Sampler
<1> QED
  BY <1>1, <1>2, PTL DEF Spec

\* The partition gives every sample to exactly one counter, for every number of
\* samples and of threads.
THEOREM PartitionCorrect == Spec => []PartitionCovers
<1>1. samples_from_unisamp \in Seq(Places \X Nat) => PartitionCovers
  BY OnePart DEF PartitionCovers
<1> QED
  BY <1>1, SamplesTyped, PTL

(***************************************************************************)
(* The samples and the counts.                                             *)
(***************************************************************************)

\* A sequence with one element more is one.
LEMMA OneMore ==
  ASSUME NEW S, NEW s \in Seq(S), NEW e \in S
  PROVE  Append(s, e) \in Seq(S)
  OBVIOUS

\* A sampler about to push has not delivered all that UniGen delivers at most,
\* each sample is one of those delivered by its sampler, and nothing is counted
\* before the samplers are joined.
DataInv ==
  /\ okay \in BOOLEAN /\ sat \in BOOLEAN
  /\ i \in 0 .. NumThreads
  /\ delivered \in [Places -> 0 .. Share + Overshoot]
  /\ \A k \in Places : state[<<"sampler", k>>] = "pushing" => delivered[k] < Share + Overshoot
  /\ samples_from_unisamp \in Seq(Places \X (1 .. Share + Overshoot))
  /\ it \in [Places -> Nat] /\ iteration \in Nat /\ log_skolemcount \in Nat
  /\ pc \in {"start_samplers", "join_samplers"} => iteration = 0

\* The share of a sampler.
LEMMA ShareNat == Share \in Nat /\ Overshoot \in Nat /\ Share + Overshoot \in Nat
<1>1. SamplesNeeded \in Nat /\ Overshoot \in Nat
  BY ThreadsAssumption DEF ThreadsAssumption
<1>2. Share \in Nat
  BY <1>1, NumThreadsNat DEF Share
<1> QED
  BY <1>1, <1>2

\* The main thread starts no push, counts nothing and takes two turns at most.
LEMMA MainData ==
  ASSUME JoinInv, DataInv, Main
  PROVE  DataInv'
<1>1. UNCHANGED <<okay, sat, delivered, samples_from_unisamp, it, iteration, log_skolemcount>>
  BY DEF Main, StartSampler, AllSamplersStarted, JoinSampler, AllSamplersJoined,
         StartCounter, JoinCounter, AllCountersJoined, Join, sampling, counting
<1>2. i' \in 0 .. NumThreads
  <2>1. CASE StartSampler
    BY <2>1, NumThreadsNat DEF StartSampler, DataInv
  <2>2. CASE AllCountersJoined
    <3>1. i = 0 /\ i' = i + 1
      BY <2>2 DEF AllCountersJoined, JoinInv, FirstIsJoined
    <3> QED
      BY <3>1, NumThreadsNat
  <2>3. CASE ~StartSampler /\ ~AllCountersJoined
    <3>1. i' = i \/ i' = 0
      BY <2>3 DEF Main, AllSamplersStarted, JoinSampler, AllSamplersJoined,
                  StartCounter, JoinCounter, Join
    <3> QED
      BY <3>1, NumThreadsNat DEF DataInv
  <2> QED
    BY <2>1, <2>2, <2>3
<1>3. \A k \in Places : state'[<<"sampler", k>>] = "pushing" => state[<<"sampler", k>>] = "pushing"
  <2>1. CASE state' = state
    BY <2>1
  <2>2. ASSUME NEW t \in AllThreads, Start(t)
        PROVE  \A k \in Places :
                 state'[<<"sampler", k>>] = "pushing" => state[<<"sampler", k>>] = "pushing"
    BY <2>2, StartEffect, ThreadNames
  <2>3. CASE StartSampler
    <3>1. i \in Places /\ Start(<<"sampler", i>>)
      BY <2>3, NumThreadsNat DEF StartSampler, DataInv, Places
    <3> QED
      BY <2>2, <3>1, ThreadNames
  <2>4. CASE StartCounter
    <3>1. CASE i < NumThreads
      <4>1. i \in Places /\ Start(<<"counter", i>>)
        BY <2>4, <3>1, NumThreadsNat DEF StartCounter, DataInv, Places
      <4> QED
        BY <2>2, <4>1, ThreadNames
    <3>2. CASE ~(i < NumThreads)
      BY <2>1, <2>4, <3>2 DEF StartCounter
    <3> QED
      BY <3>1, <3>2
  <2>5. CASE ~StartSampler /\ ~StartCounter
    <3>1. state' = state
      BY <2>5 DEF Main, AllSamplersStarted, JoinSampler, AllSamplersJoined,
                  JoinCounter, AllCountersJoined, Join
    <3> QED
      BY <2>1, <3>1
  <2> QED
    BY <2>3, <2>4, <2>5
<1>4. pc' \in {"start_samplers", "join_samplers"}
        => pc \in {"start_samplers", "join_samplers"}
  BY DEF Main, StartSampler, AllSamplersStarted, JoinSampler, AllSamplersJoined,
         StartCounter, JoinCounter, AllCountersJoined, Join
<1> QED
  BY <1>1, <1>2, <1>3, <1>4 DEF DataInv

\* A sampler pushes samples up to the bound on what UniGen delivers.
LEMMA SamplerData ==
  ASSUME JoinInv, DataInv, NEW k \in Places, Sampler(k)
  PROVE  DataInv'
<1> DEFINE t == <<"sampler", k>>
<1>1. /\ UNCHANGED <<okay, sat, i, it, iteration, log_skolemcount>>
      /\ pc' \in {pc, "corrupted"}
  BY DEF Sampler, EnterPush, LeavePush, SamplerReturns, main, counting
<1>2. /\ t \in AllThreads /\ \A l \in Places : l # k => <<"sampler", l>> # t
      /\ state \in [AllThreads -> {"none", "running", "pushing", "done"}]
      /\ delivered \in [Places -> 0 .. Share + Overshoot]
  BY ThreadNames DEF JoinInv, ControlTypes, DataInv
<1>3. CASE EnterPush(k)
  <2>1. /\ state' = [state EXCEPT ![t] = "pushing"] /\ delivered[k] < Share + Overshoot
        /\ UNCHANGED <<delivered, samples_from_unisamp>>
    BY <1>3 DEF EnterPush, sampling
  <2>2. \A l \in Places : l # k => state'[<<"sampler", l>>] = state[<<"sampler", l>>]
    BY <1>2, <2>1, ThreadNames
  <2> QED
    BY <1>1, <2>1, <2>2 DEF DataInv
<1>4. CASE LeavePush(k)
  <2>1. /\ state[t] = "pushing" /\ state' = [state EXCEPT ![t] = "running"]
        /\ delivered' = [delivered EXCEPT ![k] = @ + 1]
        /\ \/ samples_from_unisamp' = Append(samples_from_unisamp, <<k, delivered[k] + 1>>)
           \/ UNCHANGED samples_from_unisamp
    BY <1>4 DEF LeavePush
  <2>2. delivered[k] \in Nat /\ delivered[k] < Share + Overshoot
    BY <1>2, <2>1, ShareNat DEF DataInv
  <2>3. delivered[k] + 1 \in 1 .. Share + Overshoot
    BY <2>2, ShareNat
  <2>4. samples_from_unisamp' \in Seq(Places \X (1 .. Share + Overshoot))
    <3> DEFINE S == Places \X (1 .. Share + Overshoot)
    <3>1. <<k, delivered[k] + 1>> \in S
      BY <2>3
    <3>2. samples_from_unisamp \in Seq(S)
      BY DEF DataInv
    <3> HIDE DEF S
    <3>3. Append(samples_from_unisamp, <<k, delivered[k] + 1>>) \in Seq(S)
      BY <3>1, <3>2, OneMore, Zenon
    <3>4. samples_from_unisamp' \in Seq(S)
      BY <2>1, <3>2, <3>3
    <3> QED
      BY <3>4 DEF S
  <2>5. /\ delivered' \in [Places -> 0 .. Share + Overshoot]
        /\ \A l \in Places : l # k => delivered'[l] = delivered[l]
    BY <1>2, <2>1, <2>3, ShareNat
  <2>6. /\ \A l \in Places : l # k => state'[<<"sampler", l>>] = state[<<"sampler", l>>]
        /\ state'[t] = "running"
    BY <1>2, <2>1, ThreadNames
  <2> QED
    BY <1>1, <2>4, <2>5, <2>6 DEF DataInv
<1>5. CASE SamplerReturns(k)
  <2>1. /\ state' = [state EXCEPT ![t] = "done"]
        /\ UNCHANGED <<delivered, samples_from_unisamp>>
    BY <1>5 DEF SamplerReturns, sampling
  <2>2. /\ \A l \in Places : l # k => state'[<<"sampler", l>>] = state[<<"sampler", l>>]
        /\ state'[t] = "done"
    BY <1>2, <2>1, ThreadNames
  <2> QED
    BY <1>1, <2>1, <2>2 DEF DataInv
<1> QED
  BY <1>3, <1>4, <1>5 DEF Sampler

\* A counter runs when the samplers have been joined.
LEMMA CounterData ==
  ASSUME JoinInv, DataInv, NEW k \in Places, Counter(k)
  PROVE  DataInv'
<1>1. UNCHANGED <<okay, sat, i, delivered, samples_from_unisamp>>
  BY DEF Counter, CountSample, CounterReturns, main, sampling
<1>2. \A l \in Places : state'[<<"sampler", l>>] = state[<<"sampler", l>>]
  BY ThreadNames DEF Counter, CountSample, CounterReturns, JoinInv, ControlTypes
<1>3. pc \in {"join_counters"} \cup Ended /\ pc' \in {pc, "sigfpe"}
  BY DEF Counter, CountSample, CounterReturns, JoinInv, OnlyThisCounter, main
<1>4. it' \in [Places -> Nat] /\ iteration' \in Nat /\ log_skolemcount' \in Nat
  <2>1. CASE UNCHANGED counting
    BY <2>1 DEF counting, DataInv
  <2>2. CASE ~UNCHANGED counting
    <3>1. PICK l \in Logs :
            /\ l # NegInf
            /\ it' = [it EXCEPT ![k] = @ + 1]
            /\ iteration' \in {iteration, iteration + 1}
            /\ log_skolemcount' \in {log_skolemcount, log_skolemcount + l}
      BY <2>2 DEF Counter, CountSample, CounterReturns
    <3>2. l \in Nat
      BY <3>1, ThreadsAssumption DEF ThreadsAssumption
    <3> QED
      BY <3>1, <3>2 DEF DataInv
  <2> QED
    BY <2>1, <2>2
<1> QED
  BY <1>1, <1>2, <1>3, <1>4 DEF DataInv, Ended

\* The bounds hold in every reachable state.
THEOREM DataCorrect == Spec => []DataInv
<1>1. Init => DataInv
  <2> SUFFICES ASSUME Init PROVE DataInv
    OBVIOUS
  <2>1. \A k \in Places : state[<<"sampler", k>>] = "none"
    BY ThreadNames DEF Init, AllThreads
  <2>2. /\ i = 0 /\ delivered = [k \in Places |-> 0] /\ it = [k \in Places |-> 0]
        /\ samples_from_unisamp = <<>> /\ iteration = 0 /\ log_skolemcount = 0
    BY DEF Init
  <2> QED
    BY <2>1, <2>2, ShareNat, NumThreadsNat DEF DataInv, Init
<1>2. JoinInv /\ DataInv /\ [Next]_threadVars => DataInv'
  <2> SUFFICES ASSUME JoinInv, DataInv, [Next]_threadVars PROVE DataInv'
    OBVIOUS
  <2>1. CASE UNCHANGED threadVars
    BY <2>1 DEF DataInv, threadVars, main, sampling, counting
  <2> QED
    BY <2>1, MainData, SamplerData, CounterData DEF Next, Finished
<1> QED
  BY <1>1, <1>2, JoinCorrect, PTL DEF Spec

\* Types in every reachable state.
THEOREM ThreadsTypeCorrect == Spec => []TypeOK
<1>1. JoinInv /\ DataInv => TypeOK
  <2> SUFFICES ASSUME JoinInv, DataInv PROVE TypeOK
    OBVIOUS
  <2>1. samples_from_unisamp \in Seq(Places \X Nat)
    <3>1. samples_from_unisamp \in Seq(Places \X (1 .. Share + Overshoot))
      BY DEF DataInv
    <3>2. Places \X (1 .. Share + Overshoot) \subseteq Places \X Nat
      BY ShareNat
    <3> QED
      BY <3>1, <3>2
  <2> QED
    BY <2>1 DEF TypeOK, JoinInv, ControlTypes, DataInv, Handles, AllThreads
<1> QED
  BY <1>1, JoinCorrect, DataCorrect, PTL

\* However many samplers there are, the pool holds at most as many different
\* samples as one of them delivers.
THEOREM OneStream == Spec => []SamplersDrawOneStream
<1>1. DataInv => SamplersDrawOneStream
  <2> SUFFICES ASSUME DataInv, pc \in {"start_samplers", "join_samplers"}
               PROVE  Cardinality(Draws(samples_from_unisamp)) <= Share + Overshoot
    BY DEF SamplersDrawOneStream
  <2> DEFINE N == Share + Overshoot
             stream == {0} \X (1 .. N)
  <2>1. Draws(samples_from_unisamp) \subseteq stream
    <3> SUFFICES ASSUME NEW n \in DOMAIN samples_from_unisamp
                 PROVE  <<SamplerSeed(samples_from_unisamp[n][1]), samples_from_unisamp[n][2]>>
                          \in stream
      BY DEF Draws
    <3>1. samples_from_unisamp[n] \in Places \X (1 .. N)
      BY DEF DataInv
    <3>2. samples_from_unisamp[n][1] \in Int
      BY <3>1, NumThreadsNat DEF Places
    <3>3. SamplerSeed(samples_from_unisamp[n][1]) = 0
      BY <3>2 DEF DataInv, SamplerSeed
    <3> QED
      BY <3>1, <3>3
  <2>2. IsFiniteSet(stream) /\ Cardinality(stream) = N
    <3>1. N \in Nat
      BY ShareNat
    <3>2. IsFiniteSet(1 .. N) /\ Cardinality(1 .. N) = N
      BY <3>1, FS_Interval
    <3>3. IsFiniteSet({0}) /\ Cardinality({0}) = 1
      BY FS_Singleton
    <3> DEFINE numbers == 1 .. N
    <3> HIDE DEF N, numbers
    <3>4. IsFiniteSet({0} \X numbers) /\ Cardinality({0} \X numbers) = 1 * N
      BY <3>2, <3>3, FS_Product, Zenon DEF numbers
    <3>5. IsFiniteSet(stream) /\ Cardinality(stream) = 1 * N
      BY <3>4 DEF numbers
    <3> QED
      BY <3>1, <3>5
  <2> QED
    BY <2>1, <2>2, FS_Subset
<1> QED
  BY <1>1, DataCorrect, PTL

(***************************************************************************)
(* Nobody waits in vain.                                                   *)
(***************************************************************************)

\* The main thread waits in join().
JoinWaits ==
  /\ pc \in {"join_samplers", "join_counters"} /\ j <= Len(threads)
  /\ ~threads[j].joined /\ state[threads[j].of] # "done"

\* A sampler may leave its push, push another sample or return; a counter may
\* count a sample of its part or return.
SamplerMayMove(k) ==
  \/ state[<<"sampler", k>>] = "pushing"
  \/ /\ state[<<"sampler", k>>] = "running"
     /\ (sat /\ delivered[k] < Share + Overshoot) \/ (sat => delivered[k] >= Share)

CounterMayMove(k) ==
  state[<<"counter", k>>] = "running" /\ (it[k] < Len(Part(k)) \/ it[k] = Len(Part(k)))

MayMove(t) ==
  \E k \in Places : \/ t = <<"sampler", k>> /\ SamplerMayMove(k)
                    \/ t = <<"counter", k>> /\ CounterMayMove(k)

\* The thread that the main thread waits for can always take its next step: it
\* is neither unstarted nor past the end of its part.
NobodyWaitsInVain == JoinWaits => MayMove(threads[j].of)

\* A thread object stands for a thread that has been started, and a counter
\* counts no more than its part, which does not change while it counts.
TurnInv ==
  /\ \A n \in 1 .. Len(threads) : state[threads[n].of] # "none"
  /\ \A k \in Places : state[<<"counter", k>>] # "pushing"
  /\ pc \in {"start_samplers", "join_samplers"} => \A k \in Places : it[k] = 0
  /\ Alive => \A k \in Places : it[k] <= Len(Part(k))

PartsHaveLength == \A k \in Places : Len(Part(k)) \in Nat

\* A part has a length, whatever the cuts.
LEMMA PartLength ==
  ASSUME DataInv
  PROVE  PartsHaveLength
<1> SUFFICES ASSUME NEW k \in Places
             PROVE  Len(Part(k)) \in Nat
  BY DEF PartsHaveLength
<1>0. samples_from_unisamp \in Seq(Places \X Nat)
  <2>1. 1 .. Share + Overshoot \subseteq Nat
    BY ShareNat
  <2>2. Places \X (1 .. Share + Overshoot) \subseteq Places \X Nat
    BY <2>1
  <2> QED
    BY <2>2 DEF DataInv
<1>1. k \in Nat /\ k + 1 \in Nat
  BY NumThreadsNat DEF Places
<1>2. Cut(k) \in Nat /\ Cut(k + 1) \in Nat
  <2>1. PartitionSize \in Nat /\ Len(samples_from_unisamp) \in Nat
    BY <1>0, PartsSuffice
  <2>2. k * PartitionSize \in Nat /\ (k + 1) * PartitionSize \in Nat
    <3> HIDE DEF PartitionSize
    <3> QED
      BY <1>1, <2>1
  <2> QED
    BY <2>1, <2>2 DEF Cut
<1>3. Cut(k) + 1 \in Int /\ Cut(k + 1) \in Int
  BY <1>2
<1> DEFINE m == Cut(k) + 1
           n == Cut(k + 1)
           S == {samples_from_unisamp[x] : x \in m .. n}
<1>4. \A x \in m .. n : samples_from_unisamp[x] \in S
  OBVIOUS
<1>5. m \in Int /\ n \in Int
  BY <1>3
<1> HIDE DEF m, n, S
<1>6. Len(SubSeq(samples_from_unisamp, m, n)) = IF m <= n THEN n - m + 1 ELSE 0
  BY <1>4, <1>5, SubSeqProperties, Zenon
<1>7. Len(SubSeq(samples_from_unisamp, m, n)) \in Nat
  BY <1>5, <1>6
<1> QED
  BY <1>7 DEF Part, m, n

\* Starting a thread.
LEMMA StartKeepsTurn ==
  ASSUME JoinInv, TurnInv, NEW t \in AllThreads, Start(t)
  PROVE  /\ \A n \in 1 .. Len(threads') : state'[threads'[n].of] # "none"
         /\ \A k \in Places : state'[<<"counter", k>>] # "pushing"
<1>3. \A k \in Places : state'[<<"counter", k>>] # "pushing"
  BY StartEffect, ThreadNames DEF TurnInv
<1> SUFFICES ASSUME NEW n \in 1 .. Len(threads')
             PROVE  state'[threads'[n].of] # "none"
  BY <1>3
<1>0. /\ Len(threads') = Len(threads) + 1 /\ Len(threads) \in Nat
      /\ threads'[Len(threads) + 1] = [of |-> t, joined |-> FALSE]
      /\ state'[t] = "running"
  <2>1. Len(threads) \in Nat
    BY DEF JoinInv, ControlTypes
  <2> QED
    BY <2>1, StartEffect
<1>1. CASE n = Len(threads) + 1
  BY <1>0, <1>1
<1>2. CASE n \in 1 .. Len(threads)
  <2>1. threads'[n] = threads[n] /\ threads[n].of \in AllThreads
    BY <1>2, StartEffect, HandleType
  <2>2. state[threads[n].of] # "none"
    BY <1>2 DEF TurnInv
  <2> QED
    BY <2>1, <2>2, StartEffect
<1> QED
  BY <1>0, <1>1, <1>2

\* The steps of the main thread.
LEMMA MainTurn ==
  ASSUME JoinInv, DataInv, TurnInv, Main
  PROVE  TurnInv'
<1>1. UNCHANGED <<samples_from_unisamp, it>>
  BY DEF Main, StartSampler, AllSamplersStarted, JoinSampler, AllSamplersJoined,
         StartCounter, JoinCounter, AllCountersJoined, Join, sampling, counting
<1>2. \A k \in Places : Part(k)' = Part(k)
  BY <1>1 DEF Part, Cut, PartitionSize
<1>3. Alive /\ (pc' \in {"start_samplers", "join_samplers"}
                  => pc \in {"start_samplers", "join_samplers"})
  BY DEF Main, StartSampler, AllSamplersStarted, JoinSampler, AllSamplersJoined,
         StartCounter, JoinCounter, AllCountersJoined, Join, Alive, Ended
<1>4. /\ \A n \in 1 .. Len(threads') : state'[threads'[n].of] # "none"
      /\ \A k \in Places : state'[<<"counter", k>>] # "pushing"
  <2>1. CASE StartSampler
    <3>1. i \in Places /\ Start(<<"sampler", i>>)
      BY <2>1, NumThreadsNat DEF StartSampler, DataInv, Places
    <3>2. <<"sampler", i>> \in AllThreads
      BY <3>1, ThreadNames
    <3> QED
      BY <3>1, <3>2, StartKeepsTurn
  <2>2. CASE StartCounter /\ i < NumThreads
    <3>1. i \in Places /\ Start(<<"counter", i>>)
      BY <2>2, NumThreadsNat DEF StartCounter, DataInv, Places
    <3>2. <<"counter", i>> \in AllThreads
      BY <3>1, ThreadNames
    <3> QED
      BY <3>1, <3>2, StartKeepsTurn
  <2>3. CASE UNCHANGED <<threads, state>>
    BY <2>3 DEF TurnInv
  <2>4. CASE Join /\ ~UNCHANGED threads
    <3>1. /\ threads' = [threads EXCEPT ![j].joined = TRUE] /\ state' = state
          /\ j \in 1 .. Len(threads)
      BY <2>4 DEF Join, JoinInv, ControlTypes
    <3>2. Len(threads') = Len(threads) /\ threads \in Seq(Handles)
      BY <3>1 DEF JoinInv, ControlTypes
    <3>3. ASSUME NEW n \in 1 .. Len(threads)
          PROVE  threads'[n].of = threads[n].of
      BY <3>1, <3>2, HandleType DEF Handles
    <3> QED
      BY <3>1, <3>2, <3>3 DEF TurnInv
  <2> QED
    BY <2>1, <2>2, <2>3, <2>4
       DEF Main, AllSamplersStarted, JoinSampler, AllSamplersJoined, StartCounter,
           JoinCounter, AllCountersJoined, Join
<1> QED
  BY <1>1, <1>2, <1>3, <1>4 DEF TurnInv

\* A thread that moves has been started before, and stays so.
LEMMA MoveKeepsTurn ==
  ASSUME JoinInv, TurnInv, NEW t \in AllThreads, NEW s, s # "none",
         t \in Counters => s # "pushing",
         state' = state \/ state' = [state EXCEPT ![t] = s], threads' = threads
  PROVE  /\ \A n \in 1 .. Len(threads') : state'[threads'[n].of] # "none"
         /\ \A k \in Places : state'[<<"counter", k>>] # "pushing"
<1>2. ASSUME NEW k \in Places
      PROVE  state'[<<"counter", k>>] # "pushing"
  <2>1. <<"counter", k>> \in AllThreads /\ <<"counter", k>> \in Counters
    BY ThreadNames DEF Counters
  <2> QED
    BY <2>1 DEF TurnInv, JoinInv, ControlTypes
<1> SUFFICES ASSUME NEW n \in 1 .. Len(threads)
             PROVE  state'[threads[n].of] # "none"
  BY <1>2
<1>1. threads[n].of \in AllThreads /\ state[threads[n].of] # "none"
  BY HandleType DEF TurnInv
<1> QED
  BY <1>1 DEF JoinInv, ControlTypes

\* The steps of the samplers: none is taken after the samplers are joined.
LEMMA SamplerTurn ==
  ASSUME JoinInv, PartsHaveLength', TurnInv, NEW k \in Places, Sampler(k)
  PROVE  TurnInv'
<1>1. /\ threads' = threads /\ it' = it /\ pc' \in {pc, "corrupted"}
      /\ state[<<"sampler", k>>] \in {"running", "pushing"} /\ Alive
      /\ \E s \in {"running", "pushing", "done"} :
           state' = [state EXCEPT ![<<"sampler", k>>] = s]
  BY DEF Sampler, EnterPush, LeavePush, SamplerReturns, main, counting
<1>2. pc \in {"start_samplers", "join_samplers"}
  BY <1>1 DEF JoinInv, SamplersSettled, ControlTypes, Alive
<1>3. /\ \A n \in 1 .. Len(threads') : state'[threads'[n].of] # "none"
      /\ \A l \in Places : state'[<<"counter", l>>] # "pushing"
  <2>1. <<"sampler", k>> \in AllThreads /\ <<"sampler", k>> \notin Counters
    BY ThreadNames DEF Counters
  <2> QED
    BY <1>1, <2>1, MoveKeepsTurn
<1>4. ASSUME NEW l \in Places
      PROVE  it[l] = 0 /\ Len(Part(l))' \in Nat
  BY <1>2 DEF TurnInv, PartsHaveLength
<1> QED
  BY <1>1, <1>3, <1>4 DEF TurnInv

\* The steps of the counters: one more of the part, or none.
LEMMA CounterTurn ==
  ASSUME JoinInv, DataInv, TurnInv, NEW k \in Places, Counter(k)
  PROVE  TurnInv'
<1>1. /\ threads' = threads /\ samples_from_unisamp' = samples_from_unisamp
      /\ state[<<"counter", k>>] = "running"
      /\ state' = state \/ state' = [state EXCEPT ![<<"counter", k>>] = "done"]
      /\ pc' \in {pc, "sigfpe"} /\ Alive
  BY DEF Counter, CountSample, CounterReturns, main, sampling
<1>2. pc \notin {"start_samplers", "join_samplers"}
  <2>1. pc \in {"join_counters"} \cup Ended
    BY <1>1 DEF JoinInv, OnlyThisCounter
  <2> QED
    BY <2>1 DEF Ended
<1>3. /\ \A n \in 1 .. Len(threads') : state'[threads'[n].of] # "none"
      /\ \A l \in Places : state'[<<"counter", l>>] # "pushing"
  BY <1>1, MoveKeepsTurn, ThreadNames
<1>4. \A l \in Places : Part(l)' = Part(l)
  BY <1>1 DEF Part, Cut, PartitionSize
<1>5. ASSUME NEW l \in Places
      PROVE  it'[l] <= Len(Part(l))
  <2>1. it[l] <= Len(Part(l)) /\ it[l] \in Nat /\ Len(Part(l)) \in Nat
    <3>1. PartsHaveLength
      BY PartLength
    <3> QED
      BY <1>1, <3>1 DEF TurnInv, DataInv, PartsHaveLength
  <2>2. it'[l] = it[l] \/ (it'[l] = it[l] + 1 /\ it[l] < Len(Part(l)))
    BY DEF Counter, CountSample, CounterReturns, counting, DataInv
  <2> QED
    BY <2>1, <2>2
<1> QED
  BY <1>1, <1>2, <1>3, <1>4, <1>5 DEF TurnInv

\* The main thread never waits for a thread that cannot go on: the exception of
\* the second join() is all that keeps it from its result.
THEOREM EachWaitEnds == Spec => []NobodyWaitsInVain
<1>1. Init /\ DataInv => TurnInv
  <2> SUFFICES ASSUME Init, DataInv PROVE TurnInv
    OBVIOUS
  <2>1. /\ threads = <<>> /\ \A k \in Places : it[k] = 0
        /\ \A k \in Places : state[<<"counter", k>>] # "pushing"
    BY DEF Init, Counters
  <2>2. ASSUME NEW k \in Places
        PROVE  it[k] <= Len(Part(k))
    BY <2>1, PartLength DEF PartsHaveLength
  <2> QED
    BY <2>1, <2>2 DEF TurnInv
<1>2. DataInv => PartsHaveLength
  BY PartLength
<1>3. JoinInv /\ DataInv /\ PartsHaveLength' /\ TurnInv /\ [Next]_threadVars => TurnInv'
  <2> SUFFICES ASSUME JoinInv, DataInv, PartsHaveLength', TurnInv, [Next]_threadVars
               PROVE  TurnInv'
    OBVIOUS
  <2>1. CASE UNCHANGED threadVars
    BY <2>1 DEF TurnInv, threadVars, main, sampling, counting, Alive, Part, Cut, PartitionSize
  <2> QED
    BY <2>1, MainTurn, SamplerTurn, CounterTurn DEF Next, Finished
<1>4. JoinInv /\ DataInv /\ TurnInv => NobodyWaitsInVain
  <2> SUFFICES ASSUME JoinInv, DataInv, TurnInv, JoinWaits
               PROVE  MayMove(threads[j].of)
    BY DEF NobodyWaitsInVain
  <2>1. j \in 1 .. Len(threads)
    BY DEF JoinWaits, JoinInv, ControlTypes
  <2>2. PICK t \in AllThreads : t = threads[j].of
    BY <2>1, HandleType
  <2>3. state[t] \in {"running", "pushing"} /\ Alive
    BY <2>1, <2>2 DEF JoinWaits, TurnInv, JoinInv, ControlTypes, Alive, Ended
  <2>4. ASSUME NEW k \in Places, t = <<"sampler", k>>
        PROVE  SamplerMayMove(k)
    <3>1. delivered[k] \in Nat /\ Share \in Nat /\ Overshoot \in Nat
      BY ShareNat DEF DataInv
    <3>2. sat => delivered[k] < Share + Overshoot \/ delivered[k] >= Share
      BY <3>1
    <3> QED
      BY <2>3, <2>4, <3>2 DEF SamplerMayMove
  <2>5. ASSUME NEW k \in Places, t = <<"counter", k>>
        PROVE  CounterMayMove(k)
    <3>1. it[k] <= Len(Part(k)) /\ it[k] \in Nat /\ Len(Part(k)) \in Nat
      <4>1. PartsHaveLength
        BY PartLength
      <4> QED
        BY <2>3, <4>1 DEF TurnInv, DataInv, PartsHaveLength
    <3>2. state[<<"counter", k>>] = "running"
      BY <2>3, <2>5 DEF TurnInv
    <3> QED
      BY <3>1, <3>2 DEF CounterMayMove
  <2> QED
    BY <2>2, <2>4, <2>5, ThreadKinds DEF MayMove
<1> QED
  BY <1>1, <1>2, <1>3, <1>4, JoinCorrect, DataCorrect, PTL DEF Spec
=============================================================================
