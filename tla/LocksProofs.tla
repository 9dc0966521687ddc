----------------------------- MODULE LocksProofs -----------------------------
(***************************************************************************)
(* Proofs about the deadlock-resistant mutexes of deadlock_demolition and  *)
(* the semaphore and the barrier of critical_concurrency, for any number   *)
(* of threads, drms and rounds and any maximum.                            *)
(***************************************************************************)
EXTENDS Libdrm, Semamore, Barrier, FiniteSetTheorems, TLAPS

-----------------------------------------------------------------------------
(* semamore.c *)

SemmInv == SemmTypeOK /\ SleepJustified

LEMMA SemmInitInv == SemmInit => SemmInv
BY SemamoreAssumption
DEF SemmInit, SemmInv, SemmTypeOK, ValueInBounds, SleepJustified

LEMMA SemmNextInv == SemmInv /\ [SemmNext]_semm_vars => SemmInv'
<1> SUFFICES ASSUME SemmInv, [SemmNext]_semm_vars PROVE SemmInv'
  OBVIOUS
<1> USE SemamoreAssumption
    DEF SemmInv, SemmTypeOK, ValueInBounds, SleepJustified, MustSleep
<1>1. ASSUME NEW t \in SemmThreads, NEW f \in {"wait", "post"}, SemmCall(t, f)
      PROVE  SemmInv'
  BY <1>1 DEF SemmCall
<1>2. ASSUME NEW t \in SemmThreads, SemmSleep(t) PROVE SemmInv'
  BY <1>2 DEF SemmSleep
<1>3. ASSUME NEW t \in SemmThreads, SemmProceed(t) PROVE SemmInv'
  <2>1. value' \in 0..MaxVal
    BY <1>3 DEF SemmProceed, Changed
  <2>2. /\ semm_pc' \in [SemmThreads -> {"idle", "enter", "asleep", "woken"}]
        /\ \A u \in SemmThreads : semm_pc'[u] # "asleep"
    BY <1>3 DEF SemmProceed, AfterBroadcast
  <2> QED
    BY <1>3, <2>1, <2>2 DEF SemmProceed
<1>4. ASSUME NEW t \in SemmThreads, SemmSpuriousWakeup(t) PROVE SemmInv'
  BY <1>4 DEF SemmSpuriousWakeup
<1>5. CASE UNCHANGED semm_vars
  BY <1>5 DEF semm_vars
<1> QED
  BY <1>1, <1>2, <1>3, <1>4, <1>5 DEF SemmNext

\* The value stays in 0..max_val and a thread never sleeps while it could
\* proceed, for any number of threads.
THEOREM SemmCorrect == SemmSpec => [](SemmTypeOK /\ SleepJustified)
<1>1. SemmInv => SemmTypeOK /\ SleepJustified
  BY DEF SemmInv
<1> QED
  BY SemmInitInv, SemmNextInv, <1>1, PTL DEF SemmSpec

-----------------------------------------------------------------------------
(* barrier.c *)

\* The threads that have come to the barrier in the round that is going on.
InRound == {t \in BarrierThreads : arrived[t] = times_used + 1}

\* Nobody is more than one round ahead, and `count` is how many are.
RoundInv ==
  /\ \A t \in BarrierThreads :
       /\ arrived[t] \in {times_used, times_used + 1} /\ arrived[t] <= Rounds
       /\ left[t] = IF barrier_pc[t] = "out" THEN arrived[t] ELSE arrived[t] - 1
  /\ count = Cardinality(InRound)

\* Where a thread is in barrier_wait tells the round it is in: a thread that
\* was woken by the broadcast still belongs to the round before.
PlaceInv ==
  \A t \in BarrierThreads :
    /\ current_times_used[t] <= times_used
    /\ barrier_pc[t] = "asleep" => /\ arrived[t] = times_used + 1
                                  /\ current_times_used[t] = times_used
    /\ ~spurious /\ barrier_pc[t] \in {"woken", "check"} =>
         arrived[t] = times_used /\ times_used = current_times_used[t] + 1
    /\ ~spurious /\ barrier_pc[t] = "out" => arrived[t] = times_used
    /\ ret[t] = SERIAL => times_used >= 1

BarrierInv ==
  /\ BarrierTypeOK /\ RoundInv /\ PlaceInv
  /\ b = "raw" => count = 0 /\ times_used = 0

\* The number of threads is a positive natural number.
LEMMA ThreadsCounted ==
  /\ n_threads \in Nat \ {0}
  /\ \A S \in SUBSET BarrierThreads :
       /\ IsFiniteSet(S) /\ Cardinality(S) \in 0..n_threads
       /\ Cardinality(S) = n_threads => S = BarrierThreads
<1>1. n_threads \in Nat /\ n_threads # 0
  BY BarrierAssumption, FS_CardinalityType, FS_EmptySet DEF n_threads
<1>2. ASSUME NEW S \in SUBSET BarrierThreads
      PROVE  /\ IsFiniteSet(S) /\ Cardinality(S) \in 0..n_threads
             /\ Cardinality(S) = n_threads => S = BarrierThreads
  BY <1>1, BarrierAssumption, FS_Subset, FS_CardinalityType DEF n_threads
<1> QED
  BY <1>1, <1>2

LEMMA BarrierInitInv == BarrierInit => BarrierInv
<1> SUFFICES ASSUME BarrierInit PROVE BarrierInv
  OBVIOUS
<1> USE BarrierAssumption DEF BarrierInit
<1>1. BarrierTypeOK
  BY ThreadsCounted DEF BarrierTypeOK, SERIAL
<1>2. InRound = {}
  BY DEF InRound
<1>3. RoundInv
  BY <1>2, FS_EmptySet DEF RoundInv, Rounds
<1>4. PlaceInv
  BY DEF PlaceInv, SERIAL
<1> QED
  BY <1>1, <1>3, <1>4 DEF BarrierInv

\* The first thread of a round, or any but the last, is counted and sleeps.
LEMMA ArriveInv ==
  ASSUME BarrierInv, NEW t \in BarrierThreads, Arrive(t) PROVE BarrierInv'
<1> USE BarrierAssumption DEF BarrierInv, BarrierTypeOK, RoundInv, PlaceInv
<1>1. t \notin InRound /\ arrived[t] = times_used
  BY DEF Arrive, InRound, Rounds
<1>2. InRound' = InRound \cup {t}
  BY <1>1 DEF Arrive, InRound
<1>3. count' = Cardinality(InRound') /\ count' \in 0..(n_threads - 1)
  <2>1. count + 1 = Cardinality(InRound \cup {t})
    BY <1>1, ThreadsCounted, FS_AddElement DEF InRound
  <2> QED
    BY <1>2, <2>1, ThreadsCounted DEF Arrive, IsLast
<1>4. BarrierTypeOK'
  BY <1>1, <1>3 DEF Arrive, Rounds
<1>5. RoundInv'
  BY <1>1, <1>3 DEF Arrive, Rounds
<1>6. PlaceInv'
  BY <1>1 DEF Arrive
<1> QED
  BY <1>4, <1>5, <1>6 DEF Arrive

\* The last thread of a round finds everybody else asleep in it.
LEMMA ArriveLastInv ==
  ASSUME BarrierInv, NEW t \in BarrierThreads, ArriveLast(t) PROVE BarrierInv'
<1> USE BarrierAssumption DEF BarrierInv, BarrierTypeOK, RoundInv, PlaceInv
<1>1. t \notin InRound /\ arrived[t] = times_used
  BY DEF ArriveLast, InRound, Rounds
<1>2. InRound \cup {t} = BarrierThreads
  <2>1. Cardinality(InRound \cup {t}) = n_threads
    BY <1>1, ThreadsCounted, FS_AddElement DEF InRound, ArriveLast, IsLast
  <2> QED
    BY <2>1, ThreadsCounted DEF InRound
<1>3. \A u \in BarrierThreads : arrived'[u] = times_used + 1
  BY <1>1, <1>2 DEF ArriveLast, InRound
<1>4. times_used' = times_used + 1 /\ times_used' \in 1..MaxRounds
  BY <1>1 DEF ArriveLast, Rounds
<1>5. InRound' = {}
  BY <1>3, <1>4 DEF InRound
<1>6. count' = 0 /\ count' = Cardinality(InRound')
  BY <1>5, FS_EmptySet DEF ArriveLast, CountAfterLast
<1>7. BarrierTypeOK'
  BY <1>1, <1>4, <1>6, ThreadsCounted DEF ArriveLast, Return, Rounds
<1>8. RoundInv'
  <2> SUFFICES ASSUME NEW u \in BarrierThreads
               PROVE  /\ arrived'[u] <= Rounds'
                      /\ left'[u] = IF barrier_pc'[u] = "out" THEN arrived'[u] ELSE arrived'[u] - 1
    BY <1>3, <1>4, <1>6
  <2> QED
    BY <1>1, <1>2, <1>3 DEF ArriveLast, Return, Rounds, InRound
<1>9. PlaceInv'
  <2> SUFFICES ASSUME NEW u \in BarrierThreads
               PROVE  /\ current_times_used'[u] <= times_used'
                      /\ barrier_pc'[u] # "asleep"
                      /\ ~spurious /\ barrier_pc'[u] \in {"woken", "check"} =>
                            times_used' = current_times_used'[u] + 1
    BY <1>3, <1>4 DEF ArriveLast
  <2> QED
    BY <1>1, <1>2, <1>4 DEF ArriveLast, InRound
<1> QED
  BY <1>7, <1>8, <1>9 DEF ArriveLast

\* The other steps leave the rounds as they are.
LEMMA BarrierNextInv == BarrierInv /\ [BarrierNext]_barrier_vars => BarrierInv'
<1> SUFFICES ASSUME BarrierInv, [BarrierNext]_barrier_vars PROVE BarrierInv'
  OBVIOUS
<1> USE DEF BarrierInv, BarrierTypeOK, RoundInv, PlaceInv, InRound, Rounds
<1>1. CASE barrier_init
  BY <1>1 DEF barrier_init
<1>2. CASE barrier_destroy
  BY <1>2 DEF barrier_destroy
<1>3. ASSUME NEW t \in BarrierThreads, barrier_wait(t) PROVE BarrierInv'
  <2>1. CASE Wake(t)
    BY <2>1 DEF Wake
  <2>2. CASE Check(t)
    <3>1. left'[t] = arrived[t] /\ left'[t] \in 0..MaxRounds
      BY <2>2 DEF Check, Return
    <3>2. ret'[t] \in {"0", SERIAL} /\ (ret'[t] = SERIAL => times_used >= 1)
      BY <2>2 DEF Check, Return, Verdict, SERIAL
    <3> QED
      BY <2>2, <3>1, <3>2 DEF Check, Return
  <2> QED
    BY <1>3, <2>1, <2>2, ArriveInv, ArriveLastInv DEF barrier_wait
<1>4. ASSUME NEW t \in BarrierThreads, BarrierSpuriousWakeup(t) PROVE BarrierInv'
  BY <1>4 DEF BarrierSpuriousWakeup
<1>5. CASE UNCHANGED barrier_vars
  BY <1>5 DEF barrier_vars
<1> QED
  BY <1>1, <1>2, <1>3, <1>4, <1>5 DEF BarrierNext

\* Rounds of the barrier never overlap, the unlocked read of times_used is
\* exact and an early return is reported (barrier.c:31-50), for any number of
\* threads and of rounds.
THEOREM RoundsSeparate == BarrierSpec => []NoOvertaking
<1>1. BarrierInv => NoOvertaking
  <2> SUFFICES ASSUME BarrierInv PROVE NoOvertaking
    OBVIOUS
  <2> QED
    BY DEF BarrierInv, BarrierTypeOK, RoundInv, PlaceInv, NoOvertaking
<1> QED
  BY BarrierInitInv, BarrierNextInv, <1>1, PTL DEF BarrierSpec

-----------------------------------------------------------------------------
(* libdrm.c.  NoDeadlock is inductive together with GraphTruth.  The only  *)
(* step that can close a circle is a request that is_Cycle accepts.  If it *)
(* did, the threads of the circle and the drms they wait for would be a    *)
(* set that is closed under the edges, contains the requester and in which *)
(* every vertex has a successor: is_Cycle would have answered 1.           *)

\* A thread that is inside drm_wait knows the drm it waits for.
WantInv ==
  /\ \A t \in Threads : pc[t] # "idle" <=> want[t] # NULL
  /\ \A t \in Threads : pc[t] # "idle" => want[t] \in drms
  /\ \A t \in Threads : pc[t] = "swap" => owner[want[t]] = t
  /\ \A d \in Drms : owner[d] # NULL => d \in drms /\ owner[d] \in vertices
  /\ \A d \in drms : d \in vertices

IInv == TypeOK /\ WantInv /\ GraphTruth /\ NoDeadlock

USE DrmAssumption

LEMMA InitIInv == Init => IInv
BY DEF Init, IInv, TypeOK, WantInv, GraphTruth, NoDeadlock, CircularWait, Vertex

\* Types and the bookkeeping of drm_wait are kept by every step.
LEMMA TypeStep == IInv /\ [Next]_vars => TypeOK' /\ WantInv'
<1> SUFFICES ASSUME IInv, [Next]_vars PROVE TypeOK' /\ WantInv'
  OBVIOUS
<1>0. TypeOK /\ WantInv /\ GraphTruth
  BY DEF IInv
<1> USE DEF TypeOK, WantInv, Vertex
<1>1. ASSUME NEW d \in Drms, DrmInit(d) PROVE TypeOK' /\ WantInv'
  BY <1>0, <1>1 DEF DrmInit
<1>2. ASSUME NEW d \in Drms, DrmDestroy(d) PROVE TypeOK' /\ WantInv'
  BY <1>0, <1>2 DEF DrmDestroy
<1>3. ASSUME NEW t \in Threads, WaitAcquire(t) PROVE TypeOK' /\ WantInv'
  <2>1. want[t] \in Drms /\ want[t] \in drms
    BY <1>0, <1>3 DEF WaitAcquire
  <2>2. t \in vertices
    <3>1. <<t, want[t]>> \in edges
      BY <1>0, <1>3, <2>1, ZenonT(30) DEF WaitAcquire, GraphTruth
    <3> QED
      BY <1>0, <3>1
  <2>3. TypeOK'
    BY <1>0, <1>3, <2>1 DEF WaitAcquire
  <2>4. WantInv'
    BY <1>0, <1>3, <2>1, <2>2 DEF WaitAcquire
  <2> QED
    BY <2>3, <2>4
<1>4. ASSUME NEW t \in Threads, WaitSwap(t) PROVE TypeOK' /\ WantInv'
  BY <1>0, <1>4 DEF WaitSwap, EdgesAfterSwap
<1>5. ASSUME NEW t \in Threads, NEW d \in Drms, WaitRequest(t, d)
      PROVE  TypeOK' /\ WantInv'
  BY <1>0, <1>5 DEF WaitRequest, WithVertex
<1>6. ASSUME NEW t \in Threads, NEW d \in Drms, DrmPost(t, d)
      PROVE  TypeOK' /\ WantInv'
  <2>1. owner[d] = t /\ pc[t] = "idle"
    BY <1>0, <1>6 DEF DrmPost, GraphTruth
  <2>2. TypeOK'
    BY <1>0, <1>6 DEF DrmPost, EdgesAfterPost, OwnerAfterPost
  <2>3. WantInv'
    BY <1>0, <1>6, <2>1 DEF DrmPost, OwnerAfterPost
  <2> QED
    BY <2>2, <2>3
<1>7. CASE UNCHANGED vars
  BY <1>0, <1>7 DEF vars
<1> QED
  BY <1>1, <1>2, <1>3, <1>4, <1>5, <1>6, <1>7 DEF Next

\* Every step keeps the graph in agreement with the mutexes.
LEMMA GraphStep == IInv /\ [Next]_vars => GraphTruth'
<1> SUFFICES ASSUME IInv, [Next]_vars PROVE GraphTruth'
  OBVIOUS
<1>0. TypeOK /\ WantInv /\ GraphTruth
  BY DEF IInv
<1> USE DEF GraphTruth, Vertex
<1>1. ASSUME NEW d \in Drms, DrmInit(d) PROVE GraphTruth'
  BY <1>0, <1>1 DEF DrmInit
<1>2. ASSUME NEW d \in Drms, DrmDestroy(d) PROVE GraphTruth'
  <2>1. \A x, y \in Vertex : <<x, y>> \in edges' <=> <<x, y>> \in edges /\ x # d /\ y # d
    BY <1>2 DEF DrmDestroy
  <2> QED
    BY <1>0, <1>2, <2>1 DEF DrmDestroy, TypeOK
<1>3. ASSUME NEW t \in Threads, WaitAcquire(t) PROVE GraphTruth'
  <2>1. want[t] \in Drms /\ pc[t] = "block" /\ owner[want[t]] = NULL
    BY <1>0, <1>3 DEF WaitAcquire, WantInv, TypeOK
  <2> QED
    BY <1>0, <1>3, <2>1 DEF WaitAcquire, TypeOK
<1>4. ASSUME NEW t \in Threads, WaitSwap(t) PROVE GraphTruth'
  <2>1. want[t] \in Drms /\ pc[t] = "swap" /\ owner[want[t]] = t
    BY <1>0, <1>4 DEF WaitSwap, WantInv, TypeOK
  <2>2. \A x, y : <<x, y>> \in edges' <=>
           (<<x, y>> \in edges /\ ~(x = t /\ y = want[t])) \/ (x = want[t] /\ y = t)
    BY <1>4 DEF WaitSwap, EdgesAfterSwap
  <2> QED
    BY <1>0, <1>4, <2>1, <2>2 DEF WaitSwap, TypeOK
<1>5. ASSUME NEW t \in Threads, NEW d \in Drms, WaitRequest(t, d) PROVE GraphTruth'
  <2>1. CASE UNCHANGED <<edges, pc, want>>
    BY <1>0, <1>5, <2>1 DEF WaitRequest
  <2>2. CASE /\ edges' = edges \cup {<<t, d>>}
             /\ pc' = [pc EXCEPT ![t] = "block"]
             /\ want' = [want EXCEPT ![t] = d]
    <3>1. \A x, y : <<x, y>> \in edges' <=> <<x, y>> \in edges \/ (x = t /\ y = d)
      BY <2>2
    <3> QED
      BY <1>0, <1>5, <2>2, <3>1 DEF WaitRequest, TypeOK
  <2> QED
    BY <1>5, <2>1, <2>2 DEF WaitRequest
<1>6. ASSUME NEW t \in Threads, NEW d \in Drms, DrmPost(t, d) PROVE GraphTruth'
  <2>1. \A x, y : <<x, y>> \in edges' <=> <<x, y>> \in edges /\ ~(x = d /\ y = t)
    BY <1>6 DEF DrmPost, EdgesAfterPost
  <2>2. owner[d] = t /\ pc[t] = "idle" /\ pc' = pc /\ want' = want
    BY <1>0, <1>6 DEF DrmPost
  <2>3. \A e \in Drms : owner'[e] = IF e = d THEN NULL ELSE owner[e]
    BY <1>0, <1>6 DEF DrmPost, OwnerAfterPost, TypeOK
  <2>4. \A u \in Threads, e \in Drms :
           <<u, e>> \in edges' <=> pc'[u] # "idle" /\ want'[u] = e
    BY <1>0, <2>1, <2>2, ZenonT(30)
  <2>5. \A u \in Threads, e \in Drms : <<e, u>> \in edges' <=>
           owner'[e] = u /\ ~(pc'[u] = "swap" /\ want'[u] = e)
    <3> SUFFICES ASSUME NEW u \in Threads, NEW e \in Drms
                 PROVE  <<e, u>> \in edges' <=>
                          owner'[e] = u /\ ~(pc[u] = "swap" /\ want[u] = e)
      BY <2>2
    <3>1. <<e, u>> \in edges <=> owner[e] = u /\ ~(pc[u] = "swap" /\ want[u] = e)
      BY <1>0
    <3>2. CASE e = d
      <4>1. <<e, u>> \notin edges'
        BY <2>1, <2>2, <3>1, <3>2
      <4>2. owner'[e] # u
        BY <2>3, <3>2
      <4> QED
        BY <4>1, <4>2
    <3>3. CASE e # d
      BY <2>1, <2>3, <3>1, <3>3
    <3> QED
      BY <3>2, <3>3
  <2>6. \A x, y \in Vertex : <<x, y>> \in edges' => (x \in Threads <=> y \in Drms)
    BY <1>0, <2>1
  <2> QED
    BY <2>4, <2>5, <2>6
<1>7. CASE UNCHANGED vars
  BY <1>0, <1>7 DEF vars
<1> QED
  BY <1>1, <1>2, <1>3, <1>4, <1>5, <1>6, <1>7 DEF Next

\* An accepted request does not close a circle of waiting threads.
LEMMA AcceptedIsSafe ==
  ASSUME IInv, TypeOK', GraphTruth', WantInv',
         NEW t \in Threads, NEW d \in Drms,
         WaitRequest(t, d), ~is_Cycle(edges \cup {<<t, d>>}, t)
  PROVE  NoDeadlock'
<1> SUFFICES ASSUME NEW S \in SUBSET Threads, CircularWait(S)' PROVE FALSE
  BY DEF NoDeadlock
<1>1. /\ pc' = [pc EXCEPT ![t] = "block"] /\ want' = [want EXCEPT ![t] = d]
      /\ owner' = owner /\ edges' = edges \cup {<<t, d>>}
  BY DEF WaitRequest
<1>2. t \in S
  <2> SUFFICES ASSUME t \notin S PROVE FALSE
    OBVIOUS
  <2>1. CircularWait(S)
    BY <1>1 DEF CircularWait, IInv, TypeOK
  <2> QED
    BY <2>1 DEF IInv, NoDeadlock
<1> DEFINE R == S \cup {want'[u] : u \in S}
<1>3. \A u \in S : /\ pc'[u] = "block" /\ want'[u] \in Drms
                   /\ owner'[want'[u]] \in S
  BY DEF CircularWait, TypeOK, WantInv
<1>4. R \in SUBSET Vertex
  BY <1>3 DEF Vertex
<1>5. Closed(edges', R)
  <2> SUFFICES ASSUME NEW x \in R, NEW y \in Vertex, <<x, y>> \in edges'
               PROVE  y \in R
    BY DEF Closed
  <2>1. CASE x \in S
    <3>1. y \in Drms
      BY <1>4, <2>1 DEF GraphTruth, Vertex
    <3>2. want'[x] = y
      BY <2>1, <3>1 DEF GraphTruth
    <3> QED
      BY <2>1, <3>2
  <2>2. CASE x \notin S
    <3>1. PICK u \in S : x = want'[u]
      BY <2>2
    <3>2. x \in Drms /\ y \in Threads
      BY <1>3, <3>1 DEF GraphTruth, Vertex
    <3>3. owner'[x] = y
      BY <3>2 DEF GraphTruth
    <3> QED
      BY <1>3, <3>1, <3>3
  <2> QED
    BY <2>1, <2>2
<1>6. \A x \in R : \E y \in Vertex : <<x, y>> \in edges'
  <2> SUFFICES ASSUME NEW x \in R PROVE \E y \in Vertex : <<x, y>> \in edges'
    OBVIOUS
  <2>1. CASE x \in S
    BY <1>3, <2>1 DEF GraphTruth, Vertex
  <2>2. CASE x \notin S
    <3>1. PICK u \in S : x = want'[u]
      BY <2>2
    <3>2. owner'[x] \in S /\ x \in Drms /\ pc'[owner'[x]] = "block"
      BY <1>3, <3>1
    <3>3. <<x, owner'[x]>> \in edges'
      BY <3>2 DEF GraphTruth
    <3> QED
      BY <3>2, <3>3 DEF Vertex
  <2> QED
    BY <2>1, <2>2
<1> HIDE DEF R
<1>7. \A x \in Reach(edges', t) : x \in R
  BY <1>2, <1>4, <1>5 DEF Reach, R
<1>8. is_Cycle(edges', t)
  BY <1>6, <1>7 DEF is_Cycle
<1> QED
  BY <1>1, <1>8

\* No step closes a circle of waiting threads.
LEMMA DeadlockStep ==
  IInv /\ [Next]_vars /\ TypeOK' /\ WantInv' /\ GraphTruth' => NoDeadlock'
<1> SUFFICES ASSUME IInv, [Next]_vars, TypeOK', WantInv', GraphTruth'
             PROVE  NoDeadlock'
  OBVIOUS
<1>0. TypeOK /\ WantInv /\ NoDeadlock
  BY DEF IInv
<1> USE DEF NoDeadlock, CircularWait
<1>1. ASSUME NEW d \in Drms, DrmInit(d) PROVE NoDeadlock'
  BY <1>0, <1>1 DEF DrmInit
<1>2. ASSUME NEW d \in Drms, DrmDestroy(d) PROVE NoDeadlock'
  BY <1>0, <1>2 DEF DrmDestroy
<1>3. ASSUME NEW t \in Threads, WaitAcquire(t) PROVE NoDeadlock'
  <2> SUFFICES ASSUME NEW S \in SUBSET Threads, CircularWait(S)' PROVE FALSE
    OBVIOUS
  <2>1. want[t] \in Drms /\ t \notin S
    BY <1>0, <1>3 DEF WaitAcquire, TypeOK, WantInv
  <2>2. \A u \in S : want[u] # want[t] /\ owner'[want[u]] = owner[want[u]]
    BY <1>0, <1>3, <2>1 DEF WaitAcquire, TypeOK, WantInv
  <2>3. CircularWait(S)
    BY <1>0, <1>3, <2>1, <2>2 DEF WaitAcquire, TypeOK
  <2> QED
    BY <1>0, <2>3
<1>4. ASSUME NEW t \in Threads, WaitSwap(t) PROVE NoDeadlock'
  <2> SUFFICES ASSUME NEW S \in SUBSET Threads, CircularWait(S)' PROVE FALSE
    OBVIOUS
  <2>1. CircularWait(S)
    BY <1>0, <1>4 DEF WaitSwap, TypeOK
  <2> QED
    BY <1>0, <2>1
<1>5. ASSUME NEW t \in Threads, NEW d \in Drms, WaitRequest(t, d) PROVE NoDeadlock'
  <2>1. CASE is_Cycle(edges \cup {<<t, d>>}, t)
    BY <1>0, <1>5, <2>1 DEF WaitRequest
  <2>2. CASE ~is_Cycle(edges \cup {<<t, d>>}, t)
    BY <1>5, <2>2, AcceptedIsSafe
  <2> QED
    BY <2>1, <2>2
<1>6. ASSUME NEW t \in Threads, NEW d \in Drms, DrmPost(t, d) PROVE NoDeadlock'
  <2> SUFFICES ASSUME NEW S \in SUBSET Threads, CircularWait(S)' PROVE FALSE
    OBVIOUS
  <2>1. \A u \in S : want[u] \in Drms /\ owner[want[u]] \in S
    BY <1>0, <1>6 DEF DrmPost, OwnerAfterPost, TypeOK, WantInv
  <2>2. CircularWait(S)
    BY <1>0, <1>6, <2>1 DEF DrmPost
  <2> QED
    BY <1>0, <2>2
<1>7. CASE UNCHANGED vars
  BY <1>0, <1>7 DEF vars
<1> QED
  BY <1>1, <1>2, <1>3, <1>4, <1>5, <1>6, <1>7 DEF Next

\* The inductive invariant holds in every reachable state of libdrm.c.
THEOREM Invariance == Spec => []IInv
<1>1. IInv /\ [Next]_vars => IInv'
  BY TypeStep, GraphStep, DeadlockStep DEF IInv
<1> QED
  BY InitIInv, <1>1, PTL DEF Spec

\* Every reachable state is well typed.
THEOREM TypeCorrect == Spec => []TypeOK
<1>1. IInv => TypeOK
  BY DEF IInv
<1> QED
  BY Invariance, <1>1, PTL

\* The graph always agrees with the mutexes and the threads in drm_wait.
THEOREM GraphCorrect == Spec => []GraphTruth
<1>1. IInv => GraphTruth
  BY DEF IInv
<1> QED
  BY Invariance, <1>1, PTL

\* Threads that use drm_wait and drm_post are never deadlocked on drms, for
\* any number of threads and drms and any order of the calls.
THEOREM DeadlockFree == Spec => []NoDeadlock
<1>1. IInv => NoDeadlock
  BY DEF IInv
<1> QED
  BY Invariance, <1>1, PTL

\* What is_Cycle explores is closed: a successor of a vertex reached is reached.
LEMMA ReachClosed ==
  ASSUME NEW E, NEW v \in Vertex
  PROVE  v \in Reach(E, v) /\ Closed(E, Reach(E, v))
BY DEF Reach, Closed

\* A refusal is never needless.  The threads among the vertices is_Cycle
\* explored are the set asked for: each vertex explored has a successor, so the
\* drms have owners and the threads are blocked.
LEMMA RefusalInv == IInv => RefusalJustified
<1> SUFFICES ASSUME IInv, NEW t \in Threads, NEW d \in drms,
                    pc[t] = "idle", <<d, t>> \notin edges,
                    is_Cycle(edges \cup {<<t, d>>}, t)
             PROVE  \E S \in SUBSET Threads :
                      /\ t \in S /\ owner[d] \in S
                      /\ \A u \in S \ {t} : pc[u] = "block" /\ owner[want[u]] \in S
  BY DEF RefusalJustified
<1> DEFINE E == edges \cup {<<t, d>>}
           R == Reach(E, t)
           S == R \cap Threads
<1>0. TypeOK /\ WantInv /\ GraphTruth /\ d \in Drms
  BY DEF IInv, TypeOK
<1>1. t \in R /\ Closed(E, R) /\ R \subseteq Vertex
  <2>1. t \in Vertex
    BY DEF Vertex
  <2>2. t \in R /\ Closed(E, R)
    BY <2>1, ReachClosed
  <2>3. R \subseteq Vertex
    BY DEF Reach
  <2> QED
    BY <2>2, <2>3
<1>2. \A x \in R : \E y \in R : <<x, y>> \in E
  BY <1>1 DEF is_Cycle, Closed
<1>3. ASSUME NEW e \in Drms, e \in R
      PROVE  owner[e] \in S /\ <<e, owner[e]>> \in edges
  <2>1. PICK y \in R : <<e, y>> \in E
    BY <1>2, <1>3
  <2>2. <<e, y>> \in edges /\ y \in Threads
    BY <1>0, <1>1, <2>1 DEF GraphTruth, Vertex
  <2> QED
    BY <1>0, <2>2, ZenonT(30) DEF GraphTruth
<1>4. d \in R
  BY <1>0, <1>1 DEF Closed, Vertex
<1>5. ASSUME NEW u \in S \ {t} PROVE pc[u] = "block" /\ owner[want[u]] \in S
  <2>1. PICK y \in R : <<u, y>> \in E
    BY <1>2
  <2>2. <<u, y>> \in edges /\ y \in Drms
    BY <1>0, <1>1, <2>1 DEF GraphTruth, Vertex
  <2>3. pc[u] # "idle" /\ want[u] = y
    BY <1>0, <2>2 DEF GraphTruth
  <2>4. owner[y] \in S /\ <<y, owner[y]>> \in edges
    BY <1>3, <2>2
  <2>5. pc[u] # "swap"
    BY <1>0, <2>2, <2>3, <2>4 DEF GraphTruth, WantInv
  <2> QED
    BY <1>0, <2>3, <2>4, <2>5 DEF TypeOK
<1> QED
  BY <1>0, <1>1, <1>3, <1>4, <1>5

\* drm_wait refuses only requests that would deadlock (libdrm.c:71-82), for any
\* number of threads and drms.
THEOREM RefusalsJustified == Spec => []RefusalJustified
BY Invariance, RefusalInv, PTL
=============================================================================
