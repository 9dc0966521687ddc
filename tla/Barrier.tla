------------------------------- MODULE Barrier -------------------------------
(***************************************************************************)
(* The reusable barrier of critical_concurrency/barrier.c, used by exactly *)
(* n_threads threads.  barrier_wait waits once, without a loop, and reads  *)
(* times_used after it has released the mutex.                             *)
(***************************************************************************)
EXTENDS Naturals, FiniteSets

CONSTANTS BarrierThreads,
          MaxRounds,  \* bound: rounds each thread takes part in
          InitMayFail \* whether pthread_*_init can fail

ASSUME BarrierAssumption ==
  /\ IsFiniteSet(BarrierThreads) /\ BarrierThreads # {}
  /\ MaxRounds \in Nat \ {0} /\ InitMayFail \in BOOLEAN

n_threads == Cardinality(BarrierThreads)

\* PTHREAD_BARRIER_SERIAL_THREAD is -1.
SERIAL == "-1"

VARIABLES spurious,    \* whether pthread_cond_wait may return unsignalled
          b,           \* "raw", "ready", "failed" or "destroyed"
          count, times_used,
          barrier_pc,  \* "out", "asleep", "woken" (needs the mutex), "check"
          current_times_used,
          ret,         \* per thread: last value returned, or "none"
          arrived, left  \* history: rounds entered and returned from

barrier_vars ==
  <<spurious, b, count, times_used, barrier_pc, current_times_used, ret, arrived, left>>

\* A thread that left early would be counted twice in a later round.
Rounds == IF spurious THEN 1 ELSE MaxRounds

BarrierInit ==
  /\ spurious \in BOOLEAN
  /\ b = "raw" /\ count = 0 /\ times_used = 0
  /\ barrier_pc = [t \in BarrierThreads |-> "out"]
  /\ current_times_used = [t \in BarrierThreads |-> 0]
  /\ ret = [t \in BarrierThreads |-> "none"]
  /\ arrived = [t \in BarrierThreads |-> 0] /\ left = [t \in BarrierThreads |-> 0]

\* barrier_init: the mutex is destroyed again when the condition variable
\* cannot be initialised.
barrier_init ==
  /\ b = "raw"
  /\ \/ b' = "ready"
     \/ InitMayFail /\ b' = "failed"
  /\ count' = 0 /\ times_used' = 0
  /\ UNCHANGED <<spurious, barrier_pc, current_times_used, ret, arrived, left>>

barrier_destroy ==
  /\ b = "ready" /\ \A t \in BarrierThreads : barrier_pc[t] = "out" /\ left[t] = Rounds
  /\ b' = "destroyed"
  /\ UNCHANGED <<spurious, count, times_used, barrier_pc, current_times_used, ret, arrived, left>>

Return(t, value) ==
  /\ ret' = [ret EXCEPT ![t] = value]
  /\ left' = [left EXCEPT ![t] = @ + 1]

\* Slip: the last thread is recognised one arrival too early.
Slip_OneEarly == count + 1 = n_threads - 1

IsLast == count + 1 = n_threads

CountAfterLast == 0

\* The last thread: broadcast and return.
ArriveLast(t) ==
  /\ b = "ready" /\ barrier_pc[t] = "out" /\ arrived[t] < Rounds
  /\ IsLast
  /\ times_used' = times_used + 1 /\ count' = CountAfterLast
  /\ barrier_pc' = [u \in BarrierThreads |->
                       IF barrier_pc[u] = "asleep" THEN "woken" ELSE barrier_pc[u]]
  /\ arrived' = [arrived EXCEPT ![t] = @ + 1]
  /\ Return(t, SERIAL)
  /\ UNCHANGED <<spurious, b, current_times_used>>

\* Any other thread goes to sleep.
Arrive(t) ==
  /\ b = "ready" /\ barrier_pc[t] = "out" /\ arrived[t] < Rounds
  /\ ~IsLast
  /\ count' = count + 1
  /\ current_times_used' = [current_times_used EXCEPT ![t] = times_used]
  /\ barrier_pc' = [barrier_pc EXCEPT ![t] = "asleep"]
  /\ arrived' = [arrived EXCEPT ![t] = @ + 1]
  /\ UNCHANGED <<spurious, b, times_used, ret, left>>

\* pthread_cond_wait returns with the mutex, which is released at once.
Wake(t) ==
  /\ barrier_pc[t] = "woken"
  /\ barrier_pc' = [barrier_pc EXCEPT ![t] = "check"]
  /\ UNCHANGED <<spurious, b, count, times_used, current_times_used, ret, arrived, left>>

BarrierSpuriousWakeup(t) ==
  /\ spurious /\ barrier_pc[t] = "asleep"
  /\ barrier_pc' = [barrier_pc EXCEPT ![t] = "woken"]
  /\ UNCHANGED <<spurious, b, count, times_used, current_times_used, ret, arrived, left>>

Verdict(t) == IF current_times_used[t] = times_used THEN "0" ELSE SERIAL

\* times_used is read here, without the mutex.
Check(t) ==
  /\ barrier_pc[t] = "check"
  /\ barrier_pc' = [barrier_pc EXCEPT ![t] = "out"]
  /\ Return(t, Verdict(t))
  /\ UNCHANGED <<spurious, b, count, times_used, current_times_used, arrived>>

barrier_wait(t) == ArriveLast(t) \/ Arrive(t) \/ Wake(t) \/ Check(t)

BarrierNext ==
  \/ barrier_init \/ barrier_destroy
  \/ \E t \in BarrierThreads : barrier_wait(t) \/ BarrierSpuriousWakeup(t)

BarrierSpec == BarrierInit /\ [][BarrierNext]_barrier_vars

\* Every thread runs, and goes through its rounds.
BarrierFairness ==
  /\ WF_barrier_vars(barrier_destroy)
  /\ \A t \in BarrierThreads : WF_barrier_vars(barrier_wait(t))

-----------------------------------------------------------------------------
(* Properties *)

BarrierTypeOK ==
  /\ spurious \in BOOLEAN
  /\ b \in {"raw", "ready", "failed", "destroyed"}
  /\ count \in 0..(n_threads - 1) /\ times_used \in 0..MaxRounds
  /\ barrier_pc \in [BarrierThreads -> {"out", "asleep", "woken", "check"}]
  /\ current_times_used \in [BarrierThreads -> 0..MaxRounds]
  /\ ret \in [BarrierThreads -> {"none", "0", SERIAL}]
  /\ arrived \in [BarrierThreads -> 0..MaxRounds] /\ left \in [BarrierThreads -> 0..MaxRounds]

\* A barrier separates rounds: no thread returns from its k-th barrier_wait
\* before every thread has entered its k-th, even when a fast thread comes
\* back while a released one has not left yet (barrier.c:31-50), and the late,
\* unlocked read of times_used sees the round of the thread finished, and that
\* one only.  pthread_cond_wait is not in a loop, so a spurious wakeup lets a
\* thread through before the others are there; the value returned tells it so:
\* -1 is only returned once every thread has arrived (first use of the barrier).
NoOvertaking ==
  /\ BarrierTypeOK
  /\ \A t, u \in BarrierThreads :
       /\ ~spurious => left[t] <= arrived[u]
       /\ ret[t] = SERIAL => arrived[u] >= 1
  /\ \A t \in BarrierThreads :
       ~spurious /\ barrier_pc[t] = "check" => times_used = current_times_used[t] + 1

\* All threads get through all rounds of a barrier that could be made, and it
\* can be destroyed.
AllRoundsComplete == b = "ready" ~> b = "destroyed"
=============================================================================
