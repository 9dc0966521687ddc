------------------------------ MODULE Semamore ------------------------------
(***************************************************************************)
(* The counting semaphore with a maximum of                                *)
(* critical_concurrency/semamore.c.  Every access to the value is made     *)
(* under the mutex, so the stretch from lock (or from the return of        *)
(* pthread_cond_wait) to unlock (or the next wait) is one action.          *)
(***************************************************************************)
EXTENDS Naturals

CONSTANTS SemmThreads,
          Value, MaxVal   \* the arguments of semm_init

ASSUME SemamoreAssumption ==
  Value \in Nat /\ MaxVal \in Nat \ {0} /\ Value <= MaxVal

VARIABLES value,
          semm_pc,  \* "idle", "enter" (calling), "asleep" (in wait), "woken"
          semm_op   \* "wait" or "post": the function the thread is in

semm_vars == <<value, semm_pc, semm_op>>

SemmInit ==
  /\ value = Value
  /\ semm_pc = [t \in SemmThreads |-> "idle"] /\ semm_op = [t \in SemmThreads |-> "wait"]

\* A thread calls semm_wait or semm_post.
SemmCall(t, f) ==
  /\ semm_pc[t] = "idle"
  /\ semm_pc' = [semm_pc EXCEPT ![t] = "enter"] /\ semm_op' = [semm_op EXCEPT ![t] = f]
  /\ UNCHANGED value

\* The conditions of the two loops.
MustSleep(t) == value = IF semm_op[t] = "wait" THEN 0 ELSE MaxVal

SemmSleep(t) ==
  /\ semm_pc[t] \in {"enter", "woken"} /\ MustSleep(t)
  /\ semm_pc' = [semm_pc EXCEPT ![t] = "asleep"]
  /\ UNCHANGED <<value, semm_op>>

\* Slip: only semm_post broadcasts.
Slip_WaitSilent(t) ==
  [u \in SemmThreads |-> IF u = t THEN "idle"
                     ELSE IF semm_pc[u] = "asleep" /\ semm_op[t] = "post" THEN "woken"
                     ELSE semm_pc[u]]

\* pthread_cond_broadcast and the return of the caller.
AfterBroadcast(t) ==
  [u \in SemmThreads |-> IF u = t THEN "idle"
                     ELSE IF semm_pc[u] = "asleep" THEN "woken" ELSE semm_pc[u]]

Changed(t) == IF semm_op[t] = "wait" THEN value - 1 ELSE value + 1

SemmProceed(t) ==
  /\ semm_pc[t] \in {"enter", "woken"} /\ ~MustSleep(t)
  /\ value' = Changed(t)
  /\ semm_pc' = AfterBroadcast(t)
  /\ UNCHANGED semm_op

SemmSpuriousWakeup(t) ==
  /\ semm_pc[t] = "asleep"
  /\ semm_pc' = [semm_pc EXCEPT ![t] = "woken"]
  /\ UNCHANGED <<value, semm_op>>

SemmNext ==
  \E t \in SemmThreads :
     \/ \E f \in {"wait", "post"} : SemmCall(t, f)
     \/ SemmSleep(t) \/ SemmProceed(t) \/ SemmSpuriousWakeup(t)

SemmSpec == SemmInit /\ [][SemmNext]_semm_vars

\* A thread that can run does; one that finds its condition true again and
\* again gets the mutex in time once.
SemmFairness ==
  \A t \in SemmThreads : WF_semm_vars(SemmSleep(t)) /\ SF_semm_vars(SemmProceed(t))

-----------------------------------------------------------------------------
(* Properties *)

SemmTypeOK ==
  /\ value \in Nat
  /\ semm_pc \in [SemmThreads -> {"idle", "enter", "asleep", "woken"}]
  /\ semm_op \in [SemmThreads -> {"wait", "post"}]

\* "Should block when the value is at 0 ... at max_value" (semamore.c:25, 40):
\* the value never leaves 0..max_val, however many threads wake together.
ValueInBounds == value \in 0..MaxVal

\* No wakeup is lost: a thread is asleep only while its condition holds now,
\* although both functions sleep on one condition variable; and threads that
\* wake together never take the value out of its bounds (semamore.c:29-37, 44-52).
SleepJustified ==
  /\ ValueInBounds
  /\ \A t \in SemmThreads : semm_pc[t] = "asleep" => MustSleep(t)

\* A thread in semm_wait returns if the value becomes positive again and
\* again, and a thread in semm_post if the value drops again and again.
Served ==
  \A t \in SemmThreads :
     []<>(semm_pc[t] # "idle" => ~MustSleep(t)) => []<>(semm_pc[t] = "idle")
=============================================================================
