------------------------------ MODULE MCLocks ------------------------------
(***************************************************************************)
(* The synchronisation primitives apart from the queue, each on a small    *)
(* instance: `program` is the one that is used, the others stay as they    *)
(* began.                                                                  *)
(***************************************************************************)
EXTENDS Libdrm, Semamore, Barrier

VARIABLE program

locks_vars == <<program, vars, semm_vars, barrier_vars>>

LocksInit ==
  /\ program \in {"libdrm", "semamore", "barrier"}
  /\ Init /\ SemmInit /\ BarrierInit

UseDrms == program = "libdrm" /\ Next /\ UNCHANGED <<program, semm_vars, barrier_vars>>
UseSemamore == program = "semamore" /\ SemmNext /\ UNCHANGED <<program, vars, barrier_vars>>
UseBarrier == program = "barrier" /\ BarrierNext /\ UNCHANGED <<program, vars, semm_vars>>

LocksNext == UseDrms \/ UseSemamore \/ UseBarrier

\* Nothing of a program that is not used is enabled, save its initialisation,
\* for which no fairness is assumed.
LocksSpec ==
  /\ LocksInit /\ [][LocksNext]_locks_vars
  /\ Fairness /\ SemmFairness /\ BarrierFairness

\* Calls return: a thread that drm_wait lets in gets the drm (libdrm.c:74), a
\* thread blocked in semm_wait or semm_post goes on when its condition becomes
\* true again and again (semamore.c:31, 47), and all threads get through all
\* rounds of a barrier (barrier.c:31-50).
CallsReturn == WaitReturns /\ Served /\ AllRoundsComplete
=============================================================================
