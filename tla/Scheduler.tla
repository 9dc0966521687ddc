------------------------------ MODULE Scheduler ------------------------------
(***************************************************************************)
(* savvy_scheduler/libscheduler.c: six scheduling policies over one        *)
(* priority queue, in which the running job stays.                         *)
(*                                                                         *)
(* The caller is that of scheduler_test.c: it announces jobs as they       *)
(* arrive, asks for a job when none runs, gives back the running job after *)
(* each quantum, or says that it has finished and asks for the next.  Time *)
(* and running times are whole quanta.  The priority queue is external: an *)
(* element goes before the first one that the comparer puts behind it.     *)
(***************************************************************************)
EXTENDS Integers, Sequences, SequencesExt, FiniteSetsExt

CONSTANTS RunningTimes, Priorities,
          MaxJobs,  \* number of jobs
          MaxTime,  \* jobs arrive before this time
          NO_JOB

ASSUME SchedulerAssumption ==
  RunningTimes \subseteq Nat \ {0} /\ Priorities \subseteq Int /\ NO_JOB \notin Nat

Schemes == {"FCFS", "PRI", "PPRI", "PSRTF", "RR", "SJF"}

VARIABLES pqueue, pqueue_scheme,
          info,      \* metadata of the jobs that have arrived
          totals,    \* the sums the averages are made from
          sched_pc,  \* the caller's next step: "start", "idle", "run", "expire",
                     \* "finish", "pick"
          time, running,
          ran,       \* of each job: quanta left, first quantum, quanta waited
          actual,    \* history: the totals as they should be
          finished,  \* jobs that have finished
          stolen,    \* the queue lost another job than the one that finished
          ahead,     \* most jobs that were ahead of a job whose quantum expired
          odd        \* some job that finished began at time 0 or ran one quantum

sched_vars == <<pqueue, pqueue_scheme, info, totals, sched_pc, time, running, ran,
                actual, finished, stolen, ahead, odd>>

Zero == [wait |-> 0, response |-> 0, turn |-> 0]

SchedInit ==
  /\ pqueue = <<>> /\ pqueue_scheme = "FCFS" /\ info = <<>> /\ totals = Zero
  /\ sched_pc = "start" /\ time = 0 /\ running = NO_JOB /\ ran = <<>>
  /\ actual = Zero /\ finished = {} /\ stolen = FALSE /\ ahead = 0 /\ odd = FALSE

Arrived == DOMAIN info
history == <<actual, finished, stolen, ahead, odd>>

scheduler_start_up(s) ==
  /\ sched_pc = "start" /\ sched_pc' = "idle" /\ pqueue_scheme' = s
  /\ UNCHANGED <<pqueue, info, totals, time, running, ran, history>>

-----------------------------------------------------------------------------
(* The comparers *)

\* m is the metadata of the jobs.
Key(m, j) ==
  CASE pqueue_scheme = "FCFS"           -> m[j].arrive
    [] pqueue_scheme \in {"PRI", "PPRI"} -> m[j].priority
    [] pqueue_scheme = "PSRTF"          -> m[j].remain
    [] pqueue_scheme = "RR"             -> m[j].run
    [] pqueue_scheme = "SJF"            -> m[j].require

\* Slip: the larger key goes first.
Slip_Reversed(c, d) == d <= c

\* The comparer returns -1, as it does for equal keys.
compare_helper(c, d) == c <= d

\* Ties are broken by arrival, and jobs that arrived together precede each other.
Before(m, a, b) ==
  IF Key(m, a) = Key(m, b) THEN compare_helper(m[a].arrive, m[b].arrive)
                           ELSE compare_helper(Key(m, a), Key(m, b))

priqueue_offer(m, queue, j) ==
  LET place == Min({k \in DOMAIN queue : Before(m, j, queue[k])} \cup {Len(queue) + 1})
  IN  InsertAt(queue, place, j)

Peek(queue) == IF queue = <<>> THEN NO_JOB ELSE Head(queue)

-----------------------------------------------------------------------------
(* The calls *)

\* Jobs are numbered as they arrive.
scheduler_new_job(j, length, priority) ==
  /\ sched_pc # "start" /\ j = Cardinality(Arrived) + 1 /\ time < MaxTime /\ ~stolen
  /\ info' = [i \in Arrived \cup {j} |->
       IF i = j THEN [arrive |-> time, remain |-> length, run |-> -1,
                      require |-> length, start |-> -1, priority |-> priority]
                ELSE info[i]]
  /\ ran' = [i \in Arrived \cup {j} |->
       IF i = j THEN [left |-> length, first |-> -1, waited |-> 0] ELSE ran[i]]
  /\ pqueue' = priqueue_offer(info', pqueue, j)
  /\ sched_pc' = IF sched_pc = "idle" THEN "pick" ELSE sched_pc
  /\ UNCHANGED <<pqueue_scheme, totals, time, running, history>>

\* A job that has no start, or started at time 0, is taken to start now.
Expired(i) ==
  [i EXCEPT !.run = time, !.remain = @ - 1,
            !.start = IF @ <= 0 THEN time - 1 ELSE @]

\* The head, not necessarily the evicted job, takes its place again.
Requeued(m, queue) == priqueue_offer(m, Tail(queue), Head(queue))

scheduler_quantum_expired ==
  \/ /\ sched_pc = "pick" /\ running' = Peek(pqueue)
     /\ sched_pc' = IF running' = NO_JOB THEN "idle" ELSE "run"
     /\ UNCHANGED <<pqueue, info, ahead>>
  \/ /\ sched_pc = "expire" /\ ~stolen
     /\ info' = [info EXCEPT ![running] = Expired(@)]
     /\ IF pqueue_scheme \in {"PPRI", "PSRTF", "RR"}
          THEN pqueue' = Requeued(info', pqueue) /\ running' = Peek(pqueue')
          ELSE UNCHANGED <<pqueue, running>>
     /\ ahead' = Max({ahead, SelectInSeq(pqueue, LAMBDA j : j = running) - 1})
     /\ sched_pc' = "run"
  /\ UNCHANGED <<pqueue_scheme, totals, time, ran, actual, finished, stolen, odd>>

\* Slip: the time a job ran is not taken off.
Slip_RunningWaits(i) == time - i.arrive

\* What a job that finishes now has waited.
WaitOf(i) == time - i.arrive - i.require

\* The head leaves the queue, whichever job it is.
scheduler_job_finished ==
  LET i == info[running]
      r == ran[running]
  IN
  /\ sched_pc = "finish" /\ sched_pc' = "pick" /\ ~stolen
  /\ totals' = [wait |-> totals.wait + WaitOf(i), turn |-> totals.turn + time - i.arrive,
                response |-> totals.response + i.start - i.arrive]
  /\ pqueue' = Tail(pqueue)
  /\ stolen' = (Head(pqueue) # running)
  /\ finished' = finished \cup {running} /\ running' = NO_JOB
  /\ actual' = [wait |-> actual.wait + r.waited, turn |-> actual.turn + r.waited + i.require,
                response |-> actual.response + r.first - i.arrive]
  /\ odd' = (odd \/ r.first = 0 \/ i.require = 1)
  /\ UNCHANGED <<pqueue_scheme, info, time, ran, ahead>>

\* The running job runs for a quantum, the others wait.
Tick ==
  /\ sched_pc = "run" /\ running \notin finished
  /\ time' = time + 1
  /\ ran' = [j \in Arrived |->
       IF j = running THEN [ran[j] EXCEPT !.left = @ - 1, !.first = IF @ < 0 THEN time ELSE @]
       ELSE IF j \in finished THEN ran[j] ELSE [ran[j] EXCEPT !.waited = @ + 1]]
  /\ sched_pc' = IF ran[running].left = 1 THEN "finish" ELSE "expire"
  /\ UNCHANGED <<pqueue, pqueue_scheme, info, totals, running, history>>

SchedNext ==
  \/ \E s \in Schemes : scheduler_start_up(s)
  \/ \E j \in 1 .. MaxJobs, l \in RunningTimes, p \in Priorities : scheduler_new_job(j, l, p)
  \/ scheduler_quantum_expired \/ scheduler_job_finished \/ Tick

SchedSpec == SchedInit /\ [][SchedNext]_sched_vars

-----------------------------------------------------------------------------
(* Properties *)

Waiting == Arrived \ finished

\* The job that is given the processor is one the policy puts first: no job
\* that waits has a smaller key.  This holds as long as no finished job cost
\* another one its place in the queue (libscheduler.c:185) and, for the two
\* policies whose keys change, as long as the evicted job was the head of the
\* queue, or second to it for PSRTF: only the head is put in order again
\* (libscheduler.c:162-172).
PicksBest ==
  [][running' # running /\ running' # NO_JOB /\ ~stolen'
     /\ (pqueue_scheme = "RR" => ahead' = 0) /\ (pqueue_scheme = "PSRTF" => ahead' <= 1)
     => running' \in Waiting' /\ (\A j \in Waiting' : Key(info', running') <= Key(info', j))]_sched_vars

\* The sums of waiting and turnaround times are those of the jobs that have
\* finished, quantum by quantum; so is the sum of response times unless a job
\* began at time 0, which is taken for "not begun" (libscheduler.c:158), or
\* ended within its first quantum, whose start is never noted.
TotalsTrue ==
  /\ totals.wait = actual.wait /\ totals.turn = actual.turn
  /\ ~odd => totals.response = actual.response

\* A job that has finished is not given the processor again ("check j1 should
\* run next; j2 has finished", scheduler_test.c:309); of jobs that arrived at
\* different times, so that no tie is left to the queue.
FinishedNeverRuns ==
  (\A i, j \in Arrived : i # j => info[i].arrive # info[j].arrive) => running \notin finished
=============================================================================
