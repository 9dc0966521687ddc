------------------------------ MODULE MCWorkers ------------------------------
(***************************************************************************)
(* The programs that share out work among threads, processes or jobs, each *)
(* on a small instance: `program` is the one that runs, the others stay as *)
(* they began.                                                             *)
(***************************************************************************)
EXTENDS Cracker1, Cracker2, MapReduce, ParReduce, Scheduler

VARIABLE program

workers_vars == <<program, c1_vars, c2_vars, mr_vars, pr_vars, sched_vars>>

\* A password found early, one that is not there, and one found last.
TaskList ==
  <<[total |-> 3, target |-> 1], [total |-> 2, target |-> 9], [total |-> 2, target |-> 1]>>

\* Parts of one length, parts of different lengths, and a password not there.
PasswordList ==
  <<[total |-> 6, target |-> 3], [total |-> 4, target |-> 3], [total |-> 3, target |-> 9]>>

WorkersInit ==
  /\ program \in {"cracker1", "cracker2", "mapreduce", "par_reduce", "scheduler"}
  /\ C1Init /\ C2Init /\ MRInit /\ PRInit /\ SchedInit

RunCracker1 ==
  program = "cracker1" /\ C1Next /\ UNCHANGED <<program, c2_vars, mr_vars, pr_vars, sched_vars>>
RunCracker2 ==
  program = "cracker2" /\ C2Next /\ UNCHANGED <<program, c1_vars, mr_vars, pr_vars, sched_vars>>
RunMapReduce ==
  program = "mapreduce" /\ MRNext /\ UNCHANGED <<program, c1_vars, c2_vars, pr_vars, sched_vars>>
RunParReduce ==
  program = "par_reduce" /\ PRNext /\ UNCHANGED <<program, c1_vars, c2_vars, mr_vars, sched_vars>>
RunScheduler ==
  program = "scheduler" /\ SchedNext /\ UNCHANGED <<program, c1_vars, c2_vars, mr_vars, pr_vars>>

WorkersNext ==
  RunCracker1 \/ RunCracker2 \/ RunMapReduce \/ RunParReduce \/ RunScheduler

WorkersSpec ==
  /\ WorkersInit /\ [][WorkersNext]_workers_vars
  /\ C1Fairness /\ C2Fairness /\ MRFairness

\* Every run comes to its end: no thread of a cracker waits at the queue or the
\* barrier for ever (cracker1.c:103-122, cracker2.c:112-131), and no process of
\* a map-reduce on a pipe (mapreduce.c:45-112), save where an exec fails.
WorkersEnd == Cracker1Ends /\ Cracker2Ends /\ RunEnds

\* The scheduler alone.
SchedulerSpec ==
  /\ WorkersInit /\ program = "scheduler" /\ [][WorkersNext]_workers_vars
=============================================================================
