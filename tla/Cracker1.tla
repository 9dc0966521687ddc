------------------------------ MODULE Cracker1 ------------------------------
(***************************************************************************)
(* password_cracker/cracker1.c: the lines are queued, then one NULL for    *)
(* each thread, then the threads start; each takes lines until it takes a  *)
(* NULL, and searches the passwords of its line one after another.         *)
(*                                                                         *)
(* A line is the number of passwords that match its known part and the     *)
(* position of the right one among them, beyond them if none is right.     *)
(* The queue is that of Queue.tla with no bound on its size.               *)
(***************************************************************************)
EXTENDS Naturals, Sequences, FiniteSets

CONSTANTS Crackers,   \* the threads
          TaskLines,  \* the input
          NO_TASK

ASSUME Cracker1Assumption ==
  /\ IsFiniteSet(Crackers) /\ Crackers # {}
  /\ TaskLines \in Seq([total : Nat \ {0}, target : Nat]) /\ NO_TASK \notin Nat

VARIABLES q,          \* the tasks: line numbers, and NO_TASK for NULL
          total_num, recovered,
          c1_main,    \* where main is: "start", "read", "create", "join", "end"
          c1_pc,      \* of a thread: "unborn", "pull", "try", "print", "end"
          c1_task, c1_tries,
          printed     \* history: the results printed, per line

c1_vars == <<q, total_num, recovered, c1_main, c1_pc, c1_task, c1_tries, printed>>

LineNumbers == 1 .. Len(TaskLines)

C1Init ==
  /\ q = <<>> /\ total_num = 0 /\ recovered = 0 /\ c1_main = "start"
  /\ c1_pc = [t \in Crackers |-> "unborn"]
  /\ c1_task = [t \in Crackers |-> NO_TASK] /\ c1_tries = [t \in Crackers |-> 0]
  /\ printed = [n \in LineNumbers |-> <<>>]

C1Start ==
  /\ c1_main = "start" /\ c1_main' = "read"
  /\ UNCHANGED <<q, total_num, recovered, c1_pc, c1_task, c1_tries, printed>>

\* getline gives the next line, or the end.
ReadLine ==
  /\ c1_main = "read"
  /\ \/ /\ total_num < Len(TaskLines)
        /\ q' = Append(q, total_num + 1) /\ total_num' = total_num + 1
        /\ UNCHANGED c1_main
     \/ /\ total_num = Len(TaskLines) /\ c1_main' = "create"
        /\ q' = q \o [i \in 1 .. Cardinality(Crackers) |-> NO_TASK]
        /\ UNCHANGED total_num
  /\ UNCHANGED <<recovered, c1_pc, c1_task, c1_tries, printed>>

\* pthread_create; the new thread runs while the others are still created.
CreateCracker ==
  /\ c1_main = "create"
  /\ \/ \E t \in Crackers : c1_pc[t] = "unborn" /\ c1_pc' = [c1_pc EXCEPT ![t] = "pull"]
                            /\ UNCHANGED c1_main
     \/ /\ \A t \in Crackers : c1_pc[t] # "unborn"
        /\ c1_main' = "join" /\ UNCHANGED c1_pc
  /\ UNCHANGED <<q, total_num, recovered, c1_task, c1_tries, printed>>

\* Slip: the array of threads is joined at one place only.
Slip_OneJoined == \E t \in Crackers : c1_pc[t] = "end"

AllJoined == \A t \in Crackers : c1_pc[t] = "end"

\* pthread_join of all, then the summary.
JoinCrackers ==
  /\ c1_main = "join" /\ AllJoined
  /\ c1_main' = "end"
  /\ UNCHANGED <<q, total_num, recovered, c1_pc, c1_task, c1_tries, printed>>

PullTask(t) ==
  /\ c1_pc[t] = "pull" /\ q # <<>>
  /\ q' = Tail(q)
  /\ c1_task' = [c1_task EXCEPT ![t] = Head(q)]
  /\ c1_tries' = [c1_tries EXCEPT ![t] = 0]
  /\ c1_pc' = [c1_pc EXCEPT ![t] = IF Head(q) = NO_TASK THEN "end" ELSE "try"]
  /\ UNCHANGED <<total_num, recovered, c1_main, printed>>

\* One password: it is the right one, or the last one, or another follows.
find_word(t) ==
  LET line == TaskLines[c1_task[t]] IN
  /\ c1_pc[t] = "try"
  /\ \/ /\ c1_tries[t] = line.target
        /\ recovered' = recovered + 1
        /\ printed' = [printed EXCEPT ![c1_task[t]] = Append(@, "recovered")]
        /\ c1_pc' = [c1_pc EXCEPT ![t] = "pull"] /\ UNCHANGED c1_tries
     \/ /\ c1_tries[t] # line.target /\ c1_tries[t] + 1 < line.total
        /\ c1_tries' = [c1_tries EXCEPT ![t] = @ + 1]
        /\ UNCHANGED <<recovered, printed, c1_pc>>
     \/ /\ c1_tries[t] # line.target /\ c1_tries[t] + 1 = line.total
        /\ printed' = [printed EXCEPT ![c1_task[t]] = Append(@, "failed")]
        /\ c1_pc' = [c1_pc EXCEPT ![t] = "pull"] /\ UNCHANGED <<recovered, c1_tries>>
  /\ UNCHANGED <<q, total_num, c1_main, c1_task>>

cracker_helper(t) == PullTask(t) \/ find_word(t)

C1MainStep == ReadLine \/ CreateCracker \/ JoinCrackers

C1Next == C1Start \/ C1MainStep \/ \E t \in Crackers : cracker_helper(t)

C1Spec == C1Init /\ [][C1Next]_c1_vars

\* Once started the threads are scheduled.
C1Fairness == WF_c1_vars(C1MainStep) /\ \A t \in Crackers : WF_c1_vars(cracker_helper(t))

-----------------------------------------------------------------------------
(* Properties *)

\* When the summary is printed, every line was searched exactly once, by some
\* thread, with the right outcome, and `recovered` counts the ones found, so
\* that recovered and failed add up (cracker1.c:31-33, 117).
RecoveredExact ==
  c1_main = "end" =>
    /\ \A n \in LineNumbers :
         printed[n] = <<IF TaskLines[n].target < TaskLines[n].total
                          THEN "recovered" ELSE "failed">>
    /\ recovered = Cardinality({n \in LineNumbers : printed[n] = <<"recovered">>})
    /\ total_num = Len(TaskLines) /\ q = <<>>

\* The program ends: there is one NULL for each thread, whichever takes which
\* tasks, and none is left waiting for the queue (cracker1.c:108-116).
Cracker1Ends == c1_main # "start" ~> c1_main = "end"
=============================================================================
