---------------------------- MODULE WorkersProofs ----------------------------
(***************************************************************************)
(* Proofs about password_cracker, for any number of threads and any input, *)
(* about mapreduce, for any number of splitters, items and room in the     *)
(* pipes, about savvy_scheduler, for any jobs, and about                   *)
(* teaching_threads' parallel reduce, for any list and number of threads.  *)
(*                                                                         *)
(* cracker1: RecoveredExact needs to know what is left in the queue.  Gone *)
(* counts what has been taken since all was queued, so the line numbers up *)
(* to Gone are the ones that are in a thread's hands or printed; as many   *)
(* threads have ended as NULLs have been taken.                            *)
(*                                                                         *)
(* cracker2: SummaryTrue needs the sides of the barrier, what each thread  *)
(* has reported so far, and, for parts of one length, which positions have *)
(* been tried: the arithmetic of getSubrange then cuts the passwords into  *)
(* parts that cover them all.                                              *)
(*                                                                         *)
(* mapreduce: OutputComplete needs to know which children exist at each    *)
(* place of the parent (LifeInv) and which pipe ends are open (EndsInv).   *)
(* From the two, no writer is ever stopped by a pipe without readers and a *)
(* reader that sees the end of its pipe has had all there is (ExitInv);    *)
(* and every item that was written is in a pipe, in a mapper or with the   *)
(* reducer (ItemsInv).                                                     *)
(*                                                                         *)
(* savvy_scheduler: TotalsTrue follows once what scheduler_job_finished    *)
(* computes from the metadata is the time the job has waited (WaitInv) and *)
(* the time of its first quantum (StartInv).  PicksBest needs the queue to *)
(* hold the waiting jobs, each once, in the order of their keys (PickInv), *)
(* which priqueue_offer keeps (OfferOrders).                               *)
(*                                                                         *)
(* par_reduce: what has been joined is the beginning of the list           *)
(* (AnswerInv), because what a thread has made is the beginning of its     *)
(* part (PartsInv) and the parts follow each other and cover the list      *)
(* (PartsCover).  ListChosen relates the fold in Operands to its values    *)
(* after each member, with least numbers for induction.                    *)
(***************************************************************************)
EXTENDS Cracker1, Cracker2, MapReduce, ParReduce, Scheduler,
        FiniteSetTheorems, SequenceTheorems, WellFoundedInduction, TLAPS

-----------------------------------------------------------------------------
(* cracker1.c *)

LEMMA TaskLinesType ==
  /\ Len(TaskLines) \in Nat /\ Cardinality(Crackers) \in Nat \ {0}
  /\ \A n \in LineNumbers : TaskLines[n].total \in Nat \ {0} /\ TaskLines[n].target \in Nat
<1> DEFINE R == [total : Nat \ {0}, target : Nat]
<1>1. TaskLines \in Seq(R)
  BY Cracker1Assumption
<1>2. \A r \in R : r.total \in Nat \ {0} /\ r.target \in Nat
  OBVIOUS
<1>3. Cardinality(Crackers) \in Nat \ {0}
  BY Cracker1Assumption, FS_CardinalityType, FS_EmptySet
<1> HIDE DEF R
<1> QED
  BY <1>1, <1>2, <1>3 DEF LineNumbers

Tasks == LineNumbers \cup {NO_TASK}

C1Types ==
  /\ q \in Seq(Tasks) /\ total_num \in 0 .. Len(TaskLines) /\ recovered \in Nat
  /\ c1_main \in {"start", "read", "create", "join", "end"}
  /\ c1_pc \in [Crackers -> {"unborn", "pull", "try", "print", "end"}]
  /\ c1_task \in [Crackers -> Tasks] /\ c1_tries \in [Crackers -> Nat]
  /\ printed \in [LineNumbers -> Seq({"recovered", "failed"})]

\* All tasks have been queued, and this many have been taken since.
Queued == c1_main \in {"create", "join", "end"}
Gone == Len(TaskLines) + Cardinality(Crackers) - Len(q)

QueueInv ==
  /\ ~Queued =>
       /\ Len(q) = total_num /\ \A i \in 1 .. Len(q) : q[i] = i
       /\ \A t \in Crackers : c1_pc[t] = "unborn"
       /\ \A n \in LineNumbers : printed[n] = <<>>
  /\ c1_main = "start" => total_num = 0
  /\ Queued =>
       /\ total_num = Len(TaskLines) /\ Gone \in Nat
       /\ \A i \in 1 .. Len(q) : q[i] = IF i + Gone <= Len(TaskLines) THEN i + Gone ELSE NO_TASK
  /\ c1_main \in {"join", "end"} => \A t \in Crackers : c1_pc[t] # "unborn"
  /\ c1_main = "end" => \A t \in Crackers : c1_pc[t] = "end"

\* One NULL has been taken for each thread that has ended.
Ended == {t \in Crackers : c1_pc[t] = "end"}
EndedInv ==
  Queued => Cardinality(Ended) = IF Gone <= Len(TaskLines) THEN 0 ELSE Gone - Len(TaskLines)

\* A thread searches a line nobody else has, and has not passed the password.
HoldInv ==
  /\ \A t \in Crackers : c1_pc[t] = "try" =>
       /\ c1_task[t] \in LineNumbers /\ c1_task[t] <= Gone /\ printed[c1_task[t]] = <<>>
       /\ c1_tries[t] <= TaskLines[c1_task[t]].target
       /\ c1_tries[t] < TaskLines[c1_task[t]].total
  /\ \A t, u \in Crackers :
       c1_pc[t] = "try" /\ c1_pc[u] = "try" /\ c1_task[t] = c1_task[u] => t = u

Outcome(n) == IF TaskLines[n].target < TaskLines[n].total THEN "recovered" ELSE "failed"
InHands(n) == \E t \in Crackers : c1_pc[t] = "try" /\ c1_task[t] = n

\* A line that was taken is printed, unless it is being searched.
PrintInv ==
  Queued => \A n \in LineNumbers :
    printed[n] = IF n <= Gone /\ ~InHands(n) THEN <<Outcome(n)>> ELSE <<>>

FoundLines == {n \in LineNumbers : printed[n] = <<"recovered">>}
CountInv == recovered = Cardinality(FoundLines)

C1Inv == C1Types /\ QueueInv /\ EndedInv /\ HoldInv /\ PrintInv /\ CountInv

LEMMA C1InitInv == C1Init => C1Inv
<1> SUFFICES ASSUME C1Init PROVE C1Inv
  OBVIOUS
<1> USE TaskLinesType DEF C1Init
<1>1. C1Types
  BY DEF C1Types, Tasks, LineNumbers
<1>2. ~Queued /\ QueueInv /\ HoldInv
  BY DEF Queued, QueueInv, HoldInv
<1>3. CountInv
  <2>1. FoundLines = {}
    BY DEF FoundLines
  <2> QED
    BY <2>1, FS_EmptySet DEF CountInv
<1> QED
  BY <1>1, <1>2, <1>3 DEF C1Inv, EndedInv, PrintInv

LEMMA C1Step == C1Inv /\ [C1Next]_c1_vars => C1Inv'
<1> SUFFICES ASSUME C1Inv, [C1Next]_c1_vars PROVE C1Inv'
  OBVIOUS
<1> USE TaskLinesType
<1>0. IsFiniteSet(Ended) /\ IsFiniteSet(FoundLines) /\ Cardinality(Ended) \in Nat
  <2>1. IsFiniteSet(LineNumbers)
    BY FS_Interval DEF LineNumbers
  <2>2. Ended \subseteq Crackers /\ FoundLines \subseteq LineNumbers
    BY DEF Ended, FoundLines
  <2> QED
    BY <2>1, <2>2, Cracker1Assumption, FS_Subset, FS_CardinalityType
<1>1. CASE C1Start
  BY <1>1 DEF C1Start, C1Inv, C1Types, QueueInv, EndedInv, HoldInv, PrintInv, CountInv, Queued,
       Gone, Ended, InHands, FoundLines
<1>2. CASE ReadLine
  <2> USE <1>2 DEF C1Inv
  <2>1. UNCHANGED <<recovered, c1_pc, c1_task, c1_tries, printed>> /\ ~Queued /\ c1_main = "read"
    BY DEF ReadLine, Queued
  <2>2. Ended' = {} /\ Ended = {}
    BY <2>1 DEF Ended, QueueInv
  <2>3. CountInv' /\ HoldInv'
    BY <2>1 DEF CountInv, HoldInv, FoundLines, QueueInv
  <2>4. CASE total_num < Len(TaskLines)
    <3>1. q' = Append(q, total_num + 1) /\ total_num' = total_num + 1 /\ UNCHANGED c1_main
      BY <2>4 DEF ReadLine, C1Types
    <3>2. total_num + 1 \in Tasks /\ total_num' \in 0 .. Len(TaskLines)
      BY <2>4, <3>1 DEF C1Types, Tasks, LineNumbers
    <3>3. /\ q' \in Seq(Tasks) /\ Len(q') = Len(q) + 1
          /\ \A i \in 1 .. Len(q') : q'[i] = IF i <= Len(q) THEN q[i] ELSE total_num + 1
      BY <3>1, <3>2 DEF C1Types
    <3>4. C1Types' /\ ~Queued'
      BY <2>1, <3>1, <3>2, <3>3 DEF C1Types, Queued
    <3>5. QueueInv'
      BY <2>1, <3>1, <3>3, <3>4 DEF QueueInv, C1Types
    <3> QED
      BY <2>3, <3>4, <3>5 DEF EndedInv, PrintInv
  <2>5. CASE total_num = Len(TaskLines)
    <3> DEFINE N == Cardinality(Crackers)
               z == [i \in 1 .. N |-> NO_TASK]
    <3>1. q' = q \o z /\ total_num' = total_num /\ c1_main' = "create"
      BY <2>5 DEF ReadLine, C1Types
    <3>2. z \in Seq(Tasks) /\ Len(z) = N /\ \A i \in 1 .. N : z[i] = NO_TASK
      BY DEF Tasks
    <3> HIDE DEF z
    <3>3. /\ q' \in Seq(Tasks) /\ Len(q') = Len(q) + N
          /\ \A i \in 1 .. Len(q') : q'[i] = IF i <= Len(q) THEN q[i] ELSE NO_TASK
      <4>1. q \in Seq(Tasks)
        BY DEF C1Types
      <4>2. QED
        <5>1. /\ q \o z \in Seq(Tasks) /\ Len(q \o z) = Len(q) + Len(z)
              /\ \A i \in 1 .. Len(q) + Len(z) :
                   (q \o z)[i] = IF i <= Len(q) THEN q[i] ELSE z[i - Len(q)]
          BY <3>2, <4>1, ConcatProperties
        <5>2. \A i \in 1 .. Len(q) + N : i > Len(q) => z[i - Len(q)] = NO_TASK
          BY <3>2, <4>1
        <5> QED
          BY <3>1, <3>2, <4>1, <5>1, <5>2
    <3>4. C1Types' /\ Queued' /\ Gone' = 0
      BY <2>1, <2>5, <3>1, <3>3 DEF C1Types, Queued, Gone, QueueInv
    <3>5. QueueInv'
      BY <2>1, <2>5, <3>1, <3>3, <3>4 DEF QueueInv, C1Types, Queued
    <3>6. EndedInv'
      BY <2>2, <3>4, FS_EmptySet DEF EndedInv
    <3>7. PrintInv'
      BY <2>1, <3>4 DEF PrintInv, QueueInv, LineNumbers
    <3> QED
      BY <2>3, <3>4, <3>5, <3>6, <3>7
  <2> QED
    BY <2>4, <2>5 DEF ReadLine
<1>3. CASE CreateCracker
  <2> USE <1>3 DEF C1Inv
  <2>1. /\ UNCHANGED <<q, total_num, recovered, c1_task, c1_tries, printed>>
        /\ Queued /\ Queued' /\ Gone' = Gone
    BY DEF CreateCracker, Queued, Gone
  <2>2. \A t \in Crackers : (c1_pc'[t] = "try" <=> c1_pc[t] = "try")
                         /\ (c1_pc'[t] = "end" <=> c1_pc[t] = "end")
    BY DEF CreateCracker, C1Types
  <2>3. Ended' = Ended /\ FoundLines' = FoundLines /\ \A n : InHands(n)' <=> InHands(n)
    BY <2>1, <2>2 DEF Ended, FoundLines, InHands
  <2>4. C1Types'
    BY DEF CreateCracker, C1Types
  <2>5. QueueInv'
    BY <2>1 DEF CreateCracker, QueueInv, Queued
  <2>6. EndedInv' /\ PrintInv' /\ CountInv'
    BY <2>1, <2>3 DEF EndedInv, PrintInv, CountInv
  <2>7. HoldInv'
    BY <2>1, <2>2 DEF HoldInv
  <2> QED
    BY <2>4, <2>5, <2>6, <2>7
<1>4. CASE JoinCrackers
  BY <1>4 DEF JoinCrackers, AllJoined, C1Inv, C1Types, QueueInv, EndedInv, HoldInv, PrintInv,
       CountInv, Queued, Gone, Ended, InHands, FoundLines
<1>5. ASSUME NEW t \in Crackers, PullTask(t) PROVE C1Inv'
  <2> USE <1>5 DEF C1Inv
  <2>1. /\ UNCHANGED <<total_num, recovered, c1_main, printed>> /\ Queued /\ Queued'
        /\ FoundLines' = FoundLines
    BY DEF PullTask, Queued, QueueInv, FoundLines
  <2>2. /\ q # <<>> /\ q' = Tail(q) /\ q' \in Seq(Tasks) /\ Len(q') = Len(q) - 1 /\ Len(q) > 0
        /\ Head(q) = q[1] /\ \A i \in 1 .. Len(q') : q'[i] = q[i + 1]
    BY DEF PullTask, C1Types
  <2>3. Gone \in Nat /\ Gone' = Gone + 1
    BY <2>1, <2>2 DEF Gone, QueueInv, C1Types
  <2>4. Head(q) = IF Gone + 1 <= Len(TaskLines) THEN Gone + 1 ELSE NO_TASK
    BY <2>1, <2>2, <2>3 DEF QueueInv
  <2>5. Head(q) \in Tasks
    BY <2>3, <2>4 DEF Tasks, LineNumbers
  <2>6. C1Types'
    BY <2>1, <2>2, <2>5 DEF PullTask, C1Types
  <2>7. QueueInv'
    <3>1. \A i \in 1 .. Len(q') :
            q'[i] = IF i + Gone' <= Len(TaskLines) THEN i + Gone' ELSE NO_TASK
      <4> TAKE i \in 1 .. Len(q')
      <4>1. i + 1 \in 1 .. Len(q) /\ (i + 1) + Gone = i + Gone'
        BY <2>2, <2>3 DEF C1Types
      <4>2. q[i + 1] = IF (i + 1) + Gone <= Len(TaskLines) THEN (i + 1) + Gone ELSE NO_TASK
        BY <2>1, <4>1 DEF QueueInv
      <4> QED
        BY <2>2, <4>1, <4>2
    <3>2. c1_main \in {"join", "end"} => \A u \in Crackers : c1_pc'[u] # "unborn"
      BY DEF PullTask, QueueInv, C1Types
    <3>3. c1_main # "end"
      BY DEF PullTask, QueueInv
    <3> QED
      BY <2>1, <2>3, <3>1, <3>2, <3>3 DEF QueueInv, Queued
  <2>8. CountInv'
    BY <2>1 DEF CountInv
  <2>9. CASE Gone + 1 <= Len(TaskLines)
    <3>1. Head(q) = Gone + 1 /\ Gone + 1 \in LineNumbers /\ Gone + 1 # NO_TASK
      BY <2>3, <2>4, <2>9, Cracker1Assumption DEF LineNumbers
    <3>2. /\ c1_task' = [c1_task EXCEPT ![t] = Gone + 1]
          /\ c1_tries' = [c1_tries EXCEPT ![t] = 0]
          /\ c1_pc' = [c1_pc EXCEPT ![t] = "try"]
      BY <3>1 DEF PullTask
    <3>3. Ended' = Ended
      BY <3>2 DEF Ended, PullTask, C1Types
    <3>4. EndedInv'
      BY <2>1, <2>3, <2>9, <3>3 DEF EndedInv
    <3>5. PICK g : g = Gone + 1
      OBVIOUS
    <3>6. g \in LineNumbers /\ ~(g <= Gone) /\ Gone' = g /\ Gone <= g
      BY <2>3, <3>1, <3>5
    <3>9. printed[g] = <<>>
      BY <2>1, <3>6 DEF PrintInv
    <3>10. HoldInv'
      <4>1. ASSUME NEW u \in Crackers, c1_pc'[u] = "try"
            PROVE  /\ c1_task'[u] \in LineNumbers /\ c1_task'[u] <= Gone'
                   /\ printed[c1_task'[u]] = <<>>
                   /\ c1_tries'[u] <= TaskLines[c1_task'[u]].target
                   /\ c1_tries'[u] < TaskLines[c1_task'[u]].total
        <5>1. CASE u = t
          <6>1. c1_task'[u] = g /\ c1_tries'[u] = 0
            BY <3>2, <3>5, <5>1 DEF C1Types
          <6> QED
            BY <3>6, <3>9, <6>1 DEF LineNumbers
        <5>2. CASE u # t
          <6>1. c1_task'[u] = c1_task[u] /\ c1_tries'[u] = c1_tries[u] /\ c1_pc[u] = "try"
            BY <3>2, <4>1, <5>2 DEF C1Types
          <6> QED
            BY <2>3, <6>1 DEF HoldInv, LineNumbers
        <5> QED
          BY <5>1, <5>2
      <4>2. \A u \in Crackers : c1_pc[u] = "try" => c1_task[u] # g
        BY <3>6 DEF HoldInv
      <4>3. ASSUME NEW u \in Crackers, NEW w \in Crackers, c1_pc'[u] = "try",
                   c1_pc'[w] = "try", c1_task'[u] = c1_task'[w]
            PROVE  u = w
        BY <3>2, <3>5, <4>2, <4>3 DEF HoldInv, C1Types
      <4> QED
        BY <2>1, <4>1, <4>3 DEF HoldInv
    <3>7. \A n : InHands(n)' <=> InHands(n) \/ n = Gone + 1
      BY <3>2 DEF InHands, PullTask, C1Types
    <3>8. PrintInv'
      BY <2>1, <2>3, <3>7 DEF PrintInv, LineNumbers
    <3> QED
      BY <2>6, <2>7, <2>8, <3>4, <3>8, <3>10
  <2>10. CASE Gone + 1 > Len(TaskLines)
    <3>1. Head(q) = NO_TASK
      BY <2>3, <2>4, <2>10
    <3>2. c1_pc' = [c1_pc EXCEPT ![t] = "end"] /\ t \notin Ended /\ Ended' = Ended \cup {t}
      BY <3>1 DEF PullTask, Ended, C1Types
    <3>3. EndedInv'
      <4>1. Cardinality(Ended') = Cardinality(Ended) + 1
        BY <1>0, <3>2, FS_AddElement
      <4> QED
        BY <1>0, <2>1, <2>3, <2>10, <4>1 DEF EndedInv
    <3>4. \A u \in Crackers : u # t => c1_task'[u] = c1_task[u] /\ c1_tries'[u] = c1_tries[u]
                                     /\ c1_pc'[u] = c1_pc[u]
      BY DEF PullTask, C1Types
    <3>5. c1_pc'[t] # "try" /\ c1_pc[t] # "try"
      BY <3>2 DEF PullTask, C1Types
    <3>6. HoldInv'
      <4>1. \A u \in Crackers : c1_pc'[u] = "try" =>
              /\ u # t /\ c1_pc[u] = "try" /\ c1_task'[u] = c1_task[u] /\ c1_tries'[u] = c1_tries[u]
        BY <3>4, <3>5
      <4>2. \A n \in LineNumbers : n <= Gone => n <= Gone'
        BY <2>3 DEF LineNumbers
      <4>3. \A u \in Crackers : c1_pc'[u] = "try" =>
              /\ c1_task'[u] \in LineNumbers /\ c1_task'[u] <= Gone' /\ printed'[c1_task'[u]] = <<>>
              /\ c1_tries'[u] <= TaskLines[c1_task'[u]].target
              /\ c1_tries'[u] < TaskLines[c1_task'[u]].total
        <5> SUFFICES ASSUME NEW u \in Crackers, c1_pc'[u] = "try"
                     PROVE  /\ c1_task'[u] \in LineNumbers /\ c1_task'[u] <= Gone'
                            /\ printed'[c1_task'[u]] = <<>>
                            /\ c1_tries'[u] <= TaskLines[c1_task'[u]].target
                            /\ c1_tries'[u] < TaskLines[c1_task'[u]].total
          OBVIOUS
        <5>1. /\ c1_task[u] \in LineNumbers /\ c1_task[u] <= Gone /\ printed[c1_task[u]] = <<>>
              /\ c1_tries[u] <= TaskLines[c1_task[u]].target
              /\ c1_tries[u] < TaskLines[c1_task[u]].total
          BY <4>1 DEF HoldInv
        <5> QED
          BY <5>1, <2>1, <4>1, <4>2
      <4>4. \A u, v \in Crackers :
              c1_pc'[u] = "try" /\ c1_pc'[v] = "try" /\ c1_task'[u] = c1_task'[v] => u = v
        BY <4>1 DEF HoldInv
      <4> QED
        BY <4>3, <4>4 DEF HoldInv
    <3>7. \A n : InHands(n)' <=> InHands(n)
      BY <3>4, <3>5 DEF InHands
    <3>8. PrintInv'
      BY <2>1, <2>3, <2>10, <3>7 DEF PrintInv, LineNumbers
    <3> QED
      BY <2>6, <2>7, <2>8, <3>3, <3>6, <3>8
  <2> QED
    BY <2>3, <2>9, <2>10
<1>6. ASSUME NEW t \in Crackers, find_word(t) PROVE C1Inv'
  <2> USE <1>6 DEF C1Inv
  <2> DEFINE m == c1_task[t]
  <2>1. /\ UNCHANGED <<q, total_num, c1_main, c1_task>> /\ c1_pc[t] = "try" /\ Queued /\ Queued'
        /\ Gone' = Gone /\ Gone \in Nat
    BY DEF find_word, Queued, QueueInv, Gone
  <2>2. /\ m \in LineNumbers /\ m <= Gone /\ printed[m] = <<>> /\ c1_tries[t] \in Nat
        /\ c1_tries[t] <= TaskLines[m].target /\ c1_tries[t] < TaskLines[m].total
        /\ TaskLines[m].target \in Nat /\ TaskLines[m].total \in Nat
    BY <2>1 DEF HoldInv, C1Types
  <2>3. CASE UNCHANGED printed
    <3>1. /\ UNCHANGED <<recovered, c1_pc>> /\ c1_tries' = [c1_tries EXCEPT ![t] = @ + 1]
          /\ c1_tries[t] # TaskLines[m].target /\ c1_tries[t] + 1 < TaskLines[m].total
      BY <2>2, <2>3 DEF find_word, C1Types
    <3>2. C1Types' /\ QueueInv'
      BY <2>1, <2>3, <3>1 DEF C1Types, QueueInv, Queued, Gone
    <3>3. Ended' = Ended /\ FoundLines' = FoundLines /\ \A n : InHands(n)' <=> InHands(n)
      BY <2>1, <2>3, <3>1 DEF Ended, FoundLines, InHands
    <3>4. EndedInv' /\ PrintInv' /\ CountInv'
      BY <2>1, <2>3, <3>1, <3>3 DEF EndedInv, PrintInv, CountInv
    <3>5. HoldInv'
      BY <2>1, <2>2, <2>3, <3>1, SMTT(15) DEF HoldInv, C1Types
    <3> QED
      BY <3>2, <3>4, <3>5
  <2>4. CASE printed' # printed
    <3>1. /\ printed' = [printed EXCEPT ![m] = <<Outcome(m)>>]
          /\ c1_pc' = [c1_pc EXCEPT ![t] = "pull"] /\ UNCHANGED c1_tries
          /\ recovered' = IF Outcome(m) = "recovered" THEN recovered + 1 ELSE recovered
      <4>1. CASE c1_tries[t] = TaskLines[m].target
        <5>1. Outcome(m) = "recovered"
          BY <2>2, <4>1 DEF Outcome
        <5> QED
          BY <2>2, <2>4, <4>1, <5>1 DEF find_word, C1Types
      <4>2. CASE c1_tries[t] # TaskLines[m].target
        <5>1. /\ c1_tries[t] + 1 = TaskLines[m].total
              /\ printed' = [printed EXCEPT ![m] = Append(printed[m], "failed")]
              /\ c1_pc' = [c1_pc EXCEPT ![t] = "pull"] /\ UNCHANGED <<recovered, c1_tries>>
          BY <2>4, <4>2 DEF find_word, C1Types
        <5>2. Outcome(m) = "failed"
          BY <2>2, <4>2, <5>1 DEF Outcome
        <5> QED
          BY <2>2, <5>1, <5>2
      <4> QED
        BY <4>1, <4>2
    <3>2. Outcome(m) \in {"recovered", "failed"}
      BY DEF Outcome
    <3>3. C1Types'
      <4>1. <<Outcome(m)>> \in Seq({"recovered", "failed"})
        BY <3>2
      <4>2. printed' \in [LineNumbers -> Seq({"recovered", "failed"})]
        BY <3>1, <4>1 DEF C1Types
      <4> QED
        BY <2>1, <3>1, <4>2 DEF C1Types
    <3>4. QueueInv'
      BY <2>1, <3>1 DEF QueueInv, C1Types, Queued
    <3>5. Ended' = Ended
      BY <2>1, <3>1 DEF Ended, C1Types
    <3>6. EndedInv'
      BY <2>1, <3>5 DEF EndedInv
    <3>7. HoldInv'
      BY <2>1, <3>1 DEF HoldInv, C1Types
    <3>8. /\ InHands(m) /\ ~InHands(m)' /\ \A n \in LineNumbers : n # m => (InHands(n)' <=> InHands(n))
      BY <2>1, <2>2, <3>1 DEF InHands, HoldInv, C1Types
    <3>9. PrintInv'
      BY <2>1, <2>2, <3>1, <3>8 DEF PrintInv, C1Types, Outcome
    <3>10. CountInv'
      <4>1. CASE Outcome(m) = "recovered"
        <5>1. m \notin FoundLines /\ FoundLines' = FoundLines \cup {m}
          BY <2>2, <3>1, <4>1 DEF FoundLines, C1Types
        <5> QED
          BY <1>0, <3>1, <4>1, <5>1, FS_AddElement DEF CountInv
      <4>2. CASE Outcome(m) = "failed"
        <5>1. FoundLines' = FoundLines
          BY <2>2, <3>1, <4>2 DEF FoundLines, C1Types
        <5> QED
          BY <3>1, <4>2, <5>1 DEF CountInv
      <4> QED
        BY <3>2, <4>1, <4>2
    <3> QED
      BY <3>3, <3>4, <3>6, <3>7, <3>9, <3>10
  <2> QED
    BY <2>3, <2>4
<1>7. CASE UNCHANGED c1_vars
  BY <1>7 DEF c1_vars, C1Inv, C1Types, QueueInv, EndedInv, HoldInv, PrintInv, CountInv, Queued,
       Gone, Ended, InHands, FoundLines
<1> QED
  BY <1>1, <1>2, <1>3, <1>4, <1>5, <1>6, <1>7 DEF C1Next, C1MainStep, cracker_helper

\* When cracker1 prints its summary, every line has been searched once with the
\* right outcome and `recovered` counts the ones found, for any number of
\* threads and any input, whichever thread takes which line (cracker1.c:31-33,
\* 99-117).
THEOREM RecoveredCorrect == C1Spec => []RecoveredExact
<1>1. C1Inv => RecoveredExact
  <2> SUFFICES ASSUME C1Inv, c1_main = "end" PROVE RecoveredExact
    BY DEF RecoveredExact
  <2> USE TaskLinesType DEF C1Inv
  <2>1. Queued /\ \A t \in Crackers : c1_pc[t] = "end"
    BY DEF Queued, QueueInv
  <2>2. Ended = Crackers
    BY <2>1 DEF Ended
  <2>3. Gone = Len(TaskLines) + Cardinality(Crackers)
    BY <2>1, <2>2 DEF EndedInv, QueueInv
  <2>4. Len(q) = 0 /\ q = <<>>
    BY <2>3 DEF Gone, C1Types
  <2>5. \A n \in LineNumbers : ~InHands(n) /\ n <= Gone
    BY <2>1, <2>3 DEF InHands, LineNumbers
  <2>6. \A n \in LineNumbers : printed[n] = <<Outcome(n)>>
    BY <2>1, <2>5 DEF PrintInv
  <2>7. recovered = Cardinality({n \in LineNumbers : printed[n] = <<"recovered">>})
    BY Zenon DEF CountInv, FoundLines
  <2>8. total_num = Len(TaskLines)
    BY <2>1 DEF QueueInv
  <2> QED
    BY <2>4, <2>6, <2>7, <2>8 DEF RecoveredExact, Outcome
<1> QED
  BY <1>1, C1InitInv, C1Step, PTL DEF C1Spec

-----------------------------------------------------------------------------
(* cracker2.c *)

LEMMA DivExact == ASSUME NEW N \in Nat \ {0}, NEW k \in Nat PROVE (k * N) \div N = k
<1> DEFINE d == (k * N) \div N
          r == (k * N) % N
<1>1. d \in Int /\ r \in 0 .. N - 1 /\ k * N = N * d + r
  OBVIOUS
<1> HIDE DEF d, r
<1>2. r = N * (k - d)
  BY <1>1
<1>3. CASE k - d >= 1
  <2>1. N * (k - d) >= N
    BY <1>1, <1>3
  <2> QED BY <2>1, <1>1, <1>2
<1>4. CASE k - d <= -1
  <2>1. N * (k - d) <= -N
    BY <1>1, <1>4
  <2> QED BY <2>1, <1>1, <1>2
<1>5. k = d
  BY <1>1, <1>3, <1>4
<1> QED BY <1>5 DEF d

\* T passwords cut into N parts of length c.
EvenlyCut(T, N, c) ==
  /\ c \in Nat \ {0} /\ T = c * N
  /\ \A t \in 1 .. N : (T * (t - 1)) \div N = c * (t - 1) /\ (T * t) \div N = c * t
  /\ \A t \in 1 .. N, n \in 0 .. c - 1 : c * (t - 1) + n \in 0 .. T - 1
  /\ \A x \in 0 .. T - 1 : \E t \in 1 .. N, n \in 0 .. c - 1 : x = c * (t - 1) + n

LEMMA EvenShare ==
  ASSUME NEW T \in Nat \ {0}, NEW N \in Nat \ {0}, T % N = 0
  PROVE  EvenlyCut(T, N, T \div N)
<1> DEFINE c == T \div N
<1>1. c \in Int /\ T = c * N
  OBVIOUS
<1> HIDE DEF c
<1>2. c \in Nat \ {0}
  BY <1>1
<1>3. ASSUME NEW k \in Nat PROVE (T * k) \div N = c * k
  <2>1. T * k = (c * k) * N
    BY <1>1
  <2>2. c * k \in Nat
    BY <1>2
  <2>3. ((c * k) * N) \div N = c * k
    BY <2>2, DivExact, Zenon
  <2> QED
    BY <2>1, <2>3, Zenon
<1>4. \A t \in 1 .. N : (T * (t - 1)) \div N = c * (t - 1) /\ (T * t) \div N = c * t
  <2> TAKE t \in 1 .. N
  <2>1. t - 1 \in Nat /\ t \in Nat
    OBVIOUS
  <2> QED
    BY <1>3, <2>1, Zenon
<1>5. ASSUME NEW t \in 1 .. N, NEW n \in 0 .. c - 1 PROVE c * (t - 1) + n \in 0 .. T - 1
  <2>1. c * (t - 1) <= c * (N - 1)
    BY <1>2
  <2>2. c * (t - 1) >= 0
    BY <1>2
  <2>3. c * (N - 1) = T - c
    BY <1>1, <1>2
  <2> QED BY <2>1, <2>2, <2>3, <1>2
<1>6. ASSUME NEW x \in 0 .. T - 1 PROVE \E t \in 1 .. N, n \in 0 .. c - 1 : x = c * (t - 1) + n
  <2> DEFINE d == x \div c
             m == x % c
  <2>1. d \in Int /\ m \in 0 .. c - 1 /\ x = c * d + m
    BY <1>2
  <2> HIDE DEF d, m
  <2>2. d >= 0
    <3> SUFFICES ASSUME d <= -1 PROVE FALSE
      BY <2>1
    <3>1. c * d <= -c
      BY <1>2, <2>1
    <3> QED BY <3>1, <2>1, <1>2
  <2>3. d < N
    <3> SUFFICES ASSUME d >= N PROVE FALSE
      BY <2>1
    <3>1. c * d >= c * N
      BY <1>2, <2>1
    <3> QED BY <3>1, <2>1, <1>1
  <2>4. d + 1 \in 1 .. N /\ x = c * ((d + 1) - 1) + m
    BY <2>1, <2>2, <2>3
  <2> QED BY <2>1, <2>4
<1>7. EvenlyCut(T, N, c)
  BY <1>1, <1>2, <1>4, <1>5, <1>6 DEF EvenlyCut
<1> QED
  BY <1>7 DEF c
C2Types ==
  /\ range \in Nat /\ status2 \in {0, 1} /\ hashed \in Nat
  /\ line_no \in 0 .. Len(Passwords)
  /\ c2_main \in {"start", "read", "gate", "search", "summary", "quit", "join", "end"}
  /\ c2_pc \in [Searchers -> {"gate", "begin", "test", "found", "check", "after",
                              "report", "meet", "end"}]
  /\ c2_i \in [Searchers -> Nat] /\ reported \in [Searchers -> Nat]

\* Where the threads are when main is somewhere, and what main has set up.
SidesInv ==
  /\ SidesOfBarrier
  /\ c2_main = "start" => \A t \in Searchers : c2_pc[t] = "gate"
  /\ c2_main \in {"join", "end"} => \A t \in Searchers : c2_pc[t] = "end"
  /\ done = IF c2_main \in {"quit", "join", "end"} THEN 1 ELSE 0
  /\ c2_main \in {"gate", "search", "summary"} => line_no > 0
  /\ c2_main \in {"start", "read", "gate"} => status2 = 0 /\ hashed = 0
  /\ c2_main = "gate" => \A t \in Searchers : reported[t] = 0


LEMMA PasswordsType ==
  /\ Len(Passwords) \in Nat /\ DOMAIN Passwords = 1 .. Len(Passwords)
  /\ \A n \in 1 .. Len(Passwords) : Passwords[n].total \in Nat \ {0} /\ Passwords[n].target \in Nat
<1> DEFINE R == [total : Nat \ {0}, target : Nat]
<1>1. Passwords \in Seq(R)
  BY Cracker2Assumption
<1>2. \A r \in R : r.total \in Nat \ {0} /\ r.target \in Nat
  OBVIOUS
<1> HIDE DEF R
<1> QED
  BY <1>1, <1>2

LEMMA C2InitInv == C2Init => C2Types /\ SidesInv
BY PasswordsType DEF C2Init, C2Types, SidesInv, SidesOfBarrier, Searchers

LEMMA LineType ==
  ASSUME C2Types, line_no > 0
  PROVE  Line.total \in Nat \ {0} /\ Line.target \in Nat
BY PasswordsType DEF Line, C2Types

LEMMA ShareType ==
  ASSUME C2Types, line_no > 0, NEW t \in Searchers
  PROVE  SubrangeStart(t) \in Nat /\ SubrangeCount(t) \in Nat
<1>1. NumThreads \in Nat \ {0} /\ Line.total \in Nat \ {0} /\ t \in Nat \ {0}
  BY Cracker2Assumption, LineType DEF Searchers
<1> DEFINE a == Line.total * (t - 1)
           b == Line.total * t
<1>2. a \in Nat /\ b \in Nat /\ a <= b
  BY <1>1
<1> HIDE DEF a, b
<1>3. a \div NumThreads \in Nat /\ b \div NumThreads \in Nat /\ a \div NumThreads <= b \div NumThreads
  BY <1>1, <1>2
<1> QED
  BY <1>3 DEF SubrangeStart, SubrangeCount, a, b

LEMMA C2TypesStep == C2Types /\ SidesInv /\ [C2Next]_c2_vars => C2Types'
<1> SUFFICES ASSUME C2Types, SidesInv, [C2Next]_c2_vars PROVE C2Types'
  OBVIOUS
<1> USE PasswordsType DEF C2Types
<1>1. CASE C2Start
  BY <1>1 DEF C2Start
<1>2. CASE ReadPassword
  <2>1. CASE line_no < Len(Passwords) /\ c2_main' = "gate" /\ line_no' = line_no + 1
             /\ reported' = [t \in Searchers |-> 0]
    BY <1>2, <2>1 DEF ReadPassword
  <2>2. CASE c2_main' = "quit" /\ UNCHANGED <<line_no, reported>>
    BY <1>2, <2>2 DEF ReadPassword
  <2> QED
    BY <1>2, <2>1, <2>2, Zenon DEF ReadPassword
<1>3. CASE PrintSummary
  BY <1>3 DEF PrintSummary, Reset
<1>4. CASE JoinSearchers
  BY <1>4 DEF JoinSearchers
<1>5. CASE pthread_barrier_wait
  BY <1>5 DEF pthread_barrier_wait, AtBarrier, MainGoesTo
<1>6. ASSUME NEW t \in Searchers, BeginSearch(t) PROVE C2Types'
  <2>1. line_no > 0
    BY <1>6 DEF BeginSearch, SidesInv, SidesOfBarrier
  <2> QED
    BY <1>6, <2>1, ShareType DEF BeginSearch, Goto
<1>7. ASSUME NEW t \in Searchers, TestPassword(t) PROVE C2Types'
  BY <1>7 DEF TestPassword, Goto
<1>8. ASSUME NEW t \in Searchers, FoundPassword(t) PROVE C2Types'
  BY <1>8 DEF FoundPassword, Goto, Report
<1>9. ASSUME NEW t \in Searchers, CheckStatus(t) PROVE C2Types'
  <2>1. c2_pc' \in [Searchers -> {"gate", "begin", "test", "found", "check", "after",
                                  "report", "meet", "end"}]
    BY <1>9 DEF CheckStatus, Goto
  <2>2. c2_i' \in [Searchers -> Nat]
    BY <1>9 DEF CheckStatus
  <2>3. hashed' \in Nat
    BY <1>9 DEF CheckStatus, Report
  <2>4. reported' \in [Searchers -> Nat]
    BY <1>9 DEF CheckStatus, Report
  <2> QED
    BY <1>9, <2>1, <2>2, <2>3, <2>4 DEF CheckStatus
<1>10. ASSUME NEW t \in Searchers, AfterSearch(t) PROVE C2Types'
  BY <1>10 DEF AfterSearch, Goto
<1>11. ASSUME NEW t \in Searchers, ReportFailure(t) PROVE C2Types'
  BY <1>11 DEF ReportFailure, Goto, Report
<1>12. CASE UNCHANGED c2_vars
  BY <1>12 DEF c2_vars
<1> QED
  BY <1>1, <1>2, <1>3, <1>4, <1>5, <1>6, <1>7, <1>8, <1>9, <1>10, <1>11, <1>12 DEF C2Next, C2MainStep, crack_password

LEMMA SidesStep == C2Types /\ SidesInv /\ [C2Next]_c2_vars => SidesInv'
<1> SUFFICES ASSUME C2Types, SidesInv, [C2Next]_c2_vars PROVE SidesInv'
  OBVIOUS
<1> USE PasswordsType DEF C2Types, SidesInv, SidesOfBarrier
<1>1. CASE C2Start
  BY <1>1 DEF C2Start
<1>2. CASE ReadPassword
  <2>1. CASE c2_main' = "gate"
    BY <1>2, <2>1 DEF ReadPassword
  <2>2. CASE c2_main' = "quit"
    BY <1>2, <2>2 DEF ReadPassword
  <2> QED
    BY <1>2, <2>1, <2>2 DEF ReadPassword
<1>3. CASE PrintSummary
  BY <1>3 DEF PrintSummary, Reset
<1>4. CASE JoinSearchers
  BY <1>4 DEF JoinSearchers
<1>5. CASE pthread_barrier_wait
  BY <1>5 DEF pthread_barrier_wait, AtBarrier, MainGoesTo
<1>6. ASSUME NEW t \in Searchers, BeginSearch(t) PROVE SidesInv'
  BY <1>6 DEF BeginSearch, Goto
<1>7. ASSUME NEW t \in Searchers, TestPassword(t) PROVE SidesInv'
  BY <1>7 DEF TestPassword, Goto
<1>8. ASSUME NEW t \in Searchers, FoundPassword(t) PROVE SidesInv'
  BY <1>8 DEF FoundPassword, Goto, Report
<1>9. ASSUME NEW t \in Searchers, CheckStatus(t) PROVE SidesInv'
  BY <1>9 DEF CheckStatus, Goto, Report
<1>10. ASSUME NEW t \in Searchers, AfterSearch(t) PROVE SidesInv'
  BY <1>10 DEF AfterSearch, Goto
<1>11. ASSUME NEW t \in Searchers, ReportFailure(t) PROVE SidesInv'
  BY <1>11 DEF ReportFailure, Goto, Report
<1>12. CASE UNCHANGED c2_vars
  BY <1>12 DEF c2_vars
<1> QED
  BY <1>1, <1>2, <1>3, <1>4, <1>5, <1>6, <1>7, <1>8, <1>9, <1>10, <1>11, <1>12 DEF C2Next, C2MainStep, crack_password


\* What holds of a line while it is searched and when it is summed up.
Searching == c2_main \in {"search", "summary"}

ReportInv ==
  Searching =>
    /\ \A t \in Searchers :
         /\ reported[t] <= 1
         /\ c2_pc[t] \in {"begin", "test", "found", "check", "report"} => reported[t] = 0
         /\ c2_pc[t] = "found" => Position(t) = Line.target
         /\ status2 = 0 /\ c2_pc[t] = "after" => reported[t] = 0
         /\ status2 = 0 /\ c2_pc[t] \in {"meet", "gate"} => reported[t] = 1
    /\ status2 = 1 => result2 = Line.target /\ \E t \in Searchers : reported[t] = 1

\* The same length for all.
Share == Line.total \div NumThreads

\* The nth password of a thread.
Nth(t, n) == Share * (t - 1) + n

\* The parts that have been searched when the password is not found.
EvenInv ==
  Searching /\ EvenSplit =>
    \A t \in Searchers :
      /\ c2_pc[t] # "begin" =>
           /\ range = Share /\ c2_i[t] <= Share
           /\ \A n \in 0 .. c2_i[t] - 1 : Nth(t, n) # Line.target
      /\ c2_pc[t] \in {"found", "check"} => c2_i[t] < Share
      /\ c2_pc[t] = "check" => Nth(t, c2_i[t]) # Line.target
      /\ status2 = 0 /\ c2_pc[t] \in {"after", "report", "meet", "gate"} => c2_i[t] = Share

\* The sum of the reports while the password is not found.
Reporters == {t \in Searchers : reported[t] = 1}
HashedInv ==
  Searching /\ EvenSplit /\ status2 = 0 => hashed = Share * Cardinality(Reporters)

LEMMA EvenParts ==
  ASSUME C2Types, line_no > 0, EvenSplit
  PROVE  /\ Share \in Nat \ {0} /\ Line.total = Share * NumThreads
         /\ \A t \in Searchers : SubrangeCount(t) = Share
         /\ \A t \in Searchers : c2_i[t] < Share => Position(t) = Nth(t, c2_i[t])
         /\ \A x \in 0 .. Line.total - 1 :
              \E t \in Searchers, n \in 0 .. Share - 1 : x = Nth(t, n)
<1> DEFINE T == Line.total
           N == NumThreads
<1>1. T \in Nat \ {0} /\ N \in Nat \ {0} /\ T % N = 0 /\ Share = T \div N /\ Searchers = 1 .. N
  BY LineType, Cracker2Assumption DEF EvenSplit, Share, Searchers
<1>2. /\ \A t \in Searchers : SubrangeStart(t) = (T * (t - 1)) \div N
      /\ \A t \in Searchers : SubrangeCount(t) = (T * t) \div N - (T * (t - 1)) \div N
      /\ \A t \in Searchers : Position(t) = (SubrangeStart(t) + c2_i[t]) % T
  BY DEF SubrangeStart, SubrangeCount, Position
<1> HIDE DEF T, N
<1>3. EvenlyCut(T, N, Share)
  <2>1. EvenlyCut(T, N, T \div N)
    BY <1>1, EvenShare, Zenon
  <2> QED
    BY <1>1, <2>1
<1>4. Share \in Nat \ {0} /\ T = Share * N
  BY <1>3 DEF EvenlyCut
<1>5. ASSUME NEW t \in Searchers
      PROVE  /\ SubrangeStart(t) = Share * (t - 1)
             /\ SubrangeCount(t) = Share * t - Share * (t - 1)
  <2>1. t \in 1 .. N
    BY <1>1
  <2>2. (T * (t - 1)) \div N = Share * (t - 1) /\ (T * t) \div N = Share * t
    BY <2>1, <1>3, Zenon DEF EvenlyCut
  <2>3. /\ SubrangeStart(t) = (T * (t - 1)) \div N
        /\ SubrangeCount(t) = (T * t) \div N - (T * (t - 1)) \div N
    BY <1>2, Zenon
  <2> QED
    BY <2>2, <2>3, Zenon
<1>6. ASSUME NEW t \in Searchers PROVE SubrangeCount(t) = Share
  <2>1. SubrangeCount(t) = Share * t - Share * (t - 1)
    BY <1>5
  <2>2. t \in Nat /\ Share \in Nat
    BY <1>1, <1>4
  <2> QED
    BY <2>1, <2>2
<1>7. ASSUME NEW t \in Searchers, c2_i[t] < Share PROVE Position(t) = Share * (t - 1) + c2_i[t]
  <2> DEFINE x == Share * (t - 1) + c2_i[t]
  <2>1. c2_i[t] \in 0 .. Share - 1 /\ t \in 1 .. N
    BY <1>1, <1>7, <1>4 DEF C2Types
  <2>2. x \in 0 .. T - 1
    BY <2>1, <1>3, Zenon DEF EvenlyCut
  <2>3. Position(t) = x % T
    BY <1>2, <1>5, Zenon
  <2> HIDE DEF x
  <2>4. x % T = x
    BY <1>1, <2>2
  <2> QED
    BY <2>3, <2>4 DEF x
<1>8. \A x \in 0 .. T - 1 : \E t \in Searchers, n \in 0 .. Share - 1 : x = Share * (t - 1) + n
  BY <1>1, <1>3, Zenon DEF EvenlyCut
<1> QED
  BY <1>4, <1>6, <1>7, <1>8, Zenon DEF T, N, Nth



LEMMA InSearch ==
  ASSUME C2Types, SidesInv, NEW t \in Searchers, c2_pc[t] \notin {"gate", "end"}
  PROVE  c2_main = "search" /\ line_no > 0
BY DEF C2Types, SidesInv, SidesOfBarrier

LEMMA PositionKept ==
  ASSUME line_no' = line_no, NEW u \in Searchers, c2_i'[u] = c2_i[u]
  PROVE  Position(u)' = Position(u)
BY Zenon DEF Position, SubrangeStart, Line

LEMMA LineKept ==
  ASSUME line_no' = line_no
  PROVE  /\ Line' = Line /\ Share' = Share /\ (EvenSplit' <=> EvenSplit)
         /\ \A t, n : Nth(t, n)' = Nth(t, n)
BY Zenon DEF Line, Share, EvenSplit, Nth

LEMMA ReportStep == C2Types /\ SidesInv /\ ReportInv /\ [C2Next]_c2_vars => ReportInv'
<1> SUFFICES ASSUME C2Types, SidesInv, ReportInv, [C2Next]_c2_vars PROVE ReportInv'
  OBVIOUS
<1> USE DEF C2Types, ReportInv, Searching
<1>1. CASE C2Start
  BY <1>1 DEF C2Start
<1>2. CASE ReadPassword
  BY <1>2 DEF ReadPassword
<1>3. CASE PrintSummary
  BY <1>3 DEF PrintSummary, Reset
<1>4. CASE JoinSearchers
  BY <1>4 DEF JoinSearchers
<1>5. CASE pthread_barrier_wait
  <2>1. Line' = Line /\ \A u \in Searchers : Position(u)' = Position(u)
    BY <1>5, LineKept, PositionKept DEF pthread_barrier_wait
  <2> QED
    BY <1>5, <2>1 DEF pthread_barrier_wait, AtBarrier, MainGoesTo, SidesInv, SidesOfBarrier
<1>6. ASSUME NEW t \in Searchers, BeginSearch(t) PROVE ReportInv'
  <2>1. c2_main = "search"
    BY <1>6, InSearch DEF BeginSearch
  <2>2. Line' = Line
    BY <1>6, LineKept DEF BeginSearch
  <2>3. \A u \in Searchers : c2_i'[u] = c2_i[u] => Position(u)' = Position(u)
    BY <1>6, PositionKept DEF BeginSearch
  <2> QED
    BY <1>6, <2>1, <2>2, <2>3 DEF BeginSearch, Goto
<1>7. ASSUME NEW t \in Searchers, TestPassword(t) PROVE ReportInv'
  <2>1. c2_main = "search"
    BY <1>7, InSearch DEF TestPassword
  <2>2. Line' = Line
    BY <1>7, LineKept DEF TestPassword
  <2>3. \A u \in Searchers : c2_i'[u] = c2_i[u] => Position(u)' = Position(u)
    BY <1>7, PositionKept DEF TestPassword
  <2> QED
    BY <1>7, <2>1, <2>2, <2>3 DEF TestPassword, Goto
<1>8. ASSUME NEW t \in Searchers, FoundPassword(t) PROVE ReportInv'
  <2>1. c2_main = "search"
    BY <1>8, InSearch DEF FoundPassword
  <2>2. Line' = Line
    BY <1>8, LineKept DEF FoundPassword
  <2>3. \A u \in Searchers : c2_i'[u] = c2_i[u] => Position(u)' = Position(u)
    BY <1>8, PositionKept DEF FoundPassword
  <2> QED
    BY <1>8, <2>1, <2>2, <2>3 DEF FoundPassword, Goto, Report
<1>9. ASSUME NEW t \in Searchers, CheckStatus(t) PROVE ReportInv'
  <2>1. c2_main = "search"
    BY <1>9, InSearch DEF CheckStatus
  <2>2. Line' = Line
    BY <1>9, LineKept DEF CheckStatus
  <2>3. \A u \in Searchers : c2_i'[u] = c2_i[u] => Position(u)' = Position(u)
    BY <1>9, PositionKept DEF CheckStatus
  <2> QED
    BY <1>9, <2>1, <2>2, <2>3 DEF CheckStatus, Goto, Report
<1>10. ASSUME NEW t \in Searchers, AfterSearch(t) PROVE ReportInv'
  <2>1. c2_main = "search"
    BY <1>10, InSearch DEF AfterSearch
  <2>2. Line' = Line
    BY <1>10, LineKept DEF AfterSearch
  <2>3. \A u \in Searchers : c2_i'[u] = c2_i[u] => Position(u)' = Position(u)
    BY <1>10, PositionKept DEF AfterSearch
  <2> QED
    BY <1>10, <2>1, <2>2, <2>3 DEF AfterSearch, Goto
<1>11. ASSUME NEW t \in Searchers, ReportFailure(t) PROVE ReportInv'
  <2>1. c2_main = "search"
    BY <1>11, InSearch DEF ReportFailure
  <2>2. Line' = Line
    BY <1>11, LineKept DEF ReportFailure
  <2>3. \A u \in Searchers : c2_i'[u] = c2_i[u] => Position(u)' = Position(u)
    BY <1>11, PositionKept DEF ReportFailure
  <2> QED
    BY <1>11, <2>1, <2>2, <2>3 DEF ReportFailure, Goto, Report
<1>12. CASE UNCHANGED c2_vars
  <2>1. Line' = Line /\ \A u \in Searchers : Position(u)' = Position(u)
    BY <1>12, LineKept, PositionKept DEF c2_vars
  <2> QED
    BY <1>12, <2>1 DEF c2_vars
<1> QED
  BY <1>1, <1>2, <1>3, <1>4, <1>5, <1>6, <1>7, <1>8, <1>9, <1>10, <1>11, <1>12 DEF C2Next, C2MainStep, crack_password

LEMMA EvenStep == C2Types /\ SidesInv /\ EvenInv /\ [C2Next]_c2_vars => EvenInv'
<1> SUFFICES ASSUME C2Types, SidesInv, EvenInv, [C2Next]_c2_vars PROVE EvenInv'
  OBVIOUS
<1> USE DEF C2Types, EvenInv, Searching
<1>1. CASE C2Start
  BY <1>1 DEF C2Start
<1>2. CASE ReadPassword
  BY <1>2 DEF ReadPassword
<1>3. CASE PrintSummary
  BY <1>3 DEF PrintSummary, Reset
<1>4. CASE JoinSearchers
  BY <1>4 DEF JoinSearchers
<1>5. CASE pthread_barrier_wait
  <2>1. /\ Line' = Line /\ Share' = Share /\ (EvenSplit' <=> EvenSplit)
        /\ \A u, n : Nth(u, n)' = Nth(u, n)
    BY <1>5, LineKept DEF pthread_barrier_wait
  <2> QED
    BY <1>5, <2>1 DEF pthread_barrier_wait, AtBarrier, MainGoesTo, SidesInv, SidesOfBarrier
<1>6. ASSUME NEW t \in Searchers, BeginSearch(t) PROVE EvenInv'
  <2>1. c2_main = "search" /\ line_no > 0
    BY <1>6, InSearch DEF BeginSearch
  <2>2. /\ Line' = Line /\ Share' = Share /\ (EvenSplit' <=> EvenSplit)
        /\ \A u, n : Nth(u, n)' = Nth(u, n)
    BY <1>6, LineKept DEF BeginSearch
  <2>3. EvenSplit => Share \in Nat /\ SubrangeCount(t) = Share
    BY <2>1, EvenParts
  <2> QED
    BY <1>6, <2>1, <2>2, <2>3 DEF BeginSearch, Goto
<1>7. ASSUME NEW t \in Searchers, TestPassword(t) PROVE EvenInv'
  <2>1. c2_main = "search" /\ line_no > 0
    BY <1>7, InSearch DEF TestPassword
  <2>2. /\ Line' = Line /\ Share' = Share /\ (EvenSplit' <=> EvenSplit)
        /\ \A u, n : Nth(u, n)' = Nth(u, n)
    BY <1>7, LineKept DEF TestPassword
  <2>3. EvenSplit => Share \in Nat /\ (c2_i[t] < Share => Position(t) = Nth(t, c2_i[t]))
    BY <2>1, EvenParts
  <2> QED
    BY <1>7, <2>1, <2>2, <2>3 DEF TestPassword, Goto
<1>8. ASSUME NEW t \in Searchers, FoundPassword(t) PROVE EvenInv'
  <2>1. c2_main = "search" /\ line_no > 0
    BY <1>8, InSearch DEF FoundPassword
  <2>2. /\ Line' = Line /\ Share' = Share /\ (EvenSplit' <=> EvenSplit)
        /\ \A u, n : Nth(u, n)' = Nth(u, n)
    BY <1>8, LineKept DEF FoundPassword
  <2>3. EvenSplit => Share \in Nat
    BY <2>1, EvenParts
  <2> QED
    BY <1>8, <2>1, <2>2, <2>3 DEF FoundPassword, Goto, Report
<1>9. ASSUME NEW t \in Searchers, CheckStatus(t) PROVE EvenInv'
  <2>1. c2_main = "search" /\ line_no > 0
    BY <1>9, InSearch DEF CheckStatus
  <2>2. /\ Line' = Line /\ Share' = Share /\ (EvenSplit' <=> EvenSplit)
        /\ \A u, n : Nth(u, n)' = Nth(u, n)
    BY <1>9, LineKept DEF CheckStatus
  <2>3. EvenSplit => Share \in Nat
    BY <2>1, EvenParts
  <2> QED
    BY <1>9, <2>1, <2>2, <2>3, SMTT(15) DEF CheckStatus, Goto, Report
<1>10. ASSUME NEW t \in Searchers, AfterSearch(t) PROVE EvenInv'
  <2>1. c2_main = "search" /\ line_no > 0
    BY <1>10, InSearch DEF AfterSearch
  <2>2. /\ Line' = Line /\ Share' = Share /\ (EvenSplit' <=> EvenSplit)
        /\ \A u, n : Nth(u, n)' = Nth(u, n)
    BY <1>10, LineKept DEF AfterSearch
  <2>3. EvenSplit => Share \in Nat
    BY <2>1, EvenParts
  <2> QED
    BY <1>10, <2>1, <2>2, <2>3 DEF AfterSearch, Goto
<1>11. ASSUME NEW t \in Searchers, ReportFailure(t) PROVE EvenInv'
  <2>1. c2_main = "search" /\ line_no > 0
    BY <1>11, InSearch DEF ReportFailure
  <2>2. /\ Line' = Line /\ Share' = Share /\ (EvenSplit' <=> EvenSplit)
        /\ \A u, n : Nth(u, n)' = Nth(u, n)
    BY <1>11, LineKept DEF ReportFailure
  <2>3. EvenSplit => Share \in Nat
    BY <2>1, EvenParts
  <2> QED
    BY <1>11, <2>1, <2>2, <2>3 DEF ReportFailure, Goto, Report
<1>12. CASE UNCHANGED c2_vars
  <2>1. /\ Line' = Line /\ Share' = Share /\ (EvenSplit' <=> EvenSplit)
        /\ \A u, n : Nth(u, n)' = Nth(u, n)
    BY <1>12, LineKept DEF c2_vars
  <2> QED
    BY <1>12, <2>1 DEF c2_vars
<1> QED
  BY <1>1, <1>2, <1>3, <1>4, <1>5, <1>6, <1>7, <1>8, <1>9, <1>10, <1>11, <1>12 DEF C2Next, C2MainStep, crack_password

LEMMA SearchersFinite ==
  /\ IsFiniteSet(Searchers) /\ Cardinality(Searchers) = NumThreads
  /\ IsFiniteSet(Reporters) /\ Cardinality(Reporters) \in Nat
<1>1. IsFiniteSet(Searchers) /\ Cardinality(Searchers) = NumThreads
  BY FS_Interval, Cracker2Assumption DEF Searchers
<1>2. Reporters \subseteq Searchers
  BY DEF Reporters
<1> QED
  BY <1>1, <1>2, FS_Subset, FS_CardinalityType

LEMMA HashedStep == C2Types /\ SidesInv /\ ReportInv /\ EvenInv /\ HashedInv /\ [C2Next]_c2_vars => HashedInv'
<1> SUFFICES ASSUME C2Types, SidesInv, ReportInv, EvenInv, HashedInv, [C2Next]_c2_vars PROVE HashedInv'
  OBVIOUS
<1> USE DEF HashedInv
<1>1. CASE C2Start
  BY <1>1 DEF C2Start, Searching
<1>2. CASE ReadPassword
  BY <1>2 DEF ReadPassword, Searching
<1>3. CASE PrintSummary
  BY <1>3 DEF PrintSummary, Searching
<1>4. CASE JoinSearchers
  BY <1>4 DEF JoinSearchers, Searching
<1>5. CASE pthread_barrier_wait
  <2>1. Share' = Share /\ (EvenSplit' <=> EvenSplit)
    BY <1>5, LineKept DEF pthread_barrier_wait
  <2>2. Reporters' = Reporters /\ UNCHANGED <<hashed, status2>>
    BY <1>5 DEF pthread_barrier_wait, Reporters
  <2>3. CASE c2_main = "gate"
    <3>1. Reporters = {} /\ hashed = 0 /\ line_no > 0
      BY <2>3 DEF SidesInv, Reporters
    <3>2. EvenSplit => Share \in Nat
      BY <3>1, EvenParts
    <3> QED
      BY <2>1, <2>2, <3>1, <3>2, FS_EmptySet
  <2>4. CASE c2_main = "search"
    BY <2>1, <2>2, <2>4 DEF Searching
  <2>5. CASE c2_main = "quit"
    BY <1>5, <2>5 DEF pthread_barrier_wait, AtBarrier, MainGoesTo, Searching
  <2> QED
    BY <1>5, <2>3, <2>4, <2>5 DEF pthread_barrier_wait, AtBarrier
<1>6. ASSUME NEW t \in Searchers, BeginSearch(t) PROVE HashedInv'
  <2>1. Share' = Share /\ (EvenSplit' <=> EvenSplit)
    BY <1>6, LineKept DEF BeginSearch
  <2>2. Reporters' = Reporters
    BY <1>6 DEF BeginSearch, Reporters
  <2> QED
    BY <1>6, <2>1, <2>2 DEF BeginSearch, Searching
<1>7. ASSUME NEW t \in Searchers, TestPassword(t) PROVE HashedInv'
  <2>1. Share' = Share /\ (EvenSplit' <=> EvenSplit)
    BY <1>7, LineKept DEF TestPassword
  <2>2. Reporters' = Reporters
    BY <1>7 DEF TestPassword, Reporters
  <2> QED
    BY <1>7, <2>1, <2>2 DEF TestPassword, Searching
<1>8. ASSUME NEW t \in Searchers, FoundPassword(t) PROVE HashedInv'
  BY <1>8 DEF FoundPassword
<1>9. ASSUME NEW t \in Searchers, CheckStatus(t) PROVE HashedInv'
  <2>1. CASE status2 = 1
    BY <1>9, <2>1 DEF CheckStatus
  <2>2. CASE status2 = 0
    <3>1. Share' = Share /\ (EvenSplit' <=> EvenSplit)
      BY <1>9, LineKept DEF CheckStatus
    <3>2. Reporters' = Reporters /\ hashed' = hashed /\ UNCHANGED <<status2, c2_main>>
      BY <1>9, <2>2 DEF CheckStatus, Reporters
    <3> QED
      BY <3>1, <3>2 DEF Searching
  <2> QED
    BY <1>9, <2>1, <2>2 DEF CheckStatus, C2Types
<1>10. ASSUME NEW t \in Searchers, AfterSearch(t) PROVE HashedInv'
  <2>1. Share' = Share /\ (EvenSplit' <=> EvenSplit)
    BY <1>10, LineKept DEF AfterSearch
  <2>2. Reporters' = Reporters
    BY <1>10 DEF AfterSearch, Reporters
  <2> QED
    BY <1>10, <2>1, <2>2 DEF AfterSearch, Searching
<1>11. ASSUME NEW t \in Searchers, ReportFailure(t) PROVE HashedInv'
  <2>1. c2_main = "search" /\ line_no > 0
    BY <1>11, InSearch DEF ReportFailure
  <2>2. Share' = Share /\ (EvenSplit' <=> EvenSplit) /\ UNCHANGED <<status2, c2_main>>
    BY <1>11, LineKept DEF ReportFailure
  <2> SUFFICES ASSUME EvenSplit, status2 = 0
               PROVE  hashed' = Share * Cardinality(Reporters')
    BY <2>2
  <2>3. Share \in Nat /\ c2_i[t] = Share /\ reported[t] = 0
    BY <1>11, <2>1, EvenParts DEF ReportFailure, EvenInv, ReportInv, Searching
  <2>4. hashed' = hashed + Share /\ Reporters' = Reporters \cup {t} /\ t \notin Reporters
    BY <1>11, <2>3 DEF ReportFailure, Report, Reporters, C2Types
  <2>5. IsFiniteSet(Reporters) /\ Cardinality(Reporters) \in Nat
    BY SearchersFinite
  <2>6. Cardinality(Reporters') = Cardinality(Reporters) + 1
    BY <2>4, <2>5, FS_AddElement
  <2>7. hashed = Share * Cardinality(Reporters)
    BY <2>1 DEF Searching
  <2> QED
    BY <2>3, <2>4, <2>5, <2>6, <2>7
<1>12. CASE UNCHANGED c2_vars
  <2>1. Share' = Share /\ (EvenSplit' <=> EvenSplit)
    BY <1>12, LineKept DEF c2_vars
  <2>2. Reporters' = Reporters
    BY <1>12 DEF c2_vars, Reporters
  <2> QED
    BY <1>12, <2>1, <2>2 DEF c2_vars, Searching
<1> QED
  BY <1>1, <1>2, <1>3, <1>4, <1>5, <1>6, <1>7, <1>8, <1>9, <1>10, <1>11, <1>12 DEF C2Next, C2MainStep, crack_password

C2Inv == C2Types /\ SidesInv /\ ReportInv /\ EvenInv /\ HashedInv

LEMMA C2Invariance == C2Spec => []C2Inv
<1>1. C2Init => C2Inv
  <2>1. C2Init => ~Searching
    BY DEF C2Init, Searching
  <2> QED
    BY <2>1, C2InitInv DEF C2Inv, ReportInv, EvenInv, HashedInv
<1>2. C2Inv /\ [C2Next]_c2_vars => C2Inv'
  BY C2TypesStep, SidesStep, ReportStep, EvenStep, HashedStep DEF C2Inv
<1> QED
  BY <1>1, <1>2, PTL DEF C2Spec

\* Main and the threads of cracker2 are always on the same side of the barrier,
\* so tinfo is not written while a thread may read it, for any number of threads
\* and lines (cracker2.c:41, 87, 116, 117).
THEOREM SidesCorrect == C2Spec => []SidesOfBarrier
<1>1. C2Inv => SidesOfBarrier
  BY DEF C2Inv, SidesInv
<1> QED
  BY <1>1, C2Invariance, PTL

\* What cracker2's summary says is true of its line, for any number of threads
\* and any input: a password reported as found is the right one, and if none was
\* found every thread has reported once and, when the parts were of one length,
\* every password has been tried (cracker2.c:52-83, 119).
THEOREM SummaryCorrect == C2Spec => []SummaryTrue
<1>1. C2Inv => SummaryTrue
  <2> SUFFICES ASSUME C2Inv, c2_main = "summary"
               PROVE  /\ \A t \in Searchers : c2_pc[t] = "gate" /\ reported[t] <= 1
                      /\ status2 = 1 => result2 = Line.target /\ \E t \in Searchers : reported[t] = 1
                      /\ status2 = 0 =>
                           /\ \A t \in Searchers : reported[t] = 1
                           /\ EvenSplit => Line.target >= Line.total /\ hashed = Line.total
    BY DEF SummaryTrue
  <2>1. Searching /\ line_no > 0
    BY DEF Searching, C2Inv, SidesInv
  <2>2. \A t \in Searchers : c2_pc[t] = "gate"
    BY DEF C2Inv, SidesInv, SidesOfBarrier
  <2>3. /\ \A t \in Searchers : reported[t] <= 1
        /\ status2 = 1 => result2 = Line.target /\ \E t \in Searchers : reported[t] = 1
        /\ status2 = 0 => \A t \in Searchers : reported[t] = 1
    BY <2>1, <2>2 DEF C2Inv, ReportInv
  <2>4. ASSUME status2 = 0, EvenSplit PROVE Line.target >= Line.total /\ hashed = Line.total
    <3>1. /\ Share \in Nat \ {0} /\ Line.total = Share * NumThreads
          /\ \A x \in 0 .. Line.total - 1 :
               \E t \in Searchers, n \in 0 .. Share - 1 : x = Nth(t, n)
      BY <2>1, <2>4, EvenParts DEF C2Inv
    <3>2. Reporters = Searchers
      BY <2>3, <2>4 DEF Reporters
    <3>3. hashed = Line.total
      BY <2>1, <2>4, <3>1, <3>2, SearchersFinite DEF C2Inv, HashedInv
    <3>4. \A t \in Searchers, n \in 0 .. Share - 1 : Nth(t, n) # Line.target
      BY <2>1, <2>2, <2>4 DEF C2Inv, EvenInv
    <3>5. Line.total \in Nat /\ Line.target \in Nat
      BY <2>1, LineType DEF C2Inv
    <3> QED
      BY <3>1, <3>3, <3>4, <3>5
  <2> QED
    BY <2>2, <2>3, <2>4
<1> QED
  BY <1>1, C2Invariance, PTL

-----------------------------------------------------------------------------
(* mapreduce.c *)

Children == Processes \ {Parent}
PipeEnds == Pipes \X {"r", "w"}

LEMMA NamesDiffer ==
  /\ Parent \in Processes /\ Reducer \in Children /\ ReducerPipe \in Pipes
  /\ \A i \in Parts : /\ Splitter(i) \in Children /\ Mapper(i) \in Children /\ File(i) \in Pipes
                      /\ Splitter(i) # Reducer /\ Mapper(i) # Reducer /\ File(i) # ReducerPipe
                      /\ Splitter(i) # Parent /\ Mapper(i) # Parent
  /\ \A i, j \in Parts : /\ Splitter(i) # Mapper(j)
                         /\ Splitter(i) = Splitter(j) => i = j
                         /\ Mapper(i) = Mapper(j) => i = j
                         /\ File(i) = File(j) => i = j
  /\ \A p \in Children : p = Reducer \/ \E i \in Parts : p = Splitter(i) \/ p = Mapper(i)
  /\ Reducer # Parent
BY DEF Children, Processes, Parent, Reducer, Splitter, Mapper, File, ReducerPipe, Pipes

LEMMA CountType == count \in Nat \ {0} /\ ItemsEach \in Nat /\ Parts = 1 .. count
BY MapReduceAssumption DEF Parts

Item == Parts \X Nat

\* What is in the pipes and on its way.
FlowTypes ==
  /\ content \in [Pipes -> Seq(Item)] /\ carried \in [Parts -> Seq(Item)]
  /\ written \in [Parts -> Nat]

MRTypes ==
  /\ FlowTypes
  /\ mr_pc \in {"start", "split", "map", "reduce", "wait split", "wait map", "wait reduce",
                "end", "gave up"}
  /\ mr_i \in Parts
  /\ life \in [Children -> {"unborn", "exec", "runs", "exited"}]
  /\ ends \in [Processes -> SUBSET PipeEnds]

\* Who has been forked, and who has been waited for, at each place of the parent.
Born(p) == life[p] # "unborn"
LifeInv ==
  /\ mr_pc = "start" => (\A p \in Children : ~Born(p)) /\ \A i \in Parts : ~(i < mr_i)
  /\ mr_pc = "split" => \A i \in Parts : (Born(Splitter(i)) => i < mr_i) /\ ~Born(Mapper(i))
  /\ mr_pc = "split" => \A i \in Parts : i < mr_i => Born(Splitter(i))
  /\ mr_pc \notin {"start", "split", "gave up"} => \A i \in Parts : Born(Splitter(i))
  /\ mr_pc = "map" => \A i \in Parts : Born(Mapper(i)) <=> i < mr_i
  /\ mr_pc \notin {"start", "split", "map", "gave up"} => \A i \in Parts : Born(Mapper(i))
  /\ mr_pc \in {"split", "map", "reduce"} => ~Born(Reducer)
  /\ mr_pc \notin {"start", "split", "map", "reduce", "gave up"} => Born(Reducer)
  /\ mr_pc = "wait split" => \A i \in Parts : i < mr_i => life[Splitter(i)] = "exited"
  /\ mr_pc \in {"wait map", "wait reduce", "end"} =>
       \A i \in Parts : life[Splitter(i)] = "exited"
  /\ mr_pc = "wait map" => \A i \in Parts : i < mr_i => life[Mapper(i)] = "exited"
  /\ mr_pc \in {"wait reduce", "end"} => \A i \in Parts : life[Mapper(i)] = "exited"
  /\ mr_pc = "end" => life[Reducer] = "exited"
  /\ mr_pc = "reduce" => \A i \in Parts : ~(i < mr_i)
  /\ mr_pc = "gave up" => ~OnlySplittersFailed

\* Which ends stay open: the parent's while it has children to fork, and each
\* child's own.
Active(p) == life[p] \in {"exec", "runs"}
EndsInv ==
  /\ mr_pc \in {"split", "map", "reduce"} => {<<ReducerPipe, "r">>, <<ReducerPipe, "w">>} \subseteq ends[Parent]
  /\ mr_pc \in {"split", "map", "reduce", "wait split"} =>
       \A i \in Parts : <<File(i), "r">> \in ends[Parent]
  /\ mr_pc = "split" => \A i \in Parts : <<File(i), "w">> \in ends[Parent]
  /\ \A i \in Parts : Active(Splitter(i)) => <<File(i), "w">> \in ends[Splitter(i)]
  /\ \A i \in Parts : Active(Mapper(i)) => <<ReducerPipe, "w">> \in ends[Mapper(i)]
  /\ Active(Reducer) => <<ReducerPipe, "r">> \in ends[Reducer]

\* What has become of the items of a process that has exited, if only
\* splitters failed.
ExitInv ==
  OnlySplittersFailed =>
    /\ \A i \in Parts :
         /\ life[Splitter(i)] \in {"unborn", "exec"} => written[i] = 0
         /\ written[i] <= ItemsEach
         /\ life[Splitter(i)] = "exited" =>
              written[i] = IF Splitter(i) \in failed THEN 0 ELSE ItemsEach
         /\ Splitter(i) \in failed => life[Splitter(i)] = "exited"
         /\ life[Mapper(i)] = "exited" =>
              life[Splitter(i)] = "exited" /\ content[File(i)] = <<>> /\ carried[i] = <<>>
    /\ life[Reducer] = "exited" =>
         /\ \A i \in Parts : life[Mapper(i)] = "exited"
         /\ content[ReducerPipe] = <<>> /\ output = gathered

Members(s) == {s[k] : k \in 1 .. Len(s)}

\* Where an item is on its way.
Somewhere(x) ==
  \/ x \in gathered \/ x \in Members(content[ReducerPipe])
  \/ \E i \in Parts : x \in Members(carried[i]) \/ x \in Members(content[File(i)])
Sent(x) == \E i \in Parts : \E k \in 1 .. written[i] : x = <<i, k>>

\* Every item that was written is somewhere, and nothing else is.
ItemsInv == \A x : Somewhere(x) <=> Sent(x)

MRInv == MRTypes /\ LifeInv /\ EndsInv /\ ExitInv /\ ItemsInv

LEMMA MembersOf ==
  ASSUME NEW S, NEW s \in Seq(S)
  PROVE  /\ \A x \in S : Members(Append(s, x)) = Members(s) \cup {x}
         /\ s # <<>> => Members(s) = {Head(s)} \cup Members(Tail(s))
         /\ \A r \in Seq(S) : Members(s \o r) = Members(s) \cup Members(r)
         /\ Members(<<>>) = {} /\ \A x : Members(<<x>>) = {x}
<1>1. ASSUME NEW x \in S PROVE Members(Append(s, x)) = Members(s) \cup {x}
  BY DEF Members
<1>2. ASSUME s # <<>> PROVE Members(s) = {Head(s)} \cup Members(Tail(s))
  <2>1. Len(s) \in Nat /\ Len(s) > 0 /\ Tail(s) \in Seq(S) /\ Len(Tail(s)) = Len(s) - 1 /\ Head(s) = s[1]
        /\ \A k \in 1 .. Len(s) - 1 : Tail(s)[k] = s[k + 1]
    BY <1>2
  <2>2. \A k \in 1 .. Len(s) : k = 1 \/ (k - 1 \in 1 .. Len(s) - 1 /\ s[k] = Tail(s)[k - 1])
    BY <2>1
  <2>3. \A k \in 1 .. Len(s) - 1 : k + 1 \in 1 .. Len(s)
    BY <2>1
  <2>4. ASSUME NEW x PROVE x \in Members(s) <=> x \in {Head(s)} \cup Members(Tail(s))
    BY <2>1, <2>2, <2>3 DEF Members
  <2> QED
    BY <2>4
<1>3. ASSUME NEW r \in Seq(S) PROVE Members(s \o r) = Members(s) \cup Members(r)
  <2>1. /\ Len(s) \in Nat /\ Len(r) \in Nat /\ Len(s \o r) = Len(s) + Len(r)
        /\ \A i \in 1 .. Len(s) + Len(r) :
             (s \o r)[i] = IF i <= Len(s) THEN s[i] ELSE r[i - Len(s)]
    BY ConcatProperties
  <2>2. \A k \in 1 .. Len(r) : k + Len(s) \in 1 .. Len(s) + Len(r) /\ (s \o r)[k + Len(s)] = r[k]
    BY <2>1
  <2>3. \A i \in 1 .. Len(s) + Len(r) : i <= Len(s) \/ i - Len(s) \in 1 .. Len(r)
    BY <2>1
  <2>4. \A k \in 1 .. Len(s) : k \in 1 .. Len(s) + Len(r)
    BY <2>1
  <2>5. Members(s \o r) \subseteq Members(s) \cup Members(r)
    BY <2>1, <2>3 DEF Members
  <2>6. Members(s) \subseteq Members(s \o r) /\ Members(r) \subseteq Members(s \o r)
    <3>1. \A k \in 1 .. Len(s) : s[k] \in Members(s \o r)
      BY <2>1, <2>4 DEF Members
    <3>2. \A k \in 1 .. Len(r) : r[k] \in Members(s \o r)
      BY <2>1, <2>2 DEF Members
    <3> QED
      BY <3>1, <3>2 DEF Members
  <2> QED
    BY <2>5, <2>6
<1>4. Members(<<>>) = {} /\ \A x : Members(<<x>>) = {x}
  BY DEF Members
<1> QED
  BY <1>1, <1>2, <1>3, <1>4

LEMMA MRInitInv == MRInit => MRInv
<1> SUFFICES ASSUME MRInit PROVE MRInv
  OBVIOUS
<1> USE NamesDiffer, CountType DEF MRInit
<1>1. MRTypes
  BY DEF MRTypes, FlowTypes, Children, Item
<1>2. LifeInv /\ EndsInv
  BY DEF LifeInv, EndsInv, Born, Active, Children
<1>3. ExitInv
  BY DEF ExitInv, Children
<1>4. ItemsInv
  BY DEF ItemsInv, Somewhere, Sent, Members
<1> QED
  BY <1>1, <1>2, <1>3, <1>4 DEF MRInv

\* What a step of child p does to the processes.
ByChild(p) ==
  /\ UNCHANGED <<mr_pc, mr_i>> /\ failed \subseteq failed' /\ Active(p)
  /\ \/ UNCHANGED <<life, ends>>
     \/ life' = [life EXCEPT ![p] = "runs"] /\ UNCHANGED ends
     \/ life' = [life EXCEPT ![p] = "exited"] /\ ends' = [ends EXCEPT ![p] = {}]

LEMMA ChildSteps ==
  ASSUME NEW p \in Children, ChildStep(p) PROVE ByChild(p)
<1>1. CASE execl(p)
  BY <1>1 DEF execl, Exit, ByChild, Active
<1>2. ASSUME NEW i \in Parts, p = Splitter(i), SplitterStep(i) PROVE ByChild(p)
  <2>1. life[p] = "runs"
    BY <1>2 DEF SplitterStep
  <2>2. UNCHANGED <<mr_pc, mr_i, failed>> /\ (UNCHANGED <<life, ends>> \/ Exit(p))
    BY <1>2, Zenon DEF SplitterStep, Broken
  <2> QED
    BY <2>1, <2>2 DEF Exit, ByChild, Active
<1>3. ASSUME NEW i \in Parts, p = Mapper(i), MapperStep(i) PROVE ByChild(p)
  <2>1. life[p] = "runs"
    BY <1>3 DEF MapperStep
  <2>2. UNCHANGED <<mr_pc, mr_i, failed>> /\ (UNCHANGED <<life, ends>> \/ Exit(p))
    BY <1>3, Zenon DEF MapperStep, Broken
  <2> QED
    BY <2>1, <2>2 DEF Exit, ByChild, Active
<1>4. CASE p = Reducer /\ ReducerStep
  <2>1. life[p] = "runs"
    BY <1>4 DEF ReducerStep
  <2>2. UNCHANGED <<mr_pc, mr_i, failed>> /\ (UNCHANGED <<life, ends>> \/ Exit(p))
    BY <1>4, Zenon DEF ReducerStep
  <2> QED
    BY <2>1, <2>2 DEF Exit, ByChild, Active
<1> QED
  BY <1>1, <1>2, <1>3, <1>4 DEF ChildStep

LEMMA ChildEffect ==
  ASSUME MRTypes, NEW p \in Children, ByChild(p)
  PROVE  /\ life' \in [Children -> {"unborn", "exec", "runs", "exited"}]
         /\ ends' \in [Processes -> SUBSET PipeEnds] /\ ends'[Parent] = ends[Parent]
         /\ \A c \in Children : /\ Born(c)' <=> Born(c)
                                /\ life[c] = "exited" => life'[c] = "exited"
                                /\ Active(c)' => Active(c) /\ ends'[c] = ends[c]
<1>1. p \in Processes /\ p # Parent
  BY DEF Children
<1>2. Parent \in Processes /\ \A c \in Children : c \in Processes
  BY NamesDiffer DEF Children
<1> QED
  BY <1>1, <1>2 DEF ByChild, MRTypes, Born, Active

\* What the parent's loops do.
LEMMA LoopEffect ==
  ASSUME NEW next, mr_i \in Parts, Loop(next)
  PROVE  /\ mr_i' \in Parts
         /\ \/ /\ mr_pc' = mr_pc /\ \A i \in Parts : (i < mr_i' <=> i < mr_i \/ i = mr_i)
            \/ /\ mr_pc' = next /\ \A i \in Parts : (i < mr_i \/ i = mr_i) /\ ~(i < mr_i')
BY CountType DEF Loop

LEMMA LifeStep == MRTypes /\ LifeInv /\ [MRNext]_mr_vars => LifeInv'
<1> SUFFICES ASSUME MRTypes, LifeInv, [MRNext]_mr_vars PROVE LifeInv'
  OBVIOUS
<1>0. mr_i \in Parts /\ life \in [Children -> {"unborn", "exec", "runs", "exited"}]
  BY DEF MRTypes
<1>1. CASE MRStart
  <2>1. mr_pc = "start" /\ mr_pc' = "split" /\ UNCHANGED <<mr_i, life>>
    BY <1>1 DEF MRStart
  <2>2. /\ \A i \in Parts : ~(i < mr_i) /\ ~Born(Splitter(i)) /\ ~Born(Mapper(i))
        /\ ~Born(Reducer)
    BY <2>1, NamesDiffer DEF LifeInv
  <2>3. (\A c : Born(c)' <=> Born(c))
    BY <2>1 DEF Born
  <2> QED
    BY <2>1, <2>2, <2>3 DEF LifeInv
<1>2. CASE ForkSplitter
  <2>1. \A c \in Children : life'[c] = IF c = Splitter(mr_i) THEN "exec" ELSE life[c]
    BY <1>0, <1>2 DEF ForkSplitter, Fork
  <2>2. mr_pc = "split" /\ Loop("map")
    BY <1>2 DEF ForkSplitter
  <2>3. \A i \in Parts : /\ Born(Splitter(i))' <=> Born(Splitter(i)) \/ i = mr_i
                         /\ Born(Mapper(i))' <=> Born(Mapper(i))
    BY <1>0, <2>1, NamesDiffer DEF Born
  <2>4. Born(Reducer)' <=> Born(Reducer)
    BY <1>0, <2>1, NamesDiffer DEF Born
  <2>11. /\ mr_i' \in Parts
         /\ \/ mr_pc' = mr_pc /\ \A i \in Parts : (i < mr_i' <=> i < mr_i \/ i = mr_i)
            \/ mr_pc' = "map" /\ \A i \in Parts : (i < mr_i \/ i = mr_i) /\ ~(i < mr_i')
    BY <1>0, <2>2, LoopEffect
  <2>12. CASE mr_pc' = "split"
    <3>1. \A i \in Parts : (i < mr_i' <=> i < mr_i \/ i = mr_i)
      BY <2>2, <2>11, <2>12
    <3> QED
      BY <2>2, <2>3, <2>4, <2>12, <3>1 DEF LifeInv
  <2>13. CASE mr_pc' = "map"
    <3>1. \A i \in Parts : (i < mr_i \/ i = mr_i) /\ ~(i < mr_i')
      BY <2>2, <2>11, <2>13
    <3> QED
      BY <2>2, <2>3, <2>4, <2>13, <3>1 DEF LifeInv
  <2> QED
    BY <2>2, <2>11, <2>12, <2>13
<1>3. CASE ForkMapper
  <2>1. CASE mr_pc' = "gave up" /\ failed' = failed \cup {Mapper(mr_i)}
    <3>1. \A i \in Parts : Splitter(i) # Mapper(mr_i)
      BY <1>0, NamesDiffer
    <3>2. ~OnlySplittersFailed'
      BY <2>1, <3>1 DEF OnlySplittersFailed
    <3> QED
      BY <2>1, <3>2 DEF LifeInv
  <2>2. CASE Fork(Mapper(mr_i), AfterCloseFile, {<<ReducerPipe, "r">>}) /\ Loop("reduce")
    <3>1. \A c \in Children : life'[c] = IF c = Mapper(mr_i) THEN "exec" ELSE life[c]
      BY <1>0, <2>2 DEF Fork
    <3>2. mr_pc = "map"
      BY <1>3 DEF ForkMapper
    <3>3. \A i \in Parts : /\ Born(Mapper(i))' <=> Born(Mapper(i)) \/ i = mr_i
                           /\ Born(Splitter(i))' <=> Born(Splitter(i))
      BY <1>0, <3>1, NamesDiffer DEF Born
    <3>4. Born(Reducer)' <=> Born(Reducer)
      BY <1>0, <3>1, NamesDiffer DEF Born
    <3>11. /\ mr_i' \in Parts
           /\ \/ mr_pc' = mr_pc /\ \A i \in Parts : (i < mr_i' <=> i < mr_i \/ i = mr_i)
              \/ mr_pc' = "reduce" /\ \A i \in Parts : (i < mr_i \/ i = mr_i) /\ ~(i < mr_i')
      BY <1>0, <2>2, <3>2, LoopEffect
    <3>12. CASE mr_pc' = "map"
      <4>1. \A i \in Parts : (i < mr_i' <=> i < mr_i \/ i = mr_i)
        BY <2>2, <3>2, <3>11, <3>12
      <4> QED
        BY <3>2, <3>3, <3>4, <3>12, <4>1 DEF LifeInv
    <3>13. CASE mr_pc' = "reduce"
      <4>1. \A i \in Parts : (i < mr_i \/ i = mr_i) /\ ~(i < mr_i')
        BY <2>2, <3>2, <3>11, <3>13
      <4> QED
        BY <3>2, <3>3, <3>4, <3>13, <4>1 DEF LifeInv
    <3> QED
      BY <2>2, <3>2, <3>11, <3>12, <3>13
  <2> QED
    BY <1>3, <2>1, <2>2 DEF ForkMapper
<1>4. CASE ForkReducer
  <2>1. \A c \in Children : life'[c] = IF c = Reducer THEN "exec" ELSE life[c]
    BY <1>0, <1>4 DEF ForkReducer
  <2>2. mr_pc = "reduce" /\ mr_pc' = "wait split" /\ mr_i' = mr_i
    BY <1>4 DEF ForkReducer
  <2>3. \A i \in Parts : /\ Born(Mapper(i))' <=> Born(Mapper(i))
                         /\ Born(Splitter(i))' <=> Born(Splitter(i))
    BY <1>0, <2>1, NamesDiffer DEF Born
  <2>4. Born(Reducer)'
    BY <1>0, <2>1, NamesDiffer DEF Born
  <2>5. \A i \in Parts : ~(i < mr_i)
    BY <2>2 DEF LifeInv
  <2> QED
    BY <2>2, <2>3, <2>4, <2>5 DEF LifeInv
<1>5. CASE WaitSplitter
  <2>1. /\ mr_pc = "wait split" /\ life[Splitter(mr_i)] = "exited" /\ Loop("wait map")
        /\ life' = life /\ failed' = failed
    BY <1>5 DEF WaitSplitter
  <2>2. \A c : Born(c)' <=> Born(c)
    BY <2>1 DEF Born
  <2>11. /\ mr_i' \in Parts
         /\ \/ mr_pc' = mr_pc /\ \A i \in Parts : (i < mr_i' <=> i < mr_i \/ i = mr_i)
            \/ mr_pc' = "wait map" /\ \A i \in Parts : (i < mr_i \/ i = mr_i) /\ ~(i < mr_i')
    BY <1>0, <2>1, LoopEffect
  <2>12. CASE mr_pc' = "wait split"
    <3>1. \A i \in Parts : (i < mr_i' <=> i < mr_i \/ i = mr_i)
      BY <2>1, <2>11, <2>12
    <3> QED
      BY <2>1, <2>2, <2>12, <3>1 DEF LifeInv
  <2>13. CASE mr_pc' = "wait map"
    <3>1. \A i \in Parts : (i < mr_i \/ i = mr_i) /\ ~(i < mr_i')
      BY <2>1, <2>11, <2>13
    <3> QED
      BY <2>1, <2>2, <2>13, <3>1 DEF LifeInv
  <2> QED
    BY <2>1, <2>11, <2>12, <2>13
<1>6. CASE CloseFile
  BY <1>6 DEF CloseFile, LifeInv, Born
<1>7. CASE WaitMapper
  <2>1. /\ mr_pc = "wait map" /\ life[Mapper(mr_i)] = "exited" /\ Loop("wait reduce")
        /\ life' = life /\ failed' = failed
    BY <1>7 DEF WaitMapper
  <2>2. \A c : Born(c)' <=> Born(c)
    BY <2>1 DEF Born
  <2>11. /\ mr_i' \in Parts
         /\ \/ mr_pc' = mr_pc /\ \A i \in Parts : (i < mr_i' <=> i < mr_i \/ i = mr_i)
            \/ mr_pc' = "wait reduce" /\ \A i \in Parts : (i < mr_i \/ i = mr_i) /\ ~(i < mr_i')
    BY <1>0, <2>1, LoopEffect
  <2>12. CASE mr_pc' = "wait map"
    <3>1. \A i \in Parts : (i < mr_i' <=> i < mr_i \/ i = mr_i)
      BY <2>1, <2>11, <2>12
    <3> QED
      BY <2>1, <2>2, <2>12, <3>1 DEF LifeInv
  <2>13. CASE mr_pc' = "wait reduce"
    <3>1. \A i \in Parts : (i < mr_i \/ i = mr_i) /\ ~(i < mr_i')
      BY <2>1, <2>11, <2>13
    <3> QED
      BY <2>1, <2>2, <2>13, <3>1 DEF LifeInv
  <2> QED
    BY <2>1, <2>11, <2>12, <2>13
<1>8. CASE WaitReducer
  BY <1>8 DEF WaitReducer, ReducerAwaited, LifeInv, Born
<1>9. ASSUME NEW p \in Children, ChildStep(p) PROVE LifeInv'
  <2>1. ByChild(p)
    BY <1>9, ChildSteps
  <2>2. \A c \in Children : (Born(c)' <=> Born(c)) /\ (life[c] = "exited" => life'[c] = "exited")
    BY <2>1, ChildEffect
  <2>3. UNCHANGED <<mr_pc, mr_i>> /\ (OnlySplittersFailed' => OnlySplittersFailed)
    BY <2>1 DEF ByChild, OnlySplittersFailed
  <2> QED
    BY <2>2, <2>3, NamesDiffer DEF LifeInv
<1>10. CASE UNCHANGED mr_vars
  BY <1>10 DEF mr_vars, LifeInv, Born, OnlySplittersFailed
<1> QED
  BY <1>1, <1>2, <1>3, <1>4, <1>5, <1>6, <1>7, <1>8, <1>9, <1>10
  DEF MRNext, ParentStep, Children

\* The steps that move an item, and the other steps of the children.
WriteItem(i) ==
  /\ life[Splitter(i)] = "runs" /\ written[i] < ItemsEach
  /\ content' = [content EXCEPT ![File(i)] = Append(content[File(i)], <<i, written[i] + 1>>)]
  /\ written' = [written EXCEPT ![i] = written[i] + 1]
  /\ UNCHANGED <<life, carried, gathered, output, failed>>
TakeItem(i) ==
  /\ life[Mapper(i)] = "runs" /\ carried[i] = <<>> /\ content[File(i)] # <<>>
  /\ carried' = [carried EXCEPT ![i] = <<Head(content[File(i)])>>]
  /\ content' = [content EXCEPT ![File(i)] = Tail(content[File(i)])]
  /\ UNCHANGED <<life, written, gathered, output, failed>>
PassItem(i) ==
  /\ life[Mapper(i)] = "runs"
  /\ content' = [content EXCEPT ![ReducerPipe] = content[ReducerPipe] \o carried[i]]
  /\ carried' = [carried EXCEPT ![i] = <<>>]
  /\ UNCHANGED <<life, written, gathered, output, failed>>
GatherItem ==
  /\ life[Reducer] = "runs" /\ content[ReducerPipe] # <<>>
  /\ gathered' = gathered \cup {Head(content[ReducerPipe])}
  /\ content' = [content EXCEPT ![ReducerPipe] = Tail(content[ReducerPipe])]
  /\ UNCHANGED <<life, written, carried, output, failed>>
Exits(p) ==
  /\ life[p] = "runs" /\ life' = [life EXCEPT ![p] = "exited"]
  /\ UNCHANGED <<content, written, carried, gathered, failed>>
Execs(p) ==
  /\ life[p] = "exec" /\ UNCHANGED <<content, written, carried, gathered, output>>
  /\ \/ life' = [life EXCEPT ![p] = "runs"] /\ failed' = failed
     \/ life' = [life EXCEPT ![p] = "exited"] /\ failed' = failed \cup {p}

LEMMA DataCases ==
  ASSUME NEW p \in Children, ChildStep(p)
  PROVE  \/ Execs(p)
         \/ \E i \in Parts :
              /\ p = Splitter(i)
              /\ \/ WriteItem(i)
                 \/ /\ Exits(p) /\ UNCHANGED output
                    /\ written[i] = ItemsEach \/ ~Held(File(i), "r")
         \/ \E i \in Parts :
              /\ p = Mapper(i)
              /\ \/ TakeItem(i) \/ PassItem(i)
                 \/ /\ Exits(p) /\ UNCHANGED output
                    /\ \/ ~Held(ReducerPipe, "r")
                       \/ carried[i] = <<>> /\ content[File(i)] = <<>> /\ ~Held(File(i), "w")
         \/ /\ p = Reducer
            /\ \/ GatherItem
               \/ /\ Exits(p) /\ output' = gathered /\ content[ReducerPipe] = <<>>
                  /\ ~Held(ReducerPipe, "w")
<1>1. CASE execl(p)
  BY <1>1, Zenon DEF execl, Exit, Execs, data
<1>2. ASSUME NEW i \in Parts, p = Splitter(i), SplitterStep(i)
      PROVE  \/ WriteItem(i)
             \/ /\ Exits(p) /\ UNCHANGED output
                /\ written[i] = ItemsEach \/ ~Held(File(i), "r")
  BY <1>2, Zenon DEF SplitterStep, WriteItem, Exits, Exit, Broken, data
<1>3. ASSUME NEW i \in Parts, p = Mapper(i), MapperStep(i)
      PROVE  \/ TakeItem(i) \/ PassItem(i)
             \/ /\ Exits(p) /\ UNCHANGED output
                /\ \/ ~Held(ReducerPipe, "r")
                   \/ carried[i] = <<>> /\ content[File(i)] = <<>> /\ ~Held(File(i), "w")
  BY <1>3, Zenon DEF MapperStep, TakeItem, PassItem, Exits, Exit, Broken, data
<1>4. ASSUME p = Reducer, ReducerStep
      PROVE  \/ GatherItem
             \/ /\ Exits(p) /\ output' = gathered /\ content[ReducerPipe] = <<>>
                /\ ~Held(ReducerPipe, "w")
  BY <1>4, Zenon DEF ReducerStep, GatherItem, Exits, Exit
<1> QED
  BY <1>1, <1>2, <1>3, <1>4, Zenon DEF ChildStep

LEMMA ParentKeepsData ==
  ASSUME MRStart \/ ParentStep
  PROVE  UNCHANGED <<content, written, carried, gathered, output>>
BY Zenon DEF MRStart, ParentStep, ForkSplitter, ForkMapper, ForkReducer, WaitSplitter, CloseFile,
       WaitMapper, WaitReducer, data

LEMMA FlowStep == FlowTypes /\ [MRNext]_mr_vars => FlowTypes'
<1> SUFFICES ASSUME FlowTypes, [MRNext]_mr_vars PROVE FlowTypes'
  OBVIOUS
<1> USE NamesDiffer DEF FlowTypes
<1>1. CASE UNCHANGED <<content, written, carried>>
  BY <1>1
<1>2. ASSUME NEW i \in Parts, WriteItem(i) PROVE FlowTypes'
  <2>1. <<i, written[i] + 1>> \in Item /\ written[i] + 1 \in Nat
    BY DEF Item
  <2>2. Append(content[File(i)], <<i, written[i] + 1>>) \in Seq(Item)
    BY <2>1
  <2> QED
    BY <1>2, <2>1, <2>2 DEF WriteItem
<1>3. ASSUME NEW i \in Parts, TakeItem(i) PROVE FlowTypes'
  <2>1. <<Head(content[File(i)])>> \in Seq(Item) /\ Tail(content[File(i)]) \in Seq(Item)
    BY <1>3 DEF TakeItem
  <2> QED
    BY <1>3, <2>1 DEF TakeItem
<1>4. ASSUME NEW i \in Parts, PassItem(i) PROVE FlowTypes'
  <2>1. content[ReducerPipe] \o carried[i] \in Seq(Item) /\ <<>> \in Seq(Item)
    BY ConcatProperties
  <2> QED
    BY <1>4, <2>1 DEF PassItem
<1>5. CASE GatherItem
  <2>1. Tail(content[ReducerPipe]) \in Seq(Item)
    BY <1>5 DEF GatherItem
  <2> QED
    BY <1>5, <2>1 DEF GatherItem
<1>6. ASSUME NEW p \in Children, ChildStep(p) PROVE FlowTypes'
  BY <1>1, <1>2, <1>3, <1>4, <1>5, <1>6, DataCases, Zenon DEF Execs, Exits
<1>7. CASE MRStart \/ ParentStep
  BY <1>1, <1>7, ParentKeepsData
<1>8. CASE UNCHANGED mr_vars
  BY <1>1, <1>8 DEF mr_vars
<1> QED
  BY <1>6, <1>7, <1>8 DEF MRNext, Children

LEMMA MRTypesStep == MRTypes /\ [MRNext]_mr_vars => MRTypes'
<1> SUFFICES ASSUME MRTypes, [MRNext]_mr_vars PROVE MRTypes'
  OBVIOUS
<1> USE DEF MRTypes
<1>0. FlowTypes'
  BY FlowStep
<1>1. CASE MRStart
  <2>1. Pipes \X {"r", "w"} \in SUBSET PipeEnds
    BY DEF PipeEnds
  <2> QED
    BY <1>0, <1>1, <2>1 DEF MRStart
<1>2. ASSUME NEW c \in Children, NEW kept \in SUBSET PipeEnds, NEW closed, Fork(c, kept, closed)
      PROVE  /\ life' \in [Children -> {"unborn", "exec", "runs", "exited"}]
             /\ ends' \in [Processes -> SUBSET PipeEnds]
  <2>1. c \in Processes /\ kept \ closed \in SUBSET PipeEnds
    BY DEF Children
  <2> QED
    BY <1>2, <2>1 DEF Fork
<1>3. ends[Parent] \in SUBSET PipeEnds /\ AfterCloseFile \in SUBSET PipeEnds
  BY NamesDiffer DEF AfterCloseFile
<1>4. CASE ForkSplitter
  <2>1. Splitter(mr_i) \in Children
    BY NamesDiffer
  <2>2. life' \in [Children -> {"unborn", "exec", "runs", "exited"}] /\ ends' \in [Processes -> SUBSET PipeEnds]
    BY <1>2, <1>3, <1>4, <2>1 DEF ForkSplitter
  <2>3. mr_i' \in Parts /\ mr_pc' \in {"split", "map"}
    BY <1>4, LoopEffect DEF ForkSplitter
  <2> QED
    BY <1>0, <2>2, <2>3
<1>5. CASE ForkMapper
  <2>1. Mapper(mr_i) \in Children
    BY NamesDiffer
  <2>2. CASE Fork(Mapper(mr_i), AfterCloseFile, {<<ReducerPipe, "r">>}) /\ Loop("reduce")
    <3>1. life' \in [Children -> {"unborn", "exec", "runs", "exited"}] /\ ends' \in [Processes -> SUBSET PipeEnds]
      BY <1>2, <1>3, <2>1, <2>2
    <3>2. mr_i' \in Parts /\ mr_pc' \in {"map", "reduce"}
      BY <1>5, <2>2, LoopEffect DEF ForkMapper
    <3> QED
      BY <1>0, <3>1, <3>2
  <2>3. CASE mr_pc' = "gave up" /\ ends' = [ends EXCEPT ![Parent] = {}] /\ UNCHANGED <<mr_i, life>>
    BY <1>0, <2>3
  <2> QED
    BY <1>5, <2>2, <2>3 DEF ForkMapper
<1>6. CASE ForkReducer
  <2>1. Reducer \in Processes
    BY NamesDiffer DEF Children
  <2> QED
    BY <1>0, <1>3, <1>6, <2>1 DEF ForkReducer
<1>7. CASE WaitSplitter
  <2>1. mr_i' \in Parts /\ mr_pc' \in {"wait split", "wait map"} /\ UNCHANGED <<life, ends>>
    BY <1>7, LoopEffect DEF WaitSplitter
  <2> QED
    BY <1>0, <2>1
<1>8. CASE CloseFile
  BY <1>0, <1>3, <1>8 DEF CloseFile
<1>9. CASE WaitMapper
  <2>1. mr_i' \in Parts /\ mr_pc' \in {"wait map", "wait reduce"} /\ UNCHANGED <<life, ends>>
    BY <1>9, LoopEffect DEF WaitMapper
  <2> QED
    BY <1>0, <2>1
<1>10. CASE WaitReducer
  BY <1>0, <1>10 DEF WaitReducer
<1>11. ASSUME NEW p \in Children, ChildStep(p) PROVE MRTypes'
  <2>1. ByChild(p)
    BY <1>11, ChildSteps
  <2> QED
    BY <1>0, <2>1, ChildEffect DEF ByChild
<1>12. CASE UNCHANGED mr_vars
  BY <1>0, <1>12 DEF mr_vars
<1> QED
  BY <1>1, <1>4, <1>5, <1>6, <1>7, <1>8, <1>9, <1>10, <1>11, <1>12 DEF MRNext, ParentStep, Children

LEMMA EndsStep == MRTypes /\ LifeInv /\ EndsInv /\ [MRNext]_mr_vars => EndsInv'
<1> SUFFICES ASSUME MRTypes, LifeInv, EndsInv, [MRNext]_mr_vars PROVE EndsInv'
  OBVIOUS
<1>0. /\ mr_i \in Parts /\ life \in [Children -> {"unborn", "exec", "runs", "exited"}]
      /\ ends \in [Processes -> SUBSET PipeEnds]
  BY DEF MRTypes
<1>1. CASE MRStart
  <2>1. ends'[Parent] = Pipes \X {"r", "w"}
    BY <1>0, <1>1, NamesDiffer DEF MRStart
  <2>2. /\ {<<ReducerPipe, "r">>, <<ReducerPipe, "w">>} \subseteq ends'[Parent]
        /\ \A i \in Parts : <<File(i), "r">> \in ends'[Parent] /\ <<File(i), "w">> \in ends'[Parent]
    BY <2>1, NamesDiffer
  <2>3. \A c \in Children : ~Active(c)'
    BY <1>1 DEF MRStart, LifeInv, Born, Active
  <2> QED
    BY <2>2, <2>3, NamesDiffer DEF EndsInv
<1>2. ASSUME NEW c \in Children, NEW kept, NEW closed, Fork(c, kept, closed)
      PROVE  /\ Active(c)' /\ ends'[c] = kept \ closed /\ ends'[Parent] = kept
             /\ \A d \in Children : d # c => ends'[d] = ends[d] /\ (Active(d)' <=> Active(d))
  <2>1. c \in Processes /\ c # Parent /\ Parent \in Processes /\ \A d \in Children : d \in Processes /\ d # Parent
    BY NamesDiffer DEF Children
  <2> QED
    BY <1>0, <1>2, <2>1 DEF Fork, Active
<1>3. CASE ForkSplitter
  <2>1. mr_pc = "split" /\ mr_pc' \in {"split", "map"}
    BY <1>0, <1>3, LoopEffect DEF ForkSplitter
  <2>2. Splitter(mr_i) \in Children
    BY <1>0, NamesDiffer
  <2>3. /\ ends'[Splitter(mr_i)] = ends[Parent] \ {<<File(mr_i), "r">>} /\ ends'[Parent] = ends[Parent]
        /\ \A d \in Children : d # Splitter(mr_i) => ends'[d] = ends[d] /\ (Active(d)' <=> Active(d))
    BY <1>2, <1>3, <2>2 DEF ForkSplitter
  <2>4. <<File(mr_i), "w">> \in ends'[Splitter(mr_i)]
    BY <1>0, <2>1, <2>3 DEF EndsInv
  <2> QED
    BY <1>0, <2>1, <2>3, <2>4, NamesDiffer DEF EndsInv
<1>4. CASE ForkMapper
  <2>1. mr_pc = "map" /\ Mapper(mr_i) \in Children
    BY <1>0, <1>4, NamesDiffer DEF ForkMapper
  <2>2. CASE Fork(Mapper(mr_i), AfterCloseFile, {<<ReducerPipe, "r">>}) /\ Loop("reduce")
    <3>1. mr_pc' \in {"map", "reduce"}
      BY <1>0, <2>1, <2>2, LoopEffect
    <3>2. /\ ends'[Mapper(mr_i)] = AfterCloseFile \ {<<ReducerPipe, "r">>} /\ ends'[Parent] = AfterCloseFile
          /\ \A d \in Children : d # Mapper(mr_i) => ends'[d] = ends[d] /\ (Active(d)' <=> Active(d))
      BY <1>2, <2>1, <2>2
    <3>3. /\ {<<ReducerPipe, "r">>, <<ReducerPipe, "w">>} \subseteq AfterCloseFile
          /\ \A i \in Parts : <<File(i), "r">> \in AfterCloseFile
      BY <1>0, <2>1, NamesDiffer DEF AfterCloseFile, EndsInv
    <3>4. <<ReducerPipe, "w">> \in ends'[Mapper(mr_i)]
      BY <3>2, <3>3
    <3> QED
      BY <1>0, <3>1, <3>2, <3>3, <3>4, NamesDiffer DEF EndsInv
  <2>3. CASE mr_pc' = "gave up" /\ ends' = [ends EXCEPT ![Parent] = {}] /\ UNCHANGED <<mr_i, life>>
    <3>1. \A c \in Children : ends'[c] = ends[c] /\ (Active(c)' <=> Active(c))
      BY <1>0, <2>3 DEF Active, Children
    <3> QED
      BY <2>3, <3>1, NamesDiffer DEF EndsInv
  <2> QED
    BY <1>4, <2>2, <2>3 DEF ForkMapper
<1>5. CASE ForkReducer
  <2>1. mr_pc = "reduce" /\ mr_pc' = "wait split"
    BY <1>5 DEF ForkReducer
  <2>2. Reducer \in Processes /\ Reducer # Parent /\ Parent \in Processes
        /\ \A d \in Children : d \in Processes /\ d # Parent
    BY NamesDiffer DEF Children
  <2>3. /\ ends'[Reducer] = ends[Parent] \ {<<ReducerPipe, "w">>}
        /\ ends'[Parent] = (ends[Parent] \ {<<ReducerPipe, "w">>}) \ {<<ReducerPipe, "r">>}
        /\ \A d \in Children : d # Reducer => ends'[d] = ends[d] /\ (Active(d)' <=> Active(d))
    BY <1>0, <1>5, <2>2 DEF ForkReducer, Active
  <2>4. <<ReducerPipe, "r">> \in ends'[Reducer] /\ \A i \in Parts : <<File(i), "r">> \in ends'[Parent]
    BY <2>1, <2>3, NamesDiffer DEF EndsInv
  <2> QED
    BY <2>1, <2>3, <2>4, NamesDiffer DEF EndsInv
<1>6. CASE WaitSplitter
  <2>1. mr_pc' \in {"wait split", "wait map"} /\ mr_pc = "wait split" /\ UNCHANGED <<life, ends>>
    BY <1>0, <1>6, LoopEffect DEF WaitSplitter
  <2> QED
    BY <2>1 DEF EndsInv, Active
<1>7. CASE CloseFile
  <2>1. mr_pc' = "wait map" /\ life' = life /\ \A c \in Children : ends'[c] = ends[c]
    BY <1>0, <1>7 DEF CloseFile, Children
  <2> QED
    BY <2>1, NamesDiffer DEF EndsInv, Active
<1>8. CASE WaitMapper
  <2>1. mr_pc' \in {"wait map", "wait reduce"} /\ UNCHANGED <<life, ends>>
    BY <1>0, <1>8, LoopEffect DEF WaitMapper
  <2> QED
    BY <2>1 DEF EndsInv, Active
<1>9. CASE WaitReducer
  BY <1>9 DEF WaitReducer, EndsInv, Active
<1>10. ASSUME NEW p \in Children, ChildStep(p) PROVE EndsInv'
  <2>1. ByChild(p)
    BY <1>10, ChildSteps
  <2>2. ends'[Parent] = ends[Parent] /\ \A c \in Children : Active(c)' => Active(c) /\ ends'[c] = ends[c]
    BY <2>1, ChildEffect
  <2>3. UNCHANGED mr_pc
    BY <2>1 DEF ByChild
  <2> QED
    BY <2>2, <2>3, NamesDiffer DEF EndsInv
<1>11. CASE UNCHANGED mr_vars
  BY <1>11 DEF mr_vars, EndsInv, Active
<1> QED
  BY <1>1, <1>3, <1>4, <1>5, <1>6, <1>7, <1>8, <1>9, <1>10, <1>11 DEF MRNext, ParentStep, Children

\* What a step of the parent does to its children.
LEMMA ParentForks ==
  ASSUME MRTypes, LifeInv, MRStart \/ ParentStep
  PROVE  \/ UNCHANGED <<life, failed>>
         \/ \E c \in Children : /\ life[c] = "unborn" /\ UNCHANGED failed
                                /\ life' = [life EXCEPT ![c] = "exec"]
         \/ ~OnlySplittersFailed'
<1>0. mr_i \in Parts
  BY DEF MRTypes
<1>1. CASE ForkSplitter
  <2>1. mr_pc = "split" /\ ~(mr_i < mr_i) /\ Splitter(mr_i) \in Children
    BY <1>0, <1>1, CountType, NamesDiffer DEF ForkSplitter
  <2>2. life[Splitter(mr_i)] = "unborn"
    BY <1>0, <2>1 DEF LifeInv, Born
  <2> QED
    BY <1>1, <2>1, <2>2, Zenon DEF ForkSplitter, Fork
<1>2. CASE ForkMapper
  <2>1. mr_pc = "map" /\ ~(mr_i < mr_i) /\ Mapper(mr_i) \in Children
    <3>1. mr_pc = "map"
      BY <1>2 DEF ForkMapper
    <3> QED
      BY <1>0, <3>1, CountType, NamesDiffer
  <2>2. life[Mapper(mr_i)] = "unborn"
    BY <1>0, <2>1 DEF LifeInv, Born
  <2>3. CASE failed' = failed \cup {Mapper(mr_i)}
    BY <1>0, <2>3, NamesDiffer DEF OnlySplittersFailed
  <2> QED
    BY <1>2, <2>1, <2>2, <2>3, Zenon DEF ForkMapper, Fork
<1>3. CASE ForkReducer
  <2>1. life[Reducer] = "unborn"
    BY <1>3 DEF ForkReducer, LifeInv, Born
  <2> QED
    BY <1>3, <2>1, NamesDiffer, Zenon DEF ForkReducer
<1>4. CASE MRStart \/ WaitSplitter \/ CloseFile \/ WaitMapper \/ WaitReducer
  BY <1>4, Zenon DEF MRStart, WaitSplitter, CloseFile, WaitMapper, WaitReducer
<1> QED
  BY <1>1, <1>2, <1>3, <1>4 DEF ParentStep

\* What the code's opening and closing of pipe ends is for: a writer never
\* finds its pipe without a reader, and a reader whose pipe has no writer left
\* can tell that its writers are done.
LEMMA PipesStayOpen ==
  ASSUME MRTypes, LifeInv, EndsInv, ExitInv, OnlySplittersFailed
  PROVE  /\ \A i \in Parts : Active(Splitter(i)) => Held(File(i), "r")
         /\ \A i \in Parts : Active(Mapper(i)) => Held(ReducerPipe, "r")
         /\ \A i \in Parts : Active(Mapper(i)) /\ ~Held(File(i), "w") => life[Splitter(i)] = "exited"
         /\ \A i \in Parts : Active(Reducer) /\ ~Held(ReducerPipe, "w") => life[Mapper(i)] = "exited"
<1>0. life \in [Children -> {"unborn", "exec", "runs", "exited"}] /\ mr_pc # "gave up"
  BY DEF MRTypes, LifeInv
<1>1. \A c \in Children : Active(c) \/ life[c] = "exited" \/ ~Born(c)
  BY <1>0 DEF Active, Born
<1>2. \A c \in Children : Active(c) => Born(c) /\ life[c] # "exited"
  BY <1>0 DEF Active, Born
<1>3. \A p \in Processes : \A e : e \in ends[p] => (\E z \in Processes : e \in ends[z])
  OBVIOUS
<1>4. mr_pc \in {"start", "split", "map", "reduce", "wait split", "wait map", "wait reduce", "end"}
  BY <1>0 DEF MRTypes
<1>5. Parent \in Processes /\ Reducer \in Processes
      /\ \A i \in Parts : Splitter(i) \in Processes /\ Mapper(i) \in Processes
  BY NamesDiffer DEF Children
<1>6. ASSUME NEW i \in Parts, Active(Splitter(i)) PROVE Held(File(i), "r")
  <2>1. Born(Splitter(i)) /\ life[Splitter(i)] # "exited"
    BY <1>2, <1>6, NamesDiffer
  <2>2. mr_pc \in {"split", "map", "reduce", "wait split"}
    BY <1>4, <2>1, NamesDiffer DEF LifeInv
  <2> QED
    BY <1>5, <2>2 DEF Held, EndsInv
<1>7. ASSUME NEW i \in Parts, Active(Mapper(i)) PROVE Held(ReducerPipe, "r")
  <2>1. Born(Mapper(i)) /\ life[Mapper(i)] # "exited"
    BY <1>2, <1>7, NamesDiffer
  <2>2. mr_pc \notin {"start", "split"}
    BY <2>1, NamesDiffer DEF LifeInv
  <2>3. CASE mr_pc \in {"map", "reduce"}
    BY <1>5, <2>3 DEF Held, EndsInv
  <2>4. CASE mr_pc \notin {"map", "reduce"}
    <3>1. Born(Reducer)
      BY <1>4, <2>2, <2>4 DEF LifeInv
    <3>2. life[Reducer] # "exited"
      BY <2>1 DEF ExitInv
    <3>3. Active(Reducer)
      BY <1>1, <3>1, <3>2, NamesDiffer
    <3> QED
      BY <1>5, <3>3 DEF Held, EndsInv
  <2> QED
    BY <2>3, <2>4
<1>8. ASSUME NEW i \in Parts, Active(Mapper(i)), ~Held(File(i), "w") PROVE life[Splitter(i)] = "exited"
  <2>1. mr_pc \notin {"start", "split"}
    BY <1>2, <1>8, NamesDiffer DEF LifeInv
  <2>2. Born(Splitter(i))
    BY <1>4, <2>1 DEF LifeInv
  <2>3. ~Active(Splitter(i))
    BY <1>5, <1>8 DEF Held, EndsInv
  <2> QED
    BY <1>1, <2>2, <2>3, NamesDiffer
<1>9. ASSUME NEW i \in Parts, Active(Reducer), ~Held(ReducerPipe, "w") PROVE life[Mapper(i)] = "exited"
  <2>1. mr_pc \notin {"start", "split", "map", "reduce"}
    BY <1>2, <1>9, NamesDiffer DEF LifeInv
  <2>2. Born(Mapper(i))
    BY <1>4, <2>1 DEF LifeInv
  <2>3. ~Active(Mapper(i))
    BY <1>5, <1>9 DEF Held, EndsInv
  <2> QED
    BY <1>1, <2>2, <2>3, NamesDiffer
<1> QED
  BY <1>6, <1>7, <1>8, <1>9

LEMMA ExitStep ==
  MRTypes /\ LifeInv /\ EndsInv /\ ExitInv /\ [MRNext]_mr_vars => ExitInv'
<1> SUFFICES ASSUME MRTypes, LifeInv, EndsInv, ExitInv, [MRNext]_mr_vars, OnlySplittersFailed'
             PROVE  ExitInv'
  BY DEF ExitInv
<1>0. /\ life \in [Children -> {"unborn", "exec", "runs", "exited"}]
      /\ content \in [Pipes -> Seq(Item)] /\ carried \in [Parts -> Seq(Item)] /\ written \in [Parts -> Nat]
  BY DEF MRTypes, FlowTypes
<1>1. CASE MRStart \/ ParentStep
  <2>1. OnlySplittersFailed /\ UNCHANGED <<content, written, carried, gathered, output>>
    <3>1. UNCHANGED failed
      BY <1>1, ParentForks
    <3> QED
      BY <1>1, <3>1, ParentKeepsData DEF OnlySplittersFailed
  <2>2. CASE UNCHANGED <<life, failed>>
    BY <2>1, <2>2 DEF ExitInv
  <2>3. ASSUME NEW c \in Children, life[c] = "unborn", UNCHANGED failed, life' = [life EXCEPT ![c] = "exec"]
        PROVE  ExitInv'
    <3>1. \A d \in Children : life'[d] = IF d = c THEN "exec" ELSE life[d]
      BY <1>0, <2>3
    <3> QED
      BY <2>1, <2>3, <3>1, NamesDiffer DEF ExitInv
  <2> QED
    BY <1>1, <2>2, <2>3, ParentForks
<1>2. ASSUME NEW p \in Children, ChildStep(p) PROVE ExitInv'
  <2>1. OnlySplittersFailed
    BY <1>2, ChildSteps DEF ByChild, OnlySplittersFailed
  <2>2. CASE Execs(p)
    <3>1. CASE life' = [life EXCEPT ![p] = "runs"] /\ failed' = failed
      <4>1. \A d \in Children : life'[d] = IF d = p THEN "runs" ELSE life[d]
        BY <1>0, <3>1
      <4> QED
        BY <2>1, <2>2, <3>1, <4>1, NamesDiffer DEF ExitInv, Execs
    <3>2. CASE life' = [life EXCEPT ![p] = "exited"] /\ failed' = failed \cup {p}
      <4>1. \A d \in Children : life'[d] = IF d = p THEN "exited" ELSE life[d]
        BY <1>0, <3>2
      <4>2. PICK i \in Parts : p = Splitter(i)
        BY <3>2 DEF OnlySplittersFailed
      <4>3. written[i] = 0
        BY <2>1, <2>2, <4>2 DEF ExitInv, Execs
      <4> QED
        BY <2>1, <2>2, <3>2, <4>1, <4>2, <4>3, NamesDiffer, CountType DEF ExitInv, Execs
    <3> QED
      BY <2>2, <3>1, <3>2 DEF Execs
  <2>3. ASSUME NEW i \in Parts, p = Splitter(i), WriteItem(i) PROVE ExitInv'
    <3>1. /\ written'[i] = written[i] + 1 /\ written[i] \in Nat /\ written[i] < ItemsEach
          /\ \A j \in Parts : j # i => written'[j] = written[j]
          /\ \A o \in Pipes : o # File(i) => content'[o] = content[o]
      BY <1>0, <2>3, NamesDiffer DEF WriteItem
    <3>2. written'[i] <= ItemsEach
      BY <3>1, CountType
    <3> QED
      BY <2>1, <2>3, <3>1, <3>2, NamesDiffer DEF ExitInv, WriteItem
  <2>4. ASSUME NEW i \in Parts, p = Mapper(i), TakeItem(i) PROVE ExitInv'
    <3>1. /\ \A j \in Parts : j # i => carried'[j] = carried[j]
          /\ \A o \in Pipes : o # File(i) => content'[o] = content[o]
      BY <1>0, <2>4, NamesDiffer DEF TakeItem
    <3> QED
      BY <2>1, <2>4, <3>1, NamesDiffer DEF ExitInv, TakeItem
  <2>5. ASSUME NEW i \in Parts, p = Mapper(i), PassItem(i) PROVE ExitInv'
    <3>1. /\ \A j \in Parts : j # i => carried'[j] = carried[j]
          /\ \A o \in Pipes : o # ReducerPipe => content'[o] = content[o]
      BY <1>0, <2>5, NamesDiffer DEF PassItem
    <3> QED
      BY <2>1, <2>5, <3>1, NamesDiffer DEF ExitInv, PassItem
  <2>6. CASE p = Reducer /\ GatherItem
    <3>1. \A o \in Pipes : o # ReducerPipe => content'[o] = content[o]
      BY <1>0, <2>6, NamesDiffer DEF GatherItem
    <3> QED
      BY <2>1, <2>6, <3>1, NamesDiffer DEF ExitInv, GatherItem
  <2>7. ASSUME Exits(p) PROVE /\ \A d \in Children : life'[d] = IF d = p THEN "exited" ELSE life[d]
                              /\ UNCHANGED <<content, written, carried, gathered, failed>> /\ Active(p)
    BY <1>0, <2>7 DEF Exits, Active
  <2>8. ASSUME NEW i \in Parts, p = Splitter(i), Exits(p), UNCHANGED output,
               written[i] = ItemsEach \/ ~Held(File(i), "r")
        PROVE  ExitInv'
    <3>1. written[i] = ItemsEach /\ p \notin failed
      BY <2>1, <2>7, <2>8, PipesStayOpen DEF ExitInv, Exits
    <3> QED
      BY <2>1, <2>7, <2>8, <3>1, NamesDiffer DEF ExitInv
  <2>9. ASSUME NEW i \in Parts, p = Mapper(i), Exits(p), UNCHANGED output,
               \/ ~Held(ReducerPipe, "r")
               \/ carried[i] = <<>> /\ content[File(i)] = <<>> /\ ~Held(File(i), "w")
        PROVE  ExitInv'
    <3>1. carried[i] = <<>> /\ content[File(i)] = <<>> /\ life[Splitter(i)] = "exited"
      BY <2>1, <2>7, <2>9, PipesStayOpen
    <3> QED
      BY <2>1, <2>7, <2>9, <3>1, NamesDiffer DEF ExitInv
  <2>10. ASSUME p = Reducer, Exits(p), output' = gathered, content[ReducerPipe] = <<>>,
                ~Held(ReducerPipe, "w")
         PROVE  ExitInv'
    <3>1. \A i \in Parts : life[Mapper(i)] = "exited"
      BY <2>1, <2>7, <2>10, PipesStayOpen
    <3> QED
      BY <2>1, <2>7, <2>10, <3>1, NamesDiffer DEF ExitInv
  <2> QED
    BY <1>2, <2>2, <2>3, <2>4, <2>5, <2>6, <2>8, <2>9, <2>10, DataCases
<1>3. CASE UNCHANGED mr_vars
  BY <1>3 DEF mr_vars, ExitInv, OnlySplittersFailed
<1> QED
  BY <1>1, <1>2, <1>3 DEF MRNext, Children

LEMMA ItemsStep == FlowTypes /\ ItemsInv /\ [MRNext]_mr_vars => ItemsInv'
<1> SUFFICES ASSUME FlowTypes, ItemsInv, [MRNext]_mr_vars PROVE ItemsInv'
  OBVIOUS
<1>0. content \in [Pipes -> Seq(Item)] /\ carried \in [Parts -> Seq(Item)] /\ written \in [Parts -> Nat]
  BY DEF FlowTypes
<1>1. CASE UNCHANGED <<content, written, carried, gathered>>
  BY <1>1 DEF ItemsInv, Somewhere, Sent
<1>2. ASSUME NEW i \in Parts, WriteItem(i) PROVE ItemsInv'
  <2> DEFINE new == <<i, written[i] + 1>>
  <2>1. new \in Item
    BY <1>0 DEF Item
  <2>2. Members(content'[File(i)]) = Members(content[File(i)]) \cup {new}
    <3>1. content'[File(i)] = Append(content[File(i)], new) /\ content[File(i)] \in Seq(Item)
      BY <1>0, <1>2, NamesDiffer DEF WriteItem
    <3> QED
      BY <2>1, <3>1, MembersOf
  <2>3. \A o \in Pipes : o # File(i) => content'[o] = content[o]
    BY <1>0, <1>2 DEF WriteItem
  <2>4. ASSUME NEW x PROVE Somewhere(x)' <=> Somewhere(x) \/ x = new
    BY <1>2, <2>2, <2>3, NamesDiffer DEF Somewhere, WriteItem
  <2>5. ASSUME NEW x PROVE Sent(x)' <=> Sent(x) \/ x = new
    <3>1. written'[i] = written[i] + 1 /\ \A j \in Parts : j # i => written'[j] = written[j]
      BY <1>0, <1>2 DEF WriteItem
    <3>2. written[i] \in Nat
      BY <1>0
    <3>3. \A k : k \in 1 .. written'[i] <=> k \in 1 .. written[i] \/ k = written[i] + 1
      BY <3>1, <3>2
    <3> QED
      BY <3>1, <3>3 DEF Sent
  <2> QED
    BY <2>4, <2>5 DEF ItemsInv
<1>3. ASSUME NEW i \in Parts, TakeItem(i) PROVE ItemsInv'
  <2>1. Members(content[File(i)]) = {Head(content[File(i)])} \cup Members(content'[File(i)])
    <3>1. content'[File(i)] = Tail(content[File(i)]) /\ content[File(i)] \in Seq(Item) /\ content[File(i)] # <<>>
      BY <1>0, <1>3, NamesDiffer DEF TakeItem
    <3> QED
      BY <3>1, MembersOf
  <2>2. Members(carried[i]) = {} /\ Members(carried'[i]) = {Head(content[File(i)])}
    <3>1. carried[i] = <<>> /\ carried'[i] = <<Head(content[File(i)])>>
      BY <1>0, <1>3 DEF TakeItem
    <3> QED
      BY <3>1, MembersOf, <1>0
  <2>3. /\ \A o \in Pipes : o # File(i) => content'[o] = content[o]
        /\ \A j \in Parts : j # i => carried'[j] = carried[j]
    BY <1>0, <1>3 DEF TakeItem
  <2>4. ASSUME NEW x PROVE Somewhere(x)' <=> Somewhere(x)
    BY <1>3, <2>1, <2>2, <2>3, NamesDiffer DEF Somewhere, TakeItem
  <2> QED
    BY <1>3, <2>4 DEF ItemsInv, Sent, TakeItem
<1>4. ASSUME NEW i \in Parts, PassItem(i) PROVE ItemsInv'
  <2>1. Members(content'[ReducerPipe]) = Members(content[ReducerPipe]) \cup Members(carried[i])
    <3>1. content'[ReducerPipe] = content[ReducerPipe] \o carried[i]
          /\ content[ReducerPipe] \in Seq(Item) /\ carried[i] \in Seq(Item)
      BY <1>0, <1>4, NamesDiffer DEF PassItem
    <3> QED
      BY <3>1, MembersOf
  <2>2. Members(carried'[i]) = {}
    <3>1. carried'[i] = <<>>
      BY <1>0, <1>4 DEF PassItem
    <3> QED
      BY <3>1, MembersOf, <1>0
  <2>3. /\ \A o \in Pipes : o # ReducerPipe => content'[o] = content[o]
        /\ \A j \in Parts : j # i => carried'[j] = carried[j]
    BY <1>0, <1>4 DEF PassItem
  <2>4. ASSUME NEW x PROVE Somewhere(x)' <=> Somewhere(x)
    BY <1>4, <2>1, <2>2, <2>3, NamesDiffer DEF Somewhere, PassItem
  <2> QED
    BY <1>4, <2>4 DEF ItemsInv, Sent, PassItem
<1>5. CASE GatherItem
  <2>1. Members(content[ReducerPipe]) = {Head(content[ReducerPipe])} \cup Members(content'[ReducerPipe])
    <3>1. /\ content'[ReducerPipe] = Tail(content[ReducerPipe])
          /\ content[ReducerPipe] \in Seq(Item) /\ content[ReducerPipe] # <<>>
      BY <1>0, <1>5, NamesDiffer DEF GatherItem
    <3> QED
      BY <3>1, MembersOf
  <2>2. \A o \in Pipes : o # ReducerPipe => content'[o] = content[o]
    BY <1>0, <1>5 DEF GatherItem
  <2>3. gathered' = gathered \cup {Head(content[ReducerPipe])} /\ carried' = carried
    BY <1>5 DEF GatherItem
  <2>4. ASSUME NEW x PROVE Somewhere(x)' <=> Somewhere(x)
    BY <2>1, <2>2, <2>3, NamesDiffer DEF Somewhere
  <2> QED
    BY <1>5, <2>4 DEF ItemsInv, Sent, GatherItem
<1>6. ASSUME NEW p \in Children, ChildStep(p) PROVE ItemsInv'
  BY <1>1, <1>2, <1>3, <1>4, <1>5, <1>6, DataCases, Zenon DEF Execs, Exits
<1>7. CASE MRStart \/ ParentStep
  BY <1>1, <1>7, ParentKeepsData
<1>8. CASE UNCHANGED mr_vars
  BY <1>1, <1>8 DEF mr_vars
<1> QED
  BY <1>6, <1>7, <1>8 DEF MRNext, Children

\* When the parent counts the lines of the output, the reducer has written every
\* item of every splitter that ran and every child has been waited for, for any
\* number of splitters and items and any size of a pipe (mapreduce.c:72-86).
THEOREM OutputCorrect == MRSpec => []OutputComplete
<1>1. MRInv /\ [MRNext]_mr_vars => MRInv'
  BY MRTypesStep, LifeStep, EndsStep, ExitStep, ItemsStep DEF MRInv, MRTypes
<1>2. MRInv => OutputComplete
  <2> SUFFICES ASSUME MRInv, mr_pc = "end", OnlySplittersFailed
               PROVE  /\ output = {i \in Parts : Splitter(i) \notin failed} \X (1 .. ItemsEach)
                      /\ \A p \in DOMAIN life : life[p] = "exited"
    BY DEF OutputComplete
  <2>1. /\ life[Reducer] = "exited"
        /\ \A i \in Parts : life[Splitter(i)] = "exited" /\ life[Mapper(i)] = "exited"
    BY DEF MRInv, LifeInv
  <2>2. \A p \in DOMAIN life : life[p] = "exited"
    BY <2>1, NamesDiffer DEF MRInv, MRTypes
  <2>3. /\ content[ReducerPipe] = <<>> /\ output = gathered
        /\ \A i \in Parts : /\ content[File(i)] = <<>> /\ carried[i] = <<>>
                            /\ written[i] = IF Splitter(i) \in failed THEN 0 ELSE ItemsEach
    BY <2>1 DEF MRInv, ExitInv
  <2>4. Members(<<>>) = {}
    BY DEF Members
  <2>5. ASSUME NEW x PROVE x \in output <=> Sent(x)
    BY <2>3, <2>4 DEF MRInv, ItemsInv, Somewhere
  <2>6. ASSUME NEW x PROVE Sent(x) <=> x \in {i \in Parts : Splitter(i) \notin failed} \X (1 .. ItemsEach)
    <3>1. \A k : k \notin 1 .. 0
      OBVIOUS
    <3> QED
      BY <2>3, <3>1 DEF Sent
  <2> QED
    BY <2>2, <2>5, <2>6
<1> QED
  BY <1>1, <1>2, MRInitInv, PTL DEF MRSpec

-----------------------------------------------------------------------------
(* libscheduler.c *)

LEMMA Least ==
  ASSUME NEW T, T \subseteq Nat, T # {}
  PROVE  \E x \in T : \A y \in T : x <= y
<1>1. \E R : IsWellFoundedOn(R, Nat) /\ \A a, b \in Nat : a < b => <<a, b>> \in R
  <2>1. \A a, b \in Nat : a < b => <<a, b>> \in OpToRel(<, Nat)
    BY DEF OpToRel
  <2> QED
    BY <2>1, NatLessThanWellFounded, Zenon
<1>2. PICK R : IsWellFoundedOn(R, Nat) /\ \A a, b \in Nat : a < b => <<a, b>> \in R
  BY <1>1
<1>3. \E x \in T : \A y \in T : ~(<<y, x>> \in R)
  <2>1. IsWellFoundedOn(R, Nat)
   BY <1>2
  <2> QED
   BY <2>1, WFMin, Zenon
<1>4. PICK x \in T : \A y \in T : ~(<<y, x>> \in R)
  BY <1>3
<1>5. \A y \in T : ~(y < x)
  BY <1>2, <1>4
<1>6. \A y \in T : x <= y
  BY <1>5
<1> QED
  BY <1>6


LEMMA OfferType ==
  ASSUME NEW S, NEW m, NEW queue \in Seq(S), NEW j \in S
  PROVE  priqueue_offer(m, queue, j) \in Seq(S) \ {<<>>}
<1> DEFINE P == {k \in DOMAIN queue : Before(m, j, queue[k])} \cup {Len(queue) + 1}
           place == Min(P)
<1>1. P \subseteq 1 .. Len(queue) + 1 /\ Len(queue) \in Nat /\ P # {}
  OBVIOUS
<1>2. P \subseteq Nat
  BY <1>1
<1> HIDE DEF P
<1>3. \E x \in P : \A y \in P : x <= y
  BY <1>1, <1>2, Least
<1>4. place \in 1 .. Len(queue) + 1
  BY <1>1, <1>3 DEF Min
<1>5. priqueue_offer(m, queue, j)
        = SubSeq(queue, 1, place - 1) \o <<j>> \o SubSeq(queue, place, Len(queue))
  BY Zenon DEF priqueue_offer, InsertAt, P
<1> HIDE DEF place
<1>6. /\ SubSeq(queue, 1, place - 1) \in Seq(S) /\ SubSeq(queue, place, Len(queue)) \in Seq(S)
  BY <1>1, <1>4, SubSeqProperties
<1>7. <<j>> \in Seq(S) /\ Len(<<j>>) = 1
  OBVIOUS
<1>8. /\ SubSeq(queue, 1, place - 1) \o <<j>> \in Seq(S)
      /\ Len(SubSeq(queue, 1, place - 1) \o <<j>>) > 0
  BY <1>6, <1>7, ConcatProperties
<1> QED
  BY <1>5, <1>6, <1>8, ConcatProperties

Infos == [arrive : Int, remain : Int, run : Int, require : Nat \ {0}, start : Int, priority : Int]
Rans == [left : Int, first : Int, waited : Int]
Sums == [wait : Int, response : Int, turn : Int]

SchedTypes ==
  /\ \E n \in Nat : info \in [1 .. n -> Infos] /\ ran \in [1 .. n -> Rans]
  /\ pqueue \in Seq(Arrived) /\ time \in Nat /\ finished \subseteq Arrived
  /\ totals \in Sums /\ actual \in Sums
  /\ sched_pc \in {"start", "idle", "run", "expire", "finish", "pick"}
  /\ sched_pc \in {"run", "expire", "finish"} => running \in Arrived /\ pqueue # <<>>
  /\ sched_pc \in {"expire", "finish"} => running \notin finished

\* A quantum of a job's life is one it ran or one it waited.
WaitInv ==
  /\ \A j \in Arrived \ finished :
       ran[j].waited + info[j].require - ran[j].left = time - info[j].arrive
  /\ sched_pc = "finish" => ran[running].left = 0

\* The start noted of a job is its first quantum, once it is past it; a job
\* that began at time 0 may have another noted.
Noted(j) ==
  \/ ran[j].first = -1 /\ info[j].start = -1 /\ ran[j].left = info[j].require
  \/ ran[j].first = 0
  \/ ran[j].first > 0 /\ info[j].start = ran[j].first
JustBegun(j) ==
  /\ ran[j].first = time - 1 /\ ran[j].first > 0 /\ info[j].start = -1
  /\ ran[j].left = info[j].require - 1
StartInv ==
  /\ \A j \in Arrived \ finished :
       Noted(j) \/ (j = running /\ sched_pc \in {"expire", "finish"} /\ JustBegun(j))
  /\ sched_pc \in {"expire", "finish"} => ran[running].first >= 0

SchedInv == SchedTypes /\ WaitInv /\ StartInv /\ TotalsTrue

LEMMA FieldTypes ==
  /\ \A x \in Infos : /\ x.arrive \in Int /\ x.remain \in Int /\ x.run \in Int
                      /\ x.require \in Nat \ {0} /\ x.start \in Int /\ x.priority \in Int
  /\ \A x \in Rans : x.left \in Int /\ x.first \in Int /\ x.waited \in Int
  /\ \A x \in Sums : x.wait \in Int /\ x.response \in Int /\ x.turn \in Int
BY DEF Infos, Rans, Sums

LEMMA ExpiredFields ==
  ASSUME NEW x \in Infos, time \in Nat
  PROVE  /\ Expired(x) \in Infos /\ Expired(x).arrive = x.arrive /\ Expired(x).require = x.require
         /\ Expired(x).start = IF x.start <= 0 THEN time - 1 ELSE x.start
<1> DEFINE z == IF x.start <= 0 THEN time - 1 ELSE x.start
           a == [x EXCEPT !.run = time]
           b == [a EXCEPT !.remain = a.remain - 1]
           c == [b EXCEPT !.start = z]
<1>1. z \in Int
  BY FieldTypes
<1>2. a \in Infos /\ a.arrive = x.arrive /\ a.require = x.require /\ a.start = x.start
  BY DEF Infos
<1>3. Expired(x) = c
  BY DEF Expired, Infos
<1> HIDE DEF a, z
<1>4. b \in Infos /\ b.arrive = x.arrive /\ b.require = x.require
  BY <1>2 DEF Infos
<1> HIDE DEF b
<1>5. c \in Infos /\ c.arrive = x.arrive /\ c.require = x.require /\ c.start = z
  BY <1>1, <1>4 DEF Infos
<1> QED
  BY <1>3, <1>5 DEF z

\* What a quantum does to the job that runs and to one that waits.
LEMMA TickFields ==
  ASSUME NEW x \in Rans, time \in Nat
  PROVE  /\ [x EXCEPT !.left = x.left - 1, !.first = IF x.first < 0 THEN time ELSE x.first]
              \in [left : {x.left - 1}, waited : {x.waited},
                   first : {IF x.first < 0 THEN time ELSE x.first}]
         /\ [x EXCEPT !.waited = x.waited + 1]
              \in [left : {x.left}, waited : {x.waited + 1}, first : {x.first}]
<1> DEFINE z == IF x.first < 0 THEN time ELSE x.first
           a == [x EXCEPT !.left = x.left - 1]
<1>1. a \in [left : {x.left - 1}, waited : {x.waited}, first : {x.first}]
  BY DEF Rans
<1> HIDE DEF a, z
<1>2. [a EXCEPT !.first = z] \in [left : {x.left - 1}, waited : {x.waited}, first : {z}]
  BY <1>1
<1>3. [x EXCEPT !.waited = x.waited + 1]
        \in [left : {x.left}, waited : {x.waited + 1}, first : {x.first}]
  BY DEF Rans
<1> QED
  BY <1>2, <1>3 DEF a, z

LEMMA SchedInitInv == SchedInit => SchedInv
<1> SUFFICES ASSUME SchedInit PROVE SchedInv
  OBVIOUS
<1> USE DEF SchedInit
<1>1. DOMAIN info = {} /\ info \in [1 .. 0 -> Infos] /\ ran \in [1 .. 0 -> Rans]
  OBVIOUS
<1>2. SchedTypes
  BY <1>1 DEF SchedTypes, Arrived, Sums, Zero
<1>3. WaitInv /\ StartInv
  BY <1>1 DEF WaitInv, StartInv, Arrived
<1>4. TotalsTrue
  BY DEF TotalsTrue
<1> QED
  BY <1>2, <1>3, <1>4 DEF SchedInv

LEMMA SchedStep == SchedInv /\ [SchedNext]_sched_vars => SchedInv'
<1> SUFFICES ASSUME SchedInv, [SchedNext]_sched_vars PROVE SchedInv'
  OBVIOUS
<1> USE DEF SchedInv
<1>0. PICK n \in Nat : info \in [1 .. n -> Infos] /\ ran \in [1 .. n -> Rans] /\ Arrived = 1 .. n
  BY DEF SchedTypes, Arrived
<1>1. ASSUME NEW s \in Schemes, scheduler_start_up(s) PROVE SchedInv'
  <2>1. UNCHANGED <<pqueue, info, totals, time, running, ran, history>>
        /\ sched_pc = "start" /\ sched_pc' = "idle"
    BY <1>1, Zenon DEF scheduler_start_up
  <2>2. UNCHANGED <<Arrived, actual, finished, odd>>
    BY <2>1, Zenon DEF history, Arrived
  <2>3. TotalsTrue'
    BY <2>1, <2>2, Zenon DEF TotalsTrue
  <2>4. SchedTypes'
    BY <2>1, <2>2 DEF SchedTypes
  <2>5. WaitInv' /\ StartInv'
    BY <2>1, <2>2 DEF WaitInv, StartInv, Noted
  <2> QED
    BY <2>3, <2>4, <2>5
<1>2. ASSUME NEW j \in 1 .. MaxJobs, NEW l \in RunningTimes, NEW p \in Priorities,
             scheduler_new_job(j, l, p)
      PROVE  SchedInv'
  <2> DEFINE i0 == [arrive |-> time, remain |-> l, run |-> -1, require |-> l, start |-> -1,
                    priority |-> p]
             r0 == [left |-> l, first |-> -1, waited |-> 0]
  <2>1. /\ UNCHANGED <<totals, time, running, actual, finished, odd>>
        /\ sched_pc # "start" /\ j = Cardinality(Arrived) + 1
        /\ info' = [i \in Arrived \cup {j} |-> IF i = j THEN i0 ELSE info[i]]
        /\ ran' = [i \in Arrived \cup {j} |-> IF i = j THEN r0 ELSE ran[i]]
        /\ pqueue' = priqueue_offer(info', pqueue, j)
        /\ sched_pc' = IF sched_pc = "idle" THEN "pick" ELSE sched_pc
    BY <1>2, Zenon DEF scheduler_new_job, history
  <2>2. j = n + 1 /\ Arrived \cup {j} = 1 .. n + 1 /\ j \notin Arrived
    <3>1. Cardinality(1 .. n) = n
      BY FS_Interval
    <3>2. j = n + 1
      BY <1>0, <2>1, <3>1
    <3> QED
      BY <1>0, <3>2
  <2>3. i0 \in Infos /\ r0 \in Rans
    BY SchedulerAssumption DEF Infos, Rans, SchedTypes
  <2> HIDE DEF i0, r0
  <2>4. /\ info' \in [1 .. n + 1 -> Infos] /\ ran' \in [1 .. n + 1 -> Rans]
        /\ Arrived' = Arrived \cup {j}
    BY <1>0, <2>1, <2>2, <2>3 DEF Arrived
  <2>5. pqueue' \in Seq(Arrived') \ {<<>>}
    <3>1. pqueue \in Seq(Arrived') /\ j \in Arrived'
      BY <2>4 DEF SchedTypes
    <3> QED
      BY <2>1, <3>1, OfferType
  <2>6. SchedTypes'
    <3>1. \E k \in Nat : info' \in [1 .. k -> Infos] /\ ran' \in [1 .. k -> Rans]
      BY <2>4
    <3>2. finished' \subseteq Arrived'
      BY <2>1, <2>4 DEF SchedTypes
    <3> QED
      BY <2>1, <2>4, <2>5, <3>1, <3>2 DEF SchedTypes
  <2>7. \A k \in Arrived : k # j /\ info'[k] = info[k] /\ ran'[k] = ran[k]
    BY <2>1, <2>2
  <2>8. info'[j] = i0 /\ ran'[j] = r0
    BY <2>1, <2>2
  <2>9. sched_pc \in {"run", "expire", "finish"} => running \in Arrived /\ sched_pc' = sched_pc
    BY <2>1 DEF SchedTypes
  <2>10. sched_pc' \in {"run", "expire", "finish"} => sched_pc' = sched_pc
    BY <2>1
  <2>11. ran'[j].waited + info'[j].require - ran'[j].left = time' - info'[j].arrive
    BY <2>1, <2>8, SchedulerAssumption DEF i0, r0, SchedTypes
  <2>12. WaitInv'
    <3>1. \A k \in Arrived \ finished :
            ran'[k].waited + info'[k].require - ran'[k].left = time' - info'[k].arrive
      BY <2>1, <2>7 DEF WaitInv
    <3>2. sched_pc' = "finish" => ran'[running'].left = 0
      BY <2>1, <2>7, <2>9, <2>10 DEF WaitInv
    <3> QED
      BY <2>1, <2>4, <2>11, <3>1, <3>2 DEF WaitInv
  <2>13. StartInv'
    <3>1. Noted(j)'
      BY <2>8, SchedulerAssumption DEF Noted, i0, r0
    <3>2. \A k \in Arrived : (Noted(k)' <=> Noted(k)) /\ (JustBegun(k)' <=> JustBegun(k))
      BY <2>1, <2>7 DEF Noted, JustBegun
    <3>3. sched_pc' \in {"expire", "finish"} => ran'[running'].first >= 0
      BY <2>1, <2>7, <2>9, <2>10 DEF StartInv
    <3> QED
      BY <2>1, <2>4, <2>9, <2>10, <3>1, <3>2, <3>3 DEF StartInv
  <2>14. TotalsTrue'
    BY <2>1, Zenon DEF TotalsTrue
  <2> QED
    BY <2>6, <2>12, <2>13, <2>14
<1>3. CASE scheduler_quantum_expired /\ sched_pc = "pick"
  <2>1. /\ running' = Peek(pqueue) /\ sched_pc' = (IF running' = NO_JOB THEN "idle" ELSE "run")
        /\ UNCHANGED <<pqueue, info, totals, time, ran, actual, finished, odd>>
    BY <1>3 DEF scheduler_quantum_expired
  <2>2. Arrived' = Arrived
    BY <2>1 DEF Arrived
  <2>3. sched_pc' = "run" => running' \in Arrived /\ pqueue # <<>>
    BY <2>1 DEF Peek, SchedTypes
  <2>4. SchedTypes'
    BY <2>1, <2>2, <2>3 DEF SchedTypes
  <2>5. WaitInv' /\ StartInv'
    BY <1>3, <2>1, <2>2 DEF WaitInv, StartInv, Noted
  <2>6. TotalsTrue'
    BY <2>1, Zenon DEF TotalsTrue
  <2> QED
    BY <2>4, <2>5, <2>6
<1>4. CASE scheduler_quantum_expired /\ sched_pc = "expire"
  <2>1. /\ sched_pc' = "run" /\ info' = [info EXCEPT ![running] = Expired(info[running])]
        /\ \/ pqueue' = Requeued(info', pqueue) /\ running' = Peek(pqueue')
           \/ UNCHANGED <<pqueue, running>>
        /\ UNCHANGED <<totals, time, ran, actual, finished, odd>>
    BY <1>4 DEF scheduler_quantum_expired
  <2>2. /\ running \in Arrived /\ running \notin finished /\ pqueue \in Seq(Arrived)
        /\ pqueue # <<>> /\ time \in Nat
    BY <1>4 DEF SchedTypes
  <2>3. info[running] \in Infos /\ Expired(info[running]) \in Infos
    <3>1. info[running] \in Infos
      BY <1>0, <2>2
    <3> QED
      BY <2>2, <3>1, ExpiredFields
  <2>4. info' \in [1 .. n -> Infos] /\ Arrived' = Arrived
    BY <1>0, <2>1, <2>2, <2>3 DEF Arrived
  <2>5. pqueue' \in Seq(Arrived) \ {<<>>} /\ running' \in Arrived
    <3>1. Head(pqueue) \in Arrived /\ Tail(pqueue) \in Seq(Arrived)
      BY <2>2
    <3>2. Requeued(info', pqueue) \in Seq(Arrived) \ {<<>>}
      BY <3>1, OfferType DEF Requeued
    <3> QED
      BY <2>1, <2>2, <3>2 DEF Peek
  <2>6. SchedTypes'
    BY <1>0, <2>1, <2>4, <2>5 DEF SchedTypes
  <2>7. \A k \in Arrived :
          /\ info'[k].arrive = info[k].arrive /\ info'[k].require = info[k].require
          /\ k # running => info'[k] = info[k]
    <3> TAKE k \in Arrived
    <3>1. CASE k = running
      <4>1. info'[k] = Expired(info[k])
        BY <1>0, <2>1, <2>2, <3>1
      <4> QED
        BY <2>2, <2>3, <3>1, <4>1, ExpiredFields
    <3>2. CASE k # running
      BY <1>0, <2>1, <2>2, <3>2
    <3> QED
      BY <3>1, <3>2
  <2>8. WaitInv'
    BY <2>1, <2>4, <2>7 DEF WaitInv
  <2>9. ASSUME NEW k \in Arrived, k = running PROVE Noted(k)'
    <3>1. info'[k].start = IF info[k].start <= 0 THEN time - 1 ELSE info[k].start
      <4>1. info'[k] = Expired(info[k]) /\ info[k] \in Infos
        BY <1>0, <2>1, <2>2, <2>9
      <4> QED
        BY <2>2, <4>1, ExpiredFields
    <3>2. ran'[k] = ran[k] /\ ran[k].first \in Int /\ info[k].start \in Int
      BY <1>0, <2>1, <2>2, <2>3, <2>9, FieldTypes
    <3>3. Noted(k) \/ JustBegun(k)
      BY <2>2, <2>9 DEF StartInv
    <3>4. ran[k].first >= 0
      BY <1>4, <2>9 DEF StartInv
    <3> QED
      BY <2>2, <3>1, <3>2, <3>3, <3>4 DEF Noted, JustBegun
  <2>10. StartInv'
    <3>1. \A k \in Arrived : k # running => (Noted(k)' <=> Noted(k))
      BY <2>1, <2>7 DEF Noted
    <3>2. \A k \in Arrived \ finished : Noted(k)'
      BY <2>9, <3>1 DEF StartInv
    <3> QED
      BY <2>1, <2>4, <3>2 DEF StartInv
  <2>11. TotalsTrue'
    BY <2>1, Zenon DEF TotalsTrue
  <2> QED
    BY <2>6, <2>8, <2>10, <2>11
<1>5. CASE scheduler_job_finished
  <2> DEFINE i == info[running]
             r == ran[running]
  <2>1. /\ sched_pc = "finish" /\ sched_pc' = "pick" /\ pqueue' = Tail(pqueue)
        /\ totals' = [wait |-> totals.wait + WaitOf(i), turn |-> totals.turn + time - i.arrive,
                      response |-> totals.response + i.start - i.arrive]
        /\ actual' = [wait |-> actual.wait + r.waited, turn |-> actual.turn + r.waited + i.require,
                      response |-> actual.response + r.first - i.arrive]
        /\ finished' = finished \cup {running}
        /\ UNCHANGED <<info, time, ran>>
    BY <1>5, Zenon DEF scheduler_job_finished
  <2>10. odd' = (odd \/ r.first = 0 \/ i.require = 1)
    BY <1>5, Zenon DEF scheduler_job_finished
  <2>2. /\ running \in Arrived /\ running \notin finished /\ pqueue \in Seq(Arrived)
        /\ pqueue # <<>> /\ time \in Nat /\ totals \in Sums /\ actual \in Sums
    BY <2>1 DEF SchedTypes
  <2>3. i \in Infos /\ r \in Rans /\ Arrived' = Arrived
    BY <1>0, <2>1, <2>2 DEF Arrived
  <2>4. r.waited + i.require = time - i.arrive
    BY <2>1, <2>2, <2>3 DEF WaitInv, Infos, Rans
  <2>5. ~odd' => ~odd /\ i.start = r.first
    <3>1. ~odd' => ~odd /\ r.first # 0 /\ i.require # 1
      BY <2>10, Zenon
    <3>2. Noted(running) \/ JustBegun(running)
      BY <2>2 DEF StartInv
    <3>3. r.left = 0 /\ r.first >= 0
      BY <2>1 DEF WaitInv, StartInv
    <3>4. r.first = 0 \/ i.require = 1 \/ i.start = r.first
      BY <2>3, <3>2, <3>3, FieldTypes DEF Noted, JustBegun
    <3> QED
      BY <3>1, <3>4, Zenon
  <2> HIDE DEF i, r
  <2>6. totals' \in Sums /\ actual' \in Sums
    <3>1. WaitOf(i) \in Int
      BY <2>2, <2>3, FieldTypes DEF WaitOf
    <3>2. /\ totals.wait + WaitOf(i) \in Int /\ totals.turn + time - i.arrive \in Int
          /\ totals.response + i.start - i.arrive \in Int
      BY <2>2, <2>3, <3>1, FieldTypes
    <3>3. /\ actual.wait + r.waited \in Int /\ actual.turn + r.waited + i.require \in Int
          /\ actual.response + r.first - i.arrive \in Int
      BY <2>2, <2>3, FieldTypes
    <3> QED
      BY <2>1, <3>2, <3>3 DEF Sums
  <2>7. SchedTypes'
    <3>1. pqueue' \in Seq(Arrived)
      BY <2>1, <2>2
    <3> QED
      BY <1>0, <2>1, <2>2, <2>3, <2>6, <3>1 DEF SchedTypes
  <2>8. WaitInv' /\ StartInv'
    BY <2>1, <2>3 DEF WaitInv, StartInv, Noted
  <2>9. TotalsTrue'
    <3>1. totals.wait = actual.wait /\ totals.turn = actual.turn
      BY Zenon DEF TotalsTrue
    <3>2. totals'.wait = actual'.wait /\ totals'.turn = actual'.turn
      <4>1. /\ totals'.wait = totals.wait + WaitOf(i) /\ totals'.turn = totals.turn + time - i.arrive
            /\ actual'.wait = actual.wait + r.waited
            /\ actual'.turn = actual.turn + r.waited + i.require
        BY <2>1
      <4>2. /\ i.arrive \in Int /\ i.require \in Int /\ r.waited \in Int
            /\ totals.wait \in Int /\ totals.turn \in Int
        BY <2>2, <2>3, FieldTypes
      <4> QED
        BY <2>2, <2>4, <3>1, <4>1, <4>2 DEF WaitOf
    <3>3. ~odd => totals.response = actual.response
      BY Zenon DEF TotalsTrue
    <3>4. i.start = r.first /\ totals.response = actual.response
          => totals'.response = actual'.response
      BY <2>1, <2>2, <2>3, FieldTypes
    <3> QED
      BY <2>5, <3>2, <3>3, <3>4, Zenon DEF TotalsTrue
  <2> QED
    BY <2>7, <2>8, <2>9
<1>6. CASE Tick
  <2>1. /\ sched_pc = "run" /\ running \notin finished /\ time' = time + 1
        /\ ran' = [j \in Arrived |->
             IF j = running
               THEN [ran[j] EXCEPT !.left = ran[j].left - 1,
                                   !.first = IF ran[j].first < 0 THEN time ELSE ran[j].first]
             ELSE IF j \in finished THEN ran[j]
             ELSE [ran[j] EXCEPT !.waited = ran[j].waited + 1]]
        /\ UNCHANGED <<pqueue, info, totals, running, actual, finished>>
    BY <1>6, Zenon DEF Tick, history
  <2>12. sched_pc' \in {"finish", "expire"} /\ (sched_pc' = "finish" => ran[running].left = 1)
    BY <1>6 DEF Tick
  <2>13. /\ UNCHANGED <<pqueue, info, totals, running, actual, finished>> /\ time' = time + 1
         /\ running \notin finished
    BY <2>1
  <2>2. running \in Arrived /\ pqueue # <<>> /\ time \in Nat
    BY <2>1 DEF SchedTypes
  <2>3. \A j \in Arrived : info[j] \in Infos /\ ran[j] \in Rans
    BY <1>0
  <2>4. \A j \in Arrived : ran'[j] \in Rans
    <3> TAKE j \in Arrived
    <3>1. ran[j] \in Rans
      BY <2>3
    <3> DEFINE x == ran[j]
    <3>2. CASE j = running
      <4>1. ran'[j] \in [left : {x.left - 1}, waited : {x.waited},
                         first : {IF x.first < 0 THEN time ELSE x.first}]
        BY <2>1, <2>2, <3>1, <3>2, TickFields
      <4> QED
        BY <2>2, <3>1, <4>1, FieldTypes DEF Rans
    <3>3. CASE j # running /\ j \notin finished
      <4>1. ran'[j] \in [left : {x.left}, waited : {x.waited + 1}, first : {x.first}]
        BY <2>1, <2>2, <3>1, <3>3, TickFields
      <4> QED
        BY <3>1, <4>1, FieldTypes DEF Rans
    <3>4. CASE j # running /\ j \in finished
      BY <2>1, <3>1, <3>4
    <3> QED
      BY <3>2, <3>3, <3>4
  <2>5. ran' \in [1 .. n -> Rans] /\ Arrived' = Arrived
    BY <1>0, <2>1, <2>4 DEF Arrived
  <2>6. SchedTypes'
    <3>1. \E k \in Nat : info' \in [1 .. k -> Infos] /\ ran' \in [1 .. k -> Rans]
      BY <1>0, <2>5, <2>13
    <3> QED
      BY <2>2, <2>5, <2>12, <2>13, <3>1 DEF SchedTypes
  <2>7. /\ ran'[running].left = ran[running].left - 1
        /\ ran'[running].waited = ran[running].waited
        /\ ran'[running].first = IF ran[running].first < 0 THEN time ELSE ran[running].first
    <3>1. ran[running] \in Rans
      BY <2>2, <2>3
    <3> QED
      BY <2>1, <2>2, <3>1, TickFields
  <2>8. ASSUME NEW j \in Arrived \ finished, j # running
        PROVE  /\ ran'[j].left = ran[j].left /\ ran'[j].first = ran[j].first
               /\ ran'[j].waited = ran[j].waited + 1
    <3>1. ran[j] \in Rans
      BY <2>3
    <3> QED
      BY <2>1, <2>2, <2>8, <3>1, TickFields
  <2>9. WaitInv'
    <3>1. ASSUME NEW j \in Arrived \ finished
          PROVE  ran'[j].waited + info[j].require - ran'[j].left = (time + 1) - info[j].arrive
      <4> DEFINE w == ran[j].waited
                 quantum == info[j].require
                 l == ran[j].left
                 a == info[j].arrive
                 w2 == ran'[j].waited
                 l2 == ran'[j].left
      <4>1. w + quantum - l = time - a
        BY DEF WaitInv
      <4>2. w \in Int /\ quantum \in Int /\ l \in Int /\ a \in Int
        BY <2>3, FieldTypes
      <4>3. (l2 = l - 1 /\ w2 = w) \/ (l2 = l /\ w2 = w + 1)
        BY <2>7, <2>8
      <4> HIDE DEF w, quantum, l, a, w2, l2
      <4>4. w2 + quantum - l2 = (time + 1) - a
        BY <2>2, <4>1, <4>2, <4>3
      <4> QED
        BY <4>4 DEF w, quantum, l, a, w2, l2
    <3>2. sched_pc' = "finish" => ran'[running].left = 0
      BY <2>7, <2>12
    <3>3. /\ Arrived' \ finished' = Arrived \ finished /\ UNCHANGED <<info, running>>
          /\ time' = time + 1
      BY <2>5, <2>13
    <3> QED
      BY <3>1, <3>2, <3>3, Zenon DEF WaitInv
  <2>10. StartInv'
    <3>1. \A j \in Arrived \ finished : Noted(j)
      BY <2>1 DEF StartInv
    <3>2. \A j \in Arrived \ finished : j # running => Noted(j)'
      BY <2>1, <2>8, <3>1 DEF Noted
    <3>3. Noted(running)' \/ JustBegun(running)'
      <4>1. Noted(running)
        BY <2>1, <2>2, <3>1
      <4>2. /\ ran[running].first \in Int /\ ran[running].left \in Int
            /\ info[running].require \in Int /\ info[running].start \in Int
        BY <2>2, <2>3, FieldTypes
      <4>3. UNCHANGED <<info, running>> /\ time' = time + 1
        BY <2>1
      <4> QED
        BY <2>2, <2>7, <4>1, <4>2, <4>3 DEF Noted, JustBegun
    <3>4. ran'[running].first >= 0
      BY <2>2, <2>3, <2>7, FieldTypes
    <3> QED
      BY <2>1, <2>2, <2>5, <2>12, <3>2, <3>3, <3>4 DEF StartInv
  <2>11. TotalsTrue'
    BY <1>6, Zenon DEF Tick, history, TotalsTrue
  <2> QED
    BY <2>6, <2>9, <2>10, <2>11
<1>7. CASE UNCHANGED sched_vars
  <2>1. UNCHANGED <<pqueue, info, totals, sched_pc, time, running, ran, actual, finished, odd>>
    BY <1>7, Zenon DEF sched_vars
  <2>2. Arrived' = Arrived
    BY <2>1, Zenon DEF Arrived
  <2>3. TotalsTrue'
    BY <2>1, Zenon DEF TotalsTrue
  <2>4. SchedTypes'
    BY <2>1, <2>2 DEF SchedTypes
  <2>5. WaitInv' /\ StartInv'
    BY <2>1, <2>2 DEF WaitInv, StartInv, Noted, JustBegun
  <2> QED
    BY <2>3, <2>4, <2>5
<1>8. scheduler_quantum_expired => sched_pc \in {"pick", "expire"}
  BY DEF scheduler_quantum_expired
<1> QED
  BY <1>1, <1>2, <1>3, <1>4, <1>5, <1>6, <1>7, <1>8 DEF SchedNext

\* The sums of waiting and turnaround times are those of the jobs that have
\* finished, and so is the sum of response times unless a job began at time 0 or
\* ended within its first quantum, for any jobs, policy and length of the run
\* (libscheduler.c:149-210).
THEOREM TotalsCorrect == SchedSpec => []TotalsTrue
<1>1. SchedInv => TotalsTrue
  BY DEF SchedInv
<1> QED
  BY <1>1, SchedInitInv, SchedStep, PTL DEF SchedSpec

\* Smaller keys are further in front.
Increasing(m, c) == \A i, k \in 1 .. Len(c) : i < k => Key(m, c[i]) <= Key(m, c[k])

\* The members of W, each once.
Lists(c, W) ==
  /\ \A i, k \in 1 .. Len(c) : c[i] = c[k] => i = k
  /\ \A x : x \in W <=> \E k \in 1 .. Len(c) : c[k] = x

LEMMA KeyType ==
  ASSUME NEW S, NEW m \in [S -> Infos], NEW x \in S, pqueue_scheme \in Schemes
  PROVE  Key(m, x) \in Int /\ m[x].arrive \in Int
<1>1. m[x] \in Infos
  OBVIOUS
<1> QED
  BY <1>1, FieldTypes DEF Key, Schemes

\* What an element put into a queue leaves of it.
LEMMA InsertedParts ==
  ASSUME NEW S, NEW c \in Seq(S), NEW j \in S, NEW p \in 1 .. Len(c) + 1
  PROVE  /\ InsertAt(c, p, j) \in Seq(S) /\ Len(InsertAt(c, p, j)) = Len(c) + 1
         /\ InsertAt(c, p, j)[p] = j
         /\ \A k \in 1 .. p - 1 : InsertAt(c, p, j)[k] = c[k]
         /\ \A k \in p .. Len(c) : InsertAt(c, p, j)[k + 1] = c[k]
<1> DEFINE a == SubSeq(c, 1, p - 1)
           b == <<j>>
           z == SubSeq(c, p, Len(c))
           N == Len(c)
<1>1. N \in Nat /\ p \in 1 .. N + 1
  OBVIOUS
<1>2. a \in Seq(S) /\ Len(a) = p - 1 /\ \A x \in 1 .. p - 1 : a[x] = c[x]
  BY <1>1
<1>3. z \in Seq(S) /\ Len(z) = N + 1 - p /\ \A x \in 1 .. N + 1 - p : z[x] = c[(p - 1) + x]
  BY <1>1
<1>4. b \in Seq(S) /\ Len(b) = 1 /\ b[1] = j
  OBVIOUS
<1>5. InsertAt(c, p, j) = (a \o b) \o z
  BY DEF InsertAt
<1> HIDE DEF a, b, z
<1> DEFINE d == a \o b
<1>6. d \in Seq(S) /\ Len(d) = p
  <2>1. d \in Seq(S) /\ Len(d) = Len(a) + Len(b)
    BY <1>2, <1>4, ConcatProperties
  <2> QED
    BY <2>1, <1>1, <1>2, <1>4
<1>7. \A x \in 1 .. Len(a) : d[x] = a[x]
  BY <1>2, <1>4
<1>8. d[p] = j
  <2>1. \A x \in 1 .. Len(b) : (a \o b)[Len(a) + x] = b[x]
    <3>1. a \in Seq(S) /\ b \in Seq(S)
      BY <1>2, <1>4
    <3> QED
      BY <3>1
  <2>2. 1 \in 1 .. Len(b) /\ Len(a) + 1 = p
    BY <1>1, <1>2, <1>4
  <2> QED
    BY <2>1, <2>2, <1>4
<1> HIDE DEF d
<1>9. d \o z \in Seq(S) /\ Len(d \o z) = p + Len(z)
  BY <1>3, <1>6, ConcatProperties
<1>10. \A x \in 1 .. Len(d) : (d \o z)[x] = d[x]
  BY <1>3, <1>6
<1>11. \A x \in 1 .. Len(z) : (d \o z)[Len(d) + x] = z[x]
  BY <1>3, <1>6
<1> HIDE DEF N
<1>12. Len(d \o z) = N + 1 /\ (d \o z)[p] = j
  BY <1>1, <1>3, <1>6, <1>8, <1>9, <1>10
<1>13. ASSUME NEW k \in 1 .. p - 1 PROVE (d \o z)[k] = c[k]
  <2>1. k \in 1 .. Len(d) /\ k \in 1 .. Len(a)
    BY <1>1, <1>2, <1>6
  <2> QED
    BY <2>1, <1>2, <1>7, <1>10
<1>14. ASSUME NEW k \in p .. N PROVE (d \o z)[k + 1] = c[k]
  <2>1. /\ k + 1 - p \in 1 .. N + 1 - p /\ p + (k + 1 - p) = k + 1
        /\ (p - 1) + (k + 1 - p) = k
    BY <1>1
  <2> DEFINE x == k + 1 - p
  <2>2. x \in 1 .. N + 1 - p /\ p + x = k + 1 /\ (p - 1) + x = k
    BY <2>1
  <2> HIDE DEF x
  <2>3. z[x] = c[(p - 1) + x]
    BY <2>2, <1>3 DEF N
  <2>4. (d \o z)[Len(d) + x] = z[x]
    BY <2>2, <1>3, <1>11 DEF N
  <2> QED
    BY <2>2, <2>3, <2>4, <1>6
<1> QED
  BY <1>5, <1>9, <1>12, <1>13, <1>14 DEF N, d

\* An element that is put into the queue goes where its key belongs.
LEMMA OfferOrders ==
  ASSUME NEW S, NEW m \in [S -> Infos], NEW c \in Seq(S), NEW j \in S, NEW W,
         Lists(c, W), j \notin W, pqueue_scheme \in Schemes
  PROVE  /\ Lists(priqueue_offer(m, c, j), W \cup {j})
         /\ Increasing(m, c) => Increasing(m, priqueue_offer(m, c, j))
<1> DEFINE P == {k \in DOMAIN c : Before(m, j, c[k])} \cup {Len(c) + 1}
           p == Min(P)
           t == priqueue_offer(m, c, j)
           N == Len(c)
           K(x) == Key(m, x)
<1>1. P \subseteq 1 .. N + 1 /\ N \in Nat /\ N + 1 \in P
  OBVIOUS
<1>2. P \subseteq Nat /\ P # {}
  BY <1>1
<1>3. p \in P /\ \A y \in P : p <= y
  <2> HIDE DEF P
  <2>1. \E x \in P : \A y \in P : x <= y
    BY <1>2, Least
  <2> QED
    BY <2>1 DEF Min
<1>4. p \in 1 .. N + 1
  BY <1>1, <1>3
<1>5. t = InsertAt(c, p, j)
  BY DEF priqueue_offer
<1>6. \A x \in S : K(x) \in Int /\ m[x].arrive \in Int
  BY KeyType
<1>7. \A k \in 1 .. N : c[k] \in S
  OBVIOUS
<1>8. \A k \in 1 .. p - 1 : k \in 1 .. N /\ K(c[k]) <= K(j)
  <2> SUFFICES ASSUME NEW k \in 1 .. p - 1 PROVE k \in 1 .. N /\ K(c[k]) <= K(j)
    OBVIOUS
  <2>1. k \in 1 .. N /\ ~(p <= k)
    BY <1>1, <1>4
  <2>2. ~Before(m, j, c[k])
    BY <2>1, <1>3
  <2>3. c[k] \in S
    BY <2>1, <1>7
  <2>4. K(c[k]) \in Int /\ K(j) \in Int
    BY <2>3, <1>6
  <2>5. K(j) = K(c[k]) \/ ~(K(j) <= K(c[k]))
    BY <2>2 DEF Before, compare_helper
  <2> HIDE DEF K
  <2> QED
    BY <2>1, <2>4, <2>5
<1>9. p \in 1 .. N => K(j) <= K(c[p])
  <2> SUFFICES ASSUME p \in 1 .. N PROVE K(j) <= K(c[p])
    OBVIOUS
  <2>1. Before(m, j, c[p])
    BY <1>1, <1>3
  <2>2. K(c[p]) \in Int /\ K(j) \in Int
    BY <1>6, <1>7
  <2>3. K(j) = K(c[p]) \/ K(j) <= K(c[p])
    BY <2>1 DEF Before, compare_helper
  <2> HIDE DEF K
  <2> QED
    BY <2>2, <2>3
<1> HIDE DEF P, p
<1>10. /\ Len(t) = N + 1 /\ t[p] = j
       /\ \A k \in 1 .. p - 1 : t[k] = c[k]
       /\ \A k \in p .. N : t[k + 1] = c[k]
  BY <1>4, <1>5, InsertedParts
<1> HIDE DEF t, K
<1>11. \A k \in 1 .. N + 1 : \/ k \in 1 .. p - 1 /\ k \in 1 .. N
                             \/ k = p
                             \/ k - 1 \in p .. N /\ k - 1 \in 1 .. N /\ (k - 1) + 1 = k /\ k > p
  BY <1>1, <1>4
<1> DEFINE o(k) == IF k < p THEN k ELSE k - 1
<1>12. \A k \in 1 .. N + 1 : k # p => o(k) \in 1 .. N /\ t[k] = c[o(k)]
  <2> SUFFICES ASSUME NEW k \in 1 .. N + 1, k # p PROVE o(k) \in 1 .. N /\ t[k] = c[o(k)]
    OBVIOUS
  <2>1. CASE k \in 1 .. p - 1 /\ k \in 1 .. N
    <3>1. o(k) = k
      BY <2>1, <1>4
    <3> QED
      BY <3>1, <2>1, <1>10
  <2>2. CASE k - 1 \in p .. N /\ k - 1 \in 1 .. N /\ (k - 1) + 1 = k /\ k > p
    <3>1. o(k) = k - 1
      BY <2>2, <1>4
    <3>2. t[(k - 1) + 1] = c[k - 1]
      BY <2>2, <1>10
    <3> QED
      BY <3>1, <3>2, <2>2
  <2> QED
    BY <2>1, <2>2, <1>11
<1>13. \A i, k \in 1 .. N + 1 : i # p /\ k # p => (o(i) = o(k) => i = k) /\ (i < k => o(i) < o(k))
  BY <1>1, <1>4
<1>14. \A k \in 1 .. N : \E i \in 1 .. N + 1 : i # p /\ o(i) = k
  <2> SUFFICES ASSUME NEW k \in 1 .. N PROVE \E i \in 1 .. N + 1 : i # p /\ o(i) = k
    OBVIOUS
  <2>1. CASE k < p
    <3>1. k \in 1 .. N + 1 /\ k # p /\ o(k) = k
      BY <2>1, <1>1, <1>4
    <3> QED
      BY <3>1
  <2>2. CASE ~(k < p)
    <3>1. k + 1 \in 1 .. N + 1 /\ k + 1 # p /\ o(k + 1) = k
      BY <2>2, <1>1, <1>4
    <3> QED
      BY <3>1
  <2> QED
    BY <2>1, <2>2
<1> HIDE DEF o
<1>15. \A k \in 1 .. N : c[k] # j
  BY DEF Lists
<1>16. Lists(t, W \cup {j})
  <2>1. \A i, k \in 1 .. N + 1 : t[i] = t[k] => i = k
    <3> SUFFICES ASSUME NEW i \in 1 .. N + 1, NEW k \in 1 .. N + 1, t[i] = t[k] PROVE i = k
      OBVIOUS
    <3>1. CASE i = p \/ k = p
      BY <3>1, <1>10, <1>12, <1>15
    <3>2. CASE i # p /\ k # p
      <4>1. c[o(i)] = c[o(k)] /\ o(i) \in 1 .. N /\ o(k) \in 1 .. N
        BY <3>2, <1>12
      <4>2. o(i) = o(k)
        BY <4>1 DEF Lists
      <4> QED
        BY <4>2, <3>2, <1>13
    <3> QED
      BY <3>1, <3>2
  <2>2. ASSUME NEW x \in W \cup {j} PROVE \E k \in 1 .. N + 1 : t[k] = x
    <3>1. CASE x = j
      BY <3>1, <1>4, <1>10
    <3>2. CASE x \in W
      <4>1. PICK k \in 1 .. N : c[k] = x
        BY <3>2 DEF Lists
      <4>2. PICK i \in 1 .. N + 1 : i # p /\ o(i) = k
        BY <1>14
      <4> QED
        BY <4>1, <4>2, <1>12
    <3> QED
      BY <3>1, <3>2
  <2>3. ASSUME NEW k \in 1 .. N + 1 PROVE t[k] \in W \cup {j}
    <3>1. CASE k = p
      BY <3>1, <1>10
    <3>2. CASE k # p
      BY <3>2, <1>12 DEF Lists
    <3> QED
      BY <3>1, <3>2
  <2> QED
    BY <2>1, <2>2, <2>3, <1>10 DEF Lists
<1>17. ASSUME Increasing(m, c) PROVE Increasing(m, t)
  <2>0. \A i, k \in 1 .. N : i <= k => K(c[i]) <= K(c[k])
    <3> SUFFICES ASSUME NEW i \in 1 .. N, NEW k \in 1 .. N, i <= k PROVE K(c[i]) <= K(c[k])
      OBVIOUS
    <3>1. CASE i = k
      BY <3>1, <1>6, <1>7
    <3>2. CASE i < k
      BY <3>2, <1>17 DEF Increasing, K
    <3> QED
      BY <3>1, <3>2
  <2> SUFFICES ASSUME NEW i \in 1 .. N + 1, NEW k \in 1 .. N + 1, i < k PROVE K(t[i]) <= K(t[k])
    BY <1>10 DEF Increasing, K
  <2>1. CASE i # p /\ k # p
    <3>1. o(i) < o(k) /\ o(i) \in 1 .. N /\ o(k) \in 1 .. N /\ t[i] = c[o(i)] /\ t[k] = c[o(k)]
      BY <2>1, <1>12, <1>13
    <3> QED
      BY <3>1, <2>0
  <2>2. CASE i = p
    <3>1. k - 1 \in p .. N /\ k - 1 \in 1 .. N /\ (k - 1) + 1 = k /\ p \in 1 .. N /\ p <= k - 1
      BY <2>2, <1>1, <1>4, <1>11
    <3>2. t[k] = c[k - 1]
      BY <3>1, <1>10
    <3>3. K(c[p]) <= K(c[k - 1]) /\ K(j) <= K(c[p])
      BY <3>1, <2>0, <1>9
    <3>4. K(c[p]) \in Int /\ K(c[k - 1]) \in Int /\ K(j) \in Int
      BY <3>1, <1>6, <1>7
    <3>5. K(j) <= K(c[k - 1])
      BY <3>3, <3>4
    <3> QED
      BY <3>2, <3>5, <2>2, <1>10
  <2>3. CASE k = p
    <3>1. i \in 1 .. p - 1
      BY <2>3, <1>4
    <3> QED
      BY <3>1, <2>3, <1>8, <1>10
  <2> QED
    BY <2>1, <2>2, <2>3
<1> QED
  BY <1>16, <1>17 DEF t

\* The queue without its head.
LEMMA TailOrders ==
  ASSUME NEW S, NEW m, NEW c \in Seq(S), c # <<>>, NEW W, Lists(c, W)
  PROVE  /\ Tail(c) \in Seq(S) /\ Len(Tail(c)) = Len(c) - 1 /\ Len(c) \in Nat /\ Len(c) >= 1
         /\ Head(c) = c[1] /\ \A k \in 1 .. Len(c) - 1 : Tail(c)[k] = c[k + 1]
         /\ Lists(Tail(c), W \ {Head(c)}) /\ Head(c) \in W
         /\ Increasing(m, c) => Increasing(m, Tail(c))
<1> DEFINE t == Tail(c)
           N == Len(c)
<1>1. /\ t \in Seq(S) /\ Len(t) = N - 1 /\ N \in Nat /\ N >= 1
      /\ Head(c) = c[1] /\ \A k \in 1 .. N - 1 : t[k] = c[k + 1]
  OBVIOUS
<1>2. /\ \A i, k \in 1 .. N : c[i] = c[k] => i = k
      /\ \A x : x \in W <=> \E k \in 1 .. N : c[k] = x
  BY DEF Lists
<1> HIDE DEF t, N
<1>3. \A k \in 1 .. N - 1 : k + 1 \in 1 .. N /\ k + 1 # 1
  BY <1>1
<1>4. 1 \in 1 .. N
  BY <1>1
<1>5. \A k \in 1 .. N : k # 1 => k - 1 \in 1 .. N - 1 /\ (k - 1) + 1 = k
  BY <1>1
<1>6. \A i, k \in 1 .. N - 1 : t[i] = t[k] => i = k
  <2> SUFFICES ASSUME NEW i \in 1 .. N - 1, NEW k \in 1 .. N - 1, t[i] = t[k] PROVE i = k
    OBVIOUS
  <2>1. i + 1 = k + 1
    BY <1>1, <1>2, <1>3
  <2> QED
    BY <2>1
<1>7. \A k \in 1 .. N - 1 : t[k] \in W /\ t[k] # c[1]
  <2> SUFFICES ASSUME NEW k \in 1 .. N - 1 PROVE t[k] \in W /\ t[k] # c[1]
    OBVIOUS
  <2>1. t[k] = c[k + 1] /\ k + 1 \in 1 .. N /\ k + 1 # 1
    BY <1>1, <1>3
  <2> QED
    BY <2>1, <1>2, <1>4
<1>8. ASSUME NEW x \in W, x # c[1] PROVE \E k \in 1 .. N - 1 : t[k] = x
  <2>1. PICK k \in 1 .. N : c[k] = x
    BY <1>2
  <2>2. k - 1 \in 1 .. N - 1 /\ (k - 1) + 1 = k
    BY <2>1, <1>5, <1>8
  <2> QED
    BY <2>1, <2>2, <1>1
<1>9. Lists(t, W \ {c[1]}) /\ c[1] \in W
  BY <1>1, <1>2, <1>4, <1>6, <1>7, <1>8 DEF Lists
<1>10. Increasing(m, c) => Increasing(m, t)
  <2> SUFFICES ASSUME Increasing(m, c), NEW i \in 1 .. N - 1, NEW k \in 1 .. N - 1, i < k
               PROVE  Key(m, t[i]) <= Key(m, t[k])
    BY <1>1 DEF Increasing
  <2>1. i + 1 < k + 1
    OBVIOUS
  <2> QED
    BY <2>1, <1>1, <1>3 DEF Increasing, N
<1> QED
  BY <1>1, <1>9, <1>10 DEF t, N

\* The evicted job was the head of the queue, or second to it.
InOrder == (pqueue_scheme = "RR" => ahead = 0) /\ (pqueue_scheme = "PSRTF" => ahead <= 1)

PickInv ==
  /\ pqueue_scheme \in Schemes /\ ahead \in Nat
  /\ sched_pc = "start" => pqueue = <<>>
  /\ ~stolen => Lists(pqueue, Waiting) /\ (InOrder => Increasing(info, pqueue))

LEMMA PickInitInv == ASSUME SchedInit PROVE PickInv
<1>1. pqueue = <<>> /\ pqueue_scheme = "FCFS" /\ info = <<>> /\ ahead = 0
  BY DEF SchedInit
<1>2. Waiting = {}
  BY <1>1 DEF Waiting, Arrived
<1>3. Len(pqueue) = 0 /\ \A k : k \notin 1 .. 0
  BY <1>1
<1>4. Lists(pqueue, Waiting) /\ Increasing(info, pqueue)
  BY <1>2, <1>3 DEF Lists, Increasing
<1>5. sched_pc = "start"
  BY DEF SchedInit
<1> QED
  BY <1>1, <1>4 DEF PickInv, Schemes

\* Where the policy does not look at what a quantum changes, keys stay.
LEMMA KeysStay ==
  ASSUME NEW m, NEW n, NEW S, m \in [S -> Infos], n \in [S -> Infos], NEW x \in S,
         pqueue_scheme \in Schemes, n[x].arrive = m[x].arrive, n[x].require = m[x].require,
         n[x].priority = m[x].priority, pqueue_scheme \notin {"RR", "PSRTF"} \/ n[x] = m[x]
  PROVE  Key(n, x) = Key(m, x)
BY DEF Key, Schemes

\* ahead is the most that were ahead so far.
LEMMA AheadIs ==
  ASSUME NEW c \in Seq(Arrived), NEW k \in 1 .. Len(c), c[k] = running, ahead \in Nat,
         \A i \in 1 .. Len(c) : c[i] = running => i = k,
         NEW a, a = Max({ahead, SelectInSeq(c, LAMBDA j : j = running) - 1})
  PROVE  a \in Nat /\ a >= ahead /\ a >= k - 1
<1> DEFINE I == {i \in 1 .. Len(c) : c[i] = running}
<1>1. I = {k}
  OBVIOUS
<1>2. Min({k}) = k
  BY DEF Min
<1>3. SelectInSeq(c, LAMBDA j : j = running) = k
  BY <1>1, <1>2 DEF SelectInSeq
<1>4. k - 1 \in Nat
  OBVIOUS
<1> DEFINE b == k - 1
<1>5. a = Max({ahead, b})
  BY <1>3
<1> HIDE DEF b
<1>6. \E x \in {ahead, b} : \A y \in {ahead, b} : x >= y
  BY <1>4 DEF b
<1>7. a \in {ahead, b} /\ \A y \in {ahead, b} : a >= y
  BY <1>5, <1>6 DEF Max
<1> QED
  BY <1>4, <1>7 DEF b

LEMMA HeadFirst ==
  ASSUME NEW S, NEW m \in [S -> Infos], NEW c \in Seq(S), c # <<>>, NEW W, Lists(c, W),
         Increasing(m, c), pqueue_scheme \in Schemes
  PROVE  Head(c) \in W /\ \A j \in W : Key(m, Head(c)) <= Key(m, j)
<1>1. Head(c) = c[1] /\ Len(c) \in Nat /\ 1 \in 1 .. Len(c) /\ c[1] \in S
  OBVIOUS
<1>2. c[1] \in W
  BY <1>1 DEF Lists
<1>3. ASSUME NEW j \in W PROVE Key(m, c[1]) <= Key(m, j)
  <2>1. PICK k \in 1 .. Len(c) : c[k] = j
    BY DEF Lists
  <2>2. CASE k = 1
    <3>1. Key(m, c[1]) \in Int
      BY <1>1, KeyType
    <3> DEFINE x == Key(m, c[1])
    <3>2. Key(m, j) = x /\ x \in Int
      BY <3>1, <2>1, <2>2
    <3> HIDE DEF x
    <3>3. x <= x
      BY <3>2
    <3> QED
      BY <3>2, <3>3 DEF x
  <2>3. CASE k # 1
    <3>1. 1 < k
      BY <1>1, <2>3
    <3> QED
      BY <3>1, <1>1, <2>1 DEF Increasing
  <2> QED
    BY <2>2, <2>3
<1> QED
  BY <1>1, <1>2, <1>3

\* What a quantum changes of a job's metadata.
LEMMA ExpiredKeys ==
  ASSUME NEW x \in Infos
  PROVE  /\ Expired(x).arrive = x.arrive /\ Expired(x).require = x.require
         /\ Expired(x).priority = x.priority /\ Expired(x).remain = x.remain - 1
<1> DEFINE z == IF x.start <= 0 THEN time - 1 ELSE x.start
           a == [x EXCEPT !.run = time]
           b == [a EXCEPT !.remain = a.remain - 1]
           c == [b EXCEPT !.start = z]
<1>1. /\ DOMAIN a = DOMAIN x /\ a.arrive = x.arrive /\ a.require = x.require /\ a.start = x.start
      /\ a.priority = x.priority /\ a.remain = x.remain
  BY DEF Infos
<1>2. Expired(x) = c
  BY DEF Expired, Infos
<1>3. DOMAIN x = {"arrive", "remain", "run", "require", "start", "priority"}
  BY DEF Infos
<1> HIDE DEF a, z
<1>4. /\ DOMAIN b = DOMAIN x /\ b.arrive = x.arrive /\ b.require = x.require
      /\ b.priority = x.priority /\ b.remain = x.remain - 1
  BY <1>1, <1>3
<1> HIDE DEF b
<1>5. c.arrive = x.arrive /\ c.require = x.require /\ c.priority = x.priority /\ c.remain = x.remain - 1
  BY <1>3, <1>4
<1> QED
  BY <1>2, <1>5

\* What PicksBest says of a step.
Best ==
  running' # running /\ running' # NO_JOB /\ ~stolen'
    /\ (pqueue_scheme = "RR" => ahead' = 0) /\ (pqueue_scheme = "PSRTF" => ahead' <= 1)
  => running' \in Waiting' /\ (\A j \in Waiting' : Key(info', running') <= Key(info', j))

\* What the other invariants say, for the lemmas that follow.
LEMMA Jobs ==
  ASSUME SchedInv
  PROVE  /\ info \in [Arrived -> Infos] /\ pqueue \in Seq(Arrived) /\ finished \subseteq Arrived
         /\ \E n \in Nat : Arrived = 1 .. n
         /\ sched_pc \in {"expire", "finish"} => running \in Waiting /\ pqueue # <<>>
<1>1. PICK n \in Nat : info \in [1 .. n -> Infos]
  BY DEF SchedInv, SchedTypes
<1>2. Arrived = 1 .. n
  BY <1>1 DEF Arrived
<1> QED
  BY <1>1, <1>2 DEF SchedInv, SchedTypes, Waiting

LEMMA Primed ==
  ASSUME pqueue_scheme' = pqueue_scheme
  PROVE  Increasing(info, pqueue)' <=> Increasing(info', pqueue')
BY DEF Increasing, Key

LEMMA NewJobPicks ==
  ASSUME SchedInv, SchedInv', PickInv, NEW j, NEW l, NEW p, scheduler_new_job(j, l, p)
  PROVE  PickInv' /\ Best
<1>1. /\ sched_pc # "start" /\ j = Cardinality(Arrived) + 1 /\ ~stolen
      /\ DOMAIN info' = Arrived \cup {j} /\ \A i \in Arrived : i # j => info'[i] = info[i]
      /\ pqueue' = priqueue_offer(info', pqueue, j)
      /\ sched_pc' = IF sched_pc = "idle" THEN "pick" ELSE sched_pc
      /\ UNCHANGED <<pqueue_scheme, running, finished, stolen, ahead>>
  BY DEF scheduler_new_job, history
<1>2. PICK n \in Nat : Arrived = 1 .. n
  BY Jobs
<1>3. j \notin Arrived
  <2>1. Cardinality(Arrived) = n
    BY <1>2, FS_Interval
  <2>2. j = n + 1
    BY <2>1, <1>1
  <2> QED
    BY <2>2, <1>2
<1> DEFINE S == Arrived \cup {j}
           m == info'
<1>4. m \in [S -> Infos]
  <2>1. PICK k \in Nat : info' \in [1 .. k -> Infos]
    BY DEF SchedInv, SchedTypes
  <2> QED
    BY <2>1, <1>1
<1>5. pqueue \in Seq(S) /\ finished \subseteq Arrived /\ info \in [Arrived -> Infos] /\ pqueue \in Seq(Arrived)
  BY Jobs
<1>6. Waiting' = Waiting \cup {j} /\ j \notin Waiting
  <2>1. Arrived' = S
    BY <1>1 DEF Arrived
  <2> QED
    BY <2>1, <1>1, <1>3, <1>5 DEF Waiting
<1>7. Lists(pqueue, Waiting) /\ (InOrder => Increasing(info, pqueue)) /\ pqueue_scheme \in Schemes
  BY <1>1 DEF PickInv
<1>8. Increasing(info, pqueue) => Increasing(m, pqueue)
  <2>1. \A x \in Arrived : m[x] = info[x]
    BY <1>1, <1>3
  <2>2. \A x \in Arrived : Key(m, x) = Key(info, x)
    BY <2>1, <1>7 DEF Key, Schemes
  <2>3. \A k \in 1 .. Len(pqueue) : pqueue[k] \in Arrived
    BY <1>5
  <2> QED
    BY <2>2, <2>3 DEF Increasing
<1> HIDE DEF m, S
<1>9. j \in S
  BY DEF S
<1>10. /\ Lists(priqueue_offer(m, pqueue, j), Waiting \cup {j})
       /\ Increasing(m, pqueue) => Increasing(m, priqueue_offer(m, pqueue, j))
  BY <1>4, <1>5, <1>6, <1>7, <1>9, OfferOrders
<1>11. Lists(pqueue', Waiting')
  BY <1>1, <1>6, <1>10 DEF m
<1>12. InOrder => Increasing(info', pqueue')
  BY <1>1, <1>7, <1>8, <1>10 DEF m
<1>13. InOrder' = InOrder
  BY <1>1 DEF InOrder
<1>14. InOrder' => Increasing(info, pqueue)'
  BY <1>1, <1>12, <1>13, Primed
<1>15. Lists(pqueue, Waiting)'
  BY <1>11 DEF Lists
<1>16. pqueue_scheme' \in Schemes' /\ ahead' \in Nat /\ sched_pc' # "start"
  BY <1>1 DEF PickInv, Schemes
<1>17. PickInv'
  BY <1>14, <1>15, <1>16 DEF PickInv
<1> QED
  BY <1>1, <1>17 DEF Best

LEMMA PickPicks ==
  ASSUME SchedInv, PickInv, sched_pc = "pick", running' = Peek(pqueue),
         sched_pc' = IF running' = NO_JOB THEN "idle" ELSE "run",
         UNCHANGED <<pqueue, info, ahead, pqueue_scheme, finished, stolen>>
  PROVE  PickInv' /\ Best
<1>1. Waiting' = Waiting /\ InOrder' = InOrder /\ Schemes' = Schemes
  BY DEF Waiting, Arrived, InOrder, Schemes
<1>2. PickInv'
  <2>1. Increasing(info, pqueue)' <=> Increasing(info, pqueue)
    BY DEF Increasing, Key
  <2>2. Lists(pqueue, Waiting)' <=> Lists(pqueue, Waiting)
    BY <1>1 DEF Lists
  <2>3. sched_pc' # "start"
    OBVIOUS
  <2> QED
    BY <1>1, <2>1, <2>2, <2>3 DEF PickInv
<1>3. Best
  <2> SUFFICES ASSUME running' # NO_JOB, ~stolen, InOrder
               PROVE  running' \in Waiting /\ \A j \in Waiting : Key(info, running') <= Key(info, j)
    BY <1>1 DEF Best, InOrder
  <2>1. pqueue # <<>> /\ running' = Head(pqueue)
    BY DEF Peek
  <2>2. Lists(pqueue, Waiting) /\ Increasing(info, pqueue) /\ pqueue_scheme \in Schemes
    BY DEF PickInv
  <2>3. info \in [Arrived -> Infos] /\ pqueue \in Seq(Arrived)
    BY Jobs
  <2> QED
    BY <2>1, <2>2, <2>3, HeadFirst
<1> QED
  BY <1>2, <1>3

LEMMA ExpirePicks ==
  ASSUME SchedInv, SchedInv', PickInv, sched_pc = "expire", ~stolen,
         info' = [info EXCEPT ![running] = Expired(info[running])],
         IF pqueue_scheme \in {"PPRI", "PSRTF", "RR"}
           THEN pqueue' = Requeued(info', pqueue) /\ running' = Peek(pqueue')
           ELSE UNCHANGED <<pqueue, running>>,
         ahead' = Max({ahead, SelectInSeq(pqueue, LAMBDA j : j = running) - 1}),
         sched_pc' = "run", UNCHANGED <<pqueue_scheme, finished, stolen>>
  PROVE  PickInv' /\ Best
<1> DEFINE m == info'
           h == Head(pqueue)
           c == Tail(pqueue)
           N == Len(pqueue)
<1>1. /\ info \in [Arrived -> Infos] /\ pqueue \in Seq(Arrived) /\ finished \subseteq Arrived
      /\ running \in Waiting /\ pqueue # <<>> /\ running \in Arrived
  BY Jobs DEF Waiting
<1>2. /\ Lists(pqueue, Waiting) /\ (InOrder => Increasing(info, pqueue)) /\ pqueue_scheme \in Schemes
      /\ ahead \in Nat
  BY DEF PickInv
<1>3. info[running] \in Infos
  BY <1>1
<1>4. m \in [Arrived -> Infos] /\ Waiting' = Waiting /\ Arrived' = Arrived
  <2>1. DOMAIN info' = Arrived
    BY <1>1
  <2>2. \E n \in Nat : info' \in [1 .. n -> Infos]
    BY DEF SchedInv, SchedTypes
  <2>3. m \in [Arrived -> Infos]
    BY <2>1, <2>2
  <2>4. Arrived' = Arrived
    BY <2>1 DEF Arrived
  <2> QED
    BY <2>3, <2>4 DEF Waiting
<1>5. /\ m[running].arrive = info[running].arrive /\ m[running].require = info[running].require
      /\ m[running].priority = info[running].priority /\ m[running].remain = info[running].remain - 1
  <2>1. m[running] = Expired(info[running])
    BY <1>1
  <2> QED
    BY <2>1, <1>3, ExpiredKeys
<1>6. \A x \in Arrived : x # running => m[x] = info[x]
  BY <1>1
<1>7. PICK k \in 1 .. N : pqueue[k] = running
  BY <1>1, <1>2 DEF Lists
<1>8. \A i \in 1 .. N : pqueue[i] = running => i = k
  BY <1>2, <1>7 DEF Lists
<1>9. ahead' \in Nat /\ ahead' >= ahead /\ ahead' >= k - 1
  BY <1>1, <1>2, <1>7, <1>8, AheadIs
<1>10. InOrder' => InOrder
  <2>1. ahead' = 0 => ahead = 0
    BY <1>2, <1>9
  <2>2. ahead' <= 1 => ahead <= 1
    BY <1>2, <1>9
  <2> QED
    BY <2>1, <2>2 DEF InOrder
<1> HIDE DEF m
<1>11. \A i \in 1 .. N : pqueue[i] \in Arrived
  BY <1>1
<1>12. \A x \in Arrived : x # running => Key(m, x) = Key(info, x)
  BY <1>2, <1>6 DEF Key, Schemes
<1>13. pqueue_scheme \notin {"RR", "PSRTF"} => Key(m, running) = Key(info, running)
  BY <1>1, <1>2, <1>4, <1>5, KeysStay
<1>14. CASE pqueue_scheme \notin {"PPRI", "PSRTF", "RR"}
  <2>1. pqueue' = pqueue /\ running' = running
    BY <1>14
  <2>2. \A x \in Arrived : Key(m, x) = Key(info, x)
    BY <1>12, <1>13, <1>14
  <2>3. Increasing(info, pqueue) => Increasing(m, pqueue)
    BY <2>2, <1>11 DEF Increasing
  <2>4. InOrder' => Increasing(info, pqueue)'
    BY <2>1, <2>3, <1>2, <1>10, Primed DEF m
  <2>5. Lists(pqueue, Waiting)'
    BY <2>1, <1>2, <1>4 DEF Lists
  <2>6. pqueue_scheme' \in Schemes' /\ ahead' \in Nat /\ sched_pc' # "start"
    BY <1>2, <1>9 DEF Schemes
  <2> QED
    BY <2>1, <2>4, <2>5, <2>6 DEF PickInv, Best
<1>15. CASE pqueue_scheme \in {"PPRI", "PSRTF", "RR"}
  <2>1. pqueue' = priqueue_offer(m, c, h) /\ running' = Peek(pqueue')
    BY <1>15 DEF Requeued, m
  <2>2. /\ c \in Seq(Arrived) /\ Len(c) = N - 1 /\ N \in Nat /\ N >= 1
        /\ h = pqueue[1] /\ \A i \in 1 .. N - 1 : c[i] = pqueue[i + 1]
        /\ Lists(c, Waiting \ {h}) /\ h \in Waiting
    BY <1>1, <1>2, TailOrders
  <2> HIDE DEF c, h, N
  <2>3. h \in Arrived /\ (Waiting \ {h}) \cup {h} = Waiting /\ h \notin Waiting \ {h}
    BY <2>2 DEF Waiting
  <2>4. pqueue' \in Seq(Arrived) \ {<<>>}
    BY <2>1, <2>2, <2>3, OfferType
  <2>5. Lists(pqueue', Waiting) /\ (Increasing(m, c) => Increasing(m, pqueue'))
    <3> DEFINE W == Waiting \ {h}
    <3>1. Lists(c, W) /\ h \notin W /\ W \cup {h} = Waiting
      BY <2>2, <2>3
    <3> HIDE DEF W
    <3>2. /\ Lists(priqueue_offer(m, c, h), W \cup {h})
          /\ Increasing(m, c) => Increasing(m, priqueue_offer(m, c, h))
      BY <1>2, <1>4, <2>2, <2>3, <3>1, OfferOrders
    <3> QED
      BY <2>1, <3>1, <3>2
  <2>6. ASSUME InOrder' PROVE Increasing(m, c)
    <3>1. Increasing(info, pqueue)
      BY <2>6, <1>2, <1>10
    <3>2. \A i, l \in 1 .. N - 1 : i < l =>
            /\ i + 1 \in 1 .. N /\ l + 1 \in 1 .. N /\ i + 1 < l + 1 /\ l + 1 > 2
            /\ l + 1 # 1 /\ i + 1 # 1
      BY <2>2
    <3>3. pqueue_scheme = "RR" => k = 1
      BY <2>6, <1>7, <1>9, <2>2 DEF InOrder
    <3>4. pqueue_scheme = "PSRTF" => k <= 2
      BY <2>6, <1>7, <1>9, <2>2 DEF InOrder
    <3> SUFFICES ASSUME NEW i \in 1 .. N - 1, NEW l \in 1 .. N - 1, i < l
                 PROVE  Key(m, c[i]) <= Key(m, c[l])
      BY <2>2 DEF Increasing
    <3> DEFINE x == pqueue[i + 1]
               y == pqueue[l + 1]
    <3>5. c[i] = x /\ c[l] = y /\ x \in Arrived /\ y \in Arrived
      BY <2>2, <3>2, <1>11
    <3>6. Key(info, x) <= Key(info, y)
      BY <3>1, <3>2 DEF Increasing, N
    <3>7. Key(info, x) \in Int /\ Key(info, y) \in Int
      BY <3>5, <1>1, <1>2, KeyType
    <3>8. pqueue_scheme # "PPRI" => y # running
      <4> SUFFICES ASSUME pqueue_scheme # "PPRI" PROVE y # running
        OBVIOUS
      <4>1. k <= 2
        BY <1>15, <3>3, <3>4
      <4>2. l + 1 # k
        BY <4>1, <3>2, <1>7, <2>2
      <4> QED
        BY <4>2, <3>2, <1>8
    <3>9. pqueue_scheme = "RR" => x # running
      BY <3>2, <3>3, <1>8
    <3>10. Key(m, y) = Key(info, y)
      BY <3>5, <3>8, <1>12, <1>13
    <3>11. Key(m, x) = Key(info, x) \/ Key(m, x) = Key(info, x) - 1
      <4>1. CASE x # running
        BY <4>1, <3>5, <1>12
      <4>2. CASE x = running /\ pqueue_scheme = "PSRTF"
        BY <4>2, <1>5 DEF Key
      <4>3. CASE x = running /\ pqueue_scheme = "PPRI"
        BY <4>3, <1>13
      <4> QED
        BY <4>1, <4>2, <4>3, <3>9, <1>15
    <3> HIDE DEF x, y
    <3>12. Key(m, x) <= Key(m, y)
      BY <3>6, <3>7, <3>10, <3>11
    <3> QED
      BY <3>5, <3>12
  <2>7. InOrder' => Increasing(m, pqueue')
    BY <2>5, <2>6
  <2>8. InOrder' => Increasing(info, pqueue)'
    BY <2>7, Primed DEF m
  <2>9. Lists(pqueue, Waiting)'
    BY <2>5, <1>4 DEF Lists
  <2>10. pqueue_scheme' \in Schemes' /\ ahead' \in Nat /\ sched_pc' # "start"
    BY <1>2, <1>9 DEF Schemes
  <2>11. PickInv'
    BY <2>8, <2>9, <2>10 DEF PickInv
  <2>12. Best
    <3> SUFFICES ASSUME InOrder'
                 PROVE  running' \in Waiting /\ \A j \in Waiting : Key(m, running') <= Key(m, j)
      BY <1>4 DEF Best, InOrder, m
    <3>1. running' = Head(pqueue') /\ pqueue' # <<>> /\ pqueue' \in Seq(Arrived)
      BY <2>1, <2>4 DEF Peek
    <3>2. Increasing(m, pqueue') /\ Lists(pqueue', Waiting)
      BY <2>5, <2>7
    <3> QED
      BY <3>1, <3>2, <1>2, <1>4, HeadFirst
  <2> QED
    BY <2>11, <2>12
<1> QED
  BY <1>14, <1>15

LEMMA FinishPicks ==
  ASSUME SchedInv, PickInv, scheduler_job_finished
  PROVE  PickInv' /\ Best
<1>1. /\ sched_pc = "finish" /\ sched_pc' = "pick" /\ ~stolen /\ pqueue' = Tail(pqueue)
      /\ stolen' = (Head(pqueue) # running)
      /\ finished' = finished \cup {running} /\ running' = NO_JOB
      /\ UNCHANGED <<pqueue_scheme, info, ahead>>
  BY DEF scheduler_job_finished
<1>2. /\ info \in [Arrived -> Infos] /\ pqueue \in Seq(Arrived) /\ finished \subseteq Arrived
      /\ pqueue # <<>>
  BY <1>1, Jobs
<1>3. /\ Lists(pqueue, Waiting) /\ (InOrder => Increasing(info, pqueue)) /\ pqueue_scheme \in Schemes
      /\ ahead \in Nat
  BY <1>1 DEF PickInv
<1>4. /\ Lists(Tail(pqueue), Waiting \ {Head(pqueue)})
      /\ Increasing(info, pqueue) => Increasing(info, Tail(pqueue))
  BY <1>2, <1>3, TailOrders
<1>5. Waiting' = Waiting \ {running} /\ InOrder' = InOrder
  BY <1>1 DEF Waiting, Arrived, InOrder
<1>6. InOrder' => Increasing(info, pqueue)'
  <2>1. InOrder => Increasing(info', pqueue')
    BY <1>1, <1>3, <1>4
  <2> QED
    BY <2>1, <1>1, <1>5, Primed
<1>7. ~stolen' => Lists(pqueue, Waiting)'
  BY <1>1, <1>4, <1>5 DEF Lists
<1>8. pqueue_scheme' \in Schemes' /\ ahead' \in Nat /\ sched_pc' # "start"
  BY <1>1, <1>3 DEF Schemes
<1> QED
  BY <1>1, <1>6, <1>7, <1>8 DEF PickInv, Best

\* A step that changes neither the queue nor the jobs' keys.
LEMMA OtherPicks ==
  ASSUME PickInv, UNCHANGED <<pqueue, info, running, finished, stolen, ahead>>,
         \/ pqueue_scheme' = pqueue_scheme /\ (sched_pc' = "start" => sched_pc = "start")
         \/ pqueue_scheme' \in Schemes /\ sched_pc = "start" /\ sched_pc' = "idle"
  PROVE  PickInv' /\ Best
<1>1. Waiting' = Waiting /\ Schemes' = Schemes
  BY DEF Waiting, Arrived, Schemes
<1>2. CASE pqueue_scheme' = pqueue_scheme /\ (sched_pc' = "start" => sched_pc = "start")
  <2>1. InOrder' = InOrder
    BY <1>2 DEF InOrder
  <2>2. Increasing(info, pqueue)' <=> Increasing(info, pqueue)
    BY <1>2, Primed
  <2>3. Lists(pqueue, Waiting)' <=> Lists(pqueue, Waiting)
    BY <1>1 DEF Lists
  <2>4. PickInv'
    BY <1>1, <1>2, <2>1, <2>2, <2>3 DEF PickInv
  <2> QED
    BY <2>4 DEF Best
<1>3. CASE pqueue_scheme' \in Schemes /\ sched_pc = "start" /\ sched_pc' = "idle"
  <2>1. pqueue = <<>> /\ ahead \in Nat /\ (~stolen => Lists(pqueue, Waiting))
    BY <1>3 DEF PickInv
  <2>2. pqueue' = <<>> /\ Len(pqueue') = 0 /\ \A i : i \notin 1 .. 0
    BY <2>1
  <2>3. Increasing(info, pqueue)'
    BY <2>2 DEF Increasing
  <2>4. Lists(pqueue, Waiting)' <=> Lists(pqueue, Waiting)
    BY <1>1 DEF Lists
  <2>5. PickInv'
    BY <1>1, <1>3, <2>1, <2>3, <2>4 DEF PickInv
  <2> QED
    BY <2>5 DEF Best
<1> QED
  BY <1>2, <1>3

LEMMA PickStep ==
  ASSUME SchedInv, SchedInv', PickInv, [SchedNext]_sched_vars
  PROVE  PickInv' /\ [Best]_sched_vars
<1>1. ASSUME NEW s \in Schemes, scheduler_start_up(s) PROVE PickInv' /\ Best
  <2>1. /\ UNCHANGED <<pqueue, info, running, finished, stolen, ahead>>
        /\ pqueue_scheme' = s /\ sched_pc = "start" /\ sched_pc' = "idle"
    BY <1>1 DEF scheduler_start_up, history
  <2> QED
    BY <2>1, OtherPicks
<1>2. ASSUME NEW j, NEW l, NEW p, scheduler_new_job(j, l, p) PROVE PickInv' /\ Best
  BY <1>2, NewJobPicks
<1>3. CASE scheduler_quantum_expired /\ sched_pc = "pick"
  <2>1. /\ running' = Peek(pqueue) /\ sched_pc' = (IF running' = NO_JOB THEN "idle" ELSE "run")
        /\ UNCHANGED <<pqueue, info, ahead, pqueue_scheme, finished, stolen>>
    BY <1>3 DEF scheduler_quantum_expired
  <2> QED
    BY <1>3, <2>1, PickPicks
<1>4. CASE scheduler_quantum_expired /\ sched_pc = "expire"
  <2>1. /\ ~stolen /\ info' = [info EXCEPT ![running] = Expired(info[running])]
        /\ IF pqueue_scheme \in {"PPRI", "PSRTF", "RR"}
             THEN pqueue' = Requeued(info', pqueue) /\ running' = Peek(pqueue')
             ELSE UNCHANGED <<pqueue, running>>
        /\ ahead' = Max({ahead, SelectInSeq(pqueue, LAMBDA j : j = running) - 1})
        /\ sched_pc' = "run" /\ UNCHANGED <<pqueue_scheme, finished, stolen>>
    BY <1>4 DEF scheduler_quantum_expired
  <2> QED
    BY <1>4, <2>1, ExpirePicks
<1>5. CASE scheduler_job_finished
  BY <1>5, FinishPicks
<1>6. CASE Tick
  <2>1. /\ UNCHANGED <<pqueue, info, running, finished, stolen, ahead, pqueue_scheme>>
        /\ sched_pc' # "start"
    BY <1>6 DEF Tick, history
  <2> QED
    BY <2>1, OtherPicks
<1>7. CASE UNCHANGED sched_vars
  <2>1. UNCHANGED <<pqueue, info, running, finished, stolen, ahead, pqueue_scheme, sched_pc>>
    BY <1>7 DEF sched_vars
  <2>2. PickInv'
    BY <2>1, OtherPicks
  <2> QED
    BY <2>2, <1>7
<1>8. scheduler_quantum_expired => sched_pc \in {"pick", "expire"}
  BY DEF scheduler_quantum_expired
<1> QED
  BY <1>1, <1>2, <1>3, <1>4, <1>5, <1>6, <1>7, <1>8 DEF SchedNext

\* The job that is given the processor is one the policy puts first, for any
\* jobs, lengths and priorities: no job that waits has a smaller key.  The queue
\* is then in the order of the keys and holds the waiting jobs, as long as only
\* its head needs to be put in order again (libscheduler.c:162-172) and no job
\* lost its place to one that finished (libscheduler.c:185).
THEOREM PicksCorrect == SchedSpec => PicksBest
<1>1. SchedInit => SchedInv /\ PickInv
  BY SchedInitInv, PickInitInv
<1>2. SchedInv /\ PickInv /\ [SchedNext]_sched_vars => (SchedInv /\ PickInv)'
  BY SchedStep, PickStep
<1>3. SchedInv /\ PickInv /\ [SchedNext]_sched_vars => [Best]_sched_vars
  BY SchedStep, PickStep
<1>4. SchedSpec => [][Best]_sched_vars
  BY <1>1, <1>2, <1>3, PTL DEF SchedSpec
<1> QED
  BY <1>4 DEF PicksBest, Best

-----------------------------------------------------------------------------
(* par_reduce.c *)

\* g[k] is what the first k members of c leave without the base cases.
Chooses(c, g) ==
  /\ g \in [0 .. Len(c) -> Seq(Nat)] /\ g[0] = <<>>
  /\ \A k \in 1 .. Len(c) : g[k] = IF c[k] = BASE THEN g[k - 1] ELSE Append(g[k - 1], c[k])

Chosen(c, r) == \E g : Chooses(c, g) /\ g[Len(c)] = r

\* Folding over the subsets of 1 .. n, the largest number first.
Took(taken, x) == IF x = BASE THEN taken ELSE Append(taken, x)

IsFold(c, n, f) ==
  f = [s \in SUBSET (1 .. n) |-> IF s = {} THEN <<>> ELSE Took(f[s \ {Max(s)}], c[Max(s)])]

LEMMA MaxIs ==
  ASSUME NEW n \in Nat, NEW s \in SUBSET (1 .. n), n \in s
  PROVE  Max(s) = n
<1>1. \A x \in s : x \in Nat /\ x <= n
  OBVIOUS
<1>2. \A x \in s : (\A y \in s : x >= y) => x = n
  BY <1>1
<1> QED
  BY <1>1, <1>2 DEF Max

LEMMA FoldExists ==
  ASSUME NEW c, NEW N \in Nat
  PROVE  \A n \in 0 .. N : \E f : IsFold(c, n, f)
<1> DEFINE T == {n \in 0 .. N : ~ \E f : IsFold(c, n, f)}
<1> SUFFICES ASSUME T # {} PROVE FALSE
  OBVIOUS
<1>1. T \subseteq Nat
  OBVIOUS
<1>2. PICK n \in T : \A k \in T : n <= k
  <2> HIDE DEF T
  <2> QED
    BY <1>1, Least
<1>3. n # 0
  <2>1. SUBSET (1 .. 0) = {{}}
    OBVIOUS
  <2>2. IsFold(c, 0, [s \in {{}} |-> <<>>])
    BY <2>1 DEF IsFold
  <2> QED
    BY <2>2
<1>4. n \in 1 .. N /\ n - 1 \in 0 .. N /\ n - 1 < n /\ n \in Nat
  BY <1>3
<1>5. PICK f : IsFold(c, n - 1, f)
  BY <1>2, <1>4
<1> DEFINE S == SUBSET (1 .. n)
           R == SUBSET (1 .. n - 1)
           h == [s \in S |-> IF n \in s THEN Took(f[s \ {n}], c[n]) ELSE f[s]]
<1>6. \A s \in S : n \in s => s \ {n} \in R /\ s \ {n} \in S /\ n \notin s \ {n}
  BY <1>4
<1>7. \A s \in S : n \notin s => s \in R
  BY <1>4
<1>8. ASSUME NEW s \in R, s # {} PROVE s \ {Max(s)} \in R /\ R \subseteq S
  <2>1. 1 .. n - 1 \subseteq 1 .. n
    BY <1>4
  <2> QED
    BY <2>1
<1>9. \A s \in R : f[s] = IF s = {} THEN <<>> ELSE Took(f[s \ {Max(s)}], c[Max(s)])
  BY <1>5 DEF IsFold
<1>10. \A s \in R : n \notin s
  BY <1>4
<1>11. \A s \in S : h[s] = IF s = {} THEN <<>> ELSE Took(h[s \ {Max(s)}], c[Max(s)])
  <2> SUFFICES ASSUME NEW s \in S
               PROVE  h[s] = IF s = {} THEN <<>> ELSE Took(h[s \ {Max(s)}], c[Max(s)])
    OBVIOUS
  <2>1. CASE n \in s
    <3>1. Max(s) = n
      BY <2>1, <1>4, MaxIs
    <3>2. h[s] = Took(f[s \ {n}], c[n]) /\ h[s \ {n}] = f[s \ {n}]
      BY <2>1, <1>6
    <3> QED
      BY <2>1, <3>1, <3>2
  <2>2. CASE n \notin s /\ s # {}
    <3>1. s \in R /\ h[s] = f[s]
      BY <2>2, <1>7
    <3>2. s \ {Max(s)} \in R /\ s \ {Max(s)} \in S
      BY <2>2, <3>1, <1>8
    <3>3. h[s \ {Max(s)}] = f[s \ {Max(s)}]
      BY <3>2, <1>10
    <3> QED
      BY <2>2, <3>1, <3>3, <1>9
  <2>3. CASE s = {}
    BY <2>3, <1>7, <1>9
  <2> QED
    BY <2>1, <2>2, <2>3
<1>12. IsFold(c, n, h)
  <2>1. h = [s \in S |-> h[s]]
    OBVIOUS
  <2> HIDE DEF h, S
  <2>2. h = [s \in S |-> IF s = {} THEN <<>> ELSE Took(h[s \ {Max(s)}], c[Max(s)])]
    BY <2>1, <1>11
  <2> QED
    BY <2>2 DEF IsFold, S
<1> QED
  BY <1>12

\* What Operands folds the answer to is what Chosen describes.
LEMMA ListChosen ==
  ASSUME NEW c, c \in Seq(Nat \cup {BASE}), NEW r, Chosen(c, r)
  PROVE  FoldLeft(LAMBDA taken, x : IF x = BASE THEN taken ELSE Append(taken, x), <<>>, c) = r
<1> DEFINE N == Len(c)
           f == CHOOSE f : IsFold(c, N, f)
<1>1. N \in Nat /\ DOMAIN c = 1 .. N
  OBVIOUS
<1>2. PICK g : Chooses(c, g) /\ g[N] = r
  BY DEF Chosen
<1>3. FoldLeft(LAMBDA taken, x : IF x = BASE THEN taken ELSE Append(taken, x), <<>>, c) = f[1 .. N]
  <2>1. FoldLeft(LAMBDA taken, x : IF x = BASE THEN taken ELSE Append(taken, x), <<>>, c)
          = (CHOOSE it : it = [u \in SUBSET (DOMAIN c) |->
               IF u = {} THEN <<>>
               ELSE IF c[Max(u)] = BASE THEN it[u \ {Max(u)}]
                                        ELSE Append(it[u \ {Max(u)}], c[Max(u)])])[DOMAIN c]
    BY DEF FoldLeft, MapThenFoldSet
  <2> QED
    BY <2>1, <1>1 DEF IsFold, Took
<1>4. IsFold(c, N, f)
  <2>1. \E h : IsFold(c, N, h)
    <3>1. N \in 0 .. N
      BY <1>1
    <3> QED
      BY <1>1, <3>1, FoldExists
  <2> QED
    BY <2>1
<1> HIDE DEF f, N
<1>5. \A u \in SUBSET (1 .. N) : f[u] = IF u = {} THEN <<>> ELSE Took(f[u \ {Max(u)}], c[Max(u)])
  BY <1>4 DEF IsFold
<1> DEFINE T == {k \in 0 .. N : f[1 .. k] # g[k]}
<1>6. T = {}
  <2> SUFFICES ASSUME T # {} PROVE FALSE
    OBVIOUS
  <2>1. T \subseteq Nat
    OBVIOUS
  <2>2. PICK k \in T : \A y \in T : k <= y
    <3> HIDE DEF T
    <3> QED
      BY <2>1, Least
  <2>3. k # 0
    <3>1. 1 .. 0 = {} /\ {} \in SUBSET (1 .. N)
      OBVIOUS
    <3>2. f[1 .. 0] = <<>> /\ g[0] = <<>>
      BY <3>1, <1>2, <1>5 DEF Chooses
    <3> QED
      BY <3>2
  <2>4. k \in 1 .. N /\ k - 1 \in 0 .. N /\ k \in Nat /\ k - 1 < k
    BY <2>3, <1>1
  <2>5. f[1 .. k - 1] = g[k - 1]
    BY <2>2, <2>4
  <2>6. 1 .. k \in SUBSET (1 .. N) /\ 1 .. k # {} /\ k \in 1 .. k /\ (1 .. k) \ {k} = 1 .. k - 1
    <3>1. k \in 1 .. k /\ 1 .. k \subseteq 1 .. N
      BY <2>4, <1>1
    <3>2. \A x : x \in (1 .. k) \ {k} <=> x \in 1 .. k - 1
      BY <2>4
    <3> QED
      BY <3>1, <3>2
  <2>7. Max(1 .. k) = k
    BY <2>4, <2>6, MaxIs
  <2>8. f[1 .. k] = Took(f[1 .. k - 1], c[k])
    BY <2>6, <2>7, <1>5
  <2>9. g[k] = Took(g[k - 1], c[k])
    BY <2>4, <1>2 DEF Chooses, N, Took
  <2> QED
    BY <2>5, <2>8, <2>9
<1>7. N \in 0 .. N
  BY <1>1
<1> QED
  BY <1>2, <1>3, <1>6, <1>7

\* A part, with its base case, is appended.
LEMMA ChosenLonger ==
  ASSUME NEW c \in Seq(Nat \cup {BASE}), NEW p \in Seq(Nat \cup {BASE}), NEW m \in Nat, NEW n \in Nat,
         Chosen(c, Elements(0, m)), Len(p) = n + 1, p[1] = BASE, \A k \in 1 .. n : p[k + 1] = m + k
  PROVE  Chosen(c \o p, Elements(0, m + n)) /\ c \o p \in Seq(Nat \cup {BASE})
<1> DEFINE L == Len(c)
           t == c \o p
           E(k) == Elements(0, k)
<1>1. PICK g : Chooses(c, g) /\ g[L] = E(m)
  BY DEF Chosen
<1>2. L \in Nat /\ BASE \notin Nat
  BY ParReduceAssumption
<1>3. t \in Seq(Nat \cup {BASE}) /\ Len(t) = L + (n + 1)
  BY ConcatProperties
<1>4. \A k \in 1 .. L : t[k] = c[k]
  OBVIOUS
<1>5. \A k \in 1 .. n + 1 : t[L + k] = p[k]
  OBVIOUS
<1>6. \A k \in Nat : E(k) \in Seq(Nat)
  BY DEF Elements
<1>7. \A k \in Nat : E(k + 1) = Append(E(k), k + 1)
  <2> SUFFICES ASSUME NEW k \in Nat PROVE E(k + 1) = Append(E(k), k + 1)
    OBVIOUS
  <2>1. E(k) = [i \in 1 .. k |-> i] /\ E(k + 1) = [i \in 1 .. k + 1 |-> i]
    BY DEF Elements
  <2>2. Len([i \in 1 .. k |-> i]) = k /\ [i \in 1 .. k |-> i] \in Seq(Nat)
    OBVIOUS
  <2> QED
    BY <2>1, <2>2
<1> DEFINE h == [k \in 0 .. L + (n + 1) |-> IF k <= L THEN g[k] ELSE E(m + (k - (L + 1)))]
<1>8. g \in [0 .. L -> Seq(Nat)] /\ g[0] = <<>>
  BY <1>1 DEF Chooses
<1>9. \A k \in 1 .. L : g[k] = IF c[k] = BASE THEN g[k - 1] ELSE Append(g[k - 1], c[k])
  BY <1>1 DEF Chooses
<1> HIDE DEF L, t, E
<1>10. h \in [0 .. L + (n + 1) -> Seq(Nat)]
  <2> SUFFICES ASSUME NEW k \in 0 .. L + (n + 1)
               PROVE  (IF k <= L THEN g[k] ELSE E(m + (k - (L + 1)))) \in Seq(Nat)
    OBVIOUS
  <2>1. CASE k <= L
    <3>1. k \in 0 .. L
      BY <2>1, <1>2
    <3> QED
      BY <3>1, <2>1, <1>8
  <2>2. CASE ~(k <= L)
    <3>1. m + (k - (L + 1)) \in Nat
      BY <2>2, <1>2
    <3> QED
      BY <3>1, <2>2, <1>6
  <2> QED
    BY <2>1, <2>2
<1>11. \A k \in 0 .. L + (n + 1) : h[k] = IF k <= L THEN g[k] ELSE E(m + (k - (L + 1)))
  OBVIOUS
<1> HIDE DEF h
<1>12. h[0] = <<>>
  <2>1. 0 \in 0 .. L + (n + 1) /\ 0 <= L
    BY <1>2
  <2> QED
    BY <2>1, <1>8, <1>11
<1>13. ASSUME NEW k \in 1 .. L + (n + 1)
       PROVE  h[k] = IF t[k] = BASE THEN h[k - 1] ELSE Append(h[k - 1], t[k])
  <2>1. k \in 0 .. L + (n + 1) /\ k - 1 \in 0 .. L + (n + 1)
    BY <1>2
  <2>2. CASE k <= L
    <3>1. k \in 1 .. L /\ k - 1 <= L
      BY <2>2, <1>2
    <3> QED
      BY <3>1, <2>1, <2>2, <1>4, <1>9, <1>11
  <2>3. CASE k = L + 1
    <3>1. ~(k <= L) /\ k - 1 = L /\ L <= L /\ m + (k - (L + 1)) = m
      BY <2>3, <1>2
    <3>2. h[k] = E(m) /\ h[k - 1] = g[L]
      BY <3>1, <2>1, <1>11
    <3>3. t[k] = BASE
      <4>1. 1 \in 1 .. n + 1
        OBVIOUS
      <4> QED
        BY <4>1, <2>3, <1>5
    <3> QED
      BY <3>2, <3>3, <1>1
  <2>4. CASE k > L + 1
    <3> DEFINE j == k - (L + 1)
    <3>1. /\ j \in 1 .. n /\ ~(k <= L) /\ ~(k - 1 <= L) /\ k = L + (j + 1) /\ j + 1 \in 1 .. n + 1
          /\ (k - 1) - (L + 1) = j - 1 /\ m + (j - 1) \in Nat /\ (m + (j - 1)) + 1 = m + j
      BY <2>4, <1>2
    <3>2. h[k] = E(m + j) /\ h[k - 1] = E(m + (j - 1))
      BY <3>1, <2>1, <1>11
    <3> HIDE DEF j
    <3>3. t[k] = m + j /\ m + j \in Nat
      <4>1. t[k] = p[j + 1] /\ p[j + 1] = m + j
        BY <3>1, <1>5
      <4> QED
        BY <4>1, <3>1
    <3>4. E(m + j) = Append(E(m + (j - 1)), m + j)
      BY <3>1, <1>7
    <3>5. t[k] # BASE
      BY <3>3, <1>2
    <3> QED
      BY <3>2, <3>3, <3>4, <3>5
  <2> QED
    BY <2>2, <2>3, <2>4, <1>2
<1>14. Chooses(t, h)
  BY <1>3, <1>10, <1>12, <1>13 DEF Chooses
<1>15. h[Len(t)] = E(m + n)
  <2>1. L + (n + 1) \in 0 .. L + (n + 1) /\ ~(L + (n + 1) <= L) /\ (L + (n + 1)) - (L + 1) = n
    BY <1>2
  <2> QED
    BY <2>1, <1>3, <1>11
<1> QED
  BY <1>3, <1>14, <1>15 DEF Chosen, t, E

LEMMA DivParts ==
  ASSUME NEW a \in Nat, NEW m \in Nat, m > 0
  PROVE  a \div m \in Int /\ \E r \in 0 .. m - 1 : a = m * (a \div m) + r
<1> DEFINE w == a \div m
           r == a % m
<1>1. w \in Int /\ r \in 0 .. m - 1 /\ a = m * w + r
  OBVIOUS
<1> QED
  BY <1>1

\* The parts are not empty and cover the list.
LEMMA PartsCover ==
  ASSUME NEW l \in Nat, NEW n \in Nat, l >= 1, n >= 2,
         NEW s, s = (l + n - 1) \div n, NEW t, t = (l + s - 1) \div s
  PROVE  /\ s \in Nat /\ s >= 1 /\ t \in 1 .. l
         /\ t * s >= l /\ \A i \in 0 .. t - 1 : i * s < l
<1>1. l \in Nat /\ n \in Nat /\ l >= 1 /\ n >= 2
  OBVIOUS
<1>2. PICK r \in 0 .. n - 1 : s \in Int /\ (l + n) - 1 = n * s + r
  <2> DEFINE a == (l + n) - 1
  <2>1. a \in Nat /\ n > 0
    BY <1>1
  <2>2. s = a \div n
    <3>1. a = l + (n - 1)
      OBVIOUS
    <3> QED
      BY <3>1
  <2> HIDE DEF a
  <2>3. \E r \in 0 .. n - 1 : s \in Int /\ a = n * s + r
    BY <1>1, <2>1, <2>2, DivParts
  <2> QED
    BY <2>3 DEF a
<1>3. s >= 1
  <2> SUFFICES ASSUME s <= 0 PROVE FALSE
    BY <1>2
  <2>1. n * s <= 0
    BY <1>1, <1>2
  <2> QED
    BY <2>1, <1>1, <1>2
<1>4. PICK w \in 0 .. s - 1 : t \in Int /\ (l + s) - 1 = s * t + w
  <2>1. s \in Nat /\ s > 0
    BY <1>2, <1>3
  <2> DEFINE a == (l + s) - 1
  <2>2. t = a \div s
    <3>1. a = l + (s - 1)
      BY <1>1, <1>2
    <3> QED
      BY <3>1
  <2>3. a \in Nat
    BY <1>1, <2>1
  <2> HIDE DEF a
  <2>4. \E w \in 0 .. s - 1 : t \in Int /\ a = s * t + w
    <3> HIDE <1>2, <1>3
    <3>1. a \div s \in Int /\ \E w \in 0 .. s - 1 : a = s * (a \div s) + w
      BY <2>1, <2>3, DivParts
    <3> QED
      BY <3>1, <2>2
  <2> QED
    BY <2>4 DEF a
<1>5. s * t >= l /\ s * t <= (l + s) - 1 /\ s * t = t * s /\ s * t \in Int
  BY <1>1, <1>2, <1>3, <1>4
<1>6. t >= 1
  <2> SUFFICES ASSUME t <= 0 PROVE FALSE
    BY <1>4
  <2>1. s * t <= 0
    BY <1>2, <1>3, <1>4
  <2> QED
    BY <2>1, <1>1, <1>5
<1>7. ASSUME NEW i \in 0 .. t - 1 PROVE i * s < l /\ i * s \in Nat /\ i <= i * s
  <2>1. i \in Nat /\ i + 1 <= t
    BY <1>4
  <2>2. (i + 1) * s <= t * s
    BY <2>1, <1>2, <1>3, <1>4
  <2>3. (i + 1) * s = i * s + s /\ i * s \in Nat /\ i <= i * s
    BY <2>1, <1>2, <1>3
  <2> QED
    BY <2>2, <2>3, <1>1, <1>2, <1>5
<1>8. t <= l
  <2>1. t - 1 \in 0 .. t - 1
    BY <1>4, <1>6
  <2>2. (t - 1) * s < l /\ (t - 1) * s \in Nat /\ t - 1 <= (t - 1) * s
    BY <2>1, <1>7
  <2> QED
    BY <2>2, <1>1, <1>4
<1> QED
  BY <1>1, <1>2, <1>3, <1>4, <1>5, <1>6, <1>7, <1>8

\* The elements of the parts that have been joined.
Taken == IF joined * one > length THEN length ELSE joined * one

\* Once cut, length and num_threads say what the parts are.
Cut == pr_pc \in {"create", "join"}

\* n elements in their order, with b base cases.
Answer(n, b) == Chosen(returnit, Elements(0, n)) /\ Len(returnit) = n + b

PRTypes ==
  /\ pr_pc \in {"start", "create", "join", "returned"}
  /\ length \in 0 .. MaxLength /\ num_threads \in 0 .. MaxThreads
  /\ made \in Nat /\ joined \in Nat
  /\ progress \in [PartNumbers -> Nat] /\ part \in [PartNumbers -> Seq(Nat \cup {BASE})]
  /\ returnit \in Seq(Nat \cup {BASE})

\* What a thread has taken is the beginning of its part.
PartsInv ==
  /\ \A i \in PartNumbers :
       /\ Len(part[i]) = progress[i] + 1 /\ part[i][1] = BASE
       /\ \A k \in 1 .. progress[i] : part[i][k + 1] = PartStart(i) + k
       /\ made <= i => progress[i] = 0
       /\ i \in pr_done => i < made /\ PartStart(i) + progress[i] = PartEnd(i)
  /\ Cut \/ made > 0 => length >= 1 /\ num_threads >= 2
  /\ Cut => joined <= two
  /\ pr_pc = "create" => joined = 0
  /\ pr_pc = "start" => made = 0 /\ joined = 0

AnswerInv ==
  /\ pr_pc = "start" => returnit = <<BASE>>
  /\ Cut => Answer(Taken, joined + 1)
  /\ pr_pc = "returned" => Answer(length, IF num_threads < 2 \/ length = 0 THEN 1 ELSE two + 1)

PRInv == PRTypes /\ PartsInv /\ AnswerInv

LEMMA BaseCase == <<BASE>> \in Seq(Nat \cup {BASE}) /\ Chosen(<<>>, Elements(0, 0)) /\ Elements(0, 0) = <<>>
<1>1. Elements(0, 0) = <<>>
  BY DEF Elements
<1> DEFINE g == [k \in 0 .. 0 |-> <<>>]
<1>2. g \in [0 .. 0 -> Seq(Nat)] /\ g[0] = <<>> /\ Len(<<>>) = 0
  OBVIOUS
<1> HIDE DEF g
<1>3. Chooses(<<>>, g)
  BY <1>2 DEF Chooses
<1> QED
  BY <1>1, <1>2, <1>3 DEF Chosen

\* The base case, and what a loop over n elements makes of it.
LEMMA FromBase ==
  ASSUME NEW n \in Nat, NEW c, c = <<BASE>> \o Elements(0, n)
  PROVE  c \in Seq(Nat \cup {BASE}) /\ Chosen(c, Elements(0, n)) /\ Len(c) = n + 1
<1> DEFINE e == Elements(0, n)
           S == Nat \cup {BASE}
<1>1. e \in Seq(S) /\ Len(e) = n /\ \A k \in 1 .. n : e[k] = k
  BY DEF Elements
<1> HIDE DEF e, S
<1>2. <<BASE>> \in Seq(S) /\ Len(<<BASE>>) = 1
  BY DEF S
<1>3. c = <<BASE>> \o e
  BY DEF e
<1> DEFINE b == <<BASE>>
<1>z. b[1] = BASE
  OBVIOUS
<1> HIDE DEF b
<1>4. /\ c \in Seq(S) /\ Len(c) = n + 1 /\ c[1] = BASE
      /\ \A k \in 1 .. n : c[k + 1] = e[k]
  <2>1. b \in Seq(S) /\ Len(b) = 1 /\ c = b \o e
    BY <1>2, <1>3 DEF b
  <2>2. c \in Seq(S) /\ Len(c) = 1 + n
    BY <2>1, <1>1, ConcatProperties
  <2>3. c[1] = BASE
    BY <2>1, <1>1, <1>z
  <2>4. \A k \in 1 .. n : c[k + 1] = e[k]
    <3>1. \A k \in 1 .. n : c[1 + k] = e[k]
      <4>1. \A k \in 1 .. Len(e) : (b \o e)[Len(b) + k] = e[k]
        <5>1. b \in Seq(S) /\ e \in Seq(S)
          BY <2>1, <1>1
        <5> QED
          BY <5>1
      <4> QED
        BY <4>1, <2>1, <1>1
    <3>2. \A k \in 1 .. n : 1 + k = k + 1
      OBVIOUS
    <3> QED
      BY <3>1, <3>2
  <2> QED
    BY <2>2, <2>3, <2>4
<1>5. <<>> \o c = c /\ <<>> \in Seq(S)
  BY <1>4
<1>6. \A k \in 1 .. n : c[k + 1] = 0 + k
  BY <1>1, <1>4
<1>7. 0 + n = n
  OBVIOUS
<1>8. Chosen(<<>> \o c, Elements(0, 0 + n))
  BY <1>4, <1>5, <1>6, BaseCase, ChosenLonger DEF S
<1> QED
  BY <1>4, <1>5, <1>7, <1>8 DEF S

LEMMA PRInitInv == ASSUME PRInit PROVE PRInv
<1>1. /\ pr_pc = "start" /\ length = 0 /\ num_threads = 0 /\ made = 0 /\ joined = 0
      /\ progress = [i \in PartNumbers |-> 0] /\ part = [i \in PartNumbers |-> <<BASE>>]
      /\ pr_done = {} /\ returnit = <<BASE>>
  BY DEF PRInit
<1>2. PRTypes
  BY <1>1, BaseCase, ParReduceAssumption DEF PRTypes
<1>3. \A k : k \notin 1 .. 0
  OBVIOUS
<1>4. Len(<<BASE>>) = 0 + 1 /\ <<BASE>>[1] = BASE
  OBVIOUS
<1>5. PartsInv
  BY <1>1, <1>3, <1>4 DEF PartsInv, Cut
<1>6. AnswerInv
  BY <1>1 DEF AnswerInv, Cut
<1> QED
  BY <1>2, <1>5, <1>6 DEF PRInv

LEMMA ReduceStep == ASSUME PRInv, NEW l \in 0 .. MaxLength, NEW n \in 0 .. MaxThreads, par_reduce(l, n) PROVE PRInv'
<1>1. /\ pr_pc = "start" /\ length' = l /\ num_threads' = n /\ returnit = <<BASE>>
      /\ made' = made /\ joined' = joined /\ progress' = progress /\ part' = part /\ pr_done' = pr_done
      /\ made = 0 /\ joined = 0
  BY DEF par_reduce, PRInv, PartsInv, AnswerInv
<1>2. l \in Nat /\ n \in Nat
  BY ParReduceAssumption
<1>3. \A i \in PartNumbers : progress[i] = 0 /\ i \notin pr_done
  <2> SUFFICES ASSUME NEW i \in PartNumbers PROVE progress[i] = 0 /\ i \notin pr_done
    OBVIOUS
  <2>1. i \in Nat /\ 0 <= i /\ ~(i < 0)
    BY ParReduceAssumption DEF PartNumbers
  <2> QED
    BY <2>1, <1>1 DEF PRInv, PartsInv
<1>4. \A k : k \notin 1 .. 0
  OBVIOUS
<1>5. /\ \A i \in PartNumbers : Len(part[i]) = progress[i] + 1 /\ part[i][1] = BASE
      /\ PRTypes
  BY DEF PRInv, PartsInv
<1>6. CASE n < 2 \/ l = 0
  <2>1. pr_pc' = "returned" /\ returnit' = <<BASE>> \o Elements(0, l)
    BY <1>6 DEF par_reduce
  <2>2. returnit' \in Seq(Nat \cup {BASE}) /\ Chosen(returnit', Elements(0, l)) /\ Len(returnit') = l + 1
    BY <2>1, <1>2, FromBase
  <2>3. PRTypes'
    BY <2>1, <2>2, <1>1, <1>5 DEF PRTypes, PartNumbers
  <2>4. PartsInv'
    BY <2>1, <1>1, <1>3, <1>4, <1>5 DEF PartsInv, Cut, PartNumbers
  <2>5. AnswerInv'
    BY <2>1, <2>2, <1>1, <1>6 DEF AnswerInv, Answer, Cut
  <2> QED
    BY <2>3, <2>4, <2>5 DEF PRInv
<1>7. CASE ~(n < 2 \/ l = 0)
  <2>1. pr_pc' = "create" /\ returnit' = <<BASE>>
    BY <1>1, <1>7 DEF par_reduce
  <2>2. l >= 1 /\ n >= 2
    BY <1>2, <1>7
  <2>3. one' \in Nat /\ two' \in 1 .. l
    <3>1. one' = (l + n - 1) \div n /\ two' = (l + one' - 1) \div one'
      BY <1>1 DEF one, two
    <3> HIDE DEF one, two
    <3> QED
      BY <3>1, <2>2, <1>2, PartsCover
  <2>4. PRTypes'
    BY <2>1, <1>1, <1>5 DEF PRTypes, PartNumbers
  <2>5. PartsInv'
    BY <2>1, <2>2, <2>3, <1>1, <1>2, <1>3, <1>4, <1>5 DEF PartsInv, Cut, PartNumbers
  <2>6. AnswerInv'
    <3>1. <<BASE>> \o Elements(0, 0) = <<BASE>>
      BY DEF Elements
    <3>2. Chosen(<<BASE>>, Elements(0, 0)) /\ Len(<<BASE>>) = 0 + (0 + 1)
      BY <3>1, FromBase
    <3>3. Taken' = 0
      <4>1. joined' = 0 /\ length' = l /\ 0 * one' = 0 /\ ~(0 > l)
        <5>1. \A x \in Nat : 0 * x = 0
          OBVIOUS
        <5>2. joined' = 0 /\ length' = l /\ ~(0 > l)
          BY <1>1, <1>2
        <5>3. 0 * one' = 0
          BY <5>1, <2>3, Zenon
        <5> QED
          BY <5>2, <5>3
      <4> HIDE DEF one
      <4> QED
        BY <4>1 DEF Taken
    <3> QED
      BY <2>1, <3>2, <3>3, <1>1 DEF AnswerInv, Answer, Cut
  <2> QED
    BY <2>4, <2>5, <2>6 DEF PRInv
<1> QED
  BY <1>6, <1>7

\* What the cut says while the parts are reduced.
LEMMA CutFacts ==
  ASSUME PRInv, Cut \/ made > 0
  PROVE  /\ one \in Nat /\ one >= 1 /\ two \in 1 .. length /\ two * one >= length
         /\ \A i \in 0 .. two - 1 : i * one < length
         /\ length \in Nat /\ two <= MaxLength /\ joined \in Nat
<1>1. /\ length \in Nat /\ num_threads \in Nat /\ length >= 1 /\ num_threads >= 2 /\ length <= MaxLength
      /\ joined \in Nat
  BY ParReduceAssumption DEF PRInv, PRTypes, PartsInv
<1>2. one = (length + num_threads - 1) \div num_threads /\ two = (length + one - 1) \div one
  BY DEF one, two
<1>3. /\ one \in Nat /\ one >= 1 /\ two \in 1 .. length /\ two * one >= length
      /\ \A i \in 0 .. two - 1 : i * one < length
  BY <1>1, <1>2, PartsCover
<1>4. two <= MaxLength
  BY <1>1, <1>3, ParReduceAssumption
<1> QED
  BY <1>1, <1>3, <1>4

LEMMA CreateStep == ASSUME PRInv, CreateReducer PROVE PRInv'
<1>1. /\ pr_pc = "create" /\ pr_pc' \in {"create", "join"}
      /\ made' = made + 1 \/ made' = made
      /\ UNCHANGED <<length, num_threads, joined, progress, part, pr_done, returnit>>
  BY DEF CreateReducer
<1>2. made \in Nat /\ made' \in Nat /\ made <= made'
  BY <1>1 DEF PRInv, PRTypes
<1>3. PRTypes'
  BY <1>1, <1>2 DEF PRInv, PRTypes, PartNumbers
<1>4. PartsInv'
  <2>1. \A i \in Nat : made' <= i => made <= i
    BY <1>2
  <2>2. \A i \in Nat : i < made => i < made'
    BY <1>2
  <2>3. \A i \in PartNumbers : i \in Nat
    BY ParReduceAssumption DEF PartNumbers
  <2> QED
    BY <2>1, <2>2, <2>3, <1>1 DEF PRInv, PartsInv, Cut, PartNumbers, PartStart, PartEnd, one, two
<1>5. AnswerInv'
  BY <1>1 DEF PRInv, AnswerInv, Answer, Cut, Taken, one, two
<1> QED
  BY <1>3, <1>4, <1>5 DEF PRInv

LEMMA HelperStep == ASSUME PRInv, NEW i \in PartNumbers, par_reduce_helper(i) PROVE PRInv'
<1>1. /\ i < made /\ i \notin pr_done /\ i \in Nat
      /\ UNCHANGED <<pr_pc, length, num_threads, made, joined, returnit>>
  BY ParReduceAssumption DEF par_reduce_helper, PartNumbers
<1> DEFINE n == progress[i]
           p == part[i]
<1>2. /\ n \in Nat /\ p \in Seq(Nat \cup {BASE}) /\ made \in Nat
      /\ progress \in [PartNumbers -> Nat] /\ part \in [PartNumbers -> Seq(Nat \cup {BASE})]
  BY DEF PRInv, PRTypes
<1>3. AnswerInv'
  BY <1>1 DEF PRInv, AnswerInv, Answer, Cut, Taken, one, two
<1>4. CASE progress' = progress /\ part' = part /\ pr_done' = pr_done \cup {i} /\ PartStart(i) + n = PartEnd(i)
  <2>1. PRTypes'
    BY <1>1, <1>4 DEF PRInv, PRTypes, PartNumbers
  <2>2. PartsInv'
    BY <1>1, <1>4 DEF PRInv, PartsInv, Cut, PartNumbers, PartStart, PartEnd, one, two
  <2> QED
    BY <2>1, <2>2, <1>3 DEF PRInv
<1>5. CASE /\ part' = [part EXCEPT ![i] = Append(@, PartStart(i) + n + 1)]
           /\ progress' = [progress EXCEPT ![i] = @ + 1] /\ pr_done' = pr_done
  <2> DEFINE a == PartStart(i)
             x == a + n + 1
             w == Append(p, x)
             S == Nat \cup {BASE}
  <2>1. a \in Nat
    <3>1. made > 0
      BY <1>1, <1>2
    <3>2. one \in Nat
      BY <3>1, CutFacts
    <3> HIDE DEF one
    <3> QED
      BY <3>2, <1>1 DEF PartStart
  <2>2. Len(p) = n + 1 /\ p[1] = BASE /\ \A k \in 1 .. n : p[k + 1] = a + k
    BY DEF PRInv, PartsInv
  <2> HIDE DEF a
  <2>3. x \in S /\ x = a + (n + 1)
    BY <2>1, <1>2
  <2>4. part' = [part EXCEPT ![i] = w] /\ progress' = [progress EXCEPT ![i] = n + 1] /\ pr_done' = pr_done
    BY <1>5 DEF a
  <2> HIDE DEF n, p, x
  <2>5. w \in Seq(S) /\ Len(w) = (n + 1) + 1 /\ w[1] = BASE
    <3>1. 1 \in 1 .. Len(p) /\ Len(p) \in Nat
      BY <2>2, <1>2
    <3> QED
      BY <3>1, <1>2, <2>2, <2>3
  <2>6. \A k \in 1 .. n + 1 : w[k + 1] = a + k
    <3> SUFFICES ASSUME NEW k \in 1 .. n + 1 PROVE w[k + 1] = a + k
      OBVIOUS
    <3>1. CASE k = n + 1
      BY <3>1, <1>2, <2>2, <2>3
    <3>2. CASE k # n + 1
      <4>1. k \in 1 .. n /\ k + 1 \in 1 .. Len(p)
        BY <3>2, <1>2, <2>2
      <4> QED
        BY <4>1, <1>2, <2>2, <2>3
    <3> QED
      BY <3>1, <3>2
  <2> HIDE DEF w
  <2>7. PRTypes'
    BY <2>4, <2>5, <1>1, <1>2 DEF PRInv, PRTypes, PartNumbers, S
  <2>8. PartStart(i)' = a /\ \A j \in PartNumbers : PartStart(j)' = PartStart(j) /\ PartEnd(j)' = PartEnd(j)
    BY <1>1 DEF a, PartStart, PartEnd, one
  <2>9. two' = two
    BY <1>1 DEF two, one
  <2>10. \A j \in PartNumbers :
           /\ Len(part'[j]) = progress'[j] + 1 /\ part'[j][1] = BASE
           /\ \A k \in 1 .. progress'[j] : part'[j][k + 1] = PartStart(j) + k
           /\ made <= j => progress'[j] = 0
           /\ j \in pr_done => j < made /\ PartStart(j) + progress'[j] = PartEnd(j)
    <3> SUFFICES ASSUME NEW j \in PartNumbers
                 PROVE  /\ Len(part'[j]) = progress'[j] + 1 /\ part'[j][1] = BASE
                        /\ \A k \in 1 .. progress'[j] : part'[j][k + 1] = PartStart(j) + k
                        /\ made <= j => progress'[j] = 0
                        /\ j \in pr_done => j < made /\ PartStart(j) + progress'[j] = PartEnd(j)
      OBVIOUS
    <3>1. CASE j = i
      <4>1. part'[i] = w /\ progress'[i] = n + 1 /\ ~(made <= i)
        BY <2>4, <1>1, <1>2
      <4> QED
        BY <4>1, <3>1, <2>5, <2>6, <1>1 DEF a
    <3>2. CASE j # i
      <4>1. part'[j] = part[j] /\ progress'[j] = progress[j]
        BY <3>2, <2>4, <1>2
      <4> QED
        BY <4>1 DEF PRInv, PartsInv
    <3> QED
      BY <3>1, <3>2
  <2>11. PartsInv'
    <3>1. Cut' = Cut /\ PartNumbers' = PartNumbers
      BY <1>1 DEF Cut, PartNumbers
    <3>2. /\ Cut \/ made > 0 => length >= 1 /\ num_threads >= 2
          /\ Cut => joined <= two
          /\ pr_pc = "create" => joined = 0
          /\ pr_pc = "start" => made = 0 /\ joined = 0
      BY DEF PRInv, PartsInv
    <3> QED
      BY <3>1, <3>2, <2>4, <2>8, <2>9, <2>10, <1>1 DEF PartsInv
  <2> QED
    BY <2>7, <2>11, <1>3 DEF PRInv
<1> QED
  BY <1>4, <1>5 DEF par_reduce_helper

LEMMA JoinStep == ASSUME PRInv, JoinReducer PROVE PRInv'
<1>1. pr_pc = "join" /\ UNCHANGED <<length, num_threads, made, progress, part, pr_done>> /\ Cut
  BY DEF JoinReducer, Cut
<1>2. /\ one \in Nat /\ one >= 1 /\ two \in 1 .. length /\ two * one >= length
      /\ \A i \in 0 .. two - 1 : i * one < length
      /\ length \in Nat /\ two <= MaxLength /\ joined \in Nat /\ joined <= two
  BY <1>1, CutFacts DEF PRInv, PartsInv
<1>3. Answer(Taken, joined + 1)
  BY <1>1 DEF PRInv, AnswerInv
<1>4. one' = one /\ two' = two
  BY <1>1 DEF one, two
<1>5. \A i \in PartNumbers : PartStart(i)' = PartStart(i) /\ PartEnd(i)' = PartEnd(i)
  BY <1>1, <1>4 DEF PartStart, PartEnd
<1> DEFINE S == Nat \cup {BASE}
<1>6. returnit \in Seq(S) /\ part \in [PartNumbers -> Seq(S)] /\ progress \in [PartNumbers -> Nat]
  BY DEF PRInv, PRTypes
<1>7. CASE joined = two /\ pr_pc' = "returned" /\ UNCHANGED <<returnit, joined>>
  <2>1. Taken = length
    <3> HIDE DEF one, two
    <3> QED
      BY <1>2, <1>7 DEF Taken
  <2>2. num_threads >= 2 /\ length >= 1 /\ num_threads \in Nat
    BY <1>1, ParReduceAssumption DEF PRInv, PartsInv, PRTypes
  <2>3. ~(num_threads < 2 \/ length = 0)
    BY <2>2
  <2>4. Answer(length, two + 1)
    BY <2>1, <1>3, <1>7
  <2>5. AnswerInv'
    BY <2>3, <2>4, <1>1, <1>4, <1>7 DEF AnswerInv, Answer, Cut
  <2>6. PRTypes'
    BY <1>1, <1>7 DEF PRInv, PRTypes, PartNumbers
  <2>7. PartsInv'
    BY <1>1, <1>4, <1>5, <1>7, <2>2 DEF PRInv, PartsInv, Cut, PartNumbers
  <2> QED
    BY <2>5, <2>6, <2>7 DEF PRInv
<1>8. ASSUME NEW i \in PartNumbers, joined < two, i = joined, i \in pr_done,
             returnit' = returnit \o part[i], joined' = joined + 1, pr_pc' = pr_pc
      PROVE  PRInv'
  <2> DEFINE n == progress[i]
             p == part[i]
             m == PartStart(i)
             g == Elements(0, m)
  <2>1. n \in Nat /\ p \in Seq(S)
    BY <1>6
  <2>2. /\ Len(p) = n + 1 /\ p[1] = BASE /\ \A k \in 1 .. n : p[k + 1] = m + k
        /\ m + n = PartEnd(i)
    BY <1>8 DEF PRInv, PartsInv
  <2>3. m \in Nat /\ m = joined * one /\ m < length
    <3>1. joined \in 0 .. two - 1
      BY <1>2, <1>8
    <3>2. joined * one < length
      BY <3>1, <1>2
    <3>3. joined * one \in Nat
      <4> HIDE DEF one, two
      <4> QED
        BY <1>2
    <3> QED
      BY <3>2, <3>3, <1>8 DEF PartStart
  <2>4. Taken = m
    <3> HIDE DEF one, m
    <3> QED
      BY <2>3, <1>2 DEF Taken
  <2>5. Taken' = m + n
    BY <2>2, <1>1, <1>4, <1>8 DEF Taken, PartEnd
  <2> HIDE DEF m, n, p
  <2>6. Chosen(returnit, Elements(0, m)) /\ Len(returnit) = m + (joined + 1)
    BY <2>4, <1>3 DEF Answer
  <2>7. returnit' = returnit \o p
    BY <1>8 DEF p
  <2>8. Chosen(returnit', Elements(0, m + n)) /\ returnit' \in Seq(S)
    BY <2>1, <2>2, <2>3, <2>6, <2>7, <1>6, ChosenLonger
  <2>9. Len(returnit') = (m + n) + ((joined + 1) + 1)
    <3>1. Len(returnit') = Len(returnit) + Len(p)
      BY <2>1, <2>7, <1>6, ConcatProperties
    <3> QED
      BY <3>1, <2>1, <2>2, <2>3, <2>6, <1>2
  <2>10. AnswerInv'
    BY <2>5, <2>8, <2>9, <1>1, <1>8 DEF AnswerInv, Answer, Cut
  <2>11. PRTypes'
    BY <2>8, <1>1, <1>2, <1>8 DEF PRInv, PRTypes, PartNumbers
  <2>12. joined + 1 <= two
    BY <1>2, <1>8
  <2>13. PartsInv'
    BY <2>12, <1>1, <1>4, <1>5, <1>8 DEF PRInv, PartsInv, Cut, PartNumbers
  <2> QED
    BY <2>10, <2>11, <2>13 DEF PRInv
<1> QED
  BY <1>7, <1>8 DEF JoinReducer, NextPart

LEMMA PRStep == ASSUME PRInv, [PRNext]_pr_vars PROVE PRInv'
<1>1. ASSUME UNCHANGED pr_vars PROVE PRInv'
  BY <1>1 DEF pr_vars, PRInv, PRTypes, PartsInv, AnswerInv, Answer, Taken, Cut, PartNumbers,
              PartStart, PartEnd, one, two
<1> QED
  BY <1>1, ReduceStep, CreateStep, HelperStep, JoinStep DEF PRNext

\* par_reduce.c:42-73: for any length of list and number of threads, whichever is
\* done first, the answer is made of every element once, in the order of the list,
\* and of the base case once more than there are parts.
THEOREM ReduceCorrect == PRSpec => []SameAsReduce
<1>1. PRInv => SameAsReduce
  <2> SUFFICES ASSUME PRInv, pr_pc = "returned" PROVE SameAsReduce
    BY DEF SameAsReduce
  <2> DEFINE b == IF num_threads < 2 \/ length = 0 THEN 1 ELSE two + 1
  <2>1. returnit \in Seq(Nat \cup {BASE}) /\ length \in Nat
    BY ParReduceAssumption DEF PRInv, PRTypes
  <2>2. Chosen(returnit, Elements(0, length)) /\ Len(returnit) = length + b
    BY DEF PRInv, AnswerInv, Answer
  <2>3. Operands = Elements(0, length)
    BY <2>1, <2>2, ListChosen DEF Operands
  <2>4. Len(Elements(0, length)) = length
    BY <2>1 DEF Elements
  <2>5. Len(returnit) - Len(Operands) = b
    <3>1. b \in Int
      <4>1. CASE num_threads < 2 \/ length = 0
        BY <4>1
      <4>2. CASE ~(num_threads < 2 \/ length = 0)
        <5>1. num_threads \in Nat /\ num_threads >= 2 /\ length >= 1
          BY <4>2, <2>1, ParReduceAssumption DEF PRInv, PRTypes
        <5>2. one = (length + num_threads - 1) \div num_threads /\ two = (length + one - 1) \div one
          BY DEF one, two
        <5>3. two \in 1 .. length
          BY <5>1, <5>2, <2>1, PartsCover
        <5> HIDE DEF two
        <5> QED
          BY <5>3, <4>2
      <4> QED
        BY <4>1, <4>2
    <3> HIDE DEF b
    <3> QED
      BY <3>1, <2>1, <2>2, <2>3, <2>4
  <2> QED
    BY <2>3, <2>5 DEF SameAsReduce
<1>2. PRInv /\ [PRNext]_pr_vars => PRInv'
  BY PRStep
<1> QED
  BY <1>1, <1>2, PRInitInv, PTL DEF PRSpec
=============================================================================
