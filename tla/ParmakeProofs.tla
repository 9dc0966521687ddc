---------------------------- MODULE ParmakeProofs ----------------------------
(***************************************************************************)
(* Proofs about parmake (module Parmake). The commands of a rule are       *)
(* started only after those of all its dependencies have succeeded. A      *)
(* state is written by a worker that has taken its rule and released the   *)
(* mutex; what makes the order safe is that a state which says TARGET_DONE *)
(* is never taken back, because the outcome of a rule does not depend on   *)
(* who runs it, and that, when no target is a file at the start, nothing   *)
(* else than the outcome of the commands is ever written. is_Cycle's       *)
(* answers are exact: the visited set holds none but active calls, and no  *)
(* cycle can be reached from what the active loops have behind them. And   *)
(* every rule that is needed is, at any time, on the list, with one        *)
(* worker, run, or dropped because a dependency failed.                    *)
(***************************************************************************)
EXTENDS Parmake, SequenceTheorems, WellFoundedInduction, TLAPS

Positions == {"lock", "scan", "run", "skip", "finish", "broadcast", "asleep", "exit"}

MainTypes ==
  /\ phase \in {"check", "collect", "work", "done"}
  /\ g \in [Vertices -> Seq(Vertices)]
  /\ neighbors \in Seq(Vertices) /\ idx \in Nat
  /\ phase = "check" => idx \in 1..Len(neighbors)
  /\ calls \in Seq(Seq(Vertices))
  /\ phase = "collect" => calls # <<>>

\* An active call that waits for another one has the goal it waits for.
CallsWait == \A k \in 1..(Len(calls) - 1) : calls[k] # <<>>

WorkerTypes ==
  /\ rules \in Seq(Vertices)
  /\ state \in [Vertices -> {TARGET_ERROR, TARGET_CYCLE, TARGET_READY, TARGET_SKIPPED, TARGET_DONE}]
  /\ pc \in [Workers -> Positions] /\ i \in [Workers -> Nat]
  /\ goal \in [Workers -> Vertices \cup {NULL}]

\* The worker that holds the mutex is at a rule of the list; one that has
\* taken a rule has it.
ScanInv ==
  \A w \in Workers :
     /\ pc[w] = "scan" => lock = w /\ i[w] \in 1..Len(rules)
     /\ pc[w] \in {"run", "skip", "finish"} => goal[w] \in Vertices

\* Only a rule whose commands succeed is ever done.
DoneInv == \A v \in Vertices : state[v] = TARGET_DONE => v \notin fails

\* Without files at the start a state says that the rule was not handled, or
\* how its commands ended.
OrderInv ==
  exists = {} =>
     /\ \A v \in Vertices : state[v] \notin {TARGET_READY, TARGET_SKIPPED}
     /\ \A w \in Workers :
           /\ pc[w] # "skip"
           /\ pc[w] = "run" => \A k \in DOMAIN g[goal[w]] : state[g[goal[w]][k]] = TARGET_DONE

ParInv == MainTypes /\ CallsWait /\ WorkerTypes /\ ScanInv /\ DoneInv /\ OrderInv

-----------------------------------------------------------------------------
(* The operators *)

\* Every non-empty set of naturals has a least element.
LEMMA Least ==
  ASSUME NEW T, T \subseteq Nat, T # {}
  PROVE  \E x \in T : \A y \in T : x <= y
<1>1. \E R : IsWellFoundedOn(R, Nat) /\ \A a, b \in Nat : a < b => <<a, b>> \in R
  <2>1. \A a, b \in Nat : a < b => <<a, b>> \in OpToRel(<, Nat)
    BY DEF OpToRel
  <2> QED
    BY <2>1, NatLessThanWellFounded, Zenon
<1>2. PICK R : IsWellFoundedOn(R, Nat) /\ \A a, b \in Nat : a < b => <<a, b>> \in R
  BY <1>1
<1>3. \E x \in T : \A y \in T : ~(<<y, x>> \in R)
  <2>1. IsWellFoundedOn(R, Nat)
   BY <1>2
  <2> QED
   BY <2>1, WFMin, Zenon
<1>4. PICK x \in T : \A y \in T : ~(<<y, x>> \in R)
  BY <1>3
<1>5. \A y \in T : ~(y < x)
  BY <1>2, <1>4
<1>6. \A y \in T : x <= y
  BY <1>5
<1> QED
  BY <1>6

\* vector_erase leaves a vector of targets.
LEMMA RemoveAtType ==
  ASSUME NEW S, NEW s \in Seq(S), NEW k \in 1..Len(s)
  PROVE  RemoveAt(s, k) \in Seq(S) /\ Len(RemoveAt(s, k)) = Len(s) - 1
<1> DEFINE before == SubSeq(s, 1, k - 1)
           after  == SubSeq(s, k + 1, Len(s))
<1>1. Len(s) \in Nat /\ k \in Nat /\ k >= 1 /\ k <= Len(s)
  OBVIOUS
<1>2. before \in Seq(S) /\ Len(before) = k - 1
  BY <1>1
<1>3. after \in Seq(S) /\ Len(after) = Len(s) - k
  BY <1>1
<1>4. RemoveAt(s, k) = before \o after
  BY DEF RemoveAt
<1> HIDE DEF before, after
<1>5. before \o after \in Seq(S) /\ Len(before \o after) = Len(before) + Len(after)
  BY <1>2, <1>3, ConcatProperties
<1> QED
  BY <1>1, <1>2, <1>3, <1>4, <1>5

\* The vector of frames without the last one.
LEMMA FrontType ==
  ASSUME NEW S, NEW s \in Seq(S), s # <<>>
  PROVE  /\ Front(s) \in Seq(S) /\ Len(Front(s)) = Len(s) - 1
         /\ \A k \in 1..(Len(s) - 1) : Front(s)[k] = s[k]
<1> DEFINE n == Len(s) - 1
<1>1. n \in Nat /\ Len(s) = n + 1 /\ \A k \in 1..n : s[k] \in S
  BY LenProperties, EmptySeq, ElementOfSeq
<1>2. Front(s) = SubSeq(s, 1, n)
  BY DEF Front
<1> HIDE DEF n
<1>3. /\ SubSeq(s, 1, n) \in Seq(S) /\ Len(SubSeq(s, 1, n)) = IF 1 <= n THEN n - 1 + 1 ELSE 0
      /\ \A k \in 1..(n - 1 + 1) : SubSeq(s, 1, n)[k] = s[1 + k - 1]
  BY <1>1, SubSeqProperties
<1>4. \A k \in 1..n : SubSeq(s, 1, n)[k] = s[k]
  BY <1>1, <1>3
<1> QED
  BY <1>1, <1>2, <1>3, <1>4

\* The goals that are left after a goal was checked.
LEMMA RemainingType ==
  ASSUME MainTypes, phase = "check"
  PROVE  Remaining \in Seq(Vertices)
  BY RemoveAtType DEF MainTypes, Remaining

\* get_status: a rule is ready only when all its dependencies are done and it
\* is no file; it is skipped only when it is a file or a dependency was.
LEMMA StatusSound ==
  ASSUME WorkerTypes, g \in [Vertices -> Seq(Vertices)], NEW v \in Vertices, exists = {},
         \A u \in Vertices : state[u] \notin {TARGET_READY, TARGET_SKIPPED}
  PROVE  /\ get_status(v) # TARGET_SKIPPED
         /\ get_status(v) = TARGET_READY => \A k \in DOMAIN g[v] : state[g[v][k]] = TARGET_DONE
<1> DEFINE waits == {k \in DOMAIN g[v] : state[g[v][k]] # TARGET_DONE}
           first == CHOOSE k \in waits : \A l \in waits : k <= l
<1>1. waits \subseteq Nat
  BY DEF WorkerTypes
<1>2. CASE waits = {}
  BY <1>2 DEF get_status, TARGET_SKIPPED, TARGET_READY
<1>3. CASE waits # {}
  <2>1. first \in waits
    <3>1. \E k \in waits : \A l \in waits : k <= l
      <4> HIDE DEF waits
      <4> QED
        BY <1>1, <1>3, Least
    <3> HIDE DEF waits
    <3> QED
      BY <3>1
  <2>2. get_status(v) = state[g[v][first]]
    BY <1>3 DEF get_status
  <2>3. g[v][first] \in Vertices
    BY <2>1
  <2> QED
    BY <2>2, <2>3
<1> QED
  BY <1>2, <1>3

-----------------------------------------------------------------------------
(* The steps *)

LEMMA ParInit ==
  Init => ParInv
<1> SUFFICES ASSUME Init PROVE ParInv
  OBVIOUS
<1>1. PICK in \in Inputs : g = in.g /\ neighbors = in.goals
  BY DEF Init
<1>2. g \in [Vertices -> Seq(Vertices)] /\ neighbors \in Seq(Vertices) /\ neighbors # <<>>
  BY <1>1, ParmakeAssumption
<1>3. MainTypes /\ CallsWait
  BY <1>2 DEF Init, MainTypes, CallsWait
<1>4. WorkerTypes
  BY DEF Init, WorkerTypes, Positions
<1>5. ScanInv /\ DoneInv
  BY DEF Init, ScanInv, DoneInv, TARGET_CYCLE, TARGET_DONE
<1>6. OrderInv
  BY DEF Init, OrderInv, TARGET_CYCLE, TARGET_READY, TARGET_SKIPPED
<1> QED
  BY <1>3, <1>4, <1>5, <1>6 DEF ParInv

\* The main thread: no worker has a position but the first before they start,
\* and the list only grows.
MainOnly ==
  /\ UNCHANGED <<exists, fails, g, state, lock, pc, i, goal, started>>
  /\ rules' \in Seq(Vertices) /\ Len(rules') >= Len(rules)

LEMMA MainKeeps ==
  ASSUME ParInv, MainOnly, MainTypes', CallsWait'
  PROVE  ParInv'
<1>1. WorkerTypes'
  BY DEF ParInv, MainOnly, WorkerTypes
<1>2. ScanInv'
  BY DEF ParInv, MainOnly, ScanInv, WorkerTypes
<1>3. DoneInv' /\ OrderInv'
  BY DEF ParInv, MainOnly, DoneInv, OrderInv
<1> QED
  BY <1>1, <1>2, <1>3 DEF ParInv

LEMMA MainStep ==
  ASSUME ParInv, Main
  PROVE  ParInv'
<1> USE DEF ParInv
<1>1. CASE CheckStep
  <2>1. UNCHANGED <<g, main_vars, worker_vars>>
    BY <1>1 DEF CheckStep, cycle!Next, cycle!Found, cycle!Enter, cycle!Propagate,
                cycle!Recurse, cycle!LoopDone
  <2>2. MainOnly /\ MainTypes' /\ CallsWait'
    BY <2>1 DEF main_vars, worker_vars, MainOnly, MainTypes, CallsWait, WorkerTypes
  <2> QED
    BY <2>2, MainKeeps
<1>2. CASE CheckNextGoal
  <2>1. Remaining \in Seq(Vertices)
    BY <1>2, RemainingType DEF CheckNextGoal
  <2>2. MainOnly /\ MainTypes' /\ CallsWait'
    BY <1>2, <2>1 DEF CheckNextGoal, worker_vars, MainOnly, MainTypes, CallsWait, WorkerTypes
  <2> QED
    BY <2>2, MainKeeps
<1>3. CASE AllChecked
  <2>1. Remaining \in Seq(Vertices)
    BY <1>3, RemainingType DEF AllChecked
  <2>2. MainOnly /\ MainTypes' /\ CallsWait'
    BY <1>3, <2>1 DEF AllChecked, worker_vars, check_vars, MainOnly, MainTypes, CallsWait, WorkerTypes
  <2> QED
    BY <2>2, MainKeeps
<1>4. CASE Descend
  <2>1. Goals \in Seq(Vertices) /\ Goals # <<>> /\ Len(calls) \in Nat /\ calls # <<>>
    BY <1>4 DEF Descend, MainTypes, Goals, Last
  <2>2. g[Head(Goals)] \in Seq(Vertices)
    BY <2>1 DEF MainTypes
  <2>3. calls' = Append(calls, g[Head(Goals)])
    BY <1>4 DEF Descend
  <2>4. MainTypes'
    <3>1. calls' \in Seq(Seq(Vertices)) /\ calls' # <<>>
      <4> DEFINE below == g[Head(Goals)]
      <4>1. below \in Seq(Vertices) /\ calls' = Append(calls, below) /\ calls \in Seq(Seq(Vertices))
        BY <2>2, <2>3 DEF MainTypes
      <4> HIDE DEF below
      <4> QED
        BY <4>1, AppendProperties
    <3> QED
      BY <1>4, <3>1 DEF Descend, MainTypes, check_vars
  <2>5. CallsWait'
    BY <2>1, <2>2, <2>3 DEF MainTypes, CallsWait, Goals, Last
  <2>6. MainOnly
    BY <1>4 DEF Descend, MainOnly, worker_vars, check_vars, WorkerTypes
  <2> QED
    BY <2>4, <2>5, <2>6, MainKeeps
<1>5. CASE Ascend
  <2> DEFINE caller == Last(Front(calls))
             below  == Front(Front(calls))
  <2>1. Len(calls) \in Nat /\ Len(calls) > 1 /\ calls \in Seq(Seq(Vertices))
    BY <1>5 DEF Ascend, MainTypes
  <2>2. Front(calls) \in Seq(Seq(Vertices)) /\ Len(Front(calls)) = Len(calls) - 1
        /\ \A k \in 1..(Len(calls) - 1) : Front(calls)[k] = calls[k]
    BY <2>1, FrontType
  <2>3. caller = calls[Len(calls) - 1]
    <3> DEFINE front == Front(calls)
               n == Len(calls) - 1
    <3>1. caller = front[Len(front)]
      BY DEF Last
    <3>2. Len(front) = n /\ n \in 1..n /\ \A k \in 1..n : front[k] = calls[k]
      BY <2>1, <2>2
    <3> HIDE DEF front, n, caller
    <3>3. caller = calls[n]
      BY <3>1, <3>2
    <3> QED
      BY <3>3 DEF n
  <2>4. caller \in Seq(Vertices) /\ caller # <<>>
    <3> DEFINE n == Len(calls) - 1
    <3>1. n \in 1..Len(calls) /\ n \in 1..(Len(calls) - 1)
      BY <2>1
    <3>2. calls[n] \in Seq(Vertices)
      <4> HIDE DEF n
      <4> QED
        BY <2>1, <3>1, ElementOfSeq
    <3>3. calls[n] # <<>>
      BY <3>1 DEF CallsWait
    <3> QED
      BY <2>3, <3>2, <3>3
  <2>5. below \in Seq(Seq(Vertices)) /\ Len(below) = Len(calls) - 2
        /\ \A k \in 1..(Len(calls) - 2) : below[k] = calls[k]
    <3> DEFINE front == Front(calls)
    <3>1. front \in Seq(Seq(Vertices)) /\ front # <<>> /\ Len(front) = Len(calls) - 1
          /\ \A k \in 1..(Len(calls) - 1) : front[k] = calls[k]
      BY <2>1, <2>2
    <3> HIDE DEF front
    <3>2. /\ Front(front) \in Seq(Seq(Vertices)) /\ Len(Front(front)) = Len(front) - 1
          /\ \A k \in 1..(Len(front) - 1) : Front(front)[k] = front[k]
      BY <3>1, FrontType
    <3>3. below = Front(front)
      BY DEF front
    <3> HIDE DEF below
    <3> QED
      BY <2>1, <3>1, <3>2, <3>3
  <2>6. rules' = Pushed(Head(caller)) /\ calls' = Append(below, Tail(caller))
    BY <1>5 DEF Ascend
  <2> HIDE DEF caller, below
  <2>7. Head(caller) \in Vertices /\ Tail(caller) \in Seq(Vertices)
    BY <2>4
  <2>8. MainTypes'
    <3>1. calls' \in Seq(Seq(Vertices)) /\ calls' # <<>>
      BY <2>5, <2>6, <2>7, AppendProperties
    <3> QED
      BY <1>5, <3>1 DEF Ascend, MainTypes, check_vars
  <2>9. CallsWait'
    <3>1. Len(calls') = Len(below) + 1 /\ \A k \in 1..Len(below) : calls'[k] = below[k]
      BY <2>5, <2>6, <2>7, AppendProperties
    <3>2. Len(below) = Len(calls) - 2 /\ Len(calls') - 1 = Len(below)
      BY <2>1, <2>5, <3>1
    <3> QED
      BY <2>1, <2>5, <3>1, <3>2 DEF CallsWait
  <2>10. MainOnly
    BY <1>5, <2>6, <2>7 DEF Ascend, MainOnly, check_vars, WorkerTypes, Pushed
  <2> QED
    BY <2>8, <2>9, <2>10, MainKeeps
<1>6. CASE StartWorkers \/ Join
  <2>1. MainOnly /\ MainTypes' /\ CallsWait'
    BY <1>6 DEF StartWorkers, Join, worker_vars, check_vars, MainOnly, MainTypes, CallsWait, WorkerTypes
  <2> QED
    BY <2>1, MainKeeps
<1> QED
  BY <1>1, <1>2, <1>3, <1>4, <1>5, <1>6 DEF Main

LEMMA WorkerStep ==
  ASSUME ParInv, NEW w \in Workers, Step(w) \/ SpuriousWakeup(w)
  PROVE  ParInv'
<1> USE DEF ParInv
<1>1. MainTypes' /\ CallsWait' /\ UNCHANGED <<exists, fails, g>>
  BY DEF Step, Lock, Take, PassOver, Sleep, Run, Finish, Broadcast, SpuriousWakeup,
         main_vars, check_vars, MainTypes, CallsWait
<1>2. CASE Lock(w)
  <2>1. WorkerTypes'
    BY <1>2, SMTT(20) DEF Lock, Goto, WorkerTypes, Positions
  <2>2. ScanInv'
    <3>1. \A u \in Workers : pc[u] # "scan"
      BY <1>2, ParmakeAssumption DEF Lock, ScanInv
    <3>2. UNCHANGED <<rules, goal>> /\ Len(rules) \in Nat /\ (rules # <<>> => Len(rules) >= 1)
      BY <1>2, EmptySeq DEF Lock, WorkerTypes
    <3>3. \/ rules = <<>> /\ pc' = [pc EXCEPT ![w] = "exit"]
          \/ /\ rules # <<>> /\ lock' = w /\ i' = [i EXCEPT ![w] = 1]
             /\ pc' = [pc EXCEPT ![w] = "scan"]
      BY <1>2 DEF Lock, Goto
    <3> QED
      BY <3>1, <3>2, <3>3 DEF WorkerTypes, ScanInv
  <2>3. DoneInv' /\ OrderInv'
    BY <1>1, <1>2 DEF Lock, Goto, WorkerTypes, DoneInv, OrderInv
  <2> QED
    BY <1>1, <2>1, <2>2, <2>3
<1>3. CASE Take(w)
  <2> DEFINE v == Scanned(w)
  <2>1. lock = w /\ i[w] \in 1..Len(rules) /\ v \in Vertices
    BY <1>3 DEF Take, ScanInv, WorkerTypes, Scanned
  <2>2. Erased(w) \in Seq(Vertices)
    BY <2>1, RemoveAtType DEF Erased, WorkerTypes
  <2>3. DOMAIN AfterTake = {TARGET_DONE, TARGET_ERROR, TARGET_READY, TARGET_SKIPPED}
        /\ AfterTake[TARGET_DONE] = "lock" /\ AfterTake[TARGET_ERROR] = "broadcast"
        /\ AfterTake[TARGET_READY] = "run" /\ AfterTake[TARGET_SKIPPED] = "skip"
    BY DEF AfterTake, TARGET_DONE, TARGET_ERROR, TARGET_READY, TARGET_SKIPPED
  <2>4. PICK at \in {"lock", "broadcast", "run", "skip"} :
          /\ pc' = [pc EXCEPT ![w] = at]
          /\ at = "run" => Status(w) = TARGET_READY
          /\ at = "skip" => Status(w) = TARGET_SKIPPED
    BY <1>3, <2>3 DEF Take, Goto
  <2>5. /\ rules' = Erased(w) /\ goal' = [goal EXCEPT ![w] = v] /\ lock' = NULL
        /\ UNCHANGED <<state, i, started, exists, fails, g>>
    BY <1>1, <1>3 DEF Take
  <2> HIDE DEF v
  <2>6. WorkerTypes'
    BY <2>1, <2>2, <2>4, <2>5 DEF WorkerTypes, Positions
  <2>7. ScanInv'
    <3>1. \A u \in Workers : u # w => pc[u] # "scan"
      BY <2>1 DEF ScanInv
    <3> QED
      BY <2>1, <2>4, <2>5, <3>1 DEF ScanInv, WorkerTypes
  <2>8. DoneInv'
    BY <2>5 DEF DoneInv
  <2>9. OrderInv'
    <3> SUFFICES ASSUME exists = {} PROVE OrderInv'
      BY <2>5 DEF OrderInv
    <3>1. /\ \A u \in Vertices : state[u] \notin {TARGET_READY, TARGET_SKIPPED}
          /\ \A u \in Workers :
               /\ pc[u] # "skip"
               /\ pc[u] = "run" => \A k \in DOMAIN g[goal[u]] : state[g[goal[u]][k]] = TARGET_DONE
      BY DEF OrderInv
    <3>2. g \in [Vertices -> Seq(Vertices)]
      BY DEF MainTypes
    <3>3. /\ get_status(v) # TARGET_SKIPPED
          /\ get_status(v) = TARGET_READY => \A k \in DOMAIN g[v] : state[g[v][k]] = TARGET_DONE
      BY <2>1, <3>1, <3>2, StatusSound
    <3>4. Status(w) # TARGET_SKIPPED /\ (Status(w) = TARGET_READY => get_status(v) = TARGET_READY)
      BY <3>3 DEF Status, v, TARGET_DONE, TARGET_SKIPPED, TARGET_READY
    <3>5. at # "skip" /\ (at = "run" => \A k \in DOMAIN g[v] : state[g[v][k]] = TARGET_DONE)
      BY <2>4, <3>3, <3>4
    <3>6. \A u \in Workers :
            /\ pc'[u] # "skip"
            /\ pc'[u] = "run" => \A k \in DOMAIN g[goal'[u]] : state[g[goal'[u]][k]] = TARGET_DONE
      BY <2>4, <2>5, <3>1, <3>5 DEF WorkerTypes
    <3> QED
      BY <2>5, <3>1, <3>6 DEF OrderInv
  <2> QED
    BY <1>1, <2>6, <2>7, <2>8, <2>9
<1>4. CASE PassOver(w)
  <2>1. WorkerTypes'
    BY <1>4 DEF PassOver, WorkerTypes
  <2>2. ScanInv'
    BY <1>4 DEF PassOver, WorkerTypes, ScanInv
  <2>3. DoneInv' /\ OrderInv'
    BY <1>1, <1>4 DEF PassOver, WorkerTypes, DoneInv, OrderInv
  <2> QED
    BY <1>1, <2>1, <2>2, <2>3
<1>5. CASE Sleep(w)
  <2>1. WorkerTypes'
    BY <1>5 DEF Sleep, Goto, WorkerTypes, Positions
  <2>2. ScanInv'
    BY <1>5 DEF Sleep, Goto, WorkerTypes, ScanInv
  <2>3. DoneInv' /\ OrderInv'
    BY <1>1, <1>5 DEF Sleep, Goto, WorkerTypes, DoneInv, OrderInv
  <2> QED
    BY <1>1, <2>1, <2>2, <2>3
<1>6. CASE Run(w)
  <2>1. WorkerTypes'
    BY <1>6 DEF Run, Goto, WorkerTypes, Positions
  <2>2. ScanInv'
    BY <1>6 DEF Run, Goto, WorkerTypes, ScanInv
  <2>3. DoneInv' /\ OrderInv'
    BY <1>1, <1>6 DEF Run, Goto, WorkerTypes, DoneInv, OrderInv
  <2> QED
    BY <1>1, <2>1, <2>2, <2>3
<1>7. CASE Finish(w)
  <2> DEFINE written == IF pc[w] = "skip" THEN TARGET_READY ELSE Outcome(goal[w])
  <2>1. /\ pc[w] \in {"finish", "skip"} /\ goal[w] \in Vertices
        /\ state' = [state EXCEPT ![goal[w]] = written] /\ pc' = [pc EXCEPT ![w] = "broadcast"]
        /\ UNCHANGED <<rules, lock, i, goal, started, exists, fails, g>>
    BY <1>1, <1>7 DEF Finish, Goto, ScanInv
  <2>2. /\ written \in {TARGET_READY, TARGET_ERROR, TARGET_DONE}
        /\ written = TARGET_READY => pc[w] = "skip"
        /\ written = TARGET_DONE <=> pc[w] # "skip" /\ goal[w] \notin fails
    BY DEF Outcome, TARGET_READY, TARGET_ERROR, TARGET_DONE
  <2> HIDE DEF written
  <2>3. WorkerTypes'
    BY <2>1, <2>2 DEF WorkerTypes, Positions
  <2>4. ScanInv'
    BY <2>1 DEF WorkerTypes, ScanInv
  <2>5. DoneInv'
    BY <2>1, <2>2 DEF WorkerTypes, DoneInv
  <2>6. OrderInv'
    <3> SUFFICES ASSUME exists = {} PROVE OrderInv'
      BY <2>1 DEF OrderInv
    <3>1. /\ \A u \in Vertices : state[u] \notin {TARGET_READY, TARGET_SKIPPED}
          /\ \A u \in Workers :
               /\ pc[u] # "skip"
               /\ pc[u] = "run" => \A k \in DOMAIN g[goal[u]] : state[g[goal[u]][k]] = TARGET_DONE
      BY DEF OrderInv
    <3>2. written \in {TARGET_ERROR, TARGET_DONE}
      BY <2>1, <2>2, <3>1
    <3>3. \A u \in Vertices : state[u] = TARGET_DONE => state'[u] = TARGET_DONE
      BY <2>1, <2>2, <3>1 DEF WorkerTypes, DoneInv
    <3>4. \A u \in Vertices : state'[u] \notin {TARGET_READY, TARGET_SKIPPED}
      BY <2>1, <3>1, <3>2 DEF WorkerTypes, TARGET_ERROR, TARGET_DONE, TARGET_READY, TARGET_SKIPPED
    <3>5. \A u \in Workers : pc'[u] # "skip" /\ (pc'[u] = "run" => pc[u] = "run")
      BY <2>1, <3>1 DEF WorkerTypes
    <3>6. \A u \in Workers : pc[u] = "run" =>
            \A k \in DOMAIN g[goal[u]] : g[goal[u]][k] \in Vertices
      BY DEF MainTypes, ScanInv
    <3> QED
      BY <2>1, <3>1, <3>3, <3>4, <3>5, <3>6 DEF OrderInv
  <2> QED
    BY <1>1, <2>3, <2>4, <2>5, <2>6
<1>8. CASE Broadcast(w)
  <2>1. /\ goal' = [goal EXCEPT ![w] = NULL]
        /\ \A u \in Workers : pc'[u] = "lock" \/ (u # w /\ pc'[u] = pc[u])
        /\ pc' \in [Workers -> Positions]
        /\ UNCHANGED <<rules, state, lock, i, started, exists, fails, g>>
    BY <1>1, <1>8 DEF Broadcast, WorkerTypes, Positions
  <2>2. WorkerTypes'
    BY <2>1 DEF WorkerTypes
  <2>3. ScanInv'
    BY <2>1 DEF WorkerTypes, ScanInv
  <2>4. DoneInv' /\ OrderInv'
    BY <2>1 DEF WorkerTypes, DoneInv, OrderInv
  <2> QED
    BY <1>1, <2>2, <2>3, <2>4
<1>9. CASE SpuriousWakeup(w)
  <2>1. WorkerTypes'
    BY <1>9 DEF SpuriousWakeup, Goto, WorkerTypes, Positions
  <2>2. ScanInv'
    BY <1>9 DEF SpuriousWakeup, Goto, WorkerTypes, ScanInv
  <2>3. DoneInv' /\ OrderInv'
    BY <1>1, <1>9 DEF SpuriousWakeup, Goto, WorkerTypes, DoneInv, OrderInv
  <2> QED
    BY <1>1, <2>1, <2>2, <2>3
<1> QED
  BY <1>2, <1>3, <1>4, <1>5, <1>6, <1>7, <1>8, <1>9 DEF Step

LEMMA ParStep ==
  ASSUME ParInv, [Next]_vars
  PROVE  ParInv'
<1>1. CASE Main
  BY <1>1, MainStep
<1>2. ASSUME NEW w \in Workers, Step(w) \/ SpuriousWakeup(w) PROVE ParInv'
  BY <1>2, WorkerStep
<1>3. CASE UNCHANGED vars
  <2>1. UNCHANGED <<main_vars, check_vars, worker_vars>>
    BY <1>3 DEF vars
  <2> QED
    BY <2>1 DEF main_vars, check_vars, worker_vars, ParInv, MainTypes, CallsWait,
                WorkerTypes, ScanInv, DoneInv, OrderInv
<1> QED
  BY <1>1, <1>2, <1>3 DEF Next

\* The invariant holds in every state of the program.
LEMMA ParInvariance ==
  Spec => []ParInv
<1>1. ParInv /\ [Next]_vars => ParInv'
  BY ParStep
<1> QED
  BY ParInit, <1>1, PTL DEF Spec

\* For every makefile, every set of failing rules and any number of workers:
\* when no target is a file at the start, the commands of a rule are started
\* only when the commands of all its dependencies have succeeded, although
\* process_rules writes the states without the mutex (parmake.c:92-97, 126-145).
THEOREM DependenciesCorrect ==
  Spec => []DependenciesFirst
<1>1. ParInv => DependenciesFirst
  BY DEF ParInv, OrderInv, DependenciesFirst, ToSet
<1> QED
  BY <1>1, ParInvariance, PTL

-----------------------------------------------------------------------------
(* Reachability *)

\* The targets below x in graph h, by a path that is not empty.
Closed(h, S) == \A u \in S : ToSet(h[u]) \subseteq S
Below(h, x) ==
  {y \in Vertices :
     \A S \in SUBSET Vertices : (ToSet(h[x]) \subseteq S /\ Closed(h, S)) => y \in S}
Acyclic(h, x) == \A y \in Below(h, x) \cup {x} : y \notin Below(h, y)

LEMMA BelowStep ==
  ASSUME NEW h \in [Vertices -> Seq(Vertices)], NEW x \in Vertices, NEW y \in ToSet(h[x])
  PROVE  y \in Below(h, x)
<1>1. y \in Vertices
  BY DEF ToSet
<1> QED
  BY <1>1 DEF Below

LEMMA BelowFurther ==
  ASSUME NEW h \in [Vertices -> Seq(Vertices)], NEW x \in Vertices, NEW y \in Below(h, x),
         NEW z \in ToSet(h[y]) \cup Below(h, y)
  PROVE  z \in Below(h, x) /\ z \in Vertices
<1>1. y \in Vertices
  BY DEF Below
<1>2. z \in Vertices
  BY <1>1 DEF Below, ToSet
<1>3. ASSUME NEW S \in SUBSET Vertices, ToSet(h[x]) \subseteq S, Closed(h, S) PROVE z \in S
  <2>1. y \in S
    BY <1>3 DEF Below
  <2>2. ToSet(h[y]) \subseteq S
    BY <1>3, <2>1 DEF Closed
  <2> QED
    BY <1>3, <2>2 DEF Below
<1> QED
  BY <1>2, <1>3 DEF Below

\* Below x are its dependencies and what is below them.
LEMMA BelowSplit ==
  ASSUME NEW h \in [Vertices -> Seq(Vertices)], NEW x \in Vertices, NEW z \in Below(h, x)
  PROVE  \E y \in ToSet(h[x]) : z = y \/ z \in Below(h, y)
<1> DEFINE S == {u \in Vertices : \E y \in ToSet(h[x]) : u = y \/ u \in Below(h, y)}
<1>1. ToSet(h[x]) \subseteq Vertices
  BY DEF ToSet
<1>2. ToSet(h[x]) \subseteq S
  BY <1>1
<1>3. Closed(h, S)
  <2> SUFFICES ASSUME NEW u \in S, NEW t \in ToSet(h[u]) PROVE t \in S
    BY DEF Closed
  <2>1. PICK y \in ToSet(h[x]) : u = y \/ u \in Below(h, y)
    OBVIOUS
  <2>2. y \in Vertices
    BY <1>1
  <2>3. t \in Below(h, y)
    BY <2>1, <2>2, BelowStep, BelowFurther
  <2>4. t \in Vertices
    BY <2>3 DEF Below
  <2> QED
    BY <2>3, <2>4
<1>4. S \in SUBSET Vertices
  OBVIOUS
<1>5. z \in S
  <2> HIDE DEF S
  <2> QED
    BY <1>2, <1>3, <1>4 DEF Below
<1> QED
  BY <1>5

\* When no cycle can be reached from the dependencies, none can be from x.
LEMMA AcyclicUp ==
  ASSUME NEW h \in [Vertices -> Seq(Vertices)], NEW x \in Vertices,
         \A y \in ToSet(h[x]) : Acyclic(h, y)
  PROVE  Acyclic(h, x)
<1>1. \A z \in Below(h, x) : z \notin Below(h, z)
  <2> TAKE z \in Below(h, x)
  <2>1. PICK y \in ToSet(h[x]) : z = y \/ z \in Below(h, y)
    BY BelowSplit
  <2> QED
    BY <2>1 DEF Acyclic
<1> QED
  BY <1>1 DEF Acyclic

LEMMA AfterIsBelow ==
  ASSUME g \in [Vertices -> Seq(Vertices)], NEW x \in Vertices
  PROVE  cycle!After(x) = Below(g, x)
<1>1. \A y, z \in Vertices : cycle!Edge(y, z) <=> z \in ToSet(g[y])
  BY DEF cycle!Edge, ToSet
<1>2. \A y \in Vertices : ToSet(g[y]) \subseteq Vertices
  BY DEF ToSet
<1>3. ASSUME NEW S \in SUBSET Vertices
      PROVE  /\ (\A z \in Vertices : cycle!Edge(x, z) => z \in S) <=> ToSet(g[x]) \subseteq S
             /\ (\A u \in S, z \in Vertices : cycle!Edge(u, z) => z \in S) <=> Closed(g, S)
  BY <1>1, <1>2 DEF Closed
<1> QED
  BY <1>3 DEF cycle!After, Below

LEMMA CyclesAre ==
  ASSUME g \in [Vertices -> Seq(Vertices)], root \in Vertices
  PROVE  cycle!CycleReachable <=> ~Acyclic(g, root)
<1>1. cycle!After(root) = Below(g, root) /\ Below(g, root) \subseteq Vertices
  BY AfterIsBelow DEF Below
<1>2. \A x \in Below(g, root) \cup {root} : cycle!After(x) = Below(g, x)
  BY <1>1, AfterIsBelow
<1> QED
  BY <1>1, <1>2 DEF cycle!CycleReachable, Acyclic

-----------------------------------------------------------------------------
(* is_Cycle *)

CheckTypes ==
  /\ g \in [Vertices -> Seq(Vertices)] /\ root \in Vertices
  /\ call \in Vertices \cup {NULL} /\ ret \in {0, 1, NULL}
  /\ stack \in Seq([v : Vertices, i : Nat \ {0}])

\* Each active call was made by the one under it.
PathInv ==
  /\ stack # <<>> => stack[1].v = root
  /\ \A k \in 2..Len(stack) :
       /\ stack[k - 1].i >= 2 /\ stack[k - 1].i - 1 \in DOMAIN g[stack[k - 1].v]
       /\ g[stack[k - 1].v][stack[k - 1].i - 1] = stack[k].v
  /\ call # NULL =>
       /\ ret # 1
       /\ IF stack = <<>> THEN call = root
          ELSE LET top == stack[Len(stack)]
               IN  /\ top.i >= 2 /\ top.i - 1 \in DOMAIN g[top.v]
                   /\ g[top.v][top.i - 1] = call
  /\ \A k \in 1..Len(stack) : \A l \in 1..(k - 1) : stack[k].v \in Below(g, stack[l].v)

\* The visited set has only active calls in it, a part of them.
VisitedInv ==
  /\ ret = 1 => cycle!Visited = {}
  /\ \A v \in cycle!Visited : \E k \in 1..Len(stack) : stack[k].v = v

\* Where the loop of frame k stands: what is before is answered.
Behind(s, c, k) == IF k = Len(s) /\ c = NULL THEN s[k].i ELSE s[k].i - 1

\* What the loops have behind them reaches no cycle.
AnsweredInv ==
  /\ ret = 1 => ~Acyclic(g, root)
  /\ ret # 1 => \A k \in 1..Len(stack) : \A j \in DOMAIN g[stack[k].v] :
                   j < Behind(stack, call, k) => Acyclic(g, g[stack[k].v][j])
  /\ cycle!Returned => ret = 1 \/ (ret = 0 /\ Acyclic(g, root))

CheckInv == CheckTypes /\ PathInv /\ VisitedInv /\ AnsweredInv

LEMMA FrameType ==
  ASSUME NEW s \in Seq([v : Vertices, i : Nat \ {0}]), NEW k \in 1..Len(s)
  PROVE  s[k].v \in Vertices /\ s[k].i \in Nat /\ s[k].i >= 1
<1>1. s[k] \in [v : Vertices, i : Nat \ {0}]
  BY ElementOfSeq
<1> QED
  BY <1>1

\* The stack without its last frame.
LEMMA PopType ==
  ASSUME NEW S, NEW s \in Seq(S), s # <<>>
  PROVE  /\ Len(s) \in Nat /\ Len(s) >= 1
         /\ SubSeq(s, 1, Len(s) - 1) \in Seq(S) /\ Len(SubSeq(s, 1, Len(s) - 1)) = Len(s) - 1
         /\ \A k \in 1..(Len(s) - 1) : SubSeq(s, 1, Len(s) - 1)[k] = s[k]
<1>1. Front(s) = SubSeq(s, 1, Len(s) - 1)
  BY DEF Front
<1>2. Len(s) \in Nat /\ Len(s) >= 1
  BY EmptySeq
<1> QED
  BY <1>1, <1>2, FrontType

LEMMA CheckFound ==
  ASSUME CheckInv, cycle!Found
  PROVE  CheckInv'
<1>1. /\ call \in Vertices /\ call \in cycle!Visited /\ call' = NULL /\ ret' = 1 /\ set_' = NULL
      /\ UNCHANGED <<g, root, stack>>
  BY DEF CheckInv, CheckTypes, cycle!Found
<1>2. PICK k \in 1..Len(stack) : stack[k].v = call
  BY <1>1 DEF CheckInv, VisitedInv
<1> DEFINE n == Len(stack)
           top == stack[n]
           x == top.v
<1>3. stack # <<>> /\ n \in Nat /\ n >= 1 /\ k \in 1..n /\ k \in Nat /\ x \in Vertices
      /\ stack[1].v = root /\ \A l \in 1..n : stack[l].v \in Vertices
  <2>1. stack \in Seq([v : Vertices, i : Nat \ {0}]) /\ n \in Nat
    BY DEF CheckInv, CheckTypes
  <2>2. \A l \in 1..n : stack[l].v \in Vertices
    BY <2>1, FrameType
  <2>3. n >= 1 /\ n \in 1..n /\ k \in Nat
    BY <1>2, <2>1
  <2>4. stack # <<>>
    BY <2>1, <2>3, EmptySeq
  <2> QED
    BY <1>2, <2>1, <2>2, <2>3, <2>4 DEF CheckInv, PathInv
<1>4. g \in [Vertices -> Seq(Vertices)] /\ root \in Vertices
  BY DEF CheckInv, CheckTypes
<1>5. call \in ToSet(g[x])
  BY <1>1, <1>3, ParmakeAssumption DEF CheckInv, PathInv, ToSet
<1>6. x = call \/ x \in Below(g, call)
  <2>1. CASE k = n
    BY <1>2, <2>1
  <2>2. CASE k # n
    <3>1. n \in 1..Len(stack) /\ k \in 1..(n - 1)
      BY <1>3, <2>2
    <3> HIDE DEF n
    <3>2. stack[n].v \in Below(g, stack[k].v)
      BY <3>1 DEF CheckInv, PathInv
    <3> QED
      BY <1>2, <3>2
  <2> QED
    BY <2>1, <2>2
<1> HIDE DEF x
<1>7. call \in Below(g, call)
  BY <1>1, <1>3, <1>4, <1>5, <1>6, BelowStep, BelowFurther
<1>8. call = root \/ call \in Below(g, root)
  <2>1. CASE k = 1
    BY <1>2, <1>3, <2>1
  <2>2. CASE k # 1
    <3>1. 1 \in 1..(k - 1)
      BY <1>3, <2>2
    <3>2. stack[k].v \in Below(g, stack[1].v)
      BY <3>1 DEF CheckInv, PathInv
    <3> QED
      BY <1>2, <1>3, <3>2
  <2> QED
    BY <2>1, <2>2
<1>9. ~Acyclic(g, root)
  BY <1>7, <1>8 DEF Acyclic
<1>10. cycle!Visited' = {}
  BY <1>1 DEF cycle!Visited
<1>11. CheckTypes' /\ PathInv'
  BY <1>1 DEF CheckInv, CheckTypes, PathInv
<1>12. VisitedInv' /\ AnsweredInv'
  BY <1>1, <1>9, <1>10 DEF VisitedInv, AnsweredInv
<1> QED
  BY <1>11, <1>12 DEF CheckInv

LEMMA CheckEnter ==
  ASSUME CheckInv, cycle!Enter
  PROVE  CheckInv'
<1> DEFINE n == Len(stack)
           frame == [v |-> call, i |-> 1]
<1>1. /\ call \in Vertices /\ set_' = cycle!Visited \cup {call} /\ stack' = Append(stack, frame)
      /\ call' = NULL /\ ret' = NULL /\ UNCHANGED <<g, root>>
  BY DEF CheckInv, CheckTypes, cycle!Enter, cycle!Added
<1>2. /\ g \in [Vertices -> Seq(Vertices)] /\ root \in Vertices /\ n \in Nat
      /\ stack \in Seq([v : Vertices, i : Nat \ {0}]) /\ (n = 0 <=> stack = <<>>)
  BY EmptySeq DEF CheckInv, CheckTypes
<1>3. frame \in [v : Vertices, i : Nat \ {0}] /\ frame.v = call /\ frame.i = 1
  BY <1>1
<1> HIDE DEF frame
<1>4. /\ stack' \in Seq([v : Vertices, i : Nat \ {0}]) /\ Len(stack') = n + 1
      /\ stack'[n + 1] = frame /\ \A k \in 1..n : stack'[k] = stack[k]
  BY <1>1, <1>2, <1>3, AppendProperties
<1> HIDE DEF n
<1>5. CheckTypes'
  BY <1>1, <1>2, <1>4 DEF CheckTypes
<1>6. NULL \notin Vertices /\ NULL \notin {0, 1}
  BY ParmakeAssumption
<1>7. /\ n # 0 => /\ stack[n].i >= 2 /\ stack[n].i - 1 \in DOMAIN g[stack[n].v]
                  /\ g[stack[n].v][stack[n].i - 1] = call
      /\ n = 0 => call = root
  BY <1>1, <1>2, <1>6 DEF CheckInv, PathInv, n
<1>8. PathInv'
  <2>1. stack' # <<>> /\ stack'[1].v = root
    <3>1. CASE n = 0
      BY <1>3, <1>4, <1>7, <3>1, EmptySeq
    <3>2. CASE n # 0
      <4>1. 1 \in 1..n /\ stack # <<>> /\ n + 1 # 0
        BY <1>2, <3>2
      <4> QED
        BY <1>4, <4>1, EmptySeq DEF CheckInv, PathInv
    <3> QED
      BY <3>1, <3>2
  <2>2. ASSUME NEW k \in 2..(n + 1)
        PROVE  /\ stack'[k - 1].i >= 2 /\ stack'[k - 1].i - 1 \in DOMAIN g[stack'[k - 1].v]
               /\ g[stack'[k - 1].v][stack'[k - 1].i - 1] = stack'[k].v
    <3>1. CASE k = n + 1
      <4>1. k - 1 = n /\ n \in 1..n /\ n # 0
        BY <1>2, <3>1
      <4> QED
        BY <1>3, <1>4, <1>7, <3>1, <4>1
    <3>2. CASE k # n + 1
      <4>1. k \in 2..n /\ k \in 1..n /\ k - 1 \in 1..n
        BY <1>2, <3>2
      <4>2. stack'[k] = stack[k] /\ stack'[k - 1] = stack[k - 1]
        BY <1>4, <4>1
      <4> QED
        BY <4>1, <4>2 DEF CheckInv, PathInv, n
    <3> QED
      BY <3>1, <3>2
  <2>3. ASSUME NEW k \in 1..(n + 1), NEW l \in 1..(k - 1)
        PROVE  stack'[k].v \in Below(g, stack'[l].v)
    <3>1. l \in 1..n /\ stack'[l] = stack[l]
      BY <1>2, <1>4
    <3>2. CASE k # n + 1
      <4>1. k \in 1..n /\ stack'[k] = stack[k]
        BY <1>2, <1>4, <3>2
      <4> QED
        BY <3>1, <4>1 DEF CheckInv, PathInv, n
    <3>3. CASE k = n + 1
      <4>1. n \in 1..n /\ n # 0
        BY <1>2, <3>1
      <4>2. stack[n].v \in Vertices /\ stack[l].v \in Vertices
        BY <1>2, <3>1, <4>1, FrameType DEF n
      <4>3. call \in ToSet(g[stack[n].v])
        BY <1>7, <4>1 DEF ToSet
      <4>4. CASE l = n
        BY <1>2, <1>3, <1>4, <3>1, <3>3, <4>2, <4>3, <4>4, BelowStep
      <4>5. CASE l # n
        <5>1. l \in 1..(n - 1)
          BY <3>1, <1>2, <4>5
        <5>2. stack[n].v \in Below(g, stack[l].v)
          BY <4>1, <5>1 DEF CheckInv, PathInv, n
        <5> QED
          BY <1>2, <1>3, <1>4, <3>1, <3>3, <4>2, <4>3, <5>2, BelowFurther
      <4> QED
        BY <4>4, <4>5
    <3> QED
      BY <3>2, <3>3
  <2> QED
    BY <1>1, <1>4, <2>1, <2>2, <2>3 DEF PathInv
<1>9. VisitedInv'
  <2>1. ASSUME NEW v \in cycle!Visited \cup {call} PROVE \E k \in 1..(n + 1) : stack'[k].v = v
    <3>1. CASE v = call
      <4>1. n + 1 \in 1..(n + 1)
        BY <1>2
      <4> QED
        BY <1>3, <1>4, <3>1, <4>1
    <3>2. CASE v \in cycle!Visited
      <4>1. PICK k \in 1..n : stack[k].v = v
        BY <3>2 DEF CheckInv, VisitedInv, n
      <4>2. k \in 1..(n + 1)
        BY <1>2
      <4> QED
        BY <1>4, <4>1, <4>2
    <3> QED
      BY <3>1, <3>2
  <2>2. cycle!Visited' \subseteq cycle!Visited \cup {call}
    BY <1>1 DEF cycle!Visited
  <2> QED
    BY <1>1, <1>4, <1>6, <2>1, <2>2 DEF VisitedInv
<1>10. AnsweredInv'
  <2>1. ret' # 1 /\ ~cycle!Returned'
    <3>1. stack' # <<>>
      BY <1>2, <1>4, EmptySeq
    <3> QED
      BY <1>1, <1>6, <3>1 DEF cycle!Returned
  <2>2. ret # 1
    BY <1>1, <1>6 DEF CheckInv, PathInv
  <2>3. ASSUME NEW k \in 1..(n + 1), NEW j \in DOMAIN g[stack'[k].v],
               j < Behind(stack', call', k)
        PROVE  Acyclic(g, g[stack'[k].v][j])
    <3>1. CASE k = n + 1
      <4>1. stack'[k].i = 1 /\ stack'[k].v = call
        BY <1>3, <1>4, <3>1
      <4>2. g[call] \in Seq(Vertices)
        BY <1>1, <1>2
      <4>3. j \in Nat /\ j >= 1
        BY <4>1, <4>2
      <4> QED
        BY <1>1, <1>4, <2>3, <3>1, <4>1, <4>3 DEF Behind
    <3>2. CASE k # n + 1
      <4>0. k \in 1..n
        BY <1>2, <3>2
      <4>1. k \in 1..n /\ stack'[k] = stack[k]
        BY <1>4, <4>0
      <4>2. Behind(stack', call', k) = stack[k].i - 1 /\ Behind(stack, call, k) = stack[k].i - 1
        BY <1>1, <1>4, <1>6, <3>2, <4>1, ParmakeAssumption DEF Behind
      <4>3. \A t \in DOMAIN g[stack[k].v] : t < Behind(stack, call, k) => Acyclic(g, g[stack[k].v][t])
        BY <2>2, <4>1 DEF CheckInv, AnsweredInv, n
      <4> QED
        BY <2>3, <4>1, <4>2, <4>3
    <3> QED
      BY <3>1, <3>2
  <2> QED
    BY <1>1, <1>4, <2>1, <2>3 DEF AnsweredInv
<1> QED
  BY <1>5, <1>8, <1>9, <1>10 DEF CheckInv

LEMMA CheckPropagate ==
  ASSUME CheckInv, cycle!Propagate
  PROVE  CheckInv'
<1> DEFINE n == Len(stack)
<1>1. /\ call = NULL /\ stack # <<>> /\ ret = 1 /\ stack' = SubSeq(stack, 1, n - 1)
      /\ UNCHANGED <<g, root, call, set_, ret>>
  BY DEF cycle!Propagate, cycle!CycleBelow, cycle!Pop
<1>2. stack \in Seq([v : Vertices, i : Nat \ {0}])
  BY DEF CheckInv, CheckTypes
<1>3. /\ n \in Nat /\ stack' \in Seq([v : Vertices, i : Nat \ {0}]) /\ Len(stack') = n - 1
      /\ \A k \in 1..(n - 1) : stack'[k] = stack[k]
  BY <1>1, <1>2, PopType
<1>4. CheckTypes'
  BY <1>1, <1>3 DEF CheckInv, CheckTypes
<1> HIDE DEF n
<1>5. PathInv'
  <2>1. stack' # <<>> => stack'[1].v = root
    <3>1. stack' # <<>> => 1 \in 1..(n - 1)
      BY <1>3, EmptySeq
    <3> QED
      BY <1>1, <1>3, <3>1 DEF CheckInv, PathInv
  <2>2. \A k \in 2..(n - 1) : k \in 2..n /\ k - 1 \in 1..(n - 1) /\ k \in 1..(n - 1)
    BY <1>3
  <2>3. \A k \in 1..(n - 1) : k \in 1..n /\ \A l \in 1..(k - 1) : l \in 1..(n - 1)
    BY <1>3
  <2> QED
    BY <1>1, <1>3, <2>1, <2>2, <2>3, SMTT(30) DEF CheckInv, PathInv, n
<1>6. VisitedInv' /\ AnsweredInv'
  <2>1. cycle!Visited' = cycle!Visited
    BY <1>1 DEF cycle!Visited
  <2> QED
    BY <1>1, <2>1 DEF CheckInv, VisitedInv, AnsweredInv
<1> QED
  BY <1>4, <1>5, <1>6 DEF CheckInv

LEMMA CheckRecurse ==
  ASSUME CheckInv, cycle!Recurse
  PROVE  CheckInv'
<1> DEFINE n == Len(stack)
           Frames == [v : Vertices, i : Nat \ {0}]
           top == stack[n]
<1>1. /\ call = NULL /\ stack # <<>> /\ ret # 1 /\ top.i <= Len(g[top.v])
      /\ call' = g[top.v][top.i] /\ stack' = [stack EXCEPT ![n].i = @ + 1]
      /\ UNCHANGED <<g, root, set_, ret>>
  BY DEF cycle!Recurse, cycle!CycleBelow, cycle!Top, cycle!Neighbors
<1>2. /\ stack \in Seq(Frames) /\ g \in [Vertices -> Seq(Vertices)] /\ root \in Vertices
      /\ ret \in {0, 1, NULL}
  BY DEF CheckInv, CheckTypes
<1>3. n \in Nat /\ n >= 1 /\ n \in 1..n
  BY <1>1, <1>2, EmptySeq
<1>4. top.v \in Vertices /\ top.i \in Nat /\ top.i >= 1 /\ top \in Frames
  BY <1>2, <1>3, FrameType, ElementOfSeq
<1>5. /\ stack' \in Seq(Frames) /\ Len(stack') = n
      /\ stack'[n].v = top.v /\ stack'[n].i = top.i + 1
      /\ \A k \in 1..n : k # n => stack'[k] = stack[k]
  <2> DEFINE frame == [top EXCEPT !.i = @ + 1]
  <2>1. frame \in Frames /\ frame.v = top.v /\ frame.i = top.i + 1
    BY <1>4
  <2>2. stack' = [stack EXCEPT ![n] = frame]
    BY <1>1
  <2> HIDE DEF frame
  <2> QED
    BY <1>2, <1>3, <2>1, <2>2
<1>6. \A k \in 1..n : stack'[k].v = stack[k].v
  BY <1>5
<1>7. /\ top.i \in DOMAIN g[top.v] /\ call' \in Vertices /\ call' # NULL
      /\ g[top.v] \in Seq(Vertices)
  <2>1. g[top.v] \in Seq(Vertices)
    BY <1>2, <1>4
  <2>2. top.i \in 1..Len(g[top.v])
    BY <1>1, <1>4, <2>1
  <2> QED
    BY <1>1, <2>1, <2>2, ElementOfSeq, ParmakeAssumption
<1> HIDE DEF n, Frames, top
<1>8. CheckTypes'
  BY <1>1, <1>2, <1>5, <1>7 DEF CheckTypes, Frames
<1>9. PathInv'
  <2>1. stack' # <<>> /\ stack'[1].v = root
    <3>1. stack' # <<>> /\ 1 \in 1..n
      BY <1>3, <1>5, EmptySeq
    <3> QED
      BY <1>1, <1>6, <3>1 DEF CheckInv, PathInv
  <2>2. ASSUME NEW k \in 2..n
        PROVE  /\ stack'[k - 1].i >= 2 /\ stack'[k - 1].i - 1 \in DOMAIN g[stack'[k - 1].v]
               /\ g[stack'[k - 1].v][stack'[k - 1].i - 1] = stack'[k].v
    <3>1. k - 1 \in 1..n /\ k - 1 # n /\ k \in 1..n
      BY <1>3
    <3>2. stack'[k - 1] = stack[k - 1] /\ stack'[k].v = stack[k].v
      BY <1>5, <1>6, <3>1
    <3> QED
      BY <3>2 DEF CheckInv, PathInv, n
  <2>3. \A k \in 1..n : \A l \in 1..(k - 1) : stack'[k].v \in Below(g, stack'[l].v)
    <3>1. \A k \in 1..n : \A l \in 1..(k - 1) : l \in 1..n
      BY <1>3
    <3> QED
      BY <1>6, <3>1 DEF CheckInv, PathInv, n
  <2>4. /\ stack'[n].i >= 2 /\ stack'[n].i - 1 \in DOMAIN g[stack'[n].v]
        /\ g[stack'[n].v][stack'[n].i - 1] = call'
    <3>1. stack'[n].i >= 2 /\ stack'[n].i - 1 = top.i
      BY <1>4, <1>5
    <3> QED
      BY <1>1, <1>5, <1>7, <3>1
  <2> QED
    BY <1>1, <1>5, <2>1, <2>2, <2>3, <2>4 DEF PathInv
<1>10. VisitedInv'
  <2>1. cycle!Visited' = cycle!Visited
    BY <1>1 DEF cycle!Visited
  <2> QED
    BY <1>1, <1>5, <1>6, <2>1 DEF CheckInv, VisitedInv, n
<1>11. AnsweredInv'
  <2>1. ~cycle!Returned'
    BY <1>7 DEF cycle!Returned
  <2>2. ASSUME NEW k \in 1..n, NEW j \in DOMAIN g[stack[k].v], j < Behind(stack', call', k)
        PROVE  Acyclic(g, g[stack[k].v][j])
    <3>1. Behind(stack', call', k) = Behind(stack, call, k)
      <4>1. CASE k = n
        BY <1>1, <1>4, <1>5, <1>7, <4>1 DEF Behind, top, n
      <4>2. CASE k # n
        BY <1>5, <4>2 DEF Behind, n
      <4> QED
        BY <4>1, <4>2
    <3> QED
      BY <1>1, <2>2, <3>1 DEF CheckInv, AnsweredInv, n
  <2>3. \A k \in 1..Len(stack') : \A j \in DOMAIN g[stack'[k].v] :
          j < Behind(stack', call', k) => Acyclic(g, g[stack'[k].v][j])
    BY <1>5, <1>6, <2>2
  <2> QED
    BY <1>1, <2>1, <2>3 DEF AnsweredInv
<1> QED
  BY <1>8, <1>9, <1>10, <1>11 DEF CheckInv

LEMMA CheckLoopDone ==
  ASSUME CheckInv, cycle!LoopDone
  PROVE  CheckInv'
<1> DEFINE n == Len(stack)
           Frames == [v : Vertices, i : Nat \ {0}]
           top == stack[n]
<1>1. /\ call = NULL /\ stack # <<>> /\ ret # 1 /\ top.i > Len(g[top.v])
      /\ set_' = NULL /\ ret' = 0 /\ stack' = SubSeq(stack, 1, n - 1)
      /\ UNCHANGED <<g, root, call>>
  BY DEF cycle!LoopDone, cycle!CycleBelow, cycle!Top, cycle!Neighbors, cycle!SetAfterLoop, cycle!Pop
<1>2. stack \in Seq(Frames) /\ g \in [Vertices -> Seq(Vertices)] /\ root \in Vertices
  BY DEF CheckInv, CheckTypes
<1>3. /\ n \in Nat /\ n >= 1 /\ stack' \in Seq(Frames) /\ Len(stack') = n - 1
      /\ \A k \in 1..(n - 1) : stack'[k] = stack[k]
  BY <1>1, <1>2, PopType
<1>4. top.v \in Vertices /\ top.i \in Nat /\ n \in 1..n /\ g[top.v] \in Seq(Vertices)
  <2>1. n \in 1..n
    BY <1>3
  <2> QED
    BY <1>2, <2>1, FrameType
<1>5. CheckTypes'
  BY <1>1, <1>3 DEF CheckInv, CheckTypes
<1> HIDE DEF n, Frames, top
<1>6. Acyclic(g, top.v)
  <2>1. ASSUME NEW y \in ToSet(g[top.v]) PROVE Acyclic(g, y)
    <3>1. PICK j \in DOMAIN g[top.v] : g[top.v][j] = y
      BY DEF ToSet
    <3>2. j < top.i
      BY <1>1, <1>4, <3>1
    <3>3. j < Behind(stack, call, n)
      BY <1>1, <3>2 DEF Behind, n, top
    <3> QED
      BY <1>1, <1>4, <3>1, <3>3 DEF CheckInv, AnsweredInv, n, top
  <2> QED
    BY <1>2, <1>4, <2>1, AcyclicUp
<1>7. PathInv'
  <2>1. stack' # <<>> => stack'[1].v = root
    <3>1. stack' # <<>> => 1 \in 1..(n - 1)
      BY <1>3, EmptySeq
    <3> QED
      BY <1>1, <1>3, <3>1 DEF CheckInv, PathInv
  <2>2. \A k \in 2..(n - 1) : k \in 2..n /\ k - 1 \in 1..(n - 1) /\ k \in 1..(n - 1)
    BY <1>3
  <2>3. \A k \in 1..(n - 1) : k \in 1..n /\ \A l \in 1..(k - 1) : l \in 1..(n - 1)
    BY <1>3
  <2> QED
    BY <1>1, <1>3, <2>1, <2>2, <2>3 DEF CheckInv, PathInv, n
<1>8. VisitedInv'
  BY <1>1 DEF VisitedInv, cycle!Visited
<1>9. AnsweredInv'
  <2>1. ret' = 0 /\ ret' # 1
    BY <1>1
  <2>2. cycle!Returned' => Acyclic(g, root)
    <3>1. ASSUME stack' = <<>> PROVE Acyclic(g, root)
      <4>1. n = 1
        BY <1>3, <3>1
      <4>2. top.v = root
        BY <1>1, <4>1 DEF CheckInv, PathInv, top
      <4> QED
        BY <1>6, <4>2
    <3> QED
      BY <3>1 DEF cycle!Returned
  <2>3. ASSUME NEW k \in 1..(n - 1), NEW j \in DOMAIN g[stack[k].v], j < Behind(stack', call', k)
        PROVE  Acyclic(g, g[stack[k].v][j])
    <3>0. k \in 1..n /\ k # n /\ stack[k].i \in Nat /\ stack[k].v \in Vertices /\ k \in Nat
      <4>1. k \in 1..n /\ k # n /\ k \in Nat
        BY <1>3
      <4> QED
        BY <1>2, <4>1, FrameType DEF n, Frames
    <3>1. Behind(stack, call, k) = stack[k].i - 1 /\ Behind(stack', call', k) \in {stack[k].i, stack[k].i - 1}
      BY <1>3, <3>0 DEF Behind, n
    <3>2. \A t \in DOMAIN g[stack[k].v] : t < stack[k].i - 1 => Acyclic(g, g[stack[k].v][t])
      BY <1>1, <3>0, <3>1 DEF CheckInv, AnsweredInv, n
    <3>3. j \in Nat
      BY <1>2, <3>0
    <3>4. CASE j < stack[k].i - 1
      BY <3>2, <3>4
    <3>5. CASE ~(j < stack[k].i - 1)
      <4>1. j = stack[k].i - 1 /\ Behind(stack', call', k) # stack[k].i - 1
        BY <2>3, <3>0, <3>1, <3>3, <3>5
      <4>2. k = n - 1
        BY <1>3, <4>1 DEF Behind
      <4>3. g[stack[n - 1].v][stack[n - 1].i - 1] = top.v
        <5>1. n \in 2..n
          BY <1>3, <3>0, <4>2
        <5> QED
          BY <5>1 DEF CheckInv, PathInv, n, top
      <4> QED
        BY <1>6, <4>1, <4>2, <4>3
    <3> QED
      BY <3>4, <3>5
  <2>4. \A k \in 1..Len(stack') : \A j \in DOMAIN g[stack'[k].v] :
          j < Behind(stack', call', k) => Acyclic(g, g[stack'[k].v][j])
    BY <1>3, <2>3
  <2> QED
    BY <1>1, <2>1, <2>2, <2>4 DEF AnsweredInv
<1> QED
  BY <1>5, <1>7, <1>8, <1>9 DEF CheckInv

\* The answer of is_Cycle is right.
LEMMA AnswerRight == CheckInv => cycle!AnswerCorrect
<1> SUFFICES ASSUME CheckInv, cycle!Returned PROVE ret = 1 <=> cycle!CycleReachable
  BY DEF cycle!AnswerCorrect
<1>1. cycle!CycleReachable <=> ~Acyclic(g, root)
  BY CyclesAre DEF CheckInv, CheckTypes
<1> QED
  BY <1>1 DEF CheckInv, AnsweredInv

\* The loop over the goals asks about one after the other.
LEMMA CheckAll ==
  ASSUME ParInv, CheckInv, [Next]_vars
  PROVE  CheckInv'
<1>1. ASSUME UNCHANGED check_vars PROVE CheckInv'
  <2>1. UNCHANGED <<g, root, call, stack, set_, ret>>
    BY <1>1 DEF check_vars
  <2>2. cycle!Visited' = cycle!Visited /\ cycle!Returned' = cycle!Returned
    BY <2>1 DEF cycle!Visited, cycle!Returned
  <2> QED
    BY <2>1, <2>2 DEF CheckInv, CheckTypes, PathInv, VisitedInv, AnsweredInv
<1>2. CASE CheckStep
  BY <1>2, CheckFound, CheckEnter, CheckPropagate, CheckRecurse, CheckLoopDone DEF CheckStep, cycle!Next
<1>3. CASE CheckNextGoal
  <2>1. /\ phase = "check" /\ cycle!Returned /\ idx < Len(Remaining) /\ UNCHANGED <<g, stack, set_>>
        /\ root' = Remaining[idx + 1] /\ call' = root' /\ ret' = NULL
    BY <1>3 DEF CheckNextGoal
  <2>2. Remaining \in Seq(Vertices) /\ idx \in Nat
    BY <2>1, RemainingType DEF ParInv, MainTypes
  <2>3. root' \in Vertices /\ root' # NULL /\ NULL # 1
    <3>1. idx + 1 \in 1..Len(Remaining)
      BY <2>1, <2>2
    <3> QED
      BY <2>1, <2>2, <3>1, ElementOfSeq, ParmakeAssumption
  <2>4. stack = <<>> /\ stack' = <<>> /\ Len(stack') = 0
    BY <2>1 DEF cycle!Returned
  <2>5. CheckTypes' /\ PathInv' /\ AnsweredInv'
    BY <2>1, <2>3, <2>4 DEF CheckInv, CheckTypes, PathInv, AnsweredInv, cycle!Returned
  <2>6. VisitedInv'
    <3>1. cycle!Visited' = cycle!Visited
      BY <2>1 DEF cycle!Visited
    <3> QED
      BY <2>1, <2>3, <2>4, <3>1 DEF CheckInv, VisitedInv
  <2> QED
    BY <2>5, <2>6 DEF CheckInv
<1>4. CASE AllChecked \/ Descend \/ Ascend \/ StartWorkers \/ Join
  <2>1. UNCHANGED check_vars
    BY <1>4 DEF AllChecked, Descend, Ascend, StartWorkers, Join, check_vars
  <2> QED
    BY <2>1, <1>1
<1>5. ASSUME NEW w \in Workers, Step(w) \/ SpuriousWakeup(w) PROVE CheckInv'
  <2>1. UNCHANGED check_vars
    BY <1>5 DEF Step, Lock, Take, PassOver, Sleep, Run, Finish, Broadcast, SpuriousWakeup
  <2> QED
    BY <2>1, <1>1
<1>6. CASE UNCHANGED vars
  BY <1>6, <1>1 DEF vars
<1> QED
  BY <1>2, <1>3, <1>4, <1>5, <1>6 DEF Next, Main

LEMMA CheckStart == Init => CheckInv
<1> SUFFICES ASSUME Init PROVE CheckInv
  OBVIOUS
<1>1. ParInv
  BY ParInit
<1>2. /\ root = neighbors[1] /\ call = root /\ stack = <<>> /\ set_ = NULL /\ ret = NULL
      /\ 1 \in 1..Len(neighbors) /\ neighbors \in Seq(Vertices) /\ g \in [Vertices -> Seq(Vertices)]
  BY <1>1 DEF Init, ParInv, MainTypes
<1>3. root \in Vertices /\ root # NULL /\ NULL # 1
  BY <1>2, ElementOfSeq, ParmakeAssumption
<1>4. cycle!Visited = {} /\ ~cycle!Returned
  BY <1>2, <1>3 DEF cycle!Visited, cycle!Returned
<1> QED
  BY <1>2, <1>3, <1>4 DEF CheckInv, CheckTypes, PathInv, VisitedInv, AnsweredInv

-----------------------------------------------------------------------------
(* What is needed, and what is on the list *)

\* What a list of goals needs in graph h.
NeededBy(h, goals) ==
  {v \in Vertices :
     \A S \in SUBSET Vertices : (ToSet(goals) \subseteq S /\ Closed(h, S)) => v \in S}

LEMMA NeededIs == Needed = NeededBy(g, neighbors)
  BY DEF Needed, NeededBy, Closed

LEMMA NeededClosed ==
  ASSUME NEW h \in [Vertices -> Seq(Vertices)], NEW goals \in Seq(Vertices)
  PROVE  /\ ToSet(goals) \subseteq NeededBy(h, goals) /\ Closed(h, NeededBy(h, goals))
         /\ \A S \in SUBSET Vertices :
              ToSet(goals) \subseteq S /\ Closed(h, S) => NeededBy(h, goals) \subseteq S
<1>1. ToSet(goals) \subseteq NeededBy(h, goals)
  BY DEF NeededBy, ToSet
<1>2. Closed(h, NeededBy(h, goals))
  <2> SUFFICES ASSUME NEW u \in NeededBy(h, goals), NEW t \in ToSet(h[u]) PROVE t \in NeededBy(h, goals)
    BY DEF Closed
  <2>1. u \in Vertices
    BY DEF NeededBy
  <2>2. t \in Vertices
    BY <2>1 DEF ToSet
  <2>3. ASSUME NEW S \in SUBSET Vertices, ToSet(goals) \subseteq S, Closed(h, S) PROVE t \in S
    <3>1. u \in S
      BY <2>3 DEF NeededBy
    <3> QED
      BY <2>3, <3>1 DEF Closed
  <2> QED
    BY <2>2, <2>3 DEF NeededBy
<1> QED
  BY <1>1, <1>2 DEF NeededBy

\* No rule is on the list twice.
Once == \A j, k \in 1..Len(rules) : rules[j] = rules[k] => j = k

\* help_get_rules: a rule comes after its dependencies, each of which is on the
\* list or will be handled by the call that was made for them.
CollectInv ==
  phase = "collect" =>
    /\ calls # <<>>
    /\ \A v \in ToSet(neighbors) : v \in ToSet(rules) \cup ToSet(calls[1])
    /\ \A k \in 1..(Len(calls) - 1) : ToSet(g[Head(calls[k])]) \subseteq ToSet(rules) \cup ToSet(calls[k + 1])
    /\ Closed(g, ToSet(rules)) /\ ToSet(rules) \subseteq NeededBy(g, neighbors)
    /\ \A k \in 1..Len(calls) : ToSet(calls[k]) \subseteq NeededBy(g, neighbors)

\* Before the workers are started nothing was handled.
Idle ==
  /\ \A w \in Workers : pc[w] = "lock"
  /\ \A v \in Vertices : started[v] = 0 /\ state[v] = TARGET_CYCLE

\* Every rule that is needed is on the list, with a worker, or handled: it was
\* run, or dropped because a dependency failed.
Handled(v) ==
  \/ v \in ToSet(rules) \/ started[v] = 1
  \/ \E w \in Workers : pc[w] = "run" /\ goal[w] = v
  \/ \E d \in ToSet(g[v]) : d \in fails

BuildInv ==
  /\ started \in [Vertices -> Nat] /\ Once
  /\ phase = "check" => rules = <<>>
  /\ phase \in {"check", "collect"} => Idle
  /\ \A w \in Workers : pc[w] = "exit" => rules = <<>> /\ phase \in {"work", "done"}
  /\ phase = "done" /\ neighbors # <<>> => \A w \in Workers : pc[w] = "exit"

RunInv ==
  /\ \A v \in Vertices :
       /\ started[v] \in {0, 1} /\ (state[v] # TARGET_CYCLE => started[v] = 1)
       /\ state[v] = TARGET_ERROR => v \in fails
       /\ started[v] = 1 =>
            /\ v \notin ToSet(rules) /\ v \in NeededBy(g, neighbors)
            /\ \A d \in ToSet(g[v]) : state[d] = TARGET_DONE
  /\ \A w \in Workers :
       /\ pc[w] = "run" => /\ goal[w] \notin ToSet(rules) /\ started[goal[w]] = 0
                           /\ goal[w] \in NeededBy(g, neighbors)
       /\ pc[w] = "finish" => started[goal[w]] = 1
  /\ \A w, u \in Workers : pc[w] = "run" /\ pc[u] = "run" /\ goal[w] = goal[u] => w = u

NeededInv ==
  phase \in {"work", "done"} =>
    /\ ToSet(rules) \subseteq NeededBy(g, neighbors)
    /\ \A v \in NeededBy(g, neighbors) : Handled(v)

HandledInv == CollectInv /\ BuildInv /\ (exists = {} => RunInv /\ NeededInv)

BuiltInv == ParInv /\ HandledInv

-----------------------------------------------------------------------------
(* The elements of lists *)

LEMMA HeadAndTail ==
  ASSUME NEW S, NEW s \in Seq(S), s # <<>>
  PROVE  /\ Head(s) \in S /\ Tail(s) \in Seq(S)
         /\ ToSet(s) = {Head(s)} \cup ToSet(Tail(s)) /\ ToSet(s) \subseteq S
<1>1. Len(s) \in Nat /\ Len(s) >= 1 /\ Head(s) = s[1] /\ DOMAIN s = 1..Len(s)
  BY EmptySeq, LenProperties
<1>2. Tail(s) \in Seq(S) /\ Len(Tail(s)) = Len(s) - 1 /\ \A k \in 1..Len(Tail(s)) : Tail(s)[k] = s[k + 1]
  BY HeadTailProperties
<1>3. s[1] \in S /\ \A k \in 1..Len(s) : s[k] \in S
  BY <1>1, ElementOfSeq
<1>4. ASSUME NEW x \in ToSet(s) PROVE x = Head(s) \/ x \in ToSet(Tail(s))
  <2>1. PICK k \in 1..Len(s) : x = s[k]
    BY <1>1 DEF ToSet
  <2>2. CASE k = 1
    BY <1>1, <2>1, <2>2
  <2>3. CASE k # 1
    <3>1. k - 1 \in 1..Len(Tail(s)) /\ k = (k - 1) + 1
      BY <1>1, <1>2, <2>3
    <3>2. Tail(s)[k - 1] = x
      BY <1>2, <2>1, <3>1
    <3>3. DOMAIN Tail(s) = 1..Len(Tail(s))
      BY <1>2, LenProperties
    <3> QED
      BY <3>1, <3>2, <3>3 DEF ToSet
  <2> QED
    BY <2>2, <2>3
<1>5. ASSUME NEW x \in ToSet(Tail(s)) PROVE x \in ToSet(s)
  <2>1. PICK k \in 1..Len(Tail(s)) : x = Tail(s)[k]
    BY <1>2, LenProperties DEF ToSet
  <2>2. k + 1 \in 1..Len(s) /\ x = s[k + 1]
    BY <1>1, <1>2, <2>1
  <2> QED
    BY <1>1, <2>2 DEF ToSet
<1>6. Head(s) \in ToSet(s)
  BY <1>1 DEF ToSet
<1>7. ToSet(s) \subseteq S
  BY <1>1, <1>3 DEF ToSet
<1> QED
  BY <1>1, <1>2, <1>3, <1>4, <1>5, <1>6, <1>7

LEMMA AppendElements ==
  ASSUME NEW S, NEW s \in Seq(S), NEW x \in S
  PROVE  ToSet(Append(s, x)) = ToSet(s) \cup {x}
<1>1. /\ Append(s, x) \in Seq(S) /\ Len(Append(s, x)) = Len(s) + 1 /\ Len(s) \in Nat
      /\ \A k \in 1..Len(s) : Append(s, x)[k] = s[k]
      /\ Append(s, x)[Len(s) + 1] = x
  BY AppendProperties, LenProperties
<1>2. DOMAIN s = 1..Len(s) /\ DOMAIN Append(s, x) = 1..(Len(s) + 1)
  BY <1>1, LenProperties
<1>3. \A k \in 1..(Len(s) + 1) : k \in 1..Len(s) \/ k = Len(s) + 1
  BY <1>1
<1>4. \A k \in 1..Len(s) : k \in 1..(Len(s) + 1)
  BY <1>1
<1>5. Len(s) + 1 \in 1..(Len(s) + 1)
  BY <1>1
<1> DEFINE t == Append(s, x)
           n == Len(s)
<1>6. ToSet(t) = {t[k] : k \in 1..(n + 1)} /\ ToSet(s) = {s[k] : k \in 1..n}
  BY <1>2 DEF ToSet
<1>7. t[n + 1] = x /\ \A k \in 1..n : t[k] = s[k]
  BY <1>1
<1> HIDE DEF t
<1> QED
  BY <1>3, <1>4, <1>5, <1>6, <1>7 DEF t

\* Erasing an element of a list without repetitions takes that element off.
LEMMA RemoveAtElements ==
  ASSUME NEW S, NEW s \in Seq(S), NEW k \in 1..Len(s),
         \A j, l \in 1..Len(s) : s[j] = s[l] => j = l
  PROVE  LET r == RemoveAt(s, k)
         IN  /\ ToSet(r) = ToSet(s) \ {s[k]}
             /\ \A j, l \in 1..Len(r) : r[j] = r[l] => j = l
<1> DEFINE before == SubSeq(s, 1, k - 1)
           after  == SubSeq(s, k + 1, Len(s))
           r == RemoveAt(s, k)
           n == Len(s)
<1>1. n \in Nat /\ k \in Nat /\ k >= 1 /\ k <= n /\ DOMAIN s = 1..n
  BY LenProperties
<1>2. before \in Seq(S) /\ Len(before) = k - 1 /\ \A j \in 1..(k - 1) : before[j] = s[j]
  BY <1>1
<1>3. after \in Seq(S) /\ Len(after) = n - k /\ \A j \in 1..(n - k) : after[j] = s[k + j]
  <2>1. k + 1 \in 1..(n + 1) /\ n \in (k + 1) - 1..n /\ \A j \in k + 1..n : s[j] \in S
    BY <1>1, ElementOfSeq
  <2> HIDE DEF n
  <2>2. /\ SubSeq(s, k + 1, n) \in Seq(S)
        /\ Len(SubSeq(s, k + 1, n)) = IF k + 1 <= n THEN n - (k + 1) + 1 ELSE 0
        /\ \A j \in 1..(n - (k + 1) + 1) : SubSeq(s, k + 1, n)[j] = s[(k + 1) + j - 1]
    BY <1>1, <2>1, SubSeqProperties
  <2>3. after = SubSeq(s, k + 1, n)
    BY DEF n
  <2>4. \A j \in 1..(n - k) : (k + 1) + j - 1 = k + j /\ j \in 1..(n - (k + 1) + 1)
    BY <1>1
  <2> HIDE DEF after
  <2> QED
    BY <1>1, <2>2, <2>3, <2>4
<1>4. r = before \o after
  BY DEF RemoveAt
<1> HIDE DEF before, after, n
<1>5. /\ r \in Seq(S) /\ Len(r) = Len(before) + Len(after)
      /\ \A j \in 1..Len(before) : r[j] = before[j]
      /\ \A j \in 1..Len(after) : r[Len(before) + j] = after[j]
  <2>1. before \in Seq(S) /\ after \in Seq(S)
    BY <1>2, <1>3
  <2>2. /\ before \o after \in Seq(S) /\ Len(before \o after) = Len(before) + Len(after)
        /\ \A j \in 1..Len(before) : (before \o after)[j] = before[j]
        /\ \A j \in 1..Len(after) : (before \o after)[Len(before) + j] = after[j]
    BY <2>1, ConcatProperties
  <2> HIDE DEF r
  <2> QED
    BY <1>4, <2>2
<1> HIDE DEF r
<1>6. Len(r) = n - 1 /\ DOMAIN r = 1..(n - 1)
  BY <1>1, <1>2, <1>3, <1>5, LenProperties
<1>7. \A j \in 1..(n - 1) : r[j] = IF j < k THEN s[j] ELSE s[j + 1]
  <2> TAKE j \in 1..(n - 1)
  <2>1. CASE j < k
    BY <1>1, <1>2, <1>5, <2>1
  <2>2. CASE ~(j < k)
    <3>1. j - (k - 1) \in 1..(n - k) /\ j = (k - 1) + (j - (k - 1)) /\ k + (j - (k - 1)) = j + 1
      BY <1>1, <2>2
    <3>2. r[j] = after[j - (k - 1)]
      BY <1>2, <1>3, <1>5, <3>1
    <3> QED
      BY <1>3, <2>2, <3>1, <3>2
  <2> QED
    BY <2>1, <2>2
<1>8. ASSUME NEW x \in ToSet(r) PROVE x \in ToSet(s) /\ x # s[k]
  <2>1. PICK j \in 1..(n - 1) : x = r[j]
    BY <1>6 DEF ToSet
  <2>2. PICK l \in 1..n : x = s[l] /\ l # k
    BY <1>1, <1>7, <2>1
  <2> QED
    BY <1>1, <2>2 DEF ToSet, n
<1>9. ASSUME NEW x \in ToSet(s), x # s[k] PROVE x \in ToSet(r)
  <2>1. PICK l \in 1..n : x = s[l]
    BY <1>1 DEF ToSet
  <2>2. PICK j \in 1..(n - 1) : x = r[j]
    <3>1. CASE l < k
      BY <1>1, <1>7, <2>1, <3>1
    <3>2. CASE l > k
      <4>1. l - 1 \in 1..(n - 1) /\ ~(l - 1 < k) /\ (l - 1) + 1 = l
        BY <1>1, <3>2
      <4> QED
        BY <1>7, <2>1, <4>1
    <3>3. l # k
      BY <1>9, <2>1
    <3> QED
      BY <1>1, <3>1, <3>2, <3>3
  <2> QED
    BY <1>6, <2>2 DEF ToSet
<1>10. ASSUME NEW j \in 1..(n - 1), NEW l \in 1..(n - 1), r[j] = r[l] PROVE j = l
  <2>1. \A m \in 1..(n - 1) : m \in 1..n /\ m + 1 \in 1..n
    BY <1>1
  <2> QED
    BY <1>1, <1>7, <1>10, <2>1 DEF n
<1> QED
  BY <1>6, <1>8, <1>9, <1>10 DEF r

\* get_status without files: ready when all dependencies are done, or the state
\* of one that is not.
LEMMA StatusIs ==
  ASSUME WorkerTypes, g \in [Vertices -> Seq(Vertices)], NEW v \in Vertices, exists = {}
  PROVE  \/ get_status(v) = TARGET_READY /\ \A d \in ToSet(g[v]) : state[d] = TARGET_DONE
         \/ \E d \in ToSet(g[v]) : get_status(v) = state[d] /\ state[d] # TARGET_DONE
<1> DEFINE waits == {k \in DOMAIN g[v] : state[g[v][k]] # TARGET_DONE}
           first == CHOOSE k \in waits : \A l \in waits : k <= l
<1>1. waits \subseteq Nat
  BY DEF WorkerTypes
<1>2. CASE waits = {}
  BY <1>2 DEF get_status, ToSet
<1>3. CASE waits # {}
  <2>1. first \in waits
    <3>1. \E k \in waits : \A l \in waits : k <= l
      <4> HIDE DEF waits
      <4> QED
        BY <1>1, <1>3, Least
    <3> HIDE DEF waits
    <3> QED
      BY <3>1
  <2>2. get_status(v) = state[g[v][first]]
    BY <1>3 DEF get_status
  <2>3. g[v][first] \in ToSet(g[v]) /\ state[g[v][first]] # TARGET_DONE
    BY <2>1 DEF ToSet
  <2> QED
    BY <2>2, <2>3
<1> QED
  BY <1>2, <1>3

-----------------------------------------------------------------------------
(* Main collects the rules *)

LEMMA IdleRuns ==
  ASSUME Idle'
  PROVE  RunInv' /\ \A w \in Workers : pc'[w] # "exit"
<1> SUFFICES RunInv'
  BY DEF Idle
<1> USE DEF Idle, TARGET_CYCLE, TARGET_ERROR
<1> QED
  BY DEF RunInv

LEMMA StillIdle ==
  ASSUME Idle, UNCHANGED <<pc, state, started>>
  PROVE  Idle'
  BY DEF Idle

LEMMA HandledInit == Init => HandledInv
<1> SUFFICES ASSUME Init PROVE HandledInv
  OBVIOUS
<1>1. /\ phase = "check" /\ rules = <<>> /\ pc = [w \in Workers |-> "lock"]
      /\ started = [v \in Vertices |-> 0] /\ state = [v \in Vertices |-> TARGET_CYCLE]
  BY DEF Init
<1>2. Idle
  BY <1>1 DEF Idle
<1>3. CollectInv /\ NeededInv
  BY <1>1 DEF CollectInv, NeededInv
<1>4. BuildInv
  BY <1>1, <1>2 DEF BuildInv, Once
<1>5. RunInv
  BY <1>2 DEF RunInv, Idle, TARGET_CYCLE, TARGET_ERROR
<1> QED
  BY <1>3, <1>4, <1>5 DEF HandledInv

LEMMA HandledCheck ==
  ASSUME BuiltInv, CheckStep \/ CheckNextGoal
  PROVE  HandledInv'
<1>1. /\ phase = "check" /\ phase' = "check" /\ UNCHANGED worker_vars
  BY DEF CheckStep, CheckNextGoal, main_vars
<1>2. UNCHANGED <<rules, pc, state, started>> /\ rules = <<>> /\ Idle /\ started \in [Vertices -> Nat]
  BY <1>1 DEF worker_vars, BuiltInv, HandledInv, BuildInv
<1>3. Idle'
  BY <1>2, StillIdle
<1>4. CollectInv' /\ NeededInv'
  BY <1>1 DEF CollectInv, NeededInv
<1>5. Once'
  BY <1>2 DEF Once
<1>6. BuildInv'
  BY <1>1, <1>2, <1>3, <1>5, IdleRuns DEF BuildInv
<1> QED
  BY <1>3, <1>4, <1>6, IdleRuns DEF HandledInv

LEMMA NothingNeeded ==
  ASSUME NEW h \in [Vertices -> Seq(Vertices)]
  PROVE  NeededBy(h, <<>>) = {}
<1>1. ToSet(<<>>) = {}
  BY DEF ToSet
<1>2. Closed(h, {})
  BY DEF Closed
<1>3. <<>> \in Seq(Vertices)
  OBVIOUS
<1> QED
  BY <1>1, <1>2, <1>3, NeededClosed

LEMMA HandledAllChecked ==
  ASSUME BuiltInv, ParInv', AllChecked
  PROVE  HandledInv'
<1>1. /\ phase = "check" /\ calls' = <<Remaining>> /\ neighbors' = Remaining
      /\ phase' = IF Remaining = <<>> THEN "done" ELSE "collect"
      /\ UNCHANGED <<exists, fails, g>> /\ UNCHANGED worker_vars
  BY DEF AllChecked, check_vars
<1>2. UNCHANGED <<rules, pc, state, started>> /\ rules = <<>> /\ Idle /\ started \in [Vertices -> Nat]
  BY <1>1 DEF worker_vars, BuiltInv, HandledInv, BuildInv
<1>3. Idle'
  BY <1>2, StillIdle
<1>4. Remaining \in Seq(Vertices) /\ g \in [Vertices -> Seq(Vertices)] /\ g' = g
  BY <1>1, RemainingType DEF BuiltInv, ParInv, MainTypes
<1>5. Once' /\ ToSet(rules') = {} /\ Closed(g', {})
  BY <1>2 DEF Once, ToSet, Closed
<1>6. BuildInv'
  BY <1>1, <1>2, <1>3, <1>5, IdleRuns DEF BuildInv
<1>7. CollectInv'
  <2> DEFINE rest == Remaining
  <2>1. ToSet(rest) \subseteq NeededBy(g, rest)
    BY <1>4, NeededClosed
  <2>2. calls' = <<rest>> /\ neighbors' = rest /\ rest \in Seq(Vertices) /\ g' = g
    BY <1>1, <1>4
  <2>3. NeededBy(g', neighbors') = NeededBy(g, rest)
    BY <2>2
  <2> HIDE DEF rest
  <2>4. Len(calls') = 1 /\ calls'[1] = rest /\ calls' # <<>>
    BY <2>2
  <2> QED
    BY <1>5, <2>1, <2>2, <2>3, <2>4 DEF CollectInv
<1>8. NeededInv'
  <2> SUFFICES ASSUME phase' \in {"work", "done"} PROVE NeededInv'
    BY DEF NeededInv
  <2>1. neighbors' = <<>>
    BY <1>1
  <2>2. NeededBy(g', neighbors') = {}
    BY <1>4, <2>1, NothingNeeded
  <2> QED
    BY <1>5, <2>2 DEF NeededInv
<1> QED
  BY <1>3, <1>6, <1>7, <1>8, IdleRuns DEF HandledInv

LEMMA HandledDescend ==
  ASSUME BuiltInv, Descend
  PROVE  HandledInv'
<1> DEFINE below == g[Head(Goals)]
           n == Len(calls)
<1>1. /\ phase = "collect" /\ phase' = "collect" /\ Goals # <<>> /\ calls' = Append(calls, below)
      /\ UNCHANGED <<exists, fails, neighbors, g>> /\ UNCHANGED worker_vars
  BY DEF Descend, check_vars
<1>2. /\ UNCHANGED <<rules, pc, state, started>> /\ Idle /\ started \in [Vertices -> Nat] /\ Once
      /\ ParInv /\ CollectInv
  BY <1>1 DEF worker_vars, BuiltInv, HandledInv, BuildInv
<1>3. Idle'
  BY <1>2, StillIdle
<1>4. BuildInv' /\ NeededInv'
  <2>1. Once'
    BY <1>2 DEF Once
  <2> QED
    BY <1>1, <1>2, <1>3, <2>1, IdleRuns DEF BuildInv, NeededInv
<1>5. n \in Nat /\ n >= 1 /\ calls \in Seq(Seq(Vertices)) /\ Goals = calls[n] /\ g \in [Vertices -> Seq(Vertices)]
      /\ neighbors \in Seq(Vertices)
  BY <1>1, <1>2, EmptySeq DEF ParInv, MainTypes, Goals, Last
<1>6. calls[n] \in Seq(Vertices) /\ Head(calls[n]) \in Vertices /\ Head(calls[n]) \in ToSet(calls[n])
  BY <1>1, <1>5, HeadAndTail
<1>7. below \in Seq(Vertices) /\ ToSet(below) \subseteq NeededBy(g, neighbors) /\ ToSet(g[Head(calls[n])]) = ToSet(below)
  <2>1. Head(calls[n]) \in NeededBy(g, neighbors)
    <3>1. n \in 1..Len(calls)
      BY <1>5
    <3>2. ToSet(calls[n]) \subseteq NeededBy(g, neighbors)
      BY <1>1, <1>2, <3>1 DEF CollectInv
    <3> QED
      BY <1>6, <3>2
  <2>2. Closed(g, NeededBy(g, neighbors))
    BY <1>5, NeededClosed
  <2> QED
    BY <1>5, <1>6, <2>1, <2>2 DEF Closed
<1> HIDE DEF below
<1>8. Len(calls') = n + 1 /\ calls'[n + 1] = below /\ \A k \in 1..n : calls'[k] = calls[k]
  BY <1>1, <1>5, <1>7, AppendProperties
<1>9. CollectInv'
  <2>1. NeededBy(g', neighbors') = NeededBy(g, neighbors) /\ ToSet(rules') = ToSet(rules) /\ g' = g /\ neighbors' = neighbors
    BY <1>1, <1>2
  <2>2. /\ \A v \in ToSet(neighbors) : v \in ToSet(rules) \cup ToSet(calls[1])
        /\ \A k \in 1..(n - 1) : ToSet(g[Head(calls[k])]) \subseteq ToSet(rules) \cup ToSet(calls[k + 1])
        /\ Closed(g, ToSet(rules)) /\ ToSet(rules) \subseteq NeededBy(g, neighbors)
        /\ \A k \in 1..n : ToSet(calls[k]) \subseteq NeededBy(g, neighbors)
    BY <1>1, <1>2 DEF CollectInv
  <2> HIDE DEF n
  <2>3. 1 \in 1..n /\ calls' # <<>>
    BY <1>5, <1>8
  <2>4. \A k \in 1..n : ToSet(g[Head(calls'[k])]) \subseteq ToSet(rules) \cup ToSet(calls'[k + 1])
    <3> TAKE k \in 1..n
    <3>1. CASE k = n
      BY <1>5, <1>7, <1>8, <3>1
    <3>2. CASE k # n
      <4>1. k \in 1..(n - 1) /\ k + 1 \in 1..n
        BY <1>5, <3>2
      <4> QED
        BY <1>8, <2>2, <4>1
    <3> QED
      BY <3>1, <3>2
  <2>5. \A k \in 1..(n + 1) : ToSet(calls'[k]) \subseteq NeededBy(g, neighbors)
    <3>1. \A k \in 1..(n + 1) : k \in 1..n \/ k = n + 1
      BY <1>5
    <3> QED
      BY <1>7, <1>8, <2>2, <3>1
  <2>6. \A v \in ToSet(neighbors) : v \in ToSet(rules) \cup ToSet(calls'[1])
    BY <1>8, <2>2, <2>3
  <2>7. Len(calls') - 1 = n
    BY <1>5, <1>8
  <2> QED
    BY <1>8, <2>1, <2>2, <2>3, <2>4, <2>5, <2>6, <2>7 DEF CollectInv
<1> QED
  BY <1>3, <1>4, <1>9, IdleRuns DEF HandledInv

\* The caller of the call that returns, and the calls below it.
LEMMA CallerIs ==
  ASSUME NEW s \in Seq(Seq(Vertices)), Len(s) > 1
  PROVE  /\ Last(Front(s)) = s[Len(s) - 1] /\ s[Len(s) - 1] \in Seq(Vertices)
         /\ Front(Front(s)) \in Seq(Seq(Vertices)) /\ Len(Front(Front(s))) = Len(s) - 2
         /\ \A k \in 1..(Len(s) - 2) : Front(Front(s))[k] = s[k]
<1> DEFINE f == Front(s)
           n == Len(s)
<1>1. n \in Nat /\ n > 1 /\ s # <<>>
  BY LenProperties, EmptySeq
<1>2. f \in Seq(Seq(Vertices)) /\ Len(f) = n - 1 /\ \A k \in 1..(n - 1) : f[k] = s[k]
  BY <1>1, FrontType
<1>3. Last(f) = f[Len(f)]
  BY DEF Last
<1> HIDE DEF f
<1>4. f # <<>>
  BY <1>1, <1>2, EmptySeq
<1>5. /\ Front(f) \in Seq(Seq(Vertices)) /\ Len(Front(f)) = Len(f) - 1
      /\ \A k \in 1..(Len(f) - 1) : Front(f)[k] = f[k]
  BY <1>2, <1>4, FrontType
<1>6. n - 1 \in 1..n /\ n - 1 \in 1..(n - 1) /\ (n - 1) - 1 = n - 2 /\ \A k \in 1..(n - 2) : k \in 1..(n - 1)
  BY <1>1
<1>7. s[n - 1] \in Seq(Vertices)
  BY <1>6, ElementOfSeq
<1>8. Last(f) = s[n - 1]
  BY <1>2, <1>3, <1>6
<1> HIDE DEF n
<1>9. /\ Front(f) \in Seq(Seq(Vertices)) /\ Len(Front(f)) = n - 2
      /\ \A k \in 1..(n - 2) : Front(f)[k] = s[k]
  BY <1>2, <1>5, <1>6
<1> QED
  BY <1>7, <1>8, <1>9 DEF f, n

\* A goal is on the list once after it was pushed.
LEMMA PushedElements ==
  ASSUME rules \in Seq(Vertices), NEW v \in Vertices, Once, rules' = Pushed(v)
  PROVE  ToSet(rules') = ToSet(rules) \cup {v} /\ Once'
<1>1. Contains(rules, v) <=> v \in ToSet(rules)
  BY DEF Contains, ToSet
<1>2. CASE v \in ToSet(rules)
  BY <1>1, <1>2 DEF Pushed, Once
<1>3. CASE v \notin ToSet(rules)
  <2> DEFINE n == Len(rules)
  <2>1. rules' = Append(rules, v)
    BY <1>1, <1>3 DEF Pushed
  <2>2. n \in Nat /\ DOMAIN rules = 1..n /\ Len(rules') = n + 1 /\ rules'[n + 1] = v /\ \A k \in 1..n : rules'[k] = rules[k]
    BY <2>1, AppendProperties, LenProperties
  <2>3. \A k \in 1..n : rules[k] # v
    BY <1>3, <2>2 DEF ToSet
  <2>4. \A k \in 1..(n + 1) : k \in 1..n \/ k = n + 1
    BY <2>2
  <2>5. \A j, k \in 1..n : rules[j] = rules[k] => j = k
    BY DEF Once
  <2>6. Once'
    <3> HIDE DEF n
    <3> QED
      BY <2>2, <2>3, <2>4, <2>5 DEF Once
  <2> QED
    BY <2>1, <2>6, AppendElements
<1> QED
  BY <1>2, <1>3

LEMMA HandledAscend ==
  ASSUME BuiltInv, Ascend
  PROVE  HandledInv'
<1> DEFINE caller == Last(Front(calls))
           below  == Front(Front(calls))
           n == Len(calls)
           v == Head(caller)
           rest == Tail(caller)
<1>1. /\ phase = "collect" /\ phase' = "collect" /\ Goals = <<>> /\ Len(calls) > 1
      /\ rules' = Pushed(v) /\ calls' = Append(below, rest)
      /\ UNCHANGED <<exists, fails, neighbors, g, state, pc, started>>
  BY DEF Ascend, check_vars
<1>2. /\ Idle /\ started \in [Vertices -> Nat] /\ Once /\ ParInv /\ CollectInv
  BY <1>1 DEF BuiltInv, HandledInv, BuildInv
<1>3. Idle'
  BY <1>1, <1>2, StillIdle
<1>4. /\ n \in Nat /\ n > 1 /\ calls \in Seq(Seq(Vertices)) /\ calls[n] = <<>> /\ rules \in Seq(Vertices)
      /\ g \in [Vertices -> Seq(Vertices)] /\ neighbors \in Seq(Vertices)
  BY <1>1, <1>2 DEF ParInv, MainTypes, WorkerTypes, Goals, Last
<1>5. /\ caller = calls[n - 1] /\ caller \in Seq(Vertices) /\ below \in Seq(Seq(Vertices)) /\ Len(below) = n - 2
      /\ \A k \in 1..(n - 2) : below[k] = calls[k]
  BY <1>4, CallerIs
<1>6. caller # <<>>
  <2>1. n - 1 \in 1..(Len(calls) - 1)
    BY <1>4
  <2>2. calls[n - 1] # <<>>
    BY <1>2, <2>1 DEF ParInv, CallsWait
  <2> QED
    BY <1>5, <2>2
<1>7. v \in Vertices /\ rest \in Seq(Vertices) /\ ToSet(caller) = {v} \cup ToSet(rest)
  <2> HIDE DEF caller
  <2> QED
    BY <1>5, <1>6, HeadAndTail
<1> DEFINE R == ToSet(rules)
           N == NeededBy(g, neighbors)
<1>8. /\ \A u \in ToSet(neighbors) : u \in R \cup ToSet(calls[1])
      /\ \A k \in 1..(n - 1) : ToSet(g[Head(calls[k])]) \subseteq R \cup ToSet(calls[k + 1])
      /\ Closed(g, R) /\ R \subseteq N
      /\ \A k \in 1..n : ToSet(calls[k]) \subseteq N
  BY <1>1, <1>2 DEF CollectInv
<1>9. ToSet(rules') = R \cup {v} /\ Once'
  <2> HIDE DEF v
  <2> QED
    BY <1>1, <1>2, <1>4, <1>7, PushedElements
<1>10. BuildInv' /\ NeededInv'
  BY <1>1, <1>2, <1>3, <1>9, IdleRuns DEF BuildInv, NeededInv
<1>11. Head(calls[n - 1]) = v /\ ToSet(calls[n - 1]) = {v} \cup ToSet(rest)
  BY <1>5, <1>7
<1> HIDE DEF caller, below, n, v, rest, R
<1>12. Len(calls') = n - 1 /\ calls'[n - 1] = rest /\ \A k \in 1..(n - 2) : calls'[k] = calls[k]
  <2>1. Len(calls') = Len(below) + 1 /\ calls'[Len(below) + 1] = rest /\ \A k \in 1..Len(below) : calls'[k] = below[k]
    BY <1>1, <1>5, <1>7, AppendProperties
  <2>2. Len(below) + 1 = n - 1
    BY <1>4, <1>5
  <2> QED
    BY <1>5, <2>1, <2>2
<1>13. ToSet(g[v]) \subseteq R /\ v \in N
  <2>1. n - 1 \in 1..(n - 1) /\ (n - 1) + 1 = n /\ n - 1 \in 1..n
    <3>1. n \in Nat /\ n > 1
      BY <1>4
    <3> QED
      BY ONLY <3>1
  <2>2. ToSet(g[Head(calls[n - 1])]) \subseteq R \cup ToSet(calls[n])
    BY <1>8, <2>1
  <2>3. ToSet(calls[n]) = {}
    BY <1>4 DEF ToSet
  <2>4. ToSet(calls[n - 1]) \subseteq N
    BY <1>8, <2>1
  <2> QED
    BY <1>11, <2>2, <2>3, <2>4
<1>14. CollectInv'
  <2>1. NeededBy(g', neighbors') = N /\ g' = g /\ neighbors' = neighbors
    BY <1>1 DEF N
  <2> HIDE DEF N
  <2> DEFINE Q == R \cup {v}
  <2>2. Closed(g, Q) /\ Q \subseteq N
    BY <1>8, <1>13 DEF Closed
  <2>3. \A k \in 1..(n - 1) : k \in 1..(n - 2) \/ k = n - 1
    BY <1>4
  <2>4. \A k \in 1..(n - 1) : ToSet(calls'[k]) \subseteq N
    <3>1. ToSet(calls[n - 1]) \subseteq N /\ \A k \in 1..(n - 2) : ToSet(calls[k]) \subseteq N
      <4>1. n - 1 \in 1..n /\ \A k \in 1..(n - 2) : k \in 1..n
        BY <1>4
      <4> QED
        BY <1>8, <4>1
    <3> QED
      BY <1>11, <1>12, <2>3, <3>1
  <2>5. \A k \in 1..(n - 1) : ToSet(calls[k]) \subseteq Q \cup ToSet(calls'[k])
    BY <1>11, <1>12, <2>3
  <2>6. \A k \in 1..((n - 1) - 1) : ToSet(g[Head(calls'[k])]) \subseteq Q \cup ToSet(calls'[k + 1])
    <3> TAKE k \in 1..((n - 1) - 1)
    <3>1. k \in 1..(n - 2) /\ k \in 1..(n - 1) /\ k + 1 \in 1..(n - 1)
      BY <1>4
    <3>2. calls'[k] = calls[k] /\ ToSet(calls[k + 1]) \subseteq Q \cup ToSet(calls'[k + 1])
          /\ ToSet(g[Head(calls[k])]) \subseteq R \cup ToSet(calls[k + 1])
      BY <1>8, <1>12, <2>5, <3>1
    <3> QED
      BY <3>2
  <2>7. \A u \in ToSet(neighbors) : u \in Q \cup ToSet(calls'[1])
    <3>1. 1 \in 1..(n - 1)
      BY <1>4
    <3> QED
      BY <1>8, <2>5, <3>1
  <2>8. calls' # <<>>
    <3>1. n - 1 > 0
      BY <1>4
    <3> QED
      BY <1>12, <3>1
  <2> HIDE DEF Q
  <2>9. ToSet(rules') = Q
    BY <1>9 DEF Q
  <2> QED
    BY <1>12, <2>1, <2>2, <2>4, <2>6, <2>7, <2>8, <2>9 DEF CollectInv
<1> QED
  BY <1>3, <1>10, <1>14, IdleRuns DEF HandledInv

LEMMA HandledStart ==
  ASSUME BuiltInv, StartWorkers
  PROVE  HandledInv'
<1>1. /\ phase = "collect" /\ phase' = "work" /\ calls = << <<>> >>
      /\ UNCHANGED <<exists, fails, neighbors, g, calls, state, pc, started, rules, goal>>
  BY DEF StartWorkers, check_vars, worker_vars
<1>2. /\ Idle /\ started \in [Vertices -> Nat] /\ Once /\ ParInv /\ CollectInv
  BY <1>1 DEF BuiltInv, HandledInv, BuildInv
<1>3. Idle'
  BY <1>1, <1>2, StillIdle
<1>4. Once' /\ BuildInv' /\ CollectInv'
  <2>1. Once'
    BY <1>1, <1>2 DEF Once
  <2> QED
    BY <1>1, <1>2, <1>3, <2>1, IdleRuns DEF BuildInv, CollectInv
<1> DEFINE R == ToSet(rules)
           N == NeededBy(g, neighbors)
<1>5. R \subseteq N /\ N \subseteq R
  <2>1. Closed(g, R) /\ R \subseteq N /\ \A u \in ToSet(neighbors) : u \in R \cup ToSet(calls[1])
    BY <1>1, <1>2 DEF CollectInv
  <2>2. ToSet(calls[1]) = {}
    BY <1>1 DEF ToSet
  <2>3. R \in SUBSET Vertices
    BY <2>1 DEF NeededBy
  <2>4. g \in [Vertices -> Seq(Vertices)] /\ neighbors \in Seq(Vertices)
    BY <1>2 DEF ParInv, MainTypes
  <2> HIDE DEF R
  <2> QED
    BY <2>1, <2>2, <2>3, <2>4, NeededClosed
<1>6. ToSet(rules') = R /\ NeededBy(g', neighbors') = N
  BY <1>1
<1>7. NeededInv'
  <2>1. \A v \in N : Handled(v)'
    BY <1>5, <1>6 DEF Handled
  <2> HIDE DEF R, N
  <2> QED
    BY <1>5, <1>6, <2>1 DEF NeededInv
<1> QED
  BY <1>3, <1>4, <1>7, IdleRuns DEF HandledInv

LEMMA HandledJoin ==
  ASSUME BuiltInv, Join
  PROVE  HandledInv'
<1>1. /\ phase = "work" /\ phase' = "done" /\ \A w \in Workers : pc[w] = "exit"
      /\ UNCHANGED <<exists, fails, neighbors, g, calls, state, pc, started, rules, goal>>
  BY DEF Join, check_vars, worker_vars
<1> QED
  BY <1>1 DEF BuiltInv, HandledInv, CollectInv, BuildInv, RunInv, NeededInv, Handled, Once

-----------------------------------------------------------------------------
(* The workers handle the rules *)

\* A worker is at work only after main has collected the rules, and before it
\* joined the workers.
LEMMA AtWork ==
  ASSUME BuiltInv, NEW w \in Workers, Step(w) \/ SpuriousWakeup(w)
  PROVE  /\ UNCHANGED <<exists, fails, neighbors, g, phase>> /\ phase \in {"work", "done"}
         /\ ~(phase = "done" /\ neighbors # <<>>) /\ CollectInv'
<1>1. UNCHANGED <<exists, fails, neighbors, g, phase>>
  BY DEF Step, Lock, Take, PassOver, Sleep, Run, Finish, Broadcast, SpuriousWakeup, main_vars, check_vars
<1>2. (phase = "work" /\ pc[w] = "lock") \/ pc[w] \in {"scan", "asleep", "run", "finish", "skip", "broadcast"}
  BY DEF Step, Lock, Take, PassOver, Sleep, Run, Finish, Broadcast, SpuriousWakeup
<1>3. phase \in {"work", "done"}
  BY <1>2 DEF BuiltInv, HandledInv, BuildInv, Idle, ParInv, MainTypes
<1>4. ~(phase = "done" /\ neighbors # <<>>)
  BY <1>2 DEF BuiltInv, HandledInv, BuildInv
<1> QED
  BY <1>1, <1>3, <1>4 DEF CollectInv

\* A step that takes, runs and ends nothing.
HandlesNothing ==
  /\ UNCHANGED <<rules, state, started>>
  /\ \A u \in Workers :
       /\ pc'[u] \in {"run", "finish"} => pc'[u] = pc[u] /\ goal'[u] = goal[u]
       /\ pc[u] = "run" => pc'[u] = "run" /\ goal'[u] = goal[u]
       /\ pc'[u] = "exit" => rules = <<>>

LEMMA HandledSame ==
  ASSUME BuiltInv, NEW w \in Workers, Step(w) \/ SpuriousWakeup(w), HandlesNothing
  PROVE  HandledInv'
<1>1. /\ UNCHANGED <<exists, fails, neighbors, g, phase>> /\ phase \in {"work", "done"}
      /\ ~(phase = "done" /\ neighbors # <<>>) /\ CollectInv'
  BY AtWork
<1>2. /\ UNCHANGED <<rules, state, started>> /\ started \in [Vertices -> Nat] /\ Once
  BY DEF HandlesNothing, BuiltInv, HandledInv, BuildInv
<1>3. BuildInv'
  <2>1. Once'
    BY <1>2 DEF Once
  <2> QED
    BY <1>1, <1>2, <2>1 DEF BuildInv, HandlesNothing
<1>4. ASSUME exists = {} PROVE RunInv' /\ NeededInv'
  <2>1. RunInv /\ NeededInv
    BY <1>4 DEF BuiltInv, HandledInv
  <2>2. RunInv'
    BY <1>1, <1>2, <2>1 DEF RunInv, HandlesNothing
  <2>3. NeededInv'
    <3>1. NeededBy(g', neighbors') = NeededBy(g, neighbors) /\ ToSet(rules') = ToSet(rules)
      BY <1>1, <1>2
    <3>2. ASSUME NEW v \in NeededBy(g, neighbors) PROVE Handled(v)'
      <4>1. Handled(v)
        BY <1>1, <2>1 DEF NeededInv
      <4> QED
        BY <1>1, <1>2, <3>1, <4>1 DEF Handled, HandlesNothing
    <3> QED
      BY <1>1, <2>1, <3>1, <3>2 DEF NeededInv
  <2> QED
    BY <2>2, <2>3
<1> QED
  BY <1>1, <1>3, <1>4 DEF HandledInv

\* A rule that is on the list was not run, so its state is the one that
\* get_status reads from its dependencies: it is ready, or one of them failed.
LEMMA TakenRule ==
  ASSUME BuiltInv, exists = {}, NEW w \in Workers, pc[w] = "scan", Status(w) \in DOMAIN AfterTake
  PROVE  LET v == Scanned(w)
         IN  /\ started[v] = 0 /\ v \in NeededBy(g, neighbors)
             /\ \/ AfterTake[Status(w)] = "run"
                \/ AfterTake[Status(w)] = "broadcast" /\ \E d \in ToSet(g[v]) : d \in fails
<1> DEFINE v == Scanned(w)
<1>1. i[w] \in 1..Len(rules) /\ rules \in Seq(Vertices) /\ WorkerTypes /\ g \in [Vertices -> Seq(Vertices)] /\ OrderInv
  BY DEF BuiltInv, ParInv, ScanInv, WorkerTypes, MainTypes
<1>2. v \in Vertices /\ v \in ToSet(rules)
  BY <1>1 DEF Scanned, ToSet
<1>3. phase \in {"work", "done"}
  BY DEF BuiltInv, HandledInv, BuildInv, Idle, ParInv, MainTypes
<1>4. RunInv /\ NeededInv
  BY DEF BuiltInv, HandledInv
<1> HIDE DEF v
<1>5. started[v] = 0 /\ v \in NeededBy(g, neighbors) /\ state[v] = TARGET_CYCLE
  BY <1>2, <1>3, <1>4 DEF RunInv, NeededInv
<1>6. Status(w) = get_status(v)
  BY <1>5 DEF Status, v, TARGET_CYCLE, TARGET_DONE
<1>7. DOMAIN AfterTake = {TARGET_DONE, TARGET_ERROR, TARGET_READY, TARGET_SKIPPED}
      /\ AfterTake[TARGET_ERROR] = "broadcast" /\ AfterTake[TARGET_READY] = "run"
  BY DEF AfterTake, TARGET_DONE, TARGET_ERROR, TARGET_READY, TARGET_SKIPPED
<1>8. CASE get_status(v) = TARGET_READY /\ \A d \in ToSet(g[v]) : state[d] = TARGET_DONE
  BY <1>5, <1>6, <1>7, <1>8 DEF v
<1>9. CASE \E d \in ToSet(g[v]) : get_status(v) = state[d] /\ state[d] # TARGET_DONE
  <2>1. PICK d \in ToSet(g[v]) : get_status(v) = state[d] /\ state[d] # TARGET_DONE
    BY <1>9
  <2>2. d \in Vertices
    BY <1>1, <1>2 DEF ToSet
  <2>3. state[d] \notin {TARGET_READY, TARGET_SKIPPED}
    BY <1>1, <2>2 DEF OrderInv
  <2>4. state[d] = TARGET_ERROR
    BY <1>6, <1>7, <2>1, <2>3
  <2>5. d \in fails
    BY <1>4, <2>2, <2>4 DEF RunInv
  <2> QED
    BY <1>5, <1>6, <1>7, <2>1, <2>4, <2>5 DEF v
<1> QED
  BY <1>1, <1>2, <1>8, <1>9, StatusIs

LEMMA HandledTake ==
  ASSUME BuiltInv, NEW w \in Workers, Take(w)
  PROVE  HandledInv'
<1> DEFINE v == Scanned(w)
           at == AfterTake[Status(w)]
           R == ToSet(rules)
<1>1. /\ UNCHANGED <<exists, fails, neighbors, g, phase>> /\ phase \in {"work", "done"}
      /\ ~(phase = "done" /\ neighbors # <<>>) /\ CollectInv'
  BY AtWork DEF Step
<1>2. /\ pc[w] = "scan" /\ Status(w) \in DOMAIN AfterTake /\ rules' = Erased(w)
      /\ goal' = [goal EXCEPT ![w] = v] /\ pc' = [pc EXCEPT ![w] = at]
      /\ UNCHANGED <<state, started>>
  BY DEF Take, Goto
<1>3. i[w] \in 1..Len(rules) /\ rules \in Seq(Vertices) /\ rules # <<>> /\ WorkerTypes /\ Once
      /\ started \in [Vertices -> Nat]
  BY <1>2, EmptySeq DEF BuiltInv, HandledInv, BuildInv, ParInv, ScanInv, WorkerTypes
<1>4. v \in Vertices /\ v \in R
  BY <1>3 DEF Scanned, ToSet
<1>5. ToSet(rules') = R \ {v} /\ Once'
  <2>1. \A j, k \in 1..Len(rules) : rules[j] = rules[k] => j = k
    BY <1>3 DEF Once
  <2>2. /\ ToSet(RemoveAt(rules, i[w])) = ToSet(rules) \ {rules[i[w]]}
        /\ \A j, k \in 1..Len(RemoveAt(rules, i[w])) :
             RemoveAt(rules, i[w])[j] = RemoveAt(rules, i[w])[k] => j = k
    BY <1>3, <2>1, RemoveAtElements
  <2>3. rules' = RemoveAt(rules, i[w])
    BY <1>2 DEF Erased
  <2> QED
    BY <2>2, <2>3 DEF Once, Scanned
<1>6. at # "exit"
  BY <1>2 DEF AfterTake, TARGET_DONE, TARGET_ERROR, TARGET_READY, TARGET_SKIPPED
<1> HIDE DEF v, at, R
<1>7. pc'[w] = at /\ goal'[w] = v /\ \A u \in Workers : u # w => pc'[u] = pc[u] /\ goal'[u] = goal[u]
  BY <1>2, <1>3 DEF WorkerTypes
<1>8. BuildInv'
  <2>1. \A u \in Workers : pc[u] # "exit"
    BY <1>3 DEF BuiltInv, HandledInv, BuildInv
  <2>2. \A u \in Workers : pc'[u] # "exit"
    BY <1>6, <1>7, <2>1
  <2> QED
    BY <1>1, <1>2, <1>3, <1>5, <2>2 DEF BuildInv
<1>9. ASSUME exists = {} PROVE RunInv' /\ NeededInv'
  <2>1. RunInv /\ NeededInv
    BY <1>9 DEF BuiltInv, HandledInv
  <2>2. /\ started[v] = 0 /\ v \in NeededBy(g, neighbors)
        /\ at = "run" \/ (at = "broadcast" /\ \E d \in ToSet(g[v]) : d \in fails)
    BY <1>2, <1>9, TakenRule DEF v, at
  <2>3. \A u \in Workers : pc[u] = "run" => u # w /\ goal[u] # v
    BY <1>2, <1>4, <2>1 DEF RunInv, R
  <2>4. NeededBy(g', neighbors') = NeededBy(g, neighbors)
    BY <1>1
  <2>5. RunInv'
    <3>1. \A x \in Vertices :
            /\ started'[x] \in {0, 1} /\ (state'[x] # TARGET_CYCLE => started'[x] = 1)
            /\ state'[x] = TARGET_ERROR => x \in fails'
            /\ started'[x] = 1 =>
                 /\ x \notin ToSet(rules') /\ x \in NeededBy(g', neighbors')
                 /\ \A d \in ToSet(g'[x]) : state'[d] = TARGET_DONE
      BY <1>1, <1>2, <1>5, <2>1, <2>4 DEF RunInv, R
    <3>2. \A u \in Workers :
            /\ pc'[u] = "run" => /\ goal'[u] \notin ToSet(rules') /\ started'[goal'[u]] = 0
                                 /\ goal'[u] \in NeededBy(g', neighbors')
            /\ pc'[u] = "finish" => started'[goal'[u]] = 1
      <4> TAKE u \in Workers
      <4>1. CASE u = w
        BY <1>2, <1>5, <1>7, <2>2, <2>4, <4>1
      <4>2. CASE u # w
        BY <1>2, <1>5, <1>7, <2>1, <2>4, <4>2 DEF RunInv, R
      <4> QED
        BY <4>1, <4>2
    <3>3. \A x, u \in Workers : pc'[x] = "run" /\ pc'[u] = "run" /\ goal'[x] = goal'[u] => x = u
      BY <1>7, <2>1, <2>3 DEF RunInv
    <3> QED
      BY <3>1, <3>2, <3>3 DEF RunInv
  <2>6. NeededInv'
    <3>1. R \subseteq NeededBy(g, neighbors) /\ \A x \in NeededBy(g, neighbors) : Handled(x)
      BY <1>1, <2>1 DEF NeededInv, R
    <3>2. ASSUME NEW x \in NeededBy(g, neighbors) PROVE Handled(x)'
      <4>1. CASE x = v
        BY <1>1, <1>7, <2>2, <4>1 DEF Handled
      <4>2. CASE x # v
        <5>1. \/ x \in R \/ started[x] = 1
              \/ \E u \in Workers : pc[u] = "run" /\ goal[u] = x
              \/ \E d \in ToSet(g[x]) : d \in fails
          BY <3>1 DEF Handled, R
        <5>2. (\E u \in Workers : pc[u] = "run" /\ goal[u] = x) =>
                 \E u \in Workers : pc'[u] = "run" /\ goal'[u] = x
          BY <1>7, <2>3
        <5> QED
          BY <1>1, <1>2, <1>5, <4>2, <5>1, <5>2 DEF Handled
      <4> QED
        BY <4>1, <4>2
    <3> QED
      BY <1>5, <2>4, <3>1, <3>2 DEF NeededInv
  <2> QED
    BY <2>5, <2>6
<1> QED
  BY <1>1, <1>8, <1>9 DEF HandledInv

LEMMA HandledRun ==
  ASSUME BuiltInv, NEW w \in Workers, Run(w)
  PROVE  HandledInv'
<1> DEFINE v == goal[w]
<1>1. /\ UNCHANGED <<exists, fails, neighbors, g, phase>> /\ phase \in {"work", "done"}
      /\ ~(phase = "done" /\ neighbors # <<>>) /\ CollectInv'
  BY AtWork DEF Step
<1>2. /\ pc[w] = "run" /\ started' = [started EXCEPT ![v] = @ + 1]
      /\ pc' = [pc EXCEPT ![w] = "finish"] /\ UNCHANGED <<rules, state, goal>>
  BY DEF Run, Goto
<1>3. v \in Vertices /\ WorkerTypes /\ Once /\ started \in [Vertices -> Nat]
  BY <1>2 DEF BuiltInv, HandledInv, BuildInv, ParInv, ScanInv
<1> HIDE DEF v
<1>4. pc'[w] = "finish" /\ \A u \in Workers : u # w => pc'[u] = pc[u]
  BY <1>2, <1>3 DEF WorkerTypes
<1>5. started'[v] = started[v] + 1 /\ \A x \in Vertices : x # v => started'[x] = started[x]
  BY <1>2, <1>3
<1>6. BuildInv'
  <2>1. started' \in [Vertices -> Nat]
    BY <1>2, <1>3
  <2>2. Once'
    BY <1>2, <1>3 DEF Once
  <2>3. \A u \in Workers : pc'[u] = "exit" => pc[u] = "exit"
    BY <1>4
  <2> QED
    BY <1>1, <1>2, <2>1, <2>2, <2>3 DEF BuildInv, BuiltInv, HandledInv
<1>7. ASSUME exists = {} PROVE RunInv' /\ NeededInv'
  <2>1. RunInv /\ NeededInv /\ OrderInv
    BY <1>7 DEF BuiltInv, HandledInv, ParInv
  <2>2. /\ started[v] = 0 /\ v \in NeededBy(g, neighbors) /\ v \notin ToSet(rules)
        /\ \A d \in ToSet(g[v]) : state[d] = TARGET_DONE
    BY <1>2, <1>7, <2>1 DEF RunInv, OrderInv, ToSet, v
  <2>3. started'[v] = 1
    BY <1>5, <2>2
  <2>4. NeededBy(g', neighbors') = NeededBy(g, neighbors) /\ ToSet(rules') = ToSet(rules)
    BY <1>1, <1>2
  <2>5. \A u \in Workers : pc[u] = "run" /\ u # w => goal[u] # v
    BY <1>2, <2>1 DEF RunInv, v
  <2>6. RunInv'
    <3>1. ASSUME NEW x \in Vertices
          PROVE  /\ started'[x] \in {0, 1} /\ (state'[x] # TARGET_CYCLE => started'[x] = 1)
                 /\ state'[x] = TARGET_ERROR => x \in fails'
                 /\ started'[x] = 1 =>
                      /\ x \notin ToSet(rules') /\ x \in NeededBy(g', neighbors')
                      /\ \A d \in ToSet(g'[x]) : state'[d] = TARGET_DONE
      <4>1. CASE x = v
        BY <1>1, <1>2, <2>1, <2>2, <2>3, <2>4, <4>1 DEF RunInv
      <4>2. CASE x # v
        BY <1>1, <1>2, <1>5, <2>1, <2>4, <4>2 DEF RunInv
      <4> QED
        BY <4>1, <4>2
    <3>2. ASSUME NEW u \in Workers
          PROVE  /\ pc'[u] = "run" => /\ goal'[u] \notin ToSet(rules') /\ started'[goal'[u]] = 0
                                      /\ goal'[u] \in NeededBy(g', neighbors')
                 /\ pc'[u] = "finish" => started'[goal'[u]] = 1
      <4>1. CASE u = w
        BY <1>2, <1>4, <2>3, <4>1 DEF v
      <4>2. CASE u # w
        <5>1. pc'[u] = pc[u] /\ goal'[u] = goal[u]
          BY <1>2, <1>4, <4>2
        <5>2. CASE pc[u] = "run"
          <6>1. goal[u] \in Vertices /\ goal[u] # v
            BY <2>5, <4>2, <5>2 DEF BuiltInv, ParInv, ScanInv
          <6> QED
            BY <1>5, <2>1, <2>4, <5>1, <5>2, <6>1 DEF RunInv
        <5>3. CASE pc[u] = "finish"
          <6>1. goal[u] \in Vertices /\ started[goal[u]] = 1
            BY <2>1, <5>3 DEF BuiltInv, ParInv, ScanInv, RunInv
          <6> QED
            BY <1>5, <2>3, <5>1, <5>3, <6>1
        <5> QED
          BY <5>1, <5>2, <5>3
      <4> QED
        BY <4>1, <4>2
    <3>3. \A x, u \in Workers : pc'[x] = "run" /\ pc'[u] = "run" /\ goal'[x] = goal'[u] => x = u
      BY <1>2, <1>4, <2>1 DEF RunInv
    <3> QED
      BY <3>1, <3>2, <3>3 DEF RunInv
  <2>7. NeededInv'
    <3>1. ToSet(rules) \subseteq NeededBy(g, neighbors) /\ \A x \in NeededBy(g, neighbors) : Handled(x)
      BY <1>1, <2>1 DEF NeededInv
    <3>2. ASSUME NEW x \in NeededBy(g, neighbors) PROVE Handled(x)'
      <4>1. CASE x = v
        BY <2>3, <4>1 DEF Handled
      <4>2. CASE x # v
        <5>1. x \in Vertices
          BY DEF NeededBy
        <5>2. (\E u \in Workers : pc[u] = "run" /\ goal[u] = x) =>
                 \E u \in Workers : pc'[u] = "run" /\ goal'[u] = x
          BY <1>2, <1>4, <4>2 DEF v
        <5> QED
          BY <1>1, <1>2, <1>5, <2>4, <3>1, <4>2, <5>1, <5>2 DEF Handled
      <4> QED
        BY <4>1, <4>2
    <3> QED
      BY <2>4, <3>1, <3>2 DEF NeededInv
  <2> QED
    BY <2>6, <2>7
<1> QED
  BY <1>1, <1>6, <1>7 DEF HandledInv

LEMMA HandledFinish ==
  ASSUME BuiltInv, NEW w \in Workers, Finish(w)
  PROVE  HandledInv'
<1> DEFINE v == goal[w]
<1>1. /\ UNCHANGED <<exists, fails, neighbors, g, phase>> /\ phase \in {"work", "done"}
      /\ ~(phase = "done" /\ neighbors # <<>>) /\ CollectInv'
  BY AtWork DEF Step
<1>2. /\ pc[w] \in {"finish", "skip"} /\ pc' = [pc EXCEPT ![w] = "broadcast"]
      /\ state' = [state EXCEPT ![v] = IF pc[w] = "skip" THEN TARGET_READY ELSE Outcome(v)]
      /\ UNCHANGED <<rules, started, goal>>
  BY DEF Finish, Goto
<1>3. v \in Vertices /\ WorkerTypes /\ Once /\ started \in [Vertices -> Nat]
  BY <1>2 DEF BuiltInv, HandledInv, BuildInv, ParInv, ScanInv
<1> HIDE DEF v
<1>4. pc'[w] = "broadcast" /\ \A u \in Workers : u # w => pc'[u] = pc[u]
  BY <1>2, <1>3 DEF WorkerTypes
<1>5. BuildInv'
  <2>1. Once'
    BY <1>2, <1>3 DEF Once
  <2>2. \A u \in Workers : pc'[u] = "exit" => pc[u] = "exit"
    BY <1>4
  <2> QED
    BY <1>1, <1>2, <1>3, <2>1, <2>2 DEF BuildInv, BuiltInv, HandledInv
<1>6. ASSUME exists = {} PROVE RunInv' /\ NeededInv'
  <2>1. RunInv /\ NeededInv /\ OrderInv /\ DoneInv
    BY <1>6 DEF BuiltInv, HandledInv, ParInv
  <2>2. pc[w] = "finish" /\ started[v] = 1
    BY <1>2, <1>6, <2>1 DEF RunInv, OrderInv, v
  <2>3. state'[v] = Outcome(v) /\ \A x \in Vertices : x # v => state'[x] = state[x]
    BY <1>2, <1>3, <2>2 DEF WorkerTypes
  <2>4. /\ \A x \in Vertices : state[x] = TARGET_DONE => state'[x] = TARGET_DONE
        /\ state'[v] = TARGET_ERROR => v \in fails
    BY <1>3, <2>1, <2>3 DEF Outcome, DoneInv, TARGET_DONE, TARGET_ERROR
  <2>5. NeededBy(g', neighbors') = NeededBy(g, neighbors) /\ ToSet(rules') = ToSet(rules)
    BY <1>1, <1>2
  <2>6. RunInv'
    <3>1. ASSUME NEW x \in Vertices
          PROVE  /\ started'[x] \in {0, 1} /\ (state'[x] # TARGET_CYCLE => started'[x] = 1)
                 /\ state'[x] = TARGET_ERROR => x \in fails'
                 /\ started'[x] = 1 =>
                      /\ x \notin ToSet(rules') /\ x \in NeededBy(g', neighbors')
                      /\ \A d \in ToSet(g'[x]) : state'[d] = TARGET_DONE
      <4>1. /\ started'[x] \in {0, 1} /\ (state'[x] # TARGET_CYCLE => started'[x] = 1)
            /\ state'[x] = TARGET_ERROR => x \in fails'
        BY <1>1, <1>2, <2>1, <2>2, <2>3, <2>4 DEF RunInv
      <4>2. ASSUME started'[x] = 1
            PROVE  /\ x \notin ToSet(rules') /\ x \in NeededBy(g', neighbors')
                   /\ \A d \in ToSet(g'[x]) : state'[d] = TARGET_DONE
        <5>1. /\ x \notin ToSet(rules) /\ x \in NeededBy(g, neighbors)
              /\ \A d \in ToSet(g[x]) : state[d] = TARGET_DONE
          BY <1>2, <2>1, <4>2 DEF RunInv
        <5>2. ToSet(g[x]) \subseteq Vertices
          BY DEF BuiltInv, ParInv, MainTypes, ToSet
        <5> QED
          BY <1>1, <2>4, <2>5, <5>1, <5>2
      <4> QED
        BY <4>1, <4>2
    <3>2. ASSUME NEW u \in Workers
          PROVE  /\ pc'[u] = "run" => /\ goal'[u] \notin ToSet(rules') /\ started'[goal'[u]] = 0
                                      /\ goal'[u] \in NeededBy(g', neighbors')
                 /\ pc'[u] = "finish" => started'[goal'[u]] = 1
      BY <1>2, <1>4, <2>1, <2>5 DEF RunInv
    <3>3. \A x, u \in Workers : pc'[x] = "run" /\ pc'[u] = "run" /\ goal'[x] = goal'[u] => x = u
      BY <1>2, <1>4, <2>1 DEF RunInv
    <3> QED
      BY <3>1, <3>2, <3>3 DEF RunInv
  <2>7. NeededInv'
    <3>1. ToSet(rules) \subseteq NeededBy(g, neighbors) /\ \A x \in NeededBy(g, neighbors) : Handled(x)
      BY <1>1, <2>1 DEF NeededInv
    <3>2. ASSUME NEW x \in NeededBy(g, neighbors) PROVE Handled(x)'
      <4>1. \A u \in Workers : pc[u] = "run" => pc'[u] = "run" /\ goal'[u] = goal[u]
        BY <1>2, <1>4, <2>2
      <4> QED
        BY <1>1, <1>2, <2>5, <3>1, <4>1 DEF Handled
    <3> QED
      BY <2>5, <3>1, <3>2 DEF NeededInv
  <2> QED
    BY <2>6, <2>7
<1> QED
  BY <1>1, <1>5, <1>6 DEF HandledInv

LEMMA HandledStep ==
  ASSUME BuiltInv, ParInv', [Next]_vars
  PROVE  HandledInv'
<1>1. CASE Main
  BY <1>1, HandledCheck, HandledAllChecked, HandledDescend, HandledAscend, HandledStart, HandledJoin DEF Main
<1>2. ASSUME NEW w \in Workers, Step(w) \/ SpuriousWakeup(w) PROVE HandledInv'
  <2>1. pc \in [Workers -> Positions] /\ goal \in [Workers -> Vertices \cup {NULL}]
        /\ \A u \in Workers : pc[u] = "exit" => rules = <<>>
    BY DEF BuiltInv, ParInv, WorkerTypes, HandledInv, BuildInv
  <2>2. CASE Lock(w) \/ PassOver(w) \/ Sleep(w) \/ SpuriousWakeup(w)
    <3>1. HandlesNothing
      BY <2>1, <2>2 DEF Lock, PassOver, Sleep, SpuriousWakeup, Goto, HandlesNothing
    <3> QED
      BY <1>2, <3>1, HandledSame
  <2>3. CASE Broadcast(w)
    <3>1. HandlesNothing
      BY <2>1, <2>3 DEF Broadcast, Woken, HandlesNothing
    <3> QED
      BY <1>2, <3>1, HandledSame
  <2> QED
    BY <1>2, <2>2, <2>3, HandledTake, HandledRun, HandledFinish DEF Step
<1>3. CASE UNCHANGED vars
  <2>1. UNCHANGED <<main_vars, check_vars, worker_vars>>
    BY <1>3 DEF vars
  <2>2. UNCHANGED <<exists, fails, phase, neighbors, calls, g, rules, state, pc, goal, started>>
    BY <2>1 DEF main_vars, check_vars, worker_vars
  <2>3. CollectInv' /\ BuildInv'
    BY <2>2 DEF BuiltInv, HandledInv, CollectInv, BuildInv, Idle, Once
  <2>4. exists' = {} => RunInv' /\ NeededInv'
    BY <2>2 DEF BuiltInv, HandledInv, RunInv, NeededInv, Handled
  <2> QED
    BY <2>3, <2>4 DEF HandledInv
<1> QED
  BY <1>1, <1>2, <1>3 DEF Next

\* When the workers are done the list is empty and nobody runs a rule.
LEMMA AllHandled ==
  ASSUME BuiltInv, phase = "done", exists = {}, neighbors # <<>>, NEW v \in Vertices
  PROVE  started[v] = 1 <=> /\ v \in Needed
                            /\ \A d \in ToSet(g[v]) : started[d] = 1 /\ d \notin fails
<1>1. /\ \A w \in Workers : pc[w] = "exit"
      /\ RunInv /\ NeededInv /\ DoneInv /\ g \in [Vertices -> Seq(Vertices)]
  BY DEF BuiltInv, HandledInv, BuildInv, ParInv, MainTypes
<1>2. rules = <<>>
  BY <1>1, ParmakeAssumption DEF BuiltInv, HandledInv, BuildInv
<1>3. Needed = NeededBy(g, neighbors)
  BY NeededIs
<1>4. ASSUME started[v] = 1
      PROVE  v \in Needed /\ \A d \in ToSet(g[v]) : started[d] = 1 /\ d \notin fails
  <2>1. v \in NeededBy(g, neighbors) /\ \A d \in ToSet(g[v]) : state[d] = TARGET_DONE
    BY <1>1, <1>4 DEF RunInv
  <2>2. \A d \in ToSet(g[v]) : d \in Vertices
    BY <1>1 DEF ToSet
  <2>3. TARGET_DONE # TARGET_CYCLE
    BY DEF TARGET_DONE, TARGET_CYCLE
  <2> QED
    BY <1>1, <1>3, <2>1, <2>2, <2>3 DEF RunInv, DoneInv
<1>5. ASSUME v \in Needed, \A d \in ToSet(g[v]) : started[d] = 1 /\ d \notin fails
      PROVE  started[v] = 1
  <2>1. Handled(v)
    BY <1>1, <1>3, <1>5 DEF NeededInv
  <2>2. v \notin ToSet(rules)
    BY <1>2 DEF ToSet
  <2> QED
    BY <1>1, <1>5, <2>1, <2>2 DEF Handled
<1> QED
  BY <1>4, <1>5

\* For every makefile, every set of failing rules and any number of workers:
\* is_Cycle answers 1 exactly for the goals from which a cycle can be reached,
\* although every return with 0 throws the visited set away; and when the
\* workers are done and no target was a file at the start, a rule was run once
\* exactly when it is needed and all its dependencies were run without a
\* failure, although rules leave the list while other workers run theirs
\* (parmake.c:35-56, 99-157, 166-176).
THEOREM BuiltCorrect ==
  Spec => []AllBuilt
<1>1. Init => BuiltInv /\ CheckInv
  BY ParInit, HandledInit, CheckStart DEF BuiltInv
<1>2. BuiltInv /\ CheckInv /\ [Next]_vars => (BuiltInv /\ CheckInv)'
  <2> SUFFICES ASSUME BuiltInv, CheckInv, [Next]_vars PROVE BuiltInv' /\ CheckInv'
    OBVIOUS
  <2>1. ParInv /\ ParInv'
    BY ParStep DEF BuiltInv
  <2> QED
    BY <2>1, HandledStep, CheckAll DEF BuiltInv
<1>3. BuiltInv /\ CheckInv => AllBuilt
  BY AllHandled, AnswerRight DEF AllBuilt
<1> QED
  BY <1>1, <1>2, <1>3, PTL DEF Spec
=============================================================================
