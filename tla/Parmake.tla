------------------------------- MODULE Parmake -------------------------------
(***************************************************************************)
(* The parallel make of parallel_make/parmake.c.  The main thread drops    *)
(* the goals that is_Cycle finds cyclic (module IsCycle), collects the     *)
(* rules in dependency order and starts the workers; each worker scans the *)
(* list of rules under the mutex, takes a rule it can handle, and sleeps   *)
(* when there is none.  A rule's state is written, and the broadcast made, *)
(* after the mutex was released.                                           *)
(***************************************************************************)
EXTENDS Integers, Sequences, FiniteSets, SequencesExt

CONSTANTS Vertices,   \* the targets
          Inputs,     \* makefiles: records with the graph g and the goals
          MaxFiles, MaxFailures,  \* bounds: existing files, failing rules
          Workers,
          MaxDepth,   \* bound on the two recursions, beyond any useful depth
          NULL

\* Every target named in a makefile is a vertex of its graph; NULL is no target,
\* no thread and no answer; an array of threads (parmake.c:162) is not empty.
ASSUME ParmakeAssumption ==
  /\ Inputs \subseteq [g : [Vertices -> Seq(Vertices)], goals : Seq(Vertices) \ {<<>>}]
  /\ MaxFiles \in Nat /\ MaxFailures \in Nat /\ MaxDepth \in Nat
  /\ NULL \notin Vertices \cup Workers \cup {0, 1} /\ Workers # {}

\* target_state; a rule that was not handled yet has the value of TARGET_CYCLE.
TARGET_ERROR == -1
TARGET_CYCLE == 0
TARGET_READY == 1
TARGET_SKIPPED == 2
TARGET_DONE == 3

VARIABLES exists,     \* targets that are files when parmake starts
          fails,      \* targets one of whose commands fails
          phase,      \* main: "check", "collect", "work", "done"
          neighbors, idx,          \* main: the goals and the loop index
          calls,      \* help_get_rules: the goals each active call has left
          g, root, call, stack, set_, ret,  \* is_Cycle
          rules, state,
          lock,       \* owner of the mutex, or NULL
          pc, i, goal,  \* per worker
          started     \* history: how often the commands of a rule were started

check_vars  == <<g, root, call, stack, set_, ret>>
main_vars   == <<exists, fails, phase, neighbors, idx, calls>>
worker_vars == <<rules, state, lock, pc, i, goal, started>>
vars == <<check_vars, main_vars, worker_vars>>

cycle == INSTANCE IsCycle WITH Graphs <- {in.g : in \in Inputs}

SmallSets(n) == {S \in SUBSET Vertices : Cardinality(S) <= n}

Init ==
  /\ \E in \in Inputs : g = in.g /\ neighbors = in.goals
  /\ exists \in SmallSets(MaxFiles) /\ fails \in SmallSets(MaxFailures)
  /\ phase = "check" /\ idx = 1
  /\ root = neighbors[1] /\ call = root /\ stack = <<>> /\ set_ = NULL /\ ret = NULL
  /\ calls = <<>> /\ rules = <<>> /\ state = [v \in Vertices |-> TARGET_CYCLE]
  /\ lock = NULL
  /\ pc = [w \in Workers |-> "lock"] /\ i = [w \in Workers |-> 1]
  /\ goal = [w \in Workers |-> NULL]
  /\ started = [v \in Vertices |-> 0]

-----------------------------------------------------------------------------
(* parmake: the main thread *)

CheckStep == phase = "check" /\ cycle!Next /\ UNCHANGED <<main_vars, worker_vars>>

\* vector_erase inside the loop moves the next goal to idx, which is then
\* skipped.
Remaining == IF ret = 1 THEN RemoveAt(neighbors, idx) ELSE neighbors

CheckNextGoal ==
  /\ phase = "check" /\ cycle!Returned /\ idx < Len(Remaining)
  /\ neighbors' = Remaining /\ idx' = idx + 1
  /\ root' = Remaining[idx + 1] /\ call' = root' /\ ret' = NULL
  /\ UNCHANGED <<exists, fails, phase, calls, g, stack, set_, worker_vars>>

\* The last goal is checked: return when none is left.
AllChecked ==
  /\ phase = "check" /\ cycle!Returned /\ idx >= Len(Remaining)
  /\ neighbors' = Remaining /\ calls' = <<Remaining>>
  /\ phase' = IF Remaining = <<>> THEN "done" ELSE "collect"
  /\ UNCHANGED <<exists, fails, idx, check_vars, worker_vars>>

(* help_get_rules: a call handles its goals in order, each one after a call *)
(* for its dependencies.                                                    *)

Goals == Last(calls)

Descend ==
  /\ phase = "collect" /\ Goals # <<>> /\ Len(calls) < MaxDepth
  /\ calls' = Append(calls, g[Head(Goals)])
  /\ UNCHANGED <<exists, fails, phase, neighbors, idx, check_vars, worker_vars>>

\* counter: a goal is pushed once.
Pushed(v) == IF Contains(rules, v) THEN rules ELSE Append(rules, v)

\* The call for the dependencies returns: its caller handles the goal itself.
Ascend ==
  /\ phase = "collect" /\ Goals = <<>> /\ Len(calls) > 1
  /\ LET caller == Last(Front(calls))
     IN  /\ rules' = Pushed(Head(caller))
         /\ calls' = Append(Front(Front(calls)), Tail(caller))
  /\ UNCHANGED <<exists, fails, phase, neighbors, idx, check_vars,
                 state, lock, pc, i, goal, started>>

StartWorkers ==
  /\ phase = "collect" /\ calls = << <<>> >> /\ phase' = "work"
  /\ UNCHANGED <<exists, fails, neighbors, idx, calls, check_vars, worker_vars>>

Join ==
  /\ phase = "work" /\ \A w \in Workers : pc[w] = "exit"
  /\ phase' = "done"
  /\ UNCHANGED <<exists, fails, neighbors, idx, calls, check_vars, worker_vars>>

-----------------------------------------------------------------------------
(* get_status and process_rules *)

\* Slip: a target is ready although one of its dependencies is not.
Slip_AlwaysReady(v) == TARGET_READY

\* A file that exists stays; the first dependency that is not done decides.
get_status(v) ==
  LET waits == {k \in DOMAIN g[v] : state[g[v][k]] # TARGET_DONE}
      first == CHOOSE k \in waits : \A l \in waits : k <= l
  IN  IF v \in exists THEN TARGET_SKIPPED
      ELSE IF waits = {} THEN TARGET_READY ELSE state[g[v][first]]

Goto(w, label) == pc' = [pc EXCEPT ![w] = label]

Lock(w) ==
  /\ phase = "work" /\ pc[w] = "lock" /\ lock = NULL
  /\ IF rules = <<>>
     THEN Goto(w, "exit") /\ UNCHANGED <<lock, i>>
     ELSE /\ lock' = w /\ i' = [i EXCEPT ![w] = 1]
          /\ Goto(w, "scan")
  /\ UNCHANGED <<main_vars, check_vars, rules, state, goal, started>>

Scanned(w) == rules[i[w]]
Status(w) == IF state[Scanned(w)] = TARGET_DONE
             THEN TARGET_DONE ELSE get_status(Scanned(w))

AfterTake ==
  [status \in {TARGET_DONE, TARGET_ERROR, TARGET_READY, TARGET_SKIPPED} |->
     CASE status = TARGET_DONE  -> "lock" [] status = TARGET_ERROR   -> "broadcast"
       [] status = TARGET_READY -> "run"  [] status = TARGET_SKIPPED -> "skip"]

Erased(w) == RemoveAt(rules, i[w])

\* A rule that can be handled leaves the list; the mutex is released.
Take(w) ==
  /\ pc[w] = "scan" /\ Status(w) \in DOMAIN AfterTake
  /\ rules' = Erased(w) /\ goal' = [goal EXCEPT ![w] = Scanned(w)]
  /\ lock' = NULL /\ Goto(w, AfterTake[Status(w)])
  /\ UNCHANGED <<main_vars, check_vars, state, i, started>>

PassOver(w) ==
  /\ pc[w] = "scan" /\ Status(w) = TARGET_CYCLE /\ i[w] < Len(rules)
  /\ i' = [i EXCEPT ![w] = @ + 1]
  /\ UNCHANGED <<main_vars, check_vars, rules, state, lock, pc, goal, started>>

\* The last rule cannot be handled either: pthread_cond_wait.  When it
\* returns the mutex is released and the loop begins again.
Sleep(w) ==
  /\ pc[w] = "scan" /\ Status(w) = TARGET_CYCLE /\ i[w] = Len(rules)
  /\ lock' = NULL /\ Goto(w, "asleep")
  /\ UNCHANGED <<main_vars, check_vars, rules, state, i, goal, started>>

SpuriousWakeup(w) ==
  /\ pc[w] = "asleep" /\ Goto(w, "lock")
  /\ UNCHANGED <<main_vars, check_vars, rules, state, lock, i, goal, started>>

Run(w) ==
  /\ pc[w] = "run"
  /\ started' = [started EXCEPT ![goal[w]] = @ + 1]
  /\ Goto(w, "finish")
  /\ UNCHANGED <<main_vars, check_vars, rules, state, lock, i, goal>>

\* Slip: a failing command is ignored.
Slip_IgnoreFailure(v) == TARGET_DONE

Outcome(v) == IF v \in fails THEN TARGET_ERROR ELSE TARGET_DONE

Finish(w) ==
  /\ pc[w] \in {"finish", "skip"}
  /\ state' = [state EXCEPT ![goal[w]] =
                 IF pc[w] = "skip" THEN TARGET_READY ELSE Outcome(goal[w])]
  /\ Goto(w, "broadcast")
  /\ UNCHANGED <<main_vars, check_vars, rules, lock, i, goal, started>>

\* Slip: nobody is woken.
Slip_NoBroadcast == {}

Woken == {u \in Workers : pc[u] = "asleep"}

Broadcast(w) ==
  /\ pc[w] = "broadcast"
  /\ pc' = [u \in Workers |-> IF u = w \/ u \in Woken THEN "lock" ELSE pc[u]]
  /\ goal' = [goal EXCEPT ![w] = NULL]
  /\ UNCHANGED <<main_vars, check_vars, rules, state, lock, i, started>>

Step(w) ==
  \/ Lock(w) \/ Take(w) \/ PassOver(w) \/ Sleep(w)
  \/ Run(w) \/ Finish(w) \/ Broadcast(w)

Main == CheckStep \/ CheckNextGoal \/ AllChecked \/ Descend \/ Ascend \/ StartWorkers \/ Join

Next == Main \/ \E w \in Workers : Step(w) \/ SpuriousWakeup(w)

\* Main and the workers run, commands end, and a worker that finds the mutex
\* free again and again gets it.
Spec ==
  /\ Init /\ [][Next]_vars
  /\ WF_vars(Main) /\ \A w \in Workers : WF_vars(Step(w)) /\ SF_vars(Lock(w))

-----------------------------------------------------------------------------
(* Properties *)

\* When no target is a file already, the commands of a rule are started only
\* after the commands of all its dependencies have succeeded, although the
\* state of a rule is written without the mutex.
DependenciesFirst ==
  \A w \in Workers : (exists = {} /\ pc[w] = "run") =>
     \A d \in ToSet(g[goal[w]]) : state[d] = TARGET_DONE

\* The rules that depend on v.
Dependents(v) == {u \in Vertices : Contains(g[u], v)}

\* Failures stop the program when a dependent of a failed rule has dependents
\* itself: it is dropped without a state of its own (parmake.c:117-121).
Shallow == \A v \in fails, u \in Vertices : u \in Dependents(v) => Dependents(u) = {}

\* The targets that must be made: the goals that are left, and what they need.
Needed ==
  {v \in Vertices :
     \A S \in SUBSET Vertices :
        (ToSet(neighbors) \subseteq S /\ \A u \in S : ToSet(g[u]) \subseteq S) => v \in S}

\* is_Cycle answers 1 exactly for the goals from which a cycle can be reached,
\* although every return with 0 throws the visited set away, and when the
\* workers are done, every rule that is needed and whose dependencies were all
\* run without a failure was run once, and only those (parmake.c:99-157, 166-176).
AllBuilt ==
  /\ cycle!AnswerCorrect
  /\ (phase = "done" /\ exists = {} /\ neighbors # <<>>) =>
       \A v \in Vertices :
          started[v] = 1 <=> /\ v \in Needed
                             /\ \A d \in ToSet(g[v]) : started[d] = 1 /\ d \notin fails

\* parmake returns: no worker sleeps for ever although broadcasts are made
\* without the mutex and may come before the wait they were meant for.
Terminates == Shallow ~> phase = "done"
=============================================================================
