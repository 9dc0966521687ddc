------------------------------- MODULE Queue -------------------------------
(***************************************************************************)
(* The thread-safe queue of critical_concurrency/queue.c: a linked list,   *)
(* a size, an optional maximum size, one mutex `m` and one condition       *)
(* variable `cv` shared by the producers waiting for room and the          *)
(* consumers waiting for an element.                                       *)
(*                                                                         *)
(* A thread's pc names the statement it executes next.  Every access to    *)
(* the list happens between pthread_mutex_lock and pthread_mutex_unlock    *)
(* except free(node), which queue_pull calls after the unlock.             *)
(***************************************************************************)
EXTENDS Integers, FiniteSets

CONSTANTS Producers,  \* threads that call queue_push
          Consumers,  \* threads that call queue_pull
          Data,       \* the elements (void *)
          MaxSizes,   \* the max_size arguments given to queue_create
          Nodes,      \* the heap cells malloc can return (bounds the heap)
          NULL

ASSUME QueueAssumption ==
  /\ Producers \cap Consumers = {}
  /\ MaxSizes \subseteq Int /\ IsFiniteSet(Nodes)
  /\ NULL \notin Producers \cup Consumers \cup Data \cup Nodes

Threads == Producers \cup Consumers

VARIABLES q,          \* "absent", "live", or "destroying"
          m,          \* owner of the mutex, or NULL
          pc,         \* per thread
          val,        \* per thread: the element pushed, or the one pulled
          node,       \* per consumer: the local variable `node`
          head, tail, size, max_size,
          next, data, \* the fields of the nodes
          allocated   \* nodes that are malloc'd and not yet freed

list   == <<head, tail, size, max_size, next, data>>
locals == <<val, node>>
vars   == <<q, m, pc, locals, list, allocated>>

PC == {"idle", "lock", "test", "waiting", "count", "signal", "unlock", "free"}

Init ==
  /\ q = "absent" /\ m = NULL
  /\ pc = [t \in Threads |-> "idle"]
  /\ val = [t \in Threads |-> NULL] /\ node = [c \in Consumers |-> NULL]
  /\ head = NULL /\ tail = NULL /\ size = 0 /\ max_size = 0
  /\ next = [n \in Nodes |-> NULL] /\ data = [n \in Nodes |-> NULL]
  /\ allocated = {}

Goto(t, label) == pc' = [pc EXCEPT ![t] = label]

\* The threads inside pthread_cond_wait that no signal has reached.
Waiting == {t \in Threads : pc[t] = "waiting"}

\* The contents of a freed cell are not kept.
Scrub(n) == next' = [next EXCEPT ![n] = NULL] /\ data' = [data EXCEPT ![n] = NULL]

-----------------------------------------------------------------------------
(* queue_create and queue_destroy, called by the thread that owns the queue *)

\* malloc, pthread_cond_init or pthread_mutex_init may fail: each error path
\* releases what was acquired before it and returns NULL.
QueueCreate ==
  /\ q = "absent"
  /\ \/ /\ q' = "live" /\ head' = NULL /\ tail' = NULL /\ size' = 0
        /\ max_size' \in MaxSizes
        /\ UNCHANGED <<m, pc, locals, next, data, allocated>>
     \/ UNCHANGED vars

\* Nobody else may be using the queue: queue_destroy takes no lock.
DestroyCall ==
  /\ q = "live" /\ \A t \in Threads : pc[t] = "idle"
  /\ q' = "destroying"
  /\ UNCHANGED <<m, pc, locals, list, allocated>>

DestroyNode ==
  /\ q = "destroying" /\ head # NULL
  /\ head' = next[head] /\ allocated' = allocated \ {head} /\ Scrub(head)
  /\ UNCHANGED <<q, m, pc, locals, tail, size, max_size>>

DestroyEnd ==
  /\ q = "destroying" /\ head = NULL
  /\ q' = "absent"
  /\ UNCHANGED <<m, pc, locals, list, allocated>>

-----------------------------------------------------------------------------
(* What queue_push and queue_pull share *)

MutexFree == m = NULL

Lock(t) ==
  /\ pc[t] = "lock" /\ MutexFree
  /\ m' = t /\ Goto(t, "test")
  /\ UNCHANGED <<q, locals, list, allocated>>

\* The conditions of the two while loops.
Full  == max_size > 0 /\ size >= max_size
Empty == size = 0
MustWait(t) == IF t \in Producers THEN Full ELSE Empty

\* pthread_cond_wait: release the mutex and join the waiters in one step; a
\* waiter that wakes takes the mutex again and tests its condition again.
CondWait(t) ==
  /\ pc[t] = "test" /\ MustWait(t)
  /\ m' = NULL /\ Goto(t, "waiting")
  /\ UNCHANGED <<q, locals, list, allocated>>

SpuriousWakeup(t) ==
  /\ pc[t] = "waiting"
  /\ Goto(t, "lock")
  /\ UNCHANGED <<q, m, locals, list, allocated>>

Counted(t) == IF t \in Producers THEN size + 1 ELSE size - 1

Count(t) ==
  /\ pc[t] = "count"
  /\ size' = Counted(t)
  /\ Goto(t, "signal")
  /\ UNCHANGED <<q, m, locals, head, tail, max_size, next, data, allocated>>

\* Slips: queue_push, or queue_pull, does not signal.
Slip_PushSilent(t) == IF t \in Producers THEN {} ELSE Waiting
Slip_PullSilent(t) == IF t \in Consumers THEN {} ELSE Waiting

\* pthread_cond_signal wakes one waiter, whichever it is, or nobody.
Signalled(t) == Waiting

Signal(t) ==
  /\ pc[t] = "signal"
  /\ IF Signalled(t) = {}
     THEN Goto(t, "unlock")
     ELSE \E w \in Signalled(t) : pc' = [pc EXCEPT ![t] = "unlock", ![w] = "lock"]
  /\ UNCHANGED <<q, m, locals, list, allocated>>

Unlock(t) ==
  /\ pc[t] = "unlock"
  /\ m' = NULL /\ Goto(t, IF t \in Producers THEN "idle" ELSE "free")
  /\ UNCHANGED <<q, locals, list, allocated>>

-----------------------------------------------------------------------------
(* queue_push *)

\* Bounds the heap: without a maximum size a push starts only when a cell will
\* be left for it (with one, consumers always free a cell in the end).
HeapLeft ==
  \/ max_size > 0
  \/ Cardinality({p \in Producers : pc[p] \in {"lock", "test"}})
       + Cardinality(allocated) < Cardinality(Nodes)

PushCall(p, d) ==
  /\ q = "live" /\ pc[p] = "idle" /\ HeapLeft
  /\ val' = [val EXCEPT ![p] = d] /\ Goto(p, "lock")
  /\ UNCHANGED <<q, m, node, list, allocated>>

PushLink(p) ==
  /\ pc[p] = "test" /\ ~MustWait(p)
  /\ \E n \in Nodes \ allocated :
       /\ allocated' = allocated \cup {n}
       /\ data' = [data EXCEPT ![n] = val[p]]
       /\ IF head = NULL
          THEN head' = n /\ next' = [next EXCEPT ![n] = NULL]
          ELSE head' = head /\ next' = [next EXCEPT ![n] = NULL, ![tail] = n]
       /\ tail' = n
  /\ val' = [val EXCEPT ![p] = NULL] /\ Goto(p, "count")
  /\ UNCHANGED <<q, m, node, size, max_size>>

-----------------------------------------------------------------------------
(* queue_pull *)

PullCall(c) ==
  /\ q = "live" /\ pc[c] = "idle"
  /\ Goto(c, "lock")
  /\ UNCHANGED <<q, m, locals, list, allocated>>

\* Slip: tail is not cleared when the last node is unlinked.
Slip_StaleTail == tail

TailAfterPull == IF next[head] = NULL THEN NULL ELSE tail

\* Slip: head and tail mixed up.
Slip_Newest == data[tail]

Element == data[head]

PullUnlink(c) ==
  /\ pc[c] = "test" /\ ~MustWait(c)
  /\ node' = [node EXCEPT ![c] = head]
  /\ val'  = [val EXCEPT ![c] = Element]
  /\ head' = next[head]
  /\ tail' = TailAfterPull
  /\ Goto(c, "count")
  /\ UNCHANGED <<q, m, size, max_size, next, data, allocated>>

Freed(n) == allocated \ {n}

PullFree(c) ==
  /\ pc[c] = "free"
  /\ allocated' = Freed(node[c])
  /\ val' = [val EXCEPT ![c] = NULL] /\ node' = [node EXCEPT ![c] = NULL]
  /\ Scrub(node[c]) /\ Goto(c, "idle")
  /\ UNCHANGED <<q, m, head, tail, size, max_size>>

-----------------------------------------------------------------------------
Step(t) ==
  \/ Lock(t) \/ CondWait(t) \/ Count(t) \/ Signal(t) \/ Unlock(t)
  \/ t \in Producers /\ PushLink(t)
  \/ t \in Consumers /\ (PullUnlink(t) \/ PullFree(t))

Call(t) ==
  \/ t \in Producers /\ \E d \in Data : PushCall(t, d)
  \/ t \in Consumers /\ PullCall(t)

Owner == QueueCreate \/ DestroyCall \/ DestroyNode \/ DestroyEnd

Next ==
  \/ Owner
  \/ \E t \in Threads : Step(t) \/ Call(t) \/ SpuriousWakeup(t)

Spec == Init /\ [][Next]_vars

\* A thread that is running takes its next step, one that keeps finding the
\* mutex free acquires it in the end, and the threads keep calling.
Fairness ==
  \A t \in Threads : /\ WF_vars(Step(t)) /\ SF_vars(Lock(t))
                     /\ WF_vars(Call(t))

FairSpec == Spec /\ Fairness

-----------------------------------------------------------------------------
(* Properties *)

TypeOK ==
  /\ q \in {"absent", "live", "destroying"}
  /\ m \in Threads \cup {NULL}
  /\ pc \in [Threads -> PC]
  /\ val \in [Threads -> Data \cup {NULL}]
  /\ node \in [Consumers -> Nodes \cup {NULL}]
  /\ head \in Nodes \cup {NULL} /\ tail \in Nodes \cup {NULL}
  /\ size \in Nat /\ max_size \in Int
  /\ next \in [Nodes -> Nodes \cup {NULL}]
  /\ data \in [Nodes -> Data \cup {NULL}]
  /\ allocated \in SUBSET Nodes

\* The statements between pthread_mutex_lock and pthread_mutex_unlock.
CriticalPC == {"test", "count", "signal", "unlock"}

\* A thread executes a statement of the critical section exactly when it owns
\* the mutex: the waits and the two unlock paths never leave the mutex taken
\* by a thread that is outside, and never let a second thread in.
MutexOwnership == \A t \in Threads : pc[t] \in CriticalPC <=> m = t

\* A queue with a maximum size never holds more than it (queue.c:25-29, 78):
\* room seen before a wait may be gone after it, so it is tested again.
SizeInBounds == max_size > 0 => size <= max_size

\* Producers and consumers never all sleep on the one condition variable,
\* although pthread_cond_signal may wake a thread of the wrong side.  Holds
\* for at most 2 * max_size threads, or without a maximum size.
SomeoneAwake == Waiting # Threads

\* In a queue without a maximum size no wakeup is lost: while an element is
\* available and a consumer sleeps on cv, another thread is about to signal,
\* or an awake consumer is on its way to the element (and will signal too).
NoLostWakeup ==
  (max_size <= 0 /\ size > 0 /\ Waiting # {}) =>
     \E t \in Threads :
        \/ pc[t] = "signal"
        \/ t \in Consumers /\ pc[t] \in {"lock", "test", "count"}
=============================================================================
