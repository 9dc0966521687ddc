----------------------------- MODULE QueueProofs -----------------------------
(***************************************************************************)
(* Proofs about queue.c for any number of threads, any maximum size and    *)
(* any heap.  TypeOK, MutexOwnership and SizeInBounds follow from one      *)
(* inductive invariant, IInv; NoLostWakeup is proved on top of it.         *)
(*                                                                         *)
(* TypeOK alone is not inductive: queue_pull dereferences head after it    *)
(* has tested only size, so the proof has to know that a positive size     *)
(* means a non-empty list.  ListInv says so: it exhibits the list as a     *)
(* function s from positions 1..k to distinct allocated cells.             *)
(*                                                                         *)
(* ListIntact and the refinement of the FIFO speak of Chain, the list that *)
(* head and next describe.  FullInv adds who has which cell, and what is   *)
(* in it, at every line of a critical section; that head and next describe *)
(* one list only is proved by the least position where two would differ.   *)
(***************************************************************************)
EXTENDS QueueList, FiniteSetTheorems, SequenceTheorems, TLAPS

\* s enumerates the k cells that follow one another from head.
IsList(k, s) ==
  /\ \A i \in 1..k : s[i] \in allocated
  /\ \A i, j \in 1..k : s[i] = s[j] => i = j
  /\ head = IF k = 0 THEN NULL ELSE s[1]
  /\ \A i \in 1..k : next[s[i]] = IF i = k THEN NULL ELSE s[i + 1]
  /\ \A c \in Consumers : \A i \in 1..k : node[c] # s[i]

\* What the thread between the list update and ++size or --size still owes.
Pending(t) ==
  IF t = NULL \/ pc[t] # "count" THEN 0
  ELSE IF t \in Producers THEN 1 ELSE -1

ListInv ==
  \E k \in Nat : \E s \in [1..k -> Nodes] :
     /\ IsList(k, s)
     /\ q = "live" => /\ tail = IF k = 0 THEN NULL ELSE s[k]
                      /\ k = size + Pending(m)

\* A consumer holds a cell from the unlinking to free(node).
HandPC == {"count", "signal", "unlock", "free"}
HandInv ==
  /\ \A c \in Consumers : pc[c] \in HandPC <=> node[c] # NULL
  /\ \A c \in Consumers : node[c] # NULL => node[c] \in allocated
  /\ \A c, d \in Consumers : node[c] # NULL /\ node[c] = node[d] => c = d

QuietInv == q # "live" => \A t \in Threads : pc[t] = "idle"

RoomInv == \A p \in Producers : pc[p] = "count" /\ max_size > 0 => size < max_size

IInv ==
  /\ TypeOK /\ MutexOwnership /\ QuietInv
  /\ HandInv /\ ListInv
  /\ RoomInv /\ SizeInBounds

USE QueueAssumption

\* Init satisfies the inductive invariant: the list is empty.
LEMMA InitIInv == Init => IInv
<1> SUFFICES ASSUME Init PROVE IInv
  OBVIOUS
<1> USE DEF Init, Threads
<1>1. TypeOK
  BY DEF TypeOK, PC
<1>2. MutexOwnership /\ QuietInv
  BY DEF MutexOwnership, CriticalPC, QuietInv
<1>3. HandInv
  BY DEF HandInv, HandPC
<1>4. ListInv
  <2> DEFINE s == [i \in 1..0 |-> head]
  <2>1. s \in [1..0 -> Nodes]
    OBVIOUS
  <2>2. IsList(0, s)
    BY DEF IsList
  <2> QED
    BY <2>1, <2>2 DEF ListInv
<1>5. RoomInv /\ SizeInBounds
  BY DEF RoomInv, SizeInBounds
<1> QED
  BY <1>1, <1>2, <1>3, <1>4, <1>5 DEF IInv

\* A consumer that passed its test finds a cell at head, and what follows it
\* is the rest of the list.
LEMMA HeadIsNode ==
  ASSUME IInv, NEW c \in Consumers, pc[c] = "test", ~MustWait(c)
  PROVE  head \in Nodes /\ head \in allocated /\ size > 0 /\ q = "live"
<1>1. m = c /\ q = "live"
  BY DEF IInv, MutexOwnership, CriticalPC, QuietInv, Threads
<1>2. size > 0
  BY DEF IInv, TypeOK, MustWait, Empty
<1>3. PICK k \in Nat : \E s \in [1..k -> Nodes] :
               IsList(k, s) /\ k = size + Pending(m)
  BY <1>1 DEF IInv, ListInv
<1>4. k > 0
  BY <1>1, <1>2, <1>3 DEF Pending, IInv, TypeOK
<1> QED
  BY <1>1, <1>2, <1>3, <1>4 DEF IsList

\* Each step of the program keeps the mutex with the thread in the critical
\* section, and nobody touches a queue that does not exist.
LEMMA ControlStep == IInv /\ [Next]_vars => MutexOwnership' /\ QuietInv'
<1> SUFFICES ASSUME IInv, [Next]_vars PROVE MutexOwnership' /\ QuietInv'
  OBVIOUS
<1> USE DEF IInv, TypeOK, MutexOwnership, CriticalPC, QuietInv, Goto, Threads, PC
<1>1. CASE Owner
  BY <1>1 DEF Owner, QueueCreate, DestroyCall, DestroyNode, DestroyEnd, vars
<1>2. ASSUME NEW t \in Threads, Step(t) PROVE MutexOwnership' /\ QuietInv'
  <2>1. CASE Lock(t)
    BY <2>1 DEF Lock, MutexFree
  <2>2. CASE CondWait(t)
    BY <2>2 DEF CondWait
  <2>3. CASE Count(t)
    BY <2>3 DEF Count
  <2>4. CASE Signal(t)
    BY <2>4 DEF Signal, Signalled, Waiting
  <2>5. CASE Unlock(t)
    BY <2>5 DEF Unlock
  <2>6. CASE t \in Producers /\ PushLink(t)
    BY <2>6 DEF PushLink
  <2>7. CASE t \in Consumers /\ PullUnlink(t)
    BY <2>7 DEF PullUnlink
  <2>8. CASE t \in Consumers /\ PullFree(t)
    BY <2>8 DEF PullFree
  <2> QED
    BY <1>2, <2>1, <2>2, <2>3, <2>4, <2>5, <2>6, <2>7, <2>8 DEF Step
<1>3. ASSUME NEW t \in Threads, Call(t) PROVE MutexOwnership' /\ QuietInv'
  BY <1>3 DEF Call, PushCall, PullCall
<1>4. ASSUME NEW t \in Threads, SpuriousWakeup(t) PROVE MutexOwnership' /\ QuietInv'
  BY <1>4 DEF SpuriousWakeup
<1>5. CASE UNCHANGED vars
  BY <1>5 DEF vars
<1> QED
  BY <1>1, <1>2, <1>3, <1>4, <1>5 DEF Next

\* Types are kept; --size is only reached with a positive size.
LEMMA TypeStep == IInv /\ [Next]_vars => TypeOK'
<1> SUFFICES ASSUME IInv, [Next]_vars PROVE TypeOK'
  OBVIOUS
<1> USE DEF TypeOK, Goto, Threads, PC, list, locals
<1>0. TypeOK
  BY DEF IInv
<1>1. CASE Owner
  <2>1. CASE QueueCreate
    <3>1. max_size' \in Int
      BY <1>0, <2>1 DEF QueueCreate, vars
    <3> QED
      BY <1>0, <2>1, <3>1 DEF QueueCreate, vars
  <2>2. CASE DestroyCall \/ DestroyEnd
    BY <1>0, <2>2 DEF DestroyCall, DestroyEnd
  <2>3. CASE DestroyNode
    BY <1>0, <2>3 DEF DestroyNode, Scrub
  <2> QED
    BY <1>1, <2>1, <2>2, <2>3 DEF Owner
<1>2. ASSUME NEW t \in Threads, Step(t) PROVE TypeOK'
  <2>1. CASE Lock(t)
    BY <1>0, <2>1 DEF Lock
  <2>2. CASE CondWait(t)
    BY <1>0, <2>2 DEF CondWait
  <2>3. CASE Count(t)
    <3>1. size + 1 \in Nat
      BY <1>0
    <3>2. t \in Consumers => size - 1 \in Nat
      <4> SUFFICES ASSUME t \in Consumers PROVE size - 1 \in Nat
        OBVIOUS
      <4>1. m = t /\ q = "live" /\ pc[t] = "count" /\ t \notin Producers /\ t # NULL
        BY <2>3 DEF Count, IInv, MutexOwnership, CriticalPC, QuietInv
      <4>2. PICK k \in Nat : k = size + Pending(m)
        BY <4>1 DEF IInv, ListInv
      <4>3. Pending(m) = -1
        BY <4>1 DEF Pending
      <4> QED
        BY <1>0, <4>2, <4>3
    <3>3. size' \in Nat
      BY <2>3, <3>1, <3>2 DEF Count, Counted
    <3> QED
      BY <1>0, <2>3, <3>3 DEF Count
  <2>4. CASE Signal(t)
    BY <1>0, <2>4 DEF Signal, Signalled, Waiting
  <2>5. CASE Unlock(t)
    BY <1>0, <2>5 DEF Unlock
  <2>6. CASE t \in Producers /\ PushLink(t)
    BY <1>0, <2>6 DEF PushLink
  <2>7. CASE t \in Consumers /\ PullUnlink(t)
    <3>1. head \in Nodes
      BY <2>7, HeadIsNode DEF PullUnlink
    <3> QED
      BY <1>0, <2>7, <3>1 DEF PullUnlink, TailAfterPull, Element
  <2>8. CASE t \in Consumers /\ PullFree(t)
    BY <1>0, <2>8 DEF PullFree, Freed, Scrub
  <2> QED
    BY <1>2, <2>1, <2>2, <2>3, <2>4, <2>5, <2>6, <2>7, <2>8 DEF Step
<1>3. ASSUME NEW t \in Threads, Call(t) PROVE TypeOK'
  BY <1>0, <1>3 DEF Call, PushCall, PullCall
<1>4. ASSUME NEW t \in Threads, SpuriousWakeup(t) PROVE TypeOK'
  BY <1>0, <1>4 DEF SpuriousWakeup
<1>5. CASE UNCHANGED vars
  BY <1>0, <1>5 DEF vars
<1> QED
  BY <1>1, <1>2, <1>3, <1>4, <1>5 DEF Next

\* No two consumers hold the same cell, and a held cell stays allocated until
\* its holder frees it.
LEMMA HandStep == IInv /\ [Next]_vars => HandInv'
<1> SUFFICES ASSUME IInv, [Next]_vars PROVE HandInv'
  OBVIOUS
<1> USE DEF TypeOK, HandInv, HandPC, Goto, Threads, PC, list, locals
<1>0. TypeOK /\ HandInv
  BY DEF IInv
<1>1. CASE Owner
  <2>1. CASE QueueCreate \/ DestroyCall \/ DestroyEnd
    BY <1>0, <2>1 DEF QueueCreate, DestroyCall, DestroyEnd, vars
  <2>2. CASE DestroyNode
    <3>1. \A c \in Consumers : node[c] = NULL
      BY <1>0, <2>2 DEF DestroyNode, IInv, QuietInv
    <3> QED
      BY <1>0, <2>2, <3>1 DEF DestroyNode
  <2> QED
    BY <1>1, <2>1, <2>2 DEF Owner
<1>2. ASSUME NEW t \in Threads, Step(t) PROVE HandInv'
  <2>1. CASE Lock(t)
    BY <1>0, <2>1 DEF Lock
  <2>2. CASE CondWait(t)
    BY <1>0, <2>2 DEF CondWait
  <2>3. CASE Count(t)
    BY <1>0, <2>3 DEF Count
  <2>4. CASE Signal(t)
    BY <1>0, <2>4 DEF Signal, Signalled, Waiting
  <2>5. CASE Unlock(t)
    BY <1>0, <2>5 DEF Unlock
  <2>6. CASE t \in Producers /\ PushLink(t)
    BY <1>0, <2>6 DEF PushLink
  <2>7. CASE t \in Consumers /\ PullUnlink(t)
    <3>1. head \in Nodes /\ head \in allocated /\ q = "live"
      BY <2>7, HeadIsNode DEF PullUnlink
    <3>2. \A c \in Consumers : node[c] # head
      <4>1. PICK k \in Nat : \E s \in [1..k -> Nodes] : IsList(k, s)
        BY DEF IInv, ListInv
      <4> QED
        BY <3>1, <4>1 DEF IsList
    <3> QED
      BY <1>0, <2>7, <3>1, <3>2 DEF PullUnlink
  <2>8. CASE t \in Consumers /\ PullFree(t)
    BY <1>0, <2>8 DEF PullFree, Freed
  <2> QED
    BY <1>2, <2>1, <2>2, <2>3, <2>4, <2>5, <2>6, <2>7, <2>8 DEF Step
<1>3. ASSUME NEW t \in Threads, Call(t) PROVE HandInv'
  BY <1>0, <1>3 DEF Call, PushCall, PullCall
<1>4. ASSUME NEW t \in Threads, SpuriousWakeup(t) PROVE HandInv'
  BY <1>0, <1>4 DEF SpuriousWakeup
<1>5. CASE UNCHANGED vars
  BY <1>0, <1>5 DEF vars
<1> QED
  BY <1>1, <1>2, <1>3, <1>4, <1>5 DEF Next

\* A step that leaves the list alone and owes as much as before.
LEMMA ListFrame ==
  ASSUME ListInv, UNCHANGED <<q, head, tail, next, node, allocated>>,
         q = "live" => size' + Pending(m)' = size + Pending(m)
  PROVE  ListInv'
BY DEF ListInv, IsList

LEMMA ListWitness ==
  ASSUME NEW k \in Nat, NEW s \in [1..k -> Nodes], IsList(k, s)',
         q' = "live" => /\ tail' = IF k = 0 THEN NULL ELSE s[k]
                        /\ k = size' + Pending(m)'
  PROVE  ListInv'
BY DEF ListInv

Shift(k, s) == [i \in 1..(k - 1) |-> s[i + 1]]

\* Unlinking the first cell leaves the list of the others.
LEMMA ListShift ==
  ASSUME NEW k \in Nat, k > 0, NEW s \in [1..k -> Nodes], IsList(k, s),
         head' = next[head],
         \A i \in 2..k : s[i] \in allocated' /\ next'[s[i]] = next[s[i]],
         \A c \in Consumers : node'[c] = node[c] \/ node'[c] = head
  PROVE  /\ k - 1 \in Nat
         /\ Shift(k, s) \in [1..(k - 1) -> Nodes]
         /\ IsList(k - 1, Shift(k, s))'
<1> DEFINE r == [i \in 1..(k - 1) |-> s[i + 1]]
<1>1. k - 1 \in Nat /\ \A i \in 1..(k - 1) : i + 1 \in 2..k /\ r[i] = s[i + 1]
  OBVIOUS
<1>2. r \in [1..(k - 1) -> Nodes]
  OBVIOUS
<1>3. \A i \in 1..(k - 1) : r[i] \in allocated'
  BY <1>1
<1>4. \A i, j \in 1..(k - 1) : r[i] = r[j] => i = j
  <2> SUFFICES ASSUME NEW i \in 1..(k - 1), NEW j \in 1..(k - 1), r[i] = r[j]
               PROVE  i = j
    OBVIOUS
  <2>1. i + 1 \in 1..k /\ j + 1 \in 1..k /\ s[i + 1] = s[j + 1]
    OBVIOUS
  <2>2. i + 1 = j + 1
    BY <2>1 DEF IsList
  <2> QED
    BY <2>2
<1>5. head = s[1] /\ head' = IF k - 1 = 0 THEN NULL ELSE r[1]
  BY <1>1 DEF IsList
<1>6. \A i \in 1..(k - 1) : next'[r[i]] = IF i = k - 1 THEN NULL ELSE r[i + 1]
  <2> SUFFICES ASSUME NEW i \in 1..(k - 1)
               PROVE  next'[r[i]] = IF i = k - 1 THEN NULL ELSE r[i + 1]
    OBVIOUS
  <2>1. next'[r[i]] = next[s[i + 1]]
    BY <1>1
  <2>2. next[s[i + 1]] = IF i + 1 = k THEN NULL ELSE s[i + 2]
    BY <1>1 DEF IsList
  <2>3. i # k - 1 => r[i + 1] = s[i + 2]
    BY <1>1
  <2> QED
    BY <2>1, <2>2, <2>3
<1>7. \A c \in Consumers : \A i \in 1..(k - 1) : node'[c] # r[i]
  BY <1>1, <1>5 DEF IsList
<1> HIDE DEF r
<1>8. IsList(k - 1, r)'
  BY <1>3, <1>4, <1>5, <1>6, <1>7 DEF IsList
<1> QED
  BY <1>1, <1>2, <1>8 DEF r, Shift

Extend(k, s, n) == [i \in 1..(k + 1) |-> IF i = k + 1 THEN n ELSE s[i]]

\* queue_push links a fresh cell after the last one.
LEMMA PushList ==
  ASSUME IInv, NEW p \in Producers, PushLink(p)
  PROVE  /\ m = p /\ q = "live" /\ Pending(m) = 0 /\ Pending(m)' = 1
         /\ \E k \in Nat : \E s \in [1..k -> Nodes] : \E n \in Nodes \ allocated :
              /\ IsList(k, s) /\ k = size
              /\ allocated' = allocated \cup {n} /\ tail' = n
              /\ data' = [data EXCEPT ![n] = val[p]]
              /\ Extend(k, s, n) \in [1..(k + 1) -> Nodes]
              /\ IsList(k + 1, Extend(k, s, n))'
<1> USE DEF Goto, Threads
<1>0. TypeOK /\ MutexOwnership /\ HandInv /\ ListInv /\ QuietInv /\ p # NULL
  BY DEF IInv
<1>1. m = p /\ q = "live" /\ Pending(m) = 0 /\ Pending(m)' = 1
  BY <1>0 DEF PushLink, Pending, CriticalPC, TypeOK, MutexOwnership, QuietInv
<1>2. PICK k \in Nat : \E s \in [1..k -> Nodes] :
         IsList(k, s) /\ tail = (IF k = 0 THEN NULL ELSE s[k]) /\ k = size
  BY <1>0, <1>1 DEF ListInv, TypeOK
<1>3. PICK s \in [1..k -> Nodes] :
         IsList(k, s) /\ tail = (IF k = 0 THEN NULL ELSE s[k]) /\ k = size
  BY <1>2
<1>4. PICK n \in Nodes \ allocated :
         /\ allocated' = allocated \cup {n}
         /\ data' = [data EXCEPT ![n] = val[p]]
         /\ IF head = NULL
            THEN head' = n /\ next' = [next EXCEPT ![n] = NULL]
            ELSE head' = head /\ next' = [next EXCEPT ![n] = NULL, ![tail] = n]
         /\ tail' = n
  BY DEF PushLink
<1> DEFINE r == [i \in 1..(k + 1) |-> IF i = k + 1 THEN n ELSE s[i]]
<1>5. r \in [1..(k + 1) -> Nodes]
  BY <1>4
<1>6. node' = node /\ \A c \in Consumers : node[c] # n
  BY <1>0, <1>4 DEF PushLink, HandInv
<1>7. IsList(k + 1, r)'
  <2>1. CASE k = 0
    BY <1>0, <1>3, <1>4, <1>6, <2>1 DEF IsList, TypeOK
  <2>2. CASE k > 0
    BY <1>0, <1>3, <1>4, <1>6, <2>2 DEF IsList, TypeOK
  <2> QED
    BY <2>1, <2>2
<1>8. r = Extend(k, s, n)
  BY DEF Extend
<1> HIDE DEF r
<1> QED
  BY <1>1, <1>3, <1>4, <1>5, <1>7, <1>8

\* queue_pull unlinks the first cell.
LEMMA PullList ==
  ASSUME IInv, NEW c \in Consumers, PullUnlink(c)
  PROVE  /\ m = c /\ q = "live" /\ Pending(m) = 0 /\ Pending(m)' = -1
         /\ \E k \in Nat : \E s \in [1..k -> Nodes] :
              /\ IsList(k, s) /\ k = size /\ k > 0 /\ head = s[1]
              /\ k - 1 \in Nat /\ Shift(k, s) \in [1..(k - 1) -> Nodes]
              /\ tail' = IF k - 1 = 0 THEN NULL ELSE Shift(k, s)[k - 1]
              /\ IsList(k - 1, Shift(k, s))'
<1> USE DEF Goto, Threads
<1>0. TypeOK /\ MutexOwnership /\ HandInv /\ ListInv /\ QuietInv /\ c # NULL
      /\ c \notin Producers
  BY DEF IInv
<1>1. m = c /\ q = "live" /\ Pending(m) = 0 /\ Pending(m)' = -1
  BY <1>0 DEF PullUnlink, Pending, CriticalPC, TypeOK, MutexOwnership, QuietInv
<1>2. PICK k \in Nat : \E s \in [1..k -> Nodes] :
         IsList(k, s) /\ tail = (IF k = 0 THEN NULL ELSE s[k]) /\ k = size
  BY <1>0, <1>1 DEF ListInv, TypeOK
<1>3. PICK s \in [1..k -> Nodes] :
         IsList(k, s) /\ tail = (IF k = 0 THEN NULL ELSE s[k]) /\ k = size
  BY <1>2
<1>4. k > 0 /\ head = s[1]
  BY <1>3, HeadIsNode DEF PullUnlink, IsList
<1>5. /\ k - 1 \in Nat /\ Shift(k, s) \in [1..(k - 1) -> Nodes]
      /\ IsList(k - 1, Shift(k, s))'
  <2>1. head' = next[head] /\ node' = [node EXCEPT ![c] = head]
    BY DEF PullUnlink
  <2>2. \A d \in Consumers : node'[d] = node[d] \/ node'[d] = head
    BY <1>0, <2>1 DEF TypeOK
  <2>3. \A i \in 2..k : s[i] \in allocated' /\ next'[s[i]] = next[s[i]]
    BY <1>3 DEF PullUnlink, IsList
  <2> QED
    BY <1>3, <1>4, <2>1, <2>2, <2>3, ListShift
<1>6. tail' = IF k - 1 = 0 THEN NULL ELSE Shift(k, s)[k - 1]
  BY <1>3, <1>4 DEF PullUnlink, TailAfterPull, IsList, Shift
<1> QED
  BY <1>1, <1>3, <1>4, <1>5, <1>6

\* So does queue_destroy.
LEMMA DestroyList ==
  ASSUME IInv, DestroyNode
  PROVE  \E k \in Nat : \E s \in [1..k -> Nodes] :
           /\ IsList(k, s) /\ k > 0 /\ head = s[1]
           /\ k - 1 \in Nat /\ Shift(k, s) \in [1..(k - 1) -> Nodes]
           /\ IsList(k - 1, Shift(k, s))'
<1>0. TypeOK /\ ListInv
  BY DEF IInv
<1>1. PICK k \in Nat : \E s \in [1..k -> Nodes] : IsList(k, s)
  BY <1>0 DEF ListInv
<1>2. PICK s \in [1..k -> Nodes] : IsList(k, s)
  BY <1>1
<1>3. k > 0 /\ head = s[1]
  BY <1>2 DEF IsList, DestroyNode
<1>4. \A i \in 2..k : s[i] # head
  BY <1>2, <1>3 DEF IsList
<1>5. head' = next[head] /\ node' = node
  BY DEF DestroyNode, locals
<1>6. \A i \in 2..k : s[i] \in allocated' /\ next'[s[i]] = next[s[i]]
  BY <1>0, <1>2, <1>4 DEF DestroyNode, Scrub, TypeOK, IsList
<1>7. /\ k - 1 \in Nat /\ Shift(k, s) \in [1..(k - 1) -> Nodes]
      /\ IsList(k - 1, Shift(k, s))'
  BY <1>2, <1>3, <1>5, <1>6, ListShift
<1> QED
  BY <1>2, <1>3, <1>7

\* The list keeps its shape: queue_push appends one cell, queue_pull and
\* queue_destroy remove the first.
LEMMA ListStep == IInv /\ [Next]_vars => ListInv'
<1> SUFFICES ASSUME IInv, [Next]_vars PROVE ListInv'
  OBVIOUS
<1> USE DEF Goto, Threads, list, locals
<1>0. TypeOK /\ MutexOwnership /\ HandInv /\ ListInv /\ QuietInv
  BY DEF IInv
<1>1. CASE Owner
  <2>1. CASE QueueCreate
    <3>1. CASE head' = NULL /\ tail' = NULL /\ size' = 0 /\ UNCHANGED <<m, pc>>
      <4> DEFINE s == [i \in 1..0 |-> NULL]
      <4>1. s \in [1..0 -> Nodes] /\ IsList(0, s)'
        BY <3>1 DEF IsList
      <4>2. Pending(m)' = 0
        BY <1>0, <2>1, <3>1
        DEF QueueCreate, QuietInv, Pending, MutexOwnership, CriticalPC, TypeOK
      <4>3. tail' = (IF 0 = 0 THEN NULL ELSE s[0]) /\ 0 = size' + Pending(m)'
        BY <3>1, <4>2
      <4> HIDE DEF s
      <4>4. \E k \in Nat : \E r \in [1..k -> Nodes] :
               /\ IsList(k, r)'
               /\ q' = "live" => /\ tail' = IF k = 0 THEN NULL ELSE r[k]
                                 /\ k = size' + Pending(m)'
        <5> USE <4>1, <4>3
        <5> WITNESS 0 \in Nat
        <5> WITNESS s \in [1..0 -> Nodes]
        <5> QED
          OBVIOUS
      <4> QED
        BY <4>4 DEF ListInv
    <3>2. CASE UNCHANGED vars
      BY <1>0, <3>2, ListFrame DEF vars, Pending
    <3> QED
      BY <2>1, <3>1, <3>2 DEF QueueCreate
  <2>2. CASE DestroyCall \/ DestroyEnd
    BY <1>0, <2>2 DEF DestroyCall, DestroyEnd, ListInv, IsList
  <2>3. CASE DestroyNode
    <3>1. PICK k \in Nat : \E s \in [1..k -> Nodes] :
             /\ k - 1 \in Nat /\ Shift(k, s) \in [1..(k - 1) -> Nodes]
             /\ IsList(k - 1, Shift(k, s))'
      BY <2>3, DestroyList
    <3> QED
      BY <2>3, <3>1, ListWitness DEF DestroyNode
  <2> QED
    BY <1>1, <2>1, <2>2, <2>3 DEF Owner
<1>2. ASSUME NEW t \in Threads, Step(t) PROVE ListInv'
  <2>0. pc[t] \in CriticalPC => m = t /\ m # NULL /\ q = "live"
    BY <1>0 DEF MutexOwnership, QuietInv, CriticalPC
  <2>1. CASE Lock(t)
    BY <1>0, <2>1, ListFrame DEF Lock, MutexFree, Pending, TypeOK
  <2>2. CASE CondWait(t)
    BY <1>0, <2>0, <2>2, ListFrame DEF CondWait, Pending, TypeOK, CriticalPC
  <2>3. CASE Count(t)
    BY <1>0, <2>0, <2>3, ListFrame
    DEF Count, Counted, Pending, TypeOK, CriticalPC
  <2>4. CASE Signal(t)
    BY <1>0, <2>0, <2>4, ListFrame
    DEF Signal, Signalled, Waiting, Pending, TypeOK, CriticalPC
  <2>5. CASE Unlock(t)
    BY <1>0, <2>0, <2>5, ListFrame DEF Unlock, Pending, TypeOK, CriticalPC
  <2>6. CASE t \in Producers /\ PushLink(t)
    <3>1. PICK k \in Nat : \E s \in [1..k -> Nodes] : \E n \in Nodes \ allocated :
             /\ k = size /\ tail' = n
             /\ Extend(k, s, n) \in [1..(k + 1) -> Nodes]
             /\ IsList(k + 1, Extend(k, s, n))'
      BY <2>6, PushList
    <3>2. PICK s \in [1..k -> Nodes], n \in Nodes \ allocated :
             /\ k = size /\ tail' = n
             /\ Extend(k, s, n) \in [1..(k + 1) -> Nodes]
             /\ IsList(k + 1, Extend(k, s, n))'
      BY <3>1
    <3>3. tail' = Extend(k, s, n)[k + 1]
      BY <3>2 DEF Extend
    <3>4. k + 1 = size' + Pending(m)'
      BY <1>0, <2>6, <3>2, PushList DEF PushLink, TypeOK
    <3> QED
      BY <3>2, <3>3, <3>4, ListWitness
  <2>7. CASE t \in Consumers /\ PullUnlink(t)
    <3>1. PICK k \in Nat : \E s \in [1..k -> Nodes] :
             /\ k = size /\ k - 1 \in Nat /\ Shift(k, s) \in [1..(k - 1) -> Nodes]
             /\ tail' = IF k - 1 = 0 THEN NULL ELSE Shift(k, s)[k - 1]
             /\ IsList(k - 1, Shift(k, s))'
      BY <2>7, PullList
    <3>2. k - 1 = size' + Pending(m)'
      BY <1>0, <2>7, <3>1, PullList DEF PullUnlink, TypeOK
    <3> QED
      BY <3>1, <3>2, ListWitness
  <2>8. CASE t \in Consumers /\ PullFree(t)
    <3>1. node[t] # NULL /\ Pending(m)' = Pending(m)
      BY <1>0, <2>0, <2>8
      DEF PullFree, HandInv, HandPC, Pending, TypeOK, MutexOwnership, CriticalPC
    <3> QED
      BY <1>0, <2>8, <3>1 DEF PullFree, Freed, Scrub, ListInv, IsList, TypeOK
  <2> QED
    BY <1>2, <2>1, <2>2, <2>3, <2>4, <2>5, <2>6, <2>7, <2>8 DEF Step
<1>3. ASSUME NEW t \in Threads, Call(t) PROVE ListInv'
  BY <1>0, <1>3, ListFrame
  DEF Call, PushCall, PullCall, Pending, MutexOwnership, CriticalPC, TypeOK
<1>4. ASSUME NEW t \in Threads, SpuriousWakeup(t) PROVE ListInv'
  BY <1>0, <1>4, ListFrame
  DEF SpuriousWakeup, Pending, MutexOwnership, CriticalPC, TypeOK
<1>5. CASE UNCHANGED vars
  BY <1>0, <1>5, ListFrame DEF vars, Pending
<1> QED
  BY <1>1, <1>2, <1>3, <1>4, <1>5 DEF Next

\* The size stays within max_size: a producer that is about to add one has
\* tested it under the mutex it still holds.
LEMMA RoomStep == IInv /\ [Next]_vars => RoomInv' /\ SizeInBounds'
<1> SUFFICES ASSUME IInv, [Next]_vars PROVE RoomInv' /\ SizeInBounds'
  OBVIOUS
<1> USE DEF RoomInv, SizeInBounds, Goto, Threads, list, locals
<1>0. TypeOK /\ MutexOwnership /\ RoomInv /\ SizeInBounds
  BY DEF IInv
<1>1. CASE Owner
  <2>1. CASE QueueCreate
    <3>1. \A p \in Producers : pc'[p] = "idle"
      BY <2>1 DEF QueueCreate, IInv, QuietInv, vars
    <3>2. SizeInBounds'
      <4>1. CASE size' = 0 /\ max_size' \in MaxSizes
        <5>1. max_size' \in Int
          BY <4>1
        <5> QED
          BY <4>1, <5>1
      <4>2. CASE UNCHANGED vars
        BY <1>0, <4>2 DEF vars
      <4> QED
        BY <2>1, <4>1, <4>2 DEF QueueCreate
    <3> QED
      BY <3>1, <3>2
  <2>2. CASE DestroyCall \/ DestroyNode \/ DestroyEnd
    BY <1>0, <2>2 DEF DestroyCall, DestroyNode, DestroyEnd
  <2> QED
    BY <1>1, <2>1, <2>2 DEF Owner
<1>2. ASSUME NEW t \in Threads, Step(t) PROVE RoomInv' /\ SizeInBounds'
  <2>1. CASE Lock(t)
    BY <1>0, <2>1 DEF Lock, TypeOK
  <2>2. CASE CondWait(t)
    BY <1>0, <2>2 DEF CondWait, TypeOK
  <2>3. CASE Count(t)
    <3>1. \A p \in Producers : pc'[p] # "count"
      BY <1>0, <2>3 DEF Count, TypeOK, MutexOwnership, CriticalPC
    <3>2. SizeInBounds'
      BY <1>0, <2>3 DEF Count, Counted, TypeOK
    <3> QED
      BY <3>1, <3>2
  <2>4. CASE Signal(t)
    BY <1>0, <2>4 DEF Signal, Signalled, Waiting, TypeOK
  <2>5. CASE Unlock(t)
    BY <1>0, <2>5 DEF Unlock, TypeOK
  <2>6. CASE t \in Producers /\ PushLink(t)
    BY <1>0, <2>6 DEF PushLink, MustWait, Full, TypeOK
  <2>7. CASE t \in Consumers /\ PullUnlink(t)
    BY <1>0, <2>7 DEF PullUnlink, TypeOK
  <2>8. CASE t \in Consumers /\ PullFree(t)
    BY <1>0, <2>8 DEF PullFree, TypeOK
  <2> QED
    BY <1>2, <2>1, <2>2, <2>3, <2>4, <2>5, <2>6, <2>7, <2>8 DEF Step
<1>3. ASSUME NEW t \in Threads, Call(t) PROVE RoomInv' /\ SizeInBounds'
  BY <1>0, <1>3 DEF Call, PushCall, PullCall, TypeOK
<1>4. ASSUME NEW t \in Threads, SpuriousWakeup(t) PROVE RoomInv' /\ SizeInBounds'
  BY <1>0, <1>4 DEF SpuriousWakeup, TypeOK
<1>5. CASE UNCHANGED vars
  BY <1>0, <1>5 DEF vars
<1> QED
  BY <1>1, <1>2, <1>3, <1>4, <1>5 DEF Next

\* The inductive invariant holds in every reachable state of queue.c.
THEOREM Invariance == Spec => []IInv
<1>1. IInv /\ [Next]_vars => IInv'
  BY TypeStep, ControlStep, HandStep, ListStep, RoomStep DEF IInv
<1> QED
  BY InitIInv, <1>1, PTL DEF Spec

\* Types are correct in every reachable state; in particular the size never
\* becomes negative and queue_pull never dereferences a NULL head.
THEOREM TypeCorrect == Spec => []TypeOK
<1>1. IInv => TypeOK
  BY DEF IInv
<1> QED
  BY Invariance, <1>1, PTL

\* At most one thread is inside the critical section, whatever the number of
\* producers and consumers, and it owns the mutex.
THEOREM MutexCorrect == Spec => []MutexOwnership
<1>1. IInv => MutexOwnership
  BY DEF IInv
<1> QED
  BY Invariance, <1>1, PTL

\* A queue with a maximum size is never overfilled, for every max_size.
THEOREM SizeCorrect == Spec => []SizeInBounds
<1>1. IInv => SizeInBounds
  BY DEF IInv
<1> QED
  BY Invariance, <1>1, PTL

-----------------------------------------------------------------------------
(* Wakeups in a queue without a maximum size *)

\* Producers never sleep there, so a signal always reaches a consumer.
WakeInv ==
  /\ max_size <= 0 => \A p \in Producers : pc[p] # "waiting"
  /\ NoLostWakeup

LEMMA WakeStep == IInv /\ WakeInv /\ [Next]_vars => WakeInv'
<1> SUFFICES ASSUME IInv, WakeInv, [Next]_vars PROVE WakeInv'
  OBVIOUS
<1> USE DEF WakeInv, NoLostWakeup, Goto, Threads, Waiting, list, locals
<1>0. TypeOK
  BY DEF IInv
<1>1. CASE Owner
  BY <1>0, <1>1 DEF Owner, QueueCreate, DestroyCall, DestroyNode, DestroyEnd, vars,
     IInv, QuietInv
<1>2. ASSUME NEW t \in Threads, Step(t) PROVE WakeInv'
  <2>1. CASE Lock(t)
    BY <1>0, <2>1 DEF Lock, TypeOK
  <2>2. CASE CondWait(t)
    BY <1>0, <2>2 DEF CondWait, MustWait, Full, Empty, TypeOK
  <2>3. CASE Count(t)
    BY <1>0, <2>3 DEF Count, TypeOK
  <2>4. CASE Signal(t)
    <3>1. CASE Waiting = {}
      BY <1>0, <2>4, <3>1 DEF Signal, Signalled, TypeOK
    <3>2. CASE Waiting # {}
      BY <1>0, <2>4, <3>2 DEF Signal, Signalled, TypeOK
    <3> QED
      BY <3>1, <3>2
  <2>5. CASE Unlock(t)
    BY <1>0, <2>5 DEF Unlock, TypeOK
  <2>6. CASE t \in Producers /\ PushLink(t)
    BY <1>0, <2>6 DEF PushLink, TypeOK
  <2>7. CASE t \in Consumers /\ PullUnlink(t)
    BY <1>0, <2>7 DEF PullUnlink, TypeOK
  <2>8. CASE t \in Consumers /\ PullFree(t)
    BY <1>0, <2>8 DEF PullFree, TypeOK
  <2> QED
    BY <1>2, <2>1, <2>2, <2>3, <2>4, <2>5, <2>6, <2>7, <2>8 DEF Step
<1>3. ASSUME NEW t \in Threads, Call(t) PROVE WakeInv'
  BY <1>0, <1>3 DEF Call, PushCall, PullCall, TypeOK
<1>4. ASSUME NEW t \in Threads, SpuriousWakeup(t) PROVE WakeInv'
  BY <1>0, <1>4 DEF SpuriousWakeup, TypeOK
<1>5. CASE UNCHANGED vars
  BY <1>0, <1>5 DEF vars
<1> QED
  BY <1>1, <1>2, <1>3, <1>4, <1>5 DEF Next

\* In a queue without a maximum size (the one the password cracker uses) an
\* available element never leaves all consumers asleep, for any number of
\* producers and consumers.
THEOREM NoWakeupIsLost == Spec => []NoLostWakeup
<1>1. Init => WakeInv
  BY DEF Init, WakeInv, NoLostWakeup, Threads
<1>2. WakeInv => NoLostWakeup
  BY DEF WakeInv
<1> QED
  BY Invariance, <1>1, <1>2, WakeStep, PTL DEF Spec

-----------------------------------------------------------------------------
(* The list reached from head *)

\* Every non-empty set of naturals has a least element.
LEMMA Least ==
  ASSUME NEW T, T \subseteq Nat, T # {}
  PROVE  \E x \in T : \A y \in T : x <= y
<1>1. \E R : IsWellFoundedOn(R, Nat) /\ \A a, b \in Nat : a < b => <<a, b>> \in R
  <2>1. \A a, b \in Nat : a < b => <<a, b>> \in OpToRel(<, Nat)
    BY DEF OpToRel
  <2> QED
    BY <2>1, NatLessThanWellFounded, Zenon
<1>2. PICK R : IsWellFoundedOn(R, Nat) /\ \A a, b \in Nat : a < b => <<a, b>> \in R
  BY <1>1
<1>3. \E x \in T : \A y \in T : ~(<<y, x>> \in R)
  <2>1. IsWellFoundedOn(R, Nat)
   BY <1>2
  <2> QED
   BY <2>1, WFMin, Zenon
<1>4. PICK x \in T : \A y \in T : ~(<<y, x>> \in R)
  BY <1>3
<1>5. \A y \in T : ~(y < x)
  BY <1>2, <1>4
<1>6. \A y \in T : x <= y
  BY <1>5
<1> QED
  BY <1>6

\* Induction, with the property as a set.
LEMMA SetInduction ==
  ASSUME NEW S, 0 \in S, \A n \in Nat : n \in S => n + 1 \in S
  PROVE  Nat \subseteq S
<1> SUFFICES ASSUME Nat \ S # {} PROVE FALSE
  OBVIOUS
<1> DEFINE T == Nat \ S
<1>1. PICK x \in T : \A y \in T : x <= y
  <2>1. T \subseteq Nat /\ T # {}
    OBVIOUS
  <2> HIDE DEF T
  <2> QED
    BY <2>1, Least
<1>2. x # 0 /\ x - 1 \in Nat /\ x - 1 < x /\ (x - 1) + 1 = x
  OBVIOUS
<1>3. x - 1 \in T
  BY <1>2
<1> QED
  BY <1>1, <1>2, <1>3
\* Two lists that start at the same cell are the same.
LEMMA ListUnique ==
  ASSUME NEW h, NEW nx,
         NEW k \in Nat, NEW s \in [1..k -> Nodes], Follows(h, nx, s),
         NEW l \in Nat, NEW r \in [1..l -> Nodes], Follows(h, nx, r)
  PROVE  s = r
<1>1. Len(s) = k /\ Len(r) = l /\ (s = <<>> <=> k = 0) /\ (r = <<>> <=> l = 0)
  OBVIOUS
<1>2. /\ h = IF k = 0 THEN NULL ELSE s[1]
      /\ \A i \in 1..k : nx[s[i]] = IF i = k THEN NULL ELSE s[i + 1]
      /\ h = IF l = 0 THEN NULL ELSE r[1]
      /\ \A i \in 1..l : nx[r[i]] = IF i = l THEN NULL ELSE r[i + 1]
  BY <1>1 DEF Follows
<1> DEFINE Agree == {i \in Nat : i \in 1..k => i \in 1..l /\ s[i] = r[i]}
<1>3. Nat \subseteq Agree
  <2>1. 0 \in Agree
    OBVIOUS
  <2>2. ASSUME NEW i \in Nat, i \in Agree PROVE i + 1 \in Agree
    <3> SUFFICES ASSUME i + 1 \in 1..k PROVE i + 1 \in 1..l /\ s[i + 1] = r[i + 1]
      OBVIOUS
    <3>1. CASE i = 0
      <4>1. s[1] \in Nodes
        BY <3>1
      <4> QED
        BY <1>2, <3>1, <4>1
    <3>2. CASE i > 0
      <4>1. i \in 1..k /\ i # k /\ i \in 1..l /\ s[i] = r[i] /\ s[i + 1] \in Nodes
        BY <2>2, <3>2
      <4>2. nx[r[i]] = s[i + 1]
        BY <1>2, <4>1
      <4> QED
        BY <1>2, <4>1, <4>2
    <3> QED
      BY <3>1, <3>2
  <2> HIDE DEF Agree
  <2> QED
    BY <2>1, <2>2, SetInduction
<1>4. \A i \in 1..k : i \in 1..l /\ s[i] = r[i]
  BY <1>3
<1>5. k = l
  <2>1. CASE k = 0
    BY <1>2, <2>1
  <2>2. CASE k > 0
    <3>1. k \in 1..k /\ k <= l /\ s[k] = r[k] /\ nx[r[k]] = NULL
      BY <1>2, <1>4, <2>2
    <3>2. k < l => r[k + 1] \in Nodes /\ nx[r[k]] = r[k + 1]
      BY <1>2, <3>1
    <3> QED
      BY <3>1, <3>2
  <2> QED
    BY <2>1, <2>2
<1> QED
  BY <1>4, <1>5

\* The list found by the invariant is the one reached from head.
LEMMA ListIsChain ==
  ASSUME NEW h, NEW nx, NEW k \in Nat, NEW s \in [1..k -> Nodes],
         Follows(h, nx, s), \A i, j \in 1..k : s[i] = s[j] => i = j
  PROVE  ChainFrom(h, nx) = s
<1>1. k <= Cardinality(Nodes)
  <2>1. IsFiniteSet(1..k) /\ Cardinality(1..k) = k
    BY FS_Interval
  <2>2. Cardinality(Nodes) \in Nat
    BY FS_CardinalityType
  <2>3. ~(Cardinality(Nodes) < Cardinality(1..k))
    BY <2>1, FS_PigeonHole
  <2> QED
    BY <2>1, <2>2, <2>3
<1>2. s \in SeqOf(Nodes, Cardinality(Nodes))
  BY <1>1, FS_CardinalityType DEF SeqOf
<1>3. ASSUME NEW r \in SeqOf(Nodes, Cardinality(Nodes)), Follows(h, nx, r)
      PROVE  r = s
  <2>1. PICK l \in 0..Cardinality(Nodes) : r \in [1..l -> Nodes]
    BY DEF SeqOf
  <2>2. l \in Nat
    OBVIOUS
  <2> QED
    BY <1>3, <2>1, <2>2, ListUnique
<1> QED
  BY <1>2, <1>3 DEF ChainFrom

LEMMA ChainIs ==
  /\ \A k \in Nat : \A s \in [1..k -> Nodes] : IsList(k, s) => Chain = s
  /\ \A k \in Nat : \A s \in [1..k -> Nodes] : IsList(k, s)' => Chain' = s
<1>1. ASSUME NEW k \in Nat, NEW s \in [1..k -> Nodes], IsList(k, s) PROVE Chain = s
  <2>1. Follows(head, next, s) /\ \A i, j \in 1..k : s[i] = s[j] => i = j
    BY <1>1 DEF IsList, Follows
  <2> QED
    BY <2>1, ListIsChain DEF Chain
<1>2. ASSUME NEW k \in Nat, NEW s \in [1..k -> Nodes], IsList(k, s)' PROVE Chain' = s
  <2>1. Follows(head', next', s) /\ \A i, j \in 1..k : s[i] = s[j] => i = j
    BY <1>2 DEF IsList, Follows
  <2> QED
    BY <2>1, ListIsChain DEF Chain
<1> QED
  BY <1>1, <1>2

\* Between steps the list reached from head has the shape ListInv describes.
LEMMA ChainNow ==
  ASSUME IInv
  PROVE  \E k \in Nat :
           /\ Chain \in [1..k -> Nodes] /\ IsList(k, Chain)
           /\ q = "live" => /\ tail = IF k = 0 THEN NULL ELSE Chain[k]
                            /\ k = size + Pending(m)
BY ChainIs DEF IInv, ListInv

\* queue_push appends to it.
LEMMA PushChain ==
  ASSUME IInv, NEW p \in Producers, PushLink(p)
  PROVE  \E n \in Nodes \ allocated :
           /\ Chain' = Append(Chain, n) /\ Len(Chain) = size
           /\ allocated' = allocated \cup {n}
           /\ data' = [data EXCEPT ![n] = val[p]]
<1>1. PICK k \in Nat : \E s \in [1..k -> Nodes] : \E n \in Nodes \ allocated :
         /\ IsList(k, s) /\ k = size /\ allocated' = allocated \cup {n}
         /\ data' = [data EXCEPT ![n] = val[p]]
         /\ Extend(k, s, n) \in [1..(k + 1) -> Nodes]
         /\ IsList(k + 1, Extend(k, s, n))'
  BY PushList
<1>2. PICK s \in [1..k -> Nodes], n \in Nodes \ allocated :
         /\ IsList(k, s) /\ k = size /\ allocated' = allocated \cup {n}
         /\ data' = [data EXCEPT ![n] = val[p]]
         /\ Extend(k, s, n) \in [1..(k + 1) -> Nodes]
         /\ IsList(k + 1, Extend(k, s, n))'
  BY <1>1
<1>3. Chain = s /\ Chain' = Extend(k, s, n)
  BY <1>2, ChainIs
<1>4. s \in Seq(Nodes) /\ Len(s) = k
  OBVIOUS
<1>5. Append(s, n) = Extend(k, s, n)
  <2>1. /\ Append(s, n) \in Seq(Nodes) /\ Len(Append(s, n)) = k + 1
        /\ \A i \in 1..k + 1 : Append(s, n)[i] = IF i = k + 1 THEN n ELSE s[i]
    BY <1>4, AppendProperties
  <2>2. Append(s, n) \in [1..(k + 1) -> Nodes]
    BY <2>1, LenProperties
  <2> QED
    BY <2>1, <2>2 DEF Extend
<1> QED
  BY <1>2, <1>3, <1>4, <1>5

\* queue_pull and queue_destroy take its first cell away.
LEMMA UnlinkChain ==
  ASSUME IInv, (\E c \in Consumers : PullUnlink(c)) \/ DestroyNode
  PROVE  Chain # <<>> /\ Chain[1] = head /\ Chain' = Tail(Chain)
<1>1. PICK k \in Nat : \E s \in [1..k -> Nodes] :
         /\ IsList(k, s) /\ k > 0 /\ head = s[1]
         /\ k - 1 \in Nat /\ Shift(k, s) \in [1..(k - 1) -> Nodes]
         /\ IsList(k - 1, Shift(k, s))'
  BY PullList, DestroyList
<1>2. PICK s \in [1..k -> Nodes] :
         /\ IsList(k, s) /\ k > 0 /\ head = s[1]
         /\ k - 1 \in Nat /\ Shift(k, s) \in [1..(k - 1) -> Nodes]
         /\ IsList(k - 1, Shift(k, s))'
  BY <1>1
<1>3. Chain = s /\ Chain' = Shift(k, s)
  BY <1>2, ChainIs
<1>4. s # <<>> /\ s \in Seq(Nodes) /\ Len(s) = k
  BY <1>2
<1>5. Tail(s) = Shift(k, s)
  <2>1. /\ Tail(s) \in Seq(Nodes) /\ Len(Tail(s)) = k - 1
        /\ \A i \in 1..k - 1 : Tail(s)[i] = s[i + 1]
    BY <1>4, HeadTailProperties
  <2>2. Tail(s) \in [1..(k - 1) -> Nodes]
    BY <2>1, LenProperties
  <2> QED
    BY <2>1, <2>2 DEF Shift
<1> QED
  BY <1>2, <1>3, <1>4, <1>5

\* free(node) does not touch it.
LEMMA FreeChain ==
  ASSUME IInv, NEW c \in Consumers, PullFree(c)
  PROVE  /\ Chain' = Chain /\ node[c] # NULL
         /\ \A i \in DOMAIN Chain : Chain[i] # node[c] /\ data'[Chain[i]] = data[Chain[i]]
<1>0. TypeOK /\ HandInv
  BY DEF IInv
<1>1. PICK k \in Nat : \E s \in [1..k -> Nodes] : IsList(k, s)
  BY DEF IInv, ListInv
<1>2. PICK s \in [1..k -> Nodes] : IsList(k, s)
  BY <1>1
<1>3. node[c] # NULL
  BY <1>0 DEF PullFree, HandInv, HandPC
<1>4. \A i \in 1..k : s[i] # node[c] /\ s[i] \in Nodes
  BY <1>2 DEF IsList
<1>5. \A i \in 1..k : /\ next'[s[i]] = next[s[i]] /\ data'[s[i]] = data[s[i]]
                      /\ s[i] \in allocated'
  BY <1>0, <1>2, <1>4 DEF PullFree, Scrub, TypeOK, IsList, Freed
<1>6. head' = head /\ \A d \in Consumers : node'[d] = node[d] \/ node'[d] = NULL
  BY <1>0 DEF PullFree, TypeOK
<1>7. IsList(k, s)'
  BY <1>2, <1>4, <1>5, <1>6 DEF IsList
<1>8. Chain = s /\ Chain' = s
  BY <1>2, <1>7, ChainIs
<1> QED
  BY <1>3, <1>4, <1>5, <1>8

-----------------------------------------------------------------------------
(* Cells and elements *)

\* No cell is leaked.
OwnInv ==
  \A n \in allocated : \/ \E i \in DOMAIN Chain : Chain[i] = n
                       \/ \E c \in Consumers : node[c] = n

\* Every cell in use holds an element, and so does every thread that carries
\* one; a queue that does not exist has no cells.
DataInv ==
  /\ \A n \in allocated : data[n] \in Data
  /\ \A p \in Producers : pc[p] \in {"lock", "test", "waiting"} => val[p] \in Data
  /\ \A c \in Consumers : IF node[c] = NULL THEN val[c] = NULL ELSE val[c] \in Data
  /\ q = "absent" => head = NULL

FullInv == IInv /\ OwnInv /\ DataInv

\* Steps that touch neither the list nor the cells.
LEMMA OwnFrame ==
  ASSUME OwnInv, UNCHANGED <<head, next, node, allocated>>
  PROVE  OwnInv'
BY DEF OwnInv, Chain

LEMMA OwnStep == FullInv /\ [Next]_vars => OwnInv'
<1> SUFFICES ASSUME FullInv, [Next]_vars PROVE OwnInv'
  OBVIOUS
<1>0. IInv /\ TypeOK /\ HandInv /\ QuietInv /\ OwnInv /\ DataInv
  BY DEF FullInv, IInv
<1> USE DEF list, locals
<1>1. CASE Owner
  <2>1. CASE QueueCreate
    <3>1. head' = head /\ UNCHANGED <<next, node, allocated>>
      BY <1>0, <2>1 DEF QueueCreate, DataInv, vars
    <3> QED
      BY <1>0, <3>1, OwnFrame
  <2>2. CASE DestroyCall \/ DestroyEnd
    BY <1>0, <2>2, OwnFrame DEF DestroyCall, DestroyEnd
  <2>3. CASE DestroyNode
    <3>1. Chain # <<>> /\ Chain[1] = head /\ Chain' = Tail(Chain)
      BY <1>0, <2>3, UnlinkChain
    <3>2. PICK k \in Nat : Chain \in [1..k -> Nodes]
      BY <1>0, ChainNow
    <3>3. k > 0 /\ Chain \in Seq(Nodes) /\ Len(Chain) = k
      BY <3>1, <3>2
    <3>4. /\ DOMAIN Chain' = 1..(k - 1)
          /\ \A i \in 1..(k - 1) : Chain'[i] = Chain[i + 1]
      BY <3>1, <3>3, HeadTailProperties, LenProperties
    <3>5. \A i \in 1..k : Chain[i] # head => i - 1 \in 1..(k - 1) /\ Chain'[i - 1] = Chain[i]
      BY <3>1, <3>3, <3>4
    <3>6. allocated' = allocated \ {head} /\ node' = node
      BY <2>3 DEF DestroyNode
    <3> QED
      BY <1>0, <3>2, <3>4, <3>5, <3>6, SMTT(15) DEF OwnInv
  <2> QED
    BY <1>1, <2>1, <2>2, <2>3 DEF Owner
<1>2. ASSUME NEW t \in Threads, Step(t) PROVE OwnInv'
  <2>1. CASE Lock(t) \/ CondWait(t) \/ Count(t) \/ Signal(t) \/ Unlock(t)
    BY <1>0, <2>1, OwnFrame DEF Lock, CondWait, Count, Signal, Unlock
  <2>2. CASE t \in Producers /\ PushLink(t)
    <3>1. PICK n \in Nodes \ allocated :
            Chain' = Append(Chain, n) /\ allocated' = allocated \cup {n}
      BY <1>0, <2>2, PushChain
    <3>2. PICK k \in Nat : Chain \in [1..k -> Nodes]
      BY <1>0, ChainNow
    <3>3. Chain \in Seq(Nodes) /\ Len(Chain) = k
      BY <3>2
    <3>4. /\ DOMAIN Chain' = 1..(k + 1) /\ Chain'[k + 1] = n
          /\ \A i \in 1..k : Chain'[i] = Chain[i]
      BY <3>1, <3>3, AppendProperties, LenProperties
    <3>5. node' = node
      BY <2>2 DEF PushLink
    <3> QED
      BY <1>0, <3>1, <3>2, <3>4, <3>5 DEF OwnInv
  <2>3. CASE t \in Consumers /\ PullUnlink(t)
    <3>1. Chain # <<>> /\ Chain[1] = head /\ Chain' = Tail(Chain)
      BY <1>0, <2>3, UnlinkChain
    <3>2. PICK k \in Nat : Chain \in [1..k -> Nodes]
      BY <1>0, ChainNow
    <3>3. k > 0 /\ Chain \in Seq(Nodes) /\ Len(Chain) = k
      BY <3>1, <3>2
    <3>4. /\ DOMAIN Chain' = 1..(k - 1)
          /\ \A i \in 1..(k - 1) : Chain'[i] = Chain[i + 1]
      BY <3>1, <3>3, HeadTailProperties, LenProperties
    <3>5. \A i \in 1..k : Chain[i] # head => i - 1 \in 1..(k - 1) /\ Chain'[i - 1] = Chain[i]
      BY <3>1, <3>3, <3>4
    <3>6. node[t] = NULL /\ node' = [node EXCEPT ![t] = head] /\ allocated' = allocated
      BY <1>0, <2>3 DEF PullUnlink, HandInv, HandPC
    <3>7. \A c \in Consumers : node[c] # NULL => node'[c] = node[c]
      BY <1>0, <3>6 DEF TypeOK
    <3>8. node'[t] = head
      BY <1>0, <2>3, <3>6 DEF TypeOK
    <3>9. NULL \notin allocated
      BY <1>0 DEF TypeOK
    <3> QED
      BY <1>0, <2>3, <3>2, <3>4, <3>5, <3>6, <3>7, <3>8, <3>9 DEF OwnInv
  <2>4. CASE t \in Consumers /\ PullFree(t)
    <3>1. Chain' = Chain
      BY <1>0, <2>4, FreeChain
    <3>2. /\ allocated' = allocated \ {node[t]}
          /\ \A c \in Consumers : c # t => node'[c] = node[c]
      BY <1>0, <2>4 DEF PullFree, Freed, TypeOK
    <3> QED
      BY <1>0, <3>1, <3>2 DEF OwnInv
  <2> QED
    BY <1>2, <2>1, <2>2, <2>3, <2>4 DEF Step
<1>3. ASSUME NEW t \in Threads, Call(t) \/ SpuriousWakeup(t) PROVE OwnInv'
  BY <1>0, <1>3, OwnFrame DEF Call, PushCall, PullCall, SpuriousWakeup
<1>4. CASE UNCHANGED vars
  BY <1>0, <1>4, OwnFrame DEF vars
<1> QED
  BY <1>1, <1>2, <1>3, <1>4 DEF Next

LEMMA DataStep == FullInv /\ [Next]_vars => DataInv'
<1> SUFFICES ASSUME FullInv, [Next]_vars PROVE DataInv'
  OBVIOUS
<1>0. IInv /\ TypeOK /\ HandInv /\ QuietInv /\ DataInv
  BY DEF FullInv, IInv
<1> USE DEF list, locals, DataInv, Goto, TypeOK, Threads
<1>1. CASE Owner
  <2>1. CASE QueueCreate
    BY <1>0, <2>1 DEF QueueCreate, vars
  <2>2. CASE DestroyCall \/ DestroyEnd
    BY <1>0, <2>2 DEF DestroyCall, DestroyEnd
  <2>3. CASE DestroyNode
    BY <1>0, <2>3 DEF DestroyNode, Scrub
  <2> QED
    BY <1>1, <2>1, <2>2, <2>3 DEF Owner
<1>2. ASSUME NEW t \in Threads, Step(t) PROVE DataInv'
  <2>1. CASE Lock(t)
    BY <1>0, <2>1 DEF Lock
  <2>2. CASE CondWait(t)
    BY <1>0, <2>2 DEF CondWait
  <2>3. CASE Count(t)
    BY <1>0, <2>3 DEF Count
  <2>4. CASE Signal(t)
    BY <1>0, <2>4 DEF Signal, Signalled, Waiting
  <2>5. CASE Unlock(t)
    BY <1>0, <2>5 DEF Unlock
  <2>6. CASE t \in Producers /\ PushLink(t)
    <3>1. PICK n \in Nodes \ allocated :
            /\ allocated' = allocated \cup {n}
            /\ data' = [data EXCEPT ![n] = val[t]]
      BY <2>6 DEF PushLink
    <3>2. q = "live" /\ val[t] \in Data /\ t \notin Consumers
      BY <1>0, <2>6, PushList DEF PushLink
    <3> QED
      BY <1>0, <2>6, <3>1, <3>2 DEF PushLink
  <2>7. CASE t \in Consumers /\ PullUnlink(t)
    <3>1. head \in Nodes /\ head \in allocated /\ q = "live" /\ t \notin Producers
      BY <1>0, <2>7, HeadIsNode DEF PullUnlink
    <3> QED
      BY <1>0, <2>7, <3>1 DEF PullUnlink, Element
  <2>8. CASE t \in Consumers /\ PullFree(t)
    <3>1. t \notin Producers /\ q = "live"
      BY <1>0, <2>8 DEF PullFree, QuietInv
    <3> QED
      BY <1>0, <2>8, <3>1 DEF PullFree, Freed, Scrub
  <2> QED
    BY <1>2, <2>1, <2>2, <2>3, <2>4, <2>5, <2>6, <2>7, <2>8 DEF Step
<1>3. ASSUME NEW t \in Threads, Call(t) PROVE DataInv'
  BY <1>0, <1>3 DEF Call, PushCall, PullCall
<1>4. ASSUME NEW t \in Threads, SpuriousWakeup(t) PROVE DataInv'
  BY <1>0, <1>4 DEF SpuriousWakeup
<1>5. CASE UNCHANGED vars
  BY <1>0, <1>5 DEF vars
<1> QED
  BY <1>1, <1>2, <1>3, <1>4, <1>5 DEF Next

\* The inductive invariant with the cells and the elements.
THEOREM FullInvariance == Spec => []FullInv
<1>1. Init => OwnInv /\ DataInv
  BY DEF Init, OwnInv, DataInv, Threads
<1>2. IInv /\ [Next]_vars => IInv'
  BY TypeStep, ControlStep, HandStep, ListStep, RoomStep DEF IInv
<1>3. FullInv /\ [Next]_vars => FullInv'
  BY <1>2, OwnStep, DataStep DEF FullInv
<1>4. Init => FullInv
  BY <1>1, InitIInv DEF FullInv
<1> QED
  BY <1>3, <1>4, PTL DEF Spec

\* With the mutex free the list has `size` cells, tail is its last one, and
\* every malloc'd cell is on the list or with the one consumer that will free
\* it (queue.c:82-122), for any threads and any heap.
THEOREM ListCorrect == Spec => []ListIntact
<1>1. FullInv => ListIntact
  <2> SUFFICES ASSUME FullInv PROVE ListIntact
    OBVIOUS
  <2>0. IInv /\ TypeOK /\ HandInv /\ OwnInv /\ SizeInBounds
    BY DEF FullInv, IInv
  <2>1. PICK k \in Nat :
          /\ Chain \in [1..k -> Nodes] /\ IsList(k, Chain)
          /\ q = "live" => /\ tail = IF k = 0 THEN NULL ELSE Chain[k]
                           /\ k = size + Pending(m)
    BY <2>0, ChainNow
  <2>2. Len(Chain) = k /\ (Chain = <<>> <=> k = 0) /\ DOMAIN Chain = 1..k
    BY <2>1
  <2>3. ListShape
    BY <2>0, <2>1, <2>2 DEF ListShape, Last, Pending, TypeOK
  <2>4. CellOwnership
    <3>1. \A i \in 1..k : Chain[i] \in allocated
      BY <2>1 DEF IsList
    <3>2. \A c \in Consumers : \A i \in 1..k : node[c] # Chain[i]
      BY <2>1 DEF IsList
    <3>3. NULL \notin allocated
      BY <2>0 DEF TypeOK
    <3>4. allocated = ToSet(Chain) \cup {node[c] : c \in InHand}
      BY <2>0, <2>2, <3>1, <3>3 DEF OwnInv, HandInv, ToSet, InHand
    <3>5. \A c \in InHand : node[c] \notin ToSet(Chain)
      BY <2>2, <3>2 DEF ToSet, InHand
    <3>6. \A c, d \in InHand : node[c] = node[d] => c = d
      BY <2>0 DEF HandInv, InHand
    <3> QED
      BY <3>4, <3>5, <3>6 DEF CellOwnership
  <2> QED
    BY <2>0, <2>3, <2>4 DEF ListIntact
<1> QED
  BY FullInvariance, <1>1, PTL

-----------------------------------------------------------------------------
(* The queue implements a first-in first-out buffer *)

fifo_vars == <<q = "live", max_size, Items, Taken>>

\* The elements as a sequence.
LEMMA ItemsSeq ==
  ASSUME FullInv
  PROVE  /\ Chain \in Seq(Nodes) /\ Items \in Seq(Data)
         /\ Len(Items) = Len(Chain) /\ DOMAIN Chain = 1..Len(Chain)
         /\ \A i \in 1..Len(Chain) : Items[i] = data[Chain[i]] /\ Chain[i] \in allocated
<1>1. PICK k \in Nat : Chain \in [1..k -> Nodes] /\ IsList(k, Chain)
  BY ChainNow DEF FullInv
<1>2. Chain \in Seq(Nodes) /\ Len(Chain) = k /\ DOMAIN Chain = 1..k
  BY <1>1
<1>3. \A i \in 1..k : Chain[i] \in allocated /\ data[Chain[i]] \in Data
  BY <1>1 DEF IsList, FullInv, DataInv
<1>4. Items = [i \in 1..k |-> data[Chain[i]]]
  BY <1>2 DEF Items
<1>5. Items \in [1..k -> Data]
  BY <1>3, <1>4
<1>6. Items \in Seq(Data) /\ Len(Items) = k
  BY <1>5
<1> QED
  BY <1>2, <1>3, <1>4, <1>6

\* Steps that do not change what a caller sees.
LEMMA Stutter ==
  ASSUME UNCHANGED <<q, max_size, head, next, data, val>>
  PROVE  UNCHANGED fifo_vars
BY DEF fifo_vars, Items, Taken, Chain

\* Unlinking the first cell takes the oldest element away.
LEMMA UnlinkItems ==
  ASSUME FullInv, Chain # <<>>, Chain' = Tail(Chain),
         \A n \in Nodes \ {Chain[1]} : data'[n] = data[n]
  PROVE  Items # <<>> /\ Head(Items) = data[Chain[1]] /\ Items' = Tail(Items)
<1>1. PICK k \in Nat : Chain \in [1..k -> Nodes] /\ IsList(k, Chain)
  BY ChainNow DEF FullInv
<1>2. /\ Chain \in Seq(Nodes) /\ Len(Chain) = k /\ k > 0
      /\ \A i \in 1..k : Chain[i] = Chain[1] => i = 1
  BY <1>1 DEF IsList
<1>3. /\ Items \in Seq(Data) /\ Len(Items) = k
      /\ \A i \in 1..k : Items[i] = data[Chain[i]]
  BY <1>2, ItemsSeq
<1>4. Items # <<>> /\ Head(Items) = data[Chain[1]]
  BY <1>2, <1>3
<1>5. /\ Tail(Items) \in Seq(Data) /\ Len(Tail(Items)) = k - 1
      /\ \A i \in 1..(k - 1) : Tail(Items)[i] = Items[i + 1]
  BY <1>3, <1>4, HeadTailProperties
<1>6. DOMAIN Chain' = 1..(k - 1) /\ \A i \in 1..(k - 1) : Chain'[i] = Chain[i + 1]
  BY <1>2, HeadTailProperties, LenProperties
<1>7. \A i \in 1..(k - 1) : data'[Chain'[i]] = Items[i + 1]
  <2> SUFFICES ASSUME NEW i \in 1..(k - 1) PROVE data'[Chain'[i]] = Items[i + 1]
    OBVIOUS
  <2>1. i + 1 \in 1..k /\ Chain[i + 1] \in Nodes \ {Chain[1]}
    BY <1>1, <1>2
  <2> QED
    BY <1>3, <1>6, <2>1
<1>8. Items' = [i \in 1..(k - 1) |-> data'[Chain'[i]]]
  BY <1>6 DEF Items
<1>9. Tail(Items) = [i \in 1..(k - 1) |-> Tail(Items)[i]]
  BY <1>5, LenProperties
<1> QED
  BY <1>4, <1>5, <1>7, <1>8, <1>9

\* Linking a fresh cell adds its element at the end.
LEMMA LinkItems ==
  ASSUME FullInv, NEW n \in Nodes \ allocated, NEW d \in Data,
         Chain' = Append(Chain, n), data' = [data EXCEPT ![n] = d]
  PROVE  Items' = Append(Items, d)
<1> DEFINE k == Len(Chain)
<1>1. /\ Chain \in Seq(Nodes) /\ Items \in Seq(Data) /\ Len(Items) = k /\ k \in Nat
      /\ \A i \in 1..k : Items[i] = data[Chain[i]] /\ Chain[i] \in allocated
  BY ItemsSeq, LenProperties
<1>2. TypeOK
  BY DEF FullInv, IInv
<1>3. /\ DOMAIN Chain' = 1..(k + 1) /\ Chain'[k + 1] = n
      /\ \A i \in 1..k : Chain'[i] = Chain[i]
  BY <1>1, AppendProperties, LenProperties
<1>4. /\ Append(Items, d) \in Seq(Data) /\ Len(Append(Items, d)) = k + 1
      /\ \A i \in 1..k : Append(Items, d)[i] = Items[i]
      /\ Append(Items, d)[k + 1] = d
  BY <1>1, AppendProperties
<1>5. data'[n] = d /\ \A i \in 1..k : data'[Chain[i]] = data[Chain[i]]
  BY <1>1, <1>2 DEF TypeOK
<1>6. Items' = [i \in 1..(k + 1) |-> data'[Chain'[i]]]
  BY <1>3 DEF Items
<1>7. Append(Items, d) = [i \in 1..(k + 1) |-> Append(Items, d)[i]]
  BY <1>4, LenProperties
<1> HIDE DEF k
<1>8. \A i \in 1..(k + 1) : data'[Chain'[i]] = Append(Items, d)[i]
  BY <1>1, <1>3, <1>4, <1>5
<1> QED
  BY <1>6, <1>7, <1>8

\* Every step of queue.c is a step of the buffer, or invisible.
LEMMA FifoStep == FullInv /\ [Next]_vars => [fifo!Next]_fifo_vars
<1> SUFFICES ASSUME FullInv, [Next]_vars PROVE [fifo!Next]_fifo_vars
  OBVIOUS
<1>0. IInv /\ TypeOK /\ HandInv /\ QuietInv /\ MutexOwnership /\ DataInv
  BY DEF FullInv, IInv
<1> USE DEF list, locals
<1>1. CASE Owner
  <2>1. CASE QueueCreate
    <3>1. CASE UNCHANGED vars
      BY <3>1, Stutter DEF vars
    <3>2. CASE ~UNCHANGED vars
      <4>1. /\ q = "absent" /\ q' = "live" /\ head = NULL /\ max_size' \in MaxSizes
            /\ UNCHANGED <<head, next, data, val>>
        BY <1>0, <2>1, <3>2 DEF QueueCreate, DataInv
      <4>2. Items = <<>>
        <5>1. PICK k \in Nat : Chain \in [1..k -> Nodes] /\ IsList(k, Chain)
          BY <1>0, ChainNow
        <5>2. k = 0
          BY <4>1, <5>1 DEF IsList
        <5>3. Items \in Seq(Data) /\ Len(Items) = 0
          BY <5>1, <5>2, ItemsSeq
        <5> QED
          BY <5>3
      <4>3. Items' = Items /\ Taken' = Taken
        BY <4>1 DEF Items, Chain, Taken
      <4> QED
        BY <4>1, <4>2, <4>3 DEF fifo!Next, fifo!Open
    <3> QED
      BY <3>1, <3>2
  <2>2. CASE DestroyCall
    <3>1. q = "live" /\ q' = "destroying" /\ \A c \in Consumers : val[c] = NULL
      BY <1>0, <2>2 DEF DestroyCall, DataInv, HandInv, HandPC, Threads
    <3>2. UNCHANGED <<max_size, head, next, data, val>>
      BY <2>2 DEF DestroyCall
    <3>3. UNCHANGED <<max_size, Items, Taken>>
      BY <3>2 DEF Items, Chain, Taken
    <3>4. \A c \in Consumers : Taken[c] = NULL
      BY <3>1 DEF Taken
    <3> QED
      BY <3>1, <3>3, <3>4 DEF fifo!Next, fifo!Close
  <2>3. CASE DestroyEnd
    <3>1. (q = "live") = FALSE /\ (q' = "live") = FALSE
      BY <2>3 DEF DestroyEnd
    <3>2. UNCHANGED <<max_size, Items, Taken>>
      BY <2>3 DEF DestroyEnd, Items, Chain, Taken
    <3> QED
      BY <3>1, <3>2 DEF fifo_vars
  <2>4. CASE DestroyNode
    <3>1. Chain # <<>> /\ Chain[1] = head /\ Chain' = Tail(Chain)
      BY <1>0, <2>4, UnlinkChain
    <3>2. \A n \in Nodes \ {Chain[1]} : data'[n] = data[n]
      BY <1>0, <2>4, <3>1 DEF DestroyNode, Scrub, TypeOK
    <3>3. Items # <<>> /\ Items' = Tail(Items)
      BY <3>1, <3>2, UnlinkItems
    <3>4. q = "destroying" /\ UNCHANGED <<q, max_size, Taken>>
      BY <2>4 DEF DestroyNode, Taken
    <3> QED
      BY <3>3, <3>4 DEF fifo!Next, fifo!Discard
  <2> QED
    BY <1>1, <2>1, <2>2, <2>3, <2>4 DEF Owner
<1>2. ASSUME NEW t \in Threads, Step(t) PROVE [fifo!Next]_fifo_vars
  <2>1. CASE Lock(t) \/ CondWait(t) \/ Count(t) \/ Signal(t) \/ Unlock(t)
    BY <2>1, Stutter DEF Lock, CondWait, Count, Signal, Unlock
  <2>2. CASE t \in Producers /\ PushLink(t)
    <3>1. PICK n \in Nodes \ allocated :
            /\ Chain' = Append(Chain, n) /\ Len(Chain) = size
            /\ data' = [data EXCEPT ![n] = val[t]]
      BY <1>0, <2>2, PushChain
    <3>2. val[t] \in Data /\ q = "live"
      BY <1>0, <2>2, PushList DEF DataInv, PushLink
    <3>3. Items' = Append(Items, val[t])
      BY <3>1, <3>2, LinkItems
    <3>4. max_size > 0 => Len(Items) < max_size
      BY <1>0, <2>2, <3>1, ItemsSeq DEF PushLink, MustWait, Full, TypeOK
    <3>5. \A c \in Consumers : val'[c] = val[c]
      BY <1>0, <2>2 DEF PushLink, TypeOK, Threads
    <3>6. UNCHANGED <<q, max_size, Taken>>
      BY <2>2, <3>5 DEF PushLink, Taken
    <3>7. fifo!Put(val[t])
      BY <3>2, <3>3, <3>4, <3>6 DEF fifo!Put
    <3> QED
      BY <3>2, <3>7 DEF fifo!Next
  <2>3. CASE t \in Consumers /\ PullUnlink(t)
    <3>1. Chain # <<>> /\ Chain[1] = head /\ Chain' = Tail(Chain)
      BY <1>0, <2>3, UnlinkChain
    <3>2. data' = data /\ q' = q /\ max_size' = max_size
      BY <2>3 DEF PullUnlink
    <3>3. Items # <<>> /\ Head(Items) = data[head] /\ Items' = Tail(Items)
      BY <3>1, <3>2, UnlinkItems
    <3>4. q = "live" /\ Taken[t] = NULL
      BY <1>0, <2>3, PullList DEF PullUnlink, HandInv, HandPC, DataInv, Taken
    <3>5. Taken' = [Taken EXCEPT ![t] = Head(Items)]
      BY <1>0, <2>3, <3>3 DEF PullUnlink, Element, Taken, TypeOK, Threads
    <3>6. fifo!Take(t)
      BY <3>2, <3>3, <3>4, <3>5 DEF fifo!Take
    <3> QED
      BY <2>3, <3>6 DEF fifo!Next
  <2>4. CASE t \in Consumers /\ PullFree(t)
    <3>1. /\ Chain' = Chain /\ node[t] # NULL
          /\ \A i \in DOMAIN Chain : data'[Chain[i]] = data[Chain[i]]
      BY <1>0, <2>4, FreeChain
    <3>2. Items' = Items
      BY <3>1 DEF Items
    <3>3. q = "live" /\ val[t] \in Data /\ UNCHANGED <<q, max_size>>
      BY <1>0, <2>4, <3>1 DEF PullFree, DataInv, QuietInv
    <3>4. Taken[t] # NULL
      BY <2>4, <3>3 DEF Taken
    <3>5. Taken' = [Taken EXCEPT ![t] = NULL]
      BY <1>0, <2>4 DEF PullFree, Taken, TypeOK, Threads
    <3>6. fifo!Return(t)
      BY <3>2, <3>3, <3>4, <3>5 DEF fifo!Return
    <3> QED
      BY <2>4, <3>6 DEF fifo!Next
  <2> QED
    BY <1>2, <2>1, <2>2, <2>3, <2>4 DEF Step
<1>3. ASSUME NEW t \in Threads, SpuriousWakeup(t) PROVE [fifo!Next]_fifo_vars
  BY <1>3, Stutter DEF SpuriousWakeup
<1>4. ASSUME NEW t \in Threads, Call(t) PROVE [fifo!Next]_fifo_vars
  <2>1. UNCHANGED <<q, max_size, head, next, data>>
    BY <1>4 DEF Call, PushCall, PullCall
  <2>2. \A c \in Consumers : val'[c] = val[c]
    BY <1>0, <1>4 DEF Call, PushCall, PullCall, TypeOK, Threads
  <2>3. UNCHANGED <<Items, Taken>>
    BY <2>1, <2>2 DEF Items, Chain, Taken
  <2> QED
    BY <2>1, <2>3 DEF fifo_vars
<1>5. CASE UNCHANGED vars
  BY <1>5, Stutter DEF vars
<1> QED
  BY <1>1, <1>2, <1>3, <1>4, <1>5 DEF Next

\* queue_push, queue_pull, queue_create and queue_destroy implement a first-in
\* first-out buffer, for any threads, elements, maximum sizes and heap.
THEOREM QueueIsFifo == Spec => ImplementsFifo
<1>1. Init => fifo!Init
  <2> SUFFICES ASSUME Init PROVE fifo!Init
    OBVIOUS
  <2>1. IInv /\ head = NULL
    BY InitIInv DEF Init
  <2>2. PICK k \in Nat : Chain \in [1..k -> Nodes] /\ IsList(k, Chain)
    BY <2>1, ChainNow
  <2>3. k = 0
    BY <2>1, <2>2 DEF IsList
  <2>4. Items = <<>>
    BY <2>2, <2>3 DEF Items
  <2> QED
    BY <2>4 DEF Init, fifo!Init, Taken, Threads
<1>2. [][Next]_vars /\ []FullInv => [][fifo!Next]_fifo_vars
  BY FifoStep, PTL
<1> QED
  BY <1>1, <1>2, FullInvariance, PTL DEF Spec, ImplementsFifo, fifo!Spec, fifo_vars
=============================================================================
