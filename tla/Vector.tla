------------------------------- MODULE Vector -------------------------------
(***************************************************************************)
(* The dynamic array of vector/vector.c, used with constructors that copy  *)
(* (strings): every slot below size points to an object the vector made    *)
(* itself and must free itself.  The vector is sequential, so one call is  *)
(* one action; what is hard is who owns which object after slots have been *)
(* shifted, dropped, overwritten and the array reallocated.                *)
(*                                                                         *)
(* Objects are numbers; object 0 stands for what an uninitialised or a     *)
(* dangling slot points to.  Only which slots share an object matters, so  *)
(* each call ends by naming an object after the first slot that points to  *)
(* it; an object that no slot points to any more has leaked, and nothing   *)
(* can tell it from one that was never made.                               *)
(***************************************************************************)
EXTENDS Naturals, Sequences, SequencesExt, FiniteSetsExt

CONSTANTS Elems,             \* what a caller puts into the vector
          Default,           \* the value the default constructor makes
          Freed,             \* the value of an object that is not allocated
          INITIAL_CAPACITY, GROWTH_FACTOR,
          MaxSize,           \* bound on the size
          MaxReserve         \* bound on the argument of vector_reserve

ASSUME VectorAssumption ==
  /\ GROWTH_FACTOR \in Nat \ {0, 1} /\ INITIAL_CAPACITY \in Nat \ {0}
  /\ MaxSize \in Nat /\ MaxReserve \in Nat /\ Freed \notin Elems \union {Default}

VARIABLES array,             \* the slots, indexed from 0
          size, capacity,
          heap,              \* the value of every object
          status             \* "alive", "destroyed", "misuse" (an operation
                             \* freed or copied an object that is not
                             \* allocated) or "overread" (vector_erase did
                             \* so with the slot behind the last element)

vars == <<array, size, capacity, heap, status>>

Objects == 1 .. 3 * (MaxSize + MaxReserve)

\* A call works on the slots and the objects, step by step; ok tells whether
\* it only touched allocated objects so far.
Start == [array |-> array, heap |-> heap, ok |-> TRUE]

New(m, i, value) ==
  LET o == Min({x \in Objects : m.heap[x] = Freed})
  IN  [m EXCEPT !.array[i] = o, !.heap[o] = value]

\* array[to] = copy_constructor(array[from])
Copy(m, from, to) ==
  LET value == m.heap[m.array[from]]
  IN  IF value = Freed THEN [m EXCEPT !.ok = FALSE] ELSE New(m, to, value)

Free(m, i) ==
  LET o == m.array[i]
  IN  [m EXCEPT !.heap[o] = Freed, !.ok = @ /\ m.heap[o] # Freed]

\* for (i = from; i < to; i++) step, and the same downwards.
Upwards(Step(_, _), m, from, to) ==
  FoldLeft(Step, m, [k \in 1 .. (IF to > from THEN to - from ELSE 0) |-> from + k - 1])
Downwards(Step(_, _), m, from, to) ==
  FoldLeft(Step, m, [k \in 1 .. (IF from >= to THEN from - to + 1 ELSE 0) |-> from - k + 1])

Finish(m) ==
  LET slots == DOMAIN m.array
      First(i) == Min({j \in slots : m.array[j] = m.array[i]})
      Value(i) == m.heap[m.array[i]]
  IN
  /\ array' = [i \in slots |-> IF Value(i) = Freed THEN 0 ELSE First(i) + 1]
  /\ heap' = [o \in Objects \union {0} |->
                IF o > 0 /\ o - 1 \in slots /\ First(o - 1) = o - 1
                  THEN Value(o - 1) ELSE Freed]
  /\ status' = IF m.ok THEN status ELSE "misuse"

get_new_capacity(target) ==
  LET grow[c \in Nat] == IF c < target THEN grow[c * GROWTH_FACTOR] ELSE c
  IN  grow[1]

\* realloc keeps the slots and adds uninitialised ones.
Realloc(m, n) ==
  [m EXCEPT !.array = [i \in 0 .. n - 1 |-> IF i < capacity THEN m.array[i] ELSE 0]]

Init ==  \* vector_create
  /\ array = [i \in 0 .. INITIAL_CAPACITY - 1 |-> 0]
  /\ size = 0 /\ capacity = INITIAL_CAPACITY
  /\ heap = [o \in Objects \union {0} |-> Freed]
  /\ status = "alive"

vector_size == size
vector_capacity == capacity
vector_get(position) == array[position]

\* The calls below are made on a vector that has not been destroyed.
Alive == status = "alive"

\* Slip: one element too many is freed.
Slip_OneMore(m, n) == Upwards(Free, m, IF n > 0 THEN n - 1 ELSE 0, vector_size)

\* The elements from n on are destroyed (clear, shrinking, destroy).
DestroyFrom(m, n) == Upwards(Free, m, n, vector_size)

vector_clear ==
  /\ Alive
  /\ Finish(DestroyFrom(Start, 0))
  /\ size' = 0
  /\ UNCHANGED capacity

vector_destroy ==
  /\ Alive
  /\ LET m == DestroyFrom(Start, 0)
     IN  /\ heap' = [o \in DOMAIN heap |-> Freed]
         /\ status' = IF m.ok THEN "destroyed" ELSE "misuse"
  /\ array' = <<>> /\ size' = 0 /\ capacity' = 0

\* The default elements; a resize that reallocates makes them twice and
\* leaks the first ones.
Defaults(m, n) ==
  LET Make(a, i) == New(a, i, Default)
      grown == Upwards(Make, Realloc(m, get_new_capacity(n)), vector_size, n)
  IN  Upwards(Make, IF n > vector_capacity THEN grown ELSE m, vector_size, n)

vector_resize(n) ==
  /\ Alive
  /\ \/ /\ n = vector_size /\ UNCHANGED vars
     \/ /\ n < vector_size
        /\ Finish(DestroyFrom(Start, n))
        /\ size' = n /\ UNCHANGED capacity
     \/ /\ n > vector_size
        /\ Finish(Defaults(Start, n))
        /\ size' = n
        /\ capacity' = IF n > vector_capacity THEN get_new_capacity(n) ELSE vector_capacity

vector_reserve(n) ==
  /\ Alive
  /\ IF n > vector_capacity
       THEN /\ capacity' = get_new_capacity(n)
            /\ Finish(Realloc(Start, get_new_capacity(n)))
            /\ UNCHANGED size
       ELSE UNCHANGED vars

\* The old element is not destroyed: it leaks.
vector_set(position, e) ==
  /\ Alive
  /\ position < vector_size
  /\ Finish(New(Start, position, e))
  /\ UNCHANGED <<size, capacity>>

HasRoom == vector_size < vector_capacity

\* Room for one more element.
Grown == IF HasRoom THEN Start ELSE Realloc(Start, get_new_capacity(vector_capacity + 1))
GrownCapacity == IF HasRoom THEN vector_capacity ELSE get_new_capacity(vector_capacity + 1)

vector_push_back(e) ==
  /\ Alive
  /\ Finish(New(Grown, vector_size, e))
  /\ size' = size + 1
  /\ capacity' = GrownCapacity

vector_pop_back ==
  /\ Alive
  /\ vector_size # 0
  /\ Finish(Free(Start, vector_size - 1))
  /\ size' = size - 1
  /\ UNCHANGED capacity

\* One turn of the shifting loops of vector_insert.
ShiftUp(m, i) == Copy(m, i, i + 1)

\* Slip: shifting starts at the front.
Slip_FrontFirst(m, position) == Upwards(ShiftUp, m, position, vector_size)

\* Both loops of vector_insert, for position > 0 and for the front.
OpenGap(m, position) == Downwards(ShiftUp, m, vector_size - 1, position)

\* The position is not looked at in an empty vector.  In others a position
\* beyond the size is the caller's mistake, no assertion stops it.
vector_insert(position, e) ==
  /\ Alive
  /\ \/ /\ vector_size = 0
        /\ Finish(New(Start, 0, e))
        /\ size' = size + 1 /\ UNCHANGED capacity
     \/ /\ vector_size # 0 /\ position = vector_size
        /\ vector_push_back(e)
     \/ /\ position < vector_size
        /\ Finish(New(OpenGap(Grown, position), position, e))
        /\ size' = size + 1
        /\ capacity' = GrownCapacity

\* The turns of vector_erase's loop that move an element.
CloseGap(m, position) ==
  LET ShiftDown(a, i) == Copy(a, i + 1, i)
  IN  Upwards(ShiftDown, m, position, vector_size - 1)

\* The last turn copies the slot behind the last element.  It holds whatever
\* was left there, or lies outside the array: copying it may stop the program
\* or give some value, in a slot that is given up at once.
vector_erase(position) ==
  LET m == CloseGap(Free(Start, position), position)
      behind == IF vector_size < vector_capacity THEN heap[array[vector_size]] ELSE Freed
  IN  /\ Alive
      /\ position < vector_size
      /\ \/ \E value \in IF behind = Freed THEN Elems ELSE {behind} :
              /\ Finish(New(m, vector_size - 1, value))
              /\ size' = size - 1
              /\ UNCHANGED capacity
         \/ /\ behind = Freed
            /\ status' = "overread"
            /\ UNCHANGED <<array, size, capacity, heap>>

Next ==
  \/ \E n \in 0 .. MaxSize : vector_resize(n)
  \/ \E n \in 0 .. MaxReserve : vector_reserve(n)
  \/ vector_clear
  \/ vector_destroy
  \/ vector_pop_back
  \/ \E p \in 0 .. MaxSize - 1 :
       \/ vector_erase(p)
       \/ \E e \in Elems : vector_set(p, e)
       \/ size < MaxSize /\ \E e \in Elems : vector_insert(p, e)
  \/ size < MaxSize /\ \E e \in Elems : vector_push_back(e)

Spec == Init /\ [][Next]_vars

-----------------------------------------------------------------------------
(* Properties.                                                             *)

\* What a caller sees.
Contents == [i \in 1 .. vector_size |-> heap[vector_get(i - 1)]]

\* Every variable has its type: the array has as many slots as the capacity says.
TypeOK ==
  /\ size \in 0 .. MaxSize
  /\ capacity \in Nat
  /\ status \in {"alive", "destroyed", "misuse", "overread"}
  /\ status # "destroyed" => array \in [0 .. capacity - 1 -> Objects \union {0}]
  /\ heap \in [Objects \union {0} -> Elems \union {Default, Freed}]

\* After any sequence of calls every element is an allocated object and no two
\* slots share one, so no call ever frees an object twice or copies a freed one
\* (vector.c: the shifting loops of vector_insert and vector_erase, the
\* destructors of resize, clear and pop_back).
ObjectsOwned ==
  /\ TypeOK
  /\ status # "misuse"
  /\ status = "alive" =>
       /\ \A i \in 0 .. size - 1 : heap[vector_get(i)] # Freed
       /\ \A i, j \in 0 .. size - 1 : i # j => vector_get(i) # vector_get(j)

\* Seen as a sequence of values, each call does what its name says: the shifting
\* loops neither lose, double nor reorder an element, at either end, across a
\* reallocation and whatever lay in the slots behind the last element.
CallsRight ==
  [][vars' # vars /\ status' = "alive" =>
       /\ \A e \in Elems :
            /\ vector_push_back(e) => Contents' = Append(Contents, e)
            /\ \A p \in 0 .. size : vector_insert(p, e) => Contents' = InsertAt(Contents, p + 1, e)
            /\ \A p \in 0 .. size - 1 : vector_set(p, e) => Contents' = ReplaceAt(Contents, p + 1, e)
       /\ \A p \in 0 .. size - 1 : vector_erase(p) => Contents' = RemoveAt(Contents, p + 1)
       /\ vector_pop_back => Contents' = Front(Contents)
       /\ \A n \in 0 .. MaxSize :
            vector_resize(n) =>
              Contents' = [i \in 1 .. n |-> IF i <= size THEN Contents[i] ELSE Default]
       /\ \A n \in 0 .. MaxReserve : vector_reserve(n) => Contents' = Contents]_vars
=============================================================================
