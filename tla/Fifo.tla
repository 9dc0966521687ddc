-------------------------------- MODULE Fifo --------------------------------
(***************************************************************************)
(* What a queue promises its callers: the elements come out in the order   *)
(* they went in, each exactly once, and never more than the maximum size   *)
(* are inside.  The steps of the callers are atomic here.                  *)
(***************************************************************************)
EXTENDS Integers, Sequences

CONSTANTS Consumers, Data, MaxSizes, NULL

VARIABLES open,   \* the queue exists
          limit,  \* its maximum size, none if it is not positive
          items,  \* its elements, oldest first
          taken   \* per consumer: an element received but not yet returned

Init == open = FALSE /\ limit = 0 /\ items = <<>> /\ taken = [c \in Consumers |-> NULL]

Open ==
  /\ ~open /\ items = <<>>
  /\ open' = TRUE /\ limit' \in MaxSizes
  /\ UNCHANGED <<items, taken>>

Put(d) ==
  /\ open /\ (limit > 0 => Len(items) < limit)
  /\ items' = Append(items, d)
  /\ UNCHANGED <<open, limit, taken>>

Take(c) ==
  /\ open /\ items # <<>> /\ taken[c] = NULL
  /\ taken' = [taken EXCEPT ![c] = Head(items)] /\ items' = Tail(items)
  /\ UNCHANGED <<open, limit>>

Return(c) ==
  /\ open /\ taken[c] # NULL
  /\ taken' = [taken EXCEPT ![c] = NULL]
  /\ UNCHANGED <<open, limit, items>>

Close ==
  /\ open /\ \A c \in Consumers : taken[c] = NULL
  /\ open' = FALSE /\ UNCHANGED <<limit, items, taken>>

\* Elements left in a queue that is being destroyed are discarded in order.
Discard ==
  /\ ~open /\ items # <<>>
  /\ items' = Tail(items) /\ UNCHANGED <<open, limit, taken>>

Next ==
  \/ Open \/ Close \/ Discard
  \/ \E d \in Data : Put(d)
  \/ \E c \in Consumers : Take(c) \/ Return(c)

Spec == Init /\ [][Next]_<<open, limit, items, taken>>
=============================================================================
