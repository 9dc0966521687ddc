----------------------------- MODULE QueueList -----------------------------
(***************************************************************************)
(* The linked list of queue.c as a data structure: its shape whenever the  *)
(* mutex is free, who owns each heap cell, and the queue as a first-in     *)
(* first-out buffer (module Fifo).                                         *)
(***************************************************************************)
EXTENDS Queue, Sequences, SequencesExt

\* s is the list that starts at cell h when the cells are linked by nx.
Follows(h, nx, s) ==
  /\ h = IF s = <<>> THEN NULL ELSE s[1]
  /\ \A i \in 1..Len(s) : nx[s[i]] = IF i = Len(s) THEN NULL ELSE s[i + 1]

ChainFrom(h, nx) ==
  CHOOSE s \in SeqOf(Nodes, Cardinality(Nodes)) : Follows(h, nx, s)

\* The nodes reached from head, in order.
Chain == ChainFrom(head, next)

\* With the mutex free, the list has `size` nodes, head and tail are NULL
\* together, and tail is the last node reached from head: the branch of
\* queue_push that trusts tail (queue.c:90) never follows a stale pointer.
ListShape ==
  (q = "live" /\ m = NULL) =>
     /\ Len(Chain) = size
     /\ tail = IF Chain = <<>> THEN NULL ELSE Last(Chain)

\* Every allocated cell is on the list or in the hands of one consumer that
\* has unlinked it and not freed it yet: no cell is freed twice, used after
\* free(node) (queue.c:120), or leaked, not even by queue_destroy.
InHand == {c \in Consumers : node[c] # NULL}

CellOwnership ==
  /\ allocated = ToSet(Chain) \cup {node[c] : c \in InHand}
  /\ \A c \in InHand : node[c] \notin ToSet(Chain)
  /\ \A c, d \in InHand : node[c] = node[d] => c = d

\* The list and its cells survive every interleaving of pushes, pulls and
\* frees outside the mutex: ListShape and CellOwnership.
ListIntact == ListShape /\ CellOwnership /\ SizeInBounds

\* The elements on the list, and those on their way to a caller.
Items == [i \in DOMAIN Chain |-> data[Chain[i]]]
Taken == [c \in Consumers |-> val[c]]

fifo == INSTANCE Fifo WITH
          open  <- q = "live",
          limit <- max_size,
          items <- Items,
          taken <- Taken

\* queue_push and queue_pull implement a first-in first-out buffer: each
\* element pushed is pulled by one consumer only, in the order of the pushes,
\* whatever the interleaving.  (Property of queue.c:75-122.)
ImplementsFifo == fifo!Spec

\* While the queue exists consumers keep returning from queue_pull: waiting
\* on one condition variable woken by pthread_cond_signal does not put
\* everybody to sleep (holds as long as there are at most 2 * max_size
\* threads, or no maximum size).
PullsContinue ==
  <>[](q = "live") =>
     []<><<\E c \in Consumers : PullFree(c)>>_vars
=============================================================================
