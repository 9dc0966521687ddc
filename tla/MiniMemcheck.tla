---------------------------- MODULE MiniMemcheck ----------------------------
(***************************************************************************)
(* The allocation bookkeeping of mini_memcheck/mini_memcheck.c: a list of  *)
(* the blocks that were not freed, the newest first, and three counters    *)
(* the final report is made from.  A call is one action.                   *)
(*                                                                         *)
(* A block of the list has an address and the size asked for; file names   *)
(* and instruction pointers, only printed, are left out.  malloc and       *)
(* realloc may fail, and hand out any address that is not in use.          *)
(***************************************************************************)
EXTENDS Integers, Sequences, SequencesExt

CONSTANTS Addrs,        \* addresses a block may get
          CheckedSizes, \* the sizes and numbers of elements asked for
          MODULUS,      \* size_t counts modulo this
          MaxRequested, \* bound on the bytes requested in all
          MaxInvalid    \* bound on the invalid addresses passed

ASSUME MemcheckAssumption == MODULUS \in Nat \ {0} /\ CheckedSizes \subseteq Nat

VARIABLES blocks,       \* the list from head on
          total_memory_requested, total_memory_freed, invalid_addresses,
          handed        \* history: address and size of what callers hold

memcheck_vars ==
  <<blocks, total_memory_requested, total_memory_freed, invalid_addresses, handed>>

Wrap(n) == n % MODULUS

MemcheckInit ==
  /\ blocks = <<>> /\ handed = {}
  /\ total_memory_requested = 0 /\ total_memory_freed = 0 /\ invalid_addresses = 0

Unlisted == Addrs \ {b.at : b \in Range(blocks)}
Place(a) == CHOOSE k \in DOMAIN blocks : blocks[k].at = a
Bounded == total_memory_requested < MaxRequested

\* A new block goes to the head of the list.
Listed(n) ==
  \E a \in Unlisted :
    /\ blocks' = <<[at |-> a, request_size |-> n]>> \o blocks
    /\ handed' = handed \cup {[at |-> a, request_size |-> n]}
    /\ total_memory_requested' = Wrap(total_memory_requested + n)
    /\ UNCHANGED <<total_memory_freed, invalid_addresses>>

\* Nothing to allocate, or the allocation failed: NULL is returned.
mini_malloc(n) == Bounded /\ (UNCHANGED memcheck_vars \/ (n > 0 /\ Listed(n)))

\* The product is that of two size_t, and what is listed.
mini_calloc(num, n) ==
  /\ Bounded
  /\ UNCHANGED memcheck_vars \/ (num > 0 /\ n > 0 /\ Listed(Wrap(num * n)))

\* An address that is not in the list is counted.
Invalid ==
  /\ invalid_addresses < MaxInvalid
  /\ invalid_addresses' = invalid_addresses + 1
  /\ UNCHANGED <<blocks, handed, total_memory_requested, total_memory_freed>>

mini_free(a) ==
  \/ a \in Unlisted /\ Invalid
  \/ /\ a \notin Unlisted
     /\ blocks' = RemoveAt(blocks, Place(a))
     /\ handed' = {h \in handed : h.at # a}
     /\ total_memory_freed' = Wrap(total_memory_freed + blocks[Place(a)].request_size)
     /\ UNCHANGED <<total_memory_requested, invalid_addresses>>

\* Slip: a block that grows counts as requested in full.
Slip_GrowthInFull(old, n) ==
  /\ total_memory_requested' = IF old < n THEN Wrap(total_memory_requested + n)
                                          ELSE total_memory_requested
  /\ total_memory_freed' = IF old > n THEN Wrap(total_memory_freed + old - n)
                                      ELSE total_memory_freed

\* Growing counts as requested, shrinking as freed.
Recount(old, n) ==
  /\ total_memory_requested' = IF old < n THEN Wrap(total_memory_requested + n - old)
                                          ELSE total_memory_requested
  /\ total_memory_freed' = IF old > n THEN Wrap(total_memory_freed + old - n)
                                      ELSE total_memory_freed

\* realloc moved the block to b, or left it; its place in the list is kept.
Resized(a, b, n) ==
  /\ blocks' = [blocks EXCEPT ![Place(a)] = [at |-> b, request_size |-> n]]
  /\ handed' = {h \in handed : h.at # a} \cup {[at |-> b, request_size |-> n]}
  /\ Recount(blocks[Place(a)].request_size, n)
  /\ UNCHANGED invalid_addresses

\* With NULL it is mini_malloc, with size 0 mini_free; a realloc that fails
\* leaves everything as it was.
mini_realloc(a, n) ==
  \/ n = 0 /\ mini_free(a)
  \/ n > 0 /\ a \in Unlisted /\ Invalid
  \/ /\ n > 0 /\ a \notin Unlisted /\ Bounded
     /\ UNCHANGED memcheck_vars \/ \E b \in Unlisted \cup {a} : Resized(a, b, n)

MemcheckNext ==
  \E n \in CheckedSizes :
    \/ mini_malloc(n)
    \/ \E num \in CheckedSizes : mini_calloc(num, n)
    \/ \E a \in Addrs : mini_free(a) \/ mini_realloc(a, n)

MemcheckSpec == MemcheckInit /\ [][MemcheckNext]_memcheck_vars

-----------------------------------------------------------------------------
(* Properties *)

\* The report is right at any time: the list holds exactly what callers hold,
\* with the sizes they asked for last, and the bytes requested less the bytes
\* freed are the bytes of the blocks in the list, through growing, shrinking
\* and moving reallocs, failed ones, and frees from the middle of the list
\* (mini_memcheck.c:84-91, 105-113).
Accounted ==
  /\ Range(blocks) = handed /\ IsInjective(blocks)
  /\ \A g, h \in handed : g.at = h.at => g = h
  /\ Wrap(total_memory_requested - total_memory_freed)
       = Wrap(FoldLeft(LAMBDA sum, b : sum + b.request_size, 0, blocks))
=============================================================================
