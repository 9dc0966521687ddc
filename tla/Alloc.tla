-------------------------------- MODULE Alloc --------------------------------
(***************************************************************************)
(* The allocator of malloc/alloc.c: malloc, calloc, realloc and free over  *)
(* a chain of headers, the highest block first, in memory got from sbrk.   *)
(* The allocator is sequential, a call is one action.                      *)
(*                                                                         *)
(* The chain is the list that starts at `head`; a block has the address of *)
(* its header, the size of its payload, which follows the header, and      *)
(* whether it is free.  prev, which nothing reads, and ptr, which is       *)
(* always the address behind the header, are left out.                     *)
(***************************************************************************)
EXTENDS Integers, Sequences, SequencesExt, FiniteSetsExt

CONSTANTS META,          \* sizeof(meta_data)
          RequestSizes,  \* what callers ask malloc and realloc for
          Counts,        \* calloc's first argument
          SIZE_MAX,      \* largest size_t
          HeapLimit,     \* sbrk fails beyond this address
          MaxHeapCalls   \* bound on the calls made

ASSUME AllocAssumption ==
  /\ META \in Nat \ {0} /\ SIZE_MAX \in Nat /\ HeapLimit \in Nat
  /\ RequestSizes \subseteq Nat /\ Counts \subseteq Nat

VARIABLES mem,   \* [chain, brk, total_free_blocks, holed, status]
          held,  \* history: [at, want] of what callers were given and hold
          heap_calls

alloc_vars == <<mem, held, heap_calls>>

NoBlock == 0   \* NULL; the heap starts at address 1

AllocInit ==
  /\ mem = [chain |-> <<>>, brk |-> 1, total_free_blocks |-> 0,
            holed |-> FALSE, status |-> "ordered"]
  /\ held = {} /\ heap_calls = 0

Payload(b) == b.at + META
End(b) == b.at + META + b.size

-----------------------------------------------------------------------------
(* find_fit *)

Fits(c, k, n) == c[k].free /\ c[k].size >= n

\* Two neighbours, the first test strict, the second not; or three.
MergesTwo(c, k, n) ==
  /\ k > 1 /\ c[k - 1].free /\ c[k].free
  /\ n < c[k - 1].size + c[k].size + META
MergesThree(c, k, n) ==
  /\ k > 2 /\ c[k - 2].free /\ c[k - 1].free /\ c[k].free
  /\ n <= c[k - 2].size + c[k - 1].size + c[k].size + 2 * META

\* The upper part of block b becomes a block of its own.
set_newblk(b, n) ==
  [at |-> b.at + META + n, size |-> b.size - n - META, free |-> TRUE]

\* The new block goes before its remainder in the chain: it becomes the head,
\* or it is linked from the header found right above block k.  Where a failed
\* sbrk left a hole, that is not the block before it, and the new one is lost.
SplitAbove(m, k, n) ==
  LET b     == m.chain[k]
      below == [b EXCEPT !.size = n, !.free = FALSE]
      linked == k = 1 \/ m.chain[k - 1].at = End(b)
  IN  [m EXCEPT !.chain = SubSeq(@, 1, k - 1)
                            \o (IF linked THEN <<set_newblk(b, n), below>> ELSE <<below>>)
                            \o SubSeq(@, k + 1, Len(@)),
                !.total_free_blocks = @ + 1]

\* Block k takes in the j blocks before it, one or two.
help_merge(m, k, j) ==
  LET third == IF j = 2 THEN m.chain[k - 2].size + META ELSE 0
      whole == [m.chain[k] EXCEPT !.size = @ + m.chain[k - 1].size + META + third,
                                  !.free = FALSE]
  IN  [m EXCEPT !.chain = SubSeq(@, 1, k - j - 1) \o <<whole>> \o SubSeq(@, k + 1, Len(@)),
                !.total_free_blocks = @ - j - 1]

TakeWhole(m, k) ==
  [m EXCEPT !.chain[k].free = FALSE, !.total_free_blocks = @ - 1]

\* The memory after the first block that fits, or can be merged to fit, was
\* taken, and the place of the block in the chain; 0 if there is none.
find_fit(m, n) ==
  LET c == m.chain
      Found == {k \in DOMAIN c : Fits(c, k, n) \/ MergesTwo(c, k, n) \/ MergesThree(c, k, n)}
      k == Min(Found)
      At(r) == CHOOSE i \in DOMAIN r.chain : r.chain[i].at = c[k].at
      Taken == IF Fits(c, k, n)
                 THEN IF c[k].size > n + META THEN SplitAbove(m, k, n) ELSE TakeWhole(m, k)
                 ELSE help_merge(m, k, IF MergesTwo(c, k, n) THEN 1 ELSE 2)
  IN  IF m.total_free_blocks = 0 \/ Found = {} THEN [mem |-> m, k |-> 0]
      ELSE [mem |-> Taken, k |-> At(Taken)]

-----------------------------------------------------------------------------
(* malloc and free as functions of the memory *)

\* What malloc splits off itself is linked behind the lower part: from here
\* on the chain is no longer in the order of addresses.
split_helper(m, k, n) ==
  LET b == m.chain[k] IN
  [m EXCEPT !.chain = SubSeq(@, 1, k - 1)
                        \o <<[b EXCEPT !.size = n], set_newblk(b, n)>>
                        \o SubSeq(@, k + 1, Len(@)),
            !.total_free_blocks = @ - 1, !.status = "disordered"]

\* New memory.  Without room for a header the failed sbrk is written to.
Extend(m, n) ==
  IF m.brk + META > HeapLimit
    THEN [mem |-> [m EXCEPT !.status = "crashed"], ptr |-> NoBlock]
  ELSE IF m.brk + META + n > HeapLimit
    THEN [mem |-> [m EXCEPT !.brk = @ + META, !.holed = TRUE], ptr |-> NoBlock]
  ELSE LET b == [at |-> m.brk, size |-> n, free |-> FALSE]
       IN  [mem |-> [m EXCEPT !.chain = <<b>> \o @, !.brk = End(b)], ptr |-> Payload(b)]

Malloc(m, n) ==
  LET fit == find_fit(m, n)
      b   == fit.mem.chain[fit.k]
      spare == b.size - n
  IN  IF n = 0 THEN [mem |-> m, ptr |-> NoBlock]
      ELSE IF fit.k = 0 THEN Extend(m, n)
      ELSE [mem |-> IF spare > META /\ spare > 2 * n THEN split_helper(fit.mem, fit.k, n)
                                                     ELSE fit.mem,
            ptr |-> Payload(b)]

\* Slip: a freed block is not counted.
Slip_FreeUncounted(m, p) ==
  [m EXCEPT !.chain = [k \in DOMAIN @ |->
      IF Payload(@[k]) = p THEN [@[k] EXCEPT !.free = TRUE] ELSE @[k]]]

\* The merge with the block below compares the flag with 1 where it is '1' or
\* '0', and never happens.
Release(m, p) ==
  [m EXCEPT !.chain = [k \in DOMAIN @ |->
                         IF Payload(@[k]) = p THEN [@[k] EXCEPT !.free = TRUE] ELSE @[k]],
            !.total_free_blocks = @ + 1]

-----------------------------------------------------------------------------
(* The calls; callers pass NULL or what they hold *)

Working == mem.status = "ordered"
Called == Working /\ heap_calls < MaxHeapCalls /\ heap_calls' = heap_calls + 1
Blocks == Range(mem.chain)
BlockOf(h) == CHOOSE b \in Blocks : Payload(b) = h.at
Given(p, n) == IF p = NoBlock THEN {} ELSE {[at |-> p, want |-> n]}

malloc(n) ==
  /\ Called
  /\ LET r == Malloc(mem, n) IN mem' = r.mem /\ held' = held \cup Given(r.ptr, n)

\* The product is that of two size_t; the caller wants all of it.
calloc(num, n) ==
  /\ Called
  /\ LET r == Malloc(mem, (num * n) % (SIZE_MAX + 1))
     IN  mem' = r.mem /\ held' = held \cup Given(r.ptr, num * n)

free(h) ==
  /\ Called
  /\ mem' = Release(mem, h.at) /\ held' = held \ {h}

\* A block that is larger than asked for stays; one of just that size moves.
realloc(h, n) ==
  /\ Called
  /\ LET r == Malloc(mem, n) IN
     \/ n = 0 /\ mem' = Release(mem, h.at) /\ held' = held \ {h}
     \/ n > 0 /\ n < BlockOf(h).size /\ UNCHANGED mem
        /\ held' = (held \ {h}) \cup Given(h.at, n)
     \/ /\ n >= BlockOf(h).size
        /\ \/ r.ptr = NoBlock /\ mem' = r.mem /\ UNCHANGED held
           \/ /\ r.ptr # NoBlock
              /\ mem' = Release(r.mem, h.at) /\ held' = (held \ {h}) \cup Given(r.ptr, n)

AllocNext ==
  \/ \E n \in RequestSizes : malloc(n) \/ \E num \in Counts : calloc(num, n)
  \/ \E h \in held : free(h) \/ \E n \in RequestSizes : realloc(h, n)

AllocSpec == AllocInit /\ [][AllocNext]_alloc_vars

-----------------------------------------------------------------------------
(* Properties.  A split in malloc itself (a merge of two small blocks for a
   request so small that the remainder exceeds twice its size, alloc.c:150)
   ends the order the chain relies on; the promises hold until then. *)

\* After splits, merges, moves and a failed sbrk (alloc.c:32-201) no two blocks
\* overlap, none lies beyond the break, and everything a caller holds is a block
\* that is not free and as large as was asked for; calloc excepted where the
\* product does not fit a size_t.  No memory is lost: until an sbrk fails the
\* blocks tile the heap, a block that is not free is held by a caller, and the
\* count of free blocks is never below their number, so that find_fit does not
\* overlook one (alloc.c:75).
HeapSound ==
  Working =>
    /\ \A k \in DOMAIN mem.chain :
         LET limit == IF k = 1 THEN mem.brk ELSE mem.chain[k - 1].at IN
         /\ mem.chain[k].size > 0
         /\ End(mem.chain[k]) <= limit
         /\ ~mem.holed => End(mem.chain[k]) = limit
    /\ \A h \in held : \E b \in Blocks :
         Payload(b) = h.at /\ ~b.free /\ (h.want <= SIZE_MAX => b.size >= h.want)
    /\ Cardinality({b \in Blocks : ~b.free}) = Cardinality(held)
    /\ Cardinality({b \in Blocks : b.free}) <= mem.total_free_blocks
=============================================================================
