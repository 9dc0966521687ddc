---------------------------- MODULE MemoryProofs ----------------------------
(***************************************************************************)
(* Proofs about the programs that manage memory.                           *)
(*                                                                         *)
(* The MMU.  The frames of directories are those in page_directories, and  *)
(* the frames of tables those that entries of directories point to; the    *)
(* kernel's record of a frame (`use`) says the same, and names for a page  *)
(* the entry that points to it (KernelInv).  Between ask_kernel_for_frame  *)
(* and the entry that is made to point to the frame, that frame is loose   *)
(* (LooseInv).  A call reaches its outcome through several such kernels;   *)
(* what is kept from one to the next is that entries of directories stay,  *)
(* and what is in the pages, in a frame or in a swap file (SameTables,     *)
(* SameContents, Grows).  With that, what was stored for a page is what    *)
(* its entry leads to (ContentsInv), and the TLB's pointers are those a    *)
(* walk of the tables finds (TlbInv).                                      *)
(*                                                                         *)
(* The allocator.  Whatever find_fit does, split, take or merge, replaces  *)
(* neighbours in the chain by one or two blocks that fill their place      *)
(* (Spliced, FitsIn): the order of addresses, the blocks in use and the    *)
(* count of free ones follow from that alone (SpliceTakes).  A call        *)
(* obtains a block that nobody had (Obtained), or releases one, and so     *)
(* what callers hold stays the blocks in use (HeldInv).                    *)
(*                                                                         *)
(* The checker.  A call puts a block at the head of the list, takes one    *)
(* out, or changes one in its place.  How that changes the sum of the      *)
(* sizes is proved for partial sums (SumsOf), with the least number at     *)
(* which two ways to sum could differ standing in for induction; the       *)
(* counters follow modulo the width of size_t (Counted).                   *)
(*                                                                         *)
(* The vector.  Inside a call, slots and objects are in a state that Holds *)
(* describes: which slots have objects of their own, with which values,    *)
(* and how many objects there are at most, so that one can still be made.  *)
(* Each loop of vector.c carries Holds from one turn to the next, with the *)
(* first turn that could break it standing in for induction.  When a call  *)
(* ends objects are named after slots again, which gives VecInv back, and  *)
(* the values that are held are those the caller sees (FinishInv).         *)
(*                                                                         *)
(* The file system.  A file that grows gets free blocks that are           *)
(* distinct and those of no file (GrownFrom), because the k-th free block  *)
(* is the one with k - 1 free blocks below it; so a block is in one file,  *)
(* once (BlocksOwned).  A write that begins at a block boundary puts its   *)
(* bytes where a read from a boundary looks for them (CellOf), and where   *)
(* no other position of a file has its byte, which keeps what was written  *)
(* last (BytesKept).                                                       *)
(***************************************************************************)
EXTENDS Vector, Alloc, MiniMemcheck, Mmu, Minixfs,
        FiniteSetTheorems, SequenceTheorems, WellFoundedInduction, TLAPS

-----------------------------------------------------------------------------

\* Every non-empty set of naturals has a least element.
LEMMA Least ==
  ASSUME NEW T, T \subseteq Nat, T # {}
  PROVE  \E x \in T : \A y \in T : x <= y
<1>1. \E R : IsWellFoundedOn(R, Nat) /\ \A m, n \in Nat : m < n => <<m, n>> \in R
  <2>1. \A m, n \in Nat : m < n => <<m, n>> \in OpToRel(<, Nat)
    BY DEF OpToRel
  <2> QED
    BY <2>1, NatLessThanWellFounded, Zenon
<1>2. PICK R : IsWellFoundedOn(R, Nat) /\ \A m, n \in Nat : m < n => <<m, n>> \in R
  BY <1>1
<1>3. \E x \in T : \A y \in T : ~(<<y, x>> \in R)
  <2>1. IsWellFoundedOn(R, Nat)
    BY <1>2
  <2> QED
    BY <2>1, WFMin, Zenon
<1>4. PICK x \in T : \A y \in T : ~(<<y, x>> \in R)
  BY <1>3
<1>5. \A y \in T : ~(y < x)
  BY <1>2, <1>4
<1>6. \A y \in T : x <= y
  BY <1>5
<1> QED
  BY <1>6

LEMMA MinIn == ASSUME NEW S, S \subseteq Nat, S # {} PROVE Min(S) \in S
BY Least DEF Min

-----------------------------------------------------------------------------
(* ideal_indirection/mmu.c *)

Idx == 0 .. NUM_ENTRIES - 1
Uses == {Unused, Pinned} \cup Entries
Contents0 == Values \cup {ZERO}

\* The partial functions from A to B.
Partial(A, B) == UNION {[S -> B] : S \in SUBSET A}

KernelStates ==
  [use : [Frames -> Uses], data : [Frames -> Contents0],
   entry : Partial(Entries, Frames), disk : Partial(Entries, Contents0)]

\* The frames that hold a directory, and those that hold a page table.
IsDir(pd, f) == \E p \in Pids : pd[p] = f
IsTable(k, pd, f) ==
  \E e \in DOMAIN k.entry : IsDir(pd, e[1]) /\ k.entry[e] = f

DirTypes(pd) ==
  /\ pd \in [Pids -> Frames \cup {NULL}]
  /\ \A p, q \in Pids : pd[p] = pd[q] /\ pd[p] # NULL => p = q

\* Entries of directories point to different frames, which are no directories;
\* those of page tables to the page that the kernel would page out for them.
EntriesRight(k, pd) ==
  /\ \A e, d \in DOMAIN k.entry :
       IsDir(pd, e[1]) /\ IsDir(pd, d[1]) /\ k.entry[e] = k.entry[d] => e = d
  /\ \A e \in DOMAIN k.entry : IsDir(pd, e[1]) => ~IsDir(pd, k.entry[e])
  /\ \A e \in DOMAIN k.entry : IsTable(k, pd, e[1]) => k.use[k.entry[e]] = e

\* What frame f is used for is what it is.
UseRight(k, pd, f) ==
  /\ k.use[f] = Pinned <=> IsDir(pd, f) \/ IsTable(k, pd, f)
  /\ k.use[f] \in Entries =>
       k.use[f] \in DOMAIN k.entry /\ k.entry[k.use[f]] = f /\ IsTable(k, pd, k.use[f][1])

\* The kernel's state, but for frame f, which was given out and is not used yet.
LooseInv(k, pd, f) ==
  /\ k \in KernelStates /\ DirTypes(pd) /\ EntriesRight(k, pd)
  /\ \A h \in Frames \ {f} : UseRight(k, pd, h)
  /\ \A e \in DOMAIN k.disk : IsTable(k, pd, e[1])
  /\ f \in Frames /\ ~IsDir(pd, f) /\ ~IsTable(k, pd, f)
  /\ \A e \in DOMAIN k.entry : e[1] # f

KernelInv(k, pd) ==
  /\ k \in KernelStates /\ DirTypes(pd) /\ EntriesRight(k, pd)
  /\ \A h \in Frames : UseRight(k, pd, h)
  /\ \A e \in DOMAIN k.disk : IsTable(k, pd, e[1])

\* What is in the page of a table's entry: in its frame, or in its swap file.
Content(k, e) ==
  IF e \in DOMAIN k.entry THEN k.data[k.entry[e]]
  ELSE IF e \in DOMAIN k.disk THEN k.disk[e] ELSE ZERO

\* The directory entry for page v.
PdeIn(pd, p, v) == <<pd[p], DirectoryIndex(v)>>
Translatable(pd, p, v) == pd[p] # NULL /\ DirectoryIndex(v) < NUM_ENTRIES

ContentsInv(k, pd, st) ==
  \A p \in Pids, v \in Pages :
    /\ pd[p] = NULL => st[p][v] = ZERO
    /\ Translatable(pd, p, v) =>
         st[p][v] = IF PdeIn(pd, p, v) \in DOMAIN k.entry
                    THEN Content(k, <<k.entry[PdeIn(pd, p, v)], TableIndex(v)>>) ELSE ZERO

\* The TLB translates for process c, which exists if it does so.
TlbInv(k, pd, c, t) ==
  \A v \in DOMAIN t :
    /\ v \in Pages /\ Translatable(pd, c, v)
    /\ PdeIn(pd, c, v) \in DOMAIN k.entry
    /\ t[v] = <<k.entry[PdeIn(pd, c, v)], TableIndex(v)>>

MmuInv ==
  /\ curr_pid \in Pids /\ stored \in [Pids -> [Pages -> Contents0]]
  /\ KernelInv(kernel, page_directories)
  /\ ContentsInv(kernel, page_directories, stored)
  /\ TlbInv(kernel, page_directories, curr_pid, tlb)

-----------------------------------------------------------------------------
(* The operators *)

LEMMA PartialType ==
  ASSUME NEW A, NEW B, NEW f \in Partial(A, B)
  PROVE  DOMAIN f \subseteq A /\ \A x \in DOMAIN f : f[x] \in B
BY DEF Partial

LEMMA EnteredEffect ==
  ASSUME NEW A, NEW B, NEW f, f \in Partial(A, B), NEW x \in A, NEW y \in B
  PROVE  /\ Entered(f, x, y) \in Partial(A, B) /\ Entered(f, x, y)[x] = y
         /\ \A z : z \in DOMAIN Entered(f, x, y) <=> z \in DOMAIN f \/ z = x
         /\ \A z \in DOMAIN f : z # x => Entered(f, x, y)[z] = f[z]
<1>1. DOMAIN f \cup {x} \in SUBSET A /\ \A z \in DOMAIN f : f[z] \in B
  BY PartialType
<1>2. Entered(f, x, y) \in [DOMAIN f \cup {x} -> B]
  BY <1>1 DEF Entered
<1> QED
  BY <1>1, <1>2 DEF Entered, Partial

LEMMA WithoutEffect ==
  ASSUME NEW A, NEW B, NEW f, f \in Partial(A, B), NEW S
  PROVE  /\ Without(f, S) \in Partial(A, B)
         /\ \A z : z \in DOMAIN Without(f, S) <=> z \in DOMAIN f /\ z \notin S
         /\ \A z \in DOMAIN f : z \notin S => Without(f, S)[z] = f[z]
<1>1. DOMAIN f \ S \in SUBSET A /\ \A z \in DOMAIN f : f[z] \in B
  BY PartialType
<1>2. Without(f, S) \in [DOMAIN f \ S -> B]
  BY <1>1 DEF Without, Restrict
<1> QED
  BY <1>1, <1>2 DEF Without, Restrict, Partial

LEMMA KernelType ==
  ASSUME NEW k \in KernelStates
  PROVE  /\ k.use \in [Frames -> Uses] /\ k.data \in [Frames -> Contents0]
         /\ k.entry \in Partial(Entries, Frames) /\ k.disk \in Partial(Entries, Contents0)
         /\ \A e \in DOMAIN k.entry : e \in Entries /\ k.entry[e] \in Frames
         /\ \A e \in DOMAIN k.disk : e \in Entries /\ k.disk[e] \in Contents0
<1>1. /\ k.use \in [Frames -> Uses] /\ k.data \in [Frames -> Contents0]
      /\ k.entry \in Partial(Entries, Frames) /\ k.disk \in Partial(Entries, Contents0)
  BY DEF KernelStates
<1> QED
  BY <1>1, PartialType

LEMMA EntryType ==
  ASSUME NEW e \in Entries
  PROVE  e[1] \in Frames /\ e[2] \in Idx /\ e = <<e[1], e[2]>> /\ e \notin {Unused, Pinned}
BY MmuAssumption DEF Entries, Idx

LEMMA GiveEffect ==
  ASSUME NEW k \in KernelStates, NEW f \in Frames, NEW for \in Uses
  PROVE  LET r == Give(k, f, for) IN
         /\ r \in KernelStates /\ r.use = [k.use EXCEPT ![f] = for]
         /\ r.data = [k.data EXCEPT ![f] = ZERO] /\ r.disk = k.disk
         /\ \A e : e \in DOMAIN r.entry <=> e \in DOMAIN k.entry /\ e[1] # f
         /\ \A e \in DOMAIN r.entry : r.entry[e] = k.entry[e]
<1>t. k.entry \in Partial(Entries, Frames) /\ k.disk \in Partial(Entries, Contents0)
  BY KernelType
<1> DEFINE S == {f} \X (0 .. NUM_ENTRIES - 1)
<1> DEFINE w == Without(k.entry, S)
<1>0. Give(k, f, for) = [k EXCEPT !.use[f] = for, !.data[f] = ZERO, !.entry = w]
  BY DEF Give
<1> HIDE DEF w
<1>1. Give(k, f, for) = [use   |-> [k.use EXCEPT ![f] = for], data |-> [k.data EXCEPT ![f] = ZERO],
                        entry |-> w, disk |-> k.disk]
  BY <1>0 DEF KernelStates
<1> USE DEF w
<1>2. ZERO \in Contents0
  BY DEF Contents0
<1>3. Without(k.entry, S) \in Partial(Entries, Frames) /\ (\A z : z \in DOMAIN Without(k.entry, S) <=> z \in DOMAIN k.entry /\ z \notin S)
      /\ \A z \in DOMAIN k.entry : z \notin S => Without(k.entry, S)[z] = k.entry[z]
  BY <1>t, WithoutEffect
<1>4. \A e \in DOMAIN k.entry : e \in S <=> e[1] = f
  BY KernelType, EntryType DEF Idx
<1> HIDE DEF S
<1>5. Give(k, f, for) \in KernelStates
  BY <1>1, <1>2, <1>3, KernelType DEF KernelStates
<1> QED
  BY <1>1, <1>3, <1>4, <1>5

LEMMA EvictEffect ==
  ASSUME NEW k \in KernelStates, NEW f \in Frames, k.use[f] \in Entries
  PROVE  LET r == Evict(k, f) IN
         /\ r \in KernelStates /\ r.use = k.use /\ r.data = k.data
         /\ \A e : e \in DOMAIN r.entry <=> e \in DOMAIN k.entry /\ e # k.use[f]
         /\ \A e \in DOMAIN r.entry : r.entry[e] = k.entry[e]
         /\ \A e : e \in DOMAIN r.disk <=> e \in DOMAIN k.disk \/ e = k.use[f]
         /\ r.disk[k.use[f]] = k.data[f]
         /\ \A e \in DOMAIN k.disk : e # k.use[f] => r.disk[e] = k.disk[e]
<1>t. k.entry \in Partial(Entries, Frames) /\ k.disk \in Partial(Entries, Contents0)
  BY KernelType
<1> DEFINE w == Without(k.entry, {k.use[f]})
           d == Entered(k.disk, k.use[f], k.data[f])
<1>0. Evict(k, f) = [k EXCEPT !.disk = d, !.entry = w]
  BY DEF Evict
<1> HIDE DEF w, d
<1>1. Evict(k, f) = [use |-> k.use, data |-> k.data, entry |-> w, disk |-> d]
  BY <1>0 DEF KernelStates
<1> USE DEF w, d
<1>2. /\ Without(k.entry, {k.use[f]}) \in Partial(Entries, Frames)
      /\ \A z : z \in DOMAIN Without(k.entry, {k.use[f]}) <=> z \in DOMAIN k.entry /\ z \notin {k.use[f]}
      /\ \A z \in DOMAIN k.entry : z \notin {k.use[f]} => Without(k.entry, {k.use[f]})[z] = k.entry[z]
  BY <1>t, WithoutEffect
<1>3. k.disk \in Partial(Entries, Contents0) /\ k.data[f] \in Contents0
  BY KernelType
<1>4. /\ Entered(k.disk, k.use[f], k.data[f]) \in Partial(Entries, Contents0)
      /\ \A z : z \in DOMAIN Entered(k.disk, k.use[f], k.data[f]) <=> z \in DOMAIN k.disk \/ z = k.use[f]
      /\ Entered(k.disk, k.use[f], k.data[f])[k.use[f]] = k.data[f]
      /\ \A z \in DOMAIN k.disk : z # k.use[f] => Entered(k.disk, k.use[f], k.data[f])[z] = k.disk[z]
  BY <1>3, EnteredEffect
<1>5. Evict(k, f) \in KernelStates
  BY <1>1, <1>2, <1>4, KernelType DEF KernelStates
<1> QED
  BY <1>1, <1>2, <1>4, <1>5

LEMMA PointEffect ==
  ASSUME NEW k \in KernelStates, NEW e \in Entries, NEW f \in Frames
  PROVE  LET r == Point(k, e, f) IN
         /\ r \in KernelStates /\ r.use = k.use /\ r.data = k.data /\ r.disk = k.disk
         /\ (\A d : d \in DOMAIN r.entry <=> d \in DOMAIN k.entry \/ d = e) /\ r.entry[e] = f
         /\ \A d \in DOMAIN k.entry : d # e => r.entry[d] = k.entry[d]
<1>t. k.entry \in Partial(Entries, Frames) /\ k.disk \in Partial(Entries, Contents0)
  BY KernelType
<1>1. Point(k, e, f) = [use |-> k.use, data |-> k.data, entry |-> Entered(k.entry, e, f), disk |-> k.disk]
  BY DEF Point, KernelStates
<1>2. /\ Entered(k.entry, e, f) \in Partial(Entries, Frames)
      /\ \A z : z \in DOMAIN Entered(k.entry, e, f) <=> z \in DOMAIN k.entry \/ z = e
      /\ Entered(k.entry, e, f)[e] = f
      /\ \A z \in DOMAIN k.entry : z # e => Entered(k.entry, e, f)[z] = k.entry[z]
  BY <1>t, EnteredEffect
<1>3. Point(k, e, f) \in KernelStates
  BY <1>1, <1>2, KernelType DEF KernelStates
<1> QED
  BY <1>1, <1>2, <1>3

\* The kernel's frame for an entry: one that was not in use, or one that held
\* a page, whose content is in the swap file then.
LEMMA AskEffect ==
  ASSUME NEW k \in KernelStates, NEW for \in Uses \ {Unused}, NEW r \in ask_kernel_for_frame(k, for)
  PROVE  /\ r.f \in Frames /\ k.use[r.f] # Pinned
         /\ r.k \in KernelStates /\ r.k.use = [k.use EXCEPT ![r.f] = for]
         /\ r.k.data = [k.data EXCEPT ![r.f] = ZERO]
         /\ \A e : e \in DOMAIN r.k.entry <=> e \in DOMAIN k.entry /\ e[1] # r.f /\ e # k.use[r.f]
         /\ \A e \in DOMAIN r.k.entry : r.k.entry[e] = k.entry[e]
         /\ \A e : e \in DOMAIN r.k.disk <=>
                     e \in DOMAIN k.disk \/ (e = k.use[r.f] /\ k.use[r.f] \in Entries)
         /\ \A e \in DOMAIN r.k.disk :
              r.k.disk[e] = IF e = k.use[r.f] THEN k.data[r.f] ELSE k.disk[e]
<1> DEFINE unused == {f \in Frames : k.use[f] = Unused}
<1>1. CASE unused # {}
  <2>1. r = [k |-> Give(k, Min(unused), for), f |-> Min(unused)]
    BY <1>1 DEF ask_kernel_for_frame
  <2>2. unused \subseteq Nat
    BY DEF Frames
  <2>3. Min(unused) \in unused
    BY <1>1, <2>2, MinIn
  <2>4. r.f \in Frames /\ k.use[r.f] = Unused /\ r.k = Give(k, r.f, for)
    BY <2>1, <2>3
  <2>5. \A e \in DOMAIN k.entry : e # Unused
    BY KernelType, EntryType
  <2>6. \A e \in DOMAIN k.disk : e # Unused
    BY KernelType, EntryType
  <2>7. Unused \notin Entries /\ Unused # Pinned
    BY MmuAssumption
  <2> QED
    BY <2>4, <2>5, <2>6, <2>7, GiveEffect
<1>2. CASE unused = {}
  <2>1. PICK f \in {h \in Frames : k.use[h] \notin {Unused, Pinned}} :
          r = [k |-> Give(Evict(k, f), f, for), f |-> f]
    BY <1>2 DEF ask_kernel_for_frame
  <2>2. r.f = f /\ r.k = Give(Evict(k, f), f, for) /\ f \in Frames /\ k.use[f] \notin {Unused, Pinned}
    BY <2>1
  <2>3. k.use[f] \in Entries
    BY <2>2, KernelType DEF Uses
  <2>4. Evict(k, f) \in KernelStates
    BY <2>2, <2>3, EvictEffect
  <2> DEFINE m == Evict(k, f)
  <2>5. /\ m \in KernelStates /\ m.use = k.use /\ m.data = k.data
        /\ \A e : e \in DOMAIN m.entry <=> e \in DOMAIN k.entry /\ e # k.use[f]
        /\ \A e \in DOMAIN m.entry : m.entry[e] = k.entry[e]
        /\ \A e : e \in DOMAIN m.disk <=> e \in DOMAIN k.disk \/ e = k.use[f]
        /\ m.disk[k.use[f]] = k.data[f]
        /\ \A e \in DOMAIN k.disk : e # k.use[f] => m.disk[e] = k.disk[e]
    BY <2>2, <2>3, EvictEffect
  <2> HIDE DEF m
  <2>6. /\ r.k \in KernelStates /\ r.k.use = [m.use EXCEPT ![f] = for]
        /\ r.k.data = [m.data EXCEPT ![f] = ZERO] /\ r.k.disk = m.disk
        /\ \A e : e \in DOMAIN r.k.entry <=> e \in DOMAIN m.entry /\ e[1] # f
        /\ \A e \in DOMAIN r.k.entry : r.k.entry[e] = m.entry[e]
    BY <2>2, <2>5, GiveEffect DEF m
  <2> QED
    BY <2>2, <2>3, <2>5, <2>6
<1> QED
  BY <1>1, <1>2

\* The entries of directories, and what the entries of tables lead to, are the
\* same in k and r.
SameTables(k, r, pd) ==
  \A e : IsDir(pd, e[1]) =>
     /\ e \in DOMAIN r.entry <=> e \in DOMAIN k.entry
     /\ e \in DOMAIN k.entry => r.entry[e] = k.entry[e]

SameContents(k, r, pd) == \A e : IsTable(k, pd, e[1]) => Content(r, e) = Content(k, e)

LEMMA TablesSame ==
  ASSUME NEW k, NEW r, NEW pd, SameTables(k, r, pd)
  PROVE  \A f : IsTable(r, pd, f) <=> IsTable(k, pd, f)
BY DEF SameTables, IsTable

\* A frame is given out.
LEMMA AskLoose ==
  ASSUME NEW k, NEW pd, KernelInv(k, pd), NEW for \in Uses \ {Unused},
         NEW r \in ask_kernel_for_frame(k, for)
  PROVE  /\ LooseInv(r.k, pd, r.f) /\ r.k.use[r.f] = for /\ r.k.data[r.f] = ZERO
         /\ SameTables(k, r.k, pd) /\ SameContents(k, r.k, pd)
         /\ \A e : e \in DOMAIN r.k.entry => e \in DOMAIN k.entry
         /\ \A e : e \in DOMAIN r.k.disk => e \in DOMAIN k.disk \/ e \in DOMAIN k.entry
<1> DEFINE f == r.f
           n == r.k
           u == k.use[f]
<1>k. k \in KernelStates /\ DirTypes(pd) /\ EntriesRight(k, pd) /\ (\A h \in Frames : UseRight(k, pd, h))
      /\ \A e \in DOMAIN k.disk : IsTable(k, pd, e[1])
  BY DEF KernelInv
<1>1. /\ f \in Frames /\ u # Pinned
      /\ n \in KernelStates /\ n.use = [k.use EXCEPT ![f] = for]
      /\ n.data = [k.data EXCEPT ![f] = ZERO]
      /\ \A e : e \in DOMAIN n.entry <=> e \in DOMAIN k.entry /\ e[1] # f /\ e # u
      /\ \A e \in DOMAIN n.entry : n.entry[e] = k.entry[e]
      /\ \A e : e \in DOMAIN n.disk <=> e \in DOMAIN k.disk \/ (e = u /\ u \in Entries)
      /\ \A e \in DOMAIN n.disk : n.disk[e] = IF e = u THEN k.data[f] ELSE k.disk[e]
  BY <1>k, AskEffect
<1> HIDE DEF f, n
<1>t. /\ k.use \in [Frames -> Uses] /\ k.data \in [Frames -> Contents0]
      /\ \A e \in DOMAIN k.entry : e \in Entries /\ k.entry[e] \in Frames
      /\ \A e \in DOMAIN k.disk : e \in Entries
  BY <1>k, KernelType
<1>2. ~IsDir(pd, f) /\ ~IsTable(k, pd, f)
  BY <1>k, <1>1 DEF UseRight
<1>3. u \in Entries => u \in DOMAIN k.entry /\ k.entry[u] = f /\ IsTable(k, pd, u[1])
  BY <1>k, <1>1 DEF UseRight
<1> HIDE DEF u
<1>4. \A h : IsTable(k, pd, h) => ~IsDir(pd, h)
  BY <1>k DEF EntriesRight, IsTable
<1>5. SameTables(k, n, pd)
  <2> SUFFICES ASSUME NEW e, IsDir(pd, e[1]), e \in DOMAIN k.entry PROVE e \in DOMAIN n.entry
    BY <1>1 DEF SameTables
  <2>1. e[1] # f
    BY <1>2
  <2>2. e # u
    BY <1>3, <1>4, <1>t
  <2> QED
    BY <2>1, <2>2, <1>1
<1>6. \A h : IsTable(n, pd, h) <=> IsTable(k, pd, h)
  BY <1>5, TablesSame
<1>7. \A e \in DOMAIN n.entry : e \in DOMAIN k.entry /\ n.entry[e] = k.entry[e]
  BY <1>1
<1>8. \A e \in DOMAIN k.entry : IsTable(k, pd, e[1]) /\ e # u =>
         e \in DOMAIN n.entry /\ k.use[k.entry[e]] = e /\ k.entry[e] # f /\ n.use[k.entry[e]] = e
  <2> SUFFICES ASSUME NEW e \in DOMAIN k.entry, IsTable(k, pd, e[1]), e # u
               PROVE  e \in DOMAIN n.entry /\ k.use[k.entry[e]] = e /\ k.entry[e] # f /\ n.use[k.entry[e]] = e
    OBVIOUS
  <2>1. k.use[k.entry[e]] = e
    BY <1>k DEF EntriesRight
  <2>2. k.entry[e] # f
    BY <2>1 DEF u
  <2>3. e \in DOMAIN n.entry
    BY <1>1, <1>2
  <2> QED
    BY <2>1, <2>2, <2>3, <1>1, <1>t
<1>9. EntriesRight(n, pd)
  <2>1. \A e, d \in DOMAIN n.entry :
          IsDir(pd, e[1]) /\ IsDir(pd, d[1]) /\ n.entry[e] = n.entry[d] => e = d
    BY <1>k, <1>7 DEF EntriesRight
  <2>2. \A e \in DOMAIN n.entry : IsDir(pd, e[1]) => ~IsDir(pd, n.entry[e])
    BY <1>k, <1>7 DEF EntriesRight
  <2>3. \A e \in DOMAIN n.entry : IsTable(n, pd, e[1]) => n.use[n.entry[e]] = e
    BY <1>6, <1>7, <1>8, <1>1
  <2> QED
    BY <2>1, <2>2, <2>3 DEF EntriesRight
<1>10. ASSUME NEW h \in Frames \ {f} PROVE UseRight(n, pd, h)
  <2>1. n.use[h] = k.use[h] /\ UseRight(k, pd, h)
    BY <1>k, <1>1, <1>t
  <2>2. n.use[h] = Pinned <=> IsDir(pd, h) \/ IsTable(n, pd, h)
    BY <2>1, <1>6 DEF UseRight
  <2>3. ASSUME n.use[h] \in Entries
        PROVE  n.use[h] \in DOMAIN n.entry /\ n.entry[n.use[h]] = h /\ IsTable(n, pd, n.use[h][1])
    <3> DEFINE e == k.use[h]
    <3>1. e \in DOMAIN k.entry /\ k.entry[e] = h /\ IsTable(k, pd, e[1])
      BY <2>1, <2>3 DEF UseRight
    <3>2. e # u
      BY <3>1, <1>3, <2>1, <2>3
    <3>3. e \in DOMAIN n.entry
      BY <3>1, <3>2, <1>8
    <3> QED
      BY <3>1, <3>3, <2>1, <1>1, <1>6
  <2> QED
    BY <2>2, <2>3 DEF UseRight
<1>11. \A e \in DOMAIN n.disk : IsTable(n, pd, e[1])
  BY <1>k, <1>1, <1>3, <1>6
<1>12. ~IsTable(n, pd, f) /\ \A e \in DOMAIN n.entry : e[1] # f
  BY <1>1, <1>2, <1>6
<1>13. SameContents(k, n, pd)
  <2> SUFFICES ASSUME NEW e, IsTable(k, pd, e[1]) PROVE Content(n, e) = Content(k, e)
    BY DEF SameContents
  <2>1. CASE e \in DOMAIN k.entry /\ e # u
    <3>1. e \in DOMAIN n.entry /\ n.entry[e] = k.entry[e] /\ k.entry[e] # f
      BY <2>1, <1>8, <1>1
    <3>2. n.data[k.entry[e]] = k.data[k.entry[e]]
      BY <3>1, <2>1, <1>1, <1>t
    <3> QED
      BY <3>1, <3>2, <2>1 DEF Content
  <2>2. CASE e \in DOMAIN k.entry /\ e = u
    <3>1. e \in Entries /\ k.entry[e] = f
      BY <2>2, <1>t, <1>3
    <3>2. e \notin DOMAIN n.entry /\ e \in DOMAIN n.disk /\ n.disk[e] = k.data[f]
      BY <2>2, <3>1, <1>1
    <3> QED
      BY <3>1, <3>2, <2>2 DEF Content
  <2>3. CASE e \notin DOMAIN k.entry
    <3>1. e \notin DOMAIN n.entry
      BY <2>3, <1>1
    <3>2. ~(e = u /\ u \in Entries)
      BY <2>3, <1>3
    <3>3. e \in DOMAIN n.disk <=> e \in DOMAIN k.disk
      BY <3>2, <1>1
    <3>4. e \in DOMAIN k.disk => n.disk[e] = k.disk[e]
      BY <3>2, <3>3, <1>1, <1>t
    <3> QED
      BY <3>1, <3>3, <3>4, <2>3 DEF Content
  <2> QED
    BY <2>1, <2>2, <2>3
<1>14. LooseInv(n, pd, f)
  BY <1>k, <1>1, <1>2, <1>9, <1>10, <1>11, <1>12 DEF LooseInv
<1>15. n.use[f] = for /\ n.data[f] = ZERO
  BY <1>1, <1>t
<1>16. \A e : e \in DOMAIN n.disk => e \in DOMAIN k.disk \/ e \in DOMAIN k.entry
  BY <1>1, <1>3
<1> QED
  BY <1>5, <1>7, <1>13, <1>14, <1>15, <1>16 DEF f, n

LEMMA LooseFacts ==
  ASSUME NEW k, NEW pd, NEW f, LooseInv(k, pd, f)
  PROVE  /\ k \in KernelStates /\ DirTypes(pd) /\ EntriesRight(k, pd) /\ f \in Frames
         /\ \A h \in Frames \ {f} : UseRight(k, pd, h)
         /\ \A e \in DOMAIN k.disk : IsTable(k, pd, e[1])
         /\ ~IsDir(pd, f) /\ ~IsTable(k, pd, f)
         /\ \A e \in DOMAIN k.entry : e[1] # f
         /\ k.use \in [Frames -> Uses] /\ k.data \in [Frames -> Contents0]
         /\ \A e \in DOMAIN k.entry : e \in Entries /\ k.entry[e] \in Frames /\ e[1] \in Frames
         /\ \A e \in DOMAIN k.entry : IsDir(pd, e[1]) => k.entry[e] # f
         /\ \A e \in DOMAIN k.disk : e \in Entries
         /\ \A h : IsTable(k, pd, h) => ~IsDir(pd, h)
<1>1. /\ k \in KernelStates /\ DirTypes(pd) /\ EntriesRight(k, pd) /\ f \in Frames
      /\ \A h \in Frames \ {f} : UseRight(k, pd, h)
      /\ \A e \in DOMAIN k.disk : IsTable(k, pd, e[1])
      /\ ~IsDir(pd, f) /\ ~IsTable(k, pd, f)
      /\ \A e \in DOMAIN k.entry : e[1] # f
  BY DEF LooseInv
<1>2. /\ k.use \in [Frames -> Uses] /\ k.data \in [Frames -> Contents0]
      /\ \A e \in DOMAIN k.entry : e \in Entries /\ k.entry[e] \in Frames
      /\ \A e \in DOMAIN k.disk : e \in Entries
  BY <1>1, KernelType
<1>3. \A e \in DOMAIN k.entry : IsDir(pd, e[1]) => k.entry[e] # f
  BY <1>1 DEF IsTable
<1>4. \A h : IsTable(k, pd, h) => ~IsDir(pd, h)
  BY <1>1 DEF EntriesRight, IsTable
<1> QED
  BY <1>1, <1>2, <1>3, <1>4, EntryType

\* The frame becomes the directory of process p.
LEMMA AddDirectory ==
  ASSUME NEW k, NEW pd, NEW f, LooseInv(k, pd, f), k.use[f] = Pinned,
         NEW p \in Pids, pd[p] = NULL
  PROVE  LET n == [pd EXCEPT ![p] = f] IN
         /\ KernelInv(k, n)
         /\ \A h \in Frames : IsDir(n, h) <=> IsDir(pd, h) \/ h = f
         /\ \A h : IsTable(k, n, h) <=> IsTable(k, pd, h)
<1> DEFINE n == [pd EXCEPT ![p] = f]
<1>1. n \in [Pids -> Frames \cup {NULL}] /\ \A q \in Pids : n[q] = IF q = p THEN f ELSE pd[q]
  BY LooseFacts DEF DirTypes
<1>2. NULL \notin Frames /\ f \in Frames
  BY LooseFacts, MmuAssumption
<1>3. \A h \in Frames : IsDir(n, h) <=> IsDir(pd, h) \/ h = f
  BY <1>1, <1>2 DEF IsDir
<1>4. \A e \in DOMAIN k.entry : IsDir(n, e[1]) <=> IsDir(pd, e[1])
  BY <1>3, LooseFacts
<1>5. \A h : IsTable(k, n, h) <=> IsTable(k, pd, h)
  BY <1>4 DEF IsTable
<1>6. DirTypes(n)
  <2>1. \A q \in Pids : pd[q] # f
    BY LooseFacts DEF IsDir
  <2> QED
    BY <1>1, <2>1, LooseFacts DEF DirTypes
<1> HIDE DEF n
<1>7. EntriesRight(k, n)
  <2>1. \A e, d \in DOMAIN k.entry :
          IsDir(n, e[1]) /\ IsDir(n, d[1]) /\ k.entry[e] = k.entry[d] => e = d
    BY <1>4, LooseFacts DEF EntriesRight
  <2>2. \A e \in DOMAIN k.entry : IsDir(n, e[1]) => ~IsDir(n, k.entry[e])
    BY <1>3, <1>4, LooseFacts DEF EntriesRight
  <2>3. \A e \in DOMAIN k.entry : IsTable(k, n, e[1]) => k.use[k.entry[e]] = e
    BY <1>5, LooseFacts DEF EntriesRight
  <2> QED
    BY <2>1, <2>2, <2>3 DEF EntriesRight
<1>8. ASSUME NEW h \in Frames PROVE UseRight(k, n, h)
  <2>1. CASE h = f
    BY <2>1, <1>3, MmuAssumption DEF UseRight
  <2>2. CASE h # f
    BY <2>2, <1>3, <1>5, LooseFacts DEF UseRight
  <2> QED
    BY <2>1, <2>2
<1>9. KernelInv(k, n)
  BY <1>5, <1>6, <1>7, <1>8, LooseFacts DEF KernelInv
<1> QED
  BY <1>3, <1>5, <1>9 DEF n

\* The frame becomes a page table: a directory's entry e points to it.
LEMMA AddTable ==
  ASSUME NEW k, NEW pd, NEW f, LooseInv(k, pd, f), k.use[f] = Pinned,
         NEW e \in Entries, IsDir(pd, e[1]), e \notin DOMAIN k.entry
  PROVE  LET n == Point(k, e, f) IN
         /\ KernelInv(n, pd)
         /\ \A d : d \in DOMAIN n.entry <=> d \in DOMAIN k.entry \/ d = e
         /\ n.entry[e] = f /\ \A d \in DOMAIN k.entry : n.entry[d] = k.entry[d]
         /\ \A h : IsTable(n, pd, h) <=> IsTable(k, pd, h) \/ h = f
         /\ SameContents(k, n, pd)
         /\ \A i : Content(n, <<f, i>>) = ZERO
         /\ n.disk = k.disk
<1> DEFINE n == Point(k, e, f)
<1>1. /\ n \in KernelStates /\ n.use = k.use /\ n.data = k.data /\ n.disk = k.disk
      /\ \A d : d \in DOMAIN n.entry <=> d \in DOMAIN k.entry \/ d = e
      /\ n.entry[e] = f
      /\ \A d \in DOMAIN k.entry : n.entry[d] = k.entry[d]
  BY LooseFacts, PointEffect
<1> HIDE DEF n
<1>2. \A h : IsTable(n, pd, h) <=> IsTable(k, pd, h) \/ h = f
  BY <1>1 DEF IsTable
<1>3. \A d \in DOMAIN n.entry : d \in Entries /\ d[1] # f
  BY <1>1, LooseFacts
<1>4. ~IsTable(k, pd, e[1])
  BY LooseFacts
<1>5. EntriesRight(n, pd)
  <2>1. \A c, d \in DOMAIN n.entry :
          IsDir(pd, c[1]) /\ IsDir(pd, d[1]) /\ n.entry[c] = n.entry[d] => c = d
    BY <1>1, LooseFacts DEF EntriesRight
  <2>2. \A d \in DOMAIN n.entry : IsDir(pd, d[1]) => ~IsDir(pd, n.entry[d])
    BY <1>1, LooseFacts DEF EntriesRight
  <2>3. \A d \in DOMAIN n.entry : IsTable(n, pd, d[1]) => n.use[n.entry[d]] = d
    BY <1>1, <1>2, <1>3, <1>4, LooseFacts DEF EntriesRight
  <2> QED
    BY <2>1, <2>2, <2>3 DEF EntriesRight
<1>6. ASSUME NEW h \in Frames PROVE UseRight(n, pd, h)
  <2>1. CASE h = f
    BY <2>1, <1>1, <1>2, MmuAssumption DEF UseRight
  <2>2. CASE h # f
    BY <2>2, <1>1, <1>2, LooseFacts DEF UseRight
  <2> QED
    BY <2>1, <2>2
<1>7. KernelInv(n, pd)
  BY <1>1, <1>2, <1>5, <1>6, LooseFacts DEF KernelInv
<1>8. SameContents(k, n, pd)
  <2> SUFFICES ASSUME NEW d, IsTable(k, pd, d[1]) PROVE Content(n, d) = Content(k, d)
    BY DEF SameContents
  <2>1. d # e
    BY <1>4
  <2> QED
    BY <2>1, <1>1 DEF Content
<1>9. ASSUME NEW i PROVE Content(n, <<f, i>>) = ZERO
  <2>1. <<f, i>> \notin DOMAIN n.entry
    BY <1>3
  <2>2. <<f, i>> \notin DOMAIN n.disk
    BY <1>1, LooseFacts
  <2> QED
    BY <2>1, <2>2 DEF Content
<1> QED
  BY <1>1, <1>2, <1>7, <1>8, <1>9 DEF n

\* The frame gets the page of the table's entry e, from its swap file if it has one.
LEMMA AddPage ==
  ASSUME NEW k, NEW pd, NEW f, NEW e \in Entries, LooseInv(k, pd, f), k.use[f] = e,
         k.data[f] = ZERO, IsTable(k, pd, e[1]), e \notin DOMAIN k.entry
  PROVE  LET n == read_page_from_disk(Point(k, e, f), e, f) IN
         /\ KernelInv(n, pd) /\ SameTables(k, n, pd) /\ SameContents(k, n, pd)
         /\ \A d : d \in DOMAIN n.entry <=> d \in DOMAIN k.entry \/ d = e
         /\ n.disk = k.disk
         /\ e \notin DOMAIN k.disk => n = Point(k, e, f)
<1> DEFINE m == Point(k, e, f)
           n == read_page_from_disk(m, e, f)
<1>1. /\ m \in KernelStates /\ m.use = k.use /\ m.data = k.data /\ m.disk = k.disk
      /\ \A d : d \in DOMAIN m.entry <=> d \in DOMAIN k.entry \/ d = e
      /\ m.entry[e] = f
      /\ \A d \in DOMAIN k.entry : m.entry[d] = k.entry[d]
  BY LooseFacts, PointEffect
<1>0. e \notin DOMAIN k.disk => n = m
  BY <1>1 DEF read_page_from_disk
<1> HIDE DEF m
<1>2. /\ n \in KernelStates /\ n.use = k.use /\ n.entry = m.entry /\ n.disk = k.disk
      /\ n.data = [k.data EXCEPT ![f] = IF e \in DOMAIN k.disk THEN k.disk[e] ELSE ZERO]
  <2>1. CASE e \in DOMAIN k.disk
    <3>1. n = [m EXCEPT !.data[f] = k.disk[e]]
      BY <2>1, <1>1 DEF read_page_from_disk
    <3>2. k.disk[e] \in Contents0
      BY <2>1, LooseFacts, KernelType
    <3>3. n = [use |-> m.use, data |-> [m.data EXCEPT ![f] = k.disk[e]], entry |-> m.entry, disk |-> m.disk]
      BY <3>1, <1>1 DEF KernelStates
    <3>4. n \in KernelStates
      BY <3>2, <3>3, <1>1, KernelType DEF KernelStates
    <3> QED
      BY <3>3, <3>4, <2>1, <1>1
  <2>2. CASE e \notin DOMAIN k.disk
    <3>1. k.data = [k.data EXCEPT ![f] = ZERO]
      BY LooseFacts
    <3> QED
      BY <3>1, <2>2, <1>0, <1>1
  <2> QED
    BY <2>1, <2>2
<1> HIDE DEF n
<1>3. ~IsDir(pd, e[1])
  BY LooseFacts
<1>4. SameTables(k, n, pd)
  BY <1>1, <1>2, <1>3 DEF SameTables
<1>5. \A h : IsTable(n, pd, h) <=> IsTable(k, pd, h)
  BY <1>4, TablesSame
<1>6. EntriesRight(n, pd)
  <2>1. \A c, d \in DOMAIN n.entry :
          IsDir(pd, c[1]) /\ IsDir(pd, d[1]) /\ n.entry[c] = n.entry[d] => c = d
    BY <1>1, <1>2, <1>3, LooseFacts DEF EntriesRight
  <2>2. \A d \in DOMAIN n.entry : IsDir(pd, d[1]) => ~IsDir(pd, n.entry[d])
    BY <1>1, <1>2, <1>3, LooseFacts DEF EntriesRight
  <2>3. \A d \in DOMAIN n.entry : IsTable(n, pd, d[1]) => n.use[n.entry[d]] = d
    BY <1>1, <1>2, <1>5, LooseFacts DEF EntriesRight
  <2> QED
    BY <2>1, <2>2, <2>3 DEF EntriesRight
<1>7. ASSUME NEW h \in Frames PROVE UseRight(n, pd, h)
  <2>1. CASE h = f
    <3>1. n.use[h] = e /\ e \in DOMAIN n.entry /\ n.entry[e] = h /\ IsTable(n, pd, e[1])
      BY <2>1, <1>1, <1>2, <1>5
    <3>2. e # Pinned
      BY EntryType
    <3>3. ~IsDir(pd, h) /\ ~IsTable(n, pd, h)
      BY <2>1, <1>5, LooseFacts
    <3> QED
      BY <3>1, <3>2, <3>3 DEF UseRight
  <2>2. CASE h # f
    <3>1. UseRight(k, pd, h) /\ n.use[h] = k.use[h]
      BY <2>2, <1>2, LooseFacts
    <3> QED
      BY <3>1, <1>1, <1>2, <1>5 DEF UseRight
  <2> QED
    BY <2>1, <2>2
<1>8. KernelInv(n, pd)
  BY <1>2, <1>5, <1>6, <1>7, LooseFacts DEF KernelInv
<1>9. SameContents(k, n, pd)
  <2> SUFFICES ASSUME NEW d, IsTable(k, pd, d[1]) PROVE Content(n, d) = Content(k, d)
    BY DEF SameContents
  <2>1. CASE d = e
    BY <2>1, <1>1, <1>2, LooseFacts DEF Content
  <2>2. CASE d # e /\ d \in DOMAIN k.entry
    <3>1. k.use[k.entry[d]] = d
      BY <2>2, LooseFacts DEF EntriesRight
    <3>2. k.entry[d] # f
      BY <3>1, <2>2
    <3>3. n.data[k.entry[d]] = k.data[k.entry[d]]
      BY <3>2, <2>2, <1>2, LooseFacts
    <3> QED
      BY <3>3, <2>2, <1>1, <1>2 DEF Content
  <2>3. CASE d # e /\ d \notin DOMAIN k.entry
    BY <2>3, <1>1, <1>2 DEF Content
  <2> QED
    BY <2>1, <2>2, <2>3
<1> QED
  BY <1>0, <1>1, <1>2, <1>4, <1>8, <1>9 DEF n, m

-----------------------------------------------------------------------------
(* Translation *)

LEMMA IndexType ==
  ASSUME NEW v \in Pages
  PROVE  DirectoryIndex(v) \in Nat /\ TableIndex(v) \in Idx
<1>1. v \in Nat /\ NUM_ENTRIES \in Nat /\ NUM_ENTRIES % 4 = 0 /\ NUM_ENTRIES > 0
  BY MmuAssumption
<1>2. NUM_ENTRIES \div 4 \in Nat /\ NUM_ENTRIES \div 4 > 0
  BY <1>1
<1> QED
  BY <1>1, <1>2 DEF DirectoryIndex, TableIndex, Idx

\* Different pages of a process have different entries.
LEMMA IndexDiffer ==
  ASSUME NEW v \in Pages, NEW w \in Pages,
         DirectoryIndex(v) = DirectoryIndex(w), TableIndex(v) = TableIndex(w)
  PROVE  v = w
<1> DEFINE n == NUM_ENTRIES \div 4
           N == NUM_ENTRIES
<1>1. v \in Nat /\ w \in Nat /\ N \in Nat /\ N > 0 /\ N % 4 = 0
  BY MmuAssumption
<1>2. n \in Nat /\ n > 0 /\ N = 4 * n
  BY <1>1
<1>3. v \div n = w \div n /\ (v % N) = (w % N)
  BY DEF DirectoryIndex, TableIndex
<1> HIDE DEF n, N
<1> DEFINE b == v \div n
           r == v % n
           s == w % n
<1>4. b \in Nat /\ r \in 0 .. n - 1 /\ s \in 0 .. n - 1 /\ v = n * b + r /\ w = n * b + s
  <2>1. v = n * (v \div n) + (v % n) /\ (v % n) \in 0 .. n - 1 /\ v \div n \in Nat
    BY <1>1, <1>2
  <2>2. w = n * (w \div n) + (w % n) /\ (w % n) \in 0 .. n - 1
    BY <1>1, <1>2
  <2> QED
    BY <2>1, <2>2, <1>3
<1> HIDE DEF b, r, s
<1>5. v - w < n /\ w - v < n
  <2>1. n * b \in Int
    BY <1>2, <1>4
  <2> QED
    BY <2>1, <1>2, <1>4
<1> DEFINE x == v \div N
           y == w \div N
<1>6. x \in Nat /\ y \in Nat /\ v = N * x + (v % N) /\ w = N * y + (v % N) /\ (v % N) \in Nat
  <2>1. v = N * (v \div N) + (v % N) /\ (v % N) \in 0 .. N - 1 /\ v \div N \in Nat
    BY <1>1
  <2>2. w = N * (w \div N) + (w % N) /\ (w % N) \in 0 .. N - 1 /\ w \div N \in Nat
    BY <1>1
  <2> QED
    BY <2>1, <2>2, <1>3, <1>1
<1> HIDE DEF x, y
<1>7. N >= n
  BY <1>2
<1>8. ASSUME NEW i \in Nat, NEW j \in Nat, i > j PROVE N * i - N * j >= n
  <2>1. i - j - 1 \in Nat
    BY <1>8
  <2>2. N * (i - j - 1) >= 0
    BY <2>1, <1>1
  <2>3. N * i - N * j = N * (i - j - 1) + N
    BY <1>1, <1>8
  <2> QED
    BY <2>1, <2>2, <2>3, <1>1, <1>2, <1>7
<1>9. v - w = N * x - N * y /\ w - v = N * y - N * x
  <2>1. N * x \in Int /\ N * y \in Int
    BY <1>1, <1>6
  <2> QED
    BY <2>1, <1>6
<1>10. ~(x > y) /\ ~(y > x)
  <2>1. ASSUME x > y PROVE FALSE
    <3>1. N * x - N * y >= n
      BY <2>1, <1>6, <1>8
    <3> QED
      BY <3>1, <1>5, <1>9, <1>1, <1>2
  <2>2. ASSUME y > x PROVE FALSE
    <3>1. N * y - N * x >= n
      BY <2>2, <1>6, <1>8
    <3> QED
      BY <3>1, <1>5, <1>9, <1>1, <1>2
  <2> QED
    BY <2>1, <2>2
<1>11. x = y
  BY <1>6, <1>10
<1> QED
  BY <1>6, <1>11

\* From k to n entries may be added to directories; they lead to pages of zeros.
Grows(k, n, pd) ==
  /\ \A e \in DOMAIN k.entry : IsDir(pd, e[1]) => e \in DOMAIN n.entry /\ n.entry[e] = k.entry[e]
  /\ SameContents(k, n, pd)
  /\ \A e \in DOMAIN n.entry : IsDir(pd, e[1]) /\ e \notin DOMAIN k.entry =>
       \A i : Content(n, <<n.entry[e], i>>) = ZERO

LEMMA SameGrows ==
  ASSUME NEW k, NEW m, NEW n, NEW pd,
         Grows(k, m, pd), SameTables(m, n, pd), SameContents(m, n, pd)
  PROVE  Grows(k, n, pd)
<1>1. \A e \in DOMAIN k.entry : IsDir(pd, e[1]) => e \in DOMAIN n.entry /\ n.entry[e] = k.entry[e]
  BY DEF Grows, SameTables
<1>2. \A h : IsTable(k, pd, h) => IsTable(m, pd, h)
  BY DEF Grows, IsTable
<1>3. SameContents(k, n, pd)
  BY <1>2 DEF Grows, SameContents
<1>4. ASSUME NEW e \in DOMAIN n.entry, IsDir(pd, e[1]), e \notin DOMAIN k.entry, NEW i
      PROVE  Content(n, <<n.entry[e], i>>) = ZERO
  <2>1. e \in DOMAIN m.entry /\ m.entry[e] = n.entry[e]
    BY <1>4 DEF SameTables
  <2>2. IsTable(m, pd, n.entry[e])
    BY <2>1, <1>4 DEF IsTable
  <2>3. IsTable(m, pd, (<<n.entry[e], i>>)[1])
    BY <2>2
  <2>4. Content(n, <<n.entry[e], i>>) = Content(m, <<n.entry[e], i>>)
    BY <2>3 DEF SameContents
  <2> QED
    BY <2>1, <2>4, <1>4 DEF Grows
<1> QED
  BY <1>1, <1>3, <1>4 DEF Grows

LEMMA GrowsSelf == ASSUME NEW k, NEW pd PROVE Grows(k, k, pd)
BY DEF Grows, SameContents

LEMMA SameIsGrown ==
  ASSUME NEW k, NEW n, NEW pd, SameTables(k, n, pd), SameContents(k, n, pd)
  PROVE  Grows(k, n, pd)
BY GrowsSelf, SameGrows

LEMMA GrowsContents ==
  ASSUME NEW k, NEW n, NEW pd, NEW st, Grows(k, n, pd), ContentsInv(k, pd, st)
  PROVE  ContentsInv(n, pd, st)
<1> SUFFICES ASSUME NEW p \in Pids, NEW v \in Pages, Translatable(pd, p, v)
             PROVE  st[p][v] = IF PdeIn(pd, p, v) \in DOMAIN n.entry
                               THEN Content(n, <<n.entry[PdeIn(pd, p, v)], TableIndex(v)>>) ELSE ZERO
  BY DEF ContentsInv
<1> DEFINE e == PdeIn(pd, p, v)
<1>1. st[p][v] = IF e \in DOMAIN k.entry THEN Content(k, <<k.entry[e], TableIndex(v)>>) ELSE ZERO
  BY DEF ContentsInv
<1>2. IsDir(pd, e[1])
  BY DEF PdeIn, IsDir
<1> HIDE DEF e
<1>3. CASE e \in DOMAIN k.entry
  <2>1. IsTable(k, pd, k.entry[e])
    BY <1>2, <1>3 DEF IsTable
  <2>2. IsTable(k, pd, (<<k.entry[e], TableIndex(v)>>)[1])
    BY <2>1
  <2>3. Content(n, <<k.entry[e], TableIndex(v)>>) = Content(k, <<k.entry[e], TableIndex(v)>>)
    BY <2>2 DEF Grows, SameContents
  <2>4. e \in DOMAIN n.entry /\ n.entry[e] = k.entry[e]
    BY <1>2, <1>3 DEF Grows
  <2> QED
    BY <2>3, <2>4, <1>1, <1>3 DEF e
<1>4. CASE e \notin DOMAIN k.entry
  <2>1. e \in DOMAIN n.entry => Content(n, <<n.entry[e], TableIndex(v)>>) = ZERO
    BY <1>2, <1>4 DEF Grows
  <2> QED
    BY <2>1, <1>1, <1>4 DEF e
<1> QED
  BY <1>3, <1>4

LEMMA GrowsTlb ==
  ASSUME NEW k, NEW n, NEW pd, NEW c \in Pids, NEW t, Grows(k, n, pd), TlbInv(k, pd, c, t)
  PROVE  TlbInv(n, pd, c, t)
<1>1. \A v : IsDir(pd, PdeIn(pd, c, v)[1])
  BY DEF PdeIn, IsDir
<1> QED
  BY <1>1 DEF TlbInv, Grows

LEMMA PdeFacts ==
  ASSUME NEW pd, DirTypes(pd), NEW p \in Pids, NEW v \in Pages, Translatable(pd, p, v)
  PROVE  PdeIn(pd, p, v) \in Entries /\ IsDir(pd, PdeIn(pd, p, v)[1])
<1>1. DirectoryIndex(v) \in Idx
  BY IndexType, MmuAssumption DEF Translatable, Idx
<1> QED
  BY <1>1 DEF DirTypes, Translatable, PdeIn, IsDir, Entries, Idx

LEMMA TableReadyEffect ==
  ASSUME NEW k, KernelInv(k, page_directories), NEW p \in Pids, NEW v \in Pages,
         Translatable(page_directories, p, v), NEW n \in TableReady(k, p, v)
  PROVE  /\ KernelInv(n, page_directories) /\ Grows(k, n, page_directories)
         /\ Pde(p, v) \in DOMAIN n.entry
<1> DEFINE pd == page_directories
           e == Pde(p, v)
<1>1. e \in Entries /\ IsDir(pd, e[1])
  BY PdeFacts DEF KernelInv, Pde, PdeIn
<1>2. CASE e \in DOMAIN k.entry
  <2>1. n = k
    BY <1>2 DEF TableReady
  <2> QED
    BY <2>1, <1>2, GrowsSelf
<1>3. CASE e \notin DOMAIN k.entry
  <2>1. PICK r \in ask_kernel_for_frame(k, Pinned) : n = Point(r.k, e, r.f)
    BY <1>3 DEF TableReady
  <2>2. Pinned \in Uses \ {Unused}
    BY MmuAssumption DEF Uses
  <2> HIDE DEF e, pd
  <2>3. /\ LooseInv(r.k, pd, r.f) /\ r.k.use[r.f] = Pinned
        /\ SameTables(k, r.k, pd) /\ SameContents(k, r.k, pd)
        /\ \A d : d \in DOMAIN r.k.entry => d \in DOMAIN k.entry
    BY <2>2, AskLoose DEF pd
  <2>4. e \notin DOMAIN r.k.entry
    BY <2>3, <1>3
  <2>5. /\ KernelInv(n, pd)
        /\ \A d : d \in DOMAIN n.entry <=> d \in DOMAIN r.k.entry \/ d = e
        /\ n.entry[e] = r.f /\ \A d \in DOMAIN r.k.entry : n.entry[d] = r.k.entry[d]
        /\ \A h : IsTable(n, pd, h) <=> IsTable(r.k, pd, h) \/ h = r.f
        /\ SameContents(r.k, n, pd)
        /\ \A i : Content(n, <<r.f, i>>) = ZERO
    BY <2>1, <2>3, <2>4, <1>1, AddTable
  <2>6. \A h : IsTable(r.k, pd, h) <=> IsTable(k, pd, h)
    BY <2>3, TablesSame
  <2>7. SameContents(k, n, pd)
    BY <2>3, <2>5, <2>6 DEF SameContents
  <2>8. Grows(k, n, pd)
    BY <2>3, <2>5, <2>7 DEF Grows, SameTables
  <2> QED
    BY <2>5, <2>8 DEF e, pd
<1> QED
  BY <1>2, <1>3

LEMMA PageReadyEffect ==
  ASSUME NEW k, NEW pd, KernelInv(k, pd), NEW pte \in Entries, IsTable(k, pd, pte[1]),
         NEW n \in PageReady(k, pte)
  PROVE  /\ KernelInv(n, pd) /\ SameTables(k, n, pd) /\ SameContents(k, n, pd)
         /\ pte \in DOMAIN n.entry
<1>1. CASE pte \in DOMAIN k.entry
  <2>1. n = k
    BY <1>1 DEF PageReady
  <2> QED
    BY <2>1, <1>1 DEF SameTables, SameContents
<1>2. CASE pte \notin DOMAIN k.entry
  <2>1. PICK r \in ask_kernel_for_frame(k, pte) : n = read_page_from_disk(Point(r.k, pte, r.f), pte, r.f)
    BY <1>2 DEF PageReady
  <2>2. pte \in Uses \ {Unused}
    BY EntryType DEF Uses
  <2>3. /\ LooseInv(r.k, pd, r.f) /\ r.k.use[r.f] = pte /\ r.k.data[r.f] = ZERO
        /\ SameTables(k, r.k, pd) /\ SameContents(k, r.k, pd)
        /\ \A d : d \in DOMAIN r.k.entry => d \in DOMAIN k.entry
    BY <2>2, AskLoose
  <2>4. \A h : IsTable(r.k, pd, h) <=> IsTable(k, pd, h)
    BY <2>3, TablesSame
  <2>5. pte \notin DOMAIN r.k.entry /\ IsTable(r.k, pd, pte[1])
    BY <2>3, <2>4, <1>2
  <2>6. /\ KernelInv(n, pd) /\ SameTables(r.k, n, pd) /\ SameContents(r.k, n, pd)
        /\ pte \in DOMAIN n.entry
    BY <2>1, <2>3, <2>5, AddPage
  <2>7. SameTables(k, n, pd)
    BY <2>3, <2>6 DEF SameTables
  <2>8. SameContents(k, n, pd)
    BY <2>3, <2>4, <2>6 DEF SameContents
  <2> QED
    BY <2>6, <2>7, <2>8
<1> QED
  BY <1>1, <1>2

LEMMA TlbForRight ==
  ASSUME MmuInv, NEW p \in Pids
  PROVE  TlbInv(kernel, page_directories, p, TlbFor(p))
<1>1. CASE p = curr_pid
  BY <1>1 DEF MmuInv, TlbFor
<1>2. CASE p # curr_pid
  <2>1. DOMAIN TlbFor(p) = {}
    BY <1>2 DEF TlbFor, NoEntries
  <2> QED
    BY <2>1 DEF TlbInv
<1> QED
  BY <1>1, <1>2

LEMMA LookupEffect ==
  ASSUME MmuInv, NEW p \in Pids, NEW v \in Pages, Translatable(page_directories, p, v),
         NEW r \in Lookup(p, v)
  PROVE  /\ KernelInv(r.k, page_directories) /\ Grows(kernel, r.k, page_directories)
         /\ Pde(p, v) \in DOMAIN r.k.entry
         /\ r.pte = <<r.k.entry[Pde(p, v)], TableIndex(v)>>
         /\ r.pte \in Entries /\ IsTable(r.k, page_directories, r.pte[1])
<1> DEFINE pd == page_directories
<1>0. KernelInv(kernel, pd) /\ DirTypes(pd)
  BY DEF MmuInv, KernelInv
<1>1. /\ KernelInv(r.k, pd) /\ Grows(kernel, r.k, pd) /\ Pde(p, v) \in DOMAIN r.k.entry
      /\ r.pte = <<r.k.entry[Pde(p, v)], TableIndex(v)>>
  <2>1. CASE v \in DOMAIN TlbFor(p)
    <3>1. r.k = kernel /\ r.pte = TlbFor(p)[v]
      BY <2>1 DEF Lookup
    <3>2. Pde(p, v) \in DOMAIN kernel.entry /\ TlbFor(p)[v] = <<kernel.entry[Pde(p, v)], TableIndex(v)>>
      BY <2>1, TlbForRight DEF TlbInv, PdeIn, Pde
    <3> QED
      BY <3>1, <3>2, <1>0, GrowsSelf
  <2>2. CASE v \notin DOMAIN TlbFor(p)
    <3>1. PICK n \in TableReady(kernel, p, v) : r = [k |-> n, pte |-> Pte(n, p, v)]
      BY <2>2 DEF Lookup
    <3>2. KernelInv(n, pd) /\ Grows(kernel, n, pd) /\ Pde(p, v) \in DOMAIN n.entry
      BY <1>0, TableReadyEffect
    <3> QED
      BY <3>1, <3>2 DEF Pte
  <2> QED
    BY <2>1, <2>2
<1>2. IsDir(pd, Pde(p, v)[1])
  BY <1>0, PdeFacts DEF Pde, PdeIn
<1>3. IsTable(r.k, pd, r.k.entry[Pde(p, v)])
  BY <1>1, <1>2 DEF IsTable
<1>4. r.k.entry[Pde(p, v)] \in Frames
  BY <1>1, KernelType DEF KernelInv
<1>5. r.pte \in Entries
  BY <1>1, <1>4, IndexType DEF Entries, Idx
<1>6. r.pte[1] = r.k.entry[Pde(p, v)]
  BY <1>1
<1> QED
  BY <1>1, <1>3, <1>5, <1>6

\* A translation that is added is right, and an old one makes room.
LEMMA TlbAdded ==
  ASSUME NEW k, NEW pd, NEW c \in Pids, NEW t, TlbInv(k, pd, c, t),
         NEW v \in Pages, Translatable(pd, c, v), PdeIn(pd, c, v) \in DOMAIN k.entry,
         NEW s \in tlb_add_pte(t, v, <<k.entry[PdeIn(pd, c, v)], TableIndex(v)>>)
  PROVE  TlbInv(k, pd, c, s)
<1> DEFINE x == <<k.entry[PdeIn(pd, c, v)], TableIndex(v)>>
<1> HIDE DEF x
<1>1. ASSUME NEW f, TlbInv(k, pd, c, f) PROVE TlbInv(k, pd, c, Entered(f, v, x))
  <2>1. \A w : w \in DOMAIN Entered(f, v, x) <=> w \in DOMAIN f \/ w = v
    BY DEF Entered
  <2>2. \A w \in DOMAIN f \cup {v} : Entered(f, v, x)[w] = IF w = v THEN x ELSE f[w]
    BY DEF Entered
  <2> QED
    BY <1>1, <2>1, <2>2 DEF TlbInv, x
<1>2. ASSUME NEW u PROVE TlbInv(k, pd, c, Without(t, {u}))
  <2>1. \A w : w \in DOMAIN Without(t, {u}) <=> w \in DOMAIN t /\ w # u
    BY DEF Without, Restrict
  <2>2. \A w \in DOMAIN t : w # u => Without(t, {u})[w] = t[w]
    BY DEF Without, Restrict
  <2> QED
    BY <2>1, <2>2 DEF TlbInv
<1>3. s = Entered(t, v, x) \/ \E u \in DOMAIN t : s = Entered(Without(t, {u}), v, x)
  <2>1. s \in tlb_add_pte(t, v, x)
    BY DEF x
  <2> QED
    BY <2>1 DEF tlb_add_pte
<1> QED
  BY <1>1, <1>2, <1>3

\* A write changes the page its entry leads to, and no other.
LEMMA WriteEffect ==
  ASSUME NEW k, NEW pd, KernelInv(k, pd), NEW pte \in DOMAIN k.entry, IsTable(k, pd, pte[1]),
         NEW x \in Contents0
  PROVE  LET n == [k EXCEPT !.data[k.entry[pte]] = x] IN
         /\ KernelInv(n, pd) /\ n.entry = k.entry
         /\ Content(n, pte) = x
         /\ \A e : IsTable(k, pd, e[1]) /\ e # pte => Content(n, e) = Content(k, e)
<1> DEFINE f == k.entry[pte]
           n == [k EXCEPT !.data[f] = x]
<1>1. /\ k \in KernelStates /\ f \in Frames
      /\ k.use \in [Frames -> Uses] /\ k.data \in [Frames -> Contents0]
  BY KernelType DEF KernelInv
<1>2. n = [use |-> k.use, data |-> [k.data EXCEPT ![f] = x], entry |-> k.entry, disk |-> k.disk]
  BY <1>1 DEF KernelStates
<1>3. n \in KernelStates
  BY <1>1, <1>2, KernelType DEF KernelStates
<1>4. n.use = k.use /\ n.data = [k.data EXCEPT ![f] = x] /\ n.entry = k.entry /\ n.disk = k.disk
  BY <1>2
<1> HIDE DEF n
<1>5. \A h : IsTable(n, pd, h) <=> IsTable(k, pd, h)
  BY <1>4 DEF IsTable
<1>6. EntriesRight(n, pd)
  BY <1>4, <1>5 DEF KernelInv, EntriesRight
<1>7. \A h \in Frames : UseRight(n, pd, h)
  BY <1>4, <1>5 DEF KernelInv, UseRight
<1>8. KernelInv(n, pd)
  BY <1>3, <1>4, <1>5, <1>6, <1>7 DEF KernelInv
<1>9. Content(n, pte) = x
  BY <1>1, <1>4 DEF Content
<1>10. ASSUME NEW e, IsTable(k, pd, e[1]), e # pte PROVE Content(n, e) = Content(k, e)
  <2>1. e \in DOMAIN k.entry => k.entry[e] # f
    BY <1>10 DEF KernelInv, EntriesRight
  <2>2. e \in DOMAIN k.entry => k.entry[e] \in Frames
    BY <1>1, KernelType
  <2> QED
    BY <2>1, <2>2, <1>1, <1>4 DEF Content
<1> QED
  BY <1>4, <1>8, <1>9, <1>10 DEF n

-----------------------------------------------------------------------------
(* The calls *)

LEMMA FaultStep ==
  ASSUME MmuInv, NEW p \in Pids, Call(p), tlb' = TlbFor(p),
         UNCHANGED <<page_directories, kernel, stored>>
  PROVE  MmuInv'
<1>1. curr_pid' = p
  BY DEF Call
<1>2. TlbInv(kernel, page_directories, p, tlb')
  BY TlbForRight
<1> QED
  BY <1>1, <1>2 DEF MmuInv

LEMMA ReadStep ==
  ASSUME MmuInv, NEW p \in Pids, NEW v \in Pages, mmu_read_from_virtual_address(p, v)
  PROVE  MmuInv'
<1>1. CASE SegmentationFault(p, v, {"r", "rw"}) \/ BeyondDirectory(p, v, {"r", "rw"})
  BY <1>1, FaultStep DEF SegmentationFault, BeyondDirectory
<1>2. CASE /\ Translated(p, v, {"r", "rw"})
           /\ \E r \in Lookup(p, v) : \E k \in PageReady(r.k, r.pte) :
                kernel' = k /\ tlb' \in tlb_add_pte(TlbFor(p), v, r.pte)
           /\ UNCHANGED stored
  <2>1. PICK r \in Lookup(p, v) : \E k \in PageReady(r.k, r.pte) :
                kernel' = k /\ tlb' \in tlb_add_pte(TlbFor(p), v, r.pte)
    BY <1>2
  <2> DEFINE pd == page_directories
             k == kernel'
  <2>2. k \in PageReady(r.k, r.pte) /\ tlb' \in tlb_add_pte(TlbFor(p), v, r.pte)
    BY <2>1
  <2>3. Translatable(pd, p, v) /\ curr_pid' = p /\ page_directories' = pd /\ stored' = stored
    BY <1>2 DEF Translated, Call, Translatable
  <2>4. /\ KernelInv(r.k, pd) /\ Grows(kernel, r.k, pd) /\ PdeIn(pd, p, v) \in DOMAIN r.k.entry
        /\ r.pte = <<r.k.entry[PdeIn(pd, p, v)], TableIndex(v)>>
        /\ r.pte \in Entries /\ IsTable(r.k, pd, r.pte[1])
    BY <2>3, LookupEffect DEF Pde, PdeIn
  <2> HIDE DEF k, pd
  <2>5. KernelInv(k, pd) /\ SameTables(r.k, k, pd) /\ SameContents(r.k, k, pd)
    BY <2>2, <2>4, PageReadyEffect
  <2>6. Grows(kernel, k, pd)
    BY <2>4, <2>5, SameGrows
  <2>7. ContentsInv(k, pd, stored)
    BY <2>6, GrowsContents DEF MmuInv, pd
  <2>8. TlbInv(r.k, pd, p, tlb')
    <3>1. TlbInv(kernel, pd, p, TlbFor(p))
      BY TlbForRight DEF pd
    <3>2. TlbInv(r.k, pd, p, TlbFor(p))
      BY <3>1, <2>4, GrowsTlb
    <3> QED
      BY <3>2, <2>2, <2>3, <2>4, TlbAdded
  <2>9. TlbInv(k, pd, p, tlb')
    BY <2>8, <2>5, SameIsGrown, GrowsTlb
  <2> QED
    BY <2>3, <2>5, <2>7, <2>9 DEF MmuInv, k, pd
<1> QED
  BY <1>1, <1>2 DEF mmu_read_from_virtual_address

LEMMA WriteStep ==
  ASSUME MmuInv, NEW p \in Pids, NEW v \in Pages, NEW x \in Values,
         mmu_write_to_virtual_address(p, v, x)
  PROVE  MmuInv'
<1>1. CASE SegmentationFault(p, v, {"rw"}) \/ BeyondDirectory(p, v, {"rw"})
  BY <1>1, FaultStep DEF SegmentationFault, BeyondDirectory
<1>2. CASE /\ Translated(p, v, {"rw"})
           /\ \E r \in Lookup(p, v) : \E k \in PageReady(r.k, r.pte) :
                /\ kernel' = [k EXCEPT !.data[k.entry[r.pte]] = x]
                /\ tlb' \in tlb_add_pte(TlbFor(p), v, r.pte)
           /\ stored' = [stored EXCEPT ![p][v] = x]
  <2>1. PICK r \in Lookup(p, v) : \E k \in PageReady(r.k, r.pte) :
                /\ kernel' = [k EXCEPT !.data[k.entry[r.pte]] = x]
                /\ tlb' \in tlb_add_pte(TlbFor(p), v, r.pte)
    BY <1>2
  <2>2. PICK k \in PageReady(r.k, r.pte) :
                /\ kernel' = [k EXCEPT !.data[k.entry[r.pte]] = x]
                /\ tlb' \in tlb_add_pte(TlbFor(p), v, r.pte)
    BY <2>1
  <2> DEFINE pd == page_directories
             n == [k EXCEPT !.data[k.entry[r.pte]] = x]
  <2>3. Translatable(pd, p, v) /\ curr_pid' = p /\ page_directories' = pd
    BY <1>2 DEF Translated, Call, Translatable
  <2>4. /\ KernelInv(r.k, pd) /\ Grows(kernel, r.k, pd) /\ PdeIn(pd, p, v) \in DOMAIN r.k.entry
        /\ r.pte = <<r.k.entry[PdeIn(pd, p, v)], TableIndex(v)>>
        /\ r.pte \in Entries /\ IsTable(r.k, pd, r.pte[1])
    BY <2>3, LookupEffect DEF Pde, PdeIn
  <2>s. stored' = [stored EXCEPT ![p][v] = x] /\ stored \in [Pids -> [Pages -> Contents0]]
    BY <1>2 DEF MmuInv
  <2>k. kernel' = n
    BY <2>2
  <2>o. ContentsInv(kernel, pd, stored)
    BY DEF MmuInv
  <2>t. TlbInv(kernel, pd, p, TlbFor(p))
    BY TlbForRight
  <2> HIDE DEF pd, n
  <2>5. /\ KernelInv(k, pd) /\ SameTables(r.k, k, pd) /\ SameContents(r.k, k, pd)
        /\ r.pte \in DOMAIN k.entry
    BY <2>4, PageReadyEffect
  <2>6. Grows(kernel, k, pd)
    BY <2>4, <2>5, SameGrows
  <2>7. ContentsInv(k, pd, stored)
    BY <2>6, <2>o, GrowsContents
  <2>8. TlbInv(k, pd, p, tlb')
    <3>1. TlbInv(r.k, pd, p, TlbFor(p))
      BY <2>t, <2>4, GrowsTlb
    <3>2. TlbInv(r.k, pd, p, tlb')
      BY <3>1, <2>2, <2>3, <2>4, TlbAdded
    <3> QED
      BY <3>2, <2>5, SameIsGrown, GrowsTlb
  <2>9. IsTable(k, pd, r.pte[1]) /\ x \in Contents0
    BY <2>4, <2>5, TablesSame DEF Contents0
  <2>10. /\ KernelInv(n, pd) /\ n.entry = k.entry /\ Content(n, r.pte) = x
         /\ \A e : IsTable(k, pd, e[1]) /\ e # r.pte => Content(n, e) = Content(k, e)
    BY <2>5, <2>9, WriteEffect DEF n
  <2>11. PdeIn(pd, p, v) \in DOMAIN k.entry /\ r.pte = <<k.entry[PdeIn(pd, p, v)], TableIndex(v)>>
    <3>1. DirTypes(pd)
      BY <2>5 DEF KernelInv
    <3>2. IsDir(pd, PdeIn(pd, p, v)[1])
      BY <3>1, <2>3, PdeFacts
    <3> QED
      BY <3>2, <2>4, <2>5 DEF SameTables
  <2>12. ContentsInv(n, pd, stored')
    <3> SUFFICES ASSUME NEW q \in Pids, NEW w \in Pages
                 PROVE  /\ pd[q] = NULL => stored'[q][w] = ZERO
                        /\ Translatable(pd, q, w) =>
                             stored'[q][w] = IF PdeIn(pd, q, w) \in DOMAIN n.entry
                               THEN Content(n, <<n.entry[PdeIn(pd, q, w)], TableIndex(w)>>) ELSE ZERO
      BY DEF ContentsInv
    <3>1. CASE q = p /\ w = v
      <4>1. stored'[q][w] = x /\ pd[q] # NULL
        BY <3>1, <2>s, <2>3 DEF Translatable
      <4> QED
        BY <4>1, <3>1, <2>10, <2>11
    <3>2. CASE ~(q = p /\ w = v)
      <4>1. stored'[q][w] = stored[q][w]
        BY <3>2, <2>s
      <4>2. ASSUME Translatable(pd, q, w), PdeIn(pd, q, w) \in DOMAIN k.entry
            PROVE  Content(n, <<k.entry[PdeIn(pd, q, w)], TableIndex(w)>>)
                     = Content(k, <<k.entry[PdeIn(pd, q, w)], TableIndex(w)>>)
        <5> DEFINE d == <<k.entry[PdeIn(pd, q, w)], TableIndex(w)>>
        <5>1. DirTypes(pd) /\ EntriesRight(k, pd)
          BY <2>5 DEF KernelInv
        <5>2. IsDir(pd, PdeIn(pd, q, w)[1]) /\ IsDir(pd, PdeIn(pd, p, v)[1])
          BY <5>1, <4>2, <2>3, PdeFacts
        <5>3. IsTable(k, pd, k.entry[PdeIn(pd, q, w)])
          BY <5>2, <4>2 DEF IsTable
        <5>4. ASSUME d = r.pte PROVE FALSE
          <6>1. k.entry[PdeIn(pd, q, w)] = k.entry[PdeIn(pd, p, v)] /\ TableIndex(w) = TableIndex(v)
            BY <5>4, <2>11
          <6>2. PdeIn(pd, q, w) = PdeIn(pd, p, v)
            BY <6>1, <5>1, <5>2, <4>2, <2>11 DEF EntriesRight
          <6>3. pd[q] = pd[p] /\ DirectoryIndex(w) = DirectoryIndex(v)
            BY <6>2 DEF PdeIn
          <6>4. q = p
            BY <6>3, <5>1, <4>2 DEF DirTypes, Translatable
          <6>5. w = v
            BY <6>1, <6>3, IndexDiffer
          <6> QED
            BY <6>4, <6>5, <3>2
        <5>5. d[1] = k.entry[PdeIn(pd, q, w)]
          OBVIOUS
        <5> HIDE DEF d
        <5>6. Content(n, d) = Content(k, d)
          BY <5>3, <5>4, <5>5, <2>10
        <5> QED
          BY <5>6 DEF d
      <4> QED
        BY <4>1, <4>2, <2>7, <2>10 DEF ContentsInv
    <3> QED
      BY <3>1, <3>2
  <2>13. TlbInv(n, pd, p, tlb')
    BY <2>8, <2>10 DEF TlbInv
  <2>14. stored' \in [Pids -> [Pages -> Contents0]]
    BY <2>s, <2>9
  <2> QED
    BY <2>3, <2>10, <2>12, <2>13, <2>14, <2>k DEF MmuInv, pd
<1> QED
  BY <1>1, <1>2 DEF mmu_write_to_virtual_address

\* A page of a new table's entry that never had a page: a frame of zeros.
LEMMA FirstPage ==
  ASSUME NEW k, NEW pd, KernelInv(k, pd), NEW e \in Entries, IsTable(k, pd, e[1]),
         e \notin DOMAIN k.entry, e \notin DOMAIN k.disk, NEW r \in ask_kernel_for_frame(k, e)
  PROVE  LET n == Point(r.k, e, r.f) IN
         /\ KernelInv(n, pd) /\ SameTables(k, n, pd) /\ SameContents(k, n, pd)
         /\ \A d : d \in DOMAIN n.entry \/ d \in DOMAIN n.disk =>
              d \in DOMAIN k.entry \/ d \in DOMAIN k.disk \/ d = e
<1>1. e \in Uses \ {Unused}
  BY EntryType DEF Uses
<1>2. /\ LooseInv(r.k, pd, r.f) /\ r.k.use[r.f] = e /\ r.k.data[r.f] = ZERO
      /\ SameTables(k, r.k, pd) /\ SameContents(k, r.k, pd)
      /\ \A d : d \in DOMAIN r.k.entry => d \in DOMAIN k.entry
      /\ \A d : d \in DOMAIN r.k.disk => d \in DOMAIN k.disk \/ d \in DOMAIN k.entry
  BY <1>1, AskLoose
<1>3. \A h : IsTable(r.k, pd, h) <=> IsTable(k, pd, h)
  BY <1>2, TablesSame
<1>4. e \notin DOMAIN r.k.entry /\ e \notin DOMAIN r.k.disk /\ IsTable(r.k, pd, e[1])
  BY <1>2, <1>3
<1> DEFINE m == read_page_from_disk(Point(r.k, e, r.f), e, r.f)
           n == Point(r.k, e, r.f)
<1>5. /\ KernelInv(m, pd) /\ SameTables(r.k, m, pd) /\ SameContents(r.k, m, pd)
      /\ \A d : d \in DOMAIN m.entry <=> d \in DOMAIN r.k.entry \/ d = e
      /\ m.disk = r.k.disk
      /\ m = n
  BY <1>2, <1>4, AddPage
<1> HIDE DEF m, n
<1>6. SameTables(k, n, pd)
  BY <1>2, <1>5 DEF SameTables
<1>7. SameContents(k, n, pd)
  BY <1>2, <1>3, <1>5 DEF SameContents
<1> QED
  BY <1>2, <1>5, <1>6, <1>7 DEF n

LEMMA AddProcessStep ==
  ASSUME MmuInv, NEW p \in Pids, mmu_add_process(p)
  PROVE  MmuInv'
<1> DEFINE pd == page_directories
<1>0. /\ KernelInv(kernel, pd) /\ ContentsInv(kernel, pd, stored)
      /\ TlbInv(kernel, pd, curr_pid, tlb) /\ curr_pid \in Pids
  BY DEF MmuInv
<1>1. PICK d \in ask_kernel_for_frame(kernel, Pinned) :
      \E t \in ask_kernel_for_frame(d.k, Pinned) :
      \E a \in ask_kernel_for_frame(Point(t.k, <<d.f, 0>>, t.f), <<t.f, 1>>) :
      \E b \in ask_kernel_for_frame(Point(a.k, <<t.f, 1>>, a.f), <<t.f, 2>>) :
        /\ kernel' = Point(b.k, <<t.f, 2>>, b.f)
        /\ page_directories' = [page_directories EXCEPT ![p] = d.f]
  BY DEF mmu_add_process
<1>2. PICK t \in ask_kernel_for_frame(d.k, Pinned) :
      \E a \in ask_kernel_for_frame(Point(t.k, <<d.f, 0>>, t.f), <<t.f, 1>>) :
      \E b \in ask_kernel_for_frame(Point(a.k, <<t.f, 1>>, a.f), <<t.f, 2>>) :
        /\ kernel' = Point(b.k, <<t.f, 2>>, b.f)
        /\ page_directories' = [page_directories EXCEPT ![p] = d.f]
  BY <1>1
<1> DEFINE m == Point(t.k, <<d.f, 0>>, t.f)
<1>3. PICK a \in ask_kernel_for_frame(m, <<t.f, 1>>) :
      \E b \in ask_kernel_for_frame(Point(a.k, <<t.f, 1>>, a.f), <<t.f, 2>>) :
        /\ kernel' = Point(b.k, <<t.f, 2>>, b.f)
        /\ page_directories' = [page_directories EXCEPT ![p] = d.f]
  BY <1>2
<1> DEFINE m2 == Point(a.k, <<t.f, 1>>, a.f)
<1>4. PICK b \in ask_kernel_for_frame(m2, <<t.f, 2>>) :
        /\ kernel' = Point(b.k, <<t.f, 2>>, b.f)
        /\ page_directories' = [page_directories EXCEPT ![p] = d.f]
  BY <1>3
<1> DEFINE m3 == Point(b.k, <<t.f, 2>>, b.f)
           nd == [page_directories EXCEPT ![p] = d.f]
<1>5. kernel' = m3 /\ page_directories' = nd
  BY <1>4
<1>6. pd[p] = NULL /\ UNCHANGED <<curr_pid, tlb, stored>>
  BY DEF mmu_add_process
<1>7. Pinned \in Uses \ {Unused}
  BY MmuAssumption DEF Uses
<1> HIDE DEF m, m2, m3, pd, nd
\* The directory.
<1>8. /\ LooseInv(d.k, pd, d.f) /\ d.k.use[d.f] = Pinned
      /\ SameTables(kernel, d.k, pd) /\ SameContents(kernel, d.k, pd)
  BY <1>0, <1>7, AskLoose
<1>9. /\ KernelInv(d.k, nd)
      /\ \A h \in Frames : IsDir(nd, h) <=> IsDir(pd, h) \/ h = d.f
      /\ \A h : IsTable(d.k, nd, h) <=> IsTable(d.k, pd, h)
  BY <1>6, <1>8, AddDirectory DEF pd, nd
<1>10. Grows(kernel, d.k, pd)
  BY <1>8, SameIsGrown
<1>11. ContentsInv(d.k, pd, stored) /\ TlbInv(d.k, pd, curr_pid, tlb)
  BY <1>0, <1>10, GrowsContents, GrowsTlb
<1>12. /\ d.f \in Frames /\ d.f # NULL /\ \A i : <<d.f, i>> \notin DOMAIN d.k.entry
       /\ \A q \in Pids : nd[q] = IF q = p THEN d.f ELSE pd[q]
  <2>1. d.f \in Frames /\ \A e \in DOMAIN d.k.entry : e[1] # d.f
    BY <1>8, LooseFacts
  <2>2. \A i : <<d.f, i>>[1] = d.f
    OBVIOUS
  <2>3. pd \in [Pids -> Frames \cup {NULL}]
    BY <1>0 DEF KernelInv, DirTypes
  <2> QED
    BY <2>1, <2>2, <2>3, MmuAssumption DEF nd, pd
<1>13. ContentsInv(d.k, nd, stored)
  <2> SUFFICES ASSUME NEW q \in Pids, NEW v \in Pages
               PROVE  /\ nd[q] = NULL => stored[q][v] = ZERO
                      /\ Translatable(nd, q, v) =>
                           stored[q][v] = IF PdeIn(nd, q, v) \in DOMAIN d.k.entry
                             THEN Content(d.k, <<d.k.entry[PdeIn(nd, q, v)], TableIndex(v)>>) ELSE ZERO
    BY DEF ContentsInv
  <2>1. CASE q = p
    <3>1. nd[q] = d.f /\ stored[q][v] = ZERO
      BY <2>1, <1>6, <1>11, <1>12 DEF ContentsInv
    <3>2. PdeIn(nd, q, v) \notin DOMAIN d.k.entry
      BY <3>1, <1>12 DEF PdeIn
    <3> QED
      BY <3>1, <3>2, <1>12
  <2>2. CASE q # p
    <3>1. nd[q] = pd[q]
      BY <2>2, <1>12
    <3> QED
      BY <3>1, <1>11 DEF ContentsInv, PdeIn, Translatable
  <2> QED
    BY <2>1, <2>2
<1>14. TlbInv(d.k, nd, curr_pid, tlb)
  <2>1. ASSUME NEW v \in DOMAIN tlb PROVE nd[curr_pid] = pd[curr_pid]
    BY <1>0, <1>6, <1>11, <1>12 DEF TlbInv, Translatable
  <2> QED
    BY <2>1, <1>11 DEF TlbInv, PdeIn, Translatable
\* The first table.
<1>15. /\ LooseInv(t.k, nd, t.f) /\ t.k.use[t.f] = Pinned
       /\ SameTables(d.k, t.k, nd) /\ SameContents(d.k, t.k, nd)
       /\ \A e : e \in DOMAIN t.k.entry => e \in DOMAIN d.k.entry
  BY <1>7, <1>9, AskLoose
<1>16. 0 \in Idx /\ 1 \in Idx /\ 2 \in Idx
  BY MmuAssumption DEF Idx
<1>17. /\ <<d.f, 0>> \in Entries /\ IsDir(nd, <<d.f, 0>>[1]) /\ <<d.f, 0>> \notin DOMAIN t.k.entry
  <2>1. IsDir(nd, d.f)
    BY <1>9, <1>12
  <2> QED
    BY <2>1, <1>12, <1>15, <1>16 DEF Entries, Idx
<1>18. /\ KernelInv(m, nd)
       /\ \A e : e \in DOMAIN m.entry <=> e \in DOMAIN t.k.entry \/ e = <<d.f, 0>>
       /\ m.entry[<<d.f, 0>>] = t.f /\ \A e \in DOMAIN t.k.entry : m.entry[e] = t.k.entry[e]
       /\ \A h : IsTable(m, nd, h) <=> IsTable(t.k, nd, h) \/ h = t.f
       /\ SameContents(t.k, m, nd)
       /\ \A i : Content(m, <<t.f, i>>) = ZERO
       /\ m.disk = t.k.disk
  BY <1>15, <1>17, AddTable DEF m
<1>19. Grows(t.k, m, nd)
  BY <1>18 DEF Grows
<1>20. /\ t.f \in Frames /\ t.f # d.f /\ (\A i : <<t.f, i>> \notin DOMAIN m.entry)
       /\ \A i : <<t.f, i>> \notin DOMAIN m.disk
  <2>1. t.f \in Frames /\ ~IsDir(nd, t.f) /\ ~IsTable(t.k, nd, t.f)
        /\ (\A e \in DOMAIN t.k.entry : e[1] # t.f)
        /\ \A e \in DOMAIN t.k.disk : IsTable(t.k, nd, e[1])
    BY <1>15, LooseFacts
  <2>2. t.f # d.f
    BY <2>1, <1>9, <1>12
  <2>3. \A i : <<t.f, i>> \notin DOMAIN t.k.entry /\ <<t.f, i>> \notin DOMAIN t.k.disk
    <3>1. \A i : <<t.f, i>>[1] = t.f
      OBVIOUS
    <3> QED
      BY <3>1, <2>1
  <2> QED
    BY <2>1, <2>2, <2>3, <1>18
<1>21. ContentsInv(t.k, nd, stored) /\ TlbInv(t.k, nd, curr_pid, tlb)
  BY <1>0, <1>13, <1>14, <1>15, SameIsGrown, GrowsContents, GrowsTlb
<1>22. ContentsInv(m, nd, stored) /\ TlbInv(m, nd, curr_pid, tlb)
  BY <1>0, <1>19, <1>21, GrowsContents, GrowsTlb
\* Two pages.
<1>23. <<t.f, 1>> \in Entries /\ <<t.f, 2>> \in Entries
  BY <1>16, <1>20 DEF Entries, Idx
<1>24. /\ KernelInv(m2, nd) /\ SameTables(m, m2, nd) /\ SameContents(m, m2, nd)
       /\ \A e : e \in DOMAIN m2.entry \/ e \in DOMAIN m2.disk =>
              e \in DOMAIN m.entry \/ e \in DOMAIN m.disk \/ e = <<t.f, 1>>
  <2>1. IsTable(m, nd, <<t.f, 1>>[1])
    BY <1>18
  <2> QED
    BY <2>1, <1>18, <1>20, <1>23, FirstPage DEF m2
<1>25. KernelInv(m3, nd) /\ SameTables(m2, m3, nd) /\ SameContents(m2, m3, nd)
  <2>1. IsTable(m2, nd, <<t.f, 2>>[1])
    BY <1>18, <1>24, TablesSame
  <2>2. <<t.f, 2>> \notin DOMAIN m2.entry /\ <<t.f, 2>> \notin DOMAIN m2.disk
    BY <1>20, <1>24
  <2> QED
    BY <2>1, <2>2, <1>23, <1>24, FirstPage DEF m3
<1>26. ContentsInv(m2, nd, stored) /\ TlbInv(m2, nd, curr_pid, tlb)
  BY <1>0, <1>22, <1>24, SameIsGrown, GrowsContents, GrowsTlb
<1>27. ContentsInv(m3, nd, stored) /\ TlbInv(m3, nd, curr_pid, tlb)
  BY <1>0, <1>25, <1>26, SameIsGrown, GrowsContents, GrowsTlb
<1> QED
  BY <1>5, <1>6, <1>25, <1>27 DEF MmuInv

\* The frames of the processes.
LEMMA OwnerFacts ==
  ASSUME KernelInv(kernel, page_directories)
  PROVE  /\ \A p \in Live : page_directories[p] \in Frames
         /\ \A h : IsTable(kernel, page_directories, h) <=> \E p \in Live : h \in TablesOf(p)
         /\ \A h \in Frames : IsDir(page_directories, h) <=> \E p \in Live : h = page_directories[p]
         /\ \A p \in Live : TablesOf(p) \subseteq Frames /\ PagesOf(p) \subseteq Frames
         /\ \A p, q \in Live : p # q => FramesOf(p) \cap FramesOf(q) = {}
         /\ \A p \in Live : \A e \in PtesOf(p) \cap DOMAIN kernel.entry : kernel.use[kernel.entry[e]] = e
         /\ \A p, q \in Live : \A h : h \in TablesOf(p) /\ h \in TablesOf(q) => p = q
<1> DEFINE pd == page_directories
<1>1. /\ kernel \in KernelStates /\ DirTypes(pd) /\ EntriesRight(kernel, pd)
      /\ \A h \in Frames : UseRight(kernel, pd, h)
  BY DEF KernelInv
<1>2. /\ kernel.use \in [Frames -> Uses]
      /\ \A e \in DOMAIN kernel.entry : e \in Entries /\ kernel.entry[e] \in Frames /\ e[1] \in Frames
  BY <1>1, KernelType, EntryType
<1>3. NULL \notin Frames
  BY MmuAssumption
<1>4. \A p \in Live : pd[p] \in Frames
  BY <1>1 DEF DirTypes, Live
<1>5. \A h \in Frames : IsDir(pd, h) <=> \E p \in Live : h = pd[p]
  BY <1>3 DEF IsDir, Live
<1>6. \A h : IsTable(kernel, pd, h) <=> \E p \in Live : h \in TablesOf(p)
  BY <1>2, <1>5 DEF IsTable, TablesOf
<1>7. \A p \in Live : TablesOf(p) \subseteq Frames /\ PagesOf(p) \subseteq Frames
  BY <1>2 DEF TablesOf, PagesOf
<1>8. \A p \in Live : \A e \in PtesOf(p) \cap DOMAIN kernel.entry :
        e[1] \in TablesOf(p) /\ kernel.use[kernel.entry[e]] = e
  <2> SUFFICES ASSUME NEW p \in Live, NEW e \in PtesOf(p), e \in DOMAIN kernel.entry
               PROVE  e[1] \in TablesOf(p) /\ kernel.use[kernel.entry[e]] = e
    OBVIOUS
  <2>1. e[1] \in TablesOf(p)
    BY DEF PtesOf
  <2> QED
    BY <2>1, <1>1, <1>6 DEF EntriesRight
<1>9. \A p \in Live : \A h \in TablesOf(p) : kernel.use[h] = Pinned
  BY <1>1, <1>6, <1>7 DEF UseRight
<1>10. \A p \in Live : kernel.use[pd[p]] = Pinned
  BY <1>1, <1>4, <1>5 DEF UseRight
<1>11. \A p \in Live : \A h \in PagesOf(p) :
          kernel.use[h] # Pinned /\ \E e \in PtesOf(p) : kernel.use[h] = e /\ e[1] \in TablesOf(p)
  <2> SUFFICES ASSUME NEW p \in Live, NEW h \in PagesOf(p)
               PROVE  kernel.use[h] # Pinned /\ \E e \in PtesOf(p) : kernel.use[h] = e /\ e[1] \in TablesOf(p)
    OBVIOUS
  <2>1. PICK e \in PtesOf(p) : e \in DOMAIN kernel.entry /\ h = kernel.entry[e]
    BY DEF PagesOf
  <2>2. e \in Entries
    BY <2>1, <1>2
  <2> QED
    BY <2>1, <2>2, <1>8, EntryType
<1>12. \A p, q \in Live : \A h : h \in TablesOf(p) /\ h \in TablesOf(q) => p = q
  <2> SUFFICES ASSUME NEW p \in Live, NEW q \in Live, NEW h, h \in TablesOf(p), h \in TablesOf(q)
               PROVE  p = q
    OBVIOUS
  <2>1. PICK e \in DOMAIN kernel.entry : e[1] = pd[p] /\ h = kernel.entry[e]
    BY DEF TablesOf
  <2>2. PICK d \in DOMAIN kernel.entry : d[1] = pd[q] /\ h = kernel.entry[d]
    BY DEF TablesOf
  <2>3. IsDir(pd, e[1]) /\ IsDir(pd, d[1])
    BY <2>1, <2>2 DEF IsDir, Live
  <2>4. e = d
    BY <2>1, <2>2, <2>3, <1>1 DEF EntriesRight
  <2> QED
    BY <2>1, <2>2, <2>4, <1>1 DEF DirTypes, Live
<1>13. \A p, q \in Live : p # q => FramesOf(p) \cap FramesOf(q) = {}
  <2> SUFFICES ASSUME NEW p \in Live, NEW q \in Live, NEW h, h \in FramesOf(p), h \in FramesOf(q)
               PROVE  p = q
    OBVIOUS
  <2>1. (h = pd[p] \/ h \in TablesOf(p) \/ h \in PagesOf(p)) /\ (h = pd[q] \/ h \in TablesOf(q) \/ h \in PagesOf(q))
    BY DEF FramesOf
  <2>2. CASE h = pd[p] /\ h = pd[q]
    BY <2>2, <1>1 DEF DirTypes, Live
  <2>3. \A r, s \in Live : ~(h = pd[r] /\ h \in TablesOf(s))
    <3> SUFFICES ASSUME NEW r \in Live, NEW s \in Live, h = pd[r], h \in TablesOf(s) PROVE FALSE
      OBVIOUS
    <3>1. PICK e \in DOMAIN kernel.entry : e[1] = pd[s] /\ h = kernel.entry[e]
      BY DEF TablesOf
    <3>2. IsDir(pd, e[1]) /\ IsDir(pd, h)
      BY <3>1 DEF IsDir, Live
    <3> QED
      BY <3>1, <3>2, <1>1 DEF EntriesRight
  <2>4. CASE h \in TablesOf(p) /\ h \in TablesOf(q)
    BY <2>4, <1>12
  <2>5. \A r, s \in Live : h \in PagesOf(r) => h # pd[s] /\ h \notin TablesOf(s)
    BY <1>9, <1>10, <1>11
  <2>6. CASE h \in PagesOf(p) /\ h \in PagesOf(q)
    BY <2>6, <1>11, <1>12
  <2> QED
    BY <2>1, <2>2, <2>3, <2>4, <2>5, <2>6
<1> QED
  BY <1>4, <1>5, <1>6, <1>7, <1>8, <1>12, <1>13

LEMMA RemovedStep ==
  ASSUME MmuInv, NEW S, S \subseteq Live, Removed(S)
  PROVE  MmuInv'
<1> DEFINE pd == page_directories
           nd == page_directories'
           k == kernel
           n == kernel'
           Gone(h) == \E p \in S : h \in Returned(p)
<1>0. /\ KernelInv(k, pd) /\ ContentsInv(k, pd, stored) /\ TlbInv(k, pd, curr_pid, tlb)
      /\ curr_pid \in Pids /\ stored \in [Pids -> [Pages -> Contents0]]
  BY DEF MmuInv
<1>1. /\ k \in KernelStates /\ DirTypes(pd) /\ EntriesRight(k, pd)
      /\ (\A h \in Frames : UseRight(k, pd, h)) /\ \A e \in DOMAIN k.disk : IsTable(k, pd, e[1])
  BY <1>0 DEF KernelInv
<1>2. /\ k.use \in [Frames -> Uses] /\ k.data \in [Frames -> Contents0]
      /\ k.disk \in Partial(Entries, Contents0)
      /\ \A e \in DOMAIN k.entry : e \in Entries /\ k.entry[e] \in Frames /\ e[1] \in Frames
      /\ \A e \in DOMAIN k.disk : e \in Entries
  BY <1>1, KernelType, EntryType
<1>3. /\ n = [k EXCEPT !.use  = [f \in Frames |-> IF Gone(f) THEN Unused ELSE @[f]],
                       !.disk = Without(@, UNION {PtesOf(p) : p \in S})]
      /\ nd = [p \in Pids |-> IF p \in S THEN NULL ELSE pd[p]]
      /\ tlb' = IF curr_pid \in S THEN NoEntries ELSE tlb
      /\ stored' = [p \in Pids |-> IF p \in S THEN Blank[p] ELSE stored[p]]
      /\ curr_pid' = curr_pid
  BY DEF Removed
<1> DEFINE T == UNION {PtesOf(p) : p \in S}
           nu == [f \in Frames |-> IF Gone(f) THEN Unused ELSE k.use[f]]
<1>4. /\ Without(k.disk, T) \in Partial(Entries, Contents0)
      /\ \A e : e \in DOMAIN Without(k.disk, T) <=> e \in DOMAIN k.disk /\ e \notin T
      /\ \A e \in DOMAIN k.disk : e \notin T => Without(k.disk, T)[e] = k.disk[e]
  BY <1>2, WithoutEffect
<1>5. \A e : e \in T <=> \E p \in S : e \in PtesOf(p)
  OBVIOUS
<1> HIDE DEF T
<1>6. n = [k EXCEPT !.use = nu, !.disk = Without(k.disk, T)]
  BY <1>1, <1>3 DEF KernelStates, T
<1>7. nu \in [Frames -> Uses] /\ \A f \in Frames : nu[f] = IF Gone(f) THEN Unused ELSE k.use[f]
  BY <1>2 DEF Uses
<1> HIDE DEF nu
<1>8. n = [use |-> nu, data |-> k.data, entry |-> k.entry, disk |-> Without(k.disk, T)]
  BY <1>1, <1>6 DEF KernelStates
<1>9. n \in KernelStates
  BY <1>1, <1>4, <1>7, <1>8, KernelType DEF KernelStates
<1>10. n.use = nu /\ n.data = k.data /\ n.entry = k.entry /\ n.disk = Without(k.disk, T)
  BY <1>8
<1>o. /\ \A p \in Live : pd[p] \in Frames
      /\ \A h : IsTable(k, pd, h) <=> \E p \in Live : h \in TablesOf(p)
      /\ \A h \in Frames : IsDir(pd, h) <=> \E p \in Live : h = pd[p]
      /\ \A p \in Live : TablesOf(p) \subseteq Frames /\ PagesOf(p) \subseteq Frames
      /\ \A p, q \in Live : p # q => FramesOf(p) \cap FramesOf(q) = {}
      /\ \A p, q \in Live : \A h : h \in TablesOf(p) /\ h \in TablesOf(q) => p = q
  BY <1>0, OwnerFacts
<1>m. NULL \notin Frames /\ Unused # Pinned /\ Unused \notin Entries
  BY MmuAssumption
<1>p. \A p \in Live : p \in Pids /\ pd[p] # NULL
  BY DEF Live
<1> HIDE DEF n, nd, k, pd
<1>11. \A h \in Frames : IsDir(nd, h) <=> \E p \in Live \ S : h = pd[p]
  <2> SUFFICES ASSUME NEW h \in Frames PROVE IsDir(nd, h) <=> \E p \in Live \ S : h = pd[p]
    OBVIOUS
  <2>1. ASSUME IsDir(nd, h) PROVE \E p \in Live \ S : h = pd[p]
    <3>1. PICK p \in Pids : nd[p] = h
      BY <2>1 DEF IsDir
    <3>2. p \notin S /\ pd[p] = h /\ pd[p] # NULL
      BY <3>1, <1>3, <1>m
    <3>3. p \in Live
      BY <3>2 DEF Live, pd
    <3> QED
      BY <3>2, <3>3
  <2>2. ASSUME NEW p \in Live \ S, h = pd[p] PROVE IsDir(nd, h)
    BY <2>2, <1>3, <1>p DEF IsDir
  <2> QED
    BY <2>1, <2>2
<1>12. \A h : IsTable(n, nd, h) <=> \E p \in Live \ S : h \in TablesOf(p)
  BY <1>2, <1>10, <1>11 DEF IsTable, TablesOf, k, pd
<1>13. \A h \in Frames : IsDir(nd, h) => IsDir(pd, h)
  BY <1>11, <1>o
<1>14. \A h : IsTable(n, nd, h) => IsTable(k, pd, h)
  BY <1>12, <1>o
<1>15. \A p \in Live \ S : \A h \in FramesOf(p) : ~Gone(h)
  BY <1>o DEF Returned
<1>16. EntriesRight(n, nd)
  <2>1. \A e, d \in DOMAIN n.entry :
          IsDir(nd, e[1]) /\ IsDir(nd, d[1]) /\ n.entry[e] = n.entry[d] => e = d
    BY <1>1, <1>2, <1>10, <1>13 DEF EntriesRight
  <2>2. \A e \in DOMAIN n.entry : IsDir(nd, e[1]) => ~IsDir(nd, n.entry[e])
    BY <1>1, <1>2, <1>10, <1>13 DEF EntriesRight
  <2>3. ASSUME NEW e \in DOMAIN n.entry, IsTable(n, nd, e[1]) PROVE n.use[n.entry[e]] = e
    <3>1. e \in DOMAIN k.entry /\ k.use[k.entry[e]] = e /\ e \in Entries /\ k.entry[e] \in Frames
      BY <2>3, <1>1, <1>2, <1>10, <1>14 DEF EntriesRight
    <3>2. PICK p \in Live \ S : e[1] \in TablesOf(p)
      BY <2>3, <1>12
    <3>3. e \in PtesOf(p)
      BY <3>1, <3>2, EntryType DEF PtesOf, Idx
    <3>4. k.entry[e] \in FramesOf(p)
      BY <3>1, <3>3 DEF FramesOf, PagesOf, k
    <3> QED
      BY <3>1, <3>4, <1>7, <1>10, <1>15
  <2> QED
    BY <2>1, <2>2, <2>3 DEF EntriesRight
<1>17. ASSUME NEW h \in Frames PROVE UseRight(n, nd, h)
  <2>1. CASE Gone(h)
    <3>1. n.use[h] = Unused
      BY <2>1, <1>7, <1>10
    <3>2. \A p \in Live \ S : h \notin FramesOf(p)
      BY <2>1, <1>15
    <3>3. ~IsDir(nd, h) /\ ~IsTable(n, nd, h)
      BY <3>2, <1>11, <1>12 DEF FramesOf, pd
    <3> QED
      BY <3>1, <3>3, <1>m DEF UseRight
  <2>2. CASE ~Gone(h)
    <3>1. n.use[h] = k.use[h] /\ UseRight(k, pd, h)
      BY <2>2, <1>1, <1>7, <1>10
    <3>2. \A p \in S : h \notin FramesOf(p)
      BY <2>2 DEF Returned
    <3>3. IsDir(pd, h) => IsDir(nd, h)
      BY <3>2, <1>11, <1>o DEF FramesOf, pd
    <3>4. IsTable(k, pd, h) => IsTable(n, nd, h)
      BY <3>2, <1>12, <1>o DEF FramesOf
    <3>5. ASSUME k.use[h] \in Entries PROVE IsTable(n, nd, k.use[h][1])
      <4> DEFINE e == k.use[h]
      <4>1. e \in Entries /\ e \in DOMAIN k.entry /\ k.entry[e] = h /\ IsTable(k, pd, e[1])
        BY <3>1, <3>5 DEF UseRight
      <4>2. PICK p \in Live : e[1] \in TablesOf(p)
        BY <4>1, <1>o
      <4>3. e \in PtesOf(p)
        BY <4>1, <4>2, EntryType DEF PtesOf, Idx
      <4>4. h \in FramesOf(p)
        BY <4>1, <4>3 DEF FramesOf, PagesOf, k
      <4> QED
        BY <4>2, <4>4, <3>2, <1>12
    <3> QED
      BY <3>1, <3>3, <3>4, <3>5, <1>10, <1>13, <1>14 DEF UseRight
  <2> QED
    BY <2>1, <2>2
<1>18. ASSUME NEW e \in DOMAIN n.disk PROVE IsTable(n, nd, e[1])
  <2>1. e \in DOMAIN k.disk /\ e \notin T /\ e \in Entries /\ IsTable(k, pd, e[1])
    BY <1>1, <1>2, <1>4, <1>10
  <2>2. PICK p \in Live : e[1] \in TablesOf(p)
    BY <2>1, <1>o
  <2>3. e \in PtesOf(p)
    BY <2>1, <2>2, EntryType DEF PtesOf, Idx
  <2> QED
    BY <2>1, <2>2, <2>3, <1>5, <1>12
<1>19. DirTypes(nd)
  BY <1>1, <1>3 DEF DirTypes
<1>20. KernelInv(n, nd)
  BY <1>9, <1>16, <1>17, <1>18, <1>19 DEF KernelInv
<1>21. ASSUME NEW e, IsTable(n, nd, e[1]) PROVE Content(n, e) = Content(k, e)
  <2>1. e \notin T
    <3>1. PICK p \in Live \ S : e[1] \in TablesOf(p)
      BY <1>21, <1>12
    <3>2. ASSUME NEW q \in S, e \in PtesOf(q) PROVE FALSE
      <4>1. e[1] \in TablesOf(q) /\ q \in Live
        BY <3>2 DEF PtesOf
      <4> QED
        BY <4>1, <3>1, <3>2, <1>o
    <3> QED
      BY <3>2, <1>5
  <2> QED
    BY <2>1, <1>4, <1>10 DEF Content
<1>22. ContentsInv(n, nd, stored')
  <2> SUFFICES ASSUME NEW p \in Pids, NEW v \in Pages
               PROVE  /\ nd[p] = NULL => stored'[p][v] = ZERO
                      /\ Translatable(nd, p, v) =>
                           stored'[p][v] = IF PdeIn(nd, p, v) \in DOMAIN n.entry
                             THEN Content(n, <<n.entry[PdeIn(nd, p, v)], TableIndex(v)>>) ELSE ZERO
    BY DEF ContentsInv
  <2>1. CASE p \in S
    <3>1. nd[p] = NULL /\ stored'[p][v] = ZERO
      BY <2>1, <1>3 DEF Blank
    <3> QED
      BY <3>1 DEF Translatable
  <2>2. CASE p \notin S
    <3>1. nd[p] = pd[p] /\ stored'[p] = stored[p]
      BY <2>2, <1>3
    <3>2. ASSUME Translatable(nd, p, v), PdeIn(nd, p, v) \in DOMAIN n.entry
          PROVE  Content(n, <<n.entry[PdeIn(nd, p, v)], TableIndex(v)>>)
                   = Content(k, <<n.entry[PdeIn(nd, p, v)], TableIndex(v)>>)
      <4> DEFINE e == PdeIn(nd, p, v)
                 x == <<n.entry[e], TableIndex(v)>>
      <4>1. IsDir(nd, e[1])
        BY DEF PdeIn, IsDir
      <4>2. IsTable(n, nd, n.entry[e])
        BY <4>1, <3>2 DEF IsTable
      <4>3. x[1] = n.entry[e]
        OBVIOUS
      <4> HIDE DEF e, x
      <4>4. Content(n, x) = Content(k, x)
        BY <4>2, <4>3, <1>21
      <4> QED
        BY <4>4 DEF e, x
    <3> QED
      BY <3>1, <3>2, <1>0, <1>10 DEF ContentsInv, Translatable, PdeIn
  <2> QED
    BY <2>1, <2>2
<1>23. TlbInv(n, nd, curr_pid, tlb')
  <2>1. CASE curr_pid \in S
    <3>1. DOMAIN tlb' = {}
      BY <2>1, <1>3 DEF NoEntries
    <3> QED
      BY <3>1 DEF TlbInv
  <2>2. CASE curr_pid \notin S
    <3>1. tlb' = tlb /\ nd[curr_pid] = pd[curr_pid]
      BY <2>2, <1>0, <1>3
    <3> QED
      BY <3>1, <1>0, <1>10 DEF TlbInv, Translatable, PdeIn
  <2> QED
    BY <2>1, <2>2
<1>24. stored' \in [Pids -> [Pages -> Contents0]]
  BY <1>0, <1>3 DEF Blank, Contents0
<1> QED
  BY <1>0, <1>3, <1>20, <1>22, <1>23, <1>24 DEF MmuInv, n, nd

LEMMA MmuInitInv == ASSUME MmuInit PROVE MmuInv
<1> DEFINE pd == page_directories
<1>1. NULL \notin Frames /\ 0 \in Pids /\ Unused # Pinned /\ Unused \notin Entries
  BY MmuAssumption
<1>2. /\ curr_pid = 0 /\ DOMAIN tlb = {} /\ stored = Blank
      /\ \A p \in Pids : pd[p] = NULL
      /\ pd \in [Pids -> Frames \cup {NULL}]
  BY DEF MmuInit, NoEntries
<1>3. /\ DOMAIN NoEntries = {}
      /\ NoEntries \in Partial(Entries, Frames) /\ NoEntries \in Partial(Entries, Contents0)
  <2>1. {} \in SUBSET Entries /\ NoEntries \in [{} -> Frames] /\ NoEntries \in [{} -> Contents0]
    BY DEF NoEntries
  <2> QED
    BY <2>1 DEF Partial, NoEntries
<1>4. /\ kernel \in KernelStates /\ DOMAIN kernel.entry = {} /\ DOMAIN kernel.disk = {}
      /\ \A f \in Frames : kernel.use[f] = Unused
  BY <1>3 DEF MmuInit, KernelStates, Uses, Contents0
<1>5. \A f : f \in Frames => ~IsDir(pd, f)
  BY <1>1, <1>2 DEF IsDir
<1>6. \A f : ~IsTable(kernel, pd, f)
  BY <1>4 DEF IsTable
<1>7. KernelInv(kernel, pd)
  BY <1>1, <1>2, <1>4, <1>5, <1>6 DEF KernelInv, DirTypes, EntriesRight, UseRight
<1>8. stored \in [Pids -> [Pages -> Contents0]] /\ \A p \in Pids, v \in Pages : stored[p][v] = ZERO
  BY <1>2 DEF Blank, Contents0
<1>9. ContentsInv(kernel, pd, stored)
  BY <1>2, <1>4, <1>8 DEF ContentsInv
<1>10. TlbInv(kernel, pd, curr_pid, tlb)
  BY <1>2 DEF TlbInv
<1> QED
  BY <1>1, <1>2, <1>7, <1>8, <1>9, <1>10 DEF MmuInv

LEMMA MmuStepInv == ASSUME MmuInv, [MmuNext]_mmu_vars PROVE MmuInv'
<1>1. CASE UNCHANGED mmu_vars
  BY <1>1 DEF mmu_vars, MmuInv
<1>2. CASE MmuNext
  <2>1. CASE \E p \in Pids : mmu_add_process(p)
    BY <2>1, AddProcessStep
  <2>2. CASE \E p \in Pids : mmu_remove_process(p)
    <3>1. PICK p \in Pids : mmu_remove_process(p)
      BY <2>2
    <3>2. {p} \subseteq Live /\ Removed({p})
      BY <3>1 DEF mmu_remove_process, Live
    <3> QED
      BY <3>2, RemovedStep
  <2>3. CASE \E p \in Pids : \E v \in Pages : mmu_read_from_virtual_address(p, v)
    BY <2>3, ReadStep
  <2>4. CASE \E p \in Pids : \E v \in Pages : \E x \in Values : mmu_write_to_virtual_address(p, v, x)
    BY <2>4, WriteStep
  <2>5. CASE mmu_delete
    BY <2>5, RemovedStep DEF mmu_delete
  <2> QED
    BY <1>2, <2>1, <2>2, <2>3, <2>4, <2>5 DEF MmuNext, MmuStep
<1> QED
  BY <1>1, <1>2

\* The MMU's tables, its TLB and the pages it keeps for each process agree
\* after every call: directories and tables are pinned frames of their own,
\* the kernel's record of a page's frame names the entry that points to it,
\* the TLB's pointers are those a walk of the tables would find, and what a
\* process stored is in the frame or the swap file of its entry (mmu.c:52-243).
THEOREM MmuInvariant == MmuSpec => []MmuInv
<1>1. MmuInit => MmuInv
  BY MmuInitInv
<1>2. MmuInv /\ [MmuNext]_mmu_vars => MmuInv'
  BY MmuStepInv
<1> QED
  BY <1>1, <1>2, PTL DEF MmuSpec

\* The frames a directory, a table or a page is in are the frames in use, no
\* two processes share one, and a page that is paged out is taken from the
\* entry that points to it: removing a process (mmu.c:206-243) returns all of
\* its frames and none of another's.
THEOREM FramesCorrect == MmuSpec => []FramesOwned
<1>1. MmuInv => FramesOwned
  <2> SUFFICES ASSUME MmuInv PROVE FramesOwned
    OBVIOUS
  <2> DEFINE pd == page_directories
             k == kernel
  <2>1. KernelInv(k, pd)
    BY DEF MmuInv
  <2>2. /\ \A p \in Live : pd[p] \in Frames
        /\ \A h : IsTable(k, pd, h) <=> \E p \in Live : h \in TablesOf(p)
        /\ \A h \in Frames : IsDir(pd, h) <=> \E p \in Live : h = pd[p]
        /\ \A p \in Live : TablesOf(p) \subseteq Frames /\ PagesOf(p) \subseteq Frames
        /\ \A p, q \in Live : p # q => FramesOf(p) \cap FramesOf(q) = {}
        /\ \A p \in Live : \A e \in PtesOf(p) \cap DOMAIN k.entry : k.use[k.entry[e]] = e
    BY <2>1, OwnerFacts
  <2>3. /\ k.use \in [Frames -> Uses] /\ \A h \in Frames : UseRight(k, pd, h)
        /\ \A e \in DOMAIN k.entry : e \in Entries
    BY <2>1, KernelType DEF KernelInv
  <2>4. Unused # Pinned /\ Unused \notin Entries
    BY MmuAssumption
  <2>5. ASSUME NEW h \in Frames, NEW p \in Live, h \in FramesOf(p) PROVE k.use[h] # Unused
    <3>1. CASE h = pd[p] \/ h \in TablesOf(p)
      BY <3>1, <2>2, <2>3, <2>4 DEF UseRight
    <3>2. CASE h \in PagesOf(p)
      <4>1. PICK e \in PtesOf(p) \cap DOMAIN k.entry : h = k.entry[e]
        BY <3>2 DEF PagesOf
      <4> QED
        BY <4>1, <2>2, <2>3, <2>4
    <3> QED
      BY <2>5, <3>1, <3>2 DEF FramesOf
  <2>6. ASSUME NEW h \in Frames, k.use[h] # Unused PROVE \E p \in Live : h \in FramesOf(p)
    <3>1. CASE k.use[h] = Pinned
      BY <3>1, <2>2, <2>3 DEF UseRight, FramesOf
    <3>2. CASE k.use[h] \in Entries
      <4> DEFINE e == k.use[h]
      <4>1. e \in Entries /\ e \in DOMAIN k.entry /\ k.entry[e] = h /\ IsTable(k, pd, e[1])
        BY <3>2, <2>3 DEF UseRight
      <4>2. PICK p \in Live : e[1] \in TablesOf(p)
        BY <4>1, <2>2
      <4>3. e \in PtesOf(p)
        BY <4>1, <4>2, EntryType DEF PtesOf, Idx
      <4> QED
        BY <4>1, <4>2, <4>3 DEF FramesOf, PagesOf
    <3> QED
      BY <3>1, <3>2, <2>3, <2>6 DEF Uses
  <2>7. \A p \in Live : FramesOf(p) \subseteq Frames
    BY <2>2 DEF FramesOf
  <2>8. UNION {FramesOf(p) : p \in Live} = {f \in Frames : k.use[f] # Unused}
    BY <2>5, <2>6, <2>7
  <2> QED
    BY <2>2, <2>8 DEF FramesOwned
<1> QED
  BY <1>1, MmuInvariant, PTL

\* Whatever was written to a page of a process is what the process reads from
\* it next, across changes of process, pages swapped out and in, and process
\* numbers used again (mmu.c:24, 57, 226).
THEOREM ReadsCorrect == MmuSpec => []ReadsLastWrite
<1>1. MmuInv => ReadsLastWrite
  <2> SUFFICES ASSUME MmuInv, NEW p \in Pids, NEW v \in Pages, page_directories[p] # NULL,
                      DirectoryIndex(v) < NUM_ENTRIES
               PROVE  Visible(p, v) = stored[p][v]
    BY DEF ReadsLastWrite
  <2> DEFINE pd == page_directories
             e == <<kernel.entry[Pde(p, v)], TableIndex(v)>>
  <2>1. /\ Translatable(pd, p, v) /\ ContentsInv(kernel, pd, stored)
        /\ TlbInv(kernel, pd, p, TlbFor(p)) /\ kernel \in KernelStates
    BY TlbForRight DEF Translatable, MmuInv, KernelInv
  <2>2. stored[p][v] = IF Pde(p, v) \in DOMAIN kernel.entry THEN Content(kernel, e) ELSE ZERO
    BY <2>1 DEF ContentsInv, PdeIn, Pde
  <2>3. EntryFor(p, v) = IF Pde(p, v) \in DOMAIN kernel.entry THEN e ELSE NULL
    BY <2>1 DEF EntryFor, TlbInv, PdeIn, Pde, Pte
  <2>4. Pde(p, v) \in DOMAIN kernel.entry => e # NULL
    <3>1. Pde(p, v) \in DOMAIN kernel.entry => kernel.entry[Pde(p, v)] \in Frames
      BY <2>1, KernelType
    <3>2. Pde(p, v) \in DOMAIN kernel.entry => e \in Entries
      BY <3>1, IndexType DEF Entries, Idx
    <3> QED
      BY <3>2, MmuAssumption
  <2> QED
    BY <2>2, <2>3, <2>4 DEF Visible, Content
<1> QED
  BY <1>1, MmuInvariant, PTL

-----------------------------------------------------------------------------
(* malloc/alloc.c *)

BlockTypes == [at : Nat, size : Nat, free : BOOLEAN]
MemTypes == [chain : Seq(BlockTypes), brk : Nat \ {0}, total_free_blocks : Int, holed : BOOLEAN,
             status : {"ordered", "disordered", "crashed"}]

\* The blocks lie one below the other, and without a hole they touch.
ChainOrdered(c, top, hole) ==
  /\ \A k \in 1 .. Len(c) : c[k].size > 0 /\ c[k].at > 0 /\ End(c[k]) <= top
  /\ \A i, k \in 1 .. Len(c) : i < k => End(c[k]) <= c[i].at
  /\ ~hole => \A k \in 1 .. Len(c) : End(c[k]) = IF k = 1 THEN top ELSE c[k - 1].at

BlocksOf(c) == {c[k] : k \in 1 .. Len(c)}
InUse(c) == {b \in BlocksOf(c) : ~b.free}
FreeOnes(c) == {b \in BlocksOf(c) : b.free}

MemInv(m) ==
  /\ m \in MemTypes
  /\ ChainOrdered(m.chain, m.brk, m.holed)
  /\ Cardinality(FreeOnes(m.chain)) <= m.total_free_blocks

\* What callers hold are the blocks that are not free.
HeldInv(used, H) ==
  /\ H \subseteq [at : Nat, want : Nat]
  /\ \A h \in H : \E b \in used : Payload(b) = h.at /\ (h.want <= SIZE_MAX => b.size >= h.want)
  /\ \A b \in used : \E h \in H : h.at = Payload(b)
  /\ \A g, h \in H : g.at = h.at => g = h

AllocInv == Working => MemInv(mem) /\ HeldInv(InUse(mem.chain), held)

LEMMA BlockType ==
  ASSUME NEW c, c \in Seq(BlockTypes), NEW k \in 1 .. Len(c)
  PROVE  /\ c[k] \in BlockTypes /\ c[k].at \in Nat /\ c[k].size \in Nat /\ c[k].free \in BOOLEAN
         /\ End(c[k]) \in Nat /\ Payload(c[k]) \in Nat /\ c[k].at < End(c[k])
<1> DEFINE a == c[k].at
           z == c[k].size
<1>1. c[k] \in BlockTypes
  OBVIOUS
<1>2. a \in Nat /\ z \in Nat /\ c[k].free \in BOOLEAN
  BY <1>1 DEF BlockTypes
<1> HIDE DEF a, z
<1>3. a + META + z \in Nat /\ a + META \in Nat /\ a < a + META + z
  BY <1>2, AllocAssumption
<1> QED
  BY <1>1, <1>2, <1>3 DEF End, Payload, a, z

\* Different places have blocks at different addresses.
LEMMA AddressesDiffer ==
  ASSUME NEW c, c \in Seq(BlockTypes), NEW top, NEW hole, ChainOrdered(c, top, hole),
         NEW i \in 1 .. Len(c), NEW k \in 1 .. Len(c), c[i].at = c[k].at
  PROVE  i = k
<1>1. \A x \in 1 .. Len(c) : c[x].at \in Nat /\ End(c[x]) \in Nat /\ c[x].at < End(c[x])
  BY BlockType
<1>2. \A x, y \in 1 .. Len(c) : x < y => End(c[y]) <= c[x].at
  BY DEF ChainOrdered
<1>3. i \in Nat /\ k \in Nat
  OBVIOUS
<1>4. CASE i < k
  BY <1>1, <1>2, <1>4
<1>5. CASE k < i
  BY <1>1, <1>2, <1>5
<1> QED
  BY <1>3, <1>4, <1>5

LEMMA BlocksFinite ==
  ASSUME NEW c, c \in Seq(BlockTypes)
  PROVE  /\ IsFiniteSet(BlocksOf(c)) /\ IsFiniteSet(FreeOnes(c)) /\ IsFiniteSet(InUse(c))
         /\ Range(c) = BlocksOf(c)
<1>1. DOMAIN c = 1 .. Len(c) /\ Len(c) \in Nat
  OBVIOUS
<1>2. IsFiniteSet(BlocksOf(c))
  <2>1. IsFiniteSet(1 .. Len(c))
    BY <1>1, FS_Interval
  <2>2. c \in Surjection(1 .. Len(c), BlocksOf(c))
    <3>1. c \in [1 .. Len(c) -> BlocksOf(c)]
      BY <1>1 DEF BlocksOf
    <3> QED
      BY <3>1 DEF BlocksOf, Surjection
  <2> QED
    BY <2>1, <2>2, FS_Surjection
<1>3. FreeOnes(c) \subseteq BlocksOf(c) /\ InUse(c) \subseteq BlocksOf(c)
  BY DEF FreeOnes, InUse
<1>4. Range(c) = BlocksOf(c)
  BY <1>1 DEF Range, BlocksOf
<1> QED
  BY <1>2, <1>3, <1>4, FS_Subset

-----------------------------------------------------------------------------
(* Blocks i + 1 to j of chain c are replaced by those of s. *)

Spliced(c, t, i, j, s) ==
  /\ t \in Seq(BlockTypes) /\ Len(t) = Len(c) - (j - i) + Len(s)
  /\ \A x \in 1 .. i : t[x] = c[x]
  /\ \A x \in 1 .. Len(s) : t[i + x] = s[x]
  /\ \A x \in j + 1 .. Len(c) : t[x - j + i + Len(s)] = c[x]

LEMMA SplicedSequence ==
  ASSUME NEW c, c \in Seq(BlockTypes), NEW s, s \in Seq(BlockTypes),
         NEW j \in 1 .. Len(c), NEW i \in 0 .. j - 1
  PROVE  Spliced(c, SubSeq(c, 1, i) \o s \o SubSeq(c, j + 1, Len(c)), i, j, s)
<1> DEFINE a == SubSeq(c, 1, i)
           z == SubSeq(c, j + 1, Len(c))
<1>1. Len(c) \in Nat /\ Len(s) \in Nat /\ j <= Len(c)
  OBVIOUS
<1>2. a \in Seq(BlockTypes) /\ Len(a) = i /\ \A x \in 1 .. i : a[x] = c[x]
  BY <1>1
<1>3. /\ z \in Seq(BlockTypes) /\ Len(z) = Len(c) - j
      /\ \A x \in 1 .. Len(c) - j : z[x] = c[j + x]
  BY <1>1
<1> HIDE DEF a, z
<1>4. /\ a \o s \in Seq(BlockTypes) /\ Len(a \o s) = i + Len(s)
      /\ \A x \in 1 .. i : (a \o s)[x] = c[x]
      /\ \A x \in 1 .. Len(s) : (a \o s)[i + x] = s[x]
  <2>1. a \o s \in Seq(BlockTypes) /\ Len(a \o s) = Len(a) + Len(s)
    BY <1>2, ConcatProperties
  <2>2. \A x \in 1 .. Len(a) : (a \o s)[x] = a[x]
    BY <1>2
  <2>3. \A x \in 1 .. Len(s) : (a \o s)[Len(a) + x] = s[x]
    BY <1>2
  <2> QED
    BY <2>1, <2>2, <2>3, <1>2
<1> DEFINE u == a \o s
           t == u \o z
<1> HIDE DEF u
<1>u. u \in Seq(BlockTypes) /\ Len(u) = i + Len(s)
  BY <1>4 DEF u
<1>5. /\ t \in Seq(BlockTypes) /\ Len(t) = i + Len(s) + Len(c) - j
      /\ \A x \in 1 .. i + Len(s) : t[x] = u[x]
      /\ \A x \in 1 .. Len(c) - j : t[i + Len(s) + x] = c[j + x]
  <2>1. t \in Seq(BlockTypes) /\ Len(t) = Len(u) + Len(z)
    BY <1>3, <1>u, ConcatProperties
  <2>2. \A x \in 1 .. Len(u) : t[x] = u[x]
    BY <1>3, <1>u
  <2>3. \A x \in 1 .. Len(z) : t[Len(u) + x] = z[x]
    BY <1>3, <1>u
  <2> HIDE DEF t
  <2> QED
    BY <2>1, <2>2, <2>3, <1>1, <1>3, <1>u
<1> HIDE DEF t
<1>6. \A x \in j + 1 .. Len(c) : t[x - j + i + Len(s)] = c[x]
  <2> SUFFICES ASSUME NEW x \in j + 1 .. Len(c) PROVE t[x - j + i + Len(s)] = c[x]
    OBVIOUS
  <2>1. x - j \in 1 .. Len(c) - j /\ j + (x - j) = x /\ i + Len(s) + (x - j) = x - j + i + Len(s)
    BY <1>1
  <2> QED
    BY <2>1, <1>5
<1>7. /\ \A x \in 1 .. i : t[x] = c[x]
      /\ \A x \in 1 .. Len(s) : t[i + x] = s[x]
  <2>1. /\ \A x \in 1 .. i : u[x] = c[x]
        /\ \A x \in 1 .. Len(s) : u[i + x] = s[x]
    BY <1>4 DEF u
  <2>2. /\ \A x \in 1 .. i : x \in 1 .. i + Len(s)
        /\ \A x \in 1 .. Len(s) : i + x \in 1 .. i + Len(s)
    BY <1>1
  <2> QED
    BY <2>1, <2>2, <1>5
<1>8. Spliced(c, t, i, j, s)
  BY <1>1, <1>5, <1>6, <1>7 DEF Spliced
<1> QED
  BY <1>8 DEF t, u, a, z

\* The new blocks fill the place of the old ones, or less of it.
FitsIn(c, i, j, s, hole) ==
  /\ Len(s) \in {1, 2} /\ \A x \in 1 .. Len(s) : s[x].size > 0
  /\ s[Len(s)].at = c[j].at
  /\ End(s[1]) <= End(c[i + 1]) /\ (~hole => End(s[1]) = End(c[i + 1]))
  /\ Len(s) = 2 => End(s[2]) = s[1].at

LEMMA SplicedOrdered ==
  ASSUME NEW c, c \in Seq(BlockTypes), NEW s, s \in Seq(BlockTypes), NEW t,
         NEW j \in 1 .. Len(c), NEW i \in 0 .. j - 1, Spliced(c, t, i, j, s),
         NEW top \in Nat, NEW hole, ChainOrdered(c, top, hole), FitsIn(c, i, j, s, hole)
  PROVE  ChainOrdered(t, top, hole)
<1> DEFINE n == Len(s)
           N == Len(c)
           L == Len(t)
           d == j - i - n
<1>1. N \in Nat /\ n \in {1, 2} /\ L = N - d /\ j <= N /\ L \in Nat /\ d \in Int
  BY DEF Spliced, FitsIn
<1>j. j \in 1 .. N
  OBVIOUS
<1>2. \A x \in 1 .. N : c[x].at \in Nat /\ End(c[x]) \in Nat /\ c[x].at < End(c[x])
  BY BlockType
<1>3. \A x \in 1 .. n : s[x].at \in Nat /\ End(s[x]) \in Nat /\ s[x].at < End(s[x])
  BY BlockType
<1>4. /\ \A x \in 1 .. N : c[x].size > 0 /\ c[x].at > 0 /\ End(c[x]) <= top
      /\ \A x, y \in 1 .. N : x < y => End(c[y]) <= c[x].at
      /\ ~hole => \A x \in 1 .. N : End(c[x]) = IF x = 1 THEN top ELSE c[x - 1].at
  BY DEF ChainOrdered
<1>5. /\ \A x \in 1 .. n : s[x].size > 0
      /\ s[n].at = c[j].at /\ End(s[1]) <= End(c[i + 1]) /\ (~hole => End(s[1]) = End(c[i + 1]))
      /\ n = 2 => End(s[2]) = s[1].at
  BY DEF FitsIn
<1>6. /\ \A y \in 1 .. i : t[y] = c[y]
      /\ \A x \in 1 .. n : t[i + x] = s[x]
      /\ \A x \in j + 1 .. N : t[x - d] = c[x]
  <2>1. \A x \in j + 1 .. N : x - j + i + n = x - d
    BY <1>1
  <2> QED
    BY <2>1 DEF Spliced
<1>m. META \in Nat /\ META > 0
  BY AllocAssumption
<1> HIDE DEF n, N, L, d
<1> DEFINE Low(y) == y \in 1 .. i
           Mid(y) == y \in i + 1 .. i + n
           High(y) == y \in i + n + 1 .. L
<1>7. \A y \in 1 .. L : Low(y) \/ Mid(y) \/ High(y)
  BY <1>1
<1>8. ASSUME NEW y \in 1 .. L, Mid(y)
      PROVE  \E x \in 1 .. n : y = i + x /\ t[y] = s[x]
  <2>1. y - i \in 1 .. n /\ y = i + (y - i)
    BY <1>1, <1>8
  <2> QED
    BY <2>1, <1>6
<1>9. ASSUME NEW y \in 1 .. L, High(y)
      PROVE  y + d \in j + 1 .. N /\ t[y] = c[y + d]
  <2>1. y + d \in j + 1 .. N /\ (y + d) - d = y
    BY <1>1, <1>9 DEF d
  <2> QED
    BY <2>1, <1>6
<1>10. \A x \in 1 .. n : /\ c[j].at <= s[x].at /\ End(s[x]) <= End(c[i + 1]) /\ s[x].at > 0
                         /\ End(s[x]) <= top
  <2>1. i + 1 \in 1 .. N /\ j \in 1 .. N /\ n \in {1, 2} /\ 1 \in 1 .. n /\ n \in 1 .. n
    BY <1>1
  <2>2. /\ End(s[1]) \in Nat /\ End(c[i + 1]) \in Nat /\ End(s[1]) <= End(c[i + 1]) /\ End(c[i + 1]) <= top
        /\ s[1].at \in Nat /\ s[1].at < End(s[1]) /\ s[n].at = c[j].at /\ c[j].at > 0 /\ c[j].at \in Nat
    BY <2>1, <1>2, <1>3, <1>4, <1>5
  <2>3. CASE n = 1
    <3>1. \A x \in 1 .. n : x = 1
      BY <2>3
    <3> QED
      BY <3>1, <2>2, <2>3
  <2>4. CASE n = 2
    <3>1. (\A x \in 1 .. n : x = 1 \/ x = 2) /\ 2 \in 1 .. n
      BY <2>4
    <3>2. End(s[2]) = s[1].at /\ s[2].at < End(s[2]) /\ s[2].at = c[j].at
      BY <2>4, <3>1, <1>3, <1>5
    <3>3. /\ c[j].at <= s[1].at /\ End(s[1]) <= top /\ s[1].at > 0
          /\ c[j].at <= s[2].at /\ End(s[2]) <= End(c[i + 1]) /\ End(s[2]) <= top /\ s[2].at > 0
      <4> DEFINE a == s[1].at
                 b == s[2].at
                 p == End(s[1])
                 q == End(s[2])
                 e == End(c[i + 1])
      <4>1. /\ a \in Nat /\ p \in Nat /\ e \in Nat /\ q = a /\ b = c[j].at /\ b \in Nat
            /\ b < q /\ a < p /\ p <= e /\ e <= top /\ b > 0
        BY <3>2, <2>2
      <4> HIDE DEF a, b, p, q, e
      <4>2. b <= a /\ p <= top /\ a > 0 /\ q <= e /\ q <= top
        BY <4>1
      <4> QED
        BY <4>1, <4>2 DEF a, b, p, q, e
    <3> QED
      BY <3>1, <3>3, <2>2
  <2> QED
    BY <2>1, <2>3, <2>4
<1>11. \A y \in 1 .. L : t[y].size > 0 /\ t[y].at > 0 /\ End(t[y]) <= top
  <2> SUFFICES ASSUME NEW y \in 1 .. L PROVE t[y].size > 0 /\ t[y].at > 0 /\ End(t[y]) <= top
    OBVIOUS
  <2>1. CASE Low(y)
    BY <2>1, <1>1, <1>4, <1>6
  <2>2. CASE Mid(y)
    BY <2>2, <1>5, <1>8, <1>10
  <2>3. CASE High(y)
    BY <2>3, <1>1, <1>4, <1>9
  <2> QED
    BY <2>1, <2>2, <2>3, <1>7
<1>12. ASSUME NEW x \in 1 .. L, NEW y \in 1 .. L, x < y PROVE End(t[y]) <= t[x].at
  <2>1. CASE Low(x) /\ Low(y)
    BY <2>1, <1>1, <1>4, <1>6, <1>12
  <2>2. CASE Low(x) /\ Mid(y)
    <3>1. PICK z \in 1 .. n : t[y] = s[z]
      BY <2>2, <1>8
    <3>2. x \in 1 .. i /\ x \in 1 .. N /\ i + 1 \in 1 .. N /\ x < i + 1
      BY <2>2, <1>1
    <3>3. t[x] = c[x] /\ End(c[i + 1]) <= c[x].at /\ End(c[i + 1]) \in Nat /\ c[x].at \in Nat
      BY <3>2, <1>2, <1>4, <1>6
    <3>4. End(s[z]) <= End(c[i + 1]) /\ End(s[z]) \in Nat
      BY <1>3, <1>10
    <3> QED
      BY <3>1, <3>3, <3>4
  <2>3. CASE Low(x) /\ High(y)
    <3>1. x \in 1 .. N /\ t[x] = c[x]
      BY <2>3, <1>1, <1>6
    <3>2. y + d \in j + 1 .. N /\ t[y] = c[y + d]
      BY <2>3, <1>9
    <3>3. y + d \in 1 .. N /\ x < y + d
      BY <2>3, <3>2, <1>1
    <3>4. End(c[y + d]) <= c[x].at
      BY <3>1, <3>3, <1>4
    <3> QED
      BY <3>1, <3>2, <3>4
  <2>4. CASE Mid(x) /\ Mid(y)
    <3>1. x = i + 1 /\ y = i + 2 /\ n = 2
      BY <2>4, <1>1, <1>12
    <3>2. t[x] = s[1] /\ t[y] = s[2] /\ 1 \in 1 .. n
      BY <3>1, <1>6
    <3>3. s[1].at \in Nat /\ End(s[2]) = s[1].at
      BY <3>1, <3>2, <1>3, <1>5
    <3> QED
      BY <3>2, <3>3
  <2>5. CASE Mid(x) /\ High(y)
    <3>1. PICK z \in 1 .. n : t[x] = s[z]
      BY <2>5, <1>8
    <3>2. t[y] = c[y + d] /\ y + d \in j + 1 .. N
      BY <2>5, <1>9
    <3>3. y + d \in 1 .. N /\ j < y + d
      BY <3>2, <1>1
    <3>4. End(c[y + d]) <= c[j].at /\ End(c[y + d]) \in Nat /\ c[j].at \in Nat
      BY <3>3, <1>j, <1>2, <1>4
    <3>5. c[j].at <= s[z].at /\ s[z].at \in Nat
      BY <1>3, <1>10
    <3> DEFINE p == End(c[y + d])
               q == c[j].at
               w == s[z].at
    <3>6. p \in Nat /\ q \in Nat /\ w \in Nat /\ p <= q /\ q <= w
      BY <3>4, <3>5
    <3> HIDE DEF p, q, w
    <3>7. p <= w
      BY <3>6
    <3> QED
      BY <3>1, <3>2, <3>7 DEF p, w
  <2>6. CASE High(x) /\ High(y)
    <3>0. x + d \in j + 1 .. N /\ y + d \in j + 1 .. N
      BY <2>6, <1>9
    <3>1. x + d \in 1 .. N /\ y + d \in 1 .. N /\ x + d < y + d
      BY <3>0, <1>1, <1>12
    <3> QED
      BY <3>1, <2>6, <1>4, <1>9
  <2>7. ~(Mid(x) /\ Low(y)) /\ ~(High(x) /\ Low(y)) /\ ~(High(x) /\ Mid(y))
    BY <1>1, <1>12
  <2> QED
    BY <2>1, <2>2, <2>3, <2>4, <2>5, <2>6, <2>7, <1>7
<1>13. ASSUME ~hole, NEW y \in 1 .. L PROVE End(t[y]) = IF y = 1 THEN top ELSE t[y - 1].at
  <2>h. \A x \in 1 .. N : End(c[x]) = IF x = 1 THEN top ELSE c[x - 1].at
    BY <1>4, <1>13
  <2>1. CASE Low(y)
    <3>1. t[y] = c[y] /\ y \in 1 .. N /\ (y # 1 => t[y - 1] = c[y - 1])
      BY <2>1, <1>1, <1>6
    <3> QED
      BY <3>1, <2>h
  <2>2. CASE y = i + 1
    <3>1. t[y] = s[1] /\ End(s[1]) = End(c[i + 1]) /\ i + 1 \in 1 .. N
      <4>1. 1 \in 1 .. n /\ i + 1 \in 1 .. N
        BY <1>1
      <4> QED
        BY <4>1, <2>2, <1>5, <1>6, <1>13
    <3>2. y # 1 => y - 1 = i /\ t[i] = c[i]
      BY <2>2, <1>1, <1>6
    <3> QED
      BY <3>1, <3>2, <2>2, <2>h
  <2>3. CASE Mid(y) /\ y # i + 1
    <3>1. y = i + 2 /\ n = 2 /\ y - 1 = i + 1 /\ y # 1
      BY <2>3, <1>1
    <3>2. t[y] = s[2] /\ t[y - 1] = s[1]
      BY <3>1, <1>6
    <3> QED
      BY <3>1, <3>2, <1>5
  <2>4. CASE y = i + n + 1
    <3>1. t[y] = c[j + 1] /\ j + 1 \in 1 .. N /\ y - 1 = i + n /\ y # 1 /\ j + 1 # 1
      <4>1. High(y) /\ y + d = j + 1
        BY <2>4, <1>1 DEF d
      <4> QED
        BY <4>1, <2>4, <1>1, <1>9
    <3>2. t[y - 1] = s[n] /\ s[n].at = c[j].at
      BY <3>1, <1>1, <1>5, <1>6
    <3>3. End(c[j + 1]) = c[j].at
      BY <3>1, <2>h
    <3> QED
      BY <3>1, <3>2, <3>3
  <2>5. CASE High(y) /\ y # i + n + 1
    <3>0. y + d \in j + 1 .. N /\ t[y] = c[y + d]
      BY <2>5, <1>9
    <3>1. High(y - 1) /\ y - 1 \in 1 .. L /\ y # 1 /\ y + d # 1
      BY <2>5, <3>0, <1>1
    <3>a. (y - 1) + d = (y + d) - 1
      BY <1>1
    <3>2. t[y] = c[y + d] /\ t[y - 1] = c[(y + d) - 1] /\ y + d \in 1 .. N
      BY <3>0, <3>1, <3>a, <1>1, <1>9
    <3> QED
      BY <3>1, <3>2, <2>h
  <2> QED
    BY <2>1, <2>2, <2>3, <2>4, <2>5, <1>7
<1> QED
  BY <1>11, <1>12, <1>13 DEF ChainOrdered, L

Cut(c, i, j) == {c[x] : x \in i + 1 .. j}

\* What a splice does to the set of blocks, and that each block is cut once.
LEMMA SplicedBlocks ==
  ASSUME NEW c, c \in Seq(BlockTypes), NEW s, s \in Seq(BlockTypes), NEW t,
         NEW j \in 1 .. Len(c), NEW i \in 0 .. j - 1, Spliced(c, t, i, j, s),
         NEW top, NEW hole, ChainOrdered(c, top, hole)
  PROVE  /\ BlocksOf(t) = (BlocksOf(c) \ Cut(c, i, j)) \cup BlocksOf(s)
         /\ Cut(c, i, j) \subseteq BlocksOf(c)
         /\ IsFiniteSet(Cut(c, i, j)) /\ Cardinality(Cut(c, i, j)) = j - i
<1> DEFINE N == Len(c)
           n == Len(s)
           L == Len(t)
           d == j - i - n
           R == Cut(c, i, j)
<1>1. N \in Nat /\ n \in Nat /\ L = N - d /\ j <= N /\ L \in Nat /\ d \in Int
  BY DEF Spliced
<1>2. /\ \A y \in 1 .. i : t[y] = c[y]
      /\ \A x \in 1 .. n : t[i + x] = s[x]
      /\ \A x \in j + 1 .. N : t[x - d] = c[x]
  <2>1. \A x \in j + 1 .. N : x - j + i + n = x - d
    BY <1>1
  <2> QED
    BY <2>1 DEF Spliced
<1>3. \A x, y \in 1 .. N : c[x] = c[y] => x = y
  BY AddressesDiffer DEF N
<1> HIDE DEF N, n, L, d
<1>4. i + 1 .. j \subseteq 1 .. N
  BY <1>1
<1>5. R \subseteq BlocksOf(c)
  BY <1>4 DEF Cut, BlocksOf, N
<1>6. \A x \in 1 .. N : c[x] \in R <=> x \in i + 1 .. j
  BY <1>3, <1>4 DEF Cut
<1>7. ASSUME NEW b \in BlocksOf(t) PROVE b \in (BlocksOf(c) \ R) \cup BlocksOf(s)
  <2>1. PICK y \in 1 .. L : b = t[y]
    BY DEF BlocksOf, L
  <2>2. CASE y \in 1 .. i
    <3>1. y \in 1 .. N /\ y \notin i + 1 .. j /\ b = c[y]
      BY <2>1, <2>2, <1>1, <1>2
    <3> QED
      BY <3>1, <1>6 DEF BlocksOf, N
  <2>3. CASE y \in i + 1 .. i + n
    <3>1. y - i \in 1 .. n /\ i + (y - i) = y
      BY <2>3, <1>1
    <3>2. b = s[y - i]
      BY <3>1, <2>1, <1>2
    <3> QED
      BY <3>1, <3>2 DEF BlocksOf, n
  <2>4. CASE y \in i + n + 1 .. L
    <3>1. y + d \in j + 1 .. N /\ (y + d) - d = y
      BY <2>4, <1>1 DEF d
    <3>2. b = c[y + d]
      BY <3>1, <2>1, <1>2
    <3>3. y + d \in 1 .. N /\ y + d \notin i + 1 .. j
      BY <3>1, <1>1
    <3> QED
      BY <3>2, <3>3, <1>6 DEF BlocksOf, N
  <2> QED
    BY <2>1, <2>2, <2>3, <2>4, <1>1
<1>8. ASSUME NEW b \in BlocksOf(c), b \notin R PROVE b \in BlocksOf(t)
  <2>1. PICK x \in 1 .. N : b = c[x]
    BY DEF BlocksOf, N
  <2>2. x \notin i + 1 .. j
    BY <2>1, <1>6, <1>8
  <2>3. CASE x \in 1 .. i
    <3>1. x \in 1 .. L
      BY <2>3, <1>1 DEF d
    <3> QED
      BY <3>1, <2>1, <2>3, <1>2 DEF BlocksOf, L
  <2>4. CASE x \in j + 1 .. N
    <3>1. x - d \in 1 .. L
      BY <2>4, <1>1 DEF d
    <3> QED
      BY <3>1, <2>1, <2>4, <1>2 DEF BlocksOf, L
  <2> QED
    BY <2>2, <2>3, <2>4, <1>1
<1>9. BlocksOf(s) \subseteq BlocksOf(t)
  <2> SUFFICES ASSUME NEW x \in 1 .. n PROVE s[x] \in BlocksOf(t)
    BY DEF BlocksOf, n
  <2>1. i + x \in 1 .. L
    BY <1>1 DEF d
  <2> QED
    BY <2>1, <1>2 DEF BlocksOf, L
<1>10. BlocksOf(t) = (BlocksOf(c) \ R) \cup BlocksOf(s)
  BY <1>7, <1>8, <1>9
<1>11. IsFiniteSet(R) /\ Cardinality(R) = j - i
  <2> DEFINE f == [x \in i + 1 .. j |-> c[x]]
  <2>1. f \in Bijection(i + 1 .. j, R)
    <3>1. f \in [i + 1 .. j -> R]
      BY DEF Cut
    <3>2. \A x, y \in i + 1 .. j : f[x] = f[y] => x = y
      BY <1>3, <1>4
    <3>3. \A b \in R : \E x \in i + 1 .. j : f[x] = b
      BY DEF Cut
    <3> HIDE DEF f
    <3> QED
      BY <3>1, <3>2, <3>3 DEF Bijection, Injection, Surjection, IsInjective
  <2>2. IsFiniteSet(i + 1 .. j) /\ Cardinality(i + 1 .. j) = j - i
    BY <1>1, FS_Interval
  <2>3. ExistsBijection(i + 1 .. j, R)
    BY <2>1 DEF ExistsBijection
  <2> QED
    BY <2>2, <2>3, FS_Bijection
<1> QED
  BY <1>5, <1>10, <1>11

\* New blocks in the place of free ones; the last of them is used.
Replaces(m, r, i, j, s) ==
  /\ MemInv(m) /\ r \in MemTypes /\ s \in Seq(BlockTypes)
  /\ j \in 1 .. Len(m.chain) /\ i \in 0 .. j - 1
  /\ Spliced(m.chain, r.chain, i, j, s) /\ FitsIn(m.chain, i, j, s, m.holed)
  /\ \A x \in i + 1 .. j : m.chain[x].free
  /\ ~s[Len(s)].free /\ (Len(s) = 2 => s[1].free)
  /\ r.brk = m.brk /\ r.holed = m.holed
  /\ r.total_free_blocks >= m.total_free_blocks - (j - i) + (Len(s) - 1)

LEMMA SpliceTakes ==
  ASSUME NEW m, NEW r, NEW i, NEW j, NEW s, Replaces(m, r, i, j, s)
  PROVE  LET b == s[Len(s)] IN
         /\ MemInv(r) /\ i + Len(s) \in 1 .. Len(r.chain) /\ r.chain[i + Len(s)] = b
         /\ InUse(r.chain) = InUse(m.chain) \cup {b}
         /\ \A u \in InUse(m.chain) : u.at # b.at
<1>0. /\ MemInv(m) /\ r \in MemTypes /\ s \in Seq(BlockTypes)
      /\ j \in 1 .. Len(m.chain) /\ i \in 0 .. j - 1
      /\ Spliced(m.chain, r.chain, i, j, s) /\ FitsIn(m.chain, i, j, s, m.holed)
      /\ \A x \in i + 1 .. j : m.chain[x].free
      /\ ~s[Len(s)].free /\ (Len(s) = 2 => s[1].free)
      /\ r.brk = m.brk /\ r.holed = m.holed
  BY DEF Replaces
<1> DEFINE c == m.chain
           t == r.chain
           n == Len(s)
           b == s[n]
           R == Cut(c, i, j)
<1>1. /\ c \in Seq(BlockTypes) /\ m.brk \in Nat /\ m.total_free_blocks \in Int
      /\ ChainOrdered(c, m.brk, m.holed) /\ Cardinality(FreeOnes(c)) <= m.total_free_blocks
  BY <1>0 DEF MemInv, MemTypes
<1>2. t \in Seq(BlockTypes) /\ r.total_free_blocks \in Int
  BY <1>0 DEF MemTypes
<1>3. ChainOrdered(t, r.brk, r.holed)
  BY <1>0, <1>1, SplicedOrdered
<1>4. /\ BlocksOf(t) = (BlocksOf(c) \ R) \cup BlocksOf(s) /\ R \subseteq BlocksOf(c)
      /\ IsFiniteSet(R) /\ Cardinality(R) = j - i
  BY <1>0, <1>1, SplicedBlocks
<1>5. n \in {1, 2}
  BY <1>0 DEF FitsIn
<1>6. \A u \in R : u.free
  BY <1>0 DEF Cut
<1>7. BlocksOf(s) = IF n = 2 THEN {s[1], b} ELSE {b}
  <2>1. CASE n = 1
    <3>1. 1 .. n = {1}
      BY <2>1
    <3> QED
      BY <3>1, <2>1 DEF BlocksOf
  <2>2. CASE n = 2
    <3>1. 1 .. n = {1, 2}
      BY <2>2
    <3> QED
      BY <3>1, <2>2 DEF BlocksOf
  <2> QED
    BY <2>1, <2>2, <1>5
<1>8. InUse(t) = InUse(c) \cup {b}
  BY <1>0, <1>4, <1>5, <1>6, <1>7 DEF InUse
<1>9. FreeOnes(t) = IF n = 2 THEN (FreeOnes(c) \ R) \cup {s[1]} ELSE FreeOnes(c) \ R
  BY <1>0, <1>4, <1>5, <1>7 DEF FreeOnes
<1>10. Cardinality(FreeOnes(t)) <= r.total_free_blocks
  <2>1. IsFiniteSet(FreeOnes(c)) /\ FreeOnes(c) \cap R = R
    BY <1>1, <1>4, <1>6, BlocksFinite DEF FreeOnes
  <2>2. IsFiniteSet(FreeOnes(c) \ R) /\ Cardinality(FreeOnes(c) \ R) = Cardinality(FreeOnes(c)) - (j - i)
    <3> DEFINE F == FreeOnes(c)
    <3> HIDE DEF F, R, c
    <3>1. IsFiniteSet(F \ R) /\ Cardinality(F \ R) = Cardinality(F) - Cardinality(F \cap R)
      BY <2>1, FS_Difference DEF F
    <3> QED
      BY <3>1, <2>1, <1>4 DEF F
  <2>3. Cardinality(FreeOnes(t)) <= Cardinality(FreeOnes(c) \ R) + (n - 1)
    <3>1. Cardinality(FreeOnes(c) \ R) \in Nat
      BY <2>2, FS_CardinalityType
    <3>2. CASE n = 1
      BY <3>1, <3>2, <1>9
    <3>3. CASE n = 2
      <4> DEFINE F == FreeOnes(c) \ R
                 a == s[1]
      <4> HIDE DEF F, a
      <4>0. IsFiniteSet(F) /\ Cardinality(F) \in Nat
        BY <2>2, <3>1 DEF F
      <4>1. Cardinality(F \cup {a}) <= Cardinality(F) + 1
        <5>1. Cardinality(F \cup {a}) = IF a \in F THEN Cardinality(F) ELSE Cardinality(F) + 1
          BY <4>0, FS_AddElement
        <5> QED
          BY <5>1, <4>0
      <4> QED
        BY <4>1, <3>3, <1>9 DEF F, a
    <3> QED
      BY <3>2, <3>3, <1>5
  <2>4. Cardinality(FreeOnes(c)) \in Nat /\ Cardinality(FreeOnes(t)) \in Nat
    BY <2>1, <1>2, BlocksFinite, FS_CardinalityType
  <2>5. r.total_free_blocks >= m.total_free_blocks - (j - i) + (n - 1)
    BY DEF Replaces
  <2> QED
    BY <2>2, <2>3, <2>4, <2>5, <1>0, <1>1, <1>2, <1>5
<1>11. i + n \in 1 .. Len(t) /\ t[i + n] = b
  <2>1. Len(t) = Len(c) - (j - i) + n /\ Len(c) \in Nat /\ j <= Len(c)
    BY <1>0, <1>1 DEF Spliced
  <2>2. n \in 1 .. n
    BY <1>5
  <2> QED
    BY <2>1, <2>2, <1>0, <1>5 DEF Spliced
<1>12. \A u \in InUse(c) : u.at # b.at
  <2> SUFFICES ASSUME NEW x \in 1 .. Len(c), ~c[x].free, c[x].at = b.at PROVE FALSE
    BY DEF InUse, BlocksOf
  <2>1. b.at = c[j].at
    BY <1>0 DEF FitsIn
  <2>2. x = j
    BY <2>1, <1>0, <1>1, AddressesDiffer
  <2>3. j \in i + 1 .. j
    BY <1>0
  <2> QED
    BY <2>2, <2>3, <1>0
<1> QED
  BY <1>0, <1>3, <1>8, <1>10, <1>11, <1>12 DEF MemInv

-----------------------------------------------------------------------------
(* The ways to take a block *)

\* What a call of find_fit that succeeds does to memory m: the block at k.
TakenAt(m, r, k, n) ==
  /\ MemInv(r) /\ r.status = "ordered" /\ r.brk = m.brk
  /\ k \in 1 .. Len(r.chain) /\ ~r.chain[k].free /\ r.chain[k].size >= n
  /\ InUse(r.chain) = InUse(m.chain) \cup {r.chain[k]}
  /\ \A u \in InUse(m.chain) : u.at # r.chain[k].at

Splits(c, k, n) == c[k].size > n + META
Merges(c, k, n, j) == IF j = 1 THEN MergesTwo(c, k, n) ELSE MergesThree(c, k, n)

LEMMA SplitEffect ==
  ASSUME NEW m, MemInv(m), m.status = "ordered", NEW n \in Nat, n > 0,
         NEW k \in 1 .. Len(m.chain), Fits(m.chain, k, n), Splits(m.chain, k, n)
  PROVE  \E x : /\ TakenAt(m, SplitAbove(m, k, n), x, n)
                /\ SplitAbove(m, k, n).chain[x].at = m.chain[k].at
<1> DEFINE c == m.chain
           b == c[k]
           below == [b EXCEPT !.size = n, !.free = FALSE]
           linked == k = 1 \/ c[k - 1].at = End(b)
           s == IF linked THEN <<set_newblk(b, n), below>> ELSE <<below>>
           r == SplitAbove(m, k, n)
<1>1. /\ m \in MemTypes /\ c \in Seq(BlockTypes) /\ m.total_free_blocks \in Int
      /\ ChainOrdered(c, m.brk, m.holed)
  BY DEF MemInv, MemTypes
<1>2. b \in BlockTypes /\ b.at \in Nat /\ b.size \in Nat /\ META \in Nat /\ META > 0
  BY <1>1, BlockType, AllocAssumption
<1>b. b.size > n + META
  BY DEF Splits
<1>3. /\ below \in BlockTypes /\ below.at = b.at /\ below.size = n /\ below.free = FALSE
      /\ End(below) = b.at + META + n
  BY <1>2 DEF BlockTypes, End
<1>4. /\ set_newblk(b, n) \in BlockTypes /\ set_newblk(b, n).at = b.at + META + n
      /\ set_newblk(b, n).size = b.size - n - META /\ set_newblk(b, n).free = TRUE
      /\ End(set_newblk(b, n)) = b.at + META + b.size
  <2>1. set_newblk(b, n) = [at |-> b.at + META + n, size |-> b.size - n - META, free |-> TRUE]
    BY DEF set_newblk
  <2>2. b.at + META + n \in Nat /\ b.size - n - META \in Nat
    <3> DEFINE a == b.at
               z == b.size
    <3>1. a \in Nat /\ z \in Nat /\ z > n + META
      BY <1>2, <1>b
    <3> HIDE DEF a, z
    <3>2. a + META + n \in Nat /\ z - n - META \in Nat
      BY <1>2, <3>1
    <3> QED
      BY <3>2 DEF a, z
  <2>3. /\ set_newblk(b, n) \in BlockTypes /\ set_newblk(b, n).at = b.at + META + n
        /\ set_newblk(b, n).size = b.size - n - META /\ set_newblk(b, n).free = TRUE
    BY <2>1, <2>2 DEF BlockTypes
  <2>4. (b.at + META + n) + META + (b.size - n - META) = b.at + META + b.size
    <3> DEFINE a == b.at
               z == b.size
    <3>1. a \in Nat /\ z \in Nat
      BY <1>2
    <3> HIDE DEF a, z
    <3>2. (a + META + n) + META + (z - n - META) = a + META + z
      BY <1>2, <3>1
    <3> QED
      BY <3>2 DEF a, z
  <2> QED
    BY <2>3, <2>4 DEF End
<1>5. End(b) = b.at + META + b.size /\ b.free
  BY DEF End, Fits
<1> HIDE DEF below
<1>e. /\ End(set_newblk(b, n)) = End(b) /\ End(below) = set_newblk(b, n).at
      /\ set_newblk(b, n).size > 0 /\ End(below) <= End(b)
  BY <1>b, <1>2, <1>3, <1>4, <1>5
<1>6. s \in Seq(BlockTypes) /\ Len(s) = (IF linked THEN 2 ELSE 1) /\ s[Len(s)] = below
  BY <1>3, <1>4
<1>7. linked => s[1] = set_newblk(b, n) /\ s[2] = below
  OBVIOUS
<1>8. ~linked => s[1] = below
  OBVIOUS
<1>9. r = [m EXCEPT !.chain = SubSeq(c, 1, k - 1) \o s \o SubSeq(c, k + 1, Len(c)),
                    !.total_free_blocks = m.total_free_blocks + 1]
  BY <1>1 DEF SplitAbove, below, MemTypes
<1> DEFINE i == k - 1
           t == SubSeq(c, 1, i) \o s \o SubSeq(c, k + 1, Len(c))
<1>10. i \in 0 .. k - 1 /\ i + 1 = k /\ k - i = 1
  OBVIOUS
<1>r. r = [m EXCEPT !.chain = t, !.total_free_blocks = m.total_free_blocks + 1]
  BY <1>9
<1> HIDE DEF s, i
<1>11. Spliced(c, t, i, k, s)
  BY <1>1, <1>6, <1>10, SplicedSequence
<1>12. t \in Seq(BlockTypes)
  BY <1>11 DEF Spliced
<1> DEFINE v == m.total_free_blocks + 1
<1>v. v \in Int /\ r = [m EXCEPT !.chain = t, !.total_free_blocks = v]
  BY <1>1, <1>r
<1> HIDE DEF t, r, v
<1>13. /\ r \in MemTypes /\ r.chain = t /\ r.brk = m.brk /\ r.holed = m.holed /\ r.status = "ordered"
       /\ r.total_free_blocks = v
  BY <1>1, <1>v, <1>12 DEF MemTypes
<1>14. ~m.holed => linked
  BY <1>1 DEF ChainOrdered
<1>15. FitsIn(c, i, k, s, m.holed)
  <2>1. CASE linked
    <3>1. \A x \in 1 .. 2 : x = 1 \/ x = 2
      OBVIOUS
    <3>2. End(s[1]) = End(b) /\ s[1].size > 0 /\ s[2].size > 0 /\ End(s[2]) = s[1].at
      BY <2>1, <1>e, <1>3, <1>7
    <3>3. End(b) \in Nat
      BY <1>2, <1>5
    <3>4. Len(s) = 2 /\ s[2] = below /\ c[i + 1] = b
      BY <2>1, <1>6, <1>7, <1>10
    <3>5. \A x \in 1 .. Len(s) : s[x].size > 0
      BY <3>1, <3>2, <3>4
    <3>6. s[Len(s)].at = c[k].at /\ (~m.holed => End(s[1]) = End(c[i + 1])) /\ End(s[1]) <= End(c[i + 1])
      BY <3>2, <3>3, <3>4, <1>3
    <3> QED
      BY <3>2, <3>4, <3>5, <3>6 DEF FitsIn
  <2>2. CASE ~linked
    <3>1. \A x \in 1 .. 1 : x = 1
      OBVIOUS
    <3>2. End(s[1]) <= End(b) /\ s[1].size > 0
      BY <2>2, <1>e, <1>3, <1>8
    <3> QED
      BY <2>2, <3>1, <3>2, <1>3, <1>6, <1>8, <1>10, <1>14 DEF FitsIn
  <2> QED
    BY <2>1, <2>2
<1>k. k \in Nat
  BY <1>1
<1>16. \A x \in i + 1 .. k : c[x].free
  <2>1. \A x \in i + 1 .. k : x = k
    BY <1>k, <1>10
  <2> QED
    BY <2>1, <1>5
<1>17. r.total_free_blocks >= m.total_free_blocks - (k - i) + (Len(s) - 1)
  <2>1. r.total_free_blocks = m.total_free_blocks + 1 /\ Len(s) \in {1, 2}
    BY <1>6, <1>13 DEF v
  <2>2. k - i = 1 /\ m.total_free_blocks \in Int
    BY <1>1, <1>10
  <2> DEFINE l == Len(s)
             w == m.total_free_blocks
             d == k - i
  <2>3. l \in {1, 2} /\ w \in Int /\ d = 1 /\ r.total_free_blocks = w + 1
    BY <2>1, <2>2
  <2> HIDE DEF l, w, d
  <2>4. w + 1 >= w - d + (l - 1)
    BY <2>3
  <2> QED
    BY <2>3, <2>4 DEF l, w, d
<1>18. /\ Len(s) = 2 => s[1].free
       /\ ~s[Len(s)].free
  BY <1>3, <1>4, <1>6, <1>7
<1>s. Replaces(m, r, i, k, s)
  BY <1>6, <1>10, <1>11, <1>13, <1>15, <1>16, <1>17, <1>18 DEF Replaces
<1> DEFINE x == i + Len(s)
<1>19. /\ MemInv(r) /\ x \in 1 .. Len(r.chain) /\ r.chain[x] = s[Len(s)]
       /\ InUse(r.chain) = InUse(c) \cup {s[Len(s)]}
       /\ \A u \in InUse(c) : u.at # s[Len(s)].at
  BY <1>s, SpliceTakes
<1>20. r.chain[x].at = b.at /\ r.chain[x].size >= n /\ ~r.chain[x].free
  BY <1>3, <1>6, <1>19
<1>21. TakenAt(m, r, x, n)
  BY <1>13, <1>19, <1>20 DEF TakenAt
<1> QED
  BY <1>20, <1>21 DEF r

LEMMA WholeEffect ==
  ASSUME NEW m, MemInv(m), m.status = "ordered", NEW n \in Nat, n > 0,
         NEW k \in 1 .. Len(m.chain), Fits(m.chain, k, n)
  PROVE  TakenAt(m, TakeWhole(m, k), k, n) /\ TakeWhole(m, k).chain[k].at = m.chain[k].at
<1> DEFINE c == m.chain
           b == [c[k] EXCEPT !.free = FALSE]
           s == <<b>>
           t == [c EXCEPT ![k] = b]
           r == TakeWhole(m, k)
<1>1. /\ m \in MemTypes /\ c \in Seq(BlockTypes) /\ m.total_free_blocks \in Int
      /\ ChainOrdered(c, m.brk, m.holed)
  BY DEF MemInv, MemTypes
<1>2. c[k] \in BlockTypes /\ c[k].at \in Nat /\ c[k].size \in Nat /\ c[k].size > 0 /\ End(c[k]) \in Nat
  BY <1>1, BlockType DEF ChainOrdered
<1>3. b \in BlockTypes /\ b.at = c[k].at /\ b.size = c[k].size /\ b.free = FALSE /\ End(b) = End(c[k])
  BY <1>2 DEF BlockTypes, End
<1>4. r = [m EXCEPT !.chain = t, !.total_free_blocks = m.total_free_blocks - 1]
  BY <1>1 DEF TakeWhole, MemTypes
<1> HIDE DEF b
<1>5. /\ t \in Seq(BlockTypes) /\ Len(t) = Len(c) /\ t[k] = b
      /\ \A x \in 1 .. Len(c) : x # k => t[x] = c[x]
  BY <1>1, <1>3
<1> DEFINE v == m.total_free_blocks - 1
<1>v. v \in Int /\ r = [m EXCEPT !.chain = t, !.total_free_blocks = v]
  BY <1>1, <1>4
<1> HIDE DEF t, r, v
<1>6. /\ r \in MemTypes /\ r.chain = t /\ r.brk = m.brk /\ r.holed = m.holed /\ r.status = "ordered"
      /\ r.total_free_blocks = v
  BY <1>1, <1>5, <1>v DEF MemTypes
<1>7. s \in Seq(BlockTypes) /\ Len(s) = 1 /\ s[1] = b
  BY <1>3
<1> HIDE DEF s
<1> DEFINE i == k - 1
<1>8. i \in 0 .. k - 1 /\ i + 1 = k /\ k - i = 1
  OBVIOUS
<1>l. Len(c) \in Nat /\ k \in Nat /\ 1 <= k /\ k <= Len(c)
  BY <1>1
<1> HIDE DEF i
<1>9. Spliced(c, t, i, k, s)
  <2>1. \A x \in 1 .. i : t[x] = c[x]
    <3>1. \A x \in 1 .. i : x \in 1 .. Len(c) /\ x # k
      BY <1>8, <1>l
    <3> QED
      BY <3>1, <1>5
  <2>2. \A x \in 1 .. Len(s) : t[i + x] = s[x]
    BY <1>5, <1>7, <1>8
  <2>3. \A x \in k + 1 .. Len(c) : t[x - k + i + Len(s)] = c[x]
    <3>1. \A x \in k + 1 .. Len(c) : x - k + i + Len(s) = x /\ x \in 1 .. Len(c) /\ x # k
      BY <1>7, <1>8, <1>l
    <3> QED
      BY <3>1, <1>5
  <2>4. Len(t) = Len(c) - (k - i) + Len(s)
    BY <1>5, <1>7, <1>8, <1>l
  <2> QED
    BY <2>1, <2>2, <2>3, <2>4, <1>5 DEF Spliced
<1>10. FitsIn(c, i, k, s, m.holed)
  <2>1. \A x \in 1 .. 1 : x = 1
    OBVIOUS
  <2> QED
    BY <2>1, <1>2, <1>3, <1>7, <1>8 DEF FitsIn
<1>f. c[k].free /\ c[k].size >= n
  BY DEF Fits
<1>11. \A x \in i + 1 .. k : c[x].free
  <2>1. \A x \in i + 1 .. k : x = k
    BY <1>8, <1>l
  <2> QED
    BY <2>1, <1>f
<1>12. r.total_free_blocks >= m.total_free_blocks - (k - i) + (Len(s) - 1)
  <2>1. r.total_free_blocks = m.total_free_blocks - 1
    BY <1>6 DEF v
  <2> QED
    BY <2>1, <1>1, <1>7, <1>8
<1>13. ~s[Len(s)].free /\ (Len(s) = 2 => s[1].free) /\ s[Len(s)] = b /\ i + Len(s) = k
  BY <1>3, <1>7, <1>8
<1>s. Replaces(m, r, i, k, s)
  BY <1>6, <1>7, <1>8, <1>9, <1>10, <1>11, <1>12, <1>13 DEF Replaces
<1>14. /\ MemInv(r) /\ k \in 1 .. Len(r.chain) /\ r.chain[k] = b
       /\ InUse(r.chain) = InUse(c) \cup {b} /\ \A u \in InUse(c) : u.at # b.at
  BY <1>s, <1>13, SpliceTakes
<1>15. TakenAt(m, r, k, n)
  BY <1>3, <1>f, <1>6, <1>14 DEF TakenAt
<1> QED
  BY <1>3, <1>14, <1>15 DEF r

LEMMA MergeEffect ==
  ASSUME NEW m, MemInv(m), m.status = "ordered", NEW n \in Nat, n > 0, NEW j \in {1, 2},
         NEW k \in 1 .. Len(m.chain), Merges(m.chain, k, n, j)
  PROVE  /\ TakenAt(m, help_merge(m, k, j), k - j, n)
         /\ help_merge(m, k, j).chain[k - j].at = m.chain[k].at
<1> DEFINE c == m.chain
           third == IF j = 2 THEN c[k - 2].size + META ELSE 0
           b == [c[k] EXCEPT !.size = c[k].size + c[k - 1].size + META + third, !.free = FALSE]
           s == <<b>>
           i == k - j - 1
           t == SubSeq(c, 1, i) \o s \o SubSeq(c, k + 1, Len(c))
           r == help_merge(m, k, j)
<1>1. /\ m \in MemTypes /\ c \in Seq(BlockTypes) /\ m.total_free_blocks \in Int
      /\ ChainOrdered(c, m.brk, m.holed)
  BY DEF MemInv, MemTypes
<1>k. k > j /\ c[k].free /\ c[k - 1].free /\ (j = 2 => c[k - 2].free)
  BY DEF Merges, MergesTwo, MergesThree
<1>2. /\ k - 1 \in 1 .. Len(c) /\ (j = 2 => k - 2 \in 1 .. Len(c)) /\ i \in 0 .. k - 1
      /\ i + 1 = k - j /\ k - i = j + 1
  <2> DEFINE l == Len(c)
  <2>1. l \in Nat /\ k \in 1 .. l /\ k > j
    BY <1>1, <1>k
  <2> HIDE DEF l
  <2>2. k - 1 \in 1 .. l /\ (j = 2 => k - 2 \in 1 .. l)
    BY <2>1
  <2>3. i \in 0 .. k - 1 /\ i + 1 = k - j /\ k - i = j + 1
    BY <2>1
  <2> QED
    BY <2>2, <2>3 DEF l
<1>3. \A x \in 1 .. Len(c) : /\ c[x] \in BlockTypes /\ c[x].at \in Nat /\ c[x].size \in Nat
                             /\ End(c[x]) = c[x].at + META + c[x].size
  BY <1>1, BlockType DEF End
<1>4. META \in Nat /\ META > 0
  BY AllocAssumption
<1>5. third \in Nat
  <2>1. CASE j = 2
    <3> DEFINE z == c[k - 2].size
    <3>1. z \in Nat /\ third = z + META
      BY <2>1, <1>2, <1>3
    <3> HIDE DEF third, z
    <3> QED
      BY <3>1, <1>4
  <2>2. CASE j # 2
    BY <2>2
  <2> QED
    BY <2>1, <2>2
<1>6. /\ b \in BlockTypes /\ b.at = c[k].at /\ b.free = FALSE
      /\ b.size = c[k].size + c[k - 1].size + META + third
      /\ End(b) = c[k].at + META + b.size
  <2> DEFINE v == c[k].size + c[k - 1].size + META + third
  <2>1. v \in Nat /\ c[k] \in BlockTypes
    <3> DEFINE y == c[k].size
               z == c[k - 1].size
    <3>1. y \in Nat /\ z \in Nat /\ c[k] \in BlockTypes
      BY <1>2, <1>3
    <3> HIDE DEF third, y, z
    <3>2. y + z + META + third \in Nat
      BY <3>1, <1>4, <1>5
    <3> QED
      BY <3>1, <3>2 DEF y, z
  <2> HIDE DEF v
  <2>2. b = [c[k] EXCEPT !.size = v, !.free = FALSE]
    BY DEF v
  <2> HIDE DEF b
  <2>3. b \in BlockTypes /\ b.at = c[k].at /\ b.free = FALSE /\ b.size = v
    BY <2>1, <2>2 DEF BlockTypes
  <2> QED
    BY <2>3 DEF End, v
<1>7. r = [m EXCEPT !.chain = t, !.total_free_blocks = m.total_free_blocks - j - 1]
  BY <1>1 DEF help_merge, MemTypes
<1> HIDE DEF b
<1>8. s \in Seq(BlockTypes) /\ Len(s) = 1 /\ s[1] = b
  BY <1>6
<1> HIDE DEF s
<1>9. Spliced(c, t, i, k, s)
  BY <1>1, <1>2, <1>8, SplicedSequence
<1>10. t \in Seq(BlockTypes)
  BY <1>9 DEF Spliced
<1> DEFINE v == m.total_free_blocks - j - 1
<1>v. v \in Int /\ r = [m EXCEPT !.chain = t, !.total_free_blocks = v]
  BY <1>1, <1>7
<1> HIDE DEF t, r, v
<1>11. /\ r \in MemTypes /\ r.chain = t /\ r.brk = m.brk /\ r.holed = m.holed /\ r.status = "ordered"
       /\ r.total_free_blocks = v
  BY <1>1, <1>10, <1>v DEF MemTypes
<1> DEFINE a0 == c[k].at
           z0 == c[k].size
           e0 == End(c[k])
           a1 == c[k - 1].at
           z1 == c[k - 1].size
           e1 == End(c[k - 1])
           zb == b.size
           eb == End(b)
<1>a. /\ a0 \in Nat /\ z0 \in Nat /\ e0 = a0 + META + z0
      /\ a1 \in Nat /\ z1 \in Nat /\ e1 = a1 + META + z1
      /\ zb = z0 + z1 + META + third /\ eb = a0 + META + zb
      /\ e0 <= a1 /\ (~m.holed => e0 = a1)
  <2>1. End(c[k]) <= c[k - 1].at /\ (~m.holed => End(c[k]) = c[k - 1].at)
    <3>1. k - 1 < k /\ k # 1
      BY <1>1, <1>2
    <3> QED
      BY <3>1, <1>1, <1>2 DEF ChainOrdered
  <2>2. c[k].at \in Nat /\ c[k].size \in Nat /\ End(c[k]) = c[k].at + META + c[k].size
    BY <1>3
  <2>3. /\ c[k - 1].at \in Nat /\ c[k - 1].size \in Nat
        /\ End(c[k - 1]) = c[k - 1].at + META + c[k - 1].size
    BY <1>2, <1>3
  <2>4. b.size = c[k].size + c[k - 1].size + META + third /\ End(b) = c[k].at + META + b.size
    BY <1>6
  <2> HIDE DEF third
  <2> QED
    BY <2>1, <2>2, <2>3, <2>4
<1>12. End(b) <= End(c[k - j]) /\ (~m.holed => End(b) = End(c[k - j])) /\ b.size >= n /\ b.size > 0
  <2>1. CASE j = 1
    <3>1. third = 0 /\ n < z1 + z0 + META /\ k - j = k - 1
      BY <2>1 DEF Merges, MergesTwo
    <3> HIDE DEF third, a0, z0, e0, a1, z1, e1, zb, eb
    <3>2. zb >= n /\ zb > 0
      BY <3>1, <1>a, <1>4
    <3>3. eb <= e1 /\ (~m.holed => eb = e1)
      BY <3>1, <1>a, <1>4
    <3> QED
      BY <3>1, <3>2, <3>3 DEF zb, eb, e1
  <2>2. CASE j = 2
    <3> DEFINE a2 == c[k - 2].at
               z2 == c[k - 2].size
               e2 == End(c[k - 2])
    <3>0. k - 2 \in 1 .. Len(c) /\ k - 1 # 1 /\ (k - 1) - 1 = k - 2 /\ k - j = k - 2
      BY <2>2, <1>2
    <3>1. /\ third = z2 + META /\ n <= z2 + z1 + z0 + 2 * META
          /\ a2 \in Nat /\ z2 \in Nat /\ e2 = a2 + META + z2
      BY <2>2, <3>0, <1>3 DEF Merges, MergesThree
    <3>2. e1 <= a2 /\ (~m.holed => e1 = a2)
      <4>1. ~m.holed => End(c[k - 1]) = c[k - 2].at
        BY <3>0, <1>1, <1>2 DEF ChainOrdered
      <4>2. k - 2 < k - 1
        BY <1>1
      <4>3. End(c[k - 1]) <= c[k - 2].at
        BY <4>2, <3>0, <1>1, <1>2 DEF ChainOrdered
      <4> QED
        BY <4>1, <4>3
    <3> HIDE DEF third, a0, z0, e0, a1, z1, e1, zb, eb, a2, z2, e2
    <3>3. zb >= n /\ zb > 0
      BY <3>1, <1>a, <1>4
    <3>4. eb <= e2 /\ (~m.holed => eb = e2)
      BY <3>1, <3>2, <1>a, <1>4
    <3> QED
      BY <3>0, <3>3, <3>4 DEF zb, eb, e2
  <2> QED
    BY <2>1, <2>2
<1> HIDE DEF third
<1>14. FitsIn(c, i, k, s, m.holed)
  <2>1. \A x \in 1 .. 1 : x = 1
    OBVIOUS
  <2> HIDE DEF i
  <2> QED
    BY <2>1, <1>2, <1>6, <1>8, <1>12 DEF FitsIn
<1>15. \A x \in i + 1 .. k : c[x].free
  <2>1. \A x \in i + 1 .. k : x = k \/ x = k - 1 \/ (j = 2 /\ x = k - 2)
    BY <1>1, <1>2
  <2> QED
    BY <2>1, <1>k
<1>16. r.total_free_blocks >= m.total_free_blocks - (k - i) + (Len(s) - 1)
  <2>1. r.total_free_blocks = m.total_free_blocks - j - 1
    BY <1>11 DEF v
  <2> HIDE DEF i
  <2>2. Len(s) - 1 = 0 /\ k - i = j + 1 /\ m.total_free_blocks \in Int
    BY <1>1, <1>2, <1>8
  <2> DEFINE l == Len(s) - 1
             w == m.total_free_blocks
             d == k - i
  <2>3. l = 0 /\ w \in Int /\ d = j + 1 /\ r.total_free_blocks = w - j - 1
    BY <2>1, <2>2
  <2> HIDE DEF l, w, d
  <2>4. w - j - 1 >= w - d + l
    BY <2>3
  <2> QED
    BY <2>3, <2>4 DEF l, w, d
<1>17. ~s[Len(s)].free /\ (Len(s) = 2 => s[1].free) /\ s[Len(s)] = b /\ i + Len(s) = k - j
  BY <1>2, <1>6, <1>8
<1> HIDE DEF i
<1>s. Replaces(m, r, i, k, s)
  BY <1>2, <1>8, <1>9, <1>11, <1>14, <1>15, <1>16, <1>17 DEF Replaces
<1>18. /\ MemInv(r) /\ k - j \in 1 .. Len(r.chain) /\ r.chain[k - j] = b
       /\ InUse(r.chain) = InUse(c) \cup {b} /\ \A u \in InUse(c) : u.at # b.at
  <2> DEFINE x == i + Len(s)
             q == s[Len(s)]
  <2>1. /\ MemInv(r) /\ x \in 1 .. Len(r.chain) /\ r.chain[x] = q
        /\ InUse(r.chain) = InUse(c) \cup {q} /\ \A u \in InUse(c) : u.at # q.at
    BY <1>s, SpliceTakes
  <2>2. x = k - j /\ q = b
    BY <1>17
  <2> HIDE DEF x, q
  <2> QED
    BY <2>1, <2>2
<1>19. TakenAt(m, r, k - j, n)
  BY <1>6, <1>11, <1>12, <1>18 DEF TakenAt
<1> QED
  BY <1>6, <1>18, <1>19 DEF r

\* A call of find_fit that finds something takes a block.
LEMMA FindFit ==
  ASSUME NEW m, MemInv(m), m.status = "ordered", NEW n \in Nat, n > 0, find_fit(m, n).k # 0
  PROVE  TakenAt(m, find_fit(m, n).mem, find_fit(m, n).k, n)
<1> DEFINE c == m.chain
           F == {k \in DOMAIN c : Fits(c, k, n) \/ MergesTwo(c, k, n) \/ MergesThree(c, k, n)}
           k == Min(F)
           j == IF MergesTwo(c, k, n) THEN 1 ELSE 2
           r == IF Fits(c, k, n)
                  THEN IF Splits(c, k, n) THEN SplitAbove(m, k, n) ELSE TakeWhole(m, k)
                  ELSE help_merge(m, k, j)
           y == CHOOSE i \in DOMAIN r.chain : r.chain[i].at = c[k].at
<1>1. c \in Seq(BlockTypes) /\ DOMAIN c = 1 .. Len(c) /\ Len(c) \in Nat
  BY DEF MemInv, MemTypes
<1>2. find_fit(m, n) = IF m.total_free_blocks = 0 \/ F = {} THEN [mem |-> m, k |-> 0]
                       ELSE [mem |-> r, k |-> y]
  BY DEF find_fit, Splits
<1> HIDE DEF r, y, k
<1>3. F # {} /\ find_fit(m, n).mem = r /\ find_fit(m, n).k = y
  <2>1. CASE m.total_free_blocks = 0 \/ F = {}
    <3>1. find_fit(m, n) = [mem |-> m, k |-> 0]
      BY <1>2, <2>1
    <3> QED
      BY <3>1
  <2>2. CASE ~(m.total_free_blocks = 0 \/ F = {})
    <3>1. find_fit(m, n) = [mem |-> r, k |-> y]
      BY <1>2, <2>2
    <3> QED
      BY <3>1, <2>2
  <2> QED
    BY <2>1, <2>2
<1>4. k \in F
  <2>1. F \subseteq Nat
    BY <1>1
  <2> HIDE DEF F
  <2> QED
    BY <2>1, <1>3, MinIn DEF k
<1>5. k \in 1 .. Len(c) /\ (Fits(c, k, n) \/ MergesTwo(c, k, n) \/ MergesThree(c, k, n))
  BY <1>1, <1>4
<1>6. \E x : TakenAt(m, r, x, n) /\ r.chain[x].at = c[k].at
  <2>1. CASE Fits(c, k, n) /\ Splits(c, k, n)
    <3>1. r = SplitAbove(m, k, n)
      BY <2>1 DEF r
    <3> QED
      BY <2>1, <3>1, <1>5, SplitEffect
  <2>2. CASE Fits(c, k, n) /\ ~Splits(c, k, n)
    <3>1. r = TakeWhole(m, k)
      BY <2>2 DEF r
    <3> QED
      BY <2>2, <3>1, <1>5, WholeEffect
  <2>3. CASE ~Fits(c, k, n)
    <3>1. r = help_merge(m, k, j) /\ j \in {1, 2} /\ Merges(c, k, n, j)
      BY <2>3, <1>5 DEF r, Merges
    <3> HIDE DEF j
    <3>2. TakenAt(m, help_merge(m, k, j), k - j, n) /\ help_merge(m, k, j).chain[k - j].at = c[k].at
      BY <3>1, <1>5, MergeEffect
    <3> QED
      BY <3>1, <3>2
  <2> QED
    BY <2>1, <2>2, <2>3
<1>7. PICK x : TakenAt(m, r, x, n) /\ r.chain[x].at = c[k].at
  BY <1>6
<1>8. /\ r.chain \in Seq(BlockTypes) /\ ChainOrdered(r.chain, r.brk, r.holed) /\ x \in 1 .. Len(r.chain)
      /\ DOMAIN r.chain = 1 .. Len(r.chain)
  BY <1>7 DEF TakenAt, MemInv, MemTypes
<1>9. y = x
  <2>1. \A z \in 1 .. Len(r.chain) : r.chain[z].at = c[k].at => z = x
    BY <1>7, <1>8, AddressesDiffer
  <2> QED
    BY <2>1, <1>7, <1>8 DEF y
<1> QED
  BY <1>3, <1>7, <1>9

-----------------------------------------------------------------------------
(* malloc and free *)

\* What a call of malloc leads to: nothing, or one more used block.
Obtained(m, r, n) ==
  /\ MemInv(r.mem)
  /\ \/ r.ptr = NoBlock /\ InUse(r.mem.chain) = InUse(m.chain)
     \/ \E b \in BlockTypes :
          /\ ~b.free /\ b.size >= n /\ r.ptr = Payload(b)
          /\ InUse(r.mem.chain) = InUse(m.chain) \cup {b}
          /\ \A u \in InUse(m.chain) : u.at # b.at

LEMMA ExtendEffect ==
  ASSUME NEW m, MemInv(m), m.status = "ordered", NEW n \in Nat, n > 0,
         Extend(m, n).mem.status = "ordered"
  PROVE  Obtained(m, Extend(m, n), n)
<1> DEFINE c == m.chain
           e == Extend(m, n)
<1>1. /\ m \in MemTypes /\ c \in Seq(BlockTypes) /\ m.brk \in Nat /\ m.brk > 0
      /\ m.total_free_blocks \in Int /\ ChainOrdered(c, m.brk, m.holed)
      /\ Cardinality(FreeOnes(c)) <= m.total_free_blocks
      /\ META \in Nat /\ META > 0 /\ Len(c) \in Nat
  BY AllocAssumption DEF MemInv, MemTypes
<1>2. \A x \in 1 .. Len(c) : c[x].at \in Nat /\ End(c[x]) \in Nat /\ c[x].at < End(c[x]) /\ End(c[x]) <= m.brk
                             /\ c[x].size \in Nat
  BY <1>1, BlockType DEF ChainOrdered
<1>3. CASE m.brk + META > HeapLimit
  <2>1. e.mem = [m EXCEPT !.status = "crashed"]
    BY <1>3 DEF Extend
  <2> QED
    BY <2>1, <1>1 DEF MemTypes
<1>4. CASE m.brk + META <= HeapLimit /\ m.brk + META + n > HeapLimit
  <2> DEFINE v == m.brk + META
             r == [m EXCEPT !.brk = v, !.holed = TRUE]
  <2>0. v \in Nat \ {0} /\ v >= m.brk
    BY <1>1
  <2>1. e = [mem |-> [m EXCEPT !.brk = @ + META, !.holed = TRUE], ptr |-> NoBlock]
    BY <1>1, <1>4, AllocAssumption DEF Extend
  <2>2. e.mem = r /\ e.ptr = NoBlock
    BY <2>1, <1>1 DEF MemTypes
  <2> HIDE DEF v
  <2>3. /\ r \in MemTypes /\ r.chain = c /\ r.brk = v /\ r.holed = TRUE
        /\ r.total_free_blocks = m.total_free_blocks
    BY <2>0, <1>1 DEF MemTypes
  <2>4. ChainOrdered(c, v, TRUE)
    <3>1. \A x \in 1 .. Len(c) : End(c[x]) <= v
      BY <2>0, <1>1, <1>2
    <3> QED
      BY <3>1, <1>1 DEF ChainOrdered
  <2> HIDE DEF r
  <2>5. MemInv(r)
    BY <2>3, <2>4, <1>1 DEF MemInv
  <2> QED
    BY <2>2, <2>3, <2>5 DEF Obtained
<1>5. CASE m.brk + META <= HeapLimit /\ m.brk + META + n <= HeapLimit
  <2> DEFINE b == [at |-> m.brk, size |-> n, free |-> FALSE]
             t == <<b>> \o c
             v == End(b)
             r == [m EXCEPT !.chain = t, !.brk = v]
  <2>0. b \in BlockTypes /\ b.at = m.brk /\ b.size = n /\ b.free = FALSE
    BY <1>1 DEF BlockTypes
  <2>1. v = m.brk + META + n
    BY DEF End
  <2>2. e = [mem |-> [m EXCEPT !.chain = <<b>> \o @, !.brk = End(b)], ptr |-> Payload(b)]
    BY <1>1, <1>5, AllocAssumption DEF Extend
  <2>3. e.mem = r /\ e.ptr = Payload(b)
    BY <2>2, <1>1 DEF MemTypes
  <2>v. v \in Nat \ {0} /\ m.brk < v
    BY <2>1, <1>1
  <2> HIDE DEF b
  <2>4. /\ t \in Seq(BlockTypes) /\ Len(t) = Len(c) + 1 /\ t[1] = b
        /\ \A x \in 1 .. Len(c) : t[x + 1] = c[x]
    BY <2>0, <1>1
  <2>e. End(b) = v
    OBVIOUS
  <2> HIDE DEF t, v
  <2>5. /\ r \in MemTypes /\ r.chain = t /\ r.brk = v /\ r.holed = m.holed
        /\ r.total_free_blocks = m.total_free_blocks
    BY <2>v, <2>4, <1>1 DEF MemTypes
  <2>6. \A y \in 1 .. Len(t) : y = 1 \/ (y - 1 \in 1 .. Len(c) /\ t[y] = c[y - 1] /\ y # 1)
    <3> SUFFICES ASSUME NEW y \in 1 .. Len(t), y # 1 PROVE y - 1 \in 1 .. Len(c) /\ t[y] = c[y - 1]
      OBVIOUS
    <3>1. y - 1 \in 1 .. Len(c) /\ (y - 1) + 1 = y
      BY <2>4, <1>1
    <3> QED
      BY <3>1, <2>4
  <2>7. ChainOrdered(t, v, m.holed)
    <3>1. \A y \in 1 .. Len(t) : t[y].size > 0 /\ t[y].at > 0 /\ End(t[y]) <= v
      <4> SUFFICES ASSUME NEW y \in 1 .. Len(t) PROVE t[y].size > 0 /\ t[y].at > 0 /\ End(t[y]) <= v
        OBVIOUS
      <4>1. CASE y = 1
        BY <4>1, <2>0, <2>e, <2>v, <2>4, <1>1
      <4>2. CASE y # 1
        <5>1. y - 1 \in 1 .. Len(c) /\ t[y] = c[y - 1]
          BY <4>2, <2>6
        <5>2. c[y - 1].size > 0 /\ c[y - 1].at > 0 /\ End(c[y - 1]) <= m.brk /\ End(c[y - 1]) \in Nat
          BY <5>1, <1>1, <1>2 DEF ChainOrdered
        <5> QED
          BY <5>1, <5>2, <2>v, <1>1
      <4> QED
        BY <4>1, <4>2
    <3>2. \A x, y \in 1 .. Len(t) : x < y => End(t[y]) <= t[x].at
      <4> SUFFICES ASSUME NEW x \in 1 .. Len(t), NEW y \in 1 .. Len(t), x < y PROVE End(t[y]) <= t[x].at
        OBVIOUS
      <4>1. y # 1 /\ y - 1 \in 1 .. Len(c) /\ t[y] = c[y - 1]
        BY <2>4, <2>6, <1>1
      <4>2. CASE x = 1
        BY <4>1, <4>2, <2>0, <2>4, <1>2
      <4>3. CASE x # 1
        <5>1. x - 1 \in 1 .. Len(c) /\ t[x] = c[x - 1]
          BY <4>3, <2>6
        <5>2. x - 1 < y - 1
          BY <5>1, <4>1, <1>1, <2>4
        <5> QED
          BY <4>1, <5>1, <5>2, <1>1 DEF ChainOrdered
      <4> QED
        BY <4>2, <4>3
    <3>3. ASSUME ~m.holed, NEW y \in 1 .. Len(t) PROVE End(t[y]) = IF y = 1 THEN v ELSE t[y - 1].at
      <4>1. CASE y = 1
        BY <4>1, <2>e, <2>4
      <4>2. CASE y # 1
        <5>1. y - 1 \in 1 .. Len(c) /\ t[y] = c[y - 1] /\ y - 1 \in 1 .. Len(t)
          BY <4>2, <2>4, <2>6, <1>1
        <5>2. End(c[y - 1]) = IF y - 1 = 1 THEN m.brk ELSE c[(y - 1) - 1].at
          BY <5>1, <3>3, <1>1 DEF ChainOrdered
        <5>3. CASE y - 1 = 1
          BY <5>1, <5>2, <5>3, <4>2, <2>0, <2>4
        <5>4. CASE y - 1 # 1
          <6>1. t[y - 1] = c[(y - 1) - 1]
            BY <5>1, <5>4, <2>6
          <6> QED
            BY <6>1, <5>1, <5>2, <5>4, <4>2
        <5> QED
          BY <5>3, <5>4
      <4> QED
        BY <4>1, <4>2
    <3> QED
      BY <3>1, <3>2, <3>3 DEF ChainOrdered
  <2>8. BlocksOf(t) = BlocksOf(c) \cup {b}
    <3>1. \A u \in BlocksOf(t) : u \in BlocksOf(c) \cup {b}
      <4> SUFFICES ASSUME NEW y \in 1 .. Len(t) PROVE t[y] \in BlocksOf(c) \cup {b}
        BY DEF BlocksOf
      <4>1. CASE y = 1
        BY <4>1, <2>4
      <4>2. CASE y # 1
        <5>1. y - 1 \in 1 .. Len(c) /\ t[y] = c[y - 1]
          BY <4>2, <2>6
        <5> QED
          BY <5>1 DEF BlocksOf
      <4> QED
        BY <4>1, <4>2
    <3>2. \A x \in 1 .. Len(c) : x + 1 \in 1 .. Len(t)
      BY <2>4, <1>1
    <3>3. 1 \in 1 .. Len(t)
      BY <2>4, <1>1
    <3>4. b \in BlocksOf(t)
      BY <3>3, <2>4 DEF BlocksOf
    <3>5. \A u \in BlocksOf(c) : u \in BlocksOf(t)
      BY <3>2, <2>4 DEF BlocksOf
    <3> QED
      BY <3>1, <3>4, <3>5
  <2>9. FreeOnes(t) = FreeOnes(c) /\ InUse(t) = InUse(c) \cup {b}
    BY <2>0, <2>8 DEF FreeOnes, InUse
  <2>10. \A u \in InUse(c) : u.at # b.at
    <3> SUFFICES ASSUME NEW x \in 1 .. Len(c) PROVE c[x].at # b.at
      BY DEF InUse, BlocksOf
    <3> QED
      BY <2>0, <1>1, <1>2
  <2> HIDE DEF r
  <2>11. MemInv(r)
    BY <2>5, <2>7, <2>9, <1>1 DEF MemInv
  <2>12. b.size >= n
    BY <2>0
  <2> QED
    BY <2>0, <2>3, <2>5, <2>9, <2>10, <2>11, <2>12 DEF Obtained
<1> QED
  BY <1>1, <1>3, <1>4, <1>5, AllocAssumption

\* malloc, unless it splits a block itself.
LEMMA MallocEffect ==
  ASSUME NEW m, MemInv(m), m.status = "ordered", NEW n \in Nat, Malloc(m, n).mem.status = "ordered"
  PROVE  Obtained(m, Malloc(m, n), n)
<1> DEFINE f == find_fit(m, n)
           b == f.mem.chain[f.k]
           spare == b.size - n
           w == IF spare > META /\ spare > 2 * n THEN split_helper(f.mem, f.k, n) ELSE f.mem
<1>1. CASE n = 0
  <2>1. Malloc(m, n) = [mem |-> m, ptr |-> NoBlock]
    BY <1>1 DEF Malloc
  <2> QED
    BY <2>1 DEF Obtained
<1>2. CASE n > 0 /\ f.k = 0
  <2>1. Malloc(m, n) = Extend(m, n)
    BY <1>2 DEF Malloc
  <2> QED
    BY <2>1, <1>2, ExtendEffect
<1>3. CASE n > 0 /\ f.k # 0
  <2>1. Malloc(m, n) = [mem |-> w, ptr |-> Payload(b)]
    BY <1>3 DEF Malloc
  <2>2. TakenAt(m, f.mem, f.k, n)
    BY <1>3, FindFit
  <2> HIDE DEF f
  <2>3. w = f.mem
    <3>1. f.mem \in MemTypes
      BY <2>2 DEF TakenAt, MemInv
    <3>2. split_helper(f.mem, f.k, n).status = "disordered"
      BY <3>1 DEF split_helper, MemTypes
    <3>3. Malloc(m, n).mem = w
      BY <2>1
    <3> HIDE DEF spare
    <3> QED
      BY <3>2, <3>3
  <2> HIDE DEF w
  <2>4. b \in BlockTypes
    BY <2>2, BlockType DEF TakenAt, MemInv, MemTypes
  <2>5. Malloc(m, n).mem = f.mem /\ Malloc(m, n).ptr = Payload(b)
    BY <2>1, <2>3
  <2>6. /\ MemInv(f.mem) /\ ~b.free /\ b.size >= n
        /\ InUse(f.mem.chain) = InUse(m.chain) \cup {b} /\ \A u \in InUse(m.chain) : u.at # b.at
    BY <2>2 DEF TakenAt
  <2> HIDE DEF b
  <2> QED
    BY <2>4, <2>5, <2>6 DEF Obtained
<1> QED
  BY <1>1, <1>2, <1>3

\* free: block u is used no more.
LEMMA ReleaseEffect ==
  ASSUME NEW m, MemInv(m), NEW u \in InUse(m.chain)
  PROVE  /\ MemInv(Release(m, Payload(u)))
         /\ InUse(Release(m, Payload(u)).chain) = InUse(m.chain) \ {u}
<1> DEFINE c == m.chain
           p == Payload(u)
           r == Release(m, p)
<1>1. /\ m \in MemTypes /\ c \in Seq(BlockTypes) /\ m.brk \in Nat /\ m.total_free_blocks \in Int
      /\ ChainOrdered(c, m.brk, m.holed) /\ Cardinality(FreeOnes(c)) <= m.total_free_blocks
      /\ Len(c) \in Nat /\ DOMAIN c = 1 .. Len(c)
  BY DEF MemInv, MemTypes
<1>2. PICK k \in 1 .. Len(c) : u = c[k] /\ ~c[k].free
  BY DEF InUse, BlocksOf
<1> DEFINE b == [c[k] EXCEPT !.free = TRUE]
           t == [x \in DOMAIN c |-> IF Payload(c[x]) = p THEN [c[x] EXCEPT !.free = TRUE] ELSE c[x]]
           v == m.total_free_blocks + 1
<1>3. v \in Int /\ r = [m EXCEPT !.chain = t, !.total_free_blocks = v]
  BY <1>1 DEF Release, MemTypes
<1>4. \A x \in 1 .. Len(c) : Payload(c[x]) = p <=> x = k
  <2> SUFFICES ASSUME NEW x \in 1 .. Len(c), Payload(c[x]) = p PROVE x = k
    BY <1>2
  <2> DEFINE a == c[x].at
             d == c[k].at
  <2>1. a \in Nat /\ d \in Nat /\ META \in Nat /\ a + META = d + META
    BY <1>1, <1>2, BlockType, AllocAssumption DEF Payload
  <2> HIDE DEF a, d
  <2>2. a = d
    BY <2>1
  <2> QED
    BY <2>2, <1>1, AddressesDiffer DEF a, d
<1> HIDE DEF p
<1>5. /\ t \in [1 .. Len(c) -> BlockTypes] /\ t[k] = b
      /\ \A x \in 1 .. Len(c) : x # k => t[x] = c[x]
  <2>1. \A x \in 1 .. Len(c) : c[x] \in BlockTypes
    BY <1>1
  <2>2. \A w \in BlockTypes : [w EXCEPT !.free = TRUE] \in BlockTypes
    BY DEF BlockTypes
  <2> QED
    BY <2>1, <2>2, <1>1, <1>4
<1>6. b \in BlockTypes /\ b.at = c[k].at /\ b.size = c[k].size /\ b.free = TRUE /\ End(b) = End(c[k])
  <2>1. c[k] \in BlockTypes
    BY <1>1
  <2> QED
    BY <2>1 DEF BlockTypes, End
<1> HIDE DEF t
<1>7. t \in Seq(BlockTypes) /\ Len(t) = Len(c) /\ DOMAIN t = 1 .. Len(c)
  <2>1. \E y \in Nat : t \in [1 .. y -> BlockTypes]
    BY <1>1, <1>5
  <2>2. t \in Seq(BlockTypes)
    BY <2>1, SeqDef
  <2>3. Len(t) \in Nat /\ DOMAIN t = 1 .. Len(t)
    BY <2>2, LenProperties
  <2>4. DOMAIN t = 1 .. Len(c)
    BY <1>5
  <2>5. Len(t) = Len(c)
    BY <2>3, <2>4, <1>1
  <2> QED
    BY <2>2, <2>4, <2>5
<1> HIDE DEF b, v, r
<1>8. /\ r \in MemTypes /\ r.chain = t /\ r.brk = m.brk /\ r.holed = m.holed
      /\ r.total_free_blocks = v
  BY <1>1, <1>3, <1>7 DEF MemTypes
<1>9. \A x \in 1 .. Len(c) : t[x].at = c[x].at /\ t[x].size = c[x].size /\ End(t[x]) = End(c[x])
  BY <1>5, <1>6
<1>10. ChainOrdered(t, m.brk, m.holed)
  <2>1. \A x \in 1 .. Len(c) : x # 1 => x - 1 \in 1 .. Len(c)
    BY <1>1
  <2>2. ASSUME ~m.holed, NEW x \in 1 .. Len(c) PROVE End(t[x]) = IF x = 1 THEN m.brk ELSE t[x - 1].at
    BY <2>1, <2>2, <1>1, <1>9 DEF ChainOrdered
  <2> QED
    BY <2>2, <1>1, <1>7, <1>9 DEF ChainOrdered
<1>11. \A x \in 1 .. Len(c) : c[x] = u => x = k
  BY <1>1, <1>2, AddressesDiffer
<1>12. InUse(t) = InUse(c) \ {u}
  <2>1. \A w \in InUse(t) : w \in InUse(c) \ {u}
    <3> SUFFICES ASSUME NEW x \in 1 .. Len(c), ~t[x].free PROVE t[x] \in InUse(c) \ {u}
      BY <1>7 DEF InUse, BlocksOf
    <3>1. x # k /\ t[x] = c[x]
      BY <1>5, <1>6
    <3> QED
      BY <3>1, <1>11 DEF InUse, BlocksOf
  <2>2. \A w \in InUse(c) \ {u} : w \in InUse(t)
    <3> SUFFICES ASSUME NEW x \in 1 .. Len(c), ~c[x].free, c[x] # u PROVE c[x] \in InUse(t)
      BY DEF InUse, BlocksOf
    <3>1. x # k /\ t[x] = c[x]
      BY <1>2, <1>5
    <3> QED
      BY <3>1, <1>7 DEF InUse, BlocksOf
  <2> QED
    BY <2>1, <2>2
<1>13. FreeOnes(t) \subseteq FreeOnes(c) \cup {b}
  <2> SUFFICES ASSUME NEW x \in 1 .. Len(c), t[x].free PROVE t[x] \in FreeOnes(c) \cup {b}
    BY <1>7 DEF FreeOnes, BlocksOf
  <2>1. CASE x = k
    BY <2>1, <1>5
  <2>2. CASE x # k
    BY <2>2, <1>5 DEF FreeOnes, BlocksOf
  <2> QED
    BY <2>1, <2>2
<1>14. Cardinality(FreeOnes(t)) <= v
  <2> DEFINE F == FreeOnes(c)
             G == FreeOnes(t)
  <2>1. IsFiniteSet(F) /\ Cardinality(F) \in Nat /\ Cardinality(F) <= m.total_free_blocks
    BY <1>1, BlocksFinite, FS_CardinalityType
  <2> HIDE DEF F, G
  <2>2. IsFiniteSet(F \cup {b}) /\ Cardinality(F \cup {b}) <= Cardinality(F) + 1
    <3>1. /\ IsFiniteSet(F \cup {b})
          /\ Cardinality(F \cup {b}) = IF b \in F THEN Cardinality(F) ELSE Cardinality(F) + 1
      BY <2>1, FS_AddElement
    <3> QED
      BY <3>1, <2>1
  <2>3. Cardinality(G) <= Cardinality(F \cup {b}) /\ Cardinality(G) \in Nat /\ Cardinality(F \cup {b}) \in Nat
    <3>1. G \subseteq F \cup {b}
      BY <1>13 DEF F, G
    <3>2. IsFiniteSet(G)
      BY <3>1, <2>2, FS_Subset
    <3>3. Cardinality(G) <= Cardinality(F \cup {b})
      BY <3>1, <2>2, FS_Subset
    <3> QED
      BY <3>2, <3>3, <2>2, FS_CardinalityType
  <2> DEFINE w == m.total_free_blocks
  <2>4. w \in Int /\ Cardinality(F) <= w /\ v = w + 1
    BY <2>1, <1>1 DEF v
  <2> HIDE DEF w
  <2>5. Cardinality(G) <= v
    BY <2>1, <2>2, <2>3, <2>4
  <2> QED
    BY <2>5 DEF G
<1>15. MemInv(r)
  BY <1>8, <1>10, <1>14 DEF MemInv
<1> QED
  BY <1>8, <1>12, <1>15 DEF r, p

-----------------------------------------------------------------------------
(* What callers hold *)

\* Different blocks of a chain have different payloads.
LEMMA PayloadsDiffer ==
  ASSUME NEW m, MemInv(m), NEW u \in BlocksOf(m.chain), NEW w \in BlocksOf(m.chain),
         Payload(u) = Payload(w)
  PROVE  u = w
<1>1. m.chain \in Seq(BlockTypes) /\ ChainOrdered(m.chain, m.brk, m.holed)
  BY DEF MemInv, MemTypes
<1>2. PICK i \in 1 .. Len(m.chain) : u = m.chain[i]
  BY DEF BlocksOf
<1>3. PICK k \in 1 .. Len(m.chain) : w = m.chain[k]
  BY DEF BlocksOf
<1> DEFINE a == m.chain[i].at
           d == m.chain[k].at
<1>4. a \in Nat /\ d \in Nat /\ META \in Nat /\ a + META = d + META
  BY <1>1, <1>2, <1>3, BlockType, AllocAssumption DEF Payload
<1> HIDE DEF a, d
<1>5. a = d
  BY <1>4
<1>6. i = k
  BY <1>1, <1>5, AddressesDiffer DEF a, d
<1> QED
  BY <1>2, <1>3, <1>6

\* A caller gets a block that nobody had.
LEMMA HeldGrows ==
  ASSUME NEW used, used \subseteq BlockTypes, NEW H, HeldInv(used, H),
         NEW b \in BlockTypes, \A u \in used : u.at # b.at,
         NEW n \in Nat, n <= SIZE_MAX => b.size >= n
  PROVE  HeldInv(used \cup {b}, H \cup {[at |-> Payload(b), want |-> n]})
<1> DEFINE g == [at |-> Payload(b), want |-> n]
<1>1. \A u \in BlockTypes : u.at \in Nat /\ Payload(u) = u.at + META /\ META \in Nat
  BY AllocAssumption DEF BlockTypes, Payload
<1>2. g \in [at : Nat, want : Nat] /\ g.at = Payload(b) /\ g.want = n
  <2>1. Payload(b) \in Nat
    BY <1>1
  <2> QED
    BY <2>1
<1>3. \A u \in used : Payload(u) # Payload(b)
  <2> SUFFICES ASSUME NEW u \in used, Payload(u) = Payload(b) PROVE FALSE
    OBVIOUS
  <2>1. u.at \in Nat /\ b.at \in Nat /\ META \in Nat /\ u.at + META = b.at + META
    BY <1>1
  <2>2. u.at = b.at
    BY <2>1
  <2> QED
    BY <2>2
<1> HIDE DEF g
<1>4. /\ H \subseteq [at : Nat, want : Nat]
      /\ \A h \in H : \E u \in used : Payload(u) = h.at /\ (h.want <= SIZE_MAX => u.size >= h.want)
      /\ \A u \in used : \E h \in H : h.at = Payload(u)
      /\ \A e, h \in H : e.at = h.at => e = h
  BY DEF HeldInv
<1>5. \A h \in H : h.at # g.at
  BY <1>2, <1>3, <1>4
<1>6. \A h \in H \cup {g} : \E u \in used \cup {b} : Payload(u) = h.at /\ (h.want <= SIZE_MAX => u.size >= h.want)
  BY <1>2, <1>4
<1>7. \A u \in used \cup {b} : \E h \in H \cup {g} : h.at = Payload(u)
  BY <1>2, <1>4
<1>8. \A e, h \in H \cup {g} : e.at = h.at => e = h
  BY <1>4, <1>5
<1>9. HeldInv(used \cup {b}, H \cup {g})
  BY <1>2, <1>4, <1>6, <1>7, <1>8 DEF HeldInv
<1> QED
  BY <1>9 DEF g

\* A caller gives a block back.
LEMMA HeldShrinks ==
  ASSUME NEW used, NEW H, HeldInv(used, H), NEW h \in H, NEW b \in used, Payload(b) = h.at,
         \A u, w \in used : Payload(u) = Payload(w) => u = w
  PROVE  HeldInv(used \ {b}, H \ {h})
BY DEF HeldInv

\* A caller keeps its block for another size.
LEMMA HeldResized ==
  ASSUME NEW used, NEW H, HeldInv(used, H), NEW h \in H, NEW b \in used, Payload(b) = h.at,
         NEW n \in Nat, b.size >= n
  PROVE  HeldInv(used, (H \ {h}) \cup {[at |-> h.at, want |-> n]})
<1> DEFINE g == [at |-> h.at, want |-> n]
<1>1. /\ H \subseteq [at : Nat, want : Nat]
      /\ \A e \in H : \E u \in used : Payload(u) = e.at /\ (e.want <= SIZE_MAX => u.size >= e.want)
      /\ \A u \in used : \E e \in H : e.at = Payload(u)
      /\ \A d, e \in H : d.at = e.at => d = e
  BY DEF HeldInv
<1>2. g \in [at : Nat, want : Nat] /\ g.at = h.at /\ g.want = n
  BY <1>1
<1> HIDE DEF g
<1>3. \A e \in H \ {h} : e.at # g.at
  BY <1>1, <1>2
<1>4. HeldInv(used, (H \ {h}) \cup {g})
  <2>1. \A e \in (H \ {h}) \cup {g} : \E u \in used : Payload(u) = e.at /\ (e.want <= SIZE_MAX => u.size >= e.want)
    BY <1>1, <1>2
  <2>2. \A u \in used : \E e \in (H \ {h}) \cup {g} : e.at = Payload(u)
    BY <1>1, <1>2
  <2>3. \A d, e \in (H \ {h}) \cup {g} : d.at = e.at => d = e
    BY <1>1, <1>3
  <2> QED
    BY <1>1, <1>2, <2>1, <2>2, <2>3 DEF HeldInv
<1> QED
  BY <1>4 DEF g

-----------------------------------------------------------------------------
(* The calls *)

LEMMA AllocInitInv == ASSUME AllocInit PROVE AllocInv
<1> DEFINE c == <<>>
<1>1. /\ mem.chain = c /\ mem.brk = 1 /\ mem.total_free_blocks = 0 /\ mem.holed = FALSE
      /\ mem.status = "ordered" /\ held = {}
  BY DEF AllocInit
<1>2. mem \in MemTypes
  <2>1. <<>> \in Seq(BlockTypes)
    OBVIOUS
  <2> QED
    BY <2>1 DEF AllocInit, MemTypes
<1>3. c \in Seq(BlockTypes) /\ Len(c) = 0
  OBVIOUS
<1>4. BlocksOf(c) = {}
  <2>1. 1 .. 0 = {}
    OBVIOUS
  <2> QED
    BY <2>1, <1>3 DEF BlocksOf
<1>5. FreeOnes(c) = {} /\ InUse(c) = {}
  BY <1>4 DEF FreeOnes, InUse
<1> HIDE DEF c
<1>6. ChainOrdered(c, 1, FALSE)
  BY <1>3 DEF ChainOrdered
<1>7. MemInv(mem)
  <2>1. Cardinality(FreeOnes(mem.chain)) = 0
    BY <1>1, <1>5, FS_EmptySet
  <2>2. ChainOrdered(mem.chain, mem.brk, mem.holed)
    BY <1>1, <1>6
  <2> QED
    BY <2>1, <2>2, <1>1, <1>2 DEF MemInv
<1>8. HeldInv({}, {})
  BY DEF HeldInv
<1> QED
  BY <1>1, <1>5, <1>7, <1>8 DEF AllocInv

LEMMA UsedBlocks ==
  ASSUME NEW m, MemInv(m)
  PROVE  /\ InUse(m.chain) \subseteq BlockTypes
         /\ \A u, w \in InUse(m.chain) : Payload(u) = Payload(w) => u = w
<1>1. m.chain \in Seq(BlockTypes)
  BY DEF MemInv, MemTypes
<1>2. BlocksOf(m.chain) \subseteq BlockTypes
  BY <1>1 DEF BlocksOf
<1> QED
  BY <1>2, PayloadsDiffer DEF InUse

\* A caller who wants n bytes, and asks for all of them if it can.
LEMMA ObtainedHeld ==
  ASSUME NEW m, MemInv(m), NEW H, HeldInv(InUse(m.chain), H), NEW r, NEW a \in Nat, Obtained(m, r, a),
         NEW n \in Nat, n <= SIZE_MAX => a = n
  PROVE  HeldInv(InUse(r.mem.chain), H \cup Given(r.ptr, n))
<1>1. CASE r.ptr = NoBlock /\ InUse(r.mem.chain) = InUse(m.chain)
  <2>1. H \cup Given(r.ptr, n) = H
    BY <1>1 DEF Given
  <2> QED
    BY <2>1, <1>1
<1>2. ASSUME NEW b \in BlockTypes,
             /\ ~b.free /\ b.size >= a /\ r.ptr = Payload(b)
             /\ InUse(r.mem.chain) = InUse(m.chain) \cup {b}
             /\ \A u \in InUse(m.chain) : u.at # b.at
      PROVE  HeldInv(InUse(r.mem.chain), H \cup Given(r.ptr, n))
  <2>1. Payload(b) # NoBlock
    BY AllocAssumption DEF BlockTypes, Payload, NoBlock
  <2>2. Given(r.ptr, n) = {[at |-> Payload(b), want |-> n]}
    BY <1>2, <2>1 DEF Given
  <2>3. n <= SIZE_MAX => b.size >= n
    BY <1>2
  <2>4. HeldInv(InUse(m.chain) \cup {b}, H \cup {[at |-> Payload(b), want |-> n]})
    BY <2>3, <1>2, UsedBlocks, HeldGrows
  <2> QED
    BY <2>2, <2>4, <1>2
<1> QED
  BY <1>1, <1>2 DEF Obtained

LEMMA MallocStep ==
  ASSUME AllocInv, NEW n \in RequestSizes, malloc(n), Working'
  PROVE  AllocInv'
<1> DEFINE r == Malloc(mem, n)
<1>1. MemInv(mem) /\ HeldInv(InUse(mem.chain), held) /\ mem.status = "ordered"
  BY DEF AllocInv, malloc, Called, Working
<1>2. mem' = r.mem /\ held' = held \cup Given(r.ptr, n) /\ mem'.status = "ordered" /\ n \in Nat
  BY AllocAssumption DEF malloc, Working
<1>3. r.mem.status = "ordered"
  BY <1>2
<1>4. Obtained(mem, r, n)
  BY <1>1, <1>2, <1>3, MallocEffect
<1> HIDE DEF r
<1>5. MemInv(r.mem)
  BY <1>4 DEF Obtained
<1>6. HeldInv(InUse(r.mem.chain), held \cup Given(r.ptr, n))
  BY <1>1, <1>2, <1>4, ObtainedHeld
<1> QED
  BY <1>2, <1>5, <1>6 DEF AllocInv

LEMMA ModSmall ==
  ASSUME NEW x \in Nat, NEW y \in Nat, x < y
  PROVE  x % y = x
<1> DEFINE q == x \div y
           s == x % y
<1>1. x = y * q + s /\ s \in 0 .. y - 1 /\ q \in Nat
  OBVIOUS
<1> HIDE DEF q, s
<1>2. q = 0
  <2>1. CASE q >= 1
    <3>1. y * q >= y
      BY <2>1, <1>1
    <3> QED
      BY <3>1, <1>1
  <2> QED
    BY <2>1, <1>1
<1>3. y * q = 0
  BY <1>2
<1> QED
  BY <1>1, <1>3 DEF s

LEMMA CallocStep ==
  ASSUME AllocInv, NEW num \in Counts, NEW n \in RequestSizes, calloc(num, n), Working'
  PROVE  AllocInv'
<1> DEFINE w == num * n
           a == w % (SIZE_MAX + 1)
           r == Malloc(mem, a)
<1>1. MemInv(mem) /\ HeldInv(InUse(mem.chain), held) /\ mem.status = "ordered"
  BY DEF AllocInv, calloc, Called, Working
<1>2. mem' = r.mem /\ held' = held \cup Given(r.ptr, w) /\ mem'.status = "ordered"
  BY DEF calloc, Working
<1>3. num \in Nat /\ n \in Nat /\ SIZE_MAX \in Nat
  BY AllocAssumption
<1>4. w \in Nat
  BY <1>3
<1> HIDE DEF w
<1>5. a \in Nat
  BY <1>3, <1>4
<1>6. w <= SIZE_MAX => a = w
  <2>1. SIZE_MAX + 1 \in Nat /\ (w <= SIZE_MAX => w < SIZE_MAX + 1)
    BY <1>3, <1>4
  <2> QED
    BY <2>1, <1>4, ModSmall
<1> HIDE DEF a
<1>7. Obtained(mem, r, a)
  BY <1>1, <1>2, <1>5, MallocEffect
<1> HIDE DEF r
<1>8. MemInv(r.mem)
  BY <1>7 DEF Obtained
<1>9. HeldInv(InUse(r.mem.chain), held \cup Given(r.ptr, w))
  BY <1>1, <1>4, <1>5, <1>6, <1>7, ObtainedHeld
<1> QED
  BY <1>2, <1>8, <1>9 DEF AllocInv

\* What the caller of free or realloc holds is a used block.
LEMMA HeldBlock ==
  ASSUME NEW m, MemInv(m), NEW H, HeldInv(InUse(m.chain), H), NEW h \in H
  PROVE  \E u \in InUse(m.chain) : Payload(u) = h.at
BY DEF HeldInv

LEMMA FreeStep ==
  ASSUME AllocInv, Working, NEW h \in held, mem' = Release(mem, h.at), held' = held \ {h}
  PROVE  AllocInv'
<1>1. MemInv(mem) /\ HeldInv(InUse(mem.chain), held)
  BY DEF AllocInv
<1>2. PICK u \in InUse(mem.chain) : Payload(u) = h.at
  BY <1>1, HeldBlock
<1>3. MemInv(mem') /\ InUse(mem'.chain) = InUse(mem.chain) \ {u}
  BY <1>1, <1>2, ReleaseEffect
<1>4. HeldInv(InUse(mem.chain) \ {u}, held \ {h})
  BY <1>1, <1>2, UsedBlocks, HeldShrinks
<1> QED
  BY <1>3, <1>4 DEF AllocInv

LEMMA ResizeStep ==
  ASSUME AllocInv, Working, NEW h \in held, NEW n \in Nat, n < BlockOf(h).size, UNCHANGED mem,
         held' = (held \ {h}) \cup Given(h.at, n)
  PROVE  AllocInv'
<1>1. MemInv(mem) /\ HeldInv(InUse(mem.chain), held)
  BY DEF AllocInv
<1>2. PICK u \in InUse(mem.chain) : Payload(u) = h.at
  BY <1>1, HeldBlock
<1>3. Blocks = BlocksOf(mem.chain) /\ u \in BlockTypes
  BY <1>1, <1>2, UsedBlocks, BlocksFinite DEF Blocks, MemInv, MemTypes
<1>4. BlockOf(h) = u
  <2>1. u \in Blocks /\ \A w \in Blocks : Payload(w) = h.at => w = u
    BY <1>1, <1>2, <1>3, PayloadsDiffer DEF InUse
  <2> QED
    BY <2>1, <1>2 DEF BlockOf
<1>5. h.at # NoBlock /\ u.size >= n
  <2>1. u.at \in Nat /\ u.size \in Nat /\ h.at = u.at + META /\ META \in Nat \ {0}
    BY <1>2, <1>3, AllocAssumption DEF BlockTypes, Payload
  <2> QED
    BY <2>1, <1>4 DEF NoBlock
<1>6. HeldInv(InUse(mem.chain), (held \ {h}) \cup {[at |-> h.at, want |-> n]})
  BY <1>1, <1>2, <1>5, HeldResized
<1>7. Given(h.at, n) = {[at |-> h.at, want |-> n]}
  BY <1>5 DEF Given
<1> QED
  BY <1>1, <1>6, <1>7 DEF AllocInv

LEMMA MoveStep ==
  ASSUME AllocInv, Working, NEW h \in held, NEW n \in Nat, Working',
         Malloc(mem, n).ptr # NoBlock, mem' = Release(Malloc(mem, n).mem, h.at),
         held' = (held \ {h}) \cup Given(Malloc(mem, n).ptr, n)
  PROVE  AllocInv'
<1> DEFINE r == Malloc(mem, n)
           H == held \cup Given(r.ptr, n)
<1>1. MemInv(mem) /\ HeldInv(InUse(mem.chain), held) /\ mem.status = "ordered"
  BY DEF AllocInv, Working
<1>2. r.mem.status = "ordered"
  <2> DEFINE m == r.mem
             p == h.at
             s == Release(m, p)
  <2> HIDE DEF m, p
  <2>1. s.status = m.status
    BY DEF Release
  <2> QED
    BY <2>1 DEF Working, m, p
<1>3. Obtained(mem, r, n)
  BY <1>1, <1>2, MallocEffect
<1> HIDE DEF r
<1>4. MemInv(r.mem) /\ HeldInv(InUse(r.mem.chain), H)
  BY <1>1, <1>3, ObtainedHeld DEF Obtained
<1>5. PICK b \in BlockTypes : /\ r.ptr = Payload(b) /\ InUse(r.mem.chain) = InUse(mem.chain) \cup {b}
                              /\ \A u \in InUse(mem.chain) : u.at # b.at
  BY <1>3 DEF Obtained, r
<1>6. PICK u \in InUse(mem.chain) : Payload(u) = h.at
  BY <1>1, HeldBlock
<1>7. u \in InUse(r.mem.chain) /\ h \in H
  BY <1>5, <1>6
<1>8. /\ MemInv(Release(r.mem, h.at))
      /\ InUse(Release(r.mem, h.at).chain) = InUse(r.mem.chain) \ {u}
  BY <1>4, <1>6, <1>7, ReleaseEffect
<1>9. HeldInv(InUse(r.mem.chain) \ {u}, H \ {h})
  BY <1>4, <1>6, <1>7, UsedBlocks, HeldShrinks
<1>10. h.at # r.ptr
  <2>1. u.at # b.at /\ u \in BlockTypes
    BY <1>1, <1>5, <1>6, UsedBlocks
  <2>2. u.at \in Nat /\ b.at \in Nat /\ META \in Nat /\ h.at = u.at + META /\ r.ptr = b.at + META
    BY <2>1, <1>5, <1>6, AllocAssumption DEF BlockTypes, Payload
  <2> QED
    BY <2>1, <2>2
<1>11. H \ {h} = (held \ {h}) \cup Given(r.ptr, n)
  <2>1. \A g \in Given(r.ptr, n) : g.at = r.ptr
    BY DEF Given
  <2> QED
    BY <2>1, <1>10
<1> QED
  BY <1>8, <1>9, <1>11 DEF AllocInv, r

LEMMA ReallocStep ==
  ASSUME AllocInv, NEW h \in held, NEW n \in RequestSizes, realloc(h, n), Working'
  PROVE  AllocInv'
<1> DEFINE r == Malloc(mem, n)
<1>1. Working /\ n \in Nat
  BY AllocAssumption DEF realloc, Called
<1>2. \/ n = 0 /\ mem' = Release(mem, h.at) /\ held' = held \ {h}
      \/ n > 0 /\ n < BlockOf(h).size /\ UNCHANGED mem /\ held' = (held \ {h}) \cup Given(h.at, n)
      \/ r.ptr = NoBlock /\ mem' = r.mem /\ UNCHANGED held
      \/ r.ptr # NoBlock /\ mem' = Release(r.mem, h.at) /\ held' = (held \ {h}) \cup Given(r.ptr, n)
  BY DEF realloc
<1>3. CASE n = 0 /\ mem' = Release(mem, h.at) /\ held' = held \ {h}
  BY <1>1, <1>3, FreeStep
<1>4. CASE n > 0 /\ n < BlockOf(h).size /\ UNCHANGED mem /\ held' = (held \ {h}) \cup Given(h.at, n)
  BY <1>1, <1>4, ResizeStep
<1>5. CASE r.ptr = NoBlock /\ mem' = r.mem /\ UNCHANGED held
  <2>1. MemInv(mem) /\ HeldInv(InUse(mem.chain), held) /\ mem.status = "ordered"
    BY <1>1 DEF AllocInv, Working
  <2>2. r.mem.status = "ordered"
    BY <1>5 DEF Working
  <2>3. Obtained(mem, r, n)
    BY <1>1, <2>1, <2>2, MallocEffect
  <2> HIDE DEF r
  <2>4. MemInv(r.mem) /\ HeldInv(InUse(r.mem.chain), held \cup Given(r.ptr, n))
    BY <1>1, <2>1, <2>3, ObtainedHeld DEF Obtained
  <2>5. held \cup Given(r.ptr, n) = held
    BY <1>5 DEF Given
  <2> QED
    BY <1>5, <2>4, <2>5 DEF AllocInv
<1>6. CASE r.ptr # NoBlock /\ mem' = Release(r.mem, h.at) /\ held' = (held \ {h}) \cup Given(r.ptr, n)
  BY <1>1, <1>6, MoveStep
<1> QED
  BY <1>2, <1>3, <1>4, <1>5, <1>6

LEMMA AllocStepInv == ASSUME AllocInv, [AllocNext]_alloc_vars PROVE AllocInv'
<1>1. CASE UNCHANGED alloc_vars
  BY <1>1 DEF alloc_vars, AllocInv, Working
<1>2. ASSUME NEW n \in RequestSizes, malloc(n) PROVE AllocInv'
  <2>1. CASE Working'
    BY <1>2, <2>1, MallocStep
  <2> QED
    BY <2>1 DEF AllocInv
<1>3. ASSUME NEW n \in RequestSizes, NEW num \in Counts, calloc(num, n) PROVE AllocInv'
  <2>1. CASE Working'
    BY <1>3, <2>1, CallocStep
  <2> QED
    BY <2>1 DEF AllocInv
<1>4. ASSUME NEW h \in held, free(h) PROVE AllocInv'
  BY <1>4, FreeStep DEF free, Called
<1>5. ASSUME NEW h \in held, NEW n \in RequestSizes, realloc(h, n) PROVE AllocInv'
  <2>1. CASE Working'
    BY <1>5, <2>1, ReallocStep
  <2> QED
    BY <2>1 DEF AllocInv
<1> QED
  BY <1>1, <1>2, <1>3, <1>4, <1>5 DEF AllocNext

\* As many blocks are used as callers hold.
LEMMA HeldCount ==
  ASSUME NEW used, NEW H, HeldInv(used, H), IsFiniteSet(used),
         \A u, w \in used : Payload(u) = Payload(w) => u = w
  PROVE  Cardinality(used) = Cardinality(H)
<1> DEFINE f == [b \in used |-> CHOOSE h \in H : h.at = Payload(b)]
<1>1. \A b \in used : f[b] \in H /\ f[b].at = Payload(b)
  BY DEF HeldInv
<1>2. f \in [used -> H]
  BY <1>1
<1>3. \A u, w \in used : f[u] = f[w] => u = w
  BY <1>1
<1>4. \A h \in H : \E b \in used : f[b] = h
  BY <1>1 DEF HeldInv
<1> HIDE DEF f
<1>5. f \in Bijection(used, H)
  BY <1>2, <1>3, <1>4 DEF Bijection, Injection, Surjection, IsInjective
<1>6. ExistsBijection(used, H)
  BY <1>5 DEF ExistsBijection
<1> QED
  BY <1>6, FS_Bijection

LEMMA AllocInvSound == ASSUME AllocInv PROVE HeapSound
<1> SUFFICES ASSUME Working PROVE HeapSound
  BY DEF HeapSound
<1> DEFINE c == mem.chain
<1>1. /\ MemInv(mem) /\ HeldInv(InUse(c), held) /\ c \in Seq(BlockTypes)
      /\ ChainOrdered(c, mem.brk, mem.holed) /\ DOMAIN c = 1 .. Len(c) /\ Len(c) \in Nat
  BY DEF AllocInv, MemInv, MemTypes
<1>2. Blocks = BlocksOf(c) /\ IsFiniteSet(InUse(c))
  BY <1>1, BlocksFinite DEF Blocks
<1>3. {b \in Blocks : ~b.free} = InUse(c) /\ {b \in Blocks : b.free} = FreeOnes(c)
  BY <1>2 DEF InUse, FreeOnes
<1>4. Cardinality({b \in Blocks : ~b.free}) = Cardinality(held)
  BY <1>1, <1>2, <1>3, UsedBlocks, HeldCount
<1>5. Cardinality({b \in Blocks : b.free}) <= mem.total_free_blocks
  BY <1>1, <1>3 DEF MemInv
<1>6. \A h \in held : \E b \in Blocks :
         Payload(b) = h.at /\ ~b.free /\ (h.want <= SIZE_MAX => b.size >= h.want)
  BY <1>1, <1>2 DEF HeldInv, InUse
<1>7. ASSUME NEW k \in DOMAIN c
      PROVE  LET limit == IF k = 1 THEN mem.brk ELSE c[k - 1].at IN
             c[k].size > 0 /\ End(c[k]) <= limit /\ (~mem.holed => End(c[k]) = limit)
  <2>1. k \in 1 .. Len(c) /\ (k # 1 => k - 1 \in 1 .. Len(c) /\ k - 1 < k)
    BY <1>1
  <2>2. c[k].size > 0 /\ End(c[k]) <= mem.brk /\ (k # 1 => End(c[k]) <= c[k - 1].at)
    BY <2>1, <1>1 DEF ChainOrdered
  <2>3. ~mem.holed => End(c[k]) = IF k = 1 THEN mem.brk ELSE c[k - 1].at
    BY <2>1, <1>1 DEF ChainOrdered
  <2> QED
    BY <2>2, <2>3
<1> QED
  BY <1>4, <1>5, <1>6, <1>7 DEF HeapSound

\* alloc.c:32-201: after any sequence of calls that keeps the chain in order, with
\* splits and merges in find_fit, moves in realloc and a second sbrk that fails,
\* blocks do not overlap, callers hold the blocks that are in use, each as large as
\* was asked for, and no free block is left uncounted; for any sizes and limit.
THEOREM HeapCorrect == AllocSpec => []HeapSound
<1>1. AllocInit => AllocInv
  BY AllocInitInv
<1>2. AllocInv /\ [AllocNext]_alloc_vars => AllocInv'
  BY AllocStepInv
<1>3. AllocInv => HeapSound
  BY AllocInvSound
<1> QED
  BY <1>1, <1>2, <1>3, PTL DEF AllocSpec


-----------------------------------------------------------------------------
(* mini_memcheck/mini_memcheck.c *)

Listings == [at : Addrs, request_size : Nat]

\* g[k] is the sum of the sizes of the first k blocks of c.
SumsOf(c, g) ==
  /\ g \in [0 .. Len(c) -> Int] /\ g[0] = 0
  /\ \A k \in 1 .. Len(c) : g[k] = g[k - 1] + c[k].request_size

\* The sum of the sizes is s, or may be; there is only one (ListSum).
SumIs(c, s) == \E g : SumsOf(c, g) /\ g[Len(c)] = s

MemcheckInv ==
  /\ blocks \in Seq(Listings) /\ Range(blocks) = handed
  /\ \A i, k \in 1 .. Len(blocks) : blocks[i].at = blocks[k].at => i = k
  /\ total_memory_requested \in Nat /\ total_memory_freed \in Nat
  /\ \E s \in Int : SumIs(blocks, s) /\ Wrap(total_memory_requested - total_memory_freed) = Wrap(s)

\* Folding over the subsets of 1 .. n, the largest element first.
IsFold(c, n, f) ==
  f = [s \in SUBSET (1 .. n) |-> IF s = {} THEN 0 ELSE f[s \ {Max(s)}] + c[Max(s)].request_size]

LEMMA MaxIs ==
  ASSUME NEW n \in Nat, NEW s \in SUBSET (1 .. n), n \in s
  PROVE  Max(s) = n
<1>1. \A x \in s : x \in Nat /\ x <= n
  OBVIOUS
<1>2. \A x \in s : (\A y \in s : x >= y) => x = n
  BY <1>1
<1> QED
  BY <1>1, <1>2 DEF Max

LEMMA FoldExists ==
  ASSUME NEW c, NEW N \in Nat
  PROVE  \A n \in 0 .. N : \E f : IsFold(c, n, f)
<1> DEFINE T == {n \in 0 .. N : ~ \E f : IsFold(c, n, f)}
<1> SUFFICES ASSUME T # {} PROVE FALSE
  OBVIOUS
<1>1. T \subseteq Nat
  OBVIOUS
<1>2. PICK n \in T : \A k \in T : n <= k
  <2> HIDE DEF T
  <2> QED
    BY <1>1, Least
<1>3. n # 0
  <2>1. SUBSET (1 .. 0) = {{}}
    OBVIOUS
  <2>2. IsFold(c, 0, [s \in {{}} |-> 0])
    BY <2>1 DEF IsFold
  <2> QED
    BY <2>2
<1>4. n \in 1 .. N /\ n - 1 \in 0 .. N /\ n - 1 < n /\ n \in Nat
  BY <1>3
<1>5. PICK f : IsFold(c, n - 1, f)
  BY <1>2, <1>4
<1> DEFINE S == SUBSET (1 .. n)
           R == SUBSET (1 .. n - 1)
           h == [s \in S |-> IF n \in s THEN f[s \ {n}] + c[n].request_size ELSE f[s]]
<1>6. \A s \in S : n \in s => s \ {n} \in R /\ s \ {n} \in S /\ n \notin s \ {n}
  BY <1>4
<1>7. \A s \in S : n \notin s => s \in R
  BY <1>4
<1>8. ASSUME NEW s \in R, s # {} PROVE s \ {Max(s)} \in R /\ R \subseteq S
  <2>1. 1 .. n - 1 \subseteq 1 .. n
    BY <1>4
  <2> QED
    BY <2>1
<1>9. \A s \in R : f[s] = IF s = {} THEN 0 ELSE f[s \ {Max(s)}] + c[Max(s)].request_size
  BY <1>5 DEF IsFold
<1>10. \A s \in R : n \notin s
  BY <1>4
<1>11. \A s \in S : h[s] = IF s = {} THEN 0 ELSE h[s \ {Max(s)}] + c[Max(s)].request_size
  <2> SUFFICES ASSUME NEW s \in S
               PROVE  h[s] = IF s = {} THEN 0 ELSE h[s \ {Max(s)}] + c[Max(s)].request_size
    OBVIOUS
  <2>1. CASE n \in s
    <3>1. Max(s) = n
      BY <2>1, <1>4, MaxIs
    <3>2. h[s] = f[s \ {n}] + c[n].request_size /\ h[s \ {n}] = f[s \ {n}]
      BY <2>1, <1>6
    <3> QED
      BY <2>1, <3>1, <3>2
  <2>2. CASE n \notin s /\ s # {}
    <3>1. s \in R /\ h[s] = f[s]
      BY <2>2, <1>7
    <3>2. s \ {Max(s)} \in R /\ s \ {Max(s)} \in S
      BY <2>2, <3>1, <1>8
    <3>3. h[s \ {Max(s)}] = f[s \ {Max(s)}]
      BY <3>2, <1>10
    <3> QED
      BY <2>2, <3>1, <3>3, <1>9
  <2>3. CASE s = {}
    BY <2>3, <1>7, <1>9
  <2> QED
    BY <2>1, <2>2, <2>3
<1>12. IsFold(c, n, h)
  <2>1. h = [s \in S |-> h[s]]
    OBVIOUS
  <2> HIDE DEF h, S
  <2>2. h = [s \in S |-> IF s = {} THEN 0 ELSE h[s \ {Max(s)}] + c[Max(s)].request_size]
    BY <2>1, <1>11
  <2> QED
    BY <2>2 DEF IsFold, S
<1> QED
  BY <1>12

\* The sum that Accounted folds the list to is the one that SumIs describes.
LEMMA ListSum ==
  ASSUME NEW c \in Seq(Listings), NEW s, SumIs(c, s)
  PROVE  FoldLeft(LAMBDA sum, b : sum + b.request_size, 0, c) = s
<1> DEFINE N == Len(c)
           f == CHOOSE f : IsFold(c, N, f)
<1>1. N \in Nat /\ DOMAIN c = 1 .. N
  OBVIOUS
<1>2. PICK g : SumsOf(c, g) /\ g[N] = s
  BY DEF SumIs
<1>3. FoldLeft(LAMBDA sum, b : sum + b.request_size, 0, c) = f[1 .. N]
  <2>1. FoldLeft(LAMBDA sum, b : sum + b.request_size, 0, c)
          = (CHOOSE it : it = [u \in SUBSET (DOMAIN c) |->
               IF u = {} THEN 0 ELSE it[u \ {Max(u)}] + c[Max(u)].request_size])[DOMAIN c]
    BY DEF FoldLeft, MapThenFoldSet
  <2> QED
    BY <2>1, <1>1 DEF IsFold
<1>4. IsFold(c, N, f)
  <2>1. \E h : IsFold(c, N, h)
    <3>1. N \in 0 .. N
      BY <1>1
    <3> QED
      BY <1>1, <3>1, FoldExists
  <2> QED
    BY <2>1
<1> HIDE DEF f, N
<1>5. \A u \in SUBSET (1 .. N) : f[u] = IF u = {} THEN 0 ELSE f[u \ {Max(u)}] + c[Max(u)].request_size
  BY <1>4 DEF IsFold
<1> DEFINE T == {k \in 0 .. N : f[1 .. k] # g[k]}
<1>6. T = {}
  <2> SUFFICES ASSUME T # {} PROVE FALSE
    OBVIOUS
  <2>1. T \subseteq Nat
    OBVIOUS
  <2>2. PICK k \in T : \A y \in T : k <= y
    <3> HIDE DEF T
    <3> QED
      BY <2>1, Least
  <2>3. k # 0
    <3>1. 1 .. 0 = {} /\ {} \in SUBSET (1 .. N)
      OBVIOUS
    <3>2. f[1 .. 0] = 0 /\ g[0] = 0
      BY <3>1, <1>2, <1>5 DEF SumsOf
    <3> QED
      BY <3>2
  <2>4. k \in 1 .. N /\ k - 1 \in 0 .. N /\ k \in Nat /\ k - 1 < k
    BY <2>3, <1>1
  <2>5. f[1 .. k - 1] = g[k - 1]
    BY <2>2, <2>4
  <2>6. 1 .. k \in SUBSET (1 .. N) /\ 1 .. k # {} /\ k \in 1 .. k /\ (1 .. k) \ {k} = 1 .. k - 1
    <3>1. k \in 1 .. k /\ 1 .. k \subseteq 1 .. N
      BY <2>4, <1>1
    <3>2. \A x : x \in (1 .. k) \ {k} <=> x \in 1 .. k - 1
      BY <2>4
    <3> QED
      BY <3>1, <3>2
  <2>7. Max(1 .. k) = k
    BY <2>4, <2>6, MaxIs
  <2>8. f[1 .. k] = f[1 .. k - 1] + c[k].request_size
    BY <2>6, <2>7, <1>5
  <2>9. g[k] = g[k - 1] + c[k].request_size
    BY <2>4, <1>2 DEF SumsOf, N
  <2> QED
    BY <2>5, <2>8, <2>9
<1>7. N \in 0 .. N
  BY <1>1
<1> QED
  BY <1>2, <1>3, <1>6, <1>7

\* What RemoveAt leaves.
LEMMA RemovedParts ==
  ASSUME NEW S, NEW c \in Seq(S), NEW p \in 1 .. Len(c)
  PROVE  /\ RemoveAt(c, p) \in Seq(S) /\ Len(RemoveAt(c, p)) = Len(c) - 1
         /\ \A k \in 1 .. Len(c) - 1 : RemoveAt(c, p)[k] = IF k < p THEN c[k] ELSE c[k + 1]
<1> DEFINE a == SubSeq(c, 1, p - 1)
           z == SubSeq(c, p + 1, Len(c))
           N == Len(c)
<1>1. N \in Nat /\ p \in 1 .. N
  OBVIOUS
<1>2. a \in Seq(S) /\ Len(a) = p - 1 /\ \A x \in 1 .. p - 1 : a[x] = c[x]
  BY <1>1
<1>3. z \in Seq(S) /\ Len(z) = N - p /\ \A x \in 1 .. N - p : z[x] = c[p + x]
  BY <1>1
<1>4. RemoveAt(c, p) = a \o z
  BY DEF RemoveAt
<1> HIDE DEF a, z
<1>5. a \o z \in Seq(S) /\ Len(a \o z) = Len(a) + Len(z)
  BY <1>2, <1>3, ConcatProperties
<1>6. \A x \in 1 .. Len(a) : (a \o z)[x] = a[x]
  BY <1>2, <1>3
<1>7. \A x \in 1 .. Len(z) : (a \o z)[Len(a) + x] = z[x]
  BY <1>2, <1>3
<1> HIDE DEF N
<1>8. ASSUME NEW k \in 1 .. N - 1 PROVE (a \o z)[k] = IF k < p THEN c[k] ELSE c[k + 1]
  <2>1. CASE k < p
    <3>1. k \in 1 .. p - 1
      BY <2>1, <1>1
    <3> QED
      BY <3>1, <2>1, <1>2, <1>6
  <2>2. CASE ~(k < p)
    <3>1. k - (p - 1) \in 1 .. N - p /\ p + (k - (p - 1)) = k + 1 /\ (p - 1) + (k - (p - 1)) = k
      BY <2>2, <1>1
    <3> QED
      BY <3>1, <2>2, <1>2, <1>3, <1>7
  <2> QED
    BY <2>1, <2>2
<1>9. Len(a \o z) = N - 1
  BY <1>1, <1>2, <1>3, <1>5
<1> QED
  BY <1>4, <1>5, <1>8, <1>9 DEF N

\* The sum of what a longer list, a shorter list and a changed one hold.
LEMMA SumPrepended ==
  ASSUME NEW c \in Seq(Listings), NEW b \in Listings, NEW s \in Int, SumIs(c, s)
  PROVE  SumIs(<<b>> \o c, s + b.request_size)
<1> DEFINE N == Len(c)
           t == <<b>> \o c
           z == b.request_size
<1>1. N \in Nat /\ z \in Int
  BY DEF Listings
<1>z. \A k \in 1 .. N : c[k].request_size \in Int
  <2>1. \A k \in 1 .. N : c[k] \in Listings
    OBVIOUS
  <2> QED
    BY <2>1 DEF Listings
<1>2. PICK g : SumsOf(c, g) /\ g[N] = s
  BY DEF SumIs
<1>3. Len(t) = N + 1 /\ t[1] = b /\ \A k \in 1 .. N : t[k + 1] = c[k]
  OBVIOUS
<1>4. /\ g \in [0 .. N -> Int] /\ g[0] = 0
      /\ \A k \in 1 .. N : g[k] = g[k - 1] + c[k].request_size
  BY <1>2 DEF SumsOf
<1> DEFINE h == [k \in 0 .. N + 1 |-> IF k = 0 THEN 0 ELSE g[k - 1] + z]
<1> HIDE DEF N, t, z
<1>5. \A k \in 1 .. N + 1 : k - 1 \in 0 .. N /\ k \in 0 .. N + 1 /\ k # 0
  BY <1>1
<1>6. h \in [0 .. N + 1 -> Int]
  <2> SUFFICES ASSUME NEW k \in 0 .. N + 1 PROVE (IF k = 0 THEN 0 ELSE g[k - 1] + z) \in Int
    OBVIOUS
  <2>1. CASE k = 0
    BY <2>1
  <2>2. CASE k # 0
    <3>1. k \in 1 .. N + 1
      BY <2>2, <1>1
    <3>2. g[k - 1] \in Int
      BY <3>1, <1>4, <1>5
    <3> QED
      BY <2>2, <3>2, <1>1
  <2> QED
    BY <2>1, <2>2
<1>7. h[0] = 0 /\ \A k \in 1 .. N + 1 : h[k] = g[k - 1] + z
  <2>1. 0 \in 0 .. N + 1
    BY <1>1
  <2> QED
    BY <2>1, <1>5
<1> HIDE DEF h
<1>8. ASSUME NEW k \in 1 .. N + 1 PROVE h[k] = h[k - 1] + t[k].request_size
  <2>1. CASE k = 1
    <3>1. h[1] = g[0] + z /\ t[1].request_size = z
      BY <2>1, <1>3, <1>7, <1>1 DEF z
    <3> QED
      BY <3>1, <2>1, <1>1, <1>4, <1>7
  <2>2. CASE k # 1
    <3>1. k - 1 \in 1 .. N /\ (k - 1) + 1 = k /\ (k - 1) - 1 \in 0 .. N /\ k - 1 \in 1 .. N + 1
      BY <2>2, <1>1
    <3>2. h[k] = g[k - 1] + z /\ h[k - 1] = g[(k - 1) - 1] + z
      BY <3>1, <1>7
    <3>3. g[k - 1] = g[(k - 1) - 1] + c[k - 1].request_size /\ t[k] = c[k - 1]
      BY <3>1, <1>3, <1>4
    <3>4. g[(k - 1) - 1] \in Int /\ c[k - 1].request_size \in Int
      BY <3>1, <1>z, <1>4
    <3> DEFINE p == g[(k - 1) - 1]
               q == c[k - 1].request_size
    <3>5. p \in Int /\ q \in Int /\ h[k] = (p + q) + z /\ h[k - 1] = p + z /\ t[k].request_size = q
      BY <3>2, <3>3, <3>4
    <3> HIDE DEF p, q
    <3> QED
      BY <3>5, <1>1
  <2> QED
    BY <2>1, <2>2
<1>9. SumsOf(t, h)
  BY <1>3, <1>6, <1>7, <1>8 DEF SumsOf
<1>10. h[Len(t)] = s + z
  <2>1. N + 1 \in 1 .. N + 1 /\ (N + 1) - 1 = N
    BY <1>1
  <2> QED
    BY <2>1, <1>2, <1>3, <1>7 DEF N
<1> QED
  BY <1>9, <1>10 DEF SumIs, t, z

LEMMA SumRemoved ==
  ASSUME NEW c \in Seq(Listings), NEW p \in 1 .. Len(c), NEW s \in Int, SumIs(c, s)
  PROVE  SumIs(RemoveAt(c, p), s - c[p].request_size)
<1> DEFINE N == Len(c)
           t == RemoveAt(c, p)
           z == c[p].request_size
<1>1. N \in Nat /\ p \in 1 .. N /\ N - 1 \in Nat
  OBVIOUS
<1>z. \A k \in 1 .. N : c[k].request_size \in Int
  <2>1. \A k \in 1 .. N : c[k] \in Listings
    OBVIOUS
  <2> QED
    BY <2>1 DEF Listings
<1>2. PICK g : SumsOf(c, g) /\ g[N] = s
  BY DEF SumIs
<1>3. Len(t) = N - 1 /\ \A k \in 1 .. N - 1 : t[k] = IF k < p THEN c[k] ELSE c[k + 1]
  BY RemovedParts
<1>4. /\ g \in [0 .. N -> Int] /\ g[0] = 0
      /\ \A k \in 1 .. N : g[k] = g[k - 1] + c[k].request_size
  BY <1>2 DEF SumsOf
<1> DEFINE h == [k \in 0 .. N - 1 |-> IF k < p THEN g[k] ELSE g[k + 1] - z]
<1> HIDE DEF N, t, z
<1>5. z \in Int /\ g[p] = g[p - 1] + z /\ g[p - 1] \in Int
  <2>1. p - 1 \in 0 .. N
    BY <1>1
  <2> QED
    BY <2>1, <1>1, <1>z, <1>4 DEF z
<1>6. \A k \in 0 .. N - 1 : k \in 0 .. N /\ k + 1 \in 1 .. N /\ k + 1 \in 0 .. N
  BY <1>1
<1>7. h \in [0 .. N - 1 -> Int]
  <2> SUFFICES ASSUME NEW k \in 0 .. N - 1 PROVE (IF k < p THEN g[k] ELSE g[k + 1] - z) \in Int
    OBVIOUS
  <2>1. g[k] \in Int /\ g[k + 1] \in Int
    BY <1>4, <1>6
  <2> QED
    BY <2>1, <1>5
<1>8. \A k \in 0 .. N - 1 : h[k] = IF k < p THEN g[k] ELSE g[k + 1] - z
  OBVIOUS
<1> HIDE DEF h
<1>9. h[0] = 0
  <2>1. 0 \in 0 .. N - 1 /\ 0 < p
    BY <1>1
  <2> QED
    BY <2>1, <1>4, <1>8
<1>10. ASSUME NEW k \in 1 .. N - 1 PROVE h[k] = h[k - 1] + t[k].request_size
  <2>1. /\ k \in 0 .. N - 1 /\ k - 1 \in 0 .. N - 1 /\ k \in 1 .. N /\ k + 1 \in 1 .. N
        /\ (k + 1) - 1 = k /\ (k - 1) + 1 = k /\ k \in Int /\ p \in Int
    BY <1>1
  <2>2. g[k - 1] \in Int /\ g[k] \in Int /\ g[k + 1] \in Int
    BY <2>1, <1>4, <1>6
  <2>3. g[k] = g[k - 1] + c[k].request_size /\ g[k + 1] = g[k] + c[k + 1].request_size
    BY <2>1, <1>4
  <2>4. c[k].request_size \in Int /\ c[k + 1].request_size \in Int
    BY <2>1, <1>z
  <2>5. CASE k < p
    <3>1. h[k] = g[k] /\ h[k - 1] = g[k - 1] /\ t[k] = c[k]
      <4>1. k - 1 < p
        BY <2>1, <2>5
      <4> QED
        BY <4>1, <2>1, <2>5, <1>3, <1>8
    <3> QED
      BY <3>1, <2>3
  <2>6. CASE k = p
    <3>1. h[k] = g[k + 1] - z /\ t[k] = c[k + 1]
      BY <2>1, <2>6, <1>3, <1>8
    <3>2. h[k - 1] = g[k - 1]
      <4>1. k - 1 < p
        BY <2>1, <2>6
      <4> QED
        BY <4>1, <2>1, <1>8
    <3>3. g[k] = g[k - 1] + z
      BY <2>6, <1>5
    <3> DEFINE u == g[k - 1]
               v == c[k + 1].request_size
    <3>4. u \in Int /\ v \in Int /\ h[k] = ((u + z) + v) - z /\ h[k - 1] = u /\ t[k].request_size = v
      BY <3>1, <3>2, <3>3, <2>2, <2>3, <2>4
    <3> HIDE DEF u, v
    <3> QED
      BY <3>4, <1>5
  <2>7. CASE k > p
    <3>1. h[k] = g[k + 1] - z /\ t[k] = c[k + 1] /\ h[k - 1] = g[k] - z
      <4>1. ~(k < p) /\ ~(k - 1 < p)
        BY <2>1, <2>7
      <4> QED
        BY <4>1, <2>1, <1>3, <1>8
    <3> DEFINE u == g[k]
               v == c[k + 1].request_size
    <3>4. u \in Int /\ v \in Int /\ h[k] = (u + v) - z /\ h[k - 1] = u - z /\ t[k].request_size = v
      BY <3>1, <2>2, <2>3, <2>4
    <3> HIDE DEF u, v
    <3> QED
      BY <3>4, <1>5
  <2> QED
    BY <2>1, <2>5, <2>6, <2>7
<1>11. SumsOf(t, h)
  BY <1>3, <1>7, <1>9, <1>10 DEF SumsOf
<1>12. h[Len(t)] = s - z
  <2>1. N - 1 \in 0 .. N - 1 /\ (N - 1) + 1 = N
    BY <1>1
  <2>2. CASE N - 1 < p
    <3>1. N = p /\ h[N - 1] = g[N - 1]
      BY <2>1, <2>2, <1>1, <1>8
    <3>2. s = g[p - 1] + z /\ h[N - 1] = g[p - 1]
      BY <3>1, <1>2, <1>5 DEF N
    <3> QED
      BY <3>2, <1>3, <1>5
  <2>3. CASE ~(N - 1 < p)
    BY <2>1, <2>3, <1>2, <1>3, <1>8 DEF N
  <2> QED
    BY <2>2, <2>3
<1> QED
  BY <1>11, <1>12 DEF SumIs, t, z

LEMMA SumChanged ==
  ASSUME NEW c \in Seq(Listings), NEW p \in 1 .. Len(c), NEW b \in Listings, NEW s \in Int, SumIs(c, s)
  PROVE  SumIs([c EXCEPT ![p] = b], s + (b.request_size - c[p].request_size))
<1> DEFINE N == Len(c)
           t == [c EXCEPT ![p] = b]
           d == b.request_size - c[p].request_size
<1>1. N \in Nat /\ p \in 1 .. N
  OBVIOUS
<1>z. \A k \in 1 .. N : c[k].request_size \in Int
  <2>1. \A k \in 1 .. N : c[k] \in Listings
    OBVIOUS
  <2> QED
    BY <2>1 DEF Listings
<1>2. PICK g : SumsOf(c, g) /\ g[N] = s
  BY DEF SumIs
<1>3. Len(t) = N /\ t[p] = b /\ \A k \in 1 .. N : k # p => t[k] = c[k]
  OBVIOUS
<1>4. /\ g \in [0 .. N -> Int] /\ g[0] = 0
      /\ \A k \in 1 .. N : g[k] = g[k - 1] + c[k].request_size
  BY <1>2 DEF SumsOf
<1>5. b.request_size \in Int /\ c[p].request_size \in Int /\ d \in Int
  BY <1>1, <1>z DEF Listings
<1> DEFINE h == [k \in 0 .. N |-> IF k < p THEN g[k] ELSE g[k] + d]
<1> HIDE DEF N, t, d
<1>6. h \in [0 .. N -> Int]
  <2> SUFFICES ASSUME NEW k \in 0 .. N PROVE (IF k < p THEN g[k] ELSE g[k] + d) \in Int
    OBVIOUS
  <2>1. g[k] \in Int
    BY <1>4
  <2> QED
    BY <2>1, <1>5
<1>7. \A k \in 0 .. N : h[k] = IF k < p THEN g[k] ELSE g[k] + d
  OBVIOUS
<1> HIDE DEF h
<1>8. h[0] = 0
  <2>1. 0 \in 0 .. N /\ 0 < p
    BY <1>1
  <2> QED
    BY <2>1, <1>4, <1>7
<1>9. ASSUME NEW k \in 1 .. N PROVE h[k] = h[k - 1] + t[k].request_size
  <2>1. k \in 0 .. N /\ k - 1 \in 0 .. N /\ k \in Int /\ p \in Int
    BY <1>1
  <2>2. g[k - 1] \in Int /\ c[k].request_size \in Int /\ g[k] = g[k - 1] + c[k].request_size
    BY <2>1, <1>4, <1>z
  <2> DEFINE u == g[k - 1]
             v == c[k].request_size
  <2>3. CASE k < p
    <3>1. k - 1 < p /\ k # p
      BY <2>1, <2>3
    <3> QED
      BY <3>1, <2>1, <2>2, <2>3, <1>3, <1>7
  <2>4. CASE k = p
    <3>1. k - 1 < p /\ ~(k < p)
      BY <2>1, <2>4
    <3>2. u \in Int /\ v \in Int /\ h[k] = (u + v) + d /\ h[k - 1] = u /\ t[k] = b /\ d = b.request_size - v
      BY <3>1, <2>1, <2>2, <2>4, <1>3, <1>7 DEF d
    <3> DEFINE w == b.request_size
    <3>3. w \in Int /\ d = w - v /\ t[k].request_size = w
      BY <3>2, <1>5
    <3> HIDE DEF u, v, w
    <3> QED
      BY <3>2, <3>3
  <2>5. CASE k > p
    <3>1. ~(k - 1 < p) /\ ~(k < p) /\ k # p
      BY <2>1, <2>5
    <3>2. u \in Int /\ v \in Int /\ h[k] = (u + v) + d /\ h[k - 1] = u + d /\ t[k].request_size = v
      BY <3>1, <2>1, <2>2, <1>3, <1>7
    <3> HIDE DEF u, v
    <3> QED
      BY <3>2, <1>5
  <2> QED
    BY <2>1, <2>3, <2>4, <2>5
<1>10. SumsOf(t, h)
  BY <1>3, <1>6, <1>8, <1>9 DEF SumsOf
<1>11. h[Len(t)] = s + d
  <2>1. N \in 0 .. N /\ ~(N < p)
    BY <1>1
  <2> QED
    BY <2>1, <1>2, <1>3, <1>7 DEF N
<1> QED
  BY <1>10, <1>11 DEF SumIs, t, d

-----------------------------------------------------------------------------
(* Numbers modulo MODULUS *)

Congruent(a, b) == \E k \in Int : a = b + k * MODULUS

LEMMA WrapParts ==
  ASSUME NEW a \in Int
  PROVE  Wrap(a) \in 0 .. MODULUS - 1 /\ Wrap(a) \in Nat /\ \E k \in Int : a = Wrap(a) + k * MODULUS
<1>1. MODULUS \in Nat /\ MODULUS > 0
  BY MemcheckAssumption
<1> DEFINE q == a \div MODULUS
           r == a % MODULUS
<1>2. q \in Int /\ r \in 0 .. MODULUS - 1 /\ a = MODULUS * q + r
  BY <1>1
<1> HIDE DEF q, r
<1>3. a = r + q * MODULUS /\ r \in Nat
  BY <1>1, <1>2
<1> QED
  BY <1>2, <1>3 DEF Wrap, r

LEMMA MultipleSmall ==
  ASSUME NEW m \in Nat, m > 0, NEW k \in Int, k * m < m, k * m > 0 - m
  PROVE  k = 0
<1>1. CASE k >= 1
  <2>1. k * m >= m
    BY <1>1
  <2> QED
    BY <2>1
<1>2. CASE k <= -1
  <2>1. k * m <= (-1) * m
    BY <1>2
  <2> QED
    BY <2>1
<1> QED
  BY <1>1, <1>2

LEMMA WrapCongruent ==
  ASSUME NEW a \in Int, NEW b \in Int
  PROVE  Wrap(a) = Wrap(b) <=> Congruent(a, b)
<1> DEFINE r == Wrap(a)
           s == Wrap(b)
           M == MODULUS
<1>1. M \in Nat /\ M > 0 /\ r \in 0 .. M - 1 /\ s \in 0 .. M - 1
  BY WrapParts, MemcheckAssumption
<1>2. PICK j \in Int : a = r + j * M
  BY WrapParts
<1>3. PICK k \in Int : b = s + k * M
  BY WrapParts
<1> HIDE DEF r, s, M
<1>4. ASSUME r = s PROVE \E l \in Int : a = b + l * M
  <2>1. j - k \in Int /\ (j - k) * M = j * M - k * M
    BY <1>1
  <2>2. a = b + (j - k) * M
    BY <2>1, <1>1, <1>2, <1>3, <1>4
  <2> QED
    BY <2>1, <2>2
<1>5. ASSUME NEW l \in Int, a = b + l * M PROVE r = s
  <2>1. (k + l) - j \in Int /\ ((k + l) - j) * M = (k * M + l * M) - j * M
    BY <1>1
  <2>2. r - s = ((k + l) - j) * M
    BY <2>1, <1>1, <1>2, <1>3, <1>5
  <2>3. (k + l) - j = 0
    <3> DEFINE x == (k + l) - j
    <3>1. x \in Int /\ x * M < M /\ x * M > 0 - M
      BY <2>1, <2>2, <1>1
    <3> HIDE DEF x
    <3>2. x = 0
      BY <3>1, <1>1, MultipleSmall
    <3> QED
      BY <3>2 DEF x
  <2>4. r - s = 0
    BY <2>2, <2>3, <1>1
  <2> QED
    BY <2>4, <1>1
<1> QED
  BY <1>4, <1>5 DEF Congruent, r, s, M

LEMMA CongruentSums ==
  ASSUME NEW a \in Int, NEW b \in Int, NEW c \in Int, NEW d \in Int, Congruent(a, b), Congruent(c, d)
  PROVE  Congruent(a + c, b + d) /\ Congruent(a - c, b - d)
<1> DEFINE M == MODULUS
<1>1. M \in Int
  BY MemcheckAssumption
<1>2. PICK j \in Int : a = b + j * M
  BY DEF Congruent
<1>3. PICK k \in Int : c = d + k * M
  BY DEF Congruent
<1> HIDE DEF M
<1>4. /\ j + k \in Int /\ j - k \in Int
      /\ (j + k) * M = j * M + k * M /\ (j - k) * M = j * M - k * M /\ j * M \in Int /\ k * M \in Int
  BY <1>1
<1>5. a + c = (b + d) + (j + k) * M /\ a - c = (b - d) + (j - k) * M
  BY <1>2, <1>3, <1>4
<1> QED
  BY <1>4, <1>5 DEF Congruent, M

\* More requested, or more freed.
Differ(r, f, s) == Wrap(r - f) = Wrap(s)

LEMMA Counted ==
  ASSUME NEW r \in Int, NEW f \in Int, NEW s \in Int, NEW x \in Int, Differ(r, f, s)
  PROVE  Differ(Wrap(r + x), f, s + x) /\ Differ(r, Wrap(f + x), s - x)
<1> DEFINE u == Wrap(r + x)
           w == Wrap(f + x)
<1>1. /\ r - f \in Int /\ r + x \in Int /\ f + x \in Int /\ s + x \in Int /\ s - x \in Int
      /\ u \in Int /\ w \in Int
  BY WrapParts
<1>2. Congruent(r - f, s)
  BY <1>1, WrapCongruent DEF Differ
<1>3. \A y \in Int : Congruent(y, y)
  BY MemcheckAssumption DEF Congruent
<1>4. Congruent(Wrap(r + x), r + x) /\ Congruent(Wrap(f + x), f + x)
  <2>1. \A y \in Int : Wrap(Wrap(y)) = Wrap(y)
    <3> SUFFICES ASSUME NEW y \in Int PROVE Wrap(Wrap(y)) = Wrap(y)
      OBVIOUS
    <3>1. Wrap(y) \in Nat /\ Wrap(y) < MODULUS /\ MODULUS \in Nat
      <4>1. MODULUS \in Nat /\ Wrap(y) \in 0 .. MODULUS - 1
        BY WrapParts, MemcheckAssumption
      <4> QED
        BY <4>1
    <3>2. Wrap(y) % MODULUS = Wrap(y)
      BY <3>1, ModSmall
    <3> QED
      BY <3>2 DEF Wrap
  <2> QED
    BY <2>1, <1>1, WrapCongruent
<1> HIDE DEF u, w
<1>5. Congruent(u - f, (r + x) - f)
  BY <1>1, <1>3, <1>4, CongruentSums DEF u
<1>6. Congruent(r - w, r - (f + x))
  BY <1>1, <1>3, <1>4, CongruentSums DEF w
<1>7. Congruent((r - f) + x, s + x) /\ Congruent((r - f) - x, s - x)
  BY <1>1, <1>2, <1>3, CongruentSums
<1>8. (r + x) - f = (r - f) + x /\ r - (f + x) = (r - f) - x /\ u - f \in Int /\ r - w \in Int
      /\ (r - f) + x \in Int /\ (r - f) - x \in Int
  BY <1>1
<1>9. Wrap(u - f) = Wrap((r - f) + x) /\ Wrap(r - w) = Wrap((r - f) - x)
  BY <1>5, <1>6, <1>8, WrapCongruent
<1>10. Wrap((r - f) + x) = Wrap(s + x) /\ Wrap((r - f) - x) = Wrap(s - x)
  BY <1>1, <1>7, <1>8, WrapCongruent
<1> QED
  BY <1>9, <1>10 DEF u, w, Differ

-----------------------------------------------------------------------------
(* The calls of the checker *)

LEMMA ListedStep ==
  ASSUME MemcheckInv, NEW n \in Nat, Listed(n)
  PROVE  MemcheckInv'
<1> DEFINE c == blocks
           r == total_memory_requested
           f == total_memory_freed
<1>1. /\ c \in Seq(Listings) /\ Range(c) = handed
      /\ \A i, k \in 1 .. Len(c) : c[i].at = c[k].at => i = k
      /\ r \in Nat /\ f \in Nat /\ DOMAIN c = 1 .. Len(c) /\ Len(c) \in Nat
  BY DEF MemcheckInv
<1>2. PICK s \in Int : SumIs(c, s) /\ Wrap(r - f) = Wrap(s)
  BY DEF MemcheckInv
<1>3. PICK a \in Unlisted :
        /\ blocks' = <<[at |-> a, request_size |-> n]>> \o c
        /\ handed' = handed \cup {[at |-> a, request_size |-> n]}
        /\ total_memory_requested' = Wrap(r + n) /\ total_memory_freed' = f
  BY DEF Listed
<1> DEFINE b == [at |-> a, request_size |-> n]
           t == <<b>> \o c
<1>4. b \in Listings /\ b.at = a /\ b.request_size = n
  BY DEF Unlisted, Listings
<1>5. \A k \in 1 .. Len(c) : c[k].at # a
  BY <1>1 DEF Unlisted, Range
<1> HIDE DEF b
<1>6. /\ t \in Seq(Listings) /\ Len(t) = Len(c) + 1 /\ DOMAIN t = 1 .. Len(t) /\ t[1] = b
      /\ \A k \in 1 .. Len(c) : t[k + 1] = c[k]
  BY <1>1, <1>4
<1> HIDE DEF t
<1>7. \A k \in 1 .. Len(t) : k = 1 \/ (k - 1 \in 1 .. Len(c) /\ t[k] = c[k - 1])
  <2> SUFFICES ASSUME NEW k \in 1 .. Len(t), k # 1 PROVE k - 1 \in 1 .. Len(c) /\ t[k] = c[k - 1]
    OBVIOUS
  <2>1. k - 1 \in 1 .. Len(c) /\ (k - 1) + 1 = k
    BY <1>1, <1>6
  <2> QED
    BY <2>1, <1>6
<1>8. Range(t) = handed \cup {b}
  <2>1. \A k \in 1 .. Len(t) : t[k] \in handed \cup {b}
    <3> SUFFICES ASSUME NEW k \in 1 .. Len(t) PROVE t[k] \in handed \cup {b}
      OBVIOUS
    <3>1. CASE k = 1
      BY <3>1, <1>6
    <3>2. CASE k # 1
      <4>1. k - 1 \in 1 .. Len(c) /\ t[k] = c[k - 1]
        BY <3>2, <1>7
      <4> QED
        BY <4>1, <1>1 DEF Range
    <3> QED
      BY <3>1, <3>2
  <2>2. \A k \in 1 .. Len(c) : c[k] \in Range(t)
    <3> SUFFICES ASSUME NEW k \in 1 .. Len(c) PROVE c[k] \in Range(t)
      OBVIOUS
    <3>1. k + 1 \in 1 .. Len(t)
      BY <1>1, <1>6
    <3> QED
      BY <3>1, <1>6 DEF Range
  <2>3. b \in Range(t)
    <3>1. 1 \in 1 .. Len(t)
      BY <1>1, <1>6
    <3> QED
      BY <3>1, <1>6 DEF Range
  <2> QED
    BY <2>1, <2>2, <2>3, <1>1, <1>6 DEF Range
<1>9. ASSUME NEW i \in 1 .. Len(t), NEW k \in 1 .. Len(t), t[i].at = t[k].at PROVE i = k
  <2>1. CASE i = 1 /\ k = 1
    BY <2>1
  <2>2. CASE i = 1 /\ k # 1
    BY <2>2, <1>4, <1>5, <1>6, <1>7, <1>9
  <2>3. CASE i # 1 /\ k = 1
    BY <2>3, <1>4, <1>5, <1>6, <1>7, <1>9
  <2>4. CASE i # 1 /\ k # 1
    <3>1. i - 1 \in 1 .. Len(c) /\ k - 1 \in 1 .. Len(c) /\ c[i - 1].at = c[k - 1].at
      BY <2>4, <1>7, <1>9
    <3>2. i - 1 = k - 1
      BY <3>1, <1>1
    <3> QED
      BY <3>2
  <2> QED
    BY <2>1, <2>2, <2>3, <2>4
<1>10. SumIs(t, s + n)
  BY <1>1, <1>2, <1>4, SumPrepended DEF t
<1>11. Wrap(Wrap(r + n) - f) = Wrap(s + n) /\ Wrap(r + n) \in Nat
  <2>1. r \in Int /\ f \in Int /\ n \in Int /\ r + n \in Int
    BY <1>1
  <2> HIDE DEF r, f
  <2>2. Wrap(Wrap(r + n) - f) = Wrap(s + n)
    <3>1. Differ(r, f, s) /\ s \in Int /\ n \in Int
      BY <2>1, <1>2 DEF r, f, Differ
    <3>2. Differ(Wrap(r + n), f, s + n) /\ Differ(r, Wrap(f + n), s - n)
      BY <3>1, <2>1, Counted
    <3> QED
      BY <3>2 DEF Differ
  <2>3. Wrap(r + n) \in Nat
    BY <2>1, WrapParts
  <2> QED
    BY <2>2, <2>3
<1>12. blocks' = t /\ handed' = handed \cup {b} /\ s + n \in Int
  BY <1>3 DEF t, b
<1> QED
  BY <1>1, <1>3, <1>6, <1>8, <1>9, <1>10, <1>11, <1>12 DEF MemcheckInv

\* A block that is in the list has a place there.
LEMMA PlaceOf ==
  ASSUME MemcheckInv, NEW a \in Addrs, a \notin Unlisted
  PROVE  Place(a) \in 1 .. Len(blocks) /\ blocks[Place(a)].at = a
<1>1. DOMAIN blocks = 1 .. Len(blocks)
  BY DEF MemcheckInv
<1>2. \E k \in DOMAIN blocks : blocks[k].at = a
  BY DEF Unlisted, Range
<1> QED
  BY <1>1, <1>2 DEF Place

LEMMA InvalidStep ==
  ASSUME MemcheckInv, Invalid
  PROVE  MemcheckInv'
BY DEF MemcheckInv, Invalid

LEMMA FreedStep ==
  ASSUME MemcheckInv, NEW a \in Addrs, mini_free(a)
  PROVE  MemcheckInv'
<1>1. CASE a \in Unlisted /\ Invalid
  BY <1>1, InvalidStep
<1>2. CASE a \notin Unlisted
  <2> DEFINE c == blocks
             r == total_memory_requested
             f == total_memory_freed
             p == Place(a)
             t == RemoveAt(c, p)
             z == c[p].request_size
  <2>1. /\ c \in Seq(Listings) /\ Range(c) = handed
        /\ \A i, k \in 1 .. Len(c) : c[i].at = c[k].at => i = k
        /\ r \in Nat /\ f \in Nat /\ DOMAIN c = 1 .. Len(c) /\ Len(c) \in Nat
    BY DEF MemcheckInv
  <2>2. PICK s \in Int : SumIs(c, s) /\ Wrap(r - f) = Wrap(s)
    BY DEF MemcheckInv
  <2>3. /\ blocks' = t /\ handed' = {h \in handed : h.at # a}
        /\ total_memory_requested' = r /\ total_memory_freed' = Wrap(f + z)
    BY <1>2 DEF mini_free, Invalid
  <2>4. p \in 1 .. Len(c) /\ c[p].at = a
    BY <1>2, PlaceOf
  <2>5. z \in Nat
    <3>1. c[p] \in Listings
      BY <2>1, <2>4
    <3> QED
      BY <3>1 DEF Listings
  <2> HIDE DEF p
  <2>6. /\ t \in Seq(Listings) /\ Len(t) = Len(c) - 1 /\ DOMAIN t = 1 .. Len(t)
        /\ \A k \in 1 .. Len(c) - 1 : t[k] = IF k < p THEN c[k] ELSE c[k + 1]
    <3>1. p \in 1 .. Len(c)
      BY <2>4
    <3> HIDE DEF c
    <3>2. /\ t \in Seq(Listings) /\ Len(t) = Len(c) - 1
          /\ \A k \in 1 .. Len(c) - 1 : t[k] = IF k < p THEN c[k] ELSE c[k + 1]
      BY <3>1, <2>1, RemovedParts
    <3>3. DOMAIN t = 1 .. Len(t)
      BY <3>2
    <3> QED
      BY <3>2, <3>3
  <2> DEFINE x(k) == IF k < p THEN k ELSE k + 1
  <2>7. \A k \in 1 .. Len(t) : t[k] = c[x(k)] /\ x(k) \in 1 .. Len(c) /\ x(k) # p
    BY <2>1, <2>4, <2>6
  <2>8. \A k \in 1 .. Len(c) : k # p => \E i \in 1 .. Len(t) : x(i) = k
    <3> SUFFICES ASSUME NEW k \in 1 .. Len(c), k # p PROVE \E i \in 1 .. Len(t) : x(i) = k
      OBVIOUS
    <3>1. CASE k < p
      <4>1. k \in 1 .. Len(t)
        BY <3>1, <2>1, <2>4, <2>6
      <4> QED
        BY <4>1, <3>1
    <3>2. CASE k > p
      <4>1. k - 1 \in 1 .. Len(t) /\ ~(k - 1 < p) /\ (k - 1) + 1 = k
        BY <3>2, <2>1, <2>4, <2>6
      <4> QED
        BY <4>1
    <3> QED
      BY <3>1, <3>2, <2>4
  <2>9. \A i, k \in 1 .. Len(t) : x(i) = x(k) => i = k
    BY <2>1, <2>4, <2>6
  <2> HIDE DEF x, t, z
  <2>10. \A k \in 1 .. Len(c) : c[k].at # a <=> k # p
    BY <2>1, <2>4
  <2>11. Range(t) = {h \in handed : h.at # a}
    <3>1. \A k \in 1 .. Len(t) : t[k] \in handed /\ t[k].at # a
      BY <2>1, <2>7, <2>10 DEF Range
    <3>2. \A k \in 1 .. Len(c) : c[k].at # a => c[k] \in Range(t)
      <4> SUFFICES ASSUME NEW k \in 1 .. Len(c), c[k].at # a PROVE c[k] \in Range(t)
        OBVIOUS
      <4>1. PICK i \in 1 .. Len(t) : x(i) = k
        BY <2>8, <2>10
      <4> QED
        BY <4>1, <2>6, <2>7 DEF Range
    <3> QED
      BY <3>1, <3>2, <2>1, <2>6 DEF Range
  <2>12. \A i, k \in 1 .. Len(t) : t[i].at = t[k].at => i = k
    BY <2>1, <2>7, <2>9
  <2>13. SumIs(t, s - z)
    BY <2>1, <2>2, <2>4, SumRemoved DEF t, z
  <2>14. Wrap(r - Wrap(f + z)) = Wrap(s - z) /\ Wrap(f + z) \in Nat /\ s - z \in Int
    <3>1. r \in Int /\ f \in Int /\ z \in Int /\ f + z \in Int /\ s - z \in Int
      BY <2>1, <2>5
    <3> HIDE DEF r, f
    <3>2. Wrap(r - Wrap(f + z)) = Wrap(s - z)
      <4>1. Differ(r, f, s) /\ s \in Int /\ z \in Int
        BY <3>1, <2>2 DEF r, f, Differ
      <4>2. Differ(Wrap(r + z), f, s + z) /\ Differ(r, Wrap(f + z), s - z)
        BY <4>1, <3>1, Counted
      <4> QED
        BY <4>2 DEF Differ
    <3>3. Wrap(f + z) \in Nat
      BY <3>1, WrapParts
    <3> QED
      BY <3>1, <3>2, <3>3
  <2> QED
    BY <2>1, <2>3, <2>6, <2>11, <2>12, <2>13, <2>14 DEF MemcheckInv
<1> QED
  BY <1>1, <1>2 DEF mini_free

LEMMA ResizedStep ==
  ASSUME MemcheckInv, NEW a \in Addrs, a \notin Unlisted, NEW b \in Unlisted \cup {a}, NEW n \in Nat,
         Resized(a, b, n)
  PROVE  MemcheckInv'
<1> DEFINE c == blocks
           r == total_memory_requested
           f == total_memory_freed
           p == Place(a)
           e == [at |-> b, request_size |-> n]
           t == [c EXCEPT ![p] = e]
           z == c[p].request_size
<1>1. /\ c \in Seq(Listings) /\ Range(c) = handed
      /\ \A i, k \in 1 .. Len(c) : c[i].at = c[k].at => i = k
      /\ r \in Nat /\ f \in Nat /\ DOMAIN c = 1 .. Len(c) /\ Len(c) \in Nat
  BY DEF MemcheckInv
<1>2. PICK s \in Int : SumIs(c, s) /\ Wrap(r - f) = Wrap(s)
  BY DEF MemcheckInv
<1>3. /\ blocks' = t /\ handed' = {h \in handed : h.at # a} \cup {e}
      /\ total_memory_requested' = IF z < n THEN Wrap(r + n - z) ELSE r
      /\ total_memory_freed' = IF z > n THEN Wrap(f + z - n) ELSE f
  BY DEF Resized, Recount
<1>4. p \in 1 .. Len(c) /\ c[p].at = a
  BY PlaceOf
<1>5. z \in Nat
  <2>1. c[p] \in Listings
    BY <1>1, <1>4
  <2> QED
    BY <2>1 DEF Listings
<1>6. e \in Listings /\ e.at = b /\ e.request_size = n
  BY DEF Listings, Unlisted
<1> HIDE DEF p, e
<1>7. /\ t \in Seq(Listings) /\ Len(t) = Len(c) /\ DOMAIN t = 1 .. Len(c) /\ t[p] = e
      /\ \A k \in 1 .. Len(c) : k # p => t[k] = c[k]
  BY <1>1, <1>4, <1>6
<1> HIDE DEF t, z
<1>8. \A k \in 1 .. Len(c) : k # p => c[k].at # a /\ c[k].at # b
  <2>1. \A k \in 1 .. Len(c) : k # p => c[k].at # a
    BY <1>1, <1>4
  <2>2. b \in Unlisted => \A k \in 1 .. Len(c) : c[k].at # b
    BY <1>1 DEF Unlisted, Range
  <2> QED
    BY <2>1, <2>2
<1>9. Range(t) = {h \in handed : h.at # a} \cup {e}
  <2>1. \A k \in 1 .. Len(c) : t[k] \in {h \in handed : h.at # a} \cup {e}
    BY <1>1, <1>7, <1>8 DEF Range
  <2>2. \A k \in 1 .. Len(c) : c[k].at # a => c[k] \in Range(t)
    BY <1>4, <1>7 DEF Range
  <2>3. e \in Range(t)
    BY <1>4, <1>7 DEF Range
  <2> QED
    BY <2>1, <2>2, <2>3, <1>1, <1>7 DEF Range
<1>10. \A i, k \in 1 .. Len(c) : t[i].at = t[k].at => i = k
  BY <1>1, <1>6, <1>7, <1>8
<1>11. SumIs(t, s + (n - z)) /\ s + (n - z) \in Int
  <2>1. SumIs(t, s + (e.request_size - z))
    BY <1>1, <1>2, <1>4, <1>6, SumChanged DEF t, z
  <2>2. e.request_size - z = n - z
    BY <1>6
  <2>3. SumIs(t, s + (n - z))
    BY <2>1, <2>2
  <2>4. s + (n - z) \in Int
    BY <1>5
  <2> QED
    BY <2>3, <2>4
<1>12. CASE z < n
  <2> DEFINE x == n - z
  <2>1. x \in Int /\ r + n - z = r + x
    BY <1>1, <1>5
  <2> HIDE DEF x
  <2>2. Wrap(Wrap(r + x) - f) = Wrap(s + x) /\ Wrap(r + x) \in Nat
    <3>1. r \in Int /\ f \in Int /\ r + x \in Int
      BY <2>1, <1>1
    <3> HIDE DEF r, f
    <3>2. Wrap(Wrap(r + x) - f) = Wrap(s + x)
      <4>1. Differ(r, f, s) /\ s \in Int /\ x \in Int
        BY <3>1, <2>1, <1>2 DEF r, f, Differ
      <4>2. Differ(Wrap(r + x), f, s + x) /\ Differ(r, Wrap(f + x), s - x)
        BY <4>1, <3>1, Counted
      <4> QED
        BY <4>2 DEF Differ
    <3>3. Wrap(r + x) \in Nat
      BY <3>1, WrapParts
    <3> QED
      BY <3>2, <3>3
  <2>3. total_memory_requested' = Wrap(r + x) /\ total_memory_freed' = f
    BY <2>1, <1>3, <1>5, <1>12
  <2>4. SumIs(t, s + x) /\ s + x \in Int
    BY <1>11 DEF x
  <2> QED
    BY <2>2, <2>3, <2>4, <1>1, <1>3, <1>7, <1>9, <1>10 DEF MemcheckInv
<1>13. CASE z > n
  <2> DEFINE x == z - n
  <2>1. x \in Int /\ f + z - n = f + x /\ s - x = s + (n - z)
    BY <1>1, <1>5
  <2>2. SumIs(t, s - x) /\ s - x \in Int
    BY <2>1, <1>11
  <2> HIDE DEF x
  <2>3. Wrap(r - Wrap(f + x)) = Wrap(s - x) /\ Wrap(f + x) \in Nat
    <3>1. r \in Int /\ f \in Int /\ f + x \in Int
      BY <2>1, <1>1
    <3> HIDE DEF r, f
    <3>2. Wrap(r - Wrap(f + x)) = Wrap(s - x)
      <4>1. Differ(r, f, s) /\ s \in Int /\ x \in Int
        BY <3>1, <2>1, <1>2 DEF r, f, Differ
      <4>2. Differ(Wrap(r + x), f, s + x) /\ Differ(r, Wrap(f + x), s - x)
        BY <4>1, <3>1, Counted
      <4> QED
        BY <4>2 DEF Differ
    <3>3. Wrap(f + x) \in Nat
      BY <3>1, WrapParts
    <3> QED
      BY <3>2, <3>3
  <2>4. total_memory_freed' = Wrap(f + x) /\ total_memory_requested' = r
    BY <2>1, <1>3, <1>5, <1>13
  <2> QED
    BY <2>2, <2>3, <2>4, <1>1, <1>3, <1>7, <1>9, <1>10 DEF MemcheckInv
<1>14. CASE z = n
  <2>1. s + (n - z) = s
    BY <1>5, <1>14
  <2>2. SumIs(t, s) /\ total_memory_requested' = r /\ total_memory_freed' = f
    BY <2>1, <1>3, <1>11, <1>14
  <2> QED
    BY <2>2, <1>1, <1>2, <1>3, <1>7, <1>9, <1>10 DEF MemcheckInv
<1> QED
  BY <1>5, <1>12, <1>13, <1>14

LEMMA MemcheckInitInv == ASSUME MemcheckInit PROVE MemcheckInv
<1>1. blocks = <<>> /\ handed = {} /\ total_memory_requested = 0 /\ total_memory_freed = 0
  BY DEF MemcheckInit
<1>2. blocks \in Seq(Listings) /\ Len(blocks) = 0 /\ Range(blocks) = handed
  BY <1>1 DEF Range
<1>3. SumIs(blocks, 0)
  <2> DEFINE g == [k \in 0 .. 0 |-> 0]
  <2>1. g \in [0 .. 0 -> Int] /\ g[0] = 0
    OBVIOUS
  <2> HIDE DEF g
  <2>2. SumsOf(blocks, g)
    BY <2>1, <1>2 DEF SumsOf
  <2> QED
    BY <2>1, <2>2, <1>2 DEF SumIs
<1>4. Wrap(total_memory_requested - total_memory_freed) = Wrap(0)
  <2>1. total_memory_requested - total_memory_freed = 0
    BY <1>1
  <2> QED
    BY <2>1
<1> QED
  BY <1>1, <1>2, <1>3, <1>4 DEF MemcheckInv

LEMMA MemcheckStepInv == ASSUME MemcheckInv, [MemcheckNext]_memcheck_vars PROVE MemcheckInv'
<1>1. ASSUME UNCHANGED memcheck_vars PROVE MemcheckInv'
  BY <1>1 DEF memcheck_vars, MemcheckInv
<1>2. ASSUME NEW n \in CheckedSizes, mini_malloc(n) PROVE MemcheckInv'
  <2>1. n \in Nat
    BY MemcheckAssumption
  <2> QED
    BY <2>1, <1>1, <1>2, ListedStep DEF mini_malloc
<1>3. ASSUME NEW n \in CheckedSizes, NEW num \in CheckedSizes, mini_calloc(num, n) PROVE MemcheckInv'
  <2>1. num * n \in Int
    BY MemcheckAssumption
  <2>2. Wrap(num * n) \in Nat
    BY <2>1, WrapParts
  <2> QED
    BY <2>2, <1>1, <1>3, ListedStep DEF mini_calloc
<1>4. ASSUME NEW a \in Addrs, mini_free(a) PROVE MemcheckInv'
  BY <1>4, FreedStep
<1>5. ASSUME NEW n \in CheckedSizes, NEW a \in Addrs, mini_realloc(a, n) PROVE MemcheckInv'
  <2>1. n \in Nat
    BY MemcheckAssumption
  <2>2. \/ mini_free(a) \/ Invalid \/ UNCHANGED memcheck_vars
        \/ a \notin Unlisted /\ \E b \in Unlisted \cup {a} : Resized(a, b, n)
    BY <1>5 DEF mini_realloc
  <2> QED
    BY <2>1, <2>2, <1>1, <1>4, InvalidStep, ResizedStep
<1> QED
  BY <1>1, <1>2, <1>3, <1>4, <1>5 DEF MemcheckNext

LEMMA MemcheckInvAccounted == ASSUME MemcheckInv PROVE Accounted
<1>1. /\ blocks \in Seq(Listings) /\ Range(blocks) = handed /\ DOMAIN blocks = 1 .. Len(blocks)
      /\ \A i, k \in 1 .. Len(blocks) : blocks[i].at = blocks[k].at => i = k
  BY DEF MemcheckInv
<1>2. IsInjective(blocks)
  BY <1>1 DEF IsInjective
<1>3. \A g, h \in handed : g.at = h.at => g = h
  BY <1>1 DEF Range
<1>4. PICK s \in Int : SumIs(blocks, s) /\ Wrap(total_memory_requested - total_memory_freed) = Wrap(s)
  BY DEF MemcheckInv
<1>5. FoldLeft(LAMBDA sum, b : sum + b.request_size, 0, blocks) = s
  BY <1>1, <1>4, ListSum
<1> QED
  BY <1>1, <1>2, <1>3, <1>4, <1>5 DEF Accounted

\* mini_memcheck.c:84-91, 105-113: through any calls, with products that wrap,
\* failed reallocs and reallocs that move a block, the list holds what callers
\* hold, once, and the counters differ by the bytes of the list; for any width of
\* size_t and any sizes.
THEOREM AccountsCorrect == MemcheckSpec => []Accounted
<1>1. MemcheckInit => MemcheckInv
  BY MemcheckInitInv
<1>2. MemcheckInv /\ [MemcheckNext]_memcheck_vars => MemcheckInv'
  BY MemcheckStepInv
<1>3. MemcheckInv => Accounted
  BY MemcheckInvAccounted
<1> QED
  BY <1>1, <1>2, <1>3, PTL DEF MemcheckSpec

-----------------------------------------------------------------------------
(* vector/vector.c *)

\* What get_new_capacity computes from a capacity on.
GrowsTo(f, target) == f = [c \in Nat |-> IF c < target THEN f[c * GROWTH_FACTOR] ELSE c]

LEMMA Larger == ASSUME NEW c \in Nat, c >= 1 PROVE c * GROWTH_FACTOR \in Nat /\ c * GROWTH_FACTOR > c
<1> DEFINE G == GROWTH_FACTOR
<1>1. G \in Nat /\ G >= 2
  BY VectorAssumption
<1> HIDE DEF G
<1>2. PICK r \in Nat : G = 2 + r
  <2>1. G - 2 \in Nat /\ G = 2 + (G - 2)
    BY <1>1
  <2> QED
    BY <2>1
<1>3. c * (2 + r) = 2 * c + c * r /\ c * r \in Nat
  OBVIOUS
<1>4. c * G = 2 * c + c * r
  BY <1>2, <1>3
<1>5. \A z \in Nat : 2 * c + z \in Nat /\ 2 * c + z > c
  OBVIOUS
<1> QED
  BY <1>3, <1>4, <1>5 DEF G

LEMMA GrowExists == ASSUME NEW target \in Nat PROVE \E f : GrowsTo(f, target)
<1> DEFINE Part(k, f) == \A c \in Nat : (c >= 1 /\ c + k >= target) =>
                           f[c] = IF c < target THEN f[c * GROWTH_FACTOR] ELSE c
           T == {k \in 0 .. target : ~ \E f \in [Nat -> Nat] : Part(k, f)}
<1>1. T = {}
  <2> SUFFICES ASSUME T # {} PROVE FALSE
    OBVIOUS
  <2>1. T \subseteq Nat
    OBVIOUS
  <2>2. PICK k \in T : \A y \in T : k <= y
    <3> HIDE DEF T
    <3> QED
      BY <2>1, Least
  <2>3. k # 0
    <3>1. Part(0, [c \in Nat |-> c])
      OBVIOUS
    <3> QED
      BY <3>1
  <2>4. k - 1 \in 0 .. target /\ k - 1 \notin T
    BY <2>2, <2>3
  <2>5. PICK f \in [Nat -> Nat] : Part(k - 1, f)
    BY <2>4
  <2> DEFINE d == target - k
  <2>6. d \in Nat /\ d < target
    BY <2>2, <2>3
  <2>7. CASE d = 0
    <3>1. \A c \in Nat : c >= 1 /\ c + k >= target => c + (k - 1) >= target
      BY <2>7, <2>2
    <3>2. Part(k, f)
      BY <2>5, <3>1
    <3> QED
      BY <3>2, <2>2
  <2>8. CASE d # 0
    <3> DEFINE h == [f EXCEPT ![d] = f[d * GROWTH_FACTOR]]
    <3>1. d * GROWTH_FACTOR \in Nat /\ d * GROWTH_FACTOR # d
      BY <2>6, <2>8, Larger
    <3>2. h \in [Nat -> Nat] /\ h[d] = h[d * GROWTH_FACTOR]
      BY <2>6, <3>1
    <3> SUFFICES ASSUME NEW c \in Nat, c >= 1, c + k >= target
                 PROVE  h[c] = IF c < target THEN h[c * GROWTH_FACTOR] ELSE c
      BY <2>2, <3>2
    <3>3. CASE c = d
      BY <3>2, <3>3, <2>6
    <3>4. CASE c # d
      <4>1. c + (k - 1) >= target /\ c > d
        BY <3>4, <2>2
      <4>2. f[c] = IF c < target THEN f[c * GROWTH_FACTOR] ELSE c
        BY <2>5, <4>1
      <4>3. c * GROWTH_FACTOR \in Nat /\ c * GROWTH_FACTOR # d
        <5>1. c * GROWTH_FACTOR \in Nat /\ c * GROWTH_FACTOR > c
          BY Larger
        <5> DEFINE e == c * GROWTH_FACTOR
        <5> HIDE DEF e
        <5>2. e \in Nat /\ e > c => e # d
          BY <4>1, <2>6
        <5> QED
          BY <5>1, <5>2 DEF e
      <4> QED
        BY <4>2, <4>3, <3>4
    <3> QED
      BY <3>3, <3>4
  <2> QED
    BY <2>7, <2>8
<1>2. PICK f \in [Nat -> Nat] : Part(target, f)
  <2>1. target \in 0 .. target
    OBVIOUS
  <2> QED
    BY <2>1, <1>1
<1>3. \A c \in Nat : c >= 1 => f[c] = IF c < target THEN f[c * GROWTH_FACTOR] ELSE c
  BY <1>2
<1> DEFINE h == [f EXCEPT ![0] = IF 0 < target THEN f[0] ELSE 0]
<1>4. \A c \in Nat : h[c] = IF c < target THEN h[c * GROWTH_FACTOR] ELSE c
  <2> TAKE c \in Nat
  <2>1. CASE c = 0
    <3>1. 0 * GROWTH_FACTOR = 0
      BY VectorAssumption
    <3>2. c * GROWTH_FACTOR = c
      BY <2>1, <3>1
    <3> QED
      BY <2>1, <3>2
  <2>2. CASE c # 0
    <3>1. c * GROWTH_FACTOR \in Nat /\ c * GROWTH_FACTOR # 0
      <4>1. c >= 1
        BY <2>2
      <4>2. c * GROWTH_FACTOR \in Nat /\ c * GROWTH_FACTOR > c
        BY <4>1, Larger
      <4> DEFINE e == c * GROWTH_FACTOR
      <4> HIDE DEF e
      <4>3. e \in Nat /\ e > c => e # 0
        OBVIOUS
      <4> QED
        BY <4>2, <4>3 DEF e
    <3> QED
      BY <2>2, <3>1, <1>3
  <2> QED
    BY <2>1, <2>2
<1>5. h = [c \in Nat |-> h[c]]
  OBVIOUS
<1> HIDE DEF h
<1>6. h = [c \in Nat |-> IF c < target THEN h[c * GROWTH_FACTOR] ELSE c]
  BY <1>4, <1>5
<1> QED
  BY <1>6 DEF GrowsTo

\* The capacity suffices.
LEMMA NewCapacity ==
  ASSUME NEW target \in Nat
  PROVE  get_new_capacity(target) \in Nat /\ get_new_capacity(target) >= target
<1> DEFINE f == CHOOSE f : GrowsTo(f, target)
<1>1. get_new_capacity(target) = f[1]
  BY DEF get_new_capacity, GrowsTo
<1>2. GrowsTo(f, target)
  <2>1. \E g : GrowsTo(g, target)
    BY GrowExists
  <2> QED
    BY <2>1
<1> HIDE DEF f
<1>3. \A c \in Nat : f[c] = IF c < target THEN f[c * GROWTH_FACTOR] ELSE c
  BY <1>2 DEF GrowsTo
<1> DEFINE T == {k \in 0 .. target : \E c \in Nat : c >= 1 /\ c + k >= target /\ ~(f[c] \in Nat /\ f[c] >= target)}
<1>4. T = {}
  <2> SUFFICES ASSUME T # {} PROVE FALSE
    OBVIOUS
  <2>1. T \subseteq Nat
    OBVIOUS
  <2>2. PICK k \in T : \A y \in T : k <= y
    <3> HIDE DEF T
    <3> QED
      BY <2>1, Least
  <2>3. PICK c \in Nat : c >= 1 /\ c + k >= target /\ ~(f[c] \in Nat /\ f[c] >= target)
    BY <2>2
  <2>4. c < target
    BY <2>3, <1>3
  <2>5. k # 0 /\ k - 1 \in 0 .. target /\ k - 1 \notin T
    <3>1. k \in 0 .. target
      BY <2>2
    <3> HIDE DEF T
    <3>2. k # 0 /\ k - 1 \in 0 .. target /\ ~(k <= k - 1)
      BY <3>1, <2>3, <2>4
    <3> QED
      BY <3>2, <2>2
  <2> DEFINE e == c * GROWTH_FACTOR
  <2>6. e \in Nat /\ e > c /\ f[c] = f[e]
    BY <2>3, <2>4, <1>3, Larger
  <2> HIDE DEF e
  <2>7. e >= 1 /\ e + (k - 1) >= target
    BY <2>3, <2>6, <2>2
  <2>8. f[e] \in Nat /\ f[e] >= target
    BY <2>5, <2>6, <2>7
  <2> QED
    BY <2>3, <2>6, <2>8
<1>5. 1 \in Nat /\ 1 + target >= target /\ target \in 0 .. target /\ 1 >= 1
  OBVIOUS
<1>6. target \notin T
  BY <1>4
<1> HIDE DEF T
<1> QED
  BY <1>1, <1>5, <1>6 DEF T

-----------------------------------------------------------------------------

\* One turn of the loops of vector.c.
Turn(kind, m, i) ==
  CASE kind = "free" -> Free(m, i)      [] kind = "make" -> New(m, i, Default)
    [] kind = "up"   -> ShiftUp(m, i)   [] kind = "down" -> Copy(m, i + 1, i)

TurnFold(kind, m, c, n, f) ==
  f = [s \in SUBSET (1 .. n) |-> IF s = {} THEN m ELSE Turn(kind, f[s \ {Max(s)}], c[Max(s)])]

TurnedAll(kind, m, c, n) == (CHOOSE f : TurnFold(kind, m, c, n, f))[1 .. n]

\* What is at work after each of n turns.
Turns(kind, m, c, n, g) == g[0] = m /\ \A k \in 1 .. n : g[k] = Turn(kind, g[k - 1], c[k])

LEMMA TurnFoldExists ==
  ASSUME NEW kind, NEW m, NEW c, NEW N \in Nat
  PROVE  \A n \in 0 .. N : \E f : TurnFold(kind, m, c, n, f)
<1> DEFINE T == {n \in 0 .. N : ~ \E f : TurnFold(kind, m, c, n, f)}
<1> SUFFICES ASSUME T # {} PROVE FALSE
  OBVIOUS
<1>1. T \subseteq Nat
  OBVIOUS
<1>2. PICK n \in T : \A k \in T : n <= k
  <2> HIDE DEF T
  <2> QED
    BY <1>1, Least
<1>3. n # 0
  <2>1. SUBSET (1 .. 0) = {{}}
    OBVIOUS
  <2>2. TurnFold(kind, m, c, 0, [s \in {{}} |-> m])
    BY <2>1 DEF TurnFold
  <2> QED
    BY <2>2
<1>4. n \in 1 .. N /\ n - 1 \in 0 .. N /\ n - 1 < n /\ n \in Nat
  BY <1>3
<1>5. PICK f : TurnFold(kind, m, c, n - 1, f)
  BY <1>2, <1>4
<1> DEFINE S == SUBSET (1 .. n)
           R == SUBSET (1 .. n - 1)
           h == [s \in S |-> IF n \in s THEN Turn(kind, f[s \ {n}], c[n]) ELSE f[s]]
<1>6. \A s \in S : n \in s => s \ {n} \in R /\ s \ {n} \in S /\ n \notin s \ {n}
  BY <1>4
<1>7. \A s \in S : n \notin s => s \in R
  BY <1>4
<1>8. R \subseteq S /\ \A s \in R : n \notin s
  BY <1>4
<1>9. \A s \in R : f[s] = IF s = {} THEN m ELSE Turn(kind, f[s \ {Max(s)}], c[Max(s)])
  BY <1>5 DEF TurnFold
<1>10. \A s \in S : h[s] = IF s = {} THEN m ELSE Turn(kind, h[s \ {Max(s)}], c[Max(s)])
  <2> SUFFICES ASSUME NEW s \in S
               PROVE  h[s] = IF s = {} THEN m ELSE Turn(kind, h[s \ {Max(s)}], c[Max(s)])
    OBVIOUS
  <2>1. CASE n \in s
    <3>1. Max(s) = n
      BY <2>1, <1>4, MaxIs
    <3>2. h[s] = Turn(kind, f[s \ {n}], c[n]) /\ h[s \ {n}] = f[s \ {n}]
      BY <2>1, <1>6
    <3> QED
      BY <2>1, <3>1, <3>2
  <2>2. CASE n \notin s
    <3>1. h[s] = f[s] /\ s \in R
      BY <2>2, <1>7
    <3>2. s \ {Max(s)} \in R
      BY <3>1
    <3>3. h[s \ {Max(s)}] = f[s \ {Max(s)}]
      BY <3>2, <1>8
    <3> QED
      BY <3>1, <3>3, <1>9
  <2> QED
    BY <2>1, <2>2
<1>11. TurnFold(kind, m, c, n, h)
  <2>1. h = [s \in S |-> h[s]]
    OBVIOUS
  <2> HIDE DEF h, S
  <2>2. h = [s \in S |-> IF s = {} THEN m ELSE Turn(kind, h[s \ {Max(s)}], c[Max(s)])]
    BY <2>1, <1>10
  <2> QED
    BY <2>2 DEF TurnFold, S
<1> QED
  BY <1>11

\* A fold of turns is what is left after the last of them.
LEMMA FoldTurns ==
  ASSUME NEW kind, NEW m, NEW c, NEW N \in Nat
  PROVE  \E g : Turns(kind, m, c, N, g) /\ TurnedAll(kind, m, c, N) = g[N]
<1> DEFINE f == CHOOSE f : TurnFold(kind, m, c, N, f)
           g == [k \in 0 .. N |-> f[1 .. k]]
<1>1. TurnFold(kind, m, c, N, f)
  <2>1. N \in 0 .. N
    OBVIOUS
  <2>2. \E h : TurnFold(kind, m, c, N, h)
    BY <2>1, TurnFoldExists
  <2> QED
    BY <2>2
<1> HIDE DEF f
<1>2. \A s \in SUBSET (1 .. N) : f[s] = IF s = {} THEN m ELSE Turn(kind, f[s \ {Max(s)}], c[Max(s)])
  BY <1>1 DEF TurnFold
<1>3. g[0] = m
  <2>1. 1 .. 0 = {} /\ {} \in SUBSET (1 .. N) /\ 0 \in 0 .. N
    OBVIOUS
  <2> QED
    BY <2>1, <1>2
<1>4. ASSUME NEW k \in 1 .. N PROVE g[k] = Turn(kind, g[k - 1], c[k])
  <2>1. k \in 0 .. N /\ k - 1 \in 0 .. N /\ k \in Nat
    OBVIOUS
  <2>2. /\ 1 .. k \in SUBSET (1 .. N) /\ k \in 1 .. k /\ (1 .. k) \ {k} = 1 .. k - 1
        /\ 1 .. k # {} /\ 1 .. k \in SUBSET (1 .. k)
    BY <2>1
  <2>3. Max(1 .. k) = k
    BY <2>1, <2>2, MaxIs
  <2>4. f[1 .. k] = Turn(kind, f[1 .. k - 1], c[k])
    BY <2>2, <2>3, <1>2
  <2> QED
    BY <2>1, <2>4
<1>5. g[N] = f[1 .. N]
  OBVIOUS
<1> HIDE DEF g
<1>6. Turns(kind, m, c, N, g)
  BY <1>3, <1>4 DEF Turns
<1> QED
  BY <1>5, <1>6 DEF f, TurnedAll

\* The loops of vector.c.
LEMMA Loops ==
  ASSUME NEW m, NEW c, NEW N \in Nat, DOMAIN c = 1 .. N
  PROVE  /\ FoldLeft(Free, m, c) = TurnedAll("free", m, c, N)
         /\ FoldLeft(LAMBDA a, i : New(a, i, Default), m, c)
              = TurnedAll("make", m, c, N)
         /\ FoldLeft(ShiftUp, m, c) = TurnedAll("up", m, c, N)
         /\ FoldLeft(LAMBDA a, i : Copy(a, i + 1, i), m, c)
              = TurnedAll("down", m, c, N)
<1>1. FoldLeft(Free, m, c) = TurnedAll("free", m, c, N)
  <2>1. FoldLeft(Free, m, c)
          = (CHOOSE f : f = [s \in SUBSET (DOMAIN c) |->
               IF s = {} THEN m ELSE Free(f[s \ {Max(s)}], c[Max(s)])])[DOMAIN c]
    BY DEF FoldLeft, MapThenFoldSet
  <2> QED
    BY <2>1, ZenonT(30) DEF TurnedAll, TurnFold, Turn
<1>2. FoldLeft(LAMBDA a, i : New(a, i, Default), m, c)
        = TurnedAll("make", m, c, N)
  <2>1. FoldLeft(LAMBDA a, i : New(a, i, Default), m, c)
          = (CHOOSE f : f = [s \in SUBSET (DOMAIN c) |->
               IF s = {} THEN m ELSE New(f[s \ {Max(s)}], c[Max(s)], Default)])[DOMAIN c]
    BY DEF FoldLeft, MapThenFoldSet
  <2> QED
    BY <2>1, ZenonT(30) DEF TurnedAll, TurnFold, Turn
<1>3. FoldLeft(ShiftUp, m, c) = TurnedAll("up", m, c, N)
  <2>1. FoldLeft(ShiftUp, m, c)
          = (CHOOSE f : f = [s \in SUBSET (DOMAIN c) |->
               IF s = {} THEN m ELSE ShiftUp(f[s \ {Max(s)}], c[Max(s)])])[DOMAIN c]
    BY DEF FoldLeft, MapThenFoldSet
  <2> QED
    BY <2>1, ZenonT(30) DEF TurnedAll, TurnFold, Turn
<1>4. FoldLeft(LAMBDA a, i : Copy(a, i + 1, i), m, c)
        = TurnedAll("down", m, c, N)
  <2>1. FoldLeft(LAMBDA a, i : Copy(a, i + 1, i), m, c)
          = (CHOOSE f : f = [s \in SUBSET (DOMAIN c) |->
               IF s = {} THEN m ELSE Copy(f[s \ {Max(s)}], c[Max(s)] + 1, c[Max(s)])])[DOMAIN c]
    BY DEF FoldLeft, MapThenFoldSet
  <2> QED
    BY <2>1, ZenonT(30) DEF TurnedAll, TurnFold, Turn
<1> QED
  BY <1>1, <1>2, <1>3, <1>4

-----------------------------------------------------------------------------

Things == Elems \union {Default}
Allocated(h) == {o \in Objects : h[o] # Freed}
Works(n) == [array : [0 .. n - 1 -> Objects \union {0}],
             heap : [Objects \union {0} -> Things \union {Freed}], ok : {TRUE}]

\* In the n slots that are at work, those in D have objects of their own, with
\* the values w; at most b objects are allocated.
Holds(m, n, D, w, b) ==
  /\ m \in Works(n) /\ n \in Nat /\ b \in Nat
  /\ \A i \in 0 .. n - 1 : i >= MaxSize => m.array[i] = 0
  /\ m.heap[0] = Freed /\ Cardinality(Allocated(m.heap)) <= b
  /\ D \subseteq 0 .. n - 1
  /\ \A i \in D : m.heap[m.array[i]] = w[i] /\ w[i] \in Things
  /\ \A i, j \in D : m.array[i] = m.array[j] => i = j

LEMMA ObjectsFinite ==
  /\ 3 * (MaxSize + MaxReserve) \in Nat /\ 3 * (MaxSize + MaxReserve) >= 3 * MaxSize
  /\ Cardinality(Objects) = 3 * (MaxSize + MaxReserve) /\ IsFiniteSet(Objects)
  /\ \A h : IsFiniteSet(Allocated(h)) /\ Cardinality(Allocated(h)) \in Nat
  /\ 0 \notin Objects /\ Objects \subseteq Nat /\ Freed \notin Things
<1>1. 3 * (MaxSize + MaxReserve) \in Nat /\ 3 * (MaxSize + MaxReserve) >= 3 * MaxSize
  BY VectorAssumption
<1>2. Cardinality(Objects) = 3 * (MaxSize + MaxReserve) /\ IsFiniteSet(Objects)
  BY <1>1, FS_Interval DEF Objects
<1>3. \A h : IsFiniteSet(Allocated(h)) /\ Cardinality(Allocated(h)) \in Nat
  <2> TAKE h
  <2>1. IsFiniteSet(Allocated(h))
    BY <1>2, FS_Subset DEF Allocated
  <2> QED
    BY <2>1, FS_CardinalityType
<1>4. 0 \notin Objects /\ Objects \subseteq Nat
  BY DEF Objects
<1> QED
  BY <1>1, <1>2, <1>3, <1>4, VectorAssumption DEF Things

LEMMA FieldChanges ==
  ASSUME NEW A, NEW H, NEW O, NEW m \in [array : A, heap : H, ok : O], NEW x
  PROVE  /\ [m EXCEPT !.array = x] = [array |-> x, heap |-> m.heap, ok |-> m.ok]
         /\ [m EXCEPT !.heap = x] = [array |-> m.array, heap |-> x, ok |-> m.ok]
         /\ [m EXCEPT !.ok = x] = [array |-> m.array, heap |-> m.heap, ok |-> x]
  OBVIOUS

LEMMA NewEffect ==
  ASSUME NEW n, NEW m \in Works(n), NEW i, NEW v
  PROVE  LET o == Min({x \in Objects : m.heap[x] = Freed})
         IN  New(m, i, v) = [array |-> [m.array EXCEPT ![i] = o], heap |-> [m.heap EXCEPT ![o] = v], ok |-> TRUE]
<1> DEFINE o == Min({x \in Objects : m.heap[x] = Freed})
           a == [m EXCEPT !.array = [m.array EXCEPT ![i] = o]]
           c == [a EXCEPT !.heap = [a.heap EXCEPT ![o] = v]]
<1>1. m = [array |-> m.array, heap |-> m.heap, ok |-> TRUE]
  BY DEF Works
<1>2. New(m, i, v) = c
  BY DEF New
<1> HIDE DEF o
<1> DEFINE x == [m.array EXCEPT ![i] = o]
           y == [m.heap EXCEPT ![o] = v]
<1>3. a = [array |-> x, heap |-> m.heap, ok |-> TRUE]
  <2>1. m.ok = TRUE
    BY DEF Works
  <2> HIDE DEF x
  <2>2. [m EXCEPT !.array = x] = [array |-> x, heap |-> m.heap, ok |-> m.ok]
    BY FieldChanges DEF Works
  <2> QED
    BY <2>1, <2>2 DEF x
<1>4. c = [array |-> x, heap |-> y, ok |-> TRUE]
  <2>1. a \in [array : {x}, heap : {m.heap}, ok : {TRUE}]
    BY <1>3
  <2>2. a.array = x /\ a.heap = m.heap /\ a.ok = TRUE
    BY <1>3
  <2> HIDE DEF a, x
  <2>3. c = [a EXCEPT !.heap = y]
    BY <2>2
  <2> HIDE DEF y
  <2>4. [a EXCEPT !.heap = y] = [array |-> a.array, heap |-> y, ok |-> a.ok]
    BY <2>1, FieldChanges
  <2> QED
    BY <2>2, <2>3, <2>4
<1> QED
  BY <1>2, <1>4 DEF o

LEMMA NewHolds ==
  ASSUME NEW m, NEW n, NEW D, NEW w, NEW b, Holds(m, n, D, w, b),
         b < 3 * (MaxSize + MaxReserve), NEW i \in 0 .. n - 1, i < MaxSize, NEW v \in Things,
         NEW E, E \subseteq D \union {i},
         NEW u, \A j \in E : u[j] = IF j = i THEN v ELSE w[j]
  PROVE  Holds(New(m, i, v), n, E, u, b + 1)
<1> DEFINE Room == {x \in Objects : m.heap[x] = Freed}
           o == Min(Room)
           t == New(m, i, v)
<1>1. m \in Works(n) /\ n \in Nat /\ b \in Nat
  BY DEF Holds
<1>2. Room # {}
  <2> SUFFICES ASSUME Room = {} PROVE FALSE
    OBVIOUS
  <2>1. Allocated(m.heap) = Objects
    BY DEF Allocated
  <2>2. 3 * (MaxSize + MaxReserve) <= b
    BY <2>1, ObjectsFinite DEF Holds
  <2> QED
    BY <2>2, <1>1, ObjectsFinite
<1>3. o \in Objects /\ m.heap[o] = Freed
  <2>1. Room \subseteq Nat
    BY ObjectsFinite
  <2>2. Min(Room) \in Room
    <3> HIDE DEF Room
    <3> QED
      BY <1>2, <2>1, MinIn
  <2> QED
    BY <2>2
<1>4. t = [array |-> [m.array EXCEPT ![i] = o], heap |-> [m.heap EXCEPT ![o] = v], ok |-> TRUE]
  BY <1>1, NewEffect
<1> HIDE DEF o, t, Room
<1>5. /\ m.array \in [0 .. n - 1 -> Objects \union {0}]
      /\ m.heap \in [Objects \union {0} -> Things \union {Freed}]
  BY <1>1 DEF Works
<1>6. /\ t.array \in [0 .. n - 1 -> Objects \union {0}] /\ t.array[i] = o
      /\ \A j \in 0 .. n - 1 : j # i => t.array[j] = m.array[j]
  BY <1>3, <1>4, <1>5
<1>7. /\ t.heap \in [Objects \union {0} -> Things \union {Freed}] /\ t.heap[o] = v
      /\ \A x \in Objects \union {0} : x # o => t.heap[x] = m.heap[x]
  BY <1>3, <1>4, <1>5
<1>8. t \in Works(n)
  BY <1>4, <1>6, <1>7 DEF Works
<1>9. Cardinality(Allocated(t.heap)) <= b + 1
  <2>1. Allocated(t.heap) \subseteq Allocated(m.heap) \union {o}
    BY <1>7 DEF Allocated
  <2>2. Cardinality(Allocated(m.heap) \union {o}) <= Cardinality(Allocated(m.heap)) + 1
    <3> DEFINE A == Allocated(m.heap)
    <3>1. IsFiniteSet(A) /\ Cardinality(A) \in Nat
      BY ObjectsFinite
    <3> HIDE DEF A
    <3>2. Cardinality(A \union {o}) = IF o \in A THEN Cardinality(A) ELSE Cardinality(A) + 1
      BY <3>1, FS_AddElement
    <3>3. Cardinality(A \union {o}) <= Cardinality(A) + 1
      BY <3>1, <3>2
    <3> QED
      BY <3>3 DEF A
  <2>3. IsFiniteSet(Allocated(m.heap) \union {o})
    BY ObjectsFinite, FS_AddElement
  <2>4. Cardinality(Allocated(t.heap)) <= Cardinality(Allocated(m.heap) \union {o})
    BY <2>1, <2>3, FS_Subset
  <2>5. Cardinality(Allocated(m.heap)) <= b
    BY DEF Holds
  <2>6. Cardinality(Allocated(m.heap) \union {o}) \in Nat
    BY <2>3, FS_CardinalityType
  <2> DEFINE x == Cardinality(Allocated(t.heap))
             y == Cardinality(Allocated(m.heap) \union {o})
             z == Cardinality(Allocated(m.heap))
  <2>7. x \in Nat /\ y \in Nat /\ z \in Nat /\ x <= y /\ y <= z + 1 /\ z <= b
    BY <2>2, <2>4, <2>5, <2>6, ObjectsFinite
  <2> HIDE DEF x, y, z
  <2>8. x <= b + 1
    BY <2>7, <1>1
  <2> QED
    BY <2>8 DEF x
<1>10. /\ \A j \in D : j \in 0 .. n - 1 /\ m.heap[m.array[j]] = w[j] /\ w[j] \in Things
       /\ \A j, k \in D : m.array[j] = m.array[k] => j = k
       /\ m.heap[0] = Freed
  BY DEF Holds
<1>11. Freed \notin Things /\ 0 \notin Objects
  BY ObjectsFinite
<1>12. \A j \in D : m.array[j] # o /\ m.array[j] \in Objects \union {0}
  <2> TAKE j \in D
  <2>1. j \in 0 .. n - 1 /\ m.heap[m.array[j]] # Freed
    BY <1>10, <1>11
  <2> QED
    BY <2>1, <1>3, <1>5
<1>13. \A j \in E : t.heap[t.array[j]] = u[j] /\ u[j] \in Things
  <2> TAKE j \in E
  <2>1. CASE j = i
    BY <2>1, <1>6, <1>7
  <2>2. CASE j # i
    <3>1. j \in D
      BY <2>2
    <3> QED
      BY <3>1, <2>2, <1>6, <1>7, <1>10, <1>12
  <2> QED
    BY <2>1, <2>2
<1>14. \A j, k \in E : t.array[j] = t.array[k] => j = k
  BY <1>6, <1>10, <1>12
<1>15. t.heap[0] = Freed
  BY <1>3, <1>7, <1>10, <1>11
<1>16. \A j \in 0 .. n - 1 : j >= MaxSize => t.array[j] = 0
  <2>1. \A j \in 0 .. n - 1 : j >= MaxSize => j # i
    BY VectorAssumption
  <2> QED
    BY <2>1, <1>6 DEF Holds
<1>17. E \subseteq 0 .. n - 1
  BY <1>10
<1>18. b + 1 \in Nat
  BY <1>1
<1> QED
  BY <1>1, <1>8, <1>9, <1>13, <1>14, <1>15, <1>16, <1>17, <1>18 DEF Holds, t

LEMMA CopyHolds ==
  ASSUME NEW m, NEW n, NEW D, NEW w, NEW b, Holds(m, n, D, w, b),
         b < 3 * (MaxSize + MaxReserve), NEW i \in 0 .. n - 1, i < MaxSize, NEW from \in D,
         NEW E, E \subseteq D \union {i},
         NEW u, \A j \in E : u[j] = IF j = i THEN w[from] ELSE w[j]
  PROVE  Holds(Copy(m, from, i), n, E, u, b + 1)
<1>1. m.heap[m.array[from]] = w[from] /\ w[from] \in Things
  BY DEF Holds
<1>2. w[from] # Freed
  BY <1>1, ObjectsFinite
<1>3. Copy(m, from, i) = New(m, i, w[from])
  BY <1>1, <1>2 DEF Copy
<1> QED
  BY <1>1, <1>3, NewHolds

LEMMA FreeHolds ==
  ASSUME NEW m, NEW n, NEW D, NEW w, NEW b, Holds(m, n, D, w, b), NEW i \in D,
         NEW E, E = D \ {i}
  PROVE  Holds(Free(m, i), n, E, w, b)
<1> DEFINE o == m.array[i]
           t == Free(m, i)
<1>1. m \in Works(n) /\ n \in Nat /\ b \in Nat
  BY DEF Holds
<1>2. /\ m.array \in [0 .. n - 1 -> Objects \union {0}]
      /\ m.heap \in [Objects \union {0} -> Things \union {Freed}] /\ m.ok = TRUE
      /\ m = [array |-> m.array, heap |-> m.heap, ok |-> TRUE]
  BY <1>1 DEF Works
<1>3. /\ \A j \in D : j \in 0 .. n - 1 /\ m.heap[m.array[j]] = w[j] /\ w[j] \in Things
      /\ \A j, k \in D : m.array[j] = m.array[k] => j = k
      /\ m.heap[0] = Freed
  BY DEF Holds
<1>4. o \in Objects \union {0} /\ m.heap[o] # Freed
  BY <1>2, <1>3, ObjectsFinite
<1>5. t = [array |-> m.array, heap |-> [m.heap EXCEPT ![o] = Freed], ok |-> TRUE]
  <2> DEFINE a == [m EXCEPT !.heap = [m.heap EXCEPT ![o] = Freed]]
  <2>1. a = [array |-> m.array, heap |-> [m.heap EXCEPT ![o] = Freed], ok |-> TRUE]
    <3> DEFINE x == [m.heap EXCEPT ![o] = Freed]
    <3> HIDE DEF x, o
    <3>1. [m EXCEPT !.heap = x] = [array |-> m.array, heap |-> x, ok |-> m.ok]
      BY <1>1, FieldChanges DEF Works
    <3> QED
      BY <3>1, <1>2 DEF x
  <2>2. t = [a EXCEPT !.ok = a.ok /\ m.heap[o] # Freed]
    BY DEF Free
  <2> HIDE DEF a, o
  <2>3. [a EXCEPT !.ok = a.ok /\ m.heap[o] # Freed]
          = [array |-> m.array, heap |-> [m.heap EXCEPT ![o] = Freed], ok |-> TRUE]
    BY <2>1, <1>4
  <2> QED
    BY <2>2, <2>3
<1> HIDE DEF t, o
<1>6. /\ t.heap \in [Objects \union {0} -> Things \union {Freed}] /\ t.heap[o] = Freed
      /\ \A x \in Objects \union {0} : x # o => t.heap[x] = m.heap[x]
      /\ t.array = m.array
  BY <1>2, <1>4, <1>5
<1>7. t \in Works(n)
  BY <1>2, <1>5, <1>6 DEF Works
<1>8. Cardinality(Allocated(t.heap)) <= b
  <2>1. Allocated(t.heap) \subseteq Allocated(m.heap)
    BY <1>6 DEF Allocated
  <2> DEFINE x == Cardinality(Allocated(t.heap))
             z == Cardinality(Allocated(m.heap))
  <2>2. x <= z /\ x \in Nat /\ z \in Nat
    BY <2>1, ObjectsFinite, FS_Subset
  <2>3. z <= b
    BY DEF Holds
  <2> HIDE DEF x, z
  <2>4. x <= b
    BY <2>2, <2>3, <1>1
  <2> QED
    BY <2>4 DEF x
<1>9. \A j \in E : m.array[j] # o /\ m.array[j] \in Objects \union {0}
  BY <1>2, <1>3 DEF o
<1>10. \A j \in E : t.heap[t.array[j]] = w[j] /\ w[j] \in Things
  BY <1>3, <1>6, <1>9
<1>11. \A j, k \in E : t.array[j] = t.array[k] => j = k
  BY <1>3, <1>6
<1>12. t.heap[0] = Freed
  BY <1>3, <1>6
<1>13. E \subseteq 0 .. n - 1 /\ \A j \in 0 .. n - 1 : j >= MaxSize => t.array[j] = 0
  BY <1>3, <1>6 DEF Holds
<1> QED
  BY <1>1, <1>7, <1>8, <1>10, <1>11, <1>12, <1>13 DEF Holds, t

\* Less is held, with the same values.
LEMMA HoldsLess ==
  ASSUME NEW m, NEW n, NEW D, NEW w, NEW b, Holds(m, n, D, w, b), NEW E, E \subseteq D,
         NEW u, \A j \in E : u[j] = w[j], NEW c \in Nat, c >= b
  PROVE  Holds(m, n, E, u, c)
<1> DEFINE z == Cardinality(Allocated(m.heap))
<1>1. z \in Nat /\ z <= b /\ b \in Nat
  BY ObjectsFinite DEF Holds
<1> HIDE DEF z
<1>2. z <= c
  BY <1>1
<1> QED
  BY <1>2 DEF Holds, z

LEMMA ReallocHolds ==
  ASSUME NEW m, NEW D, NEW w, NEW b, Holds(m, capacity, D, w, b), NEW n \in Nat, n >= capacity
  PROVE  Holds(Realloc(m, n), n, D, w, b)
<1> DEFINE t == Realloc(m, n)
<1>1. m \in Works(capacity) /\ capacity \in Nat
  BY DEF Holds
<1>2. t = [array |-> [i \in 0 .. n - 1 |-> IF i < capacity THEN m.array[i] ELSE 0],
           heap |-> m.heap, ok |-> TRUE]
  <2> DEFINE x == [i \in 0 .. n - 1 |-> IF i < capacity THEN m.array[i] ELSE 0]
  <2>1. t = [m EXCEPT !.array = x]
    BY DEF Realloc
  <2>2. m.ok = TRUE
    BY <1>1 DEF Works
  <2> HIDE DEF x, t
  <2>3. [m EXCEPT !.array = x] = [array |-> x, heap |-> m.heap, ok |-> m.ok]
    BY <1>1, FieldChanges DEF Works
  <2> QED
    BY <2>1, <2>2, <2>3 DEF x
<1>3. 0 .. capacity - 1 \subseteq 0 .. n - 1
  BY <1>1
<1>4. \A i \in 0 .. capacity - 1 : i < capacity
  BY <1>1
<1>5. \A i \in 0 .. n - 1 : i < capacity => i \in 0 .. capacity - 1
  BY <1>1
<1>6. t.heap = m.heap /\ \A i \in 0 .. capacity - 1 : t.array[i] = m.array[i]
  BY <1>2, <1>3, <1>4
<1>7. t \in Works(n)
  BY <1>1, <1>2, <1>5 DEF Works
<1>8. \A i \in 0 .. n - 1 : i >= MaxSize => t.array[i] = 0
  BY <1>2, <1>5 DEF Holds
<1> HIDE DEF t
<1> QED
  BY <1>3, <1>6, <1>7, <1>8 DEF Holds, t

-----------------------------------------------------------------------------

\* The elements from k on are destroyed.
LEMMA FreeLoop ==
  ASSUME NEW m, NEW n, NEW w, NEW b, NEW s \in Nat, NEW k \in 0 .. s, Holds(m, n, 0 .. s - 1, w, b)
  PROVE  Holds(Upwards(Free, m, k, s), n, 0 .. k - 1, w, b)
<1> DEFINE N == s - k
           c == [j \in 1 .. (IF s > k THEN s - k ELSE 0) |-> k + j - 1]
<1>1. N \in Nat /\ DOMAIN c = 1 .. N /\ \A t \in 1 .. N : c[t] = k + t - 1
  <2>1. (IF s > k THEN s - k ELSE 0) = N /\ N \in Nat
    OBVIOUS
  <2> QED
    BY <2>1
<1>2. Upwards(Free, m, k, s) = FoldLeft(Free, m, c)
  BY DEF Upwards
<1> HIDE DEF c
<1>3. PICK g : Turns("free", m, c, N, g) /\ Upwards(Free, m, k, s) = g[N]
  <2>1. FoldLeft(Free, m, c) = TurnedAll("free", m, c, N)
    BY <1>1, Loops
  <2>2. \E g : Turns("free", m, c, N, g) /\ TurnedAll("free", m, c, N) = g[N]
    <3>1. N \in Nat
      BY <1>1
    <3> HIDE DEF N
    <3> QED
      BY <3>1, FoldTurns
  <2> QED
    BY <2>1, <2>2, <1>2
<1> DEFINE P(t) == Holds(g[t], n, (0 .. k - 1) \union (k + t .. s - 1), w, b)
           T == {t \in 0 .. N : ~P(t)}
<1>4. T = {}
  <2> SUFFICES ASSUME T # {} PROVE FALSE
    OBVIOUS
  <2>1. T \subseteq Nat
    BY <1>1
  <2>2. PICK t \in T : \A y \in T : t <= y
    <3> HIDE DEF T
    <3> QED
      BY <2>1, Least
  <2>3. t \in 0 .. N /\ ~P(t)
    BY <2>2
  <2>4. t # 0
    <3>1. (0 .. k - 1) \union (k + 0 .. s - 1) = 0 .. s - 1
      OBVIOUS
    <3> HIDE DEF N
    <3>2. P(0)
      BY <3>1, <1>3 DEF Turns
    <3> QED
      BY <2>3, <3>2
  <2>5. t - 1 \in 0 .. N /\ t \in 1 .. N /\ ~(t <= t - 1)
    BY <2>3, <2>4, <1>1
  <2>6. P(t - 1)
    <3>1. t - 1 \notin T
      BY <2>2, <2>5
    <3> QED
      BY <3>1, <2>5
  <2>7. g[t] = Free(g[t - 1], k + t - 1)
    BY <2>5, <1>1, <1>3 DEF Turns, Turn
  <2> DEFINE i == k + t - 1
             D == (0 .. k - 1) \union (k + (t - 1) .. s - 1)
             E == (0 .. k - 1) \union (k + t .. s - 1)
  <2>8. i \in D /\ E = D \ {i}
    BY <2>5
  <2> HIDE DEF i, D, E
  <2>9. Holds(g[t - 1], n, D, w, b)
    BY <2>6 DEF D
  <2>10. Holds(Free(g[t - 1], i), n, E, w, b)
    BY <2>8, <2>9, FreeHolds
  <2> QED
    BY <2>3, <2>7, <2>10 DEF i, E
<1>5. P(N)
  <2>1. N \in 0 .. N
    BY <1>1
  <2> QED
    BY <2>1, <1>4
<1>6. (0 .. k - 1) \union (k + N .. s - 1) = 0 .. k - 1
  OBVIOUS
<1> QED
  BY <1>3, <1>5, <1>6

\* Default elements are made from s on.
Made(m, s, k) == Upwards(LAMBDA a, i : New(a, i, Default), m, s, k)

LEMMA MakeLoop ==
  ASSUME NEW m, NEW n, NEW D, NEW w, NEW b, Holds(m, n, D, w, b),
         NEW s \in Nat, NEW k \in Nat, s <= k, k <= n, k <= MaxSize, \A i \in s .. k - 1 : w[i] = Default,
         b + (k - s) <= 3 * (MaxSize + MaxReserve)
  PROVE  Holds(Made(m, s, k), n, D \union (s .. k - 1), w, b + (k - s))
<1> DEFINE N == k - s
           c == [j \in 1 .. (IF k > s THEN k - s ELSE 0) |-> s + j - 1]
           out == Made(m, s, k)
<1>0. b \in Nat /\ n \in Nat /\ D \subseteq 0 .. n - 1
  BY DEF Holds
<1>1. N \in Nat /\ DOMAIN c = 1 .. N /\ \A t \in 1 .. N : c[t] = s + t - 1
  <2>1. (IF k > s THEN k - s ELSE 0) = N /\ N \in Nat
    OBVIOUS
  <2> QED
    BY <2>1
<1>2. out = FoldLeft(LAMBDA a, i : New(a, i, Default), m, c)
  BY DEF Upwards, Made
<1> HIDE DEF c, out
<1>3. PICK g : Turns("make", m, c, N, g) /\ out = g[N]
  <2>1. FoldLeft(LAMBDA a, i : New(a, i, Default), m, c)
          = TurnedAll("make", m, c, N)
    BY <1>1, Loops
  <2>2. \E g : Turns("make", m, c, N, g) /\ TurnedAll("make", m, c, N) = g[N]
    <3>1. N \in Nat
      BY <1>1
    <3> HIDE DEF N
    <3> QED
      BY <3>1, FoldTurns
  <2> QED
    BY <2>1, <2>2, <1>2
<1> DEFINE P(t) == Holds(g[t], n, D \union (s .. s + t - 1), w, b + t)
           T == {t \in 0 .. N : ~P(t)}
<1>4. T = {}
  <2> SUFFICES ASSUME T # {} PROVE FALSE
    OBVIOUS
  <2>1. T \subseteq Nat
    BY <1>1
  <2>2. PICK t \in T : \A y \in T : t <= y
    <3> HIDE DEF T
    <3> QED
      BY <2>1, Least
  <2>3. t \in 0 .. N /\ ~P(t)
    BY <2>2
  <2>4. t # 0
    <3>1. D \union (s .. s + 0 - 1) = D /\ b + 0 = b
      BY <1>0
    <3> HIDE DEF N
    <3>2. P(0)
      BY <3>1, <1>3 DEF Turns
    <3> QED
      BY <2>3, <3>2
  <2>5. t - 1 \in 0 .. N /\ t \in 1 .. N /\ ~(t <= t - 1)
    BY <2>3, <2>4, <1>1
  <2>6. P(t - 1)
    <3>1. t - 1 \notin T
      BY <2>2, <2>5
    <3> QED
      BY <3>1, <2>5
  <2>7. g[t] = New(g[t - 1], s + t - 1, Default)
    BY <2>5, <1>1, <1>3 DEF Turns, Turn
  <2> DEFINE i == s + t - 1
             D1 == D \union (s .. s + (t - 1) - 1)
             E == D \union (s .. s + t - 1)
  <2>8. i \in 0 .. n - 1 /\ i < MaxSize /\ E \subseteq D1 \union {i}
    BY <2>5, <1>0, VectorAssumption
  <2>9. Holds(g[t - 1], n, D1, w, b + (t - 1))
    BY <2>6
  <2>10. b + (t - 1) < 3 * (MaxSize + MaxReserve) /\ (b + (t - 1)) + 1 = b + t
    BY <2>5, <1>0, ObjectsFinite
  <2>11. \A j \in E : w[j] = IF j = i THEN Default ELSE w[j]
    BY <2>5
  <2>12. Default \in Things
    BY DEF Things
  <2> HIDE DEF i, D1, E
  <2> DEFINE b1 == b + (t - 1)
  <2> HIDE DEF b1
  <2>13. Holds(New(g[t - 1], i, Default), n, E, w, b1 + 1)
    BY <2>8, <2>9, <2>10, <2>11, <2>12, NewHolds DEF b1
  <2> QED
    BY <2>3, <2>7, <2>10, <2>13 DEF i, E, b1
<1>5. P(N)
  <2>1. N \in 0 .. N
    BY <1>1
  <2> QED
    BY <2>1, <1>4
<1>6. s + N - 1 = k - 1
  OBVIOUS
<1> QED
  BY <1>3, <1>5, <1>6 DEF out

\* The elements from p on move up by one place.
LEMMA OpenLoop ==
  ASSUME NEW m, NEW n, NEW w, NEW b, NEW s \in Nat, NEW p \in 0 .. s - 1,
         Holds(m, n, 0 .. s - 1, w, b), s < n, s < MaxSize,
         b + (s - p) <= 3 * (MaxSize + MaxReserve),
         NEW u, \A i \in 0 .. s : u[i] = IF i > p THEN w[i - 1] ELSE w[i]
  PROVE  Holds(Downwards(ShiftUp, m, s - 1, p), n, (0 .. s) \ {p}, u, b + (s - p))
<1> DEFINE N == s - p
           c == [j \in 1 .. (IF s - 1 >= p THEN (s - 1) - p + 1 ELSE 0) |-> (s - 1) - j + 1]
           out == Downwards(ShiftUp, m, s - 1, p)
<1>0. b \in Nat /\ n \in Nat
  BY DEF Holds
<1>1. N \in Nat /\ DOMAIN c = 1 .. N /\ \A t \in 1 .. N : c[t] = s - t
  <2>1. (IF s - 1 >= p THEN (s - 1) - p + 1 ELSE 0) = N /\ N \in Nat
    OBVIOUS
  <2>2. \A t \in 1 .. N : (s - 1) - t + 1 = s - t
    OBVIOUS
  <2> QED
    BY <2>1, <2>2
<1>2. out = FoldLeft(ShiftUp, m, c)
  BY DEF Downwards
<1> HIDE DEF c, out
<1>3. PICK g : Turns("up", m, c, N, g) /\ out = g[N]
  <2>1. FoldLeft(ShiftUp, m, c) = TurnedAll("up", m, c, N)
    BY <1>1, Loops
  <2>2. \E g : Turns("up", m, c, N, g) /\ TurnedAll("up", m, c, N) = g[N]
    <3>1. N \in Nat
      BY <1>1
    <3> HIDE DEF N
    <3> QED
      BY <3>1, FoldTurns
  <2> QED
    BY <2>1, <2>2, <1>2
<1> DEFINE W(t) == [i \in 0 .. s |-> IF i > s - t THEN w[i - 1] ELSE w[i]]
           P(t) == Holds(g[t], n, (0 .. s) \ {s - t}, W(t), b + t)
           T == {t \in 0 .. N : ~P(t)}
<1>4. T = {}
  <2> SUFFICES ASSUME T # {} PROVE FALSE
    OBVIOUS
  <2>1. T \subseteq Nat
    BY <1>1
  <2>2. PICK t \in T : \A y \in T : t <= y
    <3> HIDE DEF T
    <3> QED
      BY <2>1, Least
  <2>3. t \in 0 .. N /\ ~P(t)
    BY <2>2
  <2>4. t # 0
    <3>1. (0 .. s) \ {s - 0} = 0 .. s - 1 /\ b + 0 = b /\ b >= b
      BY <1>0
    <3>2. \A j \in 0 .. s - 1 : W(0)[j] = w[j]
      OBVIOUS
    <3>3. g[0] = m
      BY <1>3 DEF Turns
    <3> DEFINE W0 == W(0)
    <3> HIDE DEF N
    <3>4. Holds(g[0], n, 0 .. s - 1, W0, b)
      <4>1. \A j \in 0 .. s - 1 : W0[j] = w[j]
        BY <3>2
      <4> HIDE DEF W0
      <4> QED
        BY <4>1, <3>1, <3>3, <1>0, HoldsLess
    <3>5. P(0)
      BY <3>1, <3>4
    <3> QED
      BY <2>3, <3>5
  <2>5. t - 1 \in 0 .. N /\ t \in 1 .. N /\ ~(t <= t - 1)
    BY <2>3, <2>4, <1>1
  <2>6. P(t - 1)
    <3>1. t - 1 \notin T
      BY <2>2, <2>5
    <3> QED
      BY <3>1, <2>5
  <2>7. g[t] = Copy(g[t - 1], s - t, (s - t) + 1)
    BY <2>5, <1>1, <1>3 DEF Turns, Turn, ShiftUp
  <2> DEFINE from == s - t
             i == (s - t) + 1
             D1 == (0 .. s) \ {s - (t - 1)}
             E == (0 .. s) \ {s - t}
             w1 == W(t - 1)
             w2 == W(t)
             b1 == b + (t - 1)
  <2>8. i \in 0 .. n - 1 /\ i < MaxSize /\ E \subseteq D1 \union {i} /\ from \in D1
    BY <2>5, <1>0, VectorAssumption
  <2>9. Holds(g[t - 1], n, D1, w1, b1)
    BY <2>6
  <2>10. b1 < 3 * (MaxSize + MaxReserve) /\ b1 + 1 = b + t
    BY <2>5, <1>0, ObjectsFinite
  <2>11. \A j \in E : w2[j] = IF j = i THEN w1[from] ELSE w1[j]
    <3> SUFFICES ASSUME NEW j \in E PROVE w2[j] = IF j = i THEN w1[from] ELSE w1[j]
      OBVIOUS
    <3>1. j \in 0 .. s /\ from \in 0 .. s /\ from = s - t /\ i = from + 1 /\ t \in Nat
      BY <2>5
    <3>2. w2[j] = IF j > s - t THEN w[j - 1] ELSE w[j]
      BY <3>1
    <3>3. w1[j] = IF j > s - (t - 1) THEN w[j - 1] ELSE w[j]
      BY <3>1
    <3>4. w1[from] = w[from]
      <4>1. ~(from > s - (t - 1))
        BY <3>1
      <4> QED
        BY <3>1, <4>1
    <3> HIDE DEF i, from, w1, w2, E
    <3>5. CASE j = i
      <4>1. j > s - t /\ j - 1 = from
        BY <3>1, <3>5
      <4> QED
        BY <4>1, <3>2, <3>4, <3>5
    <3>6. CASE j # i
      <4>1. (j > s - t) <=> (j > s - (t - 1))
        BY <3>1, <3>6
      <4> QED
        BY <4>1, <3>2, <3>3, <3>6
    <3> QED
      BY <3>5, <3>6
  <2> HIDE DEF i, D1, E, w1, w2, from, b1
  <2>12. Holds(Copy(g[t - 1], from, i), n, E, w2, b1 + 1)
    BY <2>8, <2>9, <2>10, <2>11, CopyHolds
  <2> QED
    BY <2>3, <2>7, <2>10, <2>12 DEF i, E, w2, from
<1>5. P(N)
  <2>1. N \in 0 .. N
    BY <1>1
  <2> QED
    BY <2>1, <1>4
<1>6. s - N = p
  OBVIOUS
<1> DEFINE w3 == W(N)
<1>7. Holds(out, n, (0 .. s) \ {p}, w3, b + N)
  BY <1>3, <1>5, <1>6
<1>8. \A j \in (0 .. s) \ {p} : u[j] = w3[j]
  BY <1>6
<1>9. b + N \in Nat /\ b + N >= b + N
  BY <1>0, <1>1
<1> HIDE DEF w3, N
<1>10. Holds(out, n, (0 .. s) \ {p}, u, b + N)
  BY <1>7, <1>8, <1>9, HoldsLess
<1> QED
  BY <1>10 DEF out, N

\* The elements behind p move down by one place.
Closed(m, p, k) == Upwards(LAMBDA a, i : Copy(a, i + 1, i), m, p, k)

LEMMA CloseLoop ==
  ASSUME NEW m, NEW n, NEW w, NEW b, NEW s \in Nat, NEW p \in 0 .. s - 1,
         Holds(m, n, (0 .. s - 1) \ {p}, w, b), s <= n, s <= MaxSize,
         b + (s - 1 - p) <= 3 * (MaxSize + MaxReserve),
         NEW u, \A i \in 0 .. s - 2 : u[i] = IF i >= p THEN w[i + 1] ELSE w[i]
  PROVE  Holds(Closed(m, p, s - 1), n, 0 .. s - 2, u, b + (s - 1 - p))
<1> DEFINE N == s - 1 - p
           c == [j \in 1 .. (IF s - 1 > p THEN (s - 1) - p ELSE 0) |-> p + j - 1]
           out == Closed(m, p, s - 1)
<1>0. b \in Nat /\ n \in Nat
  BY DEF Holds
<1>1. N \in Nat /\ DOMAIN c = 1 .. N /\ \A t \in 1 .. N : c[t] = p + t - 1
  <2>1. (IF s - 1 > p THEN (s - 1) - p ELSE 0) = N /\ N \in Nat
    OBVIOUS
  <2> QED
    BY <2>1
<1>2. out = FoldLeft(LAMBDA a, i : Copy(a, i + 1, i), m, c)
  BY DEF Upwards, Closed
<1> HIDE DEF c, out
<1>3. PICK g : Turns("down", m, c, N, g) /\ out = g[N]
  <2>1. FoldLeft(LAMBDA a, i : Copy(a, i + 1, i), m, c)
          = TurnedAll("down", m, c, N)
    BY <1>1, Loops
  <2>2. \E g : Turns("down", m, c, N, g) /\ TurnedAll("down", m, c, N) = g[N]
    <3>1. N \in Nat
      BY <1>1
    <3> HIDE DEF N
    <3> QED
      BY <3>1, FoldTurns
  <2> QED
    BY <2>1, <2>2, <1>2
<1> DEFINE W(t) == [i \in 0 .. s - 1 |-> IF i >= p /\ i < p + t THEN w[i + 1] ELSE w[i]]
           P(t) == Holds(g[t], n, (0 .. s - 1) \ {p + t}, W(t), b + t)
           T == {t \in 0 .. N : ~P(t)}
<1>4. T = {}
  <2> SUFFICES ASSUME T # {} PROVE FALSE
    OBVIOUS
  <2>1. T \subseteq Nat
    BY <1>1
  <2>2. PICK t \in T : \A y \in T : t <= y
    <3> HIDE DEF T
    <3> QED
      BY <2>1, Least
  <2>3. t \in 0 .. N /\ ~P(t)
    BY <2>2
  <2>4. t # 0
    <3>1. p + 0 = p /\ b + 0 = b /\ b >= b
      BY <1>0
    <3>2. \A j \in (0 .. s - 1) \ {p} : W(0)[j] = w[j]
      OBVIOUS
    <3>3. g[0] = m
      BY <1>3 DEF Turns
    <3> DEFINE W0 == W(0)
    <3> HIDE DEF N
    <3>4. Holds(g[0], n, (0 .. s - 1) \ {p}, W0, b)
      <4>1. \A j \in (0 .. s - 1) \ {p} : W0[j] = w[j]
        BY <3>2
      <4> HIDE DEF W0
      <4> QED
        BY <4>1, <3>1, <3>3, <1>0, HoldsLess
    <3>5. P(0)
      BY <3>1, <3>4
    <3> QED
      BY <2>3, <3>5
  <2>5. t - 1 \in 0 .. N /\ t \in 1 .. N /\ ~(t <= t - 1)
    BY <2>3, <2>4, <1>1
  <2>6. P(t - 1)
    <3>1. t - 1 \notin T
      BY <2>2, <2>5
    <3> QED
      BY <3>1, <2>5
  <2>7. g[t] = Copy(g[t - 1], (p + t - 1) + 1, p + t - 1)
    BY <2>5, <1>1, <1>3 DEF Turns, Turn
  <2> DEFINE from == (p + t - 1) + 1
             i == p + t - 1
             D1 == (0 .. s - 1) \ {p + (t - 1)}
             E == (0 .. s - 1) \ {p + t}
             w1 == W(t - 1)
             w2 == W(t)
             b1 == b + (t - 1)
  <2>8. i \in 0 .. n - 1 /\ i < MaxSize /\ E \subseteq D1 \union {i} /\ from \in D1
    BY <2>5, <1>0, VectorAssumption
  <2>9. Holds(g[t - 1], n, D1, w1, b1)
    BY <2>6
  <2>10. b1 < 3 * (MaxSize + MaxReserve) /\ b1 + 1 = b + t
    BY <2>5, <1>0, ObjectsFinite
  <2>11. \A j \in E : w2[j] = IF j = i THEN w1[from] ELSE w1[j]
    <3> SUFFICES ASSUME NEW j \in E PROVE w2[j] = IF j = i THEN w1[from] ELSE w1[j]
      OBVIOUS
    <3>1. j \in 0 .. s - 1 /\ from \in 0 .. s - 1 /\ from = i + 1 /\ i = p + t - 1 /\ t \in Nat
      BY <2>5
    <3>2. w2[j] = IF j >= p /\ j < p + t THEN w[j + 1] ELSE w[j]
      BY <3>1
    <3>3. w1[j] = IF j >= p /\ j < p + (t - 1) THEN w[j + 1] ELSE w[j]
      BY <3>1
    <3>4. w1[from] = w[from]
      <4>1. ~(from < p + (t - 1))
        BY <3>1
      <4> QED
        BY <3>1, <4>1
    <3>7. t >= 1
      BY <2>5
    <3> HIDE DEF i, from, w1, w2, E
    <3>5. CASE j = i
      <4>1. j >= p /\ j < p + t /\ j + 1 = from
        BY <3>1, <3>5, <3>7
      <4> QED
        BY <4>1, <3>2, <3>4, <3>5
    <3>6. CASE j # i
      <4>1. (j < p + t) <=> (j < p + (t - 1))
        BY <3>1, <3>6
      <4> QED
        BY <4>1, <3>2, <3>3, <3>6
    <3> QED
      BY <3>5, <3>6
  <2> HIDE DEF i, D1, E, w1, w2, from, b1
  <2>12. Holds(Copy(g[t - 1], from, i), n, E, w2, b1 + 1)
    BY <2>8, <2>9, <2>10, <2>11, CopyHolds
  <2> QED
    BY <2>3, <2>7, <2>10, <2>12 DEF i, E, w2, from
<1>5. P(N)
  <2>1. N \in 0 .. N
    BY <1>1
  <2> QED
    BY <2>1, <1>4
<1>6. p + N = s - 1 /\ (0 .. s - 1) \ {s - 1} = 0 .. s - 2
  OBVIOUS
<1> DEFINE w3 == W(N)
<1>7. Holds(out, n, 0 .. s - 2, w3, b + N)
  BY <1>3, <1>5, <1>6
<1>8. \A j \in 0 .. s - 2 : u[j] = w3[j]
  BY <1>6
<1>9. b + N \in Nat /\ b + N >= b + N
  BY <1>0, <1>1
<1> HIDE DEF w3, N
<1>10. Holds(out, n, 0 .. s - 2, u, b + N)
  BY <1>7, <1>8, <1>9, HoldsLess
<1> QED
  BY <1>10 DEF out, N

-----------------------------------------------------------------------------

VecTypes ==
  /\ size \in 0 .. MaxSize /\ capacity \in Nat
  /\ status \in {"alive", "destroyed", "overread"}
  /\ status # "destroyed" => array \in [0 .. capacity - 1 -> Objects \union {0}]
  /\ heap \in [Objects \union {0} -> Things \union {Freed}]

\* Objects are named after slots, so a call finds room for what it makes.
VecInv ==
  /\ VecTypes
  /\ status = "alive" =>
       /\ capacity >= 1 /\ heap[0] = Freed
       /\ \A i \in 0 .. capacity - 1 : i >= MaxSize => array[i] = 0
       /\ \A o \in Objects : o > MaxSize => heap[o] = Freed
       /\ \A i \in 0 .. size - 1 : i \in 0 .. capacity - 1 /\ heap[array[i]] # Freed
       /\ \A i, j \in 0 .. size - 1 : array[i] = array[j] => i = j

Slots == [i \in 0 .. size - 1 |-> heap[array[i]]]

LEMMA StartHolds ==
  ASSUME VecInv, Alive
  PROVE  /\ Holds(Start, capacity, 0 .. size - 1, Slots, MaxSize)
         /\ size \in Nat /\ size <= MaxSize /\ size <= capacity /\ capacity \in Nat /\ capacity >= 1
         /\ \A i \in 0 .. size - 1 : Slots[i] \in Things
         /\ Contents = [i \in 1 .. size |-> Slots[i - 1]]
<1>1. /\ size \in Nat /\ size <= MaxSize /\ capacity \in Nat /\ capacity >= 1 /\ MaxSize \in Nat
      /\ array \in [0 .. capacity - 1 -> Objects \union {0}]
      /\ heap \in [Objects \union {0} -> Things \union {Freed}]
  BY VectorAssumption DEF VecInv, VecTypes, Alive
<1>2. /\ \A i \in 0 .. size - 1 : i \in 0 .. capacity - 1 /\ heap[array[i]] # Freed
      /\ \A i, j \in 0 .. size - 1 : array[i] = array[j] => i = j
      /\ heap[0] = Freed /\ \A i \in 0 .. capacity - 1 : i >= MaxSize => array[i] = 0
  BY DEF VecInv, Alive
<1>3. Start \in Works(capacity) /\ Start.array = array /\ Start.heap = heap
  BY <1>1 DEF Start, Works
<1>4. Cardinality(Allocated(heap)) <= MaxSize
  <2>1. Allocated(heap) \subseteq 1 .. MaxSize
    <3>1. \A o \in Objects : o > MaxSize => heap[o] = Freed
      BY DEF VecInv, Alive
    <3>2. \A o \in Objects : o \in Nat /\ o >= 1
      BY DEF Objects
    <3> QED
      BY <3>1, <3>2, <1>1 DEF Allocated
  <2>2. IsFiniteSet(1 .. MaxSize) /\ Cardinality(1 .. MaxSize) = MaxSize
    BY <1>1, FS_Interval
  <2> QED
    BY <2>1, <2>2, FS_Subset
<1>5. \A i \in 0 .. size - 1 : heap[array[i]] = Slots[i] /\ Slots[i] \in Things
  BY <1>1, <1>2 DEF Slots
<1>6. Holds(Start, capacity, 0 .. size - 1, Slots, MaxSize)
  BY <1>1, <1>2, <1>3, <1>4, <1>5 DEF Holds
<1>7. size <= capacity
  <2>1. size # 0 => size - 1 \in 0 .. capacity - 1
    BY <1>1, <1>2
  <2> QED
    BY <2>1, <1>1
<1>8. Contents = [i \in 1 .. size |-> Slots[i - 1]]
  <2>1. \A i \in 1 .. size : i - 1 \in 0 .. size - 1
    BY <1>1
  <2> QED
    BY <2>1 DEF Contents, vector_size, vector_get, Slots
<1> QED
  BY <1>1, <1>5, <1>6, <1>7, <1>8

\* A call that leaves s elements with the values w.
LEMMA FinishInv ==
  ASSUME NEW m, NEW n, NEW s \in Nat, NEW w, NEW b, Holds(m, n, 0 .. s - 1, w, b), n >= 1,
         s <= MaxSize, Finish(m), size' = s, capacity' = n, Alive
  PROVE  VecInv' /\ status' = "alive" /\ Contents' = [i \in 1 .. s |-> w[i - 1]]
<1> DEFINE slots == 0 .. n - 1
           F(i) == Min({j \in slots : m.array[j] = m.array[i]})
           V(i) == m.heap[m.array[i]]
<1>1. /\ m.array \in [slots -> Objects \union {0}] /\ m.ok = TRUE /\ n \in Nat
      /\ m.heap \in [Objects \union {0} -> Things \union {Freed}] /\ MaxSize \in Nat
      /\ DOMAIN m.array = slots
  BY VectorAssumption DEF Holds, Works
<1>2. /\ array' = [i \in slots |-> IF V(i) = Freed THEN 0 ELSE F(i) + 1]
      /\ heap' = [o \in Objects \union {0} |->
                    IF o > 0 /\ o - 1 \in slots /\ F(o - 1) = o - 1 THEN V(o - 1) ELSE Freed]
      /\ status' = "alive"
  BY <1>1 DEF Finish, Alive
<1>3. \A i \in slots : F(i) \in slots /\ m.array[F(i)] = m.array[i]
  <2> TAKE i \in slots
  <2> DEFINE S == {j \in slots : m.array[j] = m.array[i]}
  <2>1. S \subseteq Nat /\ S # {}
    BY <1>1
  <2>2. Min(S) \in S
    <3> HIDE DEF S
    <3> QED
      BY <2>1, MinIn
  <2> QED
    BY <2>2
<1>4. \A i, j \in slots : m.array[i] = m.array[j] => F(i) = F(j)
  OBVIOUS
<1> HIDE DEF F
<1>5. \A i \in slots : i >= MaxSize => m.array[i] = 0 /\ V(i) = Freed
  BY DEF Holds
<1>6. \A i \in slots : V(i) \in Things \union {Freed} /\ i \in Nat
  BY <1>1
<1>7. \A i \in slots : V(i) # Freed => F(i) \in Nat /\ F(i) < MaxSize
  <2> SUFFICES ASSUME NEW i \in slots, V(i) # Freed PROVE F(i) \in Nat /\ F(i) < MaxSize
    OBVIOUS
  <2>1. F(i) \in slots /\ V(F(i)) # Freed /\ F(i) \in Nat
    BY <1>3, <1>6
  <2>2. ~(F(i) >= MaxSize)
    BY <2>1, <1>5
  <2> QED
    BY <2>1, <2>2, <1>1
<1>8. \A k \in Nat : k < MaxSize => k + 1 \in Objects /\ k + 1 > 0 /\ (k + 1) - 1 = k
  BY ObjectsFinite, VectorAssumption DEF Objects
<1>9. \A i \in slots : V(i) # Freed =>
        /\ array'[i] = F(i) + 1 /\ array'[i] \in Objects /\ heap'[array'[i]] = V(i)
  <2> SUFFICES ASSUME NEW i \in slots, V(i) # Freed
               PROVE  array'[i] = F(i) + 1 /\ array'[i] \in Objects /\ heap'[array'[i]] = V(i)
    OBVIOUS
  <2> DEFINE k == F(i)
  <2>1. k \in Nat /\ k < MaxSize /\ k \in slots /\ m.array[k] = m.array[i]
    BY <1>3, <1>7
  <2>2. k + 1 \in Objects /\ k + 1 > 0 /\ (k + 1) - 1 = k
    BY <2>1, <1>8
  <2>3. array'[i] = k + 1
    BY <1>2
  <2>4. F(k) = k /\ V(k) = V(i)
    BY <2>1, <1>4
  <2> HIDE DEF k, V
  <2>5. heap'[k + 1] = V(k)
    BY <2>1, <2>2, <2>4, <1>2
  <2> QED
    BY <2>2, <2>3, <2>4, <2>5 DEF k
<1>10. array' \in [slots -> Objects \union {0}] /\ \A i \in slots : i >= MaxSize => array'[i] = 0
  <2>1. \A i \in slots : V(i) = Freed => array'[i] = 0
    BY <1>2
  <2>2. \A i \in slots : array'[i] \in Objects \union {0}
    BY <2>1, <1>9
  <2>3. array' = [i \in slots |-> array'[i]]
    BY <1>2
  <2> QED
    BY <2>1, <2>2, <2>3, <1>5
<1>11. \A o \in Objects \union {0} : heap'[o] = Freed \/ (o > 0 /\ o - 1 \in slots /\ heap'[o] = V(o - 1))
  BY <1>2
<1>12. heap' \in [Objects \union {0} -> Things \union {Freed}]
  <2>1. \A o \in Objects \union {0} : heap'[o] \in Things \union {Freed}
    BY <1>6, <1>11
  <2>2. heap' = [o \in Objects \union {0} |-> heap'[o]]
    BY <1>2
  <2> QED
    BY <2>1, <2>2
<1>13. heap'[0] = Freed /\ \A o \in Objects : o > MaxSize => heap'[o] = Freed
  <2>1. heap'[0] = Freed
    BY <1>11
  <2>2. ASSUME NEW o \in Objects, o > MaxSize PROVE heap'[o] = Freed
    <3>1. o \in Nat
      BY ObjectsFinite
    <3>2. o - 1 >= MaxSize
      BY <3>1, <2>2, <1>1
    <3> QED
      BY <3>2, <1>5, <1>11
  <2> QED
    BY <2>1, <2>2
<1>14. \A i \in 0 .. s - 1 : i \in slots /\ V(i) = w[i] /\ V(i) # Freed
  BY ObjectsFinite DEF Holds
<1>15. \A i \in 0 .. s - 1 : heap'[array'[i]] = w[i] /\ heap'[array'[i]] # Freed
  BY <1>9, <1>14
<1>16. \A i, j \in 0 .. s - 1 : array'[i] = array'[j] => i = j
  <2> SUFFICES ASSUME NEW i \in 0 .. s - 1, NEW j \in 0 .. s - 1, array'[i] = array'[j] PROVE i = j
    OBVIOUS
  <2>1. F(i) + 1 = F(j) + 1
    BY <1>9, <1>14
  <2>2. F(i) \in Nat /\ F(j) \in Nat
    BY <1>7, <1>14
  <2>3. F(i) = F(j)
    BY <2>1, <2>2
  <2>4. i \in slots /\ j \in slots
    BY <1>14
  <2>5. m.array[F(i)] = m.array[i] /\ m.array[F(j)] = m.array[j]
    BY <2>4, <1>3
  <2>6. m.array[i] = m.array[j]
    BY <2>3, <2>5
  <2> QED
    BY <2>6 DEF Holds
<1>17. Contents' = [i \in 1 .. s |-> w[i - 1]]
  <2>1. \A i \in 1 .. s : i - 1 \in 0 .. s - 1
    OBVIOUS
  <2>2. Contents' = [i \in 1 .. s |-> heap'[array'[i - 1]]]
    BY DEF Contents, vector_size, vector_get
  <2> HIDE DEF V, slots
  <2> QED
    BY <2>1, <2>2, <1>15
<1>18. VecTypes'
  BY <1>1, <1>2, <1>10, <1>12 DEF VecTypes, Objects, Things
<1>19. VecInv'
  BY <1>1, <1>2, <1>10, <1>13, <1>14, <1>15, <1>16, <1>18 DEF VecInv, Objects
<1> QED
  BY <1>2, <1>17, <1>19

-----------------------------------------------------------------------------
(* The calls *)

LEMMA ClearStep == ASSUME VecInv, vector_clear PROVE VecInv' /\ status' = "alive"
<1>1. /\ Holds(Start, capacity, 0 .. size - 1, Slots, MaxSize)
      /\ size \in Nat /\ capacity \in Nat /\ capacity >= 1 /\ Alive
  BY StartHolds DEF vector_clear
<1> DEFINE m == DestroyFrom(Start, 0)
<1>2. Finish(m) /\ size' = 0 /\ capacity' = capacity
  BY DEF vector_clear
<1>3. m = Upwards(Free, Start, 0, size)
  BY DEF DestroyFrom, vector_size
<1>4. 0 \in 0 .. size
  BY <1>1
<1> HIDE DEF m
<1>5. Holds(m, capacity, 0 .. 0 - 1, Slots, MaxSize)
  BY <1>1, <1>3, <1>4, FreeLoop
<1> DEFINE s == 0
<1>6. /\ Holds(m, capacity, 0 .. s - 1, Slots, MaxSize) /\ capacity >= 1 /\ s \in Nat /\ s <= MaxSize
      /\ Finish(m) /\ size' = s /\ capacity' = capacity /\ Alive
  BY <1>1, <1>2, <1>5, VectorAssumption
<1> HIDE DEF s
<1> QED
  BY <1>6, FinishInv

LEMMA DestroyStep == ASSUME VecInv, vector_destroy PROVE VecInv' /\ status' = "destroyed"
<1>1. /\ Holds(Start, capacity, 0 .. size - 1, Slots, MaxSize) /\ size \in Nat
  BY StartHolds DEF vector_destroy
<1> DEFINE m == DestroyFrom(Start, 0)
<1>2. /\ heap' = [o \in DOMAIN heap |-> Freed] /\ status' = (IF m.ok THEN "destroyed" ELSE "misuse")
      /\ size' = 0 /\ capacity' = 0
  BY DEF vector_destroy
<1>3. m = Upwards(Free, Start, 0, size)
  BY DEF DestroyFrom, vector_size
<1>4. 0 \in 0 .. size
  BY <1>1
<1> HIDE DEF m
<1>5. Holds(m, capacity, 0 .. 0 - 1, Slots, MaxSize)
  BY <1>1, <1>3, <1>4, FreeLoop
<1>6. m.ok = TRUE
  BY <1>5 DEF Holds, Works
<1>7. heap' \in [Objects \union {0} -> Things \union {Freed}]
  BY <1>2 DEF VecInv, VecTypes
<1> QED
  BY <1>2, <1>6, <1>7, VectorAssumption DEF VecInv, VecTypes, Objects, Things

\* What a resize is to leave.
LEMMA ResizeStep2 ==
  ASSUME VecInv, NEW n \in 0 .. MaxSize, vector_resize(n), n # size
  PROVE  /\ VecInv' /\ status' = "alive"
         /\ Contents' = [i \in 1 .. n |-> IF i <= size THEN Contents[i] ELSE Default]
<1>1. /\ Holds(Start, capacity, 0 .. size - 1, Slots, MaxSize) /\ MaxSize \in Nat /\ n \in Nat
      /\ size \in Nat /\ size <= MaxSize /\ capacity \in Nat /\ capacity >= 1 /\ Alive /\ size <= capacity
      /\ Contents = [i \in 1 .. size |-> Slots[i - 1]] /\ n <= MaxSize
  BY StartHolds, VectorAssumption DEF vector_resize
<1> DEFINE w == [i \in 0 .. n - 1 |-> IF i < size THEN Slots[i] ELSE Default]
<1>2. [i \in 1 .. n |-> w[i - 1]] = [i \in 1 .. n |-> IF i <= size THEN Contents[i] ELSE Default]
  <2>1. \A i \in 1 .. n : i - 1 \in 0 .. n - 1 /\ (i - 1 < size <=> i <= size)
    BY <1>1
  <2>2. \A i \in 1 .. n : i <= size => Contents[i] = Slots[i - 1]
    BY <1>1
  <2>3. \A i \in 1 .. n : w[i - 1] = IF i <= size THEN Contents[i] ELSE Default
    BY <2>1, <2>2
  <2> QED
    BY <2>3
<1>3. CASE n < vector_size
  <2> DEFINE m == DestroyFrom(Start, n)
  <2>1. Finish(m) /\ size' = n /\ capacity' = capacity
    BY <1>1, <1>3 DEF vector_resize, vector_size
  <2>2. m = Upwards(Free, Start, n, size) /\ n \in 0 .. size
    BY <1>1, <1>3 DEF DestroyFrom, vector_size
  <2> HIDE DEF m
  <2>3. Holds(m, capacity, 0 .. n - 1, Slots, MaxSize)
    BY <1>1, <2>2, FreeLoop
  <2>4. \A j \in 0 .. n - 1 : w[j] = Slots[j]
    BY <1>1, <1>3 DEF vector_size
  <2> HIDE DEF w
  <2>5. Holds(m, capacity, 0 .. n - 1, w, MaxSize)
    <3>1. MaxSize >= MaxSize
      BY <1>1
    <3> QED
      BY <1>1, <2>3, <2>4, <3>1, HoldsLess
  <2>6. VecInv' /\ status' = "alive" /\ Contents' = [i \in 1 .. n |-> w[i - 1]]
    <3>1. /\ Holds(m, capacity, 0 .. n - 1, w, MaxSize) /\ capacity >= 1 /\ n \in Nat /\ n <= MaxSize
          /\ Finish(m) /\ size' = n /\ capacity' = capacity /\ Alive
      BY <1>1, <2>1, <2>5
    <3> QED
      BY <3>1, FinishInv
  <2> QED
    BY <2>6, <1>2 DEF w
<1>4. CASE n > vector_size
  <2> DEFINE m == Defaults(Start, n)
             big == Realloc(Start, get_new_capacity(n))
             grown == Made(big, size, n)
             base == IF n > capacity THEN grown ELSE Start
             cap == IF n > capacity THEN get_new_capacity(n) ELSE capacity
             b == IF n > capacity THEN MaxSize + (n - size) ELSE MaxSize
  <2>1. Finish(m) /\ size' = n /\ capacity' = cap
    BY <1>1, <1>4 DEF vector_resize, vector_size, vector_capacity
  <2>2. m = Made(base, size, n)
    BY DEF Defaults, Made, vector_size, vector_capacity
  <2>3. get_new_capacity(n) \in Nat /\ get_new_capacity(n) >= n
    BY <1>1, NewCapacity
  <2>4. size < n
    BY <1>4 DEF vector_size
  <2>5. Holds(Start, capacity, 0 .. size - 1, w, MaxSize)
    <3>1. \A j \in 0 .. size - 1 : w[j] = Slots[j]
      BY <1>1, <2>4
    <3>2. MaxSize >= MaxSize
      BY <1>1
    <3> HIDE DEF w
    <3> QED
      BY <1>1, <3>1, <3>2, HoldsLess
  <2>6. \A i \in size .. n - 1 : w[i] = Default
    BY <1>1
  <2>7. (0 .. size - 1) \union (size .. n - 1) = 0 .. n - 1 /\ (0 .. n - 1) \union (size .. n - 1) = 0 .. n - 1
    BY <1>1, <2>4
  <2>8. /\ MaxSize + (n - size) <= 3 * (MaxSize + MaxReserve)
        /\ (MaxSize + (n - size)) + (n - size) <= 3 * (MaxSize + MaxReserve)
        /\ MaxSize + (n - size) \in Nat
    BY <1>1, <2>4, ObjectsFinite
  <2> HIDE DEF w, m, b
  <2>9. Holds(base, cap, 0 .. size - 1, w, b) \/ Holds(base, cap, 0 .. n - 1, w, b)
    <3>1. CASE n > capacity
      <4> DEFINE k == get_new_capacity(n)
      <4>1. k \in Nat /\ k >= capacity /\ n <= k
        BY <3>1, <1>1, <2>3
      <4> HIDE DEF k
      <4>2. Holds(Realloc(Start, k), k, 0 .. size - 1, w, MaxSize)
        BY <2>5, <4>1, ReallocHolds
      <4> DEFINE a0 == Realloc(Start, k)
      <4> HIDE DEF a0
      <4>3. Holds(Made(a0, size, n), k,
                  (0 .. size - 1) \union (size .. n - 1), w, MaxSize + (n - size))
        <5> DEFINE D == 0 .. size - 1
        <5>1. /\ Holds(a0, k, D, w, MaxSize) /\ size \in Nat /\ n \in Nat /\ size <= n /\ n <= k
              /\ n <= MaxSize /\ \A i \in size .. n - 1 : w[i] = Default
              /\ MaxSize + (n - size) <= 3 * (MaxSize + MaxReserve)
          BY <1>1, <2>4, <2>6, <2>8, <4>1, <4>2 DEF a0
        <5> HIDE DEF D
        <5>2. Holds(Made(a0, size, n), k, D \union (size .. n - 1), w, MaxSize + (n - size))
          BY <5>1, MakeLoop
        <5> QED
          BY <5>2 DEF D
      <4>4. Holds(grown, k, 0 .. n - 1, w, MaxSize + (n - size))
        BY <4>3, <2>7 DEF k, a0
      <4> QED
        BY <3>1, <4>4 DEF k, b
    <3>2. CASE ~(n > capacity)
      BY <3>2, <2>5 DEF b
    <3> QED
      BY <3>1, <3>2
  <2>10. cap \in Nat /\ n <= cap /\ cap >= 1 /\ b + (n - size) <= 3 * (MaxSize + MaxReserve)
    BY <1>1, <2>3, <2>4, <2>8 DEF b
  <2> HIDE DEF base, cap
  <2>11. Holds(m, cap, 0 .. n - 1, w, b + (n - size))
    <3>1. CASE Holds(base, cap, 0 .. size - 1, w, b)
      <4>1. Holds(Made(base, size, n), cap,
                  (0 .. size - 1) \union (size .. n - 1), w, b + (n - size))
        <5> DEFINE D == 0 .. size - 1
        <5>1. /\ Holds(base, cap, D, w, b) /\ size \in Nat /\ n \in Nat /\ size <= n /\ n <= cap
              /\ n <= MaxSize /\ \A i \in size .. n - 1 : w[i] = Default
              /\ b + (n - size) <= 3 * (MaxSize + MaxReserve)
          BY <3>1, <1>1, <2>4, <2>6, <2>10
        <5> HIDE DEF D
        <5>2. Holds(Made(base, size, n), cap, D \union (size .. n - 1), w, b + (n - size))
          BY <5>1, MakeLoop
        <5> QED
          BY <5>2 DEF D
      <4> QED
        BY <4>1, <2>2, <2>7
    <3>2. CASE Holds(base, cap, 0 .. n - 1, w, b)
      <4>1. Holds(Made(base, size, n), cap,
                  (0 .. n - 1) \union (size .. n - 1), w, b + (n - size))
        <5> DEFINE D == 0 .. n - 1
        <5>1. /\ Holds(base, cap, D, w, b) /\ size \in Nat /\ n \in Nat /\ size <= n /\ n <= cap
              /\ n <= MaxSize /\ \A i \in size .. n - 1 : w[i] = Default
              /\ b + (n - size) <= 3 * (MaxSize + MaxReserve)
          BY <3>2, <1>1, <2>4, <2>6, <2>10
        <5> HIDE DEF D
        <5>2. Holds(Made(base, size, n), cap, D \union (size .. n - 1), w, b + (n - size))
          BY <5>1, MakeLoop
        <5> QED
          BY <5>2 DEF D
      <4> QED
        BY <4>1, <2>2, <2>7
    <3> QED
      BY <3>1, <3>2, <2>9
  <2>12. VecInv' /\ status' = "alive" /\ Contents' = [i \in 1 .. n |-> w[i - 1]]
    <3> DEFINE b2 == b + (n - size)
    <3>1. /\ Holds(m, cap, 0 .. n - 1, w, b2) /\ cap >= 1 /\ n \in Nat /\ n <= MaxSize
          /\ Finish(m) /\ size' = n /\ capacity' = cap /\ Alive
      BY <1>1, <2>1, <2>10, <2>11
    <3> HIDE DEF b2
    <3> QED
      BY <3>1, FinishInv
  <2> QED
    BY <2>12, <1>2 DEF w
<1> QED
  BY <1>1, <1>3, <1>4 DEF vector_resize, vector_size

LEMMA ReserveStep ==
  ASSUME VecInv, NEW n \in 0 .. MaxReserve, vector_reserve(n)
  PROVE  VecInv' /\ status' = "alive" /\ Contents' = Contents
<1>1. /\ Holds(Start, capacity, 0 .. size - 1, Slots, MaxSize) /\ n \in Nat
      /\ size \in Nat /\ size <= MaxSize /\ capacity \in Nat /\ capacity >= 1 /\ Alive
      /\ Contents = [i \in 1 .. size |-> Slots[i - 1]]
  BY StartHolds, VectorAssumption DEF vector_reserve
<1>2. CASE n > vector_capacity
  <2> DEFINE k == get_new_capacity(n)
             m == Realloc(Start, k)
  <2>1. capacity' = k /\ Finish(m) /\ size' = size
    BY <1>2 DEF vector_reserve
  <2>2. k \in Nat /\ k >= n
    BY <1>1, NewCapacity
  <2> HIDE DEF k
  <2>3. k >= capacity /\ k >= 1
    BY <1>1, <1>2, <2>2 DEF vector_capacity
  <2>4. Holds(m, k, 0 .. size - 1, Slots, MaxSize)
    BY <1>1, <2>2, <2>3, ReallocHolds
  <2> HIDE DEF m
  <2>5. VecInv' /\ status' = "alive" /\ Contents' = [i \in 1 .. size |-> Slots[i - 1]]
    BY <1>1, <2>1, <2>3, <2>4, FinishInv
  <2> QED
    BY <2>5, <1>1
<1>3. CASE ~(n > vector_capacity)
  <2>1. UNCHANGED vars
    BY <1>3 DEF vector_reserve
  <2>2. UNCHANGED <<array, size, capacity, heap, status>>
    BY <2>1 DEF vars
  <2>3. Contents' = Contents
    BY <2>2 DEF Contents, vector_size, vector_get
  <2>4. VecInv'
    BY <2>2 DEF VecInv, VecTypes, Objects, Things
  <2> QED
    BY <2>2, <2>3, <2>4, <1>1 DEF Alive
<1> QED
  BY <1>2, <1>3

LEMMA SetStep ==
  ASSUME VecInv, NEW p \in Nat, NEW e \in Elems, vector_set(p, e)
  PROVE  /\ VecInv' /\ status' = "alive" /\ p < size
         /\ Contents' = ReplaceAt(Contents, p + 1, e)
<1>1. /\ Holds(Start, capacity, 0 .. size - 1, Slots, MaxSize) /\ MaxSize \in Nat
      /\ size \in Nat /\ size <= MaxSize /\ capacity \in Nat /\ capacity >= 1 /\ Alive /\ size <= capacity
      /\ Contents = [i \in 1 .. size |-> Slots[i - 1]]
  BY StartHolds, VectorAssumption DEF vector_set
<1>2. p < size /\ Finish(New(Start, p, e)) /\ size' = size /\ capacity' = capacity
  BY DEF vector_set, vector_size
<1> DEFINE w == [i \in 0 .. size - 1 |-> IF i = p THEN e ELSE Slots[i]]
           b == MaxSize + 1
           m == New(Start, p, e)
<1>3. Holds(m, capacity, 0 .. size - 1, w, b)
  <2>1. p \in 0 .. capacity - 1 /\ p < MaxSize /\ MaxSize < 3 * (MaxSize + MaxReserve)
    BY <1>1, <1>2, ObjectsFinite
  <2>2. e \in Things
    BY DEF Things
  <2>3. \A j \in 0 .. size - 1 : w[j] = IF j = p THEN e ELSE Slots[j]
    OBVIOUS
  <2>4. 0 .. size - 1 \subseteq (0 .. size - 1) \union {p}
    OBVIOUS
  <2> HIDE DEF w
  <2> QED
    BY <1>1, <2>1, <2>2, <2>3, <2>4, NewHolds
<1> HIDE DEF m, w, b
<1>4. VecInv' /\ status' = "alive" /\ Contents' = [i \in 1 .. size |-> w[i - 1]]
  <2>1. /\ Holds(m, capacity, 0 .. size - 1, w, b) /\ capacity >= 1 /\ size \in Nat /\ size <= MaxSize
        /\ Finish(m) /\ size' = size /\ capacity' = capacity /\ Alive
    BY <1>1, <1>2, <1>3 DEF m
  <2> QED
    BY <2>1, FinishInv
<1>5. [i \in 1 .. size |-> w[i - 1]] = [Contents EXCEPT ![p + 1] = e]
  <2>1. \A i \in 1 .. size : i - 1 \in 0 .. size - 1 /\ (i - 1 = p <=> i = p + 1)
    BY <1>1
  <2>2. \A i \in 1 .. size : w[i - 1] = IF i = p + 1 THEN e ELSE Contents[i]
    BY <2>1, <1>1 DEF w
  <2>3. DOMAIN Contents = 1 .. size
    BY <1>1
  <2> QED
    BY <2>2, <2>3
<1> QED
  BY <1>2, <1>4, <1>5 DEF ReplaceAt

-----------------------------------------------------------------------------
(* Sequences *)

\* What an element put into a queue leaves of it.
LEMMA InsertedParts ==
  ASSUME NEW S, NEW c \in Seq(S), NEW j \in S, NEW p \in 1 .. Len(c) + 1
  PROVE  /\ InsertAt(c, p, j) \in Seq(S) /\ Len(InsertAt(c, p, j)) = Len(c) + 1
         /\ InsertAt(c, p, j)[p] = j
         /\ \A k \in 1 .. p - 1 : InsertAt(c, p, j)[k] = c[k]
         /\ \A k \in p .. Len(c) : InsertAt(c, p, j)[k + 1] = c[k]
<1> DEFINE a == SubSeq(c, 1, p - 1)
           b == <<j>>
           z == SubSeq(c, p, Len(c))
           N == Len(c)
<1>1. N \in Nat /\ p \in 1 .. N + 1
  OBVIOUS
<1>2. a \in Seq(S) /\ Len(a) = p - 1 /\ \A x \in 1 .. p - 1 : a[x] = c[x]
  BY <1>1
<1>3. z \in Seq(S) /\ Len(z) = N + 1 - p /\ \A x \in 1 .. N + 1 - p : z[x] = c[(p - 1) + x]
  BY <1>1
<1>4. b \in Seq(S) /\ Len(b) = 1 /\ b[1] = j
  OBVIOUS
<1>5. InsertAt(c, p, j) = (a \o b) \o z
  BY DEF InsertAt
<1> HIDE DEF a, b, z
<1> DEFINE d == a \o b
<1>6. d \in Seq(S) /\ Len(d) = p
  <2>1. d \in Seq(S) /\ Len(d) = Len(a) + Len(b)
    BY <1>2, <1>4, ConcatProperties
  <2> QED
    BY <2>1, <1>1, <1>2, <1>4
<1>7. \A x \in 1 .. Len(a) : d[x] = a[x]
  BY <1>2, <1>4
<1>8. d[p] = j
  <2>1. \A x \in 1 .. Len(b) : (a \o b)[Len(a) + x] = b[x]
    <3>1. a \in Seq(S) /\ b \in Seq(S)
      BY <1>2, <1>4
    <3> QED
      BY <3>1
  <2>2. 1 \in 1 .. Len(b) /\ Len(a) + 1 = p
    BY <1>1, <1>2, <1>4
  <2> QED
    BY <2>1, <2>2, <1>4
<1> HIDE DEF d
<1>9. d \o z \in Seq(S) /\ Len(d \o z) = p + Len(z)
  BY <1>3, <1>6, ConcatProperties
<1>10. \A x \in 1 .. Len(d) : (d \o z)[x] = d[x]
  BY <1>3, <1>6
<1>11. \A x \in 1 .. Len(z) : (d \o z)[Len(d) + x] = z[x]
  BY <1>3, <1>6
<1> HIDE DEF N
<1>12. Len(d \o z) = N + 1 /\ (d \o z)[p] = j
  BY <1>1, <1>3, <1>6, <1>8, <1>9, <1>10
<1>13. ASSUME NEW k \in 1 .. p - 1 PROVE (d \o z)[k] = c[k]
  <2>1. k \in 1 .. Len(d) /\ k \in 1 .. Len(a)
    BY <1>1, <1>2, <1>6
  <2> QED
    BY <2>1, <1>2, <1>7, <1>10
<1>14. ASSUME NEW k \in p .. N PROVE (d \o z)[k + 1] = c[k]
  <2>1. /\ k + 1 - p \in 1 .. N + 1 - p /\ p + (k + 1 - p) = k + 1
        /\ (p - 1) + (k + 1 - p) = k
    BY <1>1
  <2> DEFINE x == k + 1 - p
  <2>2. x \in 1 .. N + 1 - p /\ p + x = k + 1 /\ (p - 1) + x = k
    BY <2>1
  <2> HIDE DEF x
  <2>3. z[x] = c[(p - 1) + x]
    BY <2>2, <1>3 DEF N
  <2>4. (d \o z)[Len(d) + x] = z[x]
    BY <2>2, <1>3, <1>11 DEF N
  <2> QED
    BY <2>2, <2>3, <2>4, <1>6
<1> QED
  BY <1>5, <1>9, <1>12, <1>13, <1>14 DEF N, d

LEMMA SameSequence ==
  ASSUME NEW S, NEW c \in Seq(S), NEW n \in Nat, Len(c) = n, NEW f, f = [i \in 1 .. n |-> f[i]],
         \A i \in 1 .. n : c[i] = f[i]
  PROVE  c = f
  <1>1. DOMAIN c = 1 .. n /\ c = [i \in DOMAIN c |-> c[i]]
    OBVIOUS
  <1> QED
    BY <1>1

LEMMA RoomMade ==
  ASSUME VecInv, Alive
  PROVE  /\ Holds(Grown, GrownCapacity, 0 .. size - 1, Slots, MaxSize)
         /\ GrownCapacity \in Nat /\ GrownCapacity >= size + 1
<1>1. /\ Holds(Start, capacity, 0 .. size - 1, Slots, MaxSize)
      /\ size \in Nat /\ capacity \in Nat /\ size <= capacity
  BY StartHolds
<1>2. CASE HasRoom
  BY <1>1, <1>2 DEF HasRoom, Grown, GrownCapacity, vector_size, vector_capacity
<1>3. CASE ~HasRoom
  <2> DEFINE k == get_new_capacity(capacity + 1)
  <2>1. k \in Nat /\ k >= capacity + 1
    BY <1>1, NewCapacity
  <2>2. k >= capacity /\ k >= size + 1
    BY <1>1, <2>1
  <2>3. Grown = Realloc(Start, k) /\ GrownCapacity = k
    BY <1>3 DEF Grown, GrownCapacity, vector_capacity
  <2> HIDE DEF k
  <2>4. Holds(Realloc(Start, k), k, 0 .. size - 1, Slots, MaxSize)
    BY <1>1, <2>1, <2>2, ReallocHolds
  <2> QED
    BY <2>1, <2>2, <2>3, <2>4
<1> QED
  BY <1>2, <1>3

\* What the vector holds, as a sequence.
LEMMA ContentsType ==
  ASSUME VecInv, Alive
  PROVE  /\ Contents \in Seq(Things) /\ Len(Contents) = size /\ size \in Nat
         /\ \A i \in 1 .. size : Contents[i] = Slots[i - 1]
<1>1. /\ size \in Nat /\ \A i \in 0 .. size - 1 : Slots[i] \in Things
      /\ Contents = [i \in 1 .. size |-> Slots[i - 1]]
  BY StartHolds
<1>2. \A i \in 1 .. size : i - 1 \in 0 .. size - 1
  BY <1>1
<1>3. Contents \in [1 .. size -> Things]
  BY <1>1, <1>2
<1>4. Contents \in Seq(Things) /\ Len(Contents) = size
  BY <1>1, <1>3
<1> QED
  BY <1>1, <1>4

LEMMA PushStep ==
  ASSUME VecInv, NEW e \in Elems, vector_push_back(e), size < MaxSize
  PROVE  VecInv' /\ status' = "alive" /\ Contents' = Append(Contents, e)
<1>1. /\ Holds(Grown, GrownCapacity, 0 .. size - 1, Slots, MaxSize) /\ MaxSize \in Nat /\ Alive
      /\ GrownCapacity \in Nat /\ GrownCapacity >= size + 1 /\ size \in Nat
      /\ \A i \in 1 .. size : Contents[i] = Slots[i - 1]
  BY RoomMade, ContentsType, VectorAssumption DEF vector_push_back
<1>2. Finish(New(Grown, size, e)) /\ size' = size + 1 /\ capacity' = GrownCapacity
  BY DEF vector_push_back, vector_size
<1> DEFINE w == [i \in 0 .. size |-> IF i = size THEN e ELSE Slots[i]]
           b == MaxSize + 1
           m == New(Grown, size, e)
           s == size + 1
           k == GrownCapacity
<1>3. Holds(m, k, 0 .. s - 1, w, b)
  <2>1. size \in 0 .. k - 1 /\ size < MaxSize /\ MaxSize < 3 * (MaxSize + MaxReserve)
    BY <1>1, ObjectsFinite
  <2>2. e \in Things
    BY DEF Things
  <2>3. \A j \in 0 .. s - 1 : w[j] = IF j = size THEN e ELSE Slots[j]
    BY <1>1
  <2>4. 0 .. s - 1 \subseteq (0 .. size - 1) \union {size}
    BY <1>1
  <2> HIDE DEF w, s, k
  <2> QED
    BY <1>1, <2>1, <2>2, <2>3, <2>4, NewHolds DEF k
<1>4. VecInv' /\ status' = "alive" /\ Contents' = [i \in 1 .. s |-> w[i - 1]]
  <2>1. s \in Nat /\ k >= 1 /\ s <= MaxSize /\ Finish(m) /\ size' = s /\ capacity' = k /\ Alive
    BY <1>1, <1>2
  <2> HIDE DEF m, w, b, s, k
  <2> QED
    BY <2>1, <1>3, FinishInv
<1>5. Append(Contents, e) = [i \in 1 .. s |-> w[i - 1]]
  <2> DEFINE f == [i \in 1 .. s |-> w[i - 1]]
             c == Append(Contents, e)
  <2>1. Contents \in Seq(Things) /\ Len(Contents) = size /\ e \in Things
    BY <1>1, ContentsType DEF Things
  <2> HIDE DEF w
  <2>2. /\ c \in Seq(Things) /\ Len(c) = s /\ c[s] = e
        /\ \A i \in 1 .. size : c[i] = Contents[i]
    BY <2>1, <1>1
  <2>3. \A i \in 1 .. s : i = s \/ i \in 1 .. size
    BY <1>1
  <2>4. w[s - 1] = e /\ \A i \in 1 .. size : w[i - 1] = Slots[i - 1]
    BY <1>1 DEF w
  <2> HIDE DEF c
  <2>5. \A i \in 1 .. s : c[i] = f[i]
    BY <2>2, <2>3, <2>4, <1>1
  <2>6. f = [i \in 1 .. s |-> f[i]] /\ s \in Nat
    BY <1>1
  <2> HIDE DEF f, s
  <2>7. c = f
    BY <2>2, <2>5, <2>6, SameSequence
  <2> QED
    BY <2>7 DEF c, f
<1> QED
  BY <1>4, <1>5

LEMMA PopStep ==
  ASSUME VecInv, vector_pop_back
  PROVE  VecInv' /\ status' = "alive" /\ Contents' = Front(Contents)
<1>1. /\ Holds(Start, capacity, 0 .. size - 1, Slots, MaxSize) /\ MaxSize \in Nat /\ Alive
      /\ size \in Nat /\ size <= MaxSize /\ capacity \in Nat /\ capacity >= 1
      /\ \A i \in 1 .. size : Contents[i] = Slots[i - 1]
  BY StartHolds, ContentsType, VectorAssumption DEF vector_pop_back
<1>2. Finish(Free(Start, size - 1)) /\ size' = size - 1 /\ capacity' = capacity /\ size # 0
  BY DEF vector_pop_back, vector_size
<1> DEFINE m == Free(Start, size - 1)
           s == size - 1
<1>3. Holds(m, capacity, 0 .. s - 1, Slots, MaxSize)
  <2>1. s \in 0 .. size - 1 /\ 0 .. s - 1 = (0 .. size - 1) \ {s}
    BY <1>1, <1>2
  <2> HIDE DEF s
  <2>2. Holds(Free(Start, s), capacity, 0 .. s - 1, Slots, MaxSize)
    BY <1>1, <2>1, FreeHolds
  <2> QED
    BY <2>2 DEF s
<1>4. VecInv' /\ status' = "alive" /\ Contents' = [i \in 1 .. s |-> Slots[i - 1]]
  <2>1. s \in Nat /\ capacity >= 1 /\ s <= MaxSize /\ Finish(m) /\ size' = s /\ capacity' = capacity /\ Alive
    BY <1>1, <1>2
  <2> HIDE DEF m, s
  <2> QED
    BY <2>1, <1>3, FinishInv
<1>5. Front(Contents) = [i \in 1 .. s |-> Slots[i - 1]]
  <2> DEFINE f == [i \in 1 .. s |-> Slots[i - 1]]
             c == SubSeq(Contents, 1, s)
  <2>1. Contents \in Seq(Things) /\ Len(Contents) = size
    BY <1>1, ContentsType
  <2>2. c \in Seq(Things) /\ Len(c) = s /\ \A i \in 1 .. s : c[i] = Contents[i]
    BY <2>1, <1>1, <1>2
  <2>3. \A i \in 1 .. s : i \in 1 .. size
    BY <1>1
  <2> HIDE DEF c
  <2>5. \A i \in 1 .. s : c[i] = f[i]
    BY <2>2, <2>3, <1>1
  <2>6. f = [i \in 1 .. s |-> f[i]] /\ s \in Nat
    BY <1>1, <1>2
  <2>8. Front(Contents) = c
    BY <2>1 DEF Front, c
  <2> HIDE DEF f, s
  <2>7. c = f
    BY <2>2, <2>5, <2>6, SameSequence
  <2> QED
    BY <2>7, <2>8 DEF f
<1> QED
  BY <1>4, <1>5

LEMMA InsertStep ==
  ASSUME VecInv, NEW p \in Nat, NEW e \in Elems, vector_insert(p, e), size < MaxSize
  PROVE  VecInv' /\ status' = "alive" /\ (p \in 0 .. size => Contents' = InsertAt(Contents, p + 1, e))
<1>1. /\ Holds(Start, capacity, 0 .. size - 1, Slots, MaxSize) /\ MaxSize \in Nat /\ Alive
      /\ size \in Nat /\ size <= MaxSize /\ capacity \in Nat /\ capacity >= 1
      /\ Contents \in Seq(Things) /\ Len(Contents) = size
      /\ \A i \in 1 .. size : Contents[i] = Slots[i - 1]
  BY StartHolds, ContentsType, VectorAssumption DEF vector_insert
<1>2. e \in Things /\ MaxSize < 3 * (MaxSize + MaxReserve)
  BY <1>1, ObjectsFinite DEF Things
<1> DEFINE c == InsertAt(Contents, p + 1, e)
<1>3. p \in 0 .. size =>
        /\ c \in Seq(Things) /\ Len(c) = size + 1 /\ c[p + 1] = e
        /\ \A k \in 1 .. p : c[k] = Contents[k]
        /\ \A k \in p + 1 .. size : c[k + 1] = Contents[k]
  <2> SUFFICES ASSUME p \in 0 .. size
               PROVE  /\ c \in Seq(Things) /\ Len(c) = size + 1 /\ c[p + 1] = e
                      /\ \A k \in 1 .. p : c[k] = Contents[k]
                      /\ \A k \in p + 1 .. size : c[k + 1] = Contents[k]
    OBVIOUS
  <2> DEFINE q == p + 1
  <2>1. q \in 1 .. Len(Contents) + 1 /\ q - 1 = p
    BY <1>1
  <2> HIDE DEF q
  <2>2. /\ InsertAt(Contents, q, e) \in Seq(Things) /\ Len(InsertAt(Contents, q, e)) = Len(Contents) + 1
        /\ InsertAt(Contents, q, e)[q] = e
        /\ \A k \in 1 .. q - 1 : InsertAt(Contents, q, e)[k] = Contents[k]
        /\ \A k \in q .. Len(Contents) : InsertAt(Contents, q, e)[k + 1] = Contents[k]
    <3> DEFINE d == Contents
    <3>1. d \in Seq(Things) /\ e \in Things /\ q \in 1 .. Len(d) + 1
      BY <1>1, <1>2, <2>1
    <3> HIDE DEF d
    <3>2. /\ InsertAt(d, q, e) \in Seq(Things) /\ Len(InsertAt(d, q, e)) = Len(d) + 1
          /\ InsertAt(d, q, e)[q] = e
          /\ \A k \in 1 .. q - 1 : InsertAt(d, q, e)[k] = d[k]
          /\ \A k \in q .. Len(d) : InsertAt(d, q, e)[k + 1] = d[k]
      BY <3>1, InsertedParts
    <3> QED
      BY <3>2 DEF d
  <2> QED
    BY <2>1, <2>2, <1>1 DEF q
<1> HIDE DEF c
<1>4. CASE vector_size = 0 /\ Finish(New(Start, 0, e)) /\ size' = size + 1 /\ capacity' = capacity
  <2> DEFINE m == New(Start, 0, e)
             s == 1
             w == [i \in 0 .. 0 |-> e]
             b == MaxSize + 1
             z == 0
  <2>0. size = 0
    BY <1>4 DEF vector_size
  <2>1. Holds(m, capacity, 0 .. s - 1, w, b)
    <3>1. z \in 0 .. capacity - 1 /\ z < MaxSize
      BY <1>1, <2>0
    <3> DEFINE D == 0 .. size - 1
               E == 0 .. s - 1
               b0 == MaxSize
               m0 == Start
    <3>2. \A j \in E : w[j] = IF j = z THEN e ELSE Slots[j]
      OBVIOUS
    <3>3. E \subseteq D \union {z} /\ Holds(m0, capacity, D, Slots, b0)
          /\ b0 < 3 * (MaxSize + MaxReserve)
      BY <1>1, <1>2
    <3> HIDE DEF w, s, z, D, E, b0, m0
    <3>4. Holds(New(m0, z, e), capacity, E, w, b0 + 1)
      BY <1>2, <3>1, <3>2, <3>3, NewHolds
    <3> QED
      BY <3>4 DEF z, E, b0, m0
  <2>2. VecInv' /\ status' = "alive" /\ Contents' = [i \in 1 .. s |-> w[i - 1]]
    <3>1. s \in Nat /\ capacity >= 1 /\ s <= MaxSize /\ Finish(m) /\ size' = s /\ capacity' = capacity /\ Alive
      BY <1>1, <1>4, <2>0
    <3> HIDE DEF m, w, b, s
    <3> QED
      BY <3>1, <2>1, FinishInv
  <2>3. ASSUME p \in 0 .. size PROVE Contents' = c
    <3> DEFINE f == [i \in 1 .. s |-> w[i - 1]]
    <3>1. p = 0
      BY <2>3, <2>0
    <3>2. c \in Seq(Things) /\ Len(c) = s /\ c[1] = e
      BY <1>3, <2>0, <3>1
    <3>3. \A i \in 1 .. s : c[i] = f[i]
      BY <3>2
    <3>4. f = [i \in 1 .. s |-> f[i]] /\ s \in Nat
      OBVIOUS
    <3> HIDE DEF s, f
    <3>5. c = f
      BY <3>2, <3>3, <3>4, SameSequence
    <3> QED
      BY <3>5, <2>2 DEF f
  <2> QED
    BY <2>2, <2>3 DEF c
<1>5. CASE vector_size # 0 /\ p = vector_size /\ vector_push_back(e)
  <2>1. VecInv' /\ status' = "alive" /\ Contents' = Append(Contents, e)
    BY <1>5, PushStep
  <2>2. Append(Contents, e) = c
    <3> DEFINE f == Append(Contents, e)
               s == size + 1
    <3>1. p = size /\ p \in 0 .. size
      BY <1>1, <1>5 DEF vector_size
    <3>2. /\ f \in Seq(Things) /\ Len(f) = s /\ f[s] = e
          /\ \A i \in 1 .. size : f[i] = Contents[i]
      BY <1>1, <1>2
    <3>3. c \in Seq(Things) /\ Len(c) = s /\ c[s] = e /\ \A i \in 1 .. size : c[i] = Contents[i]
      BY <1>3, <3>1
    <3>4. \A i \in 1 .. s : i = s \/ i \in 1 .. size
      BY <1>1
    <3> HIDE DEF f
    <3>5. \A i \in 1 .. s : c[i] = f[i]
      BY <3>2, <3>3, <3>4
    <3>6. f = [i \in 1 .. s |-> f[i]] /\ s \in Nat
      BY <3>2, <1>1
    <3> HIDE DEF s
    <3>7. c = f
      BY <3>3, <3>5, <3>6, SameSequence
    <3> QED
      BY <3>7 DEF f
  <2> QED
    BY <2>1, <2>2 DEF c
<1>6. CASE /\ p < vector_size /\ Finish(New(OpenGap(Grown, p), p, e))
           /\ size' = size + 1 /\ capacity' = GrownCapacity
  <2> DEFINE u == [i \in 0 .. size |-> IF i > p THEN Slots[i - 1] ELSE Slots[i]]
             w == [i \in 0 .. size |-> IF i = p THEN e ELSE u[i]]
             m == OpenGap(Grown, p)
             out == New(m, p, e)
             k == GrownCapacity
             b == MaxSize + (size - p)
             s == size + 1
  <2>1. Holds(Grown, k, 0 .. size - 1, Slots, MaxSize) /\ k \in Nat /\ k >= size + 1
    BY <1>1, RoomMade
  <2>2. p \in 0 .. size - 1 /\ size < k /\ p < size
    BY <1>1, <1>6, <2>1 DEF vector_size
  <2>3. m = Downwards(ShiftUp, Grown, size - 1, p)
    BY DEF OpenGap, vector_size
  <2>4. b + 1 <= 3 * (MaxSize + MaxReserve) /\ b \in Nat
    BY <1>1, <2>2, ObjectsFinite
  <2>5. Holds(m, k, (0 .. size) \ {p}, u, b)
    <3>1. \A i \in 0 .. size : u[i] = IF i > p THEN Slots[i - 1] ELSE Slots[i]
      OBVIOUS
    <3>2. b <= 3 * (MaxSize + MaxReserve)
      BY <2>4, ObjectsFinite
    <3> HIDE DEF m, u, k
    <3>3. Holds(Downwards(ShiftUp, Grown, size - 1, p), k, (0 .. size) \ {p}, u, MaxSize + (size - p))
      BY <1>1, <2>1, <2>2, <3>1, <3>2, OpenLoop
    <3> QED
      BY <3>3, <2>3
  <2>6. Holds(out, k, 0 .. s - 1, w, b + 1)
    <3> DEFINE D == (0 .. size) \ {p}
    <3>1. 0 .. s - 1 \subseteq D \union {p}
      BY <1>1
    <3>2. \A j \in 0 .. s - 1 : w[j] = IF j = p THEN e ELSE u[j]
      BY <1>1
    <3>3. p \in 0 .. k - 1 /\ p < MaxSize /\ b < 3 * (MaxSize + MaxReserve)
      BY <1>1, <2>1, <2>2, <2>4, ObjectsFinite
    <3>4. Holds(m, k, D, u, b)
      BY <2>5
    <3> HIDE DEF D, m, u, w, k, b, s
    <3> QED
      BY <1>2, <3>1, <3>2, <3>3, <3>4, NewHolds
  <2>7. VecInv' /\ status' = "alive" /\ Contents' = [i \in 1 .. s |-> w[i - 1]]
    <3> DEFINE b1 == b + 1
    <3>1. /\ Holds(out, k, 0 .. s - 1, w, b1) /\ s \in Nat /\ k >= 1 /\ s <= MaxSize
          /\ Finish(out) /\ size' = s /\ capacity' = k /\ Alive
      BY <1>1, <1>6, <2>1, <2>6
    <3> HIDE DEF out, w, b1, s, k
    <3> QED
      BY <3>1, FinishInv
  <2>8. c = [i \in 1 .. s |-> w[i - 1]]
    <3> DEFINE f == [i \in 1 .. s |-> w[i - 1]]
    <3>1. /\ c \in Seq(Things) /\ Len(c) = s /\ c[p + 1] = e
          /\ \A i \in 1 .. p : c[i] = Contents[i]
          /\ \A i \in p + 1 .. size : c[i + 1] = Contents[i]
      <4>1. p \in 0 .. size
        BY <1>1, <2>2
      <4> QED
        BY <1>3, <4>1
    <3>2. ASSUME NEW i \in 1 .. s PROVE c[i] = w[i - 1]
      <4>0. i - 1 \in 0 .. size
        BY <1>1
      <4>1. CASE i = p + 1
        BY <3>1, <4>0, <4>1, <1>1
      <4>2. CASE i <= p
        <5>1. i \in 1 .. p /\ i \in 1 .. size /\ ~(i - 1 > p) /\ i - 1 # p
          BY <4>2, <2>2, <1>1
        <5>2. w[i - 1] = Slots[i - 1]
          BY <4>0, <5>1
        <5> QED
          BY <5>1, <5>2, <3>1, <1>1
      <4>3. CASE i > p + 1
        <5>1. i - 1 \in p + 1 .. size /\ i - 1 \in 1 .. size /\ (i - 1) + 1 = i /\ i - 1 > p /\ i - 1 # p
          BY <4>3, <1>1
        <5> DEFINE j == i - 1
        <5>2. w[j] = Slots[j - 1]
          BY <4>0, <5>1
        <5> HIDE DEF j, w
        <5>3. c[j + 1] = Contents[j] /\ Contents[j] = Slots[j - 1] /\ j + 1 = i
          BY <5>1, <3>1, <1>1 DEF j
        <5> QED
          BY <5>2, <5>3 DEF j
      <4> QED
        BY <4>1, <4>2, <4>3, <1>1
    <3>3. \A i \in 1 .. s : c[i] = f[i]
      BY <3>2
    <3>4. f = [i \in 1 .. s |-> f[i]] /\ s \in Nat
      BY <1>1
    <3> HIDE DEF f, s
    <3>5. c = f
      BY <3>1, <3>3, <3>4, SameSequence
    <3> QED
      BY <3>5 DEF f
  <2> QED
    BY <2>7, <2>8 DEF c
<1> QED
  BY <1>4, <1>5, <1>6 DEF vector_insert

LEMMA EraseStep ==
  ASSUME VecInv, NEW p \in Nat, vector_erase(p)
  PROVE  /\ VecInv' /\ p < size
         /\ \/ status' = "alive" /\ Contents' = RemoveAt(Contents, p + 1)
            \/ status' = "overread"
<1>1. /\ Holds(Start, capacity, 0 .. size - 1, Slots, MaxSize) /\ MaxSize \in Nat /\ Alive
      /\ size \in Nat /\ size <= MaxSize /\ capacity \in Nat /\ capacity >= 1 /\ size <= capacity
      /\ Contents \in Seq(Things) /\ Len(Contents) = size
      /\ \A i \in 1 .. size : Contents[i] = Slots[i - 1]
  BY StartHolds, ContentsType, VectorAssumption DEF vector_erase
<1> DEFINE m == CloseGap(Free(Start, p), p)
           behind == IF vector_size < vector_capacity THEN heap[array[vector_size]] ELSE Freed
<1>2. p < size /\ \/ \E value \in IF behind = Freed THEN Elems ELSE {behind} :
                        Finish(New(m, size - 1, value)) /\ size' = size - 1 /\ capacity' = capacity
                  \/ status' = "overread" /\ UNCHANGED <<array, size, capacity, heap>>
  BY DEF vector_erase, vector_size
<1>3. CASE status' = "overread" /\ UNCHANGED <<array, size, capacity, heap>>
  <2>1. VecInv'
    BY <1>1, <1>3 DEF VecInv, VecTypes, Objects, Things, Alive
  <2> QED
    BY <2>1, <1>2, <1>3
<1>4. ASSUME NEW value \in IF behind = Freed THEN Elems ELSE {behind},
             Finish(New(m, size - 1, value)), size' = size - 1, capacity' = capacity
      PROVE  VecInv' /\ status' = "alive" /\ Contents' = RemoveAt(Contents, p + 1)
  <2>1. value \in Things
    <3>1. behind \in Things \union {Freed}
      <4>1. size < capacity => array[size] \in Objects \union {0}
        BY <1>1 DEF VecInv, VecTypes, Alive
      <4>2. size < capacity => heap[array[size]] \in Things \union {Freed}
        BY <4>1 DEF VecInv, VecTypes
      <4> QED
        BY <4>2 DEF vector_size, vector_capacity
    <3> HIDE DEF behind
    <3> QED
      BY <3>1 DEF Things
  <2> HIDE DEF behind
  <2> DEFINE u == [i \in 0 .. size - 2 |-> IF i >= p THEN Slots[i + 1] ELSE Slots[i]]
             m0 == Free(Start, p)
             b == MaxSize + (size - 1 - p)
             s == size - 1
             out == New(m, s, value)
  <2>2. p \in 0 .. size - 1 /\ s \in Nat
    BY <1>1, <1>2
  <2>3. Holds(m0, capacity, (0 .. size - 1) \ {p}, Slots, MaxSize)
    BY <1>1, <2>2, FreeHolds
  <2>4. m = Closed(m0, p, size - 1)
    BY DEF CloseGap, Closed, vector_size
  <2>5. b + 1 <= 3 * (MaxSize + MaxReserve) /\ b \in Nat
    BY <1>1, <2>2, ObjectsFinite
  <2>6. Holds(m, capacity, 0 .. size - 2, u, b)
    <3>1. \A i \in 0 .. size - 2 : u[i] = IF i >= p THEN Slots[i + 1] ELSE Slots[i]
      OBVIOUS
    <3>2. b <= 3 * (MaxSize + MaxReserve)
      BY <2>5, ObjectsFinite
    <3> HIDE DEF m, m0, u
    <3>3. Holds(Closed(m0, p, size - 1), capacity, 0 .. size - 2, u, MaxSize + (size - 1 - p))
      BY <1>1, <2>2, <2>3, <3>1, <3>2, CloseLoop
    <3> QED
      BY <3>3, <2>4
  <2>7. Holds(out, capacity, 0 .. s - 1, u, b + 1)
    <3> DEFINE D == 0 .. size - 2
               E == 0 .. s - 1
    <3>1. E \subseteq D \union {s} /\ \A j \in E : j # s
      BY <1>1
    <3>2. s \in 0 .. capacity - 1 /\ s < MaxSize /\ b < 3 * (MaxSize + MaxReserve)
      BY <1>1, <2>2, <2>5, ObjectsFinite
    <3>3. Holds(m, capacity, D, u, b)
      BY <2>6
    <3>4. \A j \in E : u[j] = IF j = s THEN value ELSE u[j]
      BY <3>1
    <3> HIDE DEF D, E, m, u, b, s
    <3> QED
      BY <2>1, <3>1, <3>2, <3>3, <3>4, NewHolds DEF E
  <2>8. VecInv' /\ status' = "alive" /\ Contents' = [i \in 1 .. s |-> u[i - 1]]
    <3> DEFINE b1 == b + 1
    <3>1. /\ Holds(out, capacity, 0 .. s - 1, u, b1) /\ s \in Nat /\ capacity >= 1 /\ s <= MaxSize
          /\ Finish(out) /\ size' = s /\ capacity' = capacity /\ Alive
      BY <1>1, <1>4, <2>2, <2>7
    <3> HIDE DEF out, u, b1, s
    <3> QED
      BY <3>1, FinishInv
  <2>9. RemoveAt(Contents, p + 1) = [i \in 1 .. s |-> u[i - 1]]
    <3> DEFINE f == [i \in 1 .. s |-> u[i - 1]]
               q == p + 1
               c == RemoveAt(Contents, q)
    <3>1. q \in 1 .. Len(Contents)
      BY <1>1, <2>2
    <3> HIDE DEF q
    <3>2. /\ c \in Seq(Things) /\ Len(c) = s
          /\ \A i \in 1 .. s : c[i] = IF i < q THEN Contents[i] ELSE Contents[i + 1]
      BY <3>1, <1>1, RemovedParts
    <3> HIDE DEF c
    <3>3. ASSUME NEW i \in 1 .. s PROVE c[i] = u[i - 1]
      <4>1. i - 1 \in 0 .. size - 2 /\ i \in 1 .. size /\ i + 1 \in 1 .. size /\ (i - 1) + 1 = i /\ (i + 1) - 1 = i
        BY <1>1
      <4>2. i < q <=> ~(i - 1 >= p)
        BY <1>1 DEF q
      <4>3. u[i - 1] = IF i < q THEN Slots[i - 1] ELSE Slots[i]
        BY <4>1, <4>2
      <4>4. Contents[i] = Slots[i - 1] /\ Contents[i + 1] = Slots[(i + 1) - 1]
        BY <4>1, <1>1
      <4> QED
        BY <4>1, <4>3, <4>4, <3>2
    <3>4. \A i \in 1 .. s : c[i] = f[i]
      BY <3>3
    <3>5. f = [i \in 1 .. s |-> f[i]] /\ s \in Nat
      BY <2>2
    <3> HIDE DEF f, s
    <3>6. c = f
      BY <3>2, <3>4, <3>5, SameSequence
    <3> QED
      BY <3>6 DEF c, f, q
  <2> QED
    BY <2>8, <2>9
<1> HIDE DEF behind, m
<1> QED
  BY <1>2, <1>3, <1>4

LEMMA VecInit == Init => VecInv
<1> SUFFICES ASSUME Init PROVE VecInv
  OBVIOUS
<1>1. /\ array = [i \in 0 .. INITIAL_CAPACITY - 1 |-> 0] /\ size = 0 /\ capacity = INITIAL_CAPACITY
      /\ heap = [o \in Objects \union {0} |-> Freed] /\ status = "alive"
  BY DEF Init
<1>2. INITIAL_CAPACITY \in Nat /\ INITIAL_CAPACITY >= 1 /\ MaxSize \in Nat
  BY VectorAssumption
<1>3. VecTypes
  BY <1>1, <1>2 DEF VecTypes
<1>4. \A o \in Objects \union {0} : heap[o] = Freed
  BY <1>1
<1> QED
  BY <1>1, <1>2, <1>3, <1>4 DEF VecInv

\* A step is one of the calls, within the bounds.
LEMMA VecStep == VecInv /\ [Next]_vars => VecInv'
<1> SUFFICES ASSUME VecInv, [Next]_vars PROVE VecInv'
  OBVIOUS
<1>1. ASSUME UNCHANGED vars PROVE VecInv'
  BY <1>1 DEF vars, VecInv, VecTypes, Objects, Things
<1>2. ASSUME NEW n \in 0 .. MaxSize, vector_resize(n) PROVE VecInv'
  <2>1. CASE n = size
    <3>1. UNCHANGED vars
      <4>1. size \in Nat
        BY VectorAssumption DEF VecInv, VecTypes
      <4> QED
        BY <1>2, <2>1, <4>1 DEF vector_resize, vector_size
    <3> QED
      BY <3>1, <1>1
  <2>2. CASE n # size
    BY <1>2, <2>2, ResizeStep2
  <2> QED
    BY <2>1, <2>2
<1>3. ASSUME NEW n \in 0 .. MaxReserve, vector_reserve(n) PROVE VecInv'
  BY <1>3, ReserveStep
<1>4. ASSUME NEW p \in 0 .. MaxSize - 1, vector_erase(p) PROVE VecInv'
  BY <1>4, EraseStep
<1>5. ASSUME NEW p \in 0 .. MaxSize - 1, NEW e \in Elems, vector_set(p, e) PROVE VecInv'
  BY <1>5, SetStep
<1>6. ASSUME NEW p \in 0 .. MaxSize - 1, NEW e \in Elems, size < MaxSize, vector_insert(p, e) PROVE VecInv'
  BY <1>6, InsertStep
<1>7. ASSUME NEW e \in Elems, size < MaxSize, vector_push_back(e) PROVE VecInv'
  BY <1>7, PushStep
<1> QED
  BY <1>1, <1>2, <1>3, <1>4, <1>5, <1>6, <1>7, ClearStep, DestroyStep, PopStep DEF Next

\* After any sequence of calls, of any length and on any values, every element
\* of the vector is an allocated object and no two slots share one: no call
\* frees an object twice or copies a freed one (vector.c: the shifting loops of
\* vector_insert and vector_erase, the destructors of resize, clear, pop_back).
THEOREM VectorOwned == Spec => []ObjectsOwned
<1>1. VecInv => ObjectsOwned
  <2> SUFFICES ASSUME VecInv PROVE ObjectsOwned
    OBVIOUS
  <2>1. TypeOK
    BY DEF VecInv, VecTypes, TypeOK, Things
  <2>2. status # "misuse"
    BY DEF VecInv, VecTypes
  <2> QED
    BY <2>1, <2>2 DEF VecInv, ObjectsOwned, vector_get
<1> QED
  BY VecInit, VecStep, <1>1, PTL DEF Spec

\* Seen as a sequence of values each call does what its name says: push_back
\* appends, insert and erase shift without losing, doubling or reordering an
\* element, resize keeps the old ones and adds defaults, across every
\* reallocation (vector.c: all the calls that change the vector).
THEOREM VectorCallsRight == Spec => CallsRight
<1> DEFINE Right ==
      vars' # vars /\ status' = "alive" =>
       /\ \A e \in Elems :
            /\ vector_push_back(e) => Contents' = Append(Contents, e)
            /\ \A p \in 0 .. size : vector_insert(p, e) => Contents' = InsertAt(Contents, p + 1, e)
            /\ \A p \in 0 .. size - 1 : vector_set(p, e) => Contents' = ReplaceAt(Contents, p + 1, e)
       /\ \A p \in 0 .. size - 1 : vector_erase(p) => Contents' = RemoveAt(Contents, p + 1)
       /\ vector_pop_back => Contents' = Front(Contents)
       /\ \A n \in 0 .. MaxSize :
            vector_resize(n) =>
              Contents' = [i \in 1 .. n |-> IF i <= size THEN Contents[i] ELSE Default]
       /\ \A n \in 0 .. MaxReserve : vector_reserve(n) => Contents' = Contents
<1>1. ASSUME VecInv, VecInv', vars' # vars, status' = "alive" PROVE Right
  <2>1. size \in Nat /\ size' \in Nat /\ size' <= MaxSize /\ MaxSize \in Nat
    BY <1>1, VectorAssumption DEF VecInv, VecTypes
  <2>2. size' = size + 1 => size < MaxSize
    BY <2>1
  <2>3. \A e \in Elems : vector_push_back(e) => Contents' = Append(Contents, e)
    <3>1. \A e \in Elems : vector_push_back(e) => size' = size + 1
      BY DEF vector_push_back
    <3> QED
      BY <3>1, <2>2, <1>1, PushStep
  <2>4. ASSUME NEW e \in Elems, NEW p \in 0 .. size, vector_insert(p, e)
        PROVE  Contents' = InsertAt(Contents, p + 1, e)
    <3>1. size' = size + 1
      BY <2>4 DEF vector_insert, vector_push_back
    <3> QED
      BY <3>1, <2>1, <2>2, <2>4, <1>1, InsertStep
  <2>5. ASSUME NEW e \in Elems, NEW p \in 0 .. size - 1, vector_set(p, e)
        PROVE  Contents' = ReplaceAt(Contents, p + 1, e)
    BY <2>1, <2>5, <1>1, SetStep
  <2>6. ASSUME NEW p \in 0 .. size - 1, vector_erase(p) PROVE Contents' = RemoveAt(Contents, p + 1)
    BY <2>1, <2>6, <1>1, EraseStep
  <2>7. vector_pop_back => Contents' = Front(Contents)
    BY <1>1, PopStep
  <2>8. ASSUME NEW n \in 0 .. MaxSize, vector_resize(n)
        PROVE  Contents' = [i \in 1 .. n |-> IF i <= size THEN Contents[i] ELSE Default]
    <3>1. n # size
      BY <2>1, <2>8, <1>1 DEF vector_resize, vector_size
    <3> QED
      BY <3>1, <2>8, <1>1, ResizeStep2
  <2>9. \A n \in 0 .. MaxReserve : vector_reserve(n) => Contents' = Contents
    BY <1>1, ReserveStep
  <2> QED
    BY <2>3, <2>4, <2>5, <2>6, <2>7, <2>8, <2>9
<1>2. VecInv /\ VecInv' /\ [Next]_vars => [Right]_vars
  BY <1>1
<1> QED
  BY VecInit, VecStep, <1>2, PTL DEF Spec, CallsRight


-----------------------------------------------------------------------------
(* finding_filesystems/minixfs.c *)

Cells == (1 .. DataBlocks) \X (0 .. block_size - 1)
FileType ==
  [blocks : Seq(1 .. DataBlocks), indirect : 0 .. DataBlocks, size : Nat,
   mode : Modes \cup {0}, uid : Ids \cup {0}, gid : Ids \cup {0}]

FsTypes ==
  /\ DOMAIN expected = Existing
  /\ \A p \in Existing : inode[p] \in FileType /\ expected[p] \in [Offsets -> Bytes \cup {UNWRITTEN}]
  /\ disk \in [Cells -> Bytes \cup {UNWRITTEN}]
  /\ fs_status \in {"ok", "wild"} /\ strayed \in BOOLEAN /\ miscounted \in BOOLEAN

\* A block is in one file, once.
BlocksOwned ==
  \A p, q \in Existing : \A j \in 1 .. Len(inode[p].blocks), k \in 1 .. Len(inode[q].blocks) :
     inode[p].blocks[j] = inode[q].blocks[k] => p = q /\ j = k

\* A file has no more blocks than its numbers of blocks have room for.
MostBlocks == NUM_DIRECT_BLOCKS + NumIndirect
BlocksFit == \A p \in Existing : Len(inode[p].blocks) <= MostBlocks

\* Where byte k of file i is.
CellOf(i, k) == <<i.blocks[k \div block_size + 1], k % block_size>>

\* What was written last is where a read that is aligned looks for it.
BytesKept ==
  fs_status = "ok" /\ ~strayed =>
    \A p \in Existing : \A k \in Offsets :
       expected[p][k] # UNWRITTEN =>
         k \div block_size < Len(inode[p].blocks) /\ disk[CellOf(inode[p], k)] = expected[p][k]

\* Files without gaps are written from their beginning to their end.
SizesCounted ==
  ~miscounted =>
    \A p \in Existing : {k \in Offsets : expected[p][k] # UNWRITTEN} = 0 .. inode[p].size - 1

FsInv == FsTypes /\ BlocksOwned /\ BlocksFit /\ BytesKept /\ SizesCounted

LEMMA MaxSizeType == max_size \in Nat /\ Offsets \subseteq Nat
<1>1. block_size \in Nat /\ NUM_DIRECT_BLOCKS + NumIndirect \in Nat
  BY MinixfsAssumption
<1>2. \A a, b \in Nat : a * b \in Nat
  OBVIOUS
<1>3. max_size \in Nat
  BY <1>1, <1>2 DEF max_size
<1> QED
  BY <1>3 DEF Offsets

(* Blocks and positions in them *)

LEMMA Quotient ==
  ASSUME NEW k \in Nat
  PROVE  /\ k \div block_size \in Nat /\ k % block_size \in 0 .. block_size - 1
         /\ k = block_size * (k \div block_size) + (k % block_size)
<1> DEFINE B == block_size
           q == k \div B
           r == k % B
<1>1. B \in Nat /\ B > 0
  BY MinixfsAssumption
<1>2. q \in Int /\ r \in 0 .. B - 1 /\ k = B * q + r
  BY <1>1
<1> HIDE DEF q, r, B
<1>3. q >= 0
  <2> SUFFICES ASSUME q <= -1 PROVE FALSE
    BY <1>2
  <2>1. B * q <= B * (-1)
    BY <1>1, <1>2
  <2>2. B * (-1) = 0 - B
    BY <1>1
  <2> QED
    BY <1>1, <1>2, <2>1, <2>2
<1> QED
  BY <1>2, <1>3 DEF q, r, B

\* A number is one position of one block.
LEMMA SamePlace ==
  ASSUME NEW k \in Nat, NEW l \in Nat,
         k \div block_size = l \div block_size, k % block_size = l % block_size
  PROVE  k = l
  BY Quotient

LEMMA AlignedPlace ==
  ASSUME NEW off \in Nat, NEW k \in Nat, off % block_size = 0,
         (off + k) \div block_size = off \div block_size
  PROVE  (off + k) % block_size = k
<1> DEFINE q == off \div block_size
           r == (off + k) % block_size
           c == block_size * q
<1>1. off = c + 0 /\ off + k = c + r /\ q \in Nat /\ r \in Nat
  <2>1. off + k \in Nat
    OBVIOUS
  <2>2. block_size \in Nat
    BY MinixfsAssumption
  <2> QED
    BY <2>1, <2>2, Quotient
<1>2. c \in Nat
  <2>1. block_size \in Nat
    BY MinixfsAssumption
  <2> HIDE DEF q
  <2> QED
    BY <1>1, <2>1
<1> HIDE DEF r, c
<1>3. r = k
  BY <1>1, <1>2
<1> QED
  BY <1>3 DEF r

\* The blocks that are required have the bytes before n.
LEMMA RequiredEnough ==
  ASSUME NEW n \in Nat, NEW k \in Nat, k < n
  PROVE  RequiredBlocks(n) \in Nat /\ k \div block_size < RequiredBlocks(n)
<1> DEFINE B == block_size
           q == k \div B
           Q == (n + B - 1) \div B
           R == (n + B - 1) % B
           r == k % B
<1>1. B \in Nat /\ B > 0
  BY MinixfsAssumption
<1>2. n + B - 1 \in Nat
  BY <1>1
<1>3. /\ Q \in Nat /\ R \in 0 .. B - 1 /\ n + B - 1 = B * Q + R
      /\ q \in Nat /\ r \in 0 .. B - 1 /\ k = B * q + r
  <2> DEFINE a == n + B - 1
  <2>1. a \in Nat
    BY <1>2
  <2> HIDE DEF a
  <2>2. a \div B \in Nat /\ a % B \in 0 .. B - 1 /\ a = B * (a \div B) + (a % B)
    BY <2>1, Quotient
  <2>3. Q = a \div B /\ R = a % B
    BY DEF a
  <2> QED
    BY <2>2, <2>3, Quotient DEF a
<1>4. RequiredBlocks(n) = Q
  BY DEF RequiredBlocks
<1> HIDE DEF q, Q, R, r, B
<1>5. q < Q
  <2> SUFFICES ASSUME Q <= q PROVE FALSE
    BY <1>3
  <2>1. B * Q <= B * q
    BY <1>1, <1>3
  <2>2. B * Q \in Nat /\ B * q \in Nat
    BY <1>1, <1>3
  <2> QED
    BY <1>1, <1>3, <2>1, <2>2
<1> QED
  BY <1>3, <1>4, <1>5 DEF q, B

LEMMA RequiredFit ==
  ASSUME NEW n \in Nat, n <= max_size
  PROVE  RequiredBlocks(n) \in Nat /\ RequiredBlocks(n) <= MostBlocks
<1> DEFINE B == block_size
           M == MostBlocks
           Q == (n + B - 1) \div B
           R == (n + B - 1) % B
<1>1. B \in Nat /\ B > 0 /\ M \in Nat /\ n <= M * B
  BY MinixfsAssumption DEF max_size, MostBlocks
<1>2. n + B - 1 \in Nat
  BY <1>1
<1>3. Q \in Nat /\ R \in 0 .. B - 1 /\ n + B - 1 = B * Q + R
  <2> DEFINE a == n + B - 1
  <2>1. a \in Nat
    BY <1>2
  <2> HIDE DEF a
  <2>2. a \div B \in Nat /\ a % B \in 0 .. B - 1 /\ a = B * (a \div B) + (a % B)
    BY <2>1, Quotient
  <2> QED
    BY <2>2 DEF a
<1>4. RequiredBlocks(n) = Q
  BY DEF RequiredBlocks
<1> HIDE DEF Q, R, B, M
<1>5. Q <= M
  <2> SUFFICES ASSUME Q >= M + 1 PROVE FALSE
    BY <1>1, <1>3
  <2>1. B * (M + 1) <= B * Q
    BY <1>1, <1>3
  <2>2. B * (M + 1) = M * B + B /\ B * Q \in Nat /\ M * B \in Nat
    BY <1>1, <1>3
  <2> QED
    BY <1>1, <1>3, <2>1, <2>2
<1> QED
  BY <1>3, <1>4, <1>5 DEF M

\* Blocks are handed out one after the other, and none twice.
LEMMA FreeBlockIs ==
  ASSUME NEW k \in 1 .. Cardinality(FreeBlocks)
  PROVE  FreeBlock(k) \in FreeBlocks /\ Cardinality({c \in FreeBlocks : c < FreeBlock(k)}) = k - 1
<1> DEFINE F == FreeBlocks
           n == Cardinality(F)
           Lower(b) == {c \in F : c < b}
           rank == [b \in F |-> Cardinality(Lower(b))]
<1>1. F \subseteq Nat /\ IsFiniteSet(F) /\ n \in Nat
  <2>1. F \subseteq 1 .. DataBlocks /\ DataBlocks \in Int
    BY MinixfsAssumption DEF FreeBlocks
  <2>2. IsFiniteSet(1 .. DataBlocks)
    BY <2>1, FS_Interval
  <2> HIDE DEF F
  <2>3. IsFiniteSet(F)
    BY <2>1, <2>2, FS_Subset
  <2> QED
    BY <2>1, <2>3, FS_CardinalityType
<1> HIDE DEF F
<1>2. \A b \in F : IsFiniteSet(Lower(b)) /\ Cardinality(Lower(b)) \in Nat
  <2> TAKE b \in F
  <2>1. Lower(b) \in SUBSET F
    OBVIOUS
  <2> QED
    BY <1>1, <2>1, FS_Subset, FS_CardinalityType
<1>3. \A b \in F : Cardinality(Lower(b)) < n
  <2> TAKE b \in F
  <2>1. Lower(b) \in SUBSET F /\ Lower(b) # F
    BY <1>1
  <2>2. Cardinality(Lower(b)) <= n /\ Cardinality(Lower(b)) # n
    BY <1>1, <2>1, FS_Subset
  <2> QED
    BY <1>1, <1>2, <2>2
<1>4. \A b, c \in F : b < c => Cardinality(Lower(b)) < Cardinality(Lower(c))
  <2> SUFFICES ASSUME NEW b \in F, NEW c \in F, b < c PROVE Cardinality(Lower(b)) < Cardinality(Lower(c))
    OBVIOUS
  <2>1. Lower(b) \in SUBSET Lower(c) /\ Lower(b) # Lower(c)
    <3>1. b \in Lower(c) /\ b \notin Lower(b)
      BY <1>1
    <3>2. \A d \in Lower(b) : d \in Lower(c)
      BY <1>1
    <3> HIDE DEF Lower
    <3> QED
      BY <3>1, <3>2
  <2>2. Cardinality(Lower(b)) <= Cardinality(Lower(c)) /\ Cardinality(Lower(b)) # Cardinality(Lower(c))
    BY <1>2, <2>1, FS_Subset
  <2> QED
    BY <1>2, <2>2
<1> DEFINE N == 0 .. n - 1
<1>5. rank \in Injection(F, N)
  <2>1. rank \in [F -> N]
    BY <1>1, <1>2, <1>3
  <2>2. ASSUME NEW b \in F, NEW c \in F, rank[b] = rank[c] PROVE b = c
    <3>1. ~(b < c) /\ ~(c < b)
      BY <1>2, <1>4, <2>2
    <3> QED
      BY <1>1, <3>1
  <2> HIDE DEF rank, N
  <2> QED
    BY <2>1, <2>2 DEF Injection, IsInjective
<1>6. rank \in Surjection(F, N)
  <2>1. IsFiniteSet(N) /\ Cardinality(N) = n
    <3>1. n - 1 \in Int /\ 0 \in Int
      BY <1>1
    <3>2. IsFiniteSet(N) /\ Cardinality(N) = IF 0 > n - 1 THEN 0 ELSE (n - 1) - 0 + 1
      BY <3>1, FS_Interval
    <3> HIDE DEF N, n
    <3> QED
      BY <1>1, <3>2
  <2> HIDE DEF rank, N
  <2> QED
    BY <1>5, <2>1, FS_Injection
<1>7. \E b \in F : Cardinality(Lower(b)) = k - 1
  <2>1. k - 1 \in N
    BY <1>1 DEF F
  <2> HIDE DEF N
  <2>2. \E b \in F : rank[b] = k - 1
    <3> HIDE DEF rank
    <3> QED
      BY <1>6, <2>1 DEF Surjection
  <2> QED
    BY <2>2
<1> QED
  BY <1>7 DEF FreeBlock, F


\* File f has the blocks of i, and others that were free.
GrownFrom(i, f) ==
  /\ f \in FileType /\ f.size = i.size /\ Len(i.blocks) <= Len(f.blocks)
  /\ \A j \in 1 .. Len(i.blocks) : f.blocks[j] = i.blocks[j]
  /\ \A j \in Len(i.blocks) + 1 .. Len(f.blocks) : f.blocks[j] \in FreeBlocks
  /\ \A j, k \in Len(i.blocks) + 1 .. Len(f.blocks) : f.blocks[j] = f.blocks[k] => j = k

LEMMA GrownRight ==
  ASSUME NEW i \in FileType, NEW k \in Nat, Enough(i, k)
  PROVE  GrownFrom(i, FileGrown(i, k)) /\ Len(FileGrown(i, k).blocks) = Len(i.blocks) + k
<1> DEFINE D == 1 .. DataBlocks
           s == i.blocks
           more == [j \in 1 .. k |-> FreeBlock(j)]
           n == Len(s)
           ind == IF NewIndirect(i, k) THEN FreeBlock(k + 1) ELSE i.indirect
           f == FileGrown(i, k)
           C == Cardinality(FreeBlocks)
<1>1. s \in Seq(D) /\ i.indirect \in 0 .. DataBlocks /\ n \in Nat /\ DataBlocks \in Nat
  BY MinixfsAssumption DEF FileType
<1>2. C \in Nat
  <2>1. FreeBlocks \subseteq 1 .. DataBlocks /\ IsFiniteSet(1 .. DataBlocks)
    BY <1>1, FS_Interval DEF FreeBlocks
  <2> QED
    BY <2>1, FS_Subset, FS_CardinalityType
<1>3. k <= C /\ (NewIndirect(i, k) => k + 1 <= C)
  BY <1>2 DEF Enough
<1>4. \A j \in 1 .. C : FreeBlock(j) \in FreeBlocks /\ Cardinality({c \in FreeBlocks : c < FreeBlock(j)}) = j - 1
  BY FreeBlockIs
<1>5. \A j \in 1 .. k : j \in 1 .. C
  BY <1>2, <1>3
<1>6. FreeBlocks \subseteq D
  BY DEF FreeBlocks
<1>7. more \in Seq(D) /\ Len(more) = k /\ \A j \in 1 .. k : more[j] = FreeBlock(j) /\ more[j] \in FreeBlocks
  <2>1. \A j \in 1 .. k : FreeBlock(j) \in FreeBlocks /\ FreeBlock(j) \in D
    BY <1>4, <1>5, <1>6
  <2> HIDE DEF D
  <2> QED
    BY <2>1
<1>8. \A j, l \in 1 .. k : more[j] = more[l] => j = l
  <2> SUFFICES ASSUME NEW j \in 1 .. k, NEW l \in 1 .. k, more[j] = more[l] PROVE j = l
    OBVIOUS
  <2>1. FreeBlock(j) = FreeBlock(l)
    BY <1>7
  <2>2. j - 1 = l - 1
    BY <1>4, <1>5, <2>1
  <2> QED
    BY <2>2
<1>9. ind \in 0 .. DataBlocks
  <2>1. CASE NewIndirect(i, k)
    <3>1. k + 1 \in 1 .. C
      BY <1>2, <1>3, <2>1
    <3>2. FreeBlock(k + 1) \in D
      BY <1>4, <1>6, <3>1
    <3> QED
      BY <1>1, <2>1, <3>2
  <2>2. CASE ~NewIndirect(i, k)
    BY <1>1, <2>2
  <2> QED
    BY <2>1, <2>2
<1> HIDE DEF more, D, ind
<1>10. /\ s \o more \in Seq(D) /\ Len(s \o more) = n + k
       /\ \A j \in 1 .. n + k : (s \o more)[j] = IF j <= n THEN s[j] ELSE more[j - n]
  <2> HIDE DEF s, n
  <2>1. /\ s \o more \in Seq(D) /\ Len(s \o more) = Len(s) + Len(more)
        /\ \A j \in 1 .. Len(s) + Len(more) : (s \o more)[j] = IF j <= Len(s) THEN s[j] ELSE more[j - Len(s)]
    BY <1>1, <1>7, ConcatProperties
  <2> QED
    BY <1>7, <2>1 DEF n
<1>11. f = [i EXCEPT !.blocks = s \o more, !.indirect = ind]
  BY DEF FileGrown, more, ind
<1> HIDE DEF f
<1>12. f \in FileType /\ f.size = i.size /\ f.blocks = s \o more
  BY <1>9, <1>10, <1>11 DEF FileType, D
<1> HIDE DEF s, n
<1>13. \A j \in n + 1 .. n + k : f.blocks[j] = more[j - n] /\ j - n \in 1 .. k
  <2> SUFFICES ASSUME NEW j \in n + 1 .. n + k PROVE f.blocks[j] = more[j - n] /\ j - n \in 1 .. k
    OBVIOUS
  <2>1. n \in Nat /\ k \in Nat
    BY <1>1
  <2>2. j \in 1 .. n + k /\ ~(j <= n) /\ j - n \in 1 .. k
    BY <2>1
  <2>3. (s \o more)[j] = more[j - n]
    BY <1>10, <2>2, Zenon
  <2> QED
    BY <1>12, <2>2, <2>3
<1>14. \A j \in 1 .. n : f.blocks[j] = s[j]
  <2> SUFFICES ASSUME NEW j \in 1 .. n PROVE f.blocks[j] = s[j]
    OBVIOUS
  <2>1. n \in Nat /\ k \in Nat
    BY <1>1
  <2>2. j \in 1 .. n + k /\ j <= n
    BY <2>1
  <2>3. (s \o more)[j] = s[j]
    BY <1>10, <2>2, Zenon
  <2> QED
    BY <1>12, <2>3
<1>15. Len(f.blocks) = n + k /\ n <= n + k
  BY <1>1, <1>10, <1>12
<1>16. \A j \in n + 1 .. n + k : f.blocks[j] \in FreeBlocks
  BY <1>7, <1>13
<1>17. \A j, l \in n + 1 .. n + k : f.blocks[j] = f.blocks[l] => j = l
  BY <1>1, <1>8, <1>13
<1> QED
  BY <1>12, <1>14, <1>15, <1>16, <1>17 DEF GrownFrom, f, s, n

LEMMA OutcomeRight ==
  ASSUME NEW i \in FileType, NEW n \in Nat, NEW outcome \in minixfs_min_blockcount(i, n)
  PROVE  /\ GrownFrom(i, outcome.file) /\ (outcome.ok => n <= Len(outcome.file.blocks))
         /\ Len(outcome.file.blocks) <= n \/ Len(outcome.file.blocks) = Len(i.blocks)
<1> DEFINE more == IF n > Len(i.blocks) THEN n - Len(i.blocks) ELSE 0
<1>1. /\ Len(i.blocks) \in Nat /\ more \in Nat /\ n <= Len(i.blocks) + more
      /\ more = 0 \/ Len(i.blocks) + more = n
  BY DEF FileType
<1> HIDE DEF more
<1>2. CASE Enough(i, more)
  <2>1. outcome = [ok |-> TRUE, file |-> FileGrown(i, more)]
    BY <1>2 DEF minixfs_min_blockcount, more
  <2> QED
    BY <1>1, <1>2, <2>1, GrownRight
<1>3. CASE ~Enough(i, more)
  <2>1. PICK k \in 0 .. more - 1 : Enough(i, k) /\ outcome = [ok |-> FALSE, file |-> FileGrown(i, k)]
    BY <1>3 DEF minixfs_min_blockcount, more
  <2> QED
    BY <1>1, <2>1, GrownRight
<1> QED
  BY <1>2, <1>3

\* The file that a call finds or makes.
FileOf(p, i) ==
  i \in FileType /\ IF p \in Existing THEN i = inode[p] ELSE i.blocks = <<>> /\ i.size = 0

LEMMA GrownOwns ==
  ASSUME FsTypes, BlocksOwned, NEW p, NEW i, FileOf(p, i), NEW f, GrownFrom(i, f),
         NEW h, h.blocks = f.blocks, inode' = With(inode, p, h)
  PROVE  BlocksOwned'
<1> DEFINE n == Len(i.blocks)
           m == Len(f.blocks)
<1>1. /\ Existing' = Existing \cup {p} /\ inode'[p].blocks = f.blocks
      /\ \A q \in Existing : q # p => inode'[q] = inode[q]
  BY DEF With, Existing
<1>2. n \in Nat /\ m \in Nat /\ n <= m
  BY DEF FileOf, GrownFrom, FileType
<1>3. \A q \in Existing : \A k \in 1 .. Len(inode[q].blocks) : inode[q].blocks[k] \notin FreeBlocks
  <2> TAKE q \in Existing
  <2> TAKE k \in 1 .. Len(inode[q].blocks)
  <2>1. inode[q].blocks[k] \in Range(inode[q].blocks)
    BY DEF FsTypes, FileType, Range
  <2> QED
    BY <2>1 DEF FreeBlocks
<1>4. ASSUME NEW j \in 1 .. m
      PROVE  \/ f.blocks[j] \in FreeBlocks /\ j \in n + 1 .. m
             \/ p \in Existing /\ j \in 1 .. Len(inode[p].blocks) /\ f.blocks[j] = inode[p].blocks[j] /\ j \in 1 .. n
  <2>1. CASE j <= n
    <3>1. j \in 1 .. n /\ f.blocks[j] = i.blocks[j]
      BY <1>2, <2>1 DEF GrownFrom
    <3>2. p \in Existing /\ i.blocks = inode[p].blocks
      BY <3>1 DEF FileOf
    <3> QED
      BY <3>1, <3>2
  <2>2. CASE j > n
    BY <1>2, <2>2 DEF GrownFrom
  <2> QED
    BY <1>2, <2>1, <2>2
<1>5. \A j, k \in 1 .. m : f.blocks[j] = f.blocks[k] => j = k
  <2> SUFFICES ASSUME NEW j \in 1 .. m, NEW k \in 1 .. m, f.blocks[j] = f.blocks[k] PROVE j = k
    OBVIOUS
  <2>1. CASE f.blocks[j] \in FreeBlocks
    <3>1. j \in n + 1 .. m /\ k \in n + 1 .. m
      BY <1>3, <1>4, <2>1
    <3> QED
      BY <3>1 DEF GrownFrom
  <2>2. CASE f.blocks[j] \notin FreeBlocks
    BY <1>4, <2>2 DEF BlocksOwned
  <2> QED
    BY <2>1, <2>2
<1>6. \A q \in Existing : q # p => \A j \in 1 .. m, k \in 1 .. Len(inode[q].blocks) : f.blocks[j] # inode[q].blocks[k]
  BY <1>3, <1>4 DEF BlocksOwned
<1>7. ASSUME NEW q \in Existing', NEW r \in Existing',
             NEW j \in 1 .. Len(inode'[q].blocks), NEW k \in 1 .. Len(inode'[r].blocks),
             inode'[q].blocks[j] = inode'[r].blocks[k]
      PROVE  q = r /\ j = k
  <2>1. CASE q = p /\ r = p
    BY <1>1, <1>5, <1>7, <2>1
  <2>2. CASE q = p /\ r # p
    BY <1>1, <1>6, <1>7, <2>2
  <2>3. CASE q # p /\ r = p
    BY <1>1, <1>6, <1>7, <2>3
  <2>4. CASE q # p /\ r # p
    BY <1>1, <1>7, <2>4 DEF BlocksOwned
  <2> QED
    BY <2>1, <2>2, <2>3, <2>4
<1> QED
  BY <1>7 DEF BlocksOwned


\* From a block boundary on, writing and reading use the bytes of the file.
LEMMA AlignedCells ==
  ASSUME NEW off \in Nat, off % block_size = 0, NEW f \in FileType, NEW m \in Nat,
         (off + m) \div block_size < Len(f.blocks)
  PROVE  /\ WriteCell(f, off, m) = CellOf(f, off + m) /\ ReadCell(f, off, m) = CellOf(f, off + m)
         /\ CellOf(f, off + m) \in Cells
<1> DEFINE j == (off + m) \div block_size + 1
           b == f.blocks[j]
<1>1. off + m \in Nat
  OBVIOUS
<1>2. (off + m) \div block_size \in Nat /\ (off + m) % block_size \in 0 .. block_size - 1
  BY <1>1, Quotient
<1>3. f.blocks \in Seq(1 .. DataBlocks) /\ DataBlocks \in Nat
  BY MinixfsAssumption DEF FileType
<1>4. j \in 1 .. Len(f.blocks)
  BY <1>2, <1>3
<1>5. b \in 1 .. DataBlocks
  <2> HIDE DEF j
  <2> QED
    BY <1>3, <1>4, ElementOfSeq
<1>6. b \in Nat
  <2> HIDE DEF b
  <2> QED
    BY <1>3, <1>5
<1>7. help_datablock(f, off, m) = b
  <2>1. help_datablock(f, off, m) = b + 0
    BY DEF help_datablock
  <2> HIDE DEF b
  <2> QED
    BY <1>6, <2>1
<1>8. First(off, m) => (off + m) % block_size = m
  BY AlignedPlace DEF First
<1> QED
  BY <1>2, <1>5, <1>7, <1>8 DEF WriteCell, ReadCell, CellOf, Cells

LEMMA WrittenTypes ==
  ASSUME FsTypes, NEW p, NEW x \in Bytes, NEW off \in Nat, NEW n \in Nat, NEW f \in FileType,
         off + n <= max_size, Written(p, x, off, n, f), fs_status = "ok"
  PROVE  /\ FsTypes' /\ Existing' = Existing \cup {p}
         /\ inode'[p] \in FileType
         /\ inode'[p].blocks = f.blocks /\ inode'[p].size = f.size + n
         /\ \A q \in Existing : q # p => inode'[q] = inode[q] /\ expected'[q] = expected[q]
         /\ expected'[p] = [k \in Offsets |-> IF k \in off .. off + n - 1 THEN x ELSE Expected(p)[k]]
<1> DEFINE h == [f EXCEPT !.size = @ + n]
           e == [k \in Offsets |-> IF k \in off .. off + n - 1 THEN x ELSE Expected(p)[k]]
<1>1. inode' = With(inode, p, h) /\ expected' = With(expected, p, e)
  BY DEF Written
<1>2. h \in FileType /\ h.blocks = f.blocks /\ h.size = f.size + n
  BY DEF FileType
<1>3. Expected(p) \in [Offsets -> Bytes \cup {UNWRITTEN}]
  BY DEF Expected, FsTypes
<1>4. e \in [Offsets -> Bytes \cup {UNWRITTEN}]
  BY <1>3
<1> HIDE DEF h, e
<1>5. /\ Existing' = Existing \cup {p} /\ DOMAIN expected' = Existing \cup {p}
      /\ inode'[p] = h /\ expected'[p] = e
      /\ \A q \in Existing : q # p => inode'[q] = inode[q] /\ expected'[q] = expected[q]
  BY <1>1 DEF With, Existing, FsTypes
<1>6. disk' \in [Cells -> Bytes \cup {UNWRITTEN}]
  BY DEF Written, FsTypes
<1>7. fs_status' \in {"ok", "wild"} /\ strayed' \in BOOLEAN /\ miscounted' \in BOOLEAN
  BY DEF Written, FsTypes
<1>8. \A q \in Existing' : inode'[q] \in FileType /\ expected'[q] \in [Offsets -> Bytes \cup {UNWRITTEN}]
  BY <1>2, <1>4, <1>5 DEF FsTypes
<1>9. FsTypes'
  BY <1>5, <1>6, <1>7, <1>8 DEF FsTypes
<1> QED
  BY <1>2, <1>5, <1>9 DEF h, e

LEMMA WrittenBytes ==
  ASSUME FsTypes, BytesKept, BlocksOwned', NEW p, NEW x \in Bytes, NEW off \in Nat, NEW n \in Nat,
         NEW i, FileOf(p, i), NEW f, GrownFrom(i, f), RequiredBlocks(off + n) <= Len(f.blocks),
         off + n <= max_size, Written(p, x, off, n, f), fs_status = "ok"
  PROVE  BytesKept'
<1> SUFFICES ASSUME fs_status' = "ok", ~strayed', NEW q \in Existing', NEW k \in Offsets, expected'[q][k] # UNWRITTEN
             PROVE  k \div block_size < Len(inode'[q].blocks) /\ disk'[CellOf(inode'[q], k)] = expected'[q][k]
  BY DEF BytesKept
<1> DEFINE cells == {WriteCell(f, off, m) : m \in 0 .. n - 1}
<1>1. f \in FileType /\ Len(f.blocks) \in Nat /\ off % block_size = 0 /\ ~strayed
      /\ disk' = [c \in DOMAIN disk |-> IF c \in cells THEN x ELSE disk[c]]
  <2>1. f \in FileType /\ Len(f.blocks) \in Nat
    BY DEF GrownFrom, FileType
  <2>2. strayed' = (strayed \/ off % block_size # 0)
    BY DEF Written
  <2>3. \/ disk' = [c \in DOMAIN disk |-> IF c \in cells THEN x ELSE disk[c]]
        \/ fs_status' = "wild"
    BY DEF Written
  <2> HIDE DEF cells
  <2> QED
    BY <2>1, <2>2, <2>3
<1>2. /\ FsTypes' /\ Existing' = Existing \cup {p} /\ inode'[p] \in FileType /\ inode'[p].blocks = f.blocks
      /\ \A r \in Existing : r # p => inode'[r] = inode[r] /\ expected'[r] = expected[r]
      /\ expected'[p] = [l \in Offsets |-> IF l \in off .. off + n - 1 THEN x ELSE Expected(p)[l]]
  <2>1. f \in FileType
    BY DEF GrownFrom
  <2>2. /\ FsTypes' /\ Existing' = Existing \cup {p}
        /\ inode'[p] \in FileType
        /\ inode'[p].blocks = f.blocks /\ inode'[p].size = f.size + n
        /\ \A r \in Existing : r # p => inode'[r] = inode[r] /\ expected'[r] = expected[r]
        /\ expected'[p] = [l \in Offsets |-> IF l \in off .. off + n - 1 THEN x ELSE Expected(p)[l]]
    BY <2>1, WrittenTypes, SMTT(30)
  <2> QED
    BY <2>2
<1>3. k \in Nat /\ k \div block_size \in Nat
  BY MaxSizeType, Quotient
<1>4. \A m \in 0 .. n - 1 : /\ (off + m) \div block_size \in Nat /\ (off + m) \div block_size < Len(f.blocks)
                            /\ WriteCell(f, off, m) = CellOf(f, off + m) /\ CellOf(f, off + m) \in Cells
  <2> TAKE m \in 0 .. n - 1
  <2>1. off + m \in Nat /\ off + n \in Nat /\ off + m < off + n /\ m \in Nat
    OBVIOUS
  <2>2. RequiredBlocks(off + n) \in Nat /\ (off + m) \div block_size < RequiredBlocks(off + n)
    BY <2>1, RequiredEnough
  <2>3. (off + m) \div block_size \in Nat
    BY <2>1, Quotient
  <2>4. (off + m) \div block_size < Len(f.blocks)
    BY <1>1, <2>2, <2>3
  <2> QED
    BY <1>1, <2>1, <2>3, <2>4, AlignedCells
<1>5. DOMAIN disk = Cells
  BY DEF FsTypes
<1> HIDE DEF cells
\* Another byte of a file is in another place than those that are written.
<1>6. ASSUME k \div block_size < Len(inode'[q].blocks), CellOf(inode'[q], k) \in cells
      PROVE  q = p /\ k \in off .. off + n - 1
  <2>1. PICK m \in 0 .. n - 1 : CellOf(inode'[q], k) = CellOf(f, off + m)
    BY <1>4, <1>6 DEF cells
  <2> DEFINE l == off + m
             j == k \div block_size + 1
             r == l \div block_size + 1
  <2>2. l \in Nat /\ l \div block_size \in Nat /\ l \div block_size < Len(f.blocks)
    <3>1. l \in Nat
      OBVIOUS
    <3> QED
      BY <1>4, <3>1
  <2>3. inode'[q].blocks[j] = f.blocks[r] /\ k % block_size = l % block_size
    BY <2>1 DEF CellOf
  <2>4. j \in 1 .. Len(inode'[q].blocks) /\ r \in 1 .. Len(inode'[p].blocks) /\ p \in Existing'
    <3>1. Len(inode'[q].blocks) \in Nat
      BY <1>2 DEF FsTypes, FileType
    <3> HIDE DEF l
    <3> QED
      BY <1>1, <1>2, <1>3, <1>6, <2>2, <3>1
  <2>5. q = p /\ j = r
    <3>1. BlocksOwned' /\ q \in Existing' /\ f.blocks = inode'[p].blocks
      BY <1>2
    <3> HIDE DEF j, r
    <3>2. inode'[q].blocks[j] = inode'[p].blocks[r]
      BY <2>3, <3>1
    <3> QED
      BY <2>4, <3>1, <3>2, SMTT(30) DEF BlocksOwned
  <2>6. k \div block_size = l \div block_size
    BY <1>3, <2>2, <2>5
  <2>7. k = l
    <3> HIDE DEF l
    <3> QED
      BY <1>3, <2>2, <2>3, <2>6, SamePlace
  <2> QED
    BY <2>5, <2>7
<1>7. CASE q = p /\ k \in off .. off + n - 1
  <2> DEFINE m == k - off
  <2>1. m \in 0 .. n - 1 /\ off + m = k
    BY <1>3, <1>7
  <2> HIDE DEF m
  <2>2. k \div block_size < Len(f.blocks) /\ CellOf(f, k) \in cells /\ CellOf(f, k) \in Cells
    BY <1>4, <2>1 DEF cells
  <2>3. CellOf(inode'[q], k) = CellOf(f, k)
    BY <1>2, <1>7 DEF CellOf
  <2>4. disk'[CellOf(f, k)] = x
    BY <1>1, <1>5, <2>2
  <2>5. expected'[q][k] = x
    BY <1>2, <1>7
  <2> QED
    BY <1>2, <1>7, <2>2, <2>3, <2>4, <2>5
<1>8. CASE ~(q = p /\ k \in off .. off + n - 1)
  <2>1. q \in Existing /\ expected'[q][k] = expected[q][k]
    <3>1. CASE q = p
      <4>1. expected'[p][k] = Expected(p)[k]
        BY <1>2, <1>8, <3>1
      <4> QED
        BY <3>1, <4>1 DEF Expected
    <3>2. CASE q # p
      BY <1>2, <3>2
    <3> QED
      BY <3>1, <3>2
  <2>2. k \div block_size < Len(inode[q].blocks) /\ disk[CellOf(inode[q], k)] = expected[q][k]
    BY <1>1, <2>1 DEF BytesKept
  <2>3. k \div block_size < Len(inode'[q].blocks) /\ CellOf(inode'[q], k) = CellOf(inode[q], k)
    <3>1. CASE q = p
      <4>1. i = inode[q]
        BY <2>1, <3>1 DEF FileOf
      <4>2. Len(i.blocks) \in Nat
        BY DEF FileOf, FileType
      <4>3. k \div block_size + 1 \in 1 .. Len(i.blocks) /\ k \div block_size < Len(f.blocks)
        BY <1>1, <1>3, <2>2, <4>1, <4>2 DEF GrownFrom
      <4>4. f.blocks[k \div block_size + 1] = i.blocks[k \div block_size + 1]
        BY <4>3 DEF GrownFrom
      <4> QED
        BY <1>2, <3>1, <4>1, <4>3, <4>4 DEF CellOf
    <3>2. CASE q # p
      BY <1>2, <2>1, <2>2, <3>2
    <3> QED
      BY <3>1, <3>2
  <2>4. CellOf(inode'[q], k) \notin cells
    BY <1>6, <1>8, <2>3
  <2>5. CellOf(inode[q], k) \in Cells
    <3>1. inode[q] \in FileType /\ inode[q].blocks \in Seq(1 .. DataBlocks) /\ Len(inode[q].blocks) \in Nat
      BY <2>1 DEF FsTypes, FileType
    <3>2. k \div block_size + 1 \in 1 .. Len(inode[q].blocks)
      BY <1>3, <2>2, <3>1
    <3>3. inode[q].blocks[k \div block_size + 1] \in 1 .. DataBlocks
      BY <3>1, <3>2, ElementOfSeq
    <3>4. k % block_size \in 0 .. block_size - 1
      BY <1>3, Quotient
    <3> QED
      BY <3>3, <3>4 DEF CellOf, Cells
  <2> QED
    BY <1>1, <1>5, <2>1, <2>2, <2>3, <2>4, <2>5
<1> QED
  BY <1>7, <1>8


LEMMA WrittenSizes ==
  ASSUME FsTypes, SizesCounted, NEW p, NEW x \in Bytes, NEW off \in Nat, NEW n \in Nat,
         NEW i, FileOf(p, i), NEW f, GrownFrom(i, f),
         off + n <= max_size, Written(p, x, off, n, f), fs_status = "ok"
  PROVE  SizesCounted'
<1>2. /\ FsTypes' /\ Existing' = Existing \cup {p}
      /\ inode'[p] \in FileType
      /\ inode'[p].blocks = f.blocks /\ inode'[p].size = f.size + n
      /\ \A r \in Existing : r # p => inode'[r] = inode[r] /\ expected'[r] = expected[r]
      /\ expected'[p] = [l \in Offsets |-> IF l \in off .. off + n - 1 THEN x ELSE Expected(p)[l]]
  <2>1. f \in FileType
    BY DEF GrownFrom
  <2> QED
    BY <2>1, WrittenTypes
<1> SUFFICES ASSUME ~miscounted', NEW q \in Existing'
             PROVE  {k \in Offsets : expected'[q][k] # UNWRITTEN} = 0 .. inode'[q].size - 1
  BY DEF SizesCounted
<1>1. ~miscounted /\ off = f.size /\ f.size = i.size
  <2>1. miscounted' = (miscounted \/ off # f.size)
    BY DEF Written
  <2> QED
    BY <2>1 DEF GrownFrom
<1>3. CASE q # p
  BY <1>1, <1>2, <1>3 DEF SizesCounted
<1>4. CASE q = p
  <2>1. \A k \in Offsets : Expected(p)[k] # UNWRITTEN <=> k \in 0 .. off - 1
    <3>1. CASE p \in Existing
      <4>1. {k \in Offsets : expected[p][k] # UNWRITTEN} = 0 .. off - 1
        BY <1>1, <3>1 DEF SizesCounted, FileOf
      <4>2. Expected(p) = expected[p]
        BY <3>1 DEF Expected
      <4> QED
        BY <4>1, <4>2
    <3>2. CASE p \notin Existing
      <4>1. off = 0
        BY <1>1, <3>2 DEF FileOf
      <4>2. \A k \in Offsets : Expected(p)[k] = UNWRITTEN
        BY <3>2 DEF Expected
      <4> QED
        BY <4>1, <4>2
    <3> QED
      BY <3>1, <3>2
  <2>2. x # UNWRITTEN
    BY MinixfsAssumption
  <2>3. \A k \in Offsets : expected'[p][k] # UNWRITTEN <=> k \in 0 .. off + n - 1
    <3> TAKE k \in Offsets
    <3>1. k \in Nat /\ expected'[p][k] = IF k \in off .. off + n - 1 THEN x ELSE Expected(p)[k]
      BY <1>2, MaxSizeType
    <3> QED
      BY <2>1, <2>2, <3>1
  <2>4. 0 .. off + n - 1 \subseteq Offsets
    BY MaxSizeType DEF Offsets
  <2>5. inode'[q].size = off + n
    BY <1>1, <1>2, <1>4
  <2> QED
    BY <1>4, <2>3, <2>4, <2>5
<1> QED
  BY <1>3, <1>4

LEMMA WrittenKeeps ==
  ASSUME FsInv, NEW p, NEW x \in Bytes, NEW off \in Nat, NEW n \in Nat,
         NEW i, FileOf(p, i), NEW f, GrownFrom(i, f), RequiredBlocks(off + n) <= Len(f.blocks),
         Len(f.blocks) <= MostBlocks,
         off + n <= max_size, Written(p, x, off, n, f), fs_status = "ok"
  PROVE  FsInv'
<1>1. f \in FileType /\ FsTypes /\ BlocksOwned /\ BlocksFit /\ BytesKept /\ SizesCounted
  BY DEF GrownFrom, FsInv
<1>2. FsTypes'
  BY <1>1, WrittenTypes
<1>3. BlocksOwned'
  <2> DEFINE h == [f EXCEPT !.size = @ + n]
  <2>1. inode' = With(inode, p, h) /\ h.blocks = f.blocks
    BY <1>1 DEF Written, FileType
  <2> HIDE DEF h
  <2> QED
    BY <1>1, <2>1, GrownOwns
<1>4. BytesKept'
  BY <1>1, <1>3, WrittenBytes
<1>5. SizesCounted'
  BY <1>1, WrittenSizes
<1>6. BlocksFit'
  <2>1. /\ FsTypes' /\ Existing' = Existing \cup {p}
        /\ inode'[p] \in FileType
        /\ inode'[p].blocks = f.blocks /\ inode'[p].size = f.size + n
        /\ \A q \in Existing : q # p => inode'[q] = inode[q] /\ expected'[q] = expected[q]
        /\ expected'[p] = [k \in Offsets |-> IF k \in off .. off + n - 1 THEN x ELSE Expected(p)[k]]
    BY <1>1, WrittenTypes
  <2> QED
    BY <1>1, <2>1 DEF BlocksFit, MostBlocks
<1> QED
  BY <1>2, <1>3, <1>4, <1>5, <1>6 DEF FsInv

\* A file that is made, or gets blocks, without a byte written.
LEMMA NothingWritten ==
  ASSUME FsInv, NEW p, NEW i, FileOf(p, i), NEW f, GrownFrom(i, f), Len(f.blocks) <= MostBlocks,
         inode' = With(inode, p, f), expected' = With(expected, p, Expected(p)),
         UNCHANGED <<disk, strayed, miscounted>>, fs_status' \in {"ok", "wild"}, fs_status = "ok"
  PROVE  FsInv'
<1>1. f \in FileType /\ f.size = i.size /\ FsTypes /\ BlocksOwned
  BY DEF GrownFrom, FsInv
<1>2. /\ Existing' = Existing \cup {p} /\ inode'[p] = f /\ expected'[p] = Expected(p)
      /\ \A q \in Existing : q # p => inode'[q] = inode[q] /\ expected'[q] = expected[q]
      /\ DOMAIN expected' = Existing \cup {p}
  BY <1>1 DEF With, Existing, FsTypes
<1>3. Expected(p) \in [Offsets -> Bytes \cup {UNWRITTEN}]
  BY <1>1 DEF Expected, FsTypes
<1>4. FsTypes'
  BY <1>1, <1>2, <1>3 DEF FsTypes
<1>5. BlocksOwned'
  BY <1>1, GrownOwns
<1>6. BytesKept'
  <2> SUFFICES ASSUME strayed = FALSE, NEW q \in Existing', NEW k \in Offsets, expected'[q][k] # UNWRITTEN
               PROVE  k \div block_size < Len(inode'[q].blocks) /\ disk[CellOf(inode'[q], k)] = expected'[q][k]
    BY <1>1 DEF BytesKept, FsTypes
  <2>1. CASE q # p
    BY <1>2, <2>1 DEF FsInv, BytesKept
  <2>2. CASE q = p
    <3>1. p \in Existing /\ expected'[p] = expected[p] /\ i = inode[p]
      BY <1>2, <2>2 DEF Expected, FileOf
    <3>2. k \div block_size < Len(i.blocks) /\ disk[CellOf(i, k)] = expected[p][k]
      BY <2>2, <3>1 DEF FsInv, BytesKept
    <3>3. k \div block_size \in Nat /\ Len(i.blocks) \in Nat /\ Len(f.blocks) \in Nat /\ Len(i.blocks) <= Len(f.blocks)
      <4>1. k \in Nat
        BY MaxSizeType
      <4>2. k \div block_size \in Nat
        BY <4>1, Quotient
      <4>3. i.blocks \in Seq(1 .. DataBlocks) /\ f.blocks \in Seq(1 .. DataBlocks) /\ Len(i.blocks) <= Len(f.blocks)
        BY DEF FileOf, GrownFrom, FileType
      <4> QED
        BY <4>2, <4>3
    <3>4. k \div block_size + 1 \in 1 .. Len(i.blocks)
      BY <3>2, <3>3
    <3>5. CellOf(f, k) = CellOf(i, k)
      BY <3>4 DEF GrownFrom, CellOf
    <3> QED
      BY <1>2, <2>2, <3>1, <3>2, <3>3, <3>5
  <2> QED
    BY <2>1, <2>2
<1>7. SizesCounted'
  <2> SUFFICES ASSUME ~miscounted, NEW q \in Existing'
               PROVE  {k \in Offsets : expected'[q][k] # UNWRITTEN} = 0 .. inode'[q].size - 1
    BY DEF SizesCounted
  <2>1. CASE q \in Existing
    BY <1>1, <1>2, <2>1 DEF FsInv, SizesCounted, Expected, FileOf
  <2>2. CASE q \notin Existing
    <3>1. q = p /\ inode'[q].size = 0 /\ expected'[q] = [k \in Offsets |-> UNWRITTEN]
      BY <1>1, <1>2, <2>2 DEF Expected, FileOf
    <3> QED
      BY <3>1
  <2> QED
    BY <2>1, <2>2
<1>8. BlocksFit'
  BY <1>2 DEF FsInv, BlocksFit, MostBlocks
<1> QED
  BY <1>4, <1>5, <1>6, <1>7, <1>8 DEF FsInv

\* Attributes, and reads.
LEMMA NoFileChanged ==
  ASSUME FsInv, Existing' = Existing, UNCHANGED <<disk, strayed, miscounted, expected>>,
         fs_status' \in {"ok", "wild"}, fs_status = "ok",
         \A q \in Existing : /\ inode'[q] \in FileType
                             /\ inode'[q].blocks = inode[q].blocks /\ inode'[q].size = inode[q].size
  PROVE  FsInv'
<1>1. FsTypes'
  BY DEF FsInv, FsTypes
<1>2. BlocksOwned'
  BY SMTT(30) DEF FsInv, BlocksOwned
<1>3. BytesKept'
  BY DEF FsInv, BytesKept, CellOf
<1>4. SizesCounted'
  BY DEF FsInv, SizesCounted
<1>5. BlocksFit'
  BY DEF FsInv, BlocksFit, MostBlocks
<1> QED
  BY <1>1, <1>2, <1>3, <1>4, <1>5 DEF FsInv


LEMMA NewFile ==
  NewInode \in FileType /\ NewInode.blocks = <<>> /\ NewInode.size = 0
<1>1. <<>> \in Seq(1 .. DataBlocks) /\ 0 \in 0 .. DataBlocks
  BY MinixfsAssumption
<1> QED
  BY <1>1 DEF NewInode, FileType

LEMMA CreateKeeps ==
  ASSUME FsInv, NEW p, Create(p)
  PROVE  FsInv'
<1>1. /\ p \notin Existing /\ inode' = With(inode, p, NewInode) /\ expected' = With(expected, p, Expected(p))
      /\ UNCHANGED <<disk, strayed, miscounted>> /\ fs_status' \in {"ok", "wild"} /\ fs_status = "ok"
  BY DEF Create, FsCall, minixfs_create_inode_for_path
<1>2. FileOf(p, NewInode) /\ GrownFrom(NewInode, NewInode)
  BY <1>1, NewFile DEF FileOf, GrownFrom
<1>3. Len(NewInode.blocks) <= MostBlocks
  BY NewFile, MinixfsAssumption DEF MostBlocks
<1> QED
  BY <1>1, <1>2, <1>3, NothingWritten

LEMMA WriteKeeps ==
  ASSUME FsInv, NEW p, NEW x \in Bytes, NEW off \in Nat, NEW n \in Nat, minixfs_write(p, x, off, n)
  PROVE  FsInv'
<1>1. fs_status = "ok" /\ off + n <= max_size
  BY DEF minixfs_write, FsCall
<1>2. PICK made \in IF p \in Existing THEN {inode} ELSE minixfs_create_inode_for_path(p) :
        \E outcome \in minixfs_min_blockcount(made[p], RequiredBlocks(off + n)) :
          \/ outcome.ok /\ Written(p, x, off, n, outcome.file)
          \/ /\ ~outcome.ok
             /\ inode' = With(made, p, outcome.file)
             /\ fs_status' = IF p \notin Existing /\ DirectoryBeyond THEN "wild" ELSE "ok"
             /\ expected' = With(expected, p, Expected(p))
             /\ UNCHANGED <<disk, strayed, miscounted>>
  BY DEF minixfs_write
<1> DEFINE i == made[p]
           N == RequiredBlocks(off + n)
<1>3. FileOf(p, i) /\ \A f : With(made, p, f) = With(inode, p, f)
  <2>1. CASE p \in Existing
    BY <1>2, <2>1 DEF FileOf, FsInv, FsTypes
  <2>2. CASE p \notin Existing
    <3>1. made = With(inode, p, NewInode)
      BY <1>2, <2>2 DEF minixfs_create_inode_for_path
    <3>2. i = NewInode
      BY <3>1 DEF With
    <3>3. \A f : With(made, p, f) = With(inode, p, f)
      BY <3>1 DEF With
    <3> QED
      BY <2>2, <3>2, <3>3, NewFile DEF FileOf
  <2> QED
    BY <2>1, <2>2
<1>4. N \in Nat /\ N <= MostBlocks
  <2>1. off + n \in Nat
    OBVIOUS
  <2> QED
    BY <1>1, <2>1, RequiredFit
<1>5. PICK outcome \in minixfs_min_blockcount(i, N) :
          \/ outcome.ok /\ Written(p, x, off, n, outcome.file)
          \/ /\ ~outcome.ok
             /\ inode' = With(made, p, outcome.file)
             /\ fs_status' = IF p \notin Existing /\ DirectoryBeyond THEN "wild" ELSE "ok"
             /\ expected' = With(expected, p, Expected(p))
             /\ UNCHANGED <<disk, strayed, miscounted>>
  BY <1>2
<1> DEFINE f == outcome.file
<1>6. i \in FileType
  BY <1>3 DEF FileOf
<1> HIDE DEF i, N
<1>7. GrownFrom(i, f) /\ (outcome.ok => N <= Len(f.blocks)) /\ Len(f.blocks) <= MostBlocks
  <2>1. /\ GrownFrom(i, f) /\ (outcome.ok => N <= Len(f.blocks))
        /\ Len(f.blocks) <= N \/ Len(f.blocks) = Len(i.blocks)
    BY <1>4, <1>5, <1>6, OutcomeRight
  <2>2. Len(i.blocks) <= MostBlocks
    BY <1>3, MinixfsAssumption DEF FileOf, FsInv, BlocksFit, MostBlocks
  <2>3. Len(f.blocks) \in Nat /\ MostBlocks \in Nat
    BY <2>1, MinixfsAssumption DEF GrownFrom, FileType, MostBlocks
  <2> HIDE DEF f
  <2> QED
    BY <1>4, <2>1, <2>2, <2>3
<1>8. CASE outcome.ok /\ Written(p, x, off, n, f)
  <2> HIDE DEF f
  <2>1. RequiredBlocks(off + n) <= Len(f.blocks)
    BY <1>7, <1>8 DEF N
  <2> QED
    BY <1>1, <1>3, <1>7, <1>8, <2>1, WrittenKeeps
<1>9. CASE /\ inode' = With(made, p, f) /\ fs_status' \in {"ok", "wild"}
           /\ expected' = With(expected, p, Expected(p)) /\ UNCHANGED <<disk, strayed, miscounted>>
  <2> HIDE DEF f
  <2>1. inode' = With(inode, p, f)
    BY <1>3, <1>9
  <2> QED
    BY <1>1, <1>3, <1>7, <1>9, <2>1, NothingWritten
<1> QED
  BY <1>5, <1>8, <1>9

LEMMA FsStep ==
  ASSUME FsInv, [FsNext]_fs_vars
  PROVE  FsInv'
<1>1. ASSUME NEW p \in Paths, NEW mode \in Modes, minixfs_chmod(p, mode) PROVE FsInv'
  <2>1. /\ p \in Existing /\ inode' = [inode EXCEPT ![p].mode = mode] /\ fs_status = "ok"
        /\ UNCHANGED <<disk, fs_status, strayed, miscounted, expected>>
    BY <1>1 DEF minixfs_chmod, FsCall
  <2>2. /\ Existing' = Existing
        /\ \A q \in Existing : inode'[q] = IF q = p THEN [inode[q] EXCEPT !.mode = mode] ELSE inode[q]
    BY <2>1 DEF Existing
  <2>3. \A q \in Existing : inode[q] \in FileType
    BY DEF FsInv, FsTypes
  <2>4. \A q \in Existing : /\ inode'[q] \in FileType
                            /\ inode'[q].blocks = inode[q].blocks /\ inode'[q].size = inode[q].size
    <3>1. \A i \in FileType : LET j == [i EXCEPT !.mode = mode] IN
                               j \in FileType /\ j.blocks = i.blocks /\ j.size = i.size
      BY DEF FileType
    <3>2. \A q \in Existing : inode'[q] = inode[q] \/ inode'[q] = [inode[q] EXCEPT !.mode = mode]
      BY <2>2
    <3> QED
      BY <2>3, <3>1, <3>2, ZenonT(30)
  <2> QED
    BY <2>1, <2>2, <2>4, NoFileChanged
<1>2. ASSUME NEW p \in Paths, NEW owner \in Ids \cup {KEEP}, NEW group \in Ids \cup {KEEP},
             minixfs_chown(p, owner, group)
      PROVE  FsInv'
  <2> DEFINE u(q) == IF owner = KEEP THEN inode[q].uid ELSE owner
             v(q) == IF group = KEEP THEN inode[q].gid ELSE group
  <2>1. /\ p \in Existing /\ fs_status = "ok" /\ UNCHANGED <<disk, fs_status, strayed, miscounted, expected>>
        /\ inode' = [inode EXCEPT ![p].uid = IF owner = KEEP THEN @ ELSE owner,
                                  ![p].gid = IF group = KEEP THEN @ ELSE group]
    BY <1>2 DEF minixfs_chown, FsCall
  <2>2. \A q \in Existing : inode[q] \in FileType
    BY DEF FsInv, FsTypes
  <2>3. /\ Existing' = Existing
        /\ \A q \in Existing : q # p => inode'[q] = inode[q]
        /\ inode'[p] = [inode[p] EXCEPT !.uid = u(p), !.gid = v(p)]
    BY <2>1, <2>2 DEF Existing, FileType
  <2>4. u(p) \in Ids \cup {0} /\ v(p) \in Ids \cup {0}
    BY <1>2, <2>1, <2>2 DEF FileType
  <2> HIDE DEF u, v
  <2>5. \A q \in Existing : /\ inode'[q] \in FileType
                            /\ inode'[q].blocks = inode[q].blocks /\ inode'[q].size = inode[q].size
    <3>1. /\ inode'[p] \in FileType
          /\ inode'[p].blocks = inode[p].blocks /\ inode'[p].size = inode[p].size
      <4>1. ASSUME NEW i \in FileType, NEW a \in Ids \cup {0}, NEW b \in Ids \cup {0}
            PROVE  LET j == [i EXCEPT !.uid = a, !.gid = b] IN
                   j \in FileType /\ j.blocks = i.blocks /\ j.size = i.size
        BY <4>1 DEF FileType
      <4>2. inode[p] \in FileType
        BY <2>1, <2>2
      <4>3. LET j == [inode[p] EXCEPT !.uid = u(p), !.gid = v(p)] IN
            j \in FileType /\ j.blocks = inode[p].blocks /\ j.size = inode[p].size
        BY <2>4, <4>1, <4>2, ZenonT(30)
      <4> QED
        BY <2>3, <4>3, Zenon
    <3> QED
      BY <2>2, <2>3, <3>1
  <2> QED
    BY <2>1, <2>3, <2>5, NoFileChanged
<1>3. ASSUME NEW p \in Paths, NEW t \in Transfers, minixfs_read(p, t[1], t[2]) PROVE FsInv'
  <2>1. /\ fs_status = "ok" /\ fs_status' \in {"ok", "wild"}
        /\ UNCHANGED <<inode, disk, strayed, miscounted, expected>>
    BY <1>3 DEF minixfs_read, FsCall
  <2>2. Existing' = Existing /\ \A q \in Existing : inode'[q] = inode[q] /\ inode[q] \in FileType
    BY <2>1 DEF Existing, FsInv, FsTypes
  <2> QED
    BY <2>1, <2>2, NoFileChanged
<1>4. ASSUME NEW p \in Paths, NEW t \in Transfers, NEW x \in Bytes, minixfs_write(p, x, t[1], t[2])
      PROVE  FsInv'
  <2>1. t[1] \in Nat /\ t[2] \in Nat
    BY MinixfsAssumption
  <2> QED
    BY <1>4, <2>1, WriteKeeps
<1>5. CASE UNCHANGED fs_vars
  <2>1. UNCHANGED <<inode, disk, fs_status, strayed, miscounted, expected>>
    BY <1>5 DEF fs_vars
  <2>2. FsTypes' /\ BlocksOwned'
    BY <2>1 DEF FsInv, FsTypes, BlocksOwned, Existing
  <2>4. BlocksFit'
    BY <2>1 DEF FsInv, BlocksFit, Existing, MostBlocks
  <2>3. BytesKept' /\ SizesCounted'
    BY <2>1 DEF FsInv, BytesKept, SizesCounted, Existing, CellOf
  <2> QED
    BY <2>2, <2>3, <2>4 DEF FsInv
<1> QED
  BY <1>1, <1>2, <1>3, <1>4, <1>5, CreateKeeps DEF FsNext

LEMMA FsStart == FsInit => FsInv
<1> SUFFICES ASSUME FsInit PROVE FsInv
  OBVIOUS
<1>1. Existing = {} /\ DOMAIN expected = {}
  BY DEF FsInit, Existing
<1>2. FsTypes
  BY <1>1 DEF FsInit, FsTypes, Cells
<1> QED
  BY <1>1, <1>2 DEF FsInv, BlocksOwned, BlocksFit, BytesKept, SizesCounted

\* A read returns the bytes that are where the file has them.
LEMMA ReadsBack ==
  ASSUME FsInv, fs_status = "ok", ~strayed, NEW p \in Existing, NEW off \in Offsets, NEW n \in 1 .. max_size,
         off % block_size = 0, off + n <= inode[p].size,
         NEW k \in 1 .. n, expected[p][off + k - 1] # UNWRITTEN, off + k - 1 \in Offsets
  PROVE  ReadBytes(inode[p], off, n)[k] = expected[p][off + k - 1]
<1> DEFINE i == inode[p]
           m == k - 1
           l == off + m
<1>1. off \in Nat /\ n \in Nat /\ n >= 1 /\ m \in Nat /\ k \in 1 .. n /\ l = off + k - 1 /\ l \in Nat
  BY MaxSizeType
<1>2. i \in FileType /\ i.size \in Nat /\ off + n <= i.size
  BY DEF FsInv, FsTypes, FileType
<1>3. l \div block_size < Len(i.blocks) /\ disk[CellOf(i, l)] = expected[p][l]
  <2>1. expected[p][l] # UNWRITTEN /\ l \in Offsets
    BY <1>1
  <2> HIDE DEF l
  <2> QED
    BY <2>1 DEF FsInv, BytesKept
<1>4. ReadCell(i, off, m) = CellOf(i, off + m)
  BY <1>1, <1>2, <1>3, AlignedCells
<1>5. TotalBytes(i, off, n) = n
  <2> DEFINE S == {i.size - off, n}
  <2>1. TotalBytes(i, off, n) = Min(S)
    BY <1>1, <1>2 DEF TotalBytes
  <2>2. n \in S /\ \A y \in S : n <= y
    BY <1>1, <1>2
  <2>3. \A z \in S : (\A y \in S : z <= y) => z = n
    BY <1>1, <1>2
  <2> HIDE DEF S
  <2>4. Min(S) = n
    BY <2>2, <2>3 DEF Min
  <2> QED
    BY <2>1, <2>4
<1>6. ReadBytes(i, off, n) = [j \in 1 .. n |-> disk[ReadCell(i, off, j - 1)]]
  BY <1>5 DEF ReadBytes
<1>7. ReadBytes(i, off, n)[k] = disk[ReadCell(i, off, k - 1)]
  BY <1>6
<1> QED
  BY <1>1, <1>3, <1>4, <1>7

LEMMA FilesAre == FsInv => FilesReadBack
<1> SUFFICES ASSUME FsInv, fs_status = "ok", ~strayed, NEW p \in Existing
             PROVE  /\ \A off \in Offsets, n \in 1 .. max_size :
                         (off % block_size = 0 /\ off + n <= Min({inode[p].size, Len(inode[p].blocks) * block_size})) =>
                           \A k \in 1 .. n :
                             expected[p][off + k - 1] # UNWRITTEN =>
                               ReadBytes(inode[p], off, n)[k] = expected[p][off + k - 1]
                    /\ \A r \in Existing \ {p} : Range(inode[p].blocks) \cap Range(inode[r].blocks) = {}
                    /\ ~miscounted => inode[p].size = Cardinality({k \in Offsets : expected[p][k] # UNWRITTEN})
  BY DEF FilesReadBack
<1> DEFINE i == inode[p]
<1>1. i \in FileType /\ i.size \in Nat /\ i.blocks \in Seq(1 .. DataBlocks) /\ Len(i.blocks) \in Nat
  BY DEF FsInv, FsTypes, FileType
<1>2. ASSUME NEW off \in Offsets, NEW n \in 1 .. max_size, off % block_size = 0,
             off + n <= Min({i.size, Len(i.blocks) * block_size}),
             NEW k \in 1 .. n, expected[p][off + k - 1] # UNWRITTEN
      PROVE  ReadBytes(i, off, n)[k] = expected[p][off + k - 1]
  <2> DEFINE top == Len(i.blocks) * block_size
  <2>1. off \in Nat /\ n \in Nat /\ k \in 1 .. n /\ max_size \in Nat /\ off <= max_size
    BY MaxSizeType DEF Offsets
  <2>2. off + n <= i.size /\ off + n <= top
    <3>1. top \in Nat
      <4>1. \A a, b \in Nat : a * b \in Nat
        OBVIOUS
      <4> QED
        BY <1>1, <4>1, MinixfsAssumption
    <3> DEFINE S == {i.size, top}
               least == Min(S)
    <3>2. S \subseteq Nat /\ S # {} /\ i.size \in S /\ top \in S
      BY <1>1, <3>1
    <3>3. off + n <= least
      BY <1>2
    <3> HIDE DEF S, i, top
    <3>4. \E z \in S : \A y \in S : z <= y
      BY <3>2, Least
    <3>5. least \in S /\ \A y \in S : least <= y
      BY <3>4 DEF Min
    <3> HIDE DEF least
    <3>6. least <= i.size /\ least <= top /\ least \in Nat
      BY <3>2, <3>5
    <3> QED
      BY <1>1, <2>1, <3>1, <3>3, <3>6
  <2>3. off + k - 1 \in Offsets
    <3>1. Len(i.blocks) <= MostBlocks /\ MostBlocks \in Nat /\ max_size = MostBlocks * block_size
      BY MinixfsAssumption DEF FsInv, BlocksFit, MostBlocks, max_size
    <3>2. top <= MostBlocks * block_size
      <4>1. \A a, b, c \in Nat : a <= b => a * c <= b * c
        OBVIOUS
      <4> QED
        BY <1>1, <3>1, <4>1, MinixfsAssumption
    <3>3. top \in Nat
      <4>1. \A a, b \in Nat : a * b \in Nat
        OBVIOUS
      <4> QED
        BY <1>1, <4>1, MinixfsAssumption
    <3> HIDE DEF top
    <3>4. off + k - 1 <= max_size
      BY <2>1, <2>2, <3>1, <3>2, <3>3
    <3> QED
      BY <2>1, <3>4 DEF Offsets
  <2> QED
    BY <1>2, <2>2, <2>3, ReadsBack
<1>3. ASSUME NEW r \in Existing \ {p} PROVE Range(i.blocks) \cap Range(inode[r].blocks) = {}
  <2>1. DOMAIN i.blocks = 1 .. Len(i.blocks) /\ DOMAIN inode[r].blocks = 1 .. Len(inode[r].blocks)
    BY DEF FsInv, FsTypes, FileType
  <2> QED
    BY <2>1 DEF Range, FsInv, BlocksOwned
<1>4. ASSUME ~miscounted PROVE i.size = Cardinality({k \in Offsets : expected[p][k] # UNWRITTEN})
  <2>1. {k \in Offsets : expected[p][k] # UNWRITTEN} = 0 .. i.size - 1
    BY <1>4 DEF FsInv, SizesCounted
  <2>2. Cardinality(0 .. i.size - 1) = i.size
    <3> HIDE DEF i
    <3>1. i.size - 1 \in Int /\ 0 \in Int
      BY <1>1
    <3>2. Cardinality(0 .. i.size - 1) = IF 0 > i.size - 1 THEN 0 ELSE (i.size - 1) - 0 + 1
      BY <3>1, FS_Interval
    <3> QED
      BY <1>1, <3>2
  <2> QED
    BY <2>1, <2>2
<1> QED
  BY <1>2, <1>3, <1>4

\* For every file system, every number of blocks and every sequence of calls in
\* which writes began at block boundaries: a file gives back, from a block
\* boundary on, what was written last at each position; no block is in two
\* files, whatever write failed for want of blocks; and the size is that of the
\* contents as long as every write began at the end of its file
\* (minixfs.c:71-80, 196-275).
THEOREM FilesCorrect == FsSpec => []FilesReadBack
<1>1. FsInv /\ [FsNext]_fs_vars => FsInv'
  BY FsStep
<1> QED
  BY <1>1, FsStart, FilesAre, PTL DEF FsSpec

=============================================================================
