--------------------------------- MODULE Mmu ---------------------------------
(***************************************************************************)
(* The memory management unit of ideal_indirection/mmu.c: page directories *)
(* and page tables in physical frames, a translation lookaside buffer that *)
(* holds pointers to page table entries, and the kernel's frames and swap  *)
(* files as mmu.c uses them.  The MMU is sequential, a call is one action. *)
(*                                                                         *)
(* An entry of a directory or of a table is <<frame, index>>; it is present*)
(* when it is in the domain of `entry`, which gives the frame it points    *)
(* to.  A page holds one value.  The statistics (misses, faults) and the   *)
(* permission bits of entries, which nothing reads, are left out.          *)
(***************************************************************************)
EXTENDS Naturals, FiniteSetsExt, Functions

CONSTANTS Pids,
          NUM_PHYSICAL_PAGES, NUM_ENTRIES,
          Segment,   \* per virtual page used: "rw", "r", or "none" (no segment)
          TlbSize,   \* entries the TLB can hold
          MaxCalls,  \* bound on the calls made
          Values, ZERO, NULL,
          Unused, Pinned  \* uses of a frame; a page's frame has its entry as use

Frames == 0 .. NUM_PHYSICAL_PAGES - 1
Pages == DOMAIN Segment
Entries == Frames \X (0 .. NUM_ENTRIES - 1)

\* NULL, Unused and Pinned are no frames and no entries; ZERO is the content
\* of a cleared page.
ASSUME MmuAssumption ==
  /\ 0 \in Pids /\ NUM_PHYSICAL_PAGES \in Nat /\ Pages \subseteq Nat
  /\ NUM_ENTRIES \in Nat \ {0} /\ NUM_ENTRIES % 4 = 0 /\ TlbSize > 0
  /\ NULL \notin Frames \cup Entries /\ ZERO \notin Values
  /\ Unused # Pinned /\ {Unused, Pinned} \cap Entries = {}

VARIABLES curr_pid, tlb, page_directories,
          kernel,    \* use, content and entries of the frames; swap files
          mmu_status,\* "running", "wild" (an index beyond the directory), "deleted"
          stored,    \* history: what each process wrote last to each page
          mmu_calls  \* calls made

mmu_vars == <<curr_pid, tlb, page_directories, kernel, mmu_status, stored, mmu_calls>>

Blank == [p \in Pids |-> [v \in Pages |-> ZERO]]
NoEntries == [e \in {} |-> NULL]

MmuInit ==  \* mmu_create
  /\ curr_pid = 0 /\ tlb = NoEntries
  /\ page_directories = [p \in Pids |-> NULL]
  /\ kernel = [use   |-> [f \in Frames |-> Unused], data |-> [f \in Frames |-> ZERO],
               entry |-> NoEntries, disk |-> NoEntries]
  /\ mmu_status = "running" /\ stored = Blank /\ mmu_calls = 0

-----------------------------------------------------------------------------
(* The kernel, as mmu.c uses it *)

Without(f, S) == Restrict(f, DOMAIN f \ S)
Entered(f, e, x) == [d \in DOMAIN f \cup {e} |-> IF d = e THEN x ELSE f[d]]

\* Frame f is handed out, cleared, for the entry `for` (or to stay: Pinned).
Give(k, f, for) ==
  [k EXCEPT !.use[f] = for, !.data[f] = ZERO,
            !.entry = Without(k.entry, {f} \X (0 .. NUM_ENTRIES - 1))]

\* Page f goes to the swap file of its entry, which is no longer present.
Evict(k, f) ==
  [k EXCEPT !.disk = Entered(k.disk, k.use[f], k.data[f]),
            !.entry = Without(k.entry, {k.use[f]})]

\* All outcomes: the kernel's state and the frame.  No frame left to page out
\* means no outcome.
ask_kernel_for_frame(k, for) ==
  LET unused == {f \in Frames : k.use[f] = Unused}
      paged  == {f \in Frames : k.use[f] \notin {Unused, Pinned}}
  IN  IF unused # {} THEN {[k |-> Give(k, Min(unused), for), f |-> Min(unused)]}
      ELSE {[k |-> Give(Evict(k, f), f, for), f |-> f] : f \in paged}

Point(k, e, f) == [k EXCEPT !.entry = Entered(k.entry, e, f)]

-----------------------------------------------------------------------------
(* Translation *)

\* The index is taken from bit 20 on, where a directory of 1024 entries with
\* tables of 1024 entries would need bit 22.
DirectoryIndex(v) == v \div (NUM_ENTRIES \div 4)
TableIndex(v) == v % NUM_ENTRIES

Pde(p, v) == <<page_directories[p], DirectoryIndex(v)>>

\* The directory entry is made present if it is not.
TableReady(k, p, v) ==
  IF Pde(p, v) \in DOMAIN k.entry THEN {k}
  ELSE {Point(r.k, Pde(p, v), r.f) : r \in ask_kernel_for_frame(k, Pinned)}

Pte(k, p, v) == <<k.entry[Pde(p, v)], TableIndex(v)>>

read_page_from_disk(k, pte, f) ==
  IF pte \in DOMAIN k.disk THEN [k EXCEPT !.data[f] = k.disk[pte]] ELSE k

\* The table entry is made present if it is not.
PageReady(k, pte) ==
  IF pte \in DOMAIN k.entry THEN {k}
  ELSE {read_page_from_disk(Point(r.k, pte, r.f), pte, r.f) :
          r \in ask_kernel_for_frame(k, pte)}

\* Slip: a change of process leaves the TLB as it is.
Slip_NoFlush(p) == tlb

\* A change of process flushes the TLB.
TlbFor(p) == IF p = curr_pid THEN tlb ELSE NoEntries

tlb_add_pte(t, v, pte) ==
  IF v \in DOMAIN t \/ Cardinality(DOMAIN t) < TlbSize THEN {Entered(t, v, pte)}
  ELSE {Entered(Without(t, {u}), v, pte) : u \in DOMAIN t}

\* The page table entry for v and what the kernel looks like then.
Lookup(p, v) ==
  IF v \in DOMAIN TlbFor(p) THEN {[k |-> kernel, pte |-> TlbFor(p)[v]]}
  ELSE {[k |-> k, pte |-> Pte(k, p, v)] : k \in TableReady(kernel, p, v)}

\* The process exists; what a removed one would access is not defined.
Call(p) ==
  mmu_status = "running" /\ page_directories[p] # NULL /\ curr_pid' = p

\* The page is not in a segment, or must not be written.
SegmentationFault(p, v, allowed) ==
  /\ Call(p) /\ Segment[v] \notin allowed
  /\ tlb' = TlbFor(p)
  /\ UNCHANGED <<page_directories, kernel, mmu_status, stored>>

\* An index beyond the directory reads and writes another frame as entries.
BeyondDirectory(p, v, allowed) ==
  /\ Call(p) /\ Segment[v] \in allowed
  /\ v \notin DOMAIN TlbFor(p) /\ DirectoryIndex(v) >= NUM_ENTRIES
  /\ mmu_status' = "wild" /\ tlb' = TlbFor(p)
  /\ UNCHANGED <<page_directories, kernel, stored>>

Translated(p, v, allowed) ==
  /\ Call(p) /\ Segment[v] \in allowed /\ DirectoryIndex(v) < NUM_ENTRIES
  /\ UNCHANGED <<page_directories, mmu_status>>

mmu_read_from_virtual_address(p, v) ==
  \/ SegmentationFault(p, v, {"r", "rw"})
  \/ BeyondDirectory(p, v, {"r", "rw"})
  \/ /\ Translated(p, v, {"r", "rw"})
     /\ \E a \in Lookup(p, v) : \E k \in PageReady(a.k, a.pte) :
          kernel' = k /\ tlb' \in tlb_add_pte(TlbFor(p), v, a.pte)
     /\ UNCHANGED stored

mmu_write_to_virtual_address(p, v, x) ==
  \/ SegmentationFault(p, v, {"rw"})
  \/ BeyondDirectory(p, v, {"rw"})
  \/ /\ Translated(p, v, {"rw"})
     /\ \E a \in Lookup(p, v) : \E k \in PageReady(a.k, a.pte) :
          /\ kernel' = [k EXCEPT !.data[k.entry[a.pte]] = x]
          /\ tlb' \in tlb_add_pte(TlbFor(p), v, a.pte)
     /\ stored' = [stored EXCEPT ![p][v] = x]

-----------------------------------------------------------------------------
(* Processes come and go *)

\* A directory, the first table, and pages 1 and 2 of the testing segment.
mmu_add_process(p) ==
  /\ mmu_status = "running" /\ page_directories[p] = NULL
  /\ \E d \in ask_kernel_for_frame(kernel, Pinned) :
     \E t \in ask_kernel_for_frame(d.k, Pinned) :
     \E a \in ask_kernel_for_frame(Point(t.k, <<d.f, 0>>, t.f), <<t.f, 1>>) :
     \E b \in ask_kernel_for_frame(Point(a.k, <<t.f, 1>>, a.f), <<t.f, 2>>) :
       /\ kernel' = Point(b.k, <<t.f, 2>>, b.f)
       /\ page_directories' = [page_directories EXCEPT ![p] = d.f]
  /\ UNCHANGED <<curr_pid, tlb, mmu_status, stored>>

Live == {p \in Pids : page_directories[p] # NULL}
TablesOf(p) == {kernel.entry[e] : e \in {e \in DOMAIN kernel.entry : e[1] = page_directories[p]}}
PtesOf(p) == TablesOf(p) \X (0 .. NUM_ENTRIES - 1)
PagesOf(p) == {kernel.entry[e] : e \in PtesOf(p) \cap DOMAIN kernel.entry}
FramesOf(p) == {page_directories[p]} \cup TablesOf(p) \cup PagesOf(p)

\* Slip: page tables are not given back.
Slip_TablesKept(p) == {page_directories[p]} \cup PagesOf(p)

Returned(p) == FramesOf(p)

\* Returned frames keep what is in them until they are given out again.
Removed(S) ==
  /\ kernel' = [kernel EXCEPT
       !.use  = [f \in Frames |-> IF \E p \in S : f \in Returned(p) THEN Unused ELSE @[f]],
       !.disk = Without(@, UNION {PtesOf(p) : p \in S})]
  /\ page_directories' = [p \in Pids |-> IF p \in S THEN NULL ELSE page_directories[p]]
  /\ tlb' = IF curr_pid \in S THEN NoEntries ELSE tlb
  /\ stored' = [p \in Pids |-> IF p \in S THEN Blank[p] ELSE stored[p]]
  /\ UNCHANGED curr_pid

mmu_remove_process(p) ==
  /\ mmu_status = "running" /\ page_directories[p] # NULL
  /\ Removed({p}) /\ UNCHANGED mmu_status

\* Every process is removed; the swap files of all go with them.
mmu_delete ==
  /\ mmu_status = "running" /\ mmu_status' = "deleted"
  /\ Removed(Live)

MmuStep ==
  \/ \E p \in Pids :
       \/ mmu_add_process(p) \/ mmu_remove_process(p)
       \/ \E v \in Pages :
            \/ mmu_read_from_virtual_address(p, v)
            \/ \E x \in Values : mmu_write_to_virtual_address(p, v, x)
  \/ mmu_delete

MmuNext == mmu_calls < MaxCalls /\ mmu_calls' = mmu_calls + 1 /\ MmuStep

MmuSpec == MmuInit /\ [][MmuNext]_mmu_vars

-----------------------------------------------------------------------------
(* Properties *)

\* The entry a read by process p would use for page v, or NULL.
EntryFor(p, v) ==
  IF v \in DOMAIN TlbFor(p) THEN TlbFor(p)[v]
  ELSE IF Pde(p, v) \in DOMAIN kernel.entry THEN Pte(kernel, p, v) ELSE NULL

\* What that read would return.
Visible(p, v) ==
  LET e == EntryFor(p, v) IN
  IF e = NULL THEN ZERO
  ELSE IF e \in DOMAIN kernel.entry THEN kernel.data[kernel.entry[e]]
  ELSE IF e \in DOMAIN kernel.disk THEN kernel.disk[e] ELSE ZERO

\* Every process reads from each of its pages what it wrote there last, and
\* zero before that: across changes of process (the TLB holds pointers, not
\* frames), pages that were swapped out meanwhile, frames that held another
\* process's page, and process numbers that are used again (mmu.c:24, 57, 226;
\* "checks that the reads and writes are persistent", mmu_test.c:45).
ReadsLastWrite ==
  mmu_status = "running" =>
    \A p \in Pids, v \in Pages :
       (page_directories[p] # NULL /\ Segment[v] # "none" /\ DirectoryIndex(v) < NUM_ENTRIES)
       => Visible(p, v) = stored[p][v]

\* No frame serves two purposes and none is lost: the frames of the processes
\* are disjoint, they are exactly the frames in use, and the page an entry
\* points to is the one the kernel would page out for it (mmu.c:206-243).
FramesOwned ==
  mmu_status # "wild" =>
    /\ UNION {FramesOf(p) : p \in Live} = {f \in Frames : kernel.use[f] # Unused}
    /\ \A p, q \in Live : p # q => FramesOf(p) \cap FramesOf(q) = {}
    /\ \A p \in Live : \A e \in PtesOf(p) \cap DOMAIN kernel.entry :
         kernel.use[kernel.entry[e]] = e
=============================================================================
