------------------------------ MODULE MCMemory ------------------------------
(***************************************************************************)
(* The sequential programs that manage memory, each on a small instance:   *)
(* `program` is the one that runs, the others stay as they began.          *)
(***************************************************************************)
EXTENDS Vector, Alloc, MiniMemcheck, Mmu, Minixfs

VARIABLE program

memory_vars == <<program, vars, alloc_vars, memcheck_vars, mmu_vars, fs_vars>>

\* Page 0 is in no segment; pages 70 and 100 are beyond the directory, where
\* indices are a quarter of a table apart; pages 1 and 5 have tables of their own.
Segments ==
  (0 :> "none") @@ (1 :> "rw") @@ (5 :> "rw") @@ (70 :> "rw") @@ (100 :> "r")

\* Block after block, several blocks at once, an overwrite, writes inside a
\* block and behind the end of a file.
TransferSet == {<<0, 2>>, <<0, 5>>, <<2, 2>>, <<4, 1>>, <<3, 1>>}

MemoryInit ==
  /\ program \in {"vector", "alloc", "memcheck", "mmu", "minixfs"}
  /\ Init /\ AllocInit /\ MemcheckInit /\ MmuInit /\ FsInit

RunVector ==
  program = "vector" /\ Next /\ UNCHANGED <<program, alloc_vars, memcheck_vars, mmu_vars, fs_vars>>
RunAlloc ==
  program = "alloc" /\ AllocNext /\ UNCHANGED <<program, vars, memcheck_vars, mmu_vars, fs_vars>>
RunMemcheck ==
  program = "memcheck" /\ MemcheckNext /\ UNCHANGED <<program, vars, alloc_vars, mmu_vars, fs_vars>>
RunMmu ==
  program = "mmu" /\ MmuNext /\ UNCHANGED <<program, vars, alloc_vars, memcheck_vars, fs_vars>>
RunMinixfs ==
  program = "minixfs" /\ FsNext /\ UNCHANGED <<program, vars, alloc_vars, memcheck_vars, mmu_vars>>

MemoryNext == RunVector \/ RunAlloc \/ RunMemcheck \/ RunMmu \/ RunMinixfs

MemorySpec == MemoryInit /\ [][MemoryNext]_memory_vars
=============================================================================
