------------------------------ MODULE ParReduce ------------------------------
(***************************************************************************)
(* teaching_threads/par_reduce.c: the list is cut into parts, a thread     *)
(* reduces each, the results are reduced in the order of the parts.        *)
(*                                                                         *)
(* A value is the sequence of operands it was made from: elements of the   *)
(* list by their index, and the base case.  Two values that are the same   *)
(* sequence but for base cases are the same number for every associative   *)
(* reducer, commutative or not, whose base case is neutral.                *)
(***************************************************************************)
EXTENDS Naturals, Sequences, SequencesExt

CONSTANTS MaxLength, MaxThreads,  \* the calls made
          BASE                    \* the base case, told from the elements

ASSUME ParReduceAssumption == MaxLength \in Nat /\ MaxThreads \in Nat /\ BASE \notin Nat

VARIABLES pr_pc,          \* "start", "create", "join", "returned"
          length, num_threads,
          made, joined,   \* threads created and joined
          progress,       \* elements each thread has taken
          part,           \* data[i].returnit, or the value being made
          pr_done,        \* the threads that have exited
          returnit

pr_vars == <<pr_pc, length, num_threads, made, joined, progress, part, pr_done, returnit>>

PartNumbers == 0 .. MaxLength - 1

PRInit ==
  /\ pr_pc = "start" /\ length = 0 /\ num_threads = 0 /\ made = 0 /\ joined = 0
  /\ progress = [i \in PartNumbers |-> 0] /\ part = [i \in PartNumbers |-> <<BASE>>]
  /\ pr_done = {} /\ returnit = <<BASE>>

Elements(from, to) == [k \in 1 .. (to - from) |-> from + k]

one == (length + num_threads - 1) \div num_threads
two == (length + one - 1) \div one

PartStart(i) == i * one
PartEnd(i) == IF (i + 1) * one > length THEN length ELSE (i + 1) * one

\* With fewer than two threads, or an empty list, reduce does it all.
par_reduce(l, n) ==
  /\ pr_pc = "start" /\ length' = l /\ num_threads' = n
  /\ IF n < 2 \/ l = 0
       THEN pr_pc' = "returned" /\ returnit' = <<BASE>> \o Elements(0, l)
       ELSE pr_pc' = "create" /\ UNCHANGED returnit
  /\ UNCHANGED <<made, joined, progress, part, pr_done>>

CreateReducer ==
  /\ pr_pc = "create"
  /\ IF made < two THEN made' = made + 1 /\ UNCHANGED pr_pc
                   ELSE pr_pc' = "join" /\ UNCHANGED made
  /\ UNCHANGED <<length, num_threads, joined, progress, part, pr_done, returnit>>

par_reduce_helper(i) ==
  /\ i < made /\ i \notin pr_done
  /\ LET at == PartStart(i) + progress[i] IN
     \/ /\ at < PartEnd(i)
        /\ part' = [part EXCEPT ![i] = Append(@, at + 1)]
        /\ progress' = [progress EXCEPT ![i] = @ + 1]
        /\ UNCHANGED pr_done
     \/ /\ at = PartEnd(i) /\ pr_done' = pr_done \cup {i}
        /\ UNCHANGED <<part, progress>>
  /\ UNCHANGED <<pr_pc, length, num_threads, made, joined, returnit>>

\* Slip: the part that is done first is taken first.
Slip_AnyPart(i) == i \in pr_done

NextPart(i) == i = joined /\ i \in pr_done

JoinReducer ==
  /\ pr_pc = "join"
  /\ \/ \E i \in PartNumbers :
          /\ joined < two /\ NextPart(i)
          /\ returnit' = returnit \o part[i] /\ joined' = joined + 1
          /\ UNCHANGED pr_pc
     \/ joined = two /\ pr_pc' = "returned" /\ UNCHANGED <<returnit, joined>>
  /\ UNCHANGED <<length, num_threads, made, progress, part, pr_done>>

PRNext ==
  \/ \E l \in 0 .. MaxLength, n \in 0 .. MaxThreads : par_reduce(l, n)
  \/ CreateReducer \/ JoinReducer
  \/ \E i \in PartNumbers : par_reduce_helper(i)

PRSpec == PRInit /\ [][PRNext]_pr_vars

-----------------------------------------------------------------------------
(* Properties *)

\* The elements that went into the answer, without the base cases.
Operands == FoldLeft(LAMBDA taken, x : IF x = BASE THEN taken ELSE Append(taken, x), <<>>, returnit)

\* The answer is that of reduce, for every length and number of threads and
\* whichever thread is done first: each element once, in the order of the list,
\* so also for reducers that do not commute.  The base case enters once more
\* for every part, and must be neutral (par_reduce.c:42-68).
SameAsReduce ==
  pr_pc = "returned" =>
    /\ Operands = Elements(0, length)
    /\ Len(returnit) - Len(Operands) = IF num_threads < 2 \/ length = 0 THEN 1 ELSE two + 1
=============================================================================
