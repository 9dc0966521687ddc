------------------------------- MODULE IsCycle -------------------------------
(***************************************************************************)
(* The recursive function is_Cycle of deadlock_demolition/libdrm.c, used   *)
(* unchanged in parallel_make/parmake.c.  The recursion is an explicit     *)
(* stack; the visited set set_ is a global that EVERY return with 0 throws *)
(* away, so it may be NULL when a caller resumes (set_destroy(NULL) is     *)
(* taken to do nothing).                                                   *)
(***************************************************************************)
EXTENDS Naturals, Sequences, FiniteSets

CONSTANTS Vertices,
          Graphs,    \* the graphs considered: [Vertices -> Seq(Vertices)]
          MaxDepth,  \* bound on the recursion, beyond any useful depth
          NULL

VARIABLES g,      \* the graph, by graph_neighbors
          root,   \* the argument of the outermost call
          call,   \* the argument of the call being entered, or NULL
          stack,  \* frames: the vertex and the loop index i
          set_,   \* the global set, or NULL
          ret     \* the value the last call returned: 0, 1, or NULL

vars == <<g, root, call, stack, set_, ret>>

Init ==
  /\ g \in Graphs /\ root \in Vertices
  /\ call = root /\ stack = <<>> /\ set_ = NULL /\ ret = NULL

Top == stack[Len(stack)]
Pop == SubSeq(stack, 1, Len(stack) - 1)
Visited == IF set_ = NULL THEN {} ELSE set_

\* The argument is in the set: drop the set and return 1.
Found ==
  /\ call # NULL /\ call \in Visited
  /\ set_' = NULL /\ ret' = 1 /\ call' = NULL
  /\ UNCHANGED <<g, root, stack>>

Added == Visited \cup {call}

Enter ==
  /\ call # NULL /\ call \notin Visited /\ Len(stack) < MaxDepth
  /\ set_' = Added
  /\ stack' = Append(stack, [v |-> call, i |-> 1])
  /\ call' = NULL /\ ret' = NULL
  /\ UNCHANGED <<g, root>>

Neighbors == g[Top.v]

CycleBelow == ret = 1

Propagate ==
  /\ call = NULL /\ stack # <<>> /\ CycleBelow
  /\ stack' = Pop
  /\ UNCHANGED <<g, root, call, set_, ret>>

Recurse ==
  /\ call = NULL /\ stack # <<>> /\ ~CycleBelow
  /\ Top.i <= Len(Neighbors)
  /\ call' = Neighbors[Top.i]
  /\ stack' = [stack EXCEPT ![Len(stack)].i = @ + 1]
  /\ UNCHANGED <<g, root, set_, ret>>

SetAfterLoop == NULL

LoopDone ==
  /\ call = NULL /\ stack # <<>> /\ ~CycleBelow
  /\ Top.i > Len(Neighbors)
  /\ set_' = SetAfterLoop /\ ret' = 0 /\ stack' = Pop
  /\ UNCHANGED <<g, root, call>>

Next == Found \/ Enter \/ Propagate \/ Recurse \/ LoopDone

Spec == Init /\ [][Next]_vars

-----------------------------------------------------------------------------
(* The question the function is asked *)

Edge(x, y) == \E i \in DOMAIN g[x] : g[x][i] = y

\* The vertices a non-empty path leads to from x.
After(x) ==
  {y \in Vertices :
     \A S \in SUBSET Vertices :
        (/\ \A z \in Vertices : Edge(x, z) => z \in S
         /\ \A u \in S, z \in Vertices : Edge(u, z) => z \in S) => y \in S}

CycleReachable == \E x \in After(root) \cup {root} : x \in After(x)

Returned == call = NULL /\ stack = <<>>

-----------------------------------------------------------------------------
(* Properties *)

\* The answer is 1 exactly when a cycle can be reached from the argument,
\* although the visited set is thrown away in the middle of the search.
AnswerCorrect == Returned => (ret = 1 <=> CycleReachable)

\* "Checks if the graph contains a cycle" (libdrm.c:96, parmake.c:34): a
\* vertex whose call is still active is recognised when it is met again.
CycleRecognised ==
  \A i, j \in DOMAIN stack : stack[i].v = stack[j].v => i = j
=============================================================================
