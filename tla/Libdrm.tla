------------------------------- MODULE Libdrm -------------------------------
(***************************************************************************)
(* The deadlock-resistant mutexes of deadlock_demolition/libdrm.c.  A      *)
(* resource allocation graph g, guarded by the mutex `m`, has an edge      *)
(* thread -> drm while the thread waits and an edge drm -> thread while it *)
(* owns the drm; drm_wait refuses a request that would close a cycle.      *)
(*                                                                         *)
(* A section executed between lock(m) and unlock(m) is one action, enabled *)
(* when m is free.  pthread_mutex_lock(&drm->m) is called outside of such  *)
(* a section: between it and the exchange of the two edges the thread owns *)
(* the drm while the graph still says that it waits (pc = "swap").         *)
(***************************************************************************)
EXTENDS Naturals

CONSTANTS Threads, Drms,
          MallocMayFail,  \* whether drm_init can run out of memory
          NULL

ASSUME DrmAssumption ==
  /\ Threads \cap Drms = {} /\ NULL \notin Threads \cup Drms
  /\ MallocMayFail \in BOOLEAN

Vertex == Threads \cup Drms

VARIABLES m,         \* "free", or "lost" when drm_init returned holding it
          drms,      \* the drms that exist
          vertices, edges,  \* the graph g
          owner,     \* per drm: the thread that locked drm->m, or NULL
          pc,        \* per thread: "idle", "block" (libdrm.c:74) or "swap" (75)
          want       \* per thread: the argument of the drm_wait in progress

vars == <<m, drms, vertices, edges, owner, pc, want>>

Init ==
  /\ m = "free" /\ drms = {} /\ vertices = {} /\ edges = {}
  /\ owner = [d \in Drms |-> NULL]
  /\ pc = [t \in Threads |-> "idle"] /\ want = [t \in Threads |-> NULL]

-----------------------------------------------------------------------------
(* is_Cycle *)

Closed(E, S) == \A x \in S, y \in Vertex : <<x, y>> \in E => y \in S

Reach(E, v) ==
  {x \in Vertex : \A S \in SUBSET Vertex : v \in S /\ Closed(E, S) => x \in S}

\* Slip: the answer of is_Cycle is always 0.
Slip_NeverCycle(E, v) == FALSE

\* No vertex of this graph has two successors, so is_Cycle follows one path
\* and returns 0 when it ends, 1 when it meets a vertex of set_ again.
\* (Module IsCycle has the recursion itself and compares the two.)
is_Cycle(E, v) == \A x \in Reach(E, v) : \E y \in Vertex : <<x, y>> \in E

-----------------------------------------------------------------------------
\* When malloc fails drm_init returns without unlocking m.
DrmInit(d) ==
  /\ m = "free" /\ d \notin drms
  /\ \/ /\ drms' = drms \cup {d} /\ vertices' = vertices \cup {d}
        /\ UNCHANGED m
     \/ /\ MallocMayFail /\ m' = "lost"
        /\ UNCHANGED <<drms, vertices>>
  /\ UNCHANGED <<edges, owner, pc, want>>

\* Slip: drm_post unlocks drm->m but leaves its edge in the graph.
Slip_EdgeKept(t, d) == edges

EdgesAfterPost(t, d) == edges \ {<<d, t>>}

\* Slip: drm_post removes the edge but does not unlock drm->m.
Slip_StillLocked(d) == owner

OwnerAfterPost(d) == [owner EXCEPT ![d] = NULL]

\* A call that returns 0 (unknown vertex, or t is not the owner) changes
\* nothing.
DrmPost(t, d) ==
  /\ pc[t] = "idle" /\ m = "free"
  /\ d \in vertices /\ t \in vertices /\ <<d, t>> \in edges
  /\ edges' = EdgesAfterPost(t, d) /\ owner' = OwnerAfterPost(d)
  /\ UNCHANGED <<m, drms, vertices, pc, want>>

WithVertex(t) == vertices \cup {t}

\* drm_wait up to the first unlock(m), for a drm the thread does not own
\* (otherwise it returns 0 at once).  A refused request returns 0 with the
\* edge removed again.
WaitRequest(t, d) ==
  /\ pc[t] = "idle" /\ m = "free" /\ d \in drms
  /\ vertices' = WithVertex(t)
  /\ <<d, t>> \notin edges
  /\ LET E == edges \cup {<<t, d>>}
     IN  IF is_Cycle(E, t)
         THEN UNCHANGED <<edges, pc, want>>
         ELSE /\ edges' = E
              /\ pc' = [pc EXCEPT ![t] = "block"]
              /\ want' = [want EXCEPT ![t] = d]
  /\ UNCHANGED <<m, drms, owner>>

WaitAcquire(t) ==
  /\ pc[t] = "block" /\ owner[want[t]] = NULL
  /\ owner' = [owner EXCEPT ![want[t]] = t]
  /\ pc' = [pc EXCEPT ![t] = "swap"]
  /\ UNCHANGED <<m, drms, vertices, edges, want>>

\* Slip: the waiting edge is not removed.
Slip_WaitEdgeKept(t, d) == edges \cup {<<d, t>>}

EdgesAfterSwap(t, d) == (edges \ {<<t, d>>}) \cup {<<d, t>>}

WaitSwap(t) ==
  /\ pc[t] = "swap" /\ m = "free"
  /\ edges' = EdgesAfterSwap(t, want[t])
  /\ pc' = [pc EXCEPT ![t] = "idle"] /\ want' = [want EXCEPT ![t] = NULL]
  /\ UNCHANGED <<m, drms, vertices, owner>>

\* drm_destroy does not take m; callers destroy a drm nobody uses.
DrmDestroy(d) ==
  /\ d \in drms /\ owner[d] = NULL /\ \A t \in Threads : want[t] # d
  /\ drms' = drms \ {d} /\ vertices' = vertices \ {d}
  /\ edges' = {e \in edges : e[1] # d /\ e[2] # d}
  /\ UNCHANGED <<m, owner, pc, want>>

Next ==
  \/ \E d \in Drms : DrmInit(d) \/ DrmDestroy(d)
  \/ \E t \in Threads : WaitAcquire(t) \/ WaitSwap(t)
  \/ \E t \in Threads, d \in Drms : WaitRequest(t, d) \/ DrmPost(t, d)

Spec == Init /\ [][Next]_vars

\* Threads that are not blocked run, an owner gives its drms back in the end,
\* and a drm that becomes free again and again is not denied for ever.
Fairness ==
  \A t \in Threads :
     /\ WF_vars(WaitSwap(t)) /\ SF_vars(WaitAcquire(t))
     /\ \A d \in Drms : SF_vars(DrmPost(t, d))

-----------------------------------------------------------------------------
(* Properties *)

TypeOK ==
  /\ m \in {"free", "lost"}
  /\ drms \in SUBSET Drms
  /\ vertices \in SUBSET Vertex
  /\ edges \in SUBSET (vertices \X vertices)
  /\ owner \in [Drms -> Threads \cup {NULL}]
  /\ pc \in [Threads -> {"idle", "block", "swap"}]
  /\ want \in [Threads -> Drms \cup {NULL}]

\* The graph tells the truth although it changes apart from the mutexes it
\* describes: an edge thread -> drm exactly while the thread is inside its
\* drm_wait, an edge drm -> thread exactly while the thread owns the drm and
\* has exchanged the edges.
GraphTruth ==
  /\ \A t \in Threads, d \in Drms :
       /\ <<t, d>> \in edges <=> pc[t] # "idle" /\ want[t] = d
       /\ <<d, t>> \in edges <=> owner[d] = t /\ ~(pc[t] = "swap" /\ want[t] = d)
  /\ \A x, y \in Vertex : <<x, y>> \in edges => (x \in Threads <=> y \in Drms)

\* Some threads wait for one another in a circle.
CircularWait(S) ==
  /\ S # {}
  /\ \A t \in S : pc[t] = "block" /\ owner[want[t]] \in S

\* drm_wait never lets a set of threads block on drms that its own members
\* own, although pthread_mutex_lock(&drm->m) happens after m was released.
NoDeadlock == \A S \in SUBSET Threads : ~CircularWait(S)

\* drm_wait refuses only what would deadlock: if it would refuse d to t, then
\* t belongs to a set of threads that wait for one another once t waits for d.
RefusalJustified ==
  \A t \in Threads, d \in drms :
     (pc[t] = "idle" /\ <<d, t>> \notin edges /\ is_Cycle(edges \cup {<<t, d>>}, t))
     => \E S \in SUBSET Threads :
          /\ t \in S /\ owner[d] \in S
          /\ \A u \in S \ {t} : pc[u] = "block" /\ owner[want[u]] \in S

\* A thread that drm_wait lets in gets the drm, if owners release theirs and
\* no drm_init ran out of memory (it would keep the graph mutex for ever).
WaitReturns ==
  [](m = "free") => \A t \in Threads : pc[t] = "block" ~> pc[t] = "idle"
=============================================================================
