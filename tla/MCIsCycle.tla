----------------------------- MODULE MCIsCycle -----------------------------
(* A dependency graph on which the visited set is thrown away too early.    *)
EXTENDS IsCycle, TLC

\* The goal 1 depends on 2 and 3, 3 depends on 1 again, 2 on nothing.
LeafBeforeCycle == {(1 :> <<2, 3>> @@ 2 :> <<>> @@ 3 :> <<1>>)}
=============================================================================
