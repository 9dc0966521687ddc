----------------------------- MODULE MCParmake -----------------------------
(* Makefiles: every graph in which a target has at most one dependency      *)
(* (chains, and cycles of every length, entered from outside or not), and   *)
(* some with shared dependencies and several goals.                         *)
EXTENDS Parmake

Chains ==
  {[g |-> h, goals |-> <<1>>] :
     h \in {f \in [Vertices -> {<<>>} \cup {<<v>> : v \in Vertices}] : f[4] = <<>>}}

Shared ==
  { [g |-> <<<<2, 3>>, <<4>>, <<4>>, <<>>>>, goals |-> <<1>>],
    [g |-> <<<<3>>, <<3, 4>>, <<>>, <<>>>>, goals |-> <<1, 2>>],
    [g |-> <<<<2, 3, 4>>, <<>>, <<>>, <<>>>>, goals |-> <<1>>],
    [g |-> <<<<2>>, <<>>, <<4>>, <<3>>>>, goals |-> <<1, 3>>] }

Makefiles == Chains \cup Shared
=============================================================================
