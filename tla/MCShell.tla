------------------------------ MODULE MCShell ------------------------------
(* Lines a user may type: single commands, in the background too, the three *)
(* operators, references to the history, and signals.                       *)
EXTENDS Shell

Word(kind) ==
  [kind |-> kind, name |-> kind, op |-> "none", bg |-> FALSE, cmds |-> <<kind>>,
   n |-> 0, pid |-> 1]
Cmds(c, o, b) ==
  [Word("run") EXCEPT !.name = Head(c), !.cmds = c, !.op = o, !.bg = b]

UserLines ==
  { Cmds(<<"a">>, "none", FALSE), Cmds(<<"b">>, "none", TRUE),
    Cmds(<<"a", "c">>, "and", FALSE), Cmds(<<"kill", "a", "c">>, "or", FALSE),
    Cmds(<<"b", "c">>, "seq", TRUE), Cmds(<<"cd", "a">>, "and", FALSE),
    Word("exit"), Word("cd"), Word("ps"), Word("history"),
    Word("last"), Word("nth"),
    [Word("prefix") EXCEPT !.name = "a"],
    Word("stop"), Word("cont"), Word("kill") }
=============================================================================
