----------------------------- MODULE ShellProofs -----------------------------
(***************************************************************************)
(* Proofs about shell.c for any lines, any pids and any number of forks.   *)
(*                                                                         *)
(* TableTrue is inductive once it is known that no pid stands in the table *)
(* twice, as long as none was given out again: switch_status changes the   *)
(* first entry of a pid only.  AndStopsAtFailure needs that a line is      *)
(* being executed whenever a command is about to start.                    *)
(***************************************************************************)
EXTENDS Shell, FiniteSetTheorems, SequenceTheorems, WellFoundedInduction, TLAPS

Entry == [pid : Pids \cup {NoPid}, status : {"running", "stopped", "killed"}]

\* The line that is executed.
LineTypes ==
  /\ vec \in Seq(LineRecord) /\ todo \in Seq(STRING)
  /\ spc \in {"prompt", "fork", "wait", "done"}
  /\ spc \in {"fork", "wait"} => line \in LineRecord
  /\ spc = "fork" => todo # <<>>

ShellTypes ==
  /\ LineTypes
  /\ processes \in Seq(Entry) /\ commands \in Seq(STRING) /\ reused \in BOOLEAN
  /\ child \in [Pids -> {"none", "running", "stopped", "zombie"}]

\* No pid stands in the table twice.
Different == \A k, n \in DOMAIN processes : processes[k].pid = processes[n].pid => k = n

\* An entry agrees with the child.
Agrees(status, state) ==
  /\ status = "killed" => state \in {"none", "zombie"}
  /\ status = "stopped" => state # "running"
  /\ status = "running" => state # "stopped"

TableInv ==
  ~reused =>
    /\ Len(commands) = Len(processes) /\ Different
    /\ \A k \in DOMAIN processes :
         processes[k].pid \in Pids => Agrees(processes[k].status, child[processes[k].pid])

ShellInv == ShellTypes /\ TableInv /\ AndStopsAtFailure

LEMMA LeastOf ==
  ASSUME NEW T, T \subseteq Nat, T # {}
  PROVE  \E x \in T : \A y \in T : x <= y
<1>1. \E R : IsWellFoundedOn(R, Nat) /\ \A a, b \in Nat : a < b => <<a, b>> \in R
  <2>1. \A a, b \in Nat : a < b => <<a, b>> \in OpToRel(<, Nat)
    BY DEF OpToRel
  <2> QED
    BY <2>1, NatLessThanWellFounded, Zenon
<1>2. PICK R : IsWellFoundedOn(R, Nat) /\ \A a, b \in Nat : a < b => <<a, b>> \in R
  BY <1>1
<1>3. \E x \in T : \A y \in T : ~(<<y, x>> \in R)
  <2>1. IsWellFoundedOn(R, Nat)
    BY <1>2
  <2> QED
    BY <2>1, WFMin, Zenon
<1>4. PICK x \in T : \A y \in T : ~(<<y, x>> \in R)
  BY <1>3
<1>5. \A y \in T : ~(y < x)
  BY <1>2, <1>4
<1> QED
  BY <1>5

LEMMA GreatestOf ==
  ASSUME NEW n \in Nat, NEW T, T \subseteq 1 .. n, T # {}
  PROVE  Max(T) \in T
<1> DEFINE D == {n - x : x \in T}
<1>1. D \subseteq Nat /\ D # {}
  <2>1. \A x \in T : n - x \in Nat
    OBVIOUS
  <2>2. PICK x : x \in T
    OBVIOUS
  <2> QED
    BY <2>1, <2>2
<1>2. PICK d \in D : \A y \in D : d <= y
  BY <1>1, LeastOf
<1>3. PICK x \in T : d = n - x
  BY <1>2
<1>4. \A y \in T : n - y \in D
  OBVIOUS
<1> HIDE DEF D
<1>5. \A y \in T : n - x <= n - y
  BY <1>2, <1>3, <1>4
<1>6. \A y \in T : x >= y
  BY <1>5
<1> QED
  BY <1>6 DEF Max

\* IndexOf finds the entry of a pid if there is one.
LEMMA IndexFound ==
  ASSUME processes \in Seq(Entry), NEW pid
  PROVE  \/ IndexOf(pid) = 0 /\ \A k \in DOMAIN processes : processes[k].pid # pid
         \/ IndexOf(pid) \in DOMAIN processes /\ processes[IndexOf(pid)].pid = pid
<1> DEFINE I == {k \in 1 .. Len(processes) : processes[k].pid = pid}
<1>1. IndexOf(pid) = IF I # {} THEN Min(I) ELSE 0
  BY DEF IndexOf, SelectInSeq
<1>2. DOMAIN processes = 1 .. Len(processes)
  OBVIOUS
<1>3. CASE I = {}
  BY <1>1, <1>2, <1>3
<1>4. CASE I # {}
  <2>1. \E x \in I : \A y \in I : x <= y
    <3>1. I \subseteq Nat
      OBVIOUS
    <3> HIDE DEF I
    <3> QED
      BY <1>4, <3>1, LeastOf
  <2>2. Min(I) \in I
    BY <2>1 DEF Min
  <2> QED
    BY <1>1, <1>2, <1>4, <2>2
<1> QED
  BY <1>3, <1>4

\* What add_process does to the table.
LEMMA AddEffect ==
  ASSUME ShellTypes, NEW pid \in Pids \cup {NoPid}, NEW command \in STRING, add_process(pid, command)
  PROVE  /\ processes' \in Seq(Entry) /\ commands' \in Seq(STRING) /\ reused' \in BOOLEAN
         /\ ~reused' => /\ ~reused /\ \A k \in DOMAIN processes : processes[k].pid # pid
                        /\ processes' = Append(processes, [pid |-> pid, status |-> "running"])
                        /\ Len(commands') = Len(commands) + 1
<1> DEFINE new == [pid |-> pid, status |-> "running"]
<1>0. new \in Entry /\ processes \in Seq(Entry) /\ commands \in Seq(STRING)
  BY DEF Entry, ShellTypes
<1>1. commands' \in Seq(STRING) /\ Len(commands') = Len(commands) + 1
  BY <1>0 DEF add_process, Recorded
<1>2. CASE IndexOf(pid) = 0
  <2>1. \A k \in DOMAIN processes : processes[k].pid # pid
    BY <1>0, <1>2, IndexFound
  <2>2. processes' = Append(processes, new)
    BY <1>2 DEF add_process
  <2>3. processes' \in Seq(Entry)
    BY <1>0, <2>2
  <2>4. reused' \in BOOLEAN /\ (~reused' => ~reused)
    BY <1>2 DEF add_process, ShellTypes
  <2> QED
    BY <1>1, <2>1, <2>2, <2>3, <2>4
<1>3. CASE IndexOf(pid) # 0
  <2>1. IndexOf(pid) \in DOMAIN processes
    BY <1>0, <1>3, IndexFound
  <2>2. processes' = [processes EXCEPT ![IndexOf(pid)].status = "running"]
    BY <1>3 DEF add_process, WithStatus
  <2>3. [processes[IndexOf(pid)] EXCEPT !.status = "running"] \in Entry
    <3>1. processes[IndexOf(pid)] \in Entry
      BY <1>0, <2>1
    <3> HIDE DEF new
    <3> QED
      BY <3>1 DEF Entry
  <2>4. processes' \in Seq(Entry)
    BY <1>0, <2>1, <2>2, <2>3
  <2>5. reused' = TRUE
    BY <1>3 DEF add_process
  <2> QED
    BY <1>1, <2>4, <2>5
<1> QED
  BY <1>2, <1>3

SignalKinds == {"stop", "cont", "kill"}
ChildStates == {"none", "running", "stopped", "zombie"}

LEMMA SignalTypes ==
  ASSUME ShellTypes, NEW pid, NEW from, NEW to \in ChildStates, Signal(pid, from, to)
  PROVE  /\ child' \in [Pids -> ChildStates]
         /\ \A p \in Pids : p # pid => child'[p] = child[p]
         /\ pid \in Pids => child'[pid] = IF child[pid] \in from THEN to ELSE child[pid]
<1>1. child \in [Pids -> ChildStates]
  BY DEF ShellTypes, ChildStates
<1>2. CASE pid \in Pids /\ child[pid] \in from
  <2>1. child' = [child EXCEPT ![pid] = to]
    BY <1>2 DEF Signal
  <2> QED
    BY <1>1, <1>2, <2>1
<1>3. CASE ~(pid \in Pids /\ child[pid] \in from)
  <2>1. child' = child
    BY <1>3 DEF Signal, system_vars
  <2> QED
    BY <1>1, <1>3, <2>1
<1> QED
  BY <1>2, <1>3

\* stop, cont and kill change one entry and one child, and in the same way.
LEMMA SignalEffect ==
  ASSUME ShellTypes, NEW h \in Seq(LineRecord), NEW l \in LineRecord, l.kind \in SignalKinds,
         SendSignal(h, l)
  PROVE  /\ vec' \in Seq(LineRecord) /\ processes' \in Seq(Entry) /\ child' \in [Pids -> ChildStates]
         /\ TableInv /\ UNCHANGED <<commands, reused>> => TableInv'
<1>0. vec' \in Seq(LineRecord)
  BY DEF SendSignal
<1>1. processes \in Seq(Entry) /\ child \in [Pids -> ChildStates]
  BY DEF ShellTypes, ChildStates
<1>2. CASE UNCHANGED <<processes, child>>
  BY <1>0, <1>1, <1>2 DEF TableInv, Different, Agrees
<1>3. CASE Switchable(l.pid) /\ Sent(l) /\ processes' = WithStatus(l.pid, Status(l))
  <2> DEFINE n == IndexOf(l.pid)
             s == Status(l)
  <2>1. n \in DOMAIN processes /\ processes[n].pid = l.pid
    BY <1>1, <1>3, IndexFound DEF Switchable
  <2>2. /\ s \in {"running", "stopped", "killed"} /\ child' \in [Pids -> ChildStates]
        /\ \A p \in Pids : p # l.pid => child'[p] = child[p]
        /\ l.pid \in Pids => Agrees(s, child'[l.pid])
    <3>1. CASE l.kind = "stop"
      <4>1. s = "stopped" /\ Signal(l.pid, {"running"}, "stopped")
        BY <1>3, <3>1 DEF Sent, Status
      <4> QED
        BY <1>1, <4>1, SignalTypes DEF Agrees, ChildStates
    <3>2. CASE l.kind = "cont"
      <4>1. s = "running" /\ Signal(l.pid, {"stopped"}, "running")
        BY <1>3, <3>2 DEF Sent, Status
      <4> QED
        BY <1>1, <4>1, SignalTypes DEF Agrees, ChildStates
    <3>3. CASE l.kind = "kill"
      <4>1. s = "killed" /\ Signal(l.pid, {"running", "stopped"}, "zombie")
        BY <1>3, <3>3 DEF Sent, Status
      <4> QED
        BY <1>1, <4>1, SignalTypes DEF Agrees, ChildStates
    <3> QED
      BY <3>1, <3>2, <3>3 DEF SignalKinds
  <2>3. processes' = [processes EXCEPT ![n].status = s]
    BY <1>3 DEF WithStatus
  <2> HIDE DEF n, s
  <2>4. [processes[n] EXCEPT !.status = s] \in Entry
    <3>1. processes[n] \in Entry
      BY <1>1, <2>1
    <3> QED
      BY <2>2, <3>1 DEF Entry
  <2>5. processes' \in Seq(Entry) /\ DOMAIN processes' = DOMAIN processes /\ Len(processes') = Len(processes)
    BY <1>1, <2>1, <2>3, <2>4
  <2>6. /\ \A k \in DOMAIN processes : k # n => processes'[k] = processes[k]
        /\ processes'[n].pid = l.pid /\ processes'[n].status = s
    <3>1. processes[n] \in Entry /\ processes'[n] = [processes[n] EXCEPT !.status = s]
      BY <1>1, <2>1, <2>3
    <3> QED
      BY <1>1, <2>1, <2>3, <3>1 DEF Entry
  <2>7. TableInv /\ UNCHANGED <<commands, reused>> => TableInv'
    BY <2>1, <2>2, <2>5, <2>6 DEF TableInv, Different
  <2> QED
    BY <1>0, <2>2, <2>5, <2>7
<1> QED
  BY <1>2, <1>3 DEF SendSignal, system_vars

\* Steps that leave the table alone and at most end or reap children.
KeepsTable ==
  /\ UNCHANGED <<processes, commands, reused>> /\ child' \in [Pids -> ChildStates]
  /\ \A p \in Pids : child'[p] = child[p] \/ child'[p] \in {"none", "zombie"}
SendsSignal ==
  /\ \E h \in Seq(LineRecord), l \in LineRecord : l.kind \in SignalKinds /\ SendSignal(h, l)
  /\ UNCHANGED <<commands, reused>>
AddsProcess ==
  \E command \in STRING :
    \/ \E pid \in Pids : /\ child[pid] = "none" /\ add_process(pid, command)
                         /\ child' = [child EXCEPT ![pid] = "running"]
    \/ add_process(NoPid, command) /\ UNCHANGED child

\* A line of the history, or the user's, is executed.
LEMMA AgainEffect ==
  ASSUME ShellTypes, NEW h \in Seq(LineRecord), NEW l \in LineRecord,
         \/ Again(h, l) \/ Begin(h, l) \/ ChangeDirectory(h, l)
         \/ l.kind \in SignalKinds /\ SignalProcess(h, l)
  PROVE  /\ KeepsTable \/ SendsSignal
         /\ vec' \in Seq(LineRecord) /\ spc' \in {"prompt", "fork"} /\ todo' \in Seq(STRING)
         /\ spc' = "fork" => line' \in LineRecord /\ todo' # <<>> /\ todo' = line'.cmds
<1>0. child \in [Pids -> ChildStates] /\ l.cmds \in Seq(STRING) /\ l.cmds # <<>>
  BY DEF ShellTypes, ChildStates, LineRecord
<1>1. CASE Begin(h, l)
  <2>1. /\ vec' = InHistory(h, l) /\ line' = l /\ todo' = l.cmds /\ spc' = "fork"
        /\ UNCHANGED <<processes, commands, reused, child>>
    BY <1>1 DEF Begin, table_vars, system_vars
  <2>2. vec' \in Seq(LineRecord)
    BY <2>1 DEF InHistory
  <2> QED
    BY <1>0, <2>1, <2>2 DEF KeepsTable
<1>2. CASE ChangeDirectory(h, l)
  <2>1. /\ vec' = Append(h, l) /\ spc' = "prompt" /\ todo' = <<>>
        /\ UNCHANGED <<processes, commands, reused, child>>
    BY <1>2 DEF ChangeDirectory, Prompt, system_vars
  <2> QED
    BY <1>0, <2>1 DEF KeepsTable
<1>3. CASE l.kind \in SignalKinds /\ SignalProcess(h, l)
  <2>1. SendSignal(h, l) /\ spc' = "prompt" /\ todo' = <<>> /\ UNCHANGED <<commands, reused>>
    BY <1>3 DEF SignalProcess, Prompt
  <2>2. SendsSignal
    BY <1>3, <2>1 DEF SendsSignal
  <2>3. vec' \in Seq(LineRecord)
    BY <1>3, <2>1, SignalEffect
  <2> QED
    BY <2>1, <2>2, <2>3
<1> QED
  BY <1>1, <1>2, <1>3 DEF Again, SignalKinds

\* The next command of a line, or its end.
LEMMA ContinueEffect ==
  ASSUME NEW rest \in Seq(STRING), NEW status \in {0, -1}, line \in LineRecord, Continue(rest, status)
  PROVE  /\ spc' \in {"prompt", "fork", "done"}
         /\ spc' = "fork" => /\ line' = line /\ todo' = rest /\ rest # <<>>
                             /\ line.op = "and" => status # -1
         /\ spc' = "prompt" => todo' = <<>>
         /\ spc' = "done" => todo' = todo
BY DEF Continue, GoesOn, ExitShell, Prompt

\* A step that goes on with the line, or does nothing to it.
LEMMA LineContinues ==
  ASSUME ShellTypes, NEW rest \in Seq(STRING), NEW status \in {0, -1}, line \in LineRecord,
         Continue(rest, status), vec' \in Seq(LineRecord), status # -1 => before' # 1
  PROVE  LineTypes' /\ AndStopsAtFailure'
<1>1. /\ spc' \in {"prompt", "fork", "done"}
      /\ spc' = "fork" => /\ line' = line /\ todo' = rest /\ rest # <<>>
                          /\ line.op = "and" => status # -1
      /\ spc' = "prompt" => todo' = <<>>
      /\ spc' = "done" => todo' = todo
  BY ContinueEffect
<1>2. todo' \in Seq(STRING)
  <2>1. todo \in Seq(STRING) /\ <<>> \in Seq(STRING)
    BY DEF ShellTypes, LineTypes
  <2> QED
    BY <1>1, <2>1
<1> QED
  BY <1>1, <1>2 DEF LineTypes, AndStopsAtFailure

\* A user's line.
LEMMA UserEffect ==
  ASSUME ShellTypes, NEW l \in Lines, UserTypes(l)
  PROVE  (KeepsTable \/ SendsSignal) /\ LineTypes' /\ AndStopsAtFailure'
<1>0. /\ l \in LineRecord /\ vec \in Seq(LineRecord) /\ todo \in Seq(STRING)
      /\ child \in [Pids -> ChildStates]
  BY ShellAssumption DEF ShellTypes, LineTypes, ChildStates
<1>1. ASSUME NEW h \in Seq(LineRecord), NEW k \in LineRecord,
             \/ Again(h, k) \/ Begin(h, k) \/ ChangeDirectory(h, k)
             \/ k.kind \in SignalKinds /\ SignalProcess(h, k)
      PROVE  (KeepsTable \/ SendsSignal) /\ LineTypes' /\ AndStopsAtFailure'
  BY <1>1, AgainEffect DEF LineTypes, AndStopsAtFailure
<1>2. CASE OnlyPrint
  BY <1>0, <1>2 DEF OnlyPrint, Prompt, KeepsTable, LineTypes, AndStopsAtFailure, system_vars
<1>3. CASE RunLine(l)
  BY <1>0, <1>1, <1>3 DEF RunLine
<1>4. CASE BuiltIn(l)
  BY <1>0, <1>1, <1>4 DEF BuiltIn, SignalKinds
<1>5. CASE ShowHistory(l)
  BY <1>2, <1>5 DEF ShowHistory
<1>6. CASE Ps(l)
  <2>1. CASE OnlyPrint
    BY <1>2, <2>1
  <2>2. CASE spc' = "done" /\ UNCHANGED <<vec, history_file, table_vars, line, todo, curr_pid,
                                         system_vars, forks, reused, before>>
    BY <1>0, <2>2 DEF KeepsTable, LineTypes, AndStopsAtFailure, system_vars, table_vars
  <2> QED
    BY <1>6, <2>1, <2>2 DEF Ps
<1>7. CASE RunNth(l)
  <2>1. CASE l.n < Len(vec)
    <3>1. l.n \in Nat
      BY <1>0 DEF LineRecord
    <3>2. vec[l.n + 1] \in LineRecord
      BY <1>0, <2>1, <3>1
    <3> QED
      BY <1>0, <1>1, <1>7, <2>1, <3>2 DEF RunNth
  <2> QED
    BY <1>2, <1>7, <2>1 DEF RunNth
<1>8. CASE RunLast(l)
  <2>1. CASE vec # <<>>
    <3>1. Last(vec) \in LineRecord /\ Front(vec) \in Seq(LineRecord)
      BY <1>0, <2>1 DEF Last, Front
    <3>2. Cut(Last(vec)) \in LineRecord
      <4>1. \A r \in LineRecord : Cut(r) \in LineRecord
        <5>1. ASSUME NEW r \in LineRecord PROVE Cut(r) \in LineRecord
          <6>1. r.cmds \in Seq(STRING) /\ r.cmds # <<>>
            BY DEF LineRecord
          <6>2. <<Head(r.cmds)>> \in Seq(STRING) \ {<<>>}
            BY <6>1
          <6> DEFINE c == <<Head(r.cmds)>>
          <6> HIDE DEF c
          <6>3. [r EXCEPT !.cmds = c] \in LineRecord
            BY <6>2 DEF c, LineRecord
          <6>4. [[r EXCEPT !.cmds = c] EXCEPT !.op = "none"] \in LineRecord
            BY <6>3 DEF LineRecord
          <6>5. [r EXCEPT !.cmds = c, !.op = "none"] = [[r EXCEPT !.cmds = c] EXCEPT !.op = "none"]
            BY DEF LineRecord
          <6> QED
            BY <6>4, <6>5 DEF Cut, c
        <5> QED
          BY <5>1
      <4> QED
        BY <3>1, <4>1
    <3>3. Append(Front(vec), Cut(Last(vec))) \in Seq(LineRecord)
      BY <3>1, <3>2
    <3>4. Again(Append(Front(vec), Cut(Last(vec))), Last(vec))
      BY <1>8, <2>1 DEF RunLast
    <3> QED
      BY <1>1, <3>1, <3>3, <3>4
  <2> QED
    BY <1>2, <1>8, <2>1 DEF RunLast
<1>9. CASE RunPrefix(l)
  <2> DEFINE I == {k \in 1 .. Len(vec) : vec[k].name = l.name}
  <2>1. CASE I = {}
    BY <1>2, <1>9, <2>1 DEF RunPrefix, SelectLastInSeq
  <2>2. CASE I # {}
    <3>1. Max(I) \in I
      <4>1. I \subseteq 1 .. Len(vec) /\ Len(vec) \in Nat
        BY <1>0
      <4> HIDE DEF I
      <4> QED
        BY <2>2, <4>1, GreatestOf
    <3>2. Again(vec, vec[Max(I)])
      BY <1>9, <2>2, <3>1 DEF RunPrefix, SelectLastInSeq
    <3>3. vec[Max(I)] \in LineRecord
      BY <1>0, <3>1
    <3> QED
      BY <1>0, <1>1, <3>2, <3>3
  <2> QED
    BY <2>1, <2>2
<1> QED
  BY <1>3, <1>4, <1>5, <1>6, <1>7, <1>8, <1>9 DEF UserTypes

\* Every other step.
LEMMA StepEffect ==
  ASSUME ShellTypes, AndStopsAtFailure, [Next]_vars
  PROVE  (KeepsTable \/ SendsSignal \/ AddsProcess) /\ LineTypes' /\ AndStopsAtFailure'
<1>0. /\ vec \in Seq(LineRecord) /\ todo \in Seq(STRING) /\ child \in [Pids -> ChildStates]
      /\ spc \in {"fork", "wait"} => line \in LineRecord
      /\ spc = "fork" => Head(todo) \in STRING /\ Tail(todo) \in Seq(STRING)
  BY DEF ShellTypes, LineTypes, ChildStates
<1>1. CASE UNCHANGED <<vec, spc, line, todo, before, processes, commands, reused>>
           /\ child' \in [Pids -> ChildStates]
           /\ \A p \in Pids : child'[p] = child[p] \/ child'[p] \in {"none", "zombie"}
  BY <1>1 DEF KeepsTable, ShellTypes, LineTypes, AndStopsAtFailure
<1>2. ASSUME NEW p \in Pids, ChildExits(p) PROVE <1>1!1
  BY <1>0, <1>2 DEF ChildExits, shell_vars, history_vars, table_vars, ChildStates
<1>3. CASE signal_handler
  <2>1. child' = [p \in Pids |-> IF p \in Reaped THEN "none" ELSE child[p]]
        /\ UNCHANGED <<vec, spc, line, todo, before, processes, commands, reused>>
    BY <1>3 DEF signal_handler, shell_vars, history_vars, table_vars
  <2> QED
    BY <1>0, <1>1, <2>1 DEF ChildStates
<1>4. CASE Fork
  <2>1. PICK pid \in Pids : /\ child[pid] = "none" /\ add_process(pid, Head(todo))
                            /\ child' = [child EXCEPT ![pid] = "running"]
    BY <1>4 DEF Fork
  <2>2. spc = "fork" /\ spc' = "wait" /\ todo' = Tail(todo) /\ UNCHANGED <<vec, line>>
    BY <1>4 DEF Fork, ForksProgram
  <2>3. AddsProcess
    BY <1>0, <2>1, <2>2 DEF AddsProcess
  <2> QED
    BY <1>0, <2>2, <2>3 DEF LineTypes, AndStopsAtFailure
<1>5. CASE ForkFails
  <2>1. /\ spc = "fork" /\ add_process(NoPid, Head(todo)) /\ Continue(Tail(todo), -1)
        /\ UNCHANGED <<vec, child>>
    BY <1>5 DEF ForkFails, ForksProgram, system_vars
  <2>2. AddsProcess
    BY <1>0, <2>1 DEF AddsProcess
  <2> QED
    BY <1>0, <2>1, <2>2, LineContinues
<1>6. CASE Wait
  <2>1. spc = "wait" /\ UNCHANGED <<vec, processes, commands, reused>>
    BY <1>6 DEF Wait
  <2>2. KeepsTable
    <3>1. UNCHANGED child \/ child' = [child EXCEPT ![curr_pid] = "none"]
      BY <1>6 DEF Wait
    <3> QED
      BY <1>0, <2>1, <3>1 DEF KeepsTable, ChildStates
  <2>3. \E status \in {0, -1} : Continue(todo, status) /\ (status # -1 => before' # 1)
    BY <1>6 DEF Wait, ExitStatus
  <2> QED
    BY <1>0, <2>1, <2>2, <2>3, LineContinues
<1>7. CASE Background
  <2>1. spc = "wait" /\ Continue(todo, 0) /\ before' = 0 /\ UNCHANGED <<vec, processes, commands, reused>>
    BY <1>7 DEF Background
  <2>2. KeepsTable
    <3>1. UNCHANGED child \/ child' = [child EXCEPT ![curr_pid] = "none"]
      BY <1>7 DEF Background
    <3> QED
      BY <1>0, <2>1, <3>1 DEF KeepsTable, ChildStates
  <2> QED
    BY <1>0, <2>1, <2>2, LineContinues
<1>8. ASSUME NEW status \in {0, -1}, RunBuiltIn(status)
      PROVE  (KeepsTable \/ SendsSignal) /\ LineTypes' /\ AndStopsAtFailure'
  <2>1. spc = "fork" /\ Continue(Tail(todo), status) /\ before' = -status /\ UNCHANGED <<commands, reused>>
    BY <1>8 DEF RunBuiltIn
  <2>2. (KeepsTable \/ SendsSignal) /\ vec' \in Seq(LineRecord)
    <3>1. CASE UNCHANGED <<vec, processes, system_vars>>
      BY <1>0, <2>1, <3>1 DEF KeepsTable, system_vars
    <3>2. CASE Head(todo) \in BuiltIns /\ Head(todo) # "cd" /\ SendSignal(vec, CommandWord)
      <4>1. CommandWord \in LineRecord /\ CommandWord.kind \in SignalKinds
        <5>1. line \in LineRecord /\ Head(todo) \in STRING /\ Head(todo) \in SignalKinds
          BY <1>0, <2>1, <3>2 DEF BuiltIns, SignalKinds
        <5>2. CommandWord \in LineRecord /\ CommandWord.kind = Head(todo)
          BY <5>1 DEF CommandWord, LineRecord, SignalKinds
        <5> QED
          BY <5>1, <5>2
      <4> QED
        BY <1>0, <2>1, <3>2, <4>1, SignalEffect DEF SendsSignal
    <3> QED
      BY <1>8, <3>1, <3>2 DEF RunBuiltIn
  <2>3. status # -1 => before' # 1
    BY <2>1
  <2>4. LineTypes' /\ AndStopsAtFailure'
    BY <1>0, <2>1, <2>2, <2>3, LineContinues
  <2> QED
    BY <2>2, <2>4
<1>9. CASE Eof
  BY <1>0, <1>9 DEF Eof, KeepsTable, LineTypes, AndStopsAtFailure, system_vars, history_vars, table_vars
<1>10. CASE UNCHANGED vars
  BY <1>0, <1>1, <1>10 DEF vars, shell_vars, system_vars, history_vars, table_vars
<1> QED
  BY <1>1, <1>2, <1>3, <1>4, <1>5, <1>6, <1>7, <1>8, <1>9, <1>10, UserEffect DEF Next, Step

LEMMA TableStep == ShellTypes /\ TableInv /\ (KeepsTable \/ SendsSignal \/ AddsProcess) /\ LineTypes'
                   => ShellTypes' /\ TableInv'
<1> SUFFICES ASSUME ShellTypes, TableInv, KeepsTable \/ SendsSignal \/ AddsProcess, LineTypes'
             PROVE  ShellTypes' /\ TableInv'
  OBVIOUS
<1>0. processes \in Seq(Entry) /\ commands \in Seq(STRING) /\ reused \in BOOLEAN
      /\ child \in [Pids -> ChildStates]
  BY DEF ShellTypes, ChildStates
<1>1. CASE KeepsTable
  BY <1>0, <1>1 DEF KeepsTable, ShellTypes, TableInv, Different, Agrees, ChildStates
<1>2. CASE SendsSignal
  <2>1. PICK h \in Seq(LineRecord), l \in LineRecord : l.kind \in SignalKinds /\ SendSignal(h, l)
    BY <1>2 DEF SendsSignal
  <2> QED
    BY <1>0, <1>2, <2>1, SignalEffect DEF SendsSignal, ShellTypes, ChildStates
<1>3. ASSUME NEW command \in STRING, NEW pid \in Pids \cup {NoPid}, add_process(pid, command),
             child' \in [Pids -> ChildStates],
             pid \in Pids => child'[pid] = "running",
             \A p \in Pids \ {pid} : child'[p] = child[p]
      PROVE  ShellTypes' /\ TableInv'
  <2>1. /\ processes' \in Seq(Entry) /\ commands' \in Seq(STRING) /\ reused' \in BOOLEAN
        /\ ~reused' => /\ ~reused /\ \A k \in DOMAIN processes : processes[k].pid # pid
                       /\ processes' = Append(processes, [pid |-> pid, status |-> "running"])
                       /\ Len(commands') = Len(commands) + 1
    BY <1>3, AddEffect
  <2>2. ASSUME ~reused' PROVE TableInv'
    <3> DEFINE n == Len(processes)
               new == [pid |-> pid, status |-> "running"]
    <3>1. /\ n \in Nat /\ new \in Entry /\ DOMAIN processes = 1 .. n /\ DOMAIN processes' = 1 .. n + 1
          /\ Len(processes') = n + 1 /\ processes'[n + 1] = new
          /\ \A k \in 1 .. n : processes'[k] = processes[k]
      <4>1. new \in Entry /\ processes' = Append(processes, new)
        BY <2>1, <2>2 DEF Entry
      <4> HIDE DEF new
      <4> QED
        BY <1>0, <4>1
    <3>2. \A k \in 1 .. n + 1 : k \in 1 .. n \/ k = n + 1
      BY <3>1
    <3>3. new.pid = pid /\ new.status = "running"
      OBVIOUS
    <3> HIDE DEF n, new
    <3>4. Different'
      BY <2>1, <2>2, <3>1, <3>2, <3>3 DEF TableInv, Different
    <3>5. Len(commands') = Len(processes')
      BY <2>1, <2>2, <3>1 DEF TableInv, n
    <3>6. \A k \in DOMAIN processes' :
            processes'[k].pid \in Pids => Agrees(processes'[k].status, child'[processes'[k].pid])
      BY <1>3, <2>1, <2>2, <3>1, <3>2, <3>3 DEF TableInv, Agrees
    <3> QED
      BY <3>4, <3>5, <3>6 DEF TableInv
  <2>3. TableInv'
    BY <2>2, Zenon DEF TableInv
  <2> QED
    BY <1>3, <2>1, <2>3 DEF ShellTypes, ChildStates
<1>4. CASE AddsProcess
  <2>1. PICK command \in STRING :
          \/ \E pid \in Pids : /\ child[pid] = "none" /\ add_process(pid, command)
                               /\ child' = [child EXCEPT ![pid] = "running"]
          \/ add_process(NoPid, command) /\ UNCHANGED child
    BY <1>4 DEF AddsProcess
  <2>2. ASSUME NEW pid \in Pids, add_process(pid, command), child' = [child EXCEPT ![pid] = "running"]
        PROVE  ShellTypes' /\ TableInv'
    <3>1. child' \in [Pids -> ChildStates] /\ child'[pid] = "running"
          /\ \A p \in Pids \ {pid} : child'[p] = child[p]
      BY <1>0, <2>2 DEF ChildStates
    <3> QED
      BY <1>3, <2>2, <3>1
  <2>3. CASE add_process(NoPid, command) /\ UNCHANGED child
    BY <1>0, <1>3, <2>3, ShellAssumption
  <2> QED
    BY <2>1, <2>2, <2>3
<1> QED
  BY <1>1, <1>2, <1>4

LEMMA ShellInvariance == Spec => []ShellInv
<1>1. Init => ShellInv
  <2> SUFFICES ASSUME Init PROVE ShellInv
    OBVIOUS
  <2>1. ShellTypes
    <3>1. vec \in Seq(LineRecord) /\ todo \in Seq(STRING) /\ spc = "prompt"
      BY DEF Init
    <3>2. processes \in Seq(Entry) /\ commands \in Seq(STRING)
      BY DEF Init
    <3>3. reused \in BOOLEAN /\ child \in [Pids -> {"none", "running", "stopped", "zombie"}]
      BY DEF Init
    <3> QED
      BY <3>1, <3>2, <3>3 DEF ShellTypes, LineTypes
  <2>2. processes = <<>> /\ commands = <<>> /\ spc = "prompt"
    BY DEF Init
  <2> QED
    BY <2>1, <2>2 DEF ShellInv, TableInv, Different, AndStopsAtFailure
<1>2. ShellInv /\ [Next]_vars => ShellInv'
  BY StepEffect, TableStep DEF ShellInv
<1> QED
  BY <1>1, <1>2, PTL DEF Spec

\* && goes on only after a command that did not fail, for any line of commands,
\* also when the SIGCHLD handler has taken the exit status away
\* (shell.c:157, 289).
THEOREM AndStops == Spec => []AndStopsAtFailure
<1>1. ShellInv => AndStopsAtFailure
  BY DEF ShellInv
<1> QED
  BY <1>1, ShellInvariance, PTL

\* What the table says of a process is so, for any lines, children and signals,
\* as long as no pid was given out twice: a killed one is dead, a stopped one
\* does not run, and its command stands under the same index (shell.c:67-95,
\* 459-534).
THEOREM TableCorrect == Spec => []TableTrue
<1>1. ShellInv => TableTrue
  <2> SUFFICES ASSUME ShellInv PROVE TableTrue
    OBVIOUS
  <2>1. TypeOK
    <3>1. \A k \in DOMAIN processes : processes[k] \in Entry
      BY DEF ShellInv, ShellTypes
    <3>2. \A k \in DOMAIN processes : /\ processes[k].pid \in Pids \cup {-1}
                                     /\ processes[k].status \in {"running", "stopped", "killed"}
      BY <3>1 DEF Entry, NoPid
    <3>3. spc \in {"fork", "wait"} => line # NULL
      BY ShellAssumption DEF ShellInv, ShellTypes, LineTypes
    <3> QED
      BY <3>2, <3>3 DEF TypeOK, ShellInv, ShellTypes, LineTypes
  <2> QED
    BY <2>1 DEF TableTrue, ShellInv, TableInv, Agrees
<1> QED
  BY <1>1, ShellInvariance, PTL
=============================================================================
