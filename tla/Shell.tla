-------------------------------- MODULE Shell --------------------------------
(***************************************************************************)
(* shell/shell.c: the command loop with its history, the operators &&, ||  *)
(* and ;, the table of processes with stop, cont and kill, and the SIGCHLD *)
(* handler, which may reap a child the command loop is about to wait for.  *)
(* The commands of a line are opaque names; the operating system's side    *)
(* (children, their exit codes, the pending signal) is part of the model.  *)
(***************************************************************************)
EXTENDS Integers, Sequences, SequencesExt

CONSTANTS Lines,     \* what the user may type
          Pids,      \* child process ids
          MaxLines, MaxForks,  \* bounds: lines typed, forks tried
          hist_check, \* the shell was started with -h
          NULL

\* The pid fork returns when it fails.
NoPid == -1

\* A line: what it is, its first word, its operator, whether it ends with &, its
\* commands (an empty line is no line), and the argument of #, stop and so on.
LineRecord ==
  [kind : {"run", "exit", "cd", "ps", "history", "nth", "last", "prefix", "stop", "cont", "kill"},
   name : STRING, op : {"none", "and", "or", "seq"}, bg : BOOLEAN,
   cmds : Seq(STRING) \ {<<>>}, n : Nat, pid : Int]

ASSUME ShellAssumption ==
  /\ MaxLines \in Nat /\ MaxForks \in Nat /\ hist_check \in BOOLEAN
  /\ Lines \subseteq LineRecord /\ NULL \notin LineRecord /\ NoPid \notin Pids

\* How a child ended: with exit code 0 or 1, or by a signal.
Signalled == 9

VARIABLES vec,        \* the history
          history_file, \* what is written to the file of -h
          processes,  \* the table: pid and status
          commands,   \* the commands of the table, by index (as is start)
          spc,        \* "prompt", "fork", "wait", "done"
          line,       \* the line being executed
          todo,       \* its commands not started yet
          curr_pid,   \* the child forked last
          child, code, sigchld,  \* the system: state and exit code by pid
          typed, forks, \* bounded
          reused,     \* history: fork returned a pid the table had already
          before      \* history: exit code of the preceding command of the line

table_vars == <<processes, commands>>
shell_vars == <<vec, history_file, table_vars, spc, line, todo, curr_pid>>
system_vars == <<child, code, sigchld>>
history_vars == <<typed, forks, reused, before>>
vars == <<shell_vars, system_vars, history_vars>>

\* The table's entry for the shell itself is left out: nobody stops it. The
\* file of -h is opened for appending only, so that nothing is read from it; the
\* lines of a script (-f) come one by one like those of a user. A file that
\* cannot be opened and a wrong option end the shell before it begins.
Init ==
  /\ history_file = <<>>
  /\ vec = <<>> /\ processes = <<>> /\ commands = <<>>
  /\ spc = "prompt" /\ line = NULL /\ todo = <<>> /\ curr_pid = NULL
  /\ child = [p \in Pids |-> "none"] /\ code = [p \in Pids |-> NULL] /\ sigchld = FALSE
  /\ typed = 0 /\ forks = 0 /\ reused = FALSE /\ before = NULL

-----------------------------------------------------------------------------
(* The process table *)

IndexOf(pid) == SelectInSeq(processes, LAMBDA p : p.pid = pid)

\* switch_status succeeds: the pid is known and was not killed.
Switchable(pid) ==
  IndexOf(pid) # 0 /\ processes[IndexOf(pid)].status # "killed"

WithStatus(pid, status) == [processes EXCEPT ![IndexOf(pid)].status = status]

Recorded(command) == Append(commands, command)

add_process(pid, command) ==
  /\ processes' = IF IndexOf(pid) # 0 THEN WithStatus(pid, "running")
                  ELSE Append(processes, [pid |-> pid, status |-> "running"])
  /\ commands' = Recorded(command)
  /\ reused' = (reused \/ IndexOf(pid) # 0)

-----------------------------------------------------------------------------
(* The system: children end, are signalled and are reaped *)

ChildExits(p) ==
  /\ child[p] = "running" /\ spc # "done"
  /\ child' = [child EXCEPT ![p] = "zombie"] /\ sigchld' = TRUE
  /\ \E c \in {0, 1, Signalled} : code' = [code EXCEPT ![p] = c]
  /\ UNCHANGED <<shell_vars, history_vars>>

\* kill(pid, ...) of a child; a pid that is gone makes no difference.
Signal(pid, from, to) ==
  IF pid \in Pids /\ child[pid] \in from
  THEN /\ child' = [child EXCEPT ![pid] = to] /\ sigchld' = TRUE
       /\ code' = [code EXCEPT ![pid] = IF to = "zombie" THEN Signalled ELSE @]
  ELSE UNCHANGED system_vars

Zombies == {p \in Pids : child[p] = "zombie"}

\* Slip: the handler reaps one child, though signals do not queue.
Slip_ReapOne == IF Zombies = {} THEN {} ELSE {CHOOSE p \in Zombies : TRUE}

Reaped == Zombies

\* The SIGCHLD handler interrupts the shell anywhere.
signal_handler ==
  /\ sigchld /\ spc # "done" /\ sigchld' = FALSE
  /\ child' = [p \in Pids |-> IF p \in Reaped THEN "none" ELSE child[p]]
  /\ UNCHANGED <<shell_vars, history_vars, code>>

-----------------------------------------------------------------------------
(* run_command *)

Prompt == spc' = "prompt" /\ line' = NULL /\ todo' = <<>> /\ UNCHANGED <<history_file, curr_pid>>
IsLogic(l) == l.op # "none"

\* system_, run_command_with_logic: everything but exit is recorded.
InHistory(h, l) == IF l.kind = "exit" THEN h ELSE Append(h, l)

\* A line of commands begins.
Begin(h, l) ==
  /\ vec' = InHistory(h, l)
  /\ line' = l /\ todo' = l.cmds /\ spc' = "fork" /\ before' = NULL
  /\ UNCHANGED <<history_file, table_vars, curr_pid, system_vars, forks, reused>>

Status(l) == CASE l.kind = "stop" -> "stopped" [] l.kind = "cont" -> "running" [] l.kind = "kill" -> "killed"

\* Slip: a stopped process is not killed.
Slip_NotStopped(l) ==
  CASE l.kind = "stop" -> Signal(l.pid, {"running"}, "stopped")
    [] l.kind = "cont" -> Signal(l.pid, {"stopped"}, "running")
    [] l.kind = "kill" -> Signal(l.pid, {"running"}, "zombie")

Sent(l) ==
  CASE l.kind = "stop" -> Signal(l.pid, {"running"}, "stopped")
    [] l.kind = "cont" -> Signal(l.pid, {"stopped"}, "running")
    [] l.kind = "kill" -> Signal(l.pid, {"running", "stopped"}, "zombie")

\* stop, cont and kill; only stop is recorded in the history.
SendSignal(h, l) ==
  /\ vec' = IF l.kind = "stop" THEN Append(h, l) ELSE h
  /\ \/ /\ Switchable(l.pid) /\ Sent(l)
        /\ processes' = WithStatus(l.pid, Status(l))
     \/ ~Switchable(l.pid) /\ UNCHANGED <<processes, system_vars>>

SignalProcess(h, l) ==
  SendSignal(h, l) /\ Prompt /\ UNCHANGED <<commands, forks, reused, before>>

\* cd records its line, whether the directory exists or not.
ChangeDirectory(h, l) ==
  /\ vec' = Append(h, l) /\ Prompt
  /\ UNCHANGED <<processes, commands, system_vars, forks, reused, before>>

\* Run line l again, which stands in the history h.
Again(h, l) ==
  \/ l.kind = "run" /\ Begin(h, l)
  \/ l.kind = "cd" /\ ChangeDirectory(h, l)
  \/ l.kind = "stop" /\ SignalProcess(h, l)

Type(l) == spc = "prompt" /\ typed < MaxLines /\ typed' = typed + 1 /\ l \in Lines

RunLine(l) == Type(l) /\ l.kind \in {"run", "exit"} /\ Begin(vec, l)

BuiltIn(l) ==
  /\ Type(l)
  /\ \/ l.kind = "cd" /\ ChangeDirectory(vec, l)
     \/ l.kind \in {"stop", "cont", "kill"} /\ SignalProcess(vec, l)

OnlyPrint ==
  Prompt /\ UNCHANGED <<vec, processes, commands, system_vars, forks, reused, before>>

ShowHistory(l) == Type(l) /\ l.kind = "history" /\ OnlyPrint

\* The entry's pid exists for kill(pid, 0), which -1 always does, but /proc has
\* no such process: there is none for -1, and a child may be reaped by the
\* handler between the two calls.
Vanished(p) ==
  /\ p.status # "killed"
  /\ p.pid \in {NoPid} \cup {pid \in Pids : child[pid] \in {"running", "zombie"}}

\* ps prints; a process that has vanished ends the shell, without saving.
Ps(l) ==
  /\ Type(l) /\ l.kind = "ps"
  /\ \/ IndexOf(NoPid) = 0 /\ OnlyPrint
     \/ /\ \E k \in DOMAIN processes : Vanished(processes[k])
        /\ spc' = "done"
        /\ UNCHANGED <<vec, history_file, table_vars, line, todo, curr_pid,
                       system_vars, forks, reused, before>>

\* #n: a copy of the n-th entry.
RunNth(l) ==
  /\ Type(l) /\ l.kind = "nth"
  /\ IF l.n < Len(vec) THEN Again(vec, vec[l.n + 1]) ELSE OnlyPrint

\* ! runs the last entry itself: strtok cuts a line with an operator, in the
\* history, after its first command.
Cut(l) == IF IsLogic(l) THEN [l EXCEPT !.cmds = <<Head(l.cmds)>>, !.op = "none"] ELSE l

RunLast(l) ==
  /\ Type(l) /\ l.kind = "last"
  /\ IF vec = <<>> THEN OnlyPrint
     ELSE LET old == Last(vec) IN Again(Append(Front(vec), Cut(old)), old)

\* !prefix: a copy of the latest entry that begins so.
RunPrefix(l) ==
  /\ Type(l) /\ l.kind = "prefix"
  /\ LET k == SelectLastInSeq(vec, LAMBDA e : e.name = l.name)
     IN  IF k = 0 THEN OnlyPrint ELSE Again(vec, vec[k])

-----------------------------------------------------------------------------
(* system_ and run_command_with_logic *)

\* The next command of the line after one that returned status: && stops at a
\* failure, || at a success.
GoesOn(rest, status) ==
  /\ rest # <<>>
  /\ CASE line.op = "and" -> status # -1
       [] line.op = "or" -> status = -1
       [] line.op = "seq" -> TRUE
       [] line.op = "none" -> FALSE

\* The whole history is appended to the file when the shell ends.
Saved == IF hist_check THEN history_file \o vec ELSE history_file

\* exit has been run as a command; then the loop ends the shell.
ExitShell == spc' = "done" /\ history_file' = Saved /\ UNCHANGED <<line, todo, curr_pid>>

Continue(rest, status) ==
  \/ /\ GoesOn(rest, status) /\ spc' = "fork" /\ todo' = rest
     /\ UNCHANGED <<history_file, line, curr_pid>>
  \/ ~GoesOn(rest, status) /\ line.kind = "exit" /\ ExitShell
  \/ ~GoesOn(rest, status) /\ line.kind # "exit" /\ Prompt

\* The next command of the line is not a program: cd, which finds its directory
\* or not and is not recorded, or a signal. References to the history and ps are
\* lines of their own here.
BuiltIns == {"cd", "stop", "cont", "kill"}
CommandWord == [line EXCEPT !.kind = Head(todo)]

RunBuiltIn(status) ==
  /\ spc = "fork" /\ Head(todo) \in BuiltIns
  /\ \/ Head(todo) = "cd" /\ UNCHANGED <<vec, processes, system_vars>>
     \/ /\ Head(todo) # "cd" /\ SendSignal(vec, CommandWord)
        /\ status = IF Switchable(line.pid) THEN 0 ELSE -1
  /\ Continue(Tail(todo), status) /\ before' = -status
  /\ UNCHANGED <<commands, typed, forks, reused>>

ForksProgram == spc = "fork" /\ Head(todo) \notin BuiltIns

Fork ==
  /\ ForksProgram /\ forks < MaxForks /\ forks' = forks + 1
  /\ \E pid \in {p \in Pids : child[p] = "none"} :
       /\ add_process(pid, Head(todo)) /\ curr_pid' = pid
       /\ child' = [child EXCEPT ![pid] = "running"] /\ code' = [code EXCEPT ![pid] = NULL]
  /\ todo' = Tail(todo) /\ spc' = "wait"
  /\ UNCHANGED <<vec, history_file, line, sigchld, typed, before>>

\* fork fails: the table gets an entry all the same.
ForkFails ==
  /\ ForksProgram /\ forks < MaxForks /\ forks' = forks + 1
  /\ add_process(NoPid, Head(todo))
  /\ Continue(Tail(todo), -1) /\ before' = 1
  /\ UNCHANGED <<vec, system_vars, typed>>

\* Slip: an exit code other than 127 counts as success.
Slip_OnlyInvalid(c) == 0

\* A child that was ended by a signal counts as a success.
ExitStatus(c) == IF c = 1 THEN -1 ELSE 0

\* Slip: waitpid is repeated until it returns the pid.
Slip_WaitAgain == FALSE

\* waitpid fails: the handler was faster.
AlreadyReaped == child[curr_pid] = "none"

Wait ==
  /\ spc = "wait" /\ ~line.bg
  /\ \/ /\ child[curr_pid] = "zombie"
        /\ child' = [child EXCEPT ![curr_pid] = "none"]
        /\ Continue(todo, ExitStatus(code[curr_pid]))
     \/ AlreadyReaped /\ Continue(todo, -1) /\ UNCHANGED child
  /\ before' = code[curr_pid]
  /\ UNCHANGED <<vec, processes, commands, code, sigchld, typed, forks, reused>>

\* A command with & is not waited for; without an operator waitpid is called
\* with WNOHANG.
Background ==
  /\ spc = "wait" /\ line.bg
  /\ child' = IF child[curr_pid] = "zombie" /\ ~IsLogic(line)
              THEN [child EXCEPT ![curr_pid] = "none"] ELSE child
  /\ Continue(todo, 0) /\ before' = 0
  /\ UNCHANGED <<vec, processes, commands, code, sigchld, typed, forks, reused>>

Eof ==
  /\ spc = "prompt" /\ spc' = "done" /\ history_file' = Saved
  /\ UNCHANGED <<vec, table_vars, line, todo, curr_pid, system_vars, history_vars>>

UserTypes(l) ==
  \/ RunLine(l) \/ BuiltIn(l) \/ ShowHistory(l) \/ Ps(l) \/ RunNth(l) \/ RunLast(l) \/ RunPrefix(l)

Step == Fork \/ ForkFails \/ Wait \/ Background \/ \E status \in {0, -1} : RunBuiltIn(status)

Next ==
  \/ \E l \in Lines : UserTypes(l)
  \/ Step \/ Eof \/ signal_handler \/ \E p \in Pids : ChildExits(p)

\* The shell runs, a pending signal is delivered, a running child ends.
Spec ==
  /\ Init /\ [][Next]_vars
  /\ WF_vars(Step) /\ WF_vars(signal_handler) /\ \A p \in Pids : WF_vars(ChildExits(p))

-----------------------------------------------------------------------------
(* Properties *)

\* The values of the variables.
TypeOK ==
  /\ spc \in {"prompt", "fork", "wait", "done"}
  /\ \A k \in DOMAIN processes :
       /\ processes[k].pid \in Pids \cup {-1}
       /\ processes[k].status \in {"running", "stopped", "killed"}
  /\ child \in [Pids -> {"none", "running", "stopped", "zombie"}]
  /\ spc \in {"fork", "wait"} => line # NULL

\* && goes on only after a command that did not fail, although the handler may
\* have taken the exit status away (shell.c:157, 289).
AndStopsAtFailure ==
  (spc = "fork" /\ line.op = "and" /\ todo # line.cmds) => before # 1

\* What the table says of a process is so, as long as no pid was given out
\* twice: a killed one is dead, a stopped one does not run (shell.c:67-78,
\* 471-474, 496-499, 522-523), and its command is recorded under the same
\* index (shell.c:81-95).
TableTrue ==
  /\ TypeOK
  /\ ~reused =>
     /\ Len(commands) = Len(processes)
     /\ \A k \in DOMAIN processes :
          LET p == processes[k] IN
          p.pid \in Pids =>
             /\ p.status = "killed" => child[p.pid] \in {"none", "zombie"}
             /\ p.status = "stopped" => child[p.pid] # "running"
             /\ p.status = "running" => child[p.pid] # "stopped"

\* No child stays a zombie while the shell runs: SIGCHLD is sent once for
\* several children that end together (shell.c:542).
ZombiesReaped == \A p \in Pids : child[p] = "zombie" ~> (child[p] # "zombie" \/ spc = "done")

\* The prompt comes back after every line, also when the handler reaps the
\* child the shell waits for.
PromptReturns ==
  spc = "wait" ~> (spc \in {"prompt", "done"} \/ (spc = "fork" /\ forks = MaxForks))
=============================================================================
