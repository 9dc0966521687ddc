------------------------------ MODULE MapReduce ------------------------------
(***************************************************************************)
(* mapreduce/mapreduce.c: `count` splitters write to a pipe each, a mapper *)
(* reads each of those and writes to one more pipe, which the reducer      *)
(* reads.  A reader sees the end of its pipe when no process holds the     *)
(* write end any more, so everything hangs on which process inherits and   *)
(* closes which ends, and on the order in which the parent forks and waits.*)
(*                                                                         *)
(* The programs that are executed are external: a splitter writes its      *)
(* items, a mapper hands on each item it reads, the reducer writes its     *)
(* output at the end of its input.  An exec may fail; the child then exits.*)
(***************************************************************************)
EXTENDS Naturals, Sequences, FiniteSets

CONSTANTS count,      \* splitters, and mappers
          ItemsEach,  \* items a splitter writes
          PipeSize    \* items a pipe holds

ASSUME MapReduceAssumption == count \in Nat \ {0} /\ ItemsEach \in Nat /\ PipeSize > 0

Parts == 1 .. count
Parent == <<"parent", 0>>
Splitter(i) == <<"splitter", i>>
Mapper(i) == <<"mapper", i>>
Reducer == <<"reducer", 0>>
Processes == {Parent, Reducer} \cup {Splitter(i) : i \in Parts} \cup {Mapper(i) : i \in Parts}

File(i) == <<"file", i>>
ReducerPipe == <<"reduce", 0>>
Pipes == {File(i) : i \in Parts} \cup {ReducerPipe}

VARIABLES mr_pc,     \* of the parent: "start", "split", "map", "reduce",
                     \* "wait split", "wait map", "wait reduce", "end", "gave up"
          mr_i,      \* its loop counter
          life,      \* of a child: "unborn", "exec", "runs", "exited"
          ends,      \* the pipe ends each process has open
          content,   \* what is in each pipe
          written,   \* items a splitter has written
          carried,   \* the item a mapper has read and not yet written
          gathered,  \* items the reducer has read
          output,    \* the output file
          failed     \* the processes whose fork or exec failed

mr_vars == <<mr_pc, mr_i, life, ends, content, written, carried, gathered, output, failed>>
data == <<content, written, carried, gathered, output>>

MRInit ==
  /\ mr_pc = "start" /\ mr_i = 1 /\ failed = {}
  /\ life = [p \in Processes \ {Parent} |-> "unborn"]
  /\ ends = [p \in Processes |-> {}]
  /\ content = [p \in Pipes |-> <<>>]
  /\ written = [i \in Parts |-> 0] /\ carried = [i \in Parts |-> <<>>]
  /\ gathered = {} /\ output = {}

Held(pipe, end) == \E p \in Processes : <<pipe, end>> \in ends[p]

-----------------------------------------------------------------------------
(* The parent *)

\* All pipes are made and the output file is emptied.
MRStart ==
  /\ mr_pc = "start" /\ mr_pc' = "split"
  /\ ends' = [ends EXCEPT ![Parent] = Pipes \X {"r", "w"}]
  /\ UNCHANGED <<mr_i, life, data, failed>>

\* fork: the child has the ends the parent keeps open, less the ones it closes.
Fork(child, kept, closed) ==
  /\ life' = [life EXCEPT ![child] = "exec"]
  /\ ends' = [ends EXCEPT ![Parent] = kept, ![child] = kept \ closed]

\* The loop goes on with the next i, or ends.
Loop(next) ==
  IF mr_i < count THEN mr_i' = mr_i + 1 /\ UNCHANGED mr_pc
                  ELSE mr_i' = 1 /\ mr_pc' = next

ForkSplitter ==
  /\ mr_pc = "split"
  /\ Fork(Splitter(mr_i), ends[Parent], {<<File(mr_i), "r">>})
  /\ Loop("map") /\ UNCHANGED <<data, failed>>

\* Slip: the parent keeps the write end of the file.
Slip_FileKept == ends[Parent]

AfterCloseFile == ends[Parent] \ {<<File(mr_i), "w">>}

ForkMapper ==
  /\ mr_pc = "map"
  /\ \/ /\ Fork(Mapper(mr_i), AfterCloseFile, {<<ReducerPipe, "r">>})
        /\ Loop("reduce") /\ UNCHANGED failed
     \/ /\ mr_pc' = "gave up" /\ failed' = failed \cup {Mapper(mr_i)}
        /\ ends' = [ends EXCEPT ![Parent] = {}] /\ UNCHANGED <<mr_i, life>>
  /\ UNCHANGED data

\* close(reducer[1]) before the fork, close(reducer[0]) after it.
ForkReducer ==
  LET kept == ends[Parent] \ {<<ReducerPipe, "w">>} IN
  /\ mr_pc = "reduce" /\ mr_pc' = "wait split"
  /\ life' = [life EXCEPT ![Reducer] = "exec"]
  /\ ends' = [ends EXCEPT ![Reducer] = kept, ![Parent] = kept \ {<<ReducerPipe, "r">>}]
  /\ UNCHANGED <<mr_i, data, failed>>

WaitSplitter ==
  /\ mr_pc = "wait split" /\ life[Splitter(mr_i)] = "exited"
  /\ Loop("wait map") /\ UNCHANGED <<life, ends, data, failed>>

\* close(file[i][0]), then waitpid.
CloseFile ==
  /\ mr_pc = "wait map" /\ <<File(mr_i), "r">> \in ends[Parent]
  /\ ends' = [ends EXCEPT ![Parent] = @ \ {<<File(mr_i), "r">>}]
  /\ UNCHANGED <<mr_pc, mr_i, life, data, failed>>

WaitMapper ==
  /\ mr_pc = "wait map" /\ <<File(mr_i), "r">> \notin ends[Parent]
  /\ life[Mapper(mr_i)] = "exited"
  /\ Loop("wait reduce") /\ UNCHANGED <<life, ends, data, failed>>

\* Slip: the lines are counted before the reducer is done.
Slip_ReducerNotAwaited == TRUE

ReducerAwaited == life[Reducer] = "exited"

\* The lines of the output are counted then.
WaitReducer ==
  /\ mr_pc = "wait reduce" /\ ReducerAwaited
  /\ mr_pc' = "end" /\ UNCHANGED <<mr_i, life, ends, data, failed>>

ParentStep ==
  ForkSplitter \/ ForkMapper \/ ForkReducer \/ WaitSplitter \/ CloseFile \/ WaitMapper \/ WaitReducer

-----------------------------------------------------------------------------
(* The children *)

\* An exiting process closes what it has open.
Exit(p) ==
  /\ life' = [life EXCEPT ![p] = "exited"]
  /\ ends' = [ends EXCEPT ![p] = {}]

execl(p) ==
  /\ life[p] = "exec"
  /\ \/ life' = [life EXCEPT ![p] = "runs"] /\ UNCHANGED <<ends, failed>>
     \/ Exit(p) /\ failed' = failed \cup {p}
  /\ UNCHANGED <<mr_pc, mr_i, data>>

Room(pipe) == Len(content[pipe]) < PipeSize /\ Held(pipe, "r")

\* A pipe nobody can read stops the one who writes.
Broken(p, pipe) ==
  /\ ~Held(pipe, "r") /\ Exit(p)
  /\ UNCHANGED <<mr_pc, mr_i, data, failed>>

SplitterStep(i) ==
  /\ life[Splitter(i)] = "runs"
  /\ \/ /\ written[i] < ItemsEach /\ Room(File(i))
        /\ content' = [content EXCEPT ![File(i)] = Append(@, <<i, written[i] + 1>>)]
        /\ written' = [written EXCEPT ![i] = @ + 1]
        /\ UNCHANGED <<mr_pc, mr_i, life, ends, carried, gathered, output, failed>>
     \/ written[i] < ItemsEach /\ Broken(Splitter(i), File(i))
     \/ written[i] = ItemsEach /\ Exit(Splitter(i)) /\ UNCHANGED <<mr_pc, mr_i, data, failed>>

MapperStep(i) ==
  /\ life[Mapper(i)] = "runs"
  /\ \/ /\ carried[i] = <<>> /\ content[File(i)] # <<>>
        /\ carried' = [carried EXCEPT ![i] = <<Head(content[File(i)])>>]
        /\ content' = [content EXCEPT ![File(i)] = Tail(@)]
        /\ UNCHANGED <<mr_pc, mr_i, life, ends, written, gathered, output, failed>>
     \/ /\ carried[i] # <<>> /\ Room(ReducerPipe)
        /\ content' = [content EXCEPT ![ReducerPipe] = @ \o carried[i]]
        /\ carried' = [carried EXCEPT ![i] = <<>>]
        /\ UNCHANGED <<mr_pc, mr_i, life, ends, written, gathered, output, failed>>
     \/ carried[i] # <<>> /\ Broken(Mapper(i), ReducerPipe)
     \/ /\ carried[i] = <<>> /\ content[File(i)] = <<>> /\ ~Held(File(i), "w")
        /\ Exit(Mapper(i)) /\ UNCHANGED <<mr_pc, mr_i, data, failed>>

ReducerStep ==
  /\ life[Reducer] = "runs"
  /\ \/ /\ content[ReducerPipe] # <<>>
        /\ gathered' = gathered \cup {Head(content[ReducerPipe])}
        /\ content' = [content EXCEPT ![ReducerPipe] = Tail(@)]
        /\ UNCHANGED <<mr_pc, mr_i, life, ends, written, carried, output, failed>>
     \/ /\ content[ReducerPipe] = <<>> /\ ~Held(ReducerPipe, "w")
        /\ output' = gathered /\ Exit(Reducer)
        /\ UNCHANGED <<mr_pc, mr_i, content, written, carried, gathered, failed>>

ChildStep(p) ==
  \/ execl(p)
  \/ \E i \in Parts : p = Splitter(i) /\ SplitterStep(i)
  \/ \E i \in Parts : p = Mapper(i) /\ MapperStep(i)
  \/ p = Reducer /\ ReducerStep

MRNext == MRStart \/ ParentStep \/ \E p \in Processes \ {Parent} : ChildStep(p)

MRSpec == MRInit /\ [][MRNext]_mr_vars

\* Once started every process is scheduled.
MRFairness == WF_mr_vars(ParentStep) /\ \A p \in Processes \ {Parent} : WF_mr_vars(ChildStep(p))

-----------------------------------------------------------------------------
(* Properties *)

\* The splitters may fail, the rest of the run did not.
OnlySplittersFailed == failed \subseteq {Splitter(i) : i \in Parts}

\* When the lines of the output are counted, the reducer has written every item
\* of every splitter that ran, and no process is left (mapreduce.c:72-86).
OutputComplete ==
  mr_pc = "end" /\ OnlySplittersFailed =>
    /\ output = {i \in Parts : Splitter(i) \notin failed} \X (1 .. ItemsEach)
    /\ \A p \in DOMAIN life : life[p] = "exited"

\* A run ends unless a mapper or the reducer fails: every reader sees the end
\* of its pipe although each mapper holds the write ends of the later mappers'
\* pipes and each splitter nearly all ends, and full pipes empty again.  After
\* a failed exec of a mapper a splitter may wait for ever to write to a pipe
\* that others, the parent among them, could read (mapreduce.c:39, 48, 61, 74).
RunEnds == mr_pc # "start" ~> (mr_pc = "end" \/ ~OnlySplittersFailed)
=============================================================================
