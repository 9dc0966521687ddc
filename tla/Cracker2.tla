------------------------------ MODULE Cracker2 ------------------------------
(***************************************************************************)
(* password_cracker/cracker2.c: for each line all threads search a part of *)
(* the passwords each.  Main and the threads meet at a barrier before and  *)
(* after the search; between the two they share tinfo, of which range,     *)
(* status and result are written by the threads.                           *)
(*                                                                         *)
(* A line is the number of passwords that match its known part and the     *)
(* position of the right one among them, beyond them if none is right.     *)
(***************************************************************************)
EXTENDS Naturals, Sequences, FiniteSets, FiniteSetsExt

CONSTANTS NumThreads,  \* threads, numbered from 1
          Passwords    \* the input, a sequence of lines

ASSUME Cracker2Assumption ==
  NumThreads \in Nat \ {0} /\ Passwords \in Seq([total : Nat \ {0}, target : Nat])

Searchers == 1 .. NumThreads

VARIABLES range,       \* tinfo->range, written by every thread, without the lock
          status2, result2, done, hashed,  \* hashed is total_num
          line_no,     \* the line main has read, tinfo's username, hash and known
          c2_main,     \* "start", "read", "gate", "search", "summary", "quit", "join", "end"
          c2_pc,       \* "gate", "begin", "test", "found", "check", "after", "report",
                       \* "meet", "end"
          c2_i,        \* the loop counter
          reported     \* history: results each thread printed for this line

c2_vars == <<range, status2, result2, done, hashed, line_no, c2_main, c2_pc, c2_i, reported>>

C2Init ==
  /\ range = 0 /\ status2 = 0 /\ result2 = 0 /\ done = 0 /\ hashed = 0
  /\ line_no = 0 /\ c2_main = "start"
  /\ c2_pc = [t \in Searchers |-> "gate"] /\ c2_i = [t \in Searchers |-> 0]
  /\ reported = [t \in Searchers |-> 0]

Line == Passwords[line_no]

\* getSubrange: where thread t begins, and how many passwords it has.
SubrangeStart(t) == (Line.total * (t - 1)) \div NumThreads
SubrangeCount(t) == (Line.total * t) \div NumThreads - SubrangeStart(t)

\* incrementString begins again after the last password.
Position(t) == (SubrangeStart(t) + c2_i[t]) % Line.total

Goto(t, label) == c2_pc' = [c2_pc EXCEPT ![t] = label]

-----------------------------------------------------------------------------
(* The barrier of the threads and main: the last to come lets all go *)

AtBarrier == c2_main \in {"gate", "search", "quit"} /\ \A t \in Searchers : c2_pc[t] \in {"gate", "meet"}

\* Slip: main does not wait for the threads to have searched.
Slip_OneMeeting ==
  [gate |-> "summary", search |-> "summary", quit |-> "join"][c2_main]

MainGoesTo == [gate |-> "search", search |-> "summary", quit |-> "join"][c2_main]

pthread_barrier_wait ==
  /\ AtBarrier
  /\ c2_main' = MainGoesTo
  /\ c2_pc' = [t \in Searchers |->
                 IF c2_pc[t] = "meet" THEN "gate" ELSE IF done # 0 THEN "end" ELSE "begin"]
  /\ UNCHANGED <<range, status2, result2, done, hashed, line_no, c2_i, reported>>

-----------------------------------------------------------------------------
(* crack_password *)

\* The length of the thread's part goes to the range all threads read.
BeginSearch(t) ==
  /\ c2_pc[t] = "begin"
  /\ range' = SubrangeCount(t)
  /\ c2_i' = [c2_i EXCEPT ![t] = 0] /\ Goto(t, "test")
  /\ UNCHANGED <<status2, result2, done, hashed, line_no, c2_main, reported>>

\* The range as it is now, then crypt_r and the comparison.
TestPassword(t) ==
  /\ c2_pc[t] = "test"
  /\ Goto(t, IF c2_i[t] >= range THEN "after"
             ELSE IF Position(t) = Line.target THEN "found" ELSE "check")
  /\ UNCHANGED <<range, status2, result2, done, hashed, line_no, c2_main, c2_i, reported>>

\* v2_print_thread_result and total_num += num, with the lock held.
Report(t, num) ==
  /\ hashed' = hashed + num
  /\ reported' = [reported EXCEPT ![t] = @ + 1]

FoundPassword(t) ==
  /\ c2_pc[t] = "found"
  /\ result2' = Position(t) /\ status2' = 1
  /\ Report(t, c2_i[t] + 1) /\ Goto(t, "after")
  /\ UNCHANGED <<range, done, line_no, c2_main, c2_i>>

CheckStatus(t) ==
  /\ c2_pc[t] = "check"
  /\ \/ /\ status2 = 1 /\ Report(t, c2_i[t] + 1) /\ Goto(t, "after") /\ UNCHANGED c2_i
     \/ /\ status2 = 0 /\ c2_i' = [c2_i EXCEPT ![t] = @ + 1] /\ Goto(t, "test")
        /\ UNCHANGED <<hashed, reported>>
  /\ UNCHANGED <<range, status2, result2, done, line_no, c2_main>>

\* The status is read without the lock; the report takes it.
AfterSearch(t) ==
  /\ c2_pc[t] = "after"
  /\ Goto(t, IF status2 = 0 THEN "report" ELSE "meet")
  /\ UNCHANGED <<range, status2, result2, done, hashed, line_no, c2_main, c2_i, reported>>

ReportFailure(t) ==
  /\ c2_pc[t] = "report"
  /\ Report(t, c2_i[t]) /\ Goto(t, "meet")
  /\ UNCHANGED <<range, status2, result2, done, line_no, c2_main, c2_i>>

crack_password(t) ==
  BeginSearch(t) \/ TestPassword(t) \/ FoundPassword(t) \/ CheckStatus(t)
    \/ AfterSearch(t) \/ ReportFailure(t)

-----------------------------------------------------------------------------
(* start *)

C2Start ==
  /\ c2_main = "start" /\ c2_main' = "read"
  /\ UNCHANGED <<range, status2, result2, done, hashed, line_no, c2_pc, c2_i, reported>>

ReadPassword ==
  /\ c2_main = "read"
  /\ \/ /\ line_no < Len(Passwords) /\ c2_main' = "gate"
        /\ line_no' = line_no + 1 /\ reported' = [t \in Searchers |-> 0]
        /\ UNCHANGED done
     \/ /\ line_no = Len(Passwords) /\ c2_main' = "quit" /\ done' = 1
        /\ UNCHANGED <<line_no, reported>>
  /\ UNCHANGED <<range, status2, result2, hashed, c2_pc, c2_i>>

\* Slip: the status of this line is kept for the next.
Slip_StatusKept == status2' = status2 /\ hashed' = 0

Reset == status2' = 0 /\ hashed' = 0

PrintSummary ==
  /\ c2_main = "summary" /\ c2_main' = "read"
  /\ Reset
  /\ UNCHANGED <<range, result2, done, line_no, c2_pc, c2_i, reported>>

JoinSearchers ==
  /\ c2_main = "join" /\ \A t \in Searchers : c2_pc[t] = "end"
  /\ c2_main' = "end"
  /\ UNCHANGED <<range, status2, result2, done, hashed, line_no, c2_pc, c2_i, reported>>

C2MainStep == ReadPassword \/ PrintSummary \/ JoinSearchers

C2Next == C2Start \/ C2MainStep \/ pthread_barrier_wait \/ \E t \in Searchers : crack_password(t)

C2Spec == C2Init /\ [][C2Next]_c2_vars

\* Once started the threads are scheduled.
C2Fairness ==
  /\ WF_c2_vars(C2MainStep) /\ WF_c2_vars(pthread_barrier_wait)
  /\ \A t \in Searchers : WF_c2_vars(crack_password(t))

-----------------------------------------------------------------------------
(* Properties *)

EvenSplit == Line.total % NumThreads = 0

\* What the summary says is true of its line: no thread is searching, a
\* password reported as found is the right one of this line, not one an earlier
\* line left in `result`; when none was found every thread has reported once,
\* and there is none to find if the parts were of one length.  With parts of
\* different lengths a thread may use another thread's length from the shared
\* range and miss the password (cracker2.c:52, 57, 119).
SummaryTrue ==
  c2_main = "summary" =>
    /\ \A t \in Searchers : c2_pc[t] = "gate" /\ reported[t] <= 1
    /\ status2 = 1 => result2 = Line.target /\ \E t \in Searchers : reported[t] = 1
    /\ status2 = 0 =>
         /\ \A t \in Searchers : reported[t] = 1
         /\ EvenSplit => Line.target >= Line.total /\ hashed = Line.total

\* tinfo is not written by main while a thread may read it: main and the
\* threads are on the same side of the barrier, for every line (cracker2.c:41,
\* 87, 116, 117).
SidesOfBarrier ==
  /\ c2_main \in {"read", "summary", "gate", "quit"} =>
       \A t \in Searchers : c2_pc[t] = "gate"
  /\ c2_main = "search" => \A t \in Searchers : c2_pc[t] \notin {"gate", "end"}

\* Every line gets its summary and the program ends, however the threads race
\* for the range and the status (cracker2.c:40-88, 123-127).
Cracker2Ends == c2_main # "start" ~> c2_main = "end"
=============================================================================
