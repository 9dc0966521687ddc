---------------------------- MODULE NonstopProofs ----------------------------
(***************************************************************************)
(* Proofs about the file server and its clients (module Nonstop), for any  *)
(* number of clients that die at any time.  The server is one thread, so a *)
(* file is unfinished only while its own upload is served.  A client_info  *)
(* is not cleared, so the request executed need not be the one of the      *)
(* client: it is whenever the client lives, since a client that has shut   *)
(* its write side has sent all of its request, or has died.                *)
(***************************************************************************)
EXTENDS Nonstop, SequenceTheorems, WellFoundedInduction, TLAPS

Requests == [verb : {GET, PUT, DELETE, LIST}, name : Names, size : Nat]

\* A client_info whose request will be executed has the name it needs.
Named == {i \in Infos : (i.ready_exec = 1 /\ i.command # LIST) => i.file_name \in Names}

Replies == [status : {NULL, "OK", "ERROR"}, size : Nat, count : Nat, by : Clients \cup {NULL}]

ClientTypes ==
  /\ req \in [Clients -> Requests]
  /\ cpc \in [Clients -> {"start", "writing", "reading", "done"}]
  /\ up \in [Clients -> Nat] /\ eof \in [Clients -> BOOLEAN]
  /\ outcome \in [Clients -> Outcomes \cup {NULL}]
  /\ \A c \in Clients : up[c] <= Total(c)

ServerTypes ==
  /\ conn \in [Clients -> {"none", "pending", "open", "closed"}]
  /\ server \in {"up", "down"} /\ spc \in {"wait", "size", "data", "exec", "send"}
  /\ cur \in Clients \cup {NULL}
  /\ info \in [Clients -> Named \cup {NULL}] /\ freed \subseteq Named
  /\ reply \in [Clients -> Replies]

StoreTypes ==
  /\ dir \in [Names -> Files \cup {NULL}] /\ file_size_dict \in [Names -> Nat \cup {NULL}]
  /\ file_name_vec \in Seq(Names)

\* A client has an outcome when it is done; unless it died, the server has
\* closed the connection, or is down.  A live client that has shut its write
\* side has sent everything.
ClientGoesOn(c) ==
  /\ cpc[c] = "start" => conn[c] = "none"
  /\ cpc[c] # "done" => outcome[c] = NULL
  /\ (cpc[c] = "done" /\ outcome[c] # "crashed") => conn[c] = "closed" \/ server = "down"
  /\ eof[c] => up[c] = Total(c) \/ outcome[c] = "crashed"

ClientInv == \A c \in Clients : ClientGoesOn(c)

\* A client is connected when it has a client_info; the server serves one.
ServeInv ==
  /\ \A c \in Clients : conn[c] = "open" <=> info[c] # NULL
  /\ spc # "wait" => cur \in Clients /\ conn[cur] = "open"

Died(c) == outcome[c] = "crashed"

\* The file an upload is writing is its own; when it is complete, it is stored
\* until the client has its answer; what is executed for a live client is
\* what it asked for.
ExecInv ==
  server = "up" =>
    /\ spc \in {"size", "data"} =>
         /\ Put(cur) /\ info[cur].command = PUT /\ info[cur].file_name \in Names
         /\ dir[req[cur].name] = [by |-> cur, count |-> 0]
    /\ spc \in {"exec", "send"} =>
         Died(cur) \/ /\ info[cur].command = req[cur].verb
                      /\ Put(cur) => dir[req[cur].name] = [by |-> cur, count |-> req[cur].size]
    /\ spc = "send" => info[cur].command = GET

\* The file that is being uploaded is unfinished.
Unfinished(f) == spc \in {"size", "data"} /\ f = req[cur].name

Complete(f) == dir[f].count = req[dir[f].by].size /\ file_size_dict[f] = dir[f].count

StoreInv ==
  server = "up" =>
    \A f \in Names : dir[f] # NULL =>
       Contains(file_name_vec, f) /\ (~Unfinished(f) => Complete(f))

\* What a live client was told: the size of an upload, or of the whole list.
ReplyInv ==
  \A c \in Clients : (~Died(c) /\ reply[c].status = "OK") =>
     /\ req[c].verb = GET  => reply[c].by \in Clients /\ reply[c].size = req[reply[c].by].size
     /\ req[c].verb = LIST => reply[c].size = reply[c].count

\* What a client made of it.
VerdictInv ==
  \A c \in Clients :
     /\ (outcome[c] = "ok" /\ req[c].verb = GET) =>
          reply[c].status = "OK" /\ reply[c].count = reply[c].size
     /\ req[c].verb = LIST => outcome[c] \notin {"too little", "too much"}

NSTypes == ClientTypes /\ ServerTypes /\ StoreTypes

NSInv ==
  /\ NSTypes /\ ClientInv /\ ServeInv
  /\ ExecInv /\ StoreInv /\ ReplyInv /\ VerdictInv

-----------------------------------------------------------------------------
(* The operators *)

LEMMA NullApart ==
  /\ NULL \notin Clients /\ NULL \notin Names /\ NULL \notin Infos /\ NULL \notin Files
  /\ NULL \notin Outcomes /\ NULL # "OK" /\ NULL # "ERROR"
  BY NonstopAssumption

LEMMA NoReplyType ==
  /\ NoReply \in Replies /\ OK \in Replies /\ OK.status = "OK" /\ OK.size = 0 /\ OK.count = 0
  BY DEF NoReply, OK, Replies

\* Zeroed memory asks for nothing.
LEMMA ZeroedNamed ==
  Zeroed \in Named
  BY DEF Zeroed, Named, Infos, GET

\* An error leaves the request in the client_info.
LEMMA FailedNamed ==
  ASSUME NEW i \in Named, NEW type \in 0..3
  PROVE  /\ Failed(i, type) \in Named /\ Failed(i, type).command = i.command
         /\ Failed(i, type).file_name = i.file_name
         /\ Failed(i, type).ready_exec = i.ready_exec
  BY DEF Failed, Named, Infos

LEMMA ReadyNamed ==
  ASSUME NEW i \in Infos, i.command = LIST \/ i.file_name \in Names
  PROVE  Ready(i) \in Named /\ Ready(i).command = i.command /\ Ready(i).file_name = i.file_name
  BY DEF Ready, Named, Infos

LEMMA TotalType ==
  ASSUME req \in [Clients -> Requests], NEW c \in Clients
  PROVE  Total(c) \in Nat /\ Total(c) >= 1 /\ (Put(c) => Total(c) >= 2)
<1>1. req[c].size \in Nat
  BY DEF Requests
<1> QED
  BY <1>1 DEF Total

\* check_size accepts a transfer only when its size is the one announced.
LEMMA CheckSize ==
  ASSUME NEW size \in Nat, NEW actual \in Nat
  PROVE  /\ check_size(size, actual) \in {"ok", "closed", "too little", "too much"}
         /\ check_size(size, actual) = "ok" <=> actual = size
  BY DEF check_size

\* Every non-empty set of naturals has a least element.
LEMMA Least ==
  ASSUME NEW T, T \subseteq Nat, T # {}
  PROVE  \E x \in T : \A y \in T : x <= y
<1>1. \E R : IsWellFoundedOn(R, Nat) /\ \A a, b \in Nat : a < b => <<a, b>> \in R
  <2>1. \A a, b \in Nat : a < b => <<a, b>> \in OpToRel(<, Nat)
    BY DEF OpToRel
  <2> QED
    BY <2>1, NatLessThanWellFounded, Zenon
<1>2. PICK R : IsWellFoundedOn(R, Nat) /\ \A a, b \in Nat : a < b => <<a, b>> \in R
  BY <1>1
<1>3. \E x \in T : \A y \in T : ~(<<y, x>> \in R)
  <2>1. IsWellFoundedOn(R, Nat)
   BY <1>2
  <2> QED
   BY <2>1, WFMin, Zenon
<1>4. PICK x \in T : \A y \in T : ~(<<y, x>> \in R)
  BY <1>3
<1>5. \A y \in T : ~(y < x)
  BY <1>2, <1>4
<1>6. \A y \in T : x <= y
  BY <1>5
<1> QED
  BY <1>6

\* vector_erase of one name leaves every other name in the list.
LEMMA RemoveFirstKeeps ==
  ASSUME NEW s \in Seq(Names), NEW f
  PROVE  /\ RemoveFirst(s, f) \in Seq(Names)
         /\ \A h \in Names : (h # f /\ Contains(s, h)) => Contains(RemoveFirst(s, f), h)
<1> DEFINE I == {k \in 1..Len(s) : s[k] = f}
           n == CHOOSE k \in I : \A l \in I : k <= l
           before == SubSeq(s, 1, n - 1)
           after  == SubSeq(s, n + 1, Len(s))
<1>0. Len(s) \in Nat
  OBVIOUS
<1>1. CASE I = {}
  <2>1. RemoveFirst(s, f) = s
    BY <1>1 DEF RemoveFirst
  <2> QED
    BY <2>1
<1>2. CASE I # {}
  <2>1. n \in I
    <3>1. I \subseteq Nat
      OBVIOUS
    <3> HIDE DEF I
    <3>2. \E k \in I : \A l \in I : k <= l
      BY <1>2, <3>1, Least
    <3> QED
      BY <3>2
  <2>2. RemoveFirst(s, f) = before \o after
    BY <1>2 DEF RemoveFirst, RemoveAt, SelectInSeq, Min
  <2>3. n \in 1..Len(s) /\ s[n] = f
    BY <2>1
  <2> HIDE DEF n, I
  <2>4. /\ before \in Seq(Names) /\ Len(before) = n - 1
        /\ \A k \in 1..(n - 1) : before[k] = s[k]
    BY <1>0, <2>3
  <2>5. /\ after \in Seq(Names) /\ Len(after) = Len(s) - n
        /\ \A k \in 1..(Len(s) - n) : after[k] = s[n + k]
    BY <1>0, <2>3
  <2> HIDE DEF before, after
  <2>6. /\ before \o after \in Seq(Names) /\ Len(before \o after) = Len(s) - 1
        /\ \A k \in 1..(Len(s) - 1) :
              (before \o after)[k] = IF k <= n - 1 THEN before[k] ELSE after[k - (n - 1)]
    <3>1. /\ before \o after \in Seq(Names)
          /\ Len(before \o after) = Len(before) + Len(after)
          /\ \A k \in 1..Len(before) + Len(after) :
                (before \o after)[k] = IF k <= Len(before) THEN before[k] ELSE after[k - Len(before)]
      BY <2>4, <2>5, ConcatProperties, Zenon
    <3>2. Len(before) = n - 1 /\ Len(before) + Len(after) = Len(s) - 1
      BY <1>0, <2>3, <2>4, <2>5
    <3> QED
      BY <3>1, <3>2
  <2>7. ASSUME NEW h \in Names, h # f, Contains(s, h) PROVE Contains(before \o after, h)
    <3>1. PICK k \in 1..Len(s) : s[k] = h
      BY <2>7 DEF Contains
    <3>2. CASE k < n
      <4>1. k \in 1..(n - 1) /\ k \in 1..(Len(s) - 1) /\ k <= n - 1
        BY <1>0, <2>3, <3>1, <3>2
      <4>2. (before \o after)[k] = h
        BY <2>4, <2>6, <3>1, <4>1
      <4> QED
        BY <2>6, <4>1, <4>2 DEF Contains
    <3>3. CASE k > n
      <4>1. /\ k - 1 \in 1..(Len(s) - 1) /\ ~(k - 1 <= n - 1)
            /\ (k - 1) - (n - 1) = k - n /\ k - n \in 1..(Len(s) - n) /\ n + (k - n) = k
        BY <1>0, <2>3, <3>1, <3>3
      <4>2. (before \o after)[k - 1] = h
        BY <2>5, <2>6, <3>1, <4>1
      <4> QED
        BY <2>6, <4>1, <4>2 DEF Contains
    <3> QED
      BY <2>3, <2>7, <3>1, <3>2, <3>3
  <2> QED
    BY <2>2, <2>6, <2>7
<1> QED
  BY <1>1, <1>2

-----------------------------------------------------------------------------
(* The clients *)

LEMMA NSInit ==
  Init => NSInv
<1> SUFFICES ASSUME Init PROVE NSInv
  OBVIOUS
<1>1. req \in [Clients -> Requests]
  BY NonstopAssumption DEF Init, Requests
<1>2. ClientTypes
  <2>1. \A c \in Clients : up[c] <= Total(c)
    BY <1>1, TotalType DEF Init
  <2> QED
    BY <1>1, <2>1 DEF Init, ClientTypes
<1>3. ServerTypes /\ StoreTypes
  BY NoReplyType DEF Init, ServerTypes, StoreTypes
<1>4. ClientInv /\ ServeInv /\ ExecInv
  BY NullApart DEF Init, ClientInv, ClientGoesOn, ServeInv, ExecInv
<1>5. StoreInv
  BY DEF Init, StoreInv
<1>6. ReplyInv
  BY NullApart DEF Init, ReplyInv, NoReply
<1>7. VerdictInv
  BY NullApart DEF Init, VerdictInv, Outcomes
<1> QED
  BY <1>2, <1>3, <1>4, <1>5, <1>6, <1>7 DEF NSInv, NSTypes

\* What a step of a client leaves alone, and that a dead client stays dead.
ClientMoves ==
  /\ UNCHANGED <<req, reply, server_vars, store_vars>>
  /\ \A c \in Clients : conn'[c] = "open" <=> conn[c] = "open"
  /\ \A c \in Clients : Died(c) => Died(c)'

LEMMA ClientKeeps ==
  ASSUME NSInv, ClientMoves, ClientTypes', ServerTypes', ClientInv', VerdictInv'
  PROVE  NSInv'
<1> USE DEF NSInv, NSTypes
<1>1. UNCHANGED <<req, reply, server, spc, cur, info, freed, dir, file_size_dict, file_name_vec>>
      /\ (\A c \in Clients : conn'[c] = "open" <=> conn[c] = "open")
      /\ \A c \in Clients : Died(c) => Died(c)'
  BY DEF ClientMoves, server_vars, store_vars
<1>2. StoreTypes'
  BY <1>1 DEF StoreTypes
<1>3. ServeInv'
  BY <1>1 DEF ServeInv
<1>4. ExecInv'
  BY <1>1 DEF ServeInv, ExecInv, Put
<1>5. StoreInv'
  BY <1>1 DEF StoreInv, Unfinished, Complete
<1>6. ReplyInv'
  BY <1>1 DEF ReplyInv
<1> QED
  BY <1>2, <1>3, <1>4, <1>5, <1>6

\* The other clients are where they were.
LEMMA OthersGoOn ==
  ASSUME NSInv, NEW c \in Clients, UNCHANGED <<req, server>>,
         \A d \in Clients : d # c =>
            /\ cpc'[d] = cpc[d] /\ conn'[d] = conn[d] /\ outcome'[d] = outcome[d]
            /\ eof'[d] = eof[d] /\ up'[d] = up[d],
         ClientGoesOn(c)'
  PROVE  ClientInv'
<1>1. ASSUME NEW d \in Clients, d # c PROVE ClientGoesOn(d)'
  <2>1. ClientGoesOn(d) /\ Total(d)' = Total(d)
    BY DEF NSInv, ClientInv, Total, Put
  <2> QED
    BY <1>1, <2>1 DEF ClientGoesOn
<1> QED
  BY <1>1 DEF ClientInv

LEMMA ClientStep ==
  ASSUME NSInv, NEW c \in Clients, Client(c) \/ Crash(c)
  PROVE  NSInv'
<1> USE DEF NSInv, NSTypes
<1>0. /\ Total(c) \in Nat /\ Total(c) >= 1
      /\ \A d \in Clients : Total(d) \in Nat
  BY TotalType DEF ClientTypes
<1>1. /\ UNCHANGED <<req, reply, server, spc, cur, info, freed, dir, file_size_dict, file_name_vec>>
      /\ \A d \in Clients : Total(d)' = Total(d)
  BY DEF Client, connect_to_server, write_all_to_socket, RequestSent, ReadResponse, Crash,
         server_vars, store_vars, Total, Put
<1>2. CASE connect_to_server(c)
  <2>1. /\ cpc[c] = "start" /\ conn[c] = "none" /\ outcome[c] = NULL /\ UNCHANGED <<up, eof>>
        /\ \/ /\ server = "up" /\ cpc' = [cpc EXCEPT ![c] = "writing"]
              /\ conn' = [conn EXCEPT ![c] = "pending"] /\ UNCHANGED outcome
           \/ /\ server = "down" /\ cpc' = [cpc EXCEPT ![c] = "done"]
              /\ outcome' = [outcome EXCEPT ![c] = "refused"] /\ UNCHANGED conn
    BY <1>2 DEF connect_to_server, End, ClientInv, ClientGoesOn, ServerTypes
  <2>2. ClientTypes' /\ ServerTypes'
    <3>1. /\ cpc' \in [Clients -> {"start", "writing", "reading", "done"}]
          /\ outcome' \in [Clients -> Outcomes \cup {NULL}]
      BY <2>1 DEF ClientTypes, Outcomes
    <3>2. conn' \in [Clients -> {"none", "pending", "open", "closed"}]
      BY <2>1 DEF ServerTypes
    <3> QED
      BY <1>1, <2>1, <3>1, <3>2 DEF ClientTypes, ServerTypes
  <2>3. ClientInv'
    <3>1. ClientGoesOn(c)'
      <4>1. eof[c] => up[c] = Total(c)
        BY <2>1, NullApart DEF ClientInv, ClientGoesOn, Outcomes
      <4> QED
        BY <1>1, <2>1, <4>1 DEF ClientInv, ClientGoesOn, ClientTypes, ServerTypes
    <3> QED
      BY <1>1, <2>1, <3>1, OthersGoOn DEF ClientTypes, ServerTypes
  <2>4. VerdictInv'
    BY <1>1, <2>1 DEF VerdictInv, ClientTypes
  <2>5. ClientMoves
    <3>1. ~Died(c)
      BY <2>1, NullApart DEF Died, Outcomes
    <3>2. \A d \in Clients : Died(d) => Died(d)'
      BY <2>1, <3>1 DEF ClientTypes, Died
    <3>3. \A d \in Clients : conn'[d] = "open" <=> conn[d] = "open"
      BY <2>1 DEF ServerTypes
    <3> QED
      BY <1>1, <3>2, <3>3 DEF ClientMoves, server_vars, store_vars
  <2> QED
    BY <2>2, <2>3, <2>4, <2>5, ClientKeeps
<1>3. CASE write_all_to_socket(c)
  <2>1. /\ cpc[c] = "writing" /\ up[c] < Total(c) /\ UNCHANGED <<conn, eof>>
        /\ \/ up' = [up EXCEPT ![c] = up[c] + 1] /\ UNCHANGED <<cpc, outcome>>
           \/ /\ server = "down" \/ conn[c] = "closed"
              /\ cpc' = [cpc EXCEPT ![c] = "done"]
              /\ outcome' = [outcome EXCEPT ![c] = "closed"] /\ UNCHANGED up
    BY <1>3 DEF write_all_to_socket, End, ServerTypes
  <2>2. outcome[c] = NULL /\ ~Died(c) /\ ~eof[c]
    <3>1. outcome[c] = NULL
      BY <2>1 DEF ClientInv, ClientGoesOn
    <3>2. ~Died(c)
      BY <3>1, NullApart DEF Died, Outcomes
    <3>3. up[c] # Total(c)
      BY <1>0, <2>1 DEF ClientTypes
    <3> QED
      BY <3>1, <3>2, <3>3 DEF ClientInv, ClientGoesOn, Died
  <2>3. ClientTypes' /\ ServerTypes'
    <3>1. up' \in [Clients -> Nat] /\ \A d \in Clients : up'[d] <= Total(d)
      BY <1>0, <2>1 DEF ClientTypes
    <3>2. cpc' \in [Clients -> {"start", "writing", "reading", "done"}]
          /\ outcome' \in [Clients -> Outcomes \cup {NULL}]
      BY <2>1 DEF ClientTypes, Outcomes
    <3> QED
      BY <1>1, <2>1, <3>1, <3>2 DEF ClientTypes, ServerTypes
  <2>4. ClientInv'
    <3>1. ClientGoesOn(c)'
      BY <1>1, <2>1, <2>2 DEF ClientInv, ClientGoesOn, ClientTypes, ServerTypes
    <3> QED
      BY <1>1, <2>1, <3>1, OthersGoOn DEF ClientTypes, ServerTypes
  <2>5. VerdictInv'
    BY <1>1, <2>1 DEF VerdictInv, ClientTypes
  <2>6. ClientMoves
    BY <1>1, <2>1, <2>2 DEF ClientMoves, ClientTypes, server_vars, store_vars, Died
  <2> QED
    BY <2>3, <2>4, <2>5, <2>6, ClientKeeps
<1>4. CASE RequestSent(c)
  <2>1. /\ cpc[c] = "writing" /\ up[c] = Total(c) /\ UNCHANGED <<conn, up, outcome>>
        /\ eof' = [eof EXCEPT ![c] = TRUE] /\ cpc' = [cpc EXCEPT ![c] = "reading"]
    BY <1>4 DEF RequestSent, ShutdownWr
  <2>2. ClientTypes' /\ ServerTypes'
    BY <1>0, <1>1, <2>1 DEF ClientTypes, ServerTypes
  <2>3. ClientInv'
    <3>1. ClientGoesOn(c)'
      BY <1>1, <2>1 DEF ClientInv, ClientGoesOn, ClientTypes
    <3> QED
      BY <1>1, <2>1, <3>1, OthersGoOn DEF ClientTypes, ServerTypes
  <2>4. VerdictInv' /\ ClientMoves
    BY <1>1, <2>1 DEF VerdictInv, ClientMoves, server_vars, store_vars, Died
  <2> QED
    BY <2>2, <2>3, <2>4, ClientKeeps
<1>5. CASE ReadResponse(c)
  <2>1. /\ cpc[c] = "reading" /\ (conn[c] = "closed" \/ server = "down")
        /\ cpc' = [cpc EXCEPT ![c] = "done"] /\ outcome' = [outcome EXCEPT ![c] = Verdict(c)]
        /\ UNCHANGED <<conn, up, eof>>
    BY <1>5 DEF ReadResponse, End
  <2>2. outcome[c] = NULL /\ ~Died(c)
    BY <2>1, NullApart DEF ClientInv, ClientGoesOn, Died, Outcomes
  <2>3. /\ Verdict(c) \in {"ok", "closed", "error", "too little", "too much"}
        /\ (req[c].verb = GET /\ Verdict(c) = "ok") =>
             reply[c].status = "OK" /\ reply[c].count = reply[c].size
        /\ req[c].verb = LIST => Verdict(c) \notin {"too little", "too much"}
    <3>1. /\ reply[c].status \in {NULL, "OK", "ERROR"}
          /\ reply[c].size \in Nat /\ reply[c].count \in Nat
      BY DEF ServerTypes, Replies
    <3>2. (reply[c].status = "OK" /\ req[c].verb = LIST) => reply[c].size = reply[c].count
      BY <2>2 DEF ReplyInv
    <3> DEFINE answer == check_size(reply[c].size, reply[c].count)
    <3>3. /\ answer \in {"ok", "closed", "too little", "too much"}
          /\ answer = "ok" <=> reply[c].count = reply[c].size
      BY <3>1, CheckSize
    <3> HIDE DEF answer
    <3>4. /\ reply[c].status = NULL => Verdict(c) = "closed"
          /\ reply[c].status = "ERROR" => Verdict(c) = "error"
          /\ reply[c].status = "OK" =>
               Verdict(c) = IF req[c].verb \in {GET, LIST} THEN answer ELSE "ok"
      BY <3>1, NullApart DEF Verdict, answer
    <3> QED
      BY <3>1, <3>2, <3>3, <3>4
  <2>4. ClientTypes' /\ ServerTypes'
    BY <1>1, <2>1, <2>3 DEF ClientTypes, ServerTypes, Outcomes
  <2>5. ClientInv'
    <3>1. ClientGoesOn(c)'
      BY <1>1, <2>1, <2>2 DEF ClientInv, ClientGoesOn, ClientTypes, Died
    <3> QED
      BY <1>1, <2>1, <3>1, OthersGoOn DEF ClientTypes, ServerTypes
  <2>6. VerdictInv'
    BY <1>1, <2>1, <2>3 DEF VerdictInv, ClientTypes
  <2>7. ClientMoves
    BY <1>1, <2>1, <2>2 DEF ClientMoves, ClientTypes, server_vars, store_vars, Died
  <2> QED
    BY <2>4, <2>5, <2>6, <2>7, ClientKeeps
<1>6. CASE Crash(c)
  <2>1. /\ cpc[c] \in {"writing", "reading"} /\ eof' = [eof EXCEPT ![c] = TRUE]
        /\ cpc' = [cpc EXCEPT ![c] = "done"] /\ outcome' = [outcome EXCEPT ![c] = "crashed"]
        /\ UNCHANGED <<conn, up>>
    BY <1>6 DEF Crash, End
  <2>2. ClientTypes' /\ ServerTypes'
    BY <1>1, <2>1 DEF ClientTypes, ServerTypes, Outcomes
  <2>3. ClientInv'
    <3>1. ClientGoesOn(c)'
      BY <1>1, <2>1 DEF ClientInv, ClientGoesOn, ClientTypes
    <3> QED
      BY <1>1, <2>1, <3>1, OthersGoOn DEF ClientTypes, ServerTypes
  <2>4. VerdictInv' /\ ClientMoves
    BY <1>1, <2>1 DEF VerdictInv, ClientTypes, ClientMoves, server_vars, store_vars, Died
  <2> QED
    BY <2>2, <2>3, <2>4, ClientKeeps
<1> QED
  BY <1>2, <1>3, <1>4, <1>5, <1>6 DEF Client

-----------------------------------------------------------------------------
(* The server *)

\* What every step of the server leaves alone: the clients, connections it has
\* not accepted or has closed, and what was answered on those.
ServerMoves ==
  /\ server = "up" /\ UNCHANGED client_vars
  /\ \A c \in Clients : conn'[c] = conn[c] \/ conn[c] \in {"pending", "open"}
  /\ \A c \in Clients : reply'[c] = reply[c] \/ conn[c] = "open"

LEMMA ServerKeeps ==
  ASSUME NSInv, ServerMoves,
         ServerTypes', StoreTypes', ServeInv', ExecInv', StoreInv', ReplyInv'
  PROVE  NSInv'
<1>1. /\ UNCHANGED <<req, cpc, up, eof, outcome>> /\ server = "up"
      /\ \A c \in Clients : Total(c)' = Total(c)
  BY DEF ServerMoves, client_vars, Total, Put
<1>2. ClientTypes'
  BY <1>1 DEF NSInv, NSTypes, ClientTypes
<1>3. ASSUME NEW c \in Clients PROVE ClientGoesOn(c)'
  <2>1. ClientGoesOn(c)
    BY DEF NSInv, ClientInv
  <2>2. /\ conn[c] = "none" => conn'[c] = "none"
        /\ conn[c] = "closed" => conn'[c] = "closed"
    BY DEF ServerMoves
  <2> QED
    BY <1>1, <2>1, <2>2 DEF ClientGoesOn
<1>4. ASSUME NEW c \in Clients, outcome[c] = "ok" PROVE reply'[c] = reply[c]
  <2>1. cpc[c] = "done"
    BY <1>4, NullApart DEF NSInv, ClientInv, ClientGoesOn, Outcomes
  <2>2. conn[c] = "closed"
    BY <1>1, <1>4, <2>1 DEF NSInv, ClientInv, ClientGoesOn
  <2> QED
    BY <2>2 DEF ServerMoves
<1>5. VerdictInv'
  BY <1>1, <1>4 DEF NSInv, VerdictInv
<1> QED
  BY <1>2, <1>3, <1>5 DEF NSInv, NSTypes, ClientInv

\* The server exits; the connections are lost with it.
LEMMA DieKeeps ==
  ASSUME NSInv, server = "up", Die, UNCHANGED <<client_vars, conn, reply>>, StoreTypes'
  PROVE  NSInv'
<1>1. server' = "down" /\ UNCHANGED <<spc, cur, info, freed, conn, reply, req, outcome>>
  BY DEF Die, client_vars
<1>2. ServerTypes' /\ ServeInv' /\ ReplyInv' /\ ServerMoves
  BY <1>1 DEF NSInv, NSTypes, ServerTypes, ServeInv, ReplyInv, Died, ServerMoves
<1>3. ExecInv' /\ StoreInv'
  BY <1>1 DEF ExecInv, StoreInv
<1> QED
  BY <1>2, <1>3, ServerKeeps

\* The handler goes on with a client_info.
LEMMA GotoKeeps ==
  ASSUME NSInv, server = "up", NEW c \in Clients, conn[c] = "open",
         NEW at \in {"size", "data", "exec", "send"}, NEW i \in Named, Goto(c, at, i),
         UNCHANGED <<client_vars, conn, reply>>, StoreTypes', ExecInv', StoreInv'
  PROVE  NSInv'
<1>1. /\ server' = "up" /\ spc' = at /\ cur' = c /\ info' = [info EXCEPT ![c] = i]
      /\ UNCHANGED <<freed, conn, reply, req, outcome>>
  BY DEF Goto, client_vars
<1>2. ServerTypes' /\ ServerMoves
  BY <1>1 DEF NSInv, NSTypes, ServerTypes, ServerMoves
<1>3. ServeInv'
  <2>1. i # NULL
    BY NullApart DEF Named
  <2>2. \A d \in Clients : info'[d] = IF d = c THEN i ELSE info[d]
    BY <1>1 DEF NSInv, NSTypes, ServerTypes
  <2> QED
    BY <1>1, <2>1, <2>2 DEF NSInv, ServeInv
<1>4. ReplyInv'
  BY <1>1 DEF NSInv, ReplyInv, Died
<1> QED
  BY <1>2, <1>3, <1>4, ServerKeeps

\* A truthful answer to the client that is served.
Truthful(r) ==
  (~Died(cur) /\ r.status = "OK") =>
     /\ req[cur].verb = GET  => r.by \in Clients /\ r.size = req[r.by].size
     /\ req[cur].verb = LIST => r.size = r.count

LEMMA AnswerKeeps ==
  ASSUME NSInv, cur \in Clients, NEW r \in Replies, Truthful(r),
         reply' = [reply EXCEPT ![cur] = r], UNCHANGED client_vars
  PROVE  reply' \in [Clients -> Replies] /\ ReplyInv'
<1>1. UNCHANGED <<req, outcome>>
  BY DEF client_vars
<1>2. reply \in [Clients -> Replies]
  BY DEF NSInv, NSTypes, ServerTypes
<1>3. \A d \in Clients : reply'[d] = IF d = cur THEN r ELSE reply[d]
  BY <1>2
<1> QED
  BY <1>1, <1>2, <1>3 DEF NSInv, ReplyInv, Truthful, Died

\* The connection is closed.
LEMMA CloseKeeps ==
  ASSUME NSInv, server = "up", spc \in {"exec", "send"},
         NEW i \in Named, Close(i), UNCHANGED client_vars,
         NEW r \in Replies, Truthful(r), reply' = [reply EXCEPT ![cur] = r],
         StoreTypes', StoreInv'
  PROVE  NSInv'
<1>1. cur \in Clients /\ conn[cur] = "open"
  BY DEF NSInv, ServeInv
<1>2. /\ server' = "up" /\ spc' = "wait" /\ cur' = NULL /\ info' = [info EXCEPT ![cur] = NULL]
      /\ freed' = freed \cup {i} /\ conn' = [conn EXCEPT ![cur] = "closed"]
  BY DEF Close, Unregistered
<1>3. reply' \in [Clients -> Replies] /\ ReplyInv'
  BY <1>1, AnswerKeeps
<1>4. ServerTypes'
  BY <1>1, <1>2, <1>3 DEF NSInv, NSTypes, ServerTypes
<1>5. ServerMoves
  BY <1>1, <1>2 DEF NSInv, NSTypes, ServerTypes, ServerMoves
<1>6. ServeInv'
  BY <1>1, <1>2 DEF NSInv, NSTypes, ServerTypes, ServeInv
<1>7. ExecInv'
  BY <1>2 DEF ExecInv
<1> QED
  BY <1>3, <1>4, <1>5, <1>6, <1>7, ServerKeeps

LEMMA AcceptStep ==
  ASSUME NSInv, NEW c \in Clients, Accept(c)
  PROVE  NSInv'
<1> USE DEF NSInv, NSTypes
<1>1. PICK mem \in {Zeroed} \cup freed : info' = [info EXCEPT ![c] = mem]
  BY DEF Accept
<1>2. /\ server = "up" /\ spc = "wait" /\ conn[c] = "pending"
      /\ conn' = [conn EXCEPT ![c] = "open"]
      /\ UNCHANGED <<client_vars, reply, server, spc, cur, freed, dir, file_size_dict, file_name_vec>>
      /\ UNCHANGED <<req, outcome>>
  BY DEF Accept, store_vars, client_vars
<1>3. mem \in Named /\ mem # NULL
  BY ZeroedNamed, NullApart DEF ServerTypes, Named
<1>4. ServerTypes' /\ StoreTypes' /\ ServerMoves
  BY <1>1, <1>2, <1>3 DEF ServerTypes, StoreTypes, ServerMoves
<1>5. ServeInv'
  BY <1>1, <1>2, <1>3 DEF ServerTypes, ServeInv
<1>6. ExecInv' /\ StoreInv'
  BY <1>2 DEF ExecInv, StoreInv, Unfinished, Complete
<1>7. ReplyInv'
  BY <1>2 DEF ReplyInv, Died
<1> QED
  BY <1>4, <1>5, <1>6, <1>7, ServerKeeps

\* Between two requests the whole directory is complete.
LEMMA StoreComplete ==
  ASSUME NSInv, server = "up", spc \in {"wait", "exec", "send"}
  PROVE  \A f \in Names : dir[f] # NULL => Contains(file_name_vec, f) /\ Complete(f)
  BY DEF NSInv, StoreInv, Unfinished

\* The directory stays as it is while a request is parsed.
LEMMA StoreStays ==
  ASSUME NSInv, server = "up", spc \in {"wait", "exec", "send"}, UNCHANGED <<req, store_vars>>
  PROVE  StoreTypes' /\ StoreInv'
<1>1. UNCHANGED <<dir, file_size_dict, file_name_vec>>
  BY DEF store_vars
<1>2. \A f \in Names : dir[f] # NULL => Contains(file_name_vec, f) /\ Complete(f)
  BY StoreComplete
<1> QED
  BY <1>1, <1>2 DEF NSInv, NSTypes, StoreTypes, StoreInv, Complete

\* Only a client that died has shut its write side without a header.
LEMMA ParseNothingStep ==
  ASSUME NSInv, NEW c \in Clients, ParseNothing(c)
  PROVE  NSInv'
<1> USE DEF NSInv, NSTypes
<1>1. /\ server = "up" /\ spc = "wait" /\ conn[c] = "open" /\ up[c] = 0 /\ eof[c]
      /\ Goto(c, "exec", Failed(info[c], 1))
      /\ UNCHANGED <<client_vars, conn, reply, store_vars>> /\ UNCHANGED <<req, outcome>>
  BY DEF ParseNothing, Readable, HeaderArrived, client_vars, ClientTypes
<1>2. info[c] \in Named
  BY <1>1 DEF ServerTypes, ServeInv
<1>3. Failed(info[c], 1) \in Named
  BY <1>2, FailedNamed
<1>4. Died(c)
  <2>1. Total(c) >= 1 /\ Total(c) \in Nat
    BY TotalType DEF ClientTypes
  <2> QED
    BY <1>1, <2>1 DEF ClientInv, ClientGoesOn, Died
<1>5. spc' = "exec" /\ cur' = c
  BY <1>1 DEF Goto
<1>6. ExecInv'
  BY <1>1, <1>4, <1>5 DEF ExecInv, Died
<1>7. StoreTypes' /\ StoreInv'
  BY <1>1, StoreStays
<1> QED
  BY <1>1, <1>3, <1>6, <1>7, GotoKeeps

LEMMA ParsedNamed ==
  ASSUME NSTypes, NEW c \in Clients, info[c] \in Named
  PROVE  /\ Parsed(c) \in Named /\ Parsed(c).command = req[c].verb
         /\ Parsed(c).file_name = req[c].name /\ req[c].name \in Names
<1>1. req[c].verb \in {GET, PUT, DELETE, LIST} /\ req[c].name \in Names
  BY DEF NSTypes, ClientTypes, Requests
<1> DEFINE i == info[c]
           j == [i EXCEPT !.command = req[c].verb]
<1>2. j \in Infos /\ j.command = req[c].verb
  BY <1>1 DEF Named, Infos
<1>3. Parsed(c) = [j EXCEPT !.file_name = req[c].name]
  BY DEF Parsed, Named, Infos
<1> HIDE DEF j
<1> QED
  BY <1>1, <1>2, <1>3 DEF Named, Infos

LEMMA ParseRequestStep ==
  ASSUME NSInv, NEW c \in Clients, ParseRequest(c)
  PROVE  NSInv'
<1> USE DEF NSInv, NSTypes
<1> DEFINE i == IF req[c].verb = LIST THEN [info[c] EXCEPT !.command = LIST] ELSE Parsed(c)
           j == IF i.command = GET THEN Failed(i, 1) ELSE Ready(i)
<1>1. /\ server = "up" /\ spc = "wait" /\ conn[c] = "open" /\ ~Put(c)
      /\ Goto(c, "exec", j)
      /\ UNCHANGED <<client_vars, conn, reply, store_vars>> /\ UNCHANGED <<req, outcome>>
  BY DEF ParseRequest, Readable, client_vars
<1>2. info[c] \in Named
  BY <1>1 DEF ServerTypes, ServeInv
<1>3. /\ i \in Named /\ i.command = req[c].verb
      /\ i.command = LIST \/ i.file_name \in Names
  <2>1. CASE req[c].verb = LIST
    <3>1. i = [info[c] EXCEPT !.command = LIST]
      BY <2>1
    <3> QED
      BY <1>2, <2>1, <3>1 DEF Named, Infos
  <2>2. CASE req[c].verb # LIST
    BY <1>2, <2>2, ParsedNamed
  <2> QED
    BY <2>1, <2>2
<1> HIDE DEF i
<1>4. j \in Named /\ j.command = req[c].verb
  BY <1>3, FailedNamed, ReadyNamed DEF Named
<1> HIDE DEF j
<1>5. spc' = "exec" /\ cur' = c /\ info'[c] = j
  BY <1>1 DEF Goto, ServerTypes
<1>6. ExecInv'
  BY <1>1, <1>4, <1>5 DEF ExecInv, Put
<1>7. StoreTypes' /\ StoreInv'
  BY <1>1, StoreStays
<1> QED
  BY <1>1, <1>4, <1>6, <1>7, GotoKeeps

\* The file is opened for writing, and listed unless it is already.
LEMMA StartPutStep ==
  ASSUME NSInv, NEW c \in Clients, StartPut(c)
  PROVE  NSInv'
<1> USE DEF NSInv, NSTypes
<1>1. /\ server = "up" /\ spc = "wait" /\ conn[c] = "open" /\ Put(c)
      /\ UNCHANGED <<client_vars, conn, reply>> /\ UNCHANGED <<req, outcome>>
  BY DEF StartPut, Readable, client_vars
<1>2. CASE req[c].name \in LongNames
  <2>1. Die /\ UNCHANGED <<dir, file_size_dict, file_name_vec>>
    BY <1>2 DEF StartPut, store_vars
  <2>2. StoreTypes'
    BY <2>1 DEF StoreTypes
  <2> QED
    BY <1>1, <2>1, <2>2, DieKeeps
<1>3. CASE req[c].name \notin LongNames
  <2> DEFINE f == req[c].name
             file == [by |-> c, count |-> 0]
  <2>1. /\ Goto(c, "size", Parsed(c)) /\ file_name_vec' = Listed(f)
        /\ dir' = [dir EXCEPT ![f] = file] /\ UNCHANGED file_size_dict
    BY <1>3 DEF StartPut, Opened
  <2>2. info[c] \in Named
    BY <1>1 DEF ServerTypes, ServeInv
  <2>3. /\ Parsed(c) \in Named /\ Parsed(c).command = PUT
        /\ Parsed(c).file_name = f /\ f \in Names
    BY <1>1, <2>2, ParsedNamed DEF Put
  <2>4. file \in Files
    BY DEF Files
  <2>5. spc' = "size" /\ cur' = c /\ info'[c] = Parsed(c)
    BY <2>1 DEF Goto, ServerTypes
  <2>6. \A h \in Names : dir'[h] = IF h = f THEN file ELSE dir[h]
    BY <2>1, <2>3 DEF StoreTypes
  <2>7. Listed(f) \in Seq(Names)
        /\ \A h \in Names : (h = f \/ dir[h] # NULL) => Contains(Listed(f), h)
    <3>1. \A h \in Names : dir[h] # NULL => Contains(file_name_vec, h)
      BY <1>1, StoreComplete
    <3>2. CASE dir[f] = NULL
      <4>1. Listed(f) = Append(file_name_vec, f)
        BY <3>2 DEF Listed
      <4> DEFINE long == Append(file_name_vec, f)
      <4>2. /\ long \in Seq(Names) /\ Len(long) = Len(file_name_vec) + 1
            /\ \A k \in 1..Len(file_name_vec) : long[k] = file_name_vec[k]
            /\ long[Len(file_name_vec) + 1] = f /\ Len(file_name_vec) \in Nat
        BY <2>3, AppendProperties, LenProperties DEF StoreTypes
      <4> HIDE DEF long
      <4>3. Contains(long, f)
        BY <4>2 DEF Contains
      <4>4. \A h \in Names : Contains(file_name_vec, h) => Contains(long, h)
        BY <4>2 DEF Contains
      <4>5. Listed(f) = long
        BY <4>1 DEF long
      <4> QED
        BY <3>1, <4>2, <4>3, <4>4, <4>5
    <3>3. CASE dir[f] # NULL
      BY <2>3, <3>1, <3>3 DEF Listed, StoreTypes
    <3> QED
      BY <3>2, <3>3
  <2> HIDE DEF file
  <2>8. StoreTypes'
    BY <2>1, <2>3, <2>4, <2>7 DEF StoreTypes
  <2>9. ExecInv'
    <3>1. dir'[req'[cur'].name] = file /\ file = [by |-> c, count |-> 0]
      BY <1>1, <2>3, <2>5, <2>6 DEF file
    <3> QED
      BY <1>1, <2>3, <2>5, <3>1 DEF ExecInv, Put
  <2>10. StoreInv'
    <3>1. \A h \in Names : dir[h] # NULL => Complete(h)
      BY <1>1, StoreComplete
    <3>2. \A h \in Names : dir'[h] # NULL => Contains(file_name_vec', h)
      BY <2>1, <2>6, <2>7
    <3>3. \A h \in Names : dir'[h] # NULL => (Unfinished(h)' \/ Complete(h)')
      BY <1>1, <2>1, <2>5, <2>6, <3>1 DEF Unfinished, Complete
    <3> QED
      BY <3>2, <3>3 DEF StoreInv
  <2> QED
    BY <1>1, <2>1, <2>3, <2>8, <2>9, <2>10, GotoKeeps
<1> QED
  BY <1>2, <1>3

\* Who is served, and what its client_info is.
LEMMA Served ==
  ASSUME NSInv, spc # "wait"
  PROVE  cur \in Clients /\ conn[cur] = "open" /\ info[cur] \in Named /\ info[cur] \in Infos
         /\ req[cur] \in Requests
  BY DEF NSInv, NSTypes, ServeInv, ServerTypes, ClientTypes, Named

\* A client that goes away before the size was sent has died.
LEMMA ReadSizeStep ==
  ASSUME NSInv, ReadSize
  PROVE  NSInv'
<1> USE DEF NSInv, NSTypes
<1> DEFINE f == req[cur].name
<1>1. /\ server = "up" /\ spc = "size"
      /\ UNCHANGED <<client_vars, conn, reply>> /\ UNCHANGED <<req, outcome>>
  BY DEF ReadSize, client_vars
<1>2. /\ cur \in Clients /\ conn[cur] = "open" /\ info[cur] \in Named /\ f \in Names
      /\ Put(cur) /\ info[cur].command = PUT /\ info[cur].file_name \in Names
      /\ dir[f] = [by |-> cur, count |-> 0]
  BY <1>1, Served DEF ExecInv, Requests
<1>3. CASE SizeArrived(cur) /\ spc' = "data" /\ UNCHANGED <<server, cur, info, freed, store_vars>>
  <2>1. UNCHANGED <<server, cur, info, freed, dir, file_size_dict, file_name_vec>> /\ spc' = "data"
    BY <1>3 DEF store_vars
  <2>2. ServerTypes' /\ StoreTypes' /\ ServeInv' /\ ServerMoves
    BY <1>1, <2>1 DEF ServerTypes, StoreTypes, ServeInv, ServerMoves
  <2>3. ExecInv'
    BY <1>1, <2>1 DEF ExecInv, Put
  <2>4. StoreInv' /\ ReplyInv'
    BY <1>1, <2>1 DEF StoreInv, Unfinished, Complete, ReplyInv, Died
  <2> QED
    BY <2>2, <2>3, <2>4, ServerKeeps
<1>4. CASE /\ ~SizeArrived(cur) /\ eof[cur] /\ Goto(cur, "exec", Failed(info[cur], 2))
           /\ dir' = Removed(f) /\ UNCHANGED <<file_size_dict, file_name_vec>>
  <2>1. Died(cur)
    <3>1. Total(cur) \in Nat /\ Total(cur) >= 2
      BY <1>2, TotalType DEF ClientTypes
    <3>2. up[cur] \in Nat /\ ~(up[cur] > 1)
      BY <1>2, <1>4 DEF SizeArrived, ClientTypes
    <3> QED
      BY <1>2, <1>4, <3>1, <3>2 DEF ClientInv, ClientGoesOn, Died
  <2>2. Failed(info[cur], 2) \in Named
    BY <1>2, FailedNamed
  <2>3. spc' = "exec" /\ cur' = cur
    BY <1>4 DEF Goto
  <2>4. \A h \in Names : dir'[h] = IF h = f THEN NULL ELSE dir[h]
    BY <1>4 DEF Removed, StoreTypes
  <2>5. StoreTypes'
    BY <1>4 DEF Removed, StoreTypes
  <2>6. ExecInv'
    BY <1>1, <2>1, <2>3 DEF ExecInv, Died
  <2>7. StoreInv'
    BY <1>1, <1>4, <2>4 DEF StoreInv, Unfinished, Complete
  <2> QED
    BY <1>1, <1>2, <1>4, <2>2, <2>5, <2>6, <2>7, GotoKeeps
<1> QED
  BY <1>3, <1>4 DEF ReadSize

\* The upload is stored when its size is right; else the server exits.
LEMMA ReadDataStep ==
  ASSUME NSInv, ReadData
  PROVE  NSInv'
<1> USE DEF NSInv, NSTypes
<1> DEFINE f == req[cur].name
           size == req[cur].size
<1>1. /\ server = "up" /\ spc = "data"
      /\ UNCHANGED <<client_vars, conn, reply, file_name_vec>> /\ UNCHANGED <<req, outcome>>
  BY DEF ReadData, client_vars
<1>2. /\ cur \in Clients /\ conn[cur] = "open" /\ info[cur] \in Named /\ info[cur] \in Infos
      /\ f \in Names /\ size \in Nat
      /\ Put(cur) /\ info[cur].command = PUT /\ info[cur].file_name \in Names
      /\ dir[f] = [by |-> cur, count |-> 0]
  BY <1>1, Served DEF ExecInv, Requests
<1>3. Received \in Int
  BY <1>2 DEF Received, ClientTypes
<1>4. CASE CountRight(Received, size)
  <2>1. Received = size
    BY <1>2, <1>3, <1>4 DEF CountRight
  <2>2. /\ Goto(cur, "exec", Ready(info[cur]))
        /\ file_size_dict' = [file_size_dict EXCEPT ![f] = size]
        /\ dir' = [dir EXCEPT ![f].count = size]
    BY <1>4, <2>1 DEF ReadData
  <2> DEFINE file == [by |-> cur, count |-> size]
  <2>3. dir' = [dir EXCEPT ![f] = file]
    <3>1. [[by |-> cur, count |-> 0] EXCEPT !.count = size] = file
      OBVIOUS
    <3>2. [dir[f] EXCEPT !.count = size] = file
      BY <1>2, <3>1, Zenon
    <3>3. dir' = [dir EXCEPT ![f] = [dir[f] EXCEPT !.count = size]]
      BY <2>2
    <3> QED
      BY <3>2, <3>3, Zenon
  <2>4. file \in Files /\ file.by = cur /\ file.count = size
    BY <1>2 DEF Files
  <2>5. Ready(info[cur]) \in Named /\ Ready(info[cur]).command = PUT
    BY <1>2, ReadyNamed
  <2>6. spc' = "exec" /\ cur' = cur /\ info'[cur] = Ready(info[cur])
    BY <1>2, <2>2 DEF Goto, ServerTypes
  <2>7. \A h \in Names : /\ dir'[h] = IF h = f THEN file ELSE dir[h]
                         /\ file_size_dict'[h] = IF h = f THEN size ELSE file_size_dict[h]
    BY <2>2, <2>3 DEF StoreTypes
  <2>8. dir'[f] = [by |-> cur, count |-> size]
    BY <1>2, <2>7
  <2> HIDE DEF file
  <2>9. StoreTypes'
    BY <1>1, <1>2, <2>2, <2>3, <2>4 DEF StoreTypes
  <2>10. ExecInv'
    BY <1>1, <1>2, <2>5, <2>6, <2>8 DEF ExecInv, Put
  <2>11. StoreInv'
    <3>1. \A h \in Names : dir'[h] # NULL => Contains(file_name_vec', h)
      <4>1. dir[f] # NULL
        BY <1>2, NullApart DEF Files
      <4> QED
        BY <1>1, <2>7, <4>1 DEF StoreInv
    <3>2. ASSUME NEW h \in Names, dir'[h] # NULL PROVE Complete(h)'
      <4>1. CASE h = f
        BY <1>1, <2>4, <2>7, <4>1 DEF Complete
      <4>2. CASE h # f
        BY <1>1, <2>7, <3>2, <4>2 DEF StoreInv, Unfinished, Complete
      <4> QED
        BY <4>1, <4>2
    <3> QED
      BY <3>1, <3>2 DEF StoreInv
  <2> QED
    BY <1>1, <1>2, <2>2, <2>5, <2>9, <2>10, <2>11, GotoKeeps
<1>5. CASE ~CountRight(Received, size)
  <2>1. Die /\ dir' = Removed(f) /\ UNCHANGED file_size_dict
    BY <1>5 DEF ReadData
  <2>2. StoreTypes'
    BY <1>1, <2>1 DEF Removed, StoreTypes
  <2> QED
    BY <1>1, <2>1, <2>2, DieKeeps
<1> QED
  BY <1>4, <1>5

\* What is executed for a live client is what it asked for.
LEMMA ExecutingServed ==
  ASSUME NSInv, NEW command \in {GET, PUT, DELETE, LIST}, Executing(command)
  PROVE  /\ server = "up" /\ spc = "exec" /\ cur \in Clients /\ info[cur] \in Named
         /\ Died(cur) \/ req[cur].verb = command
         /\ command # LIST => info[cur].file_name \in Names
  BY Served DEF Executing, NSInv, ExecInv, Named

LEMMA ExecPutStep ==
  ASSUME NSInv, ExecPut
  PROVE  NSInv'
<1>1. /\ Executing(PUT) /\ Close(info[cur]) /\ reply' = [reply EXCEPT ![cur] = OK]
      /\ UNCHANGED <<client_vars, store_vars>> /\ UNCHANGED req
  BY DEF ExecPut, Answer, client_vars
<1>2. server = "up" /\ spc = "exec" /\ info[cur] \in Named /\ (Died(cur) \/ req[cur].verb = PUT)
  BY <1>1, ExecutingServed
<1>3. Truthful(OK)
  BY <1>2 DEF Truthful, GET, PUT, LIST
<1>4. StoreTypes' /\ StoreInv'
  BY <1>1, <1>2, StoreStays
<1> QED
  BY <1>1, <1>2, <1>3, <1>4, NoReplyType, CloseKeeps

LEMMA ListStep ==
  ASSUME NSInv, help_list
  PROVE  NSInv'
<1> DEFINE n == Len(file_name_vec)
           size == ListSize(file_name_vec)
           count == IF file_name_vec = <<>> THEN 0 ELSE 2 * n - 1
           r == [OK EXCEPT !.size = size, !.count = count]
<1>1. /\ Executing(LIST) /\ Close(info[cur]) /\ reply' = [reply EXCEPT ![cur] = r]
      /\ UNCHANGED <<client_vars, store_vars>> /\ UNCHANGED req
  BY DEF help_list, Answer, client_vars
<1>2. server = "up" /\ spc = "exec" /\ info[cur] \in Named /\ (Died(cur) \/ req[cur].verb = LIST)
  BY <1>1, ExecutingServed
<1>3. size \in Nat /\ count = size
  <2>1. n \in Nat /\ (file_name_vec # <<>> => n >= 1)
    BY EmptySeq, LenProperties DEF NSInv, NSTypes, StoreTypes
  <2> QED
    BY <2>1 DEF ListSize
<1> HIDE DEF n, size, count
<1>4. r \in Replies /\ r.status = "OK" /\ r.size = size /\ r.count = size
  BY <1>3 DEF OK, NoReply, Replies
<1> HIDE DEF r
<1>5. Truthful(r)
  BY <1>2, <1>4 DEF Truthful, GET, LIST
<1>6. StoreTypes' /\ StoreInv'
  BY <1>1, <1>2, StoreStays
<1> QED
  BY <1>1, <1>2, <1>4, <1>5, <1>6, CloseKeeps

\* The old answer is as truthful as it was.
LEMMA OldReply ==
  ASSUME NSInv, cur \in Clients
  PROVE  /\ reply[cur] \in Replies /\ Truthful(reply[cur])
         /\ reply = [reply EXCEPT ![cur] = reply[cur]]
  BY DEF NSInv, NSTypes, ServerTypes, ReplyInv, Truthful

LEMMA DeleteStep ==
  ASSUME NSInv, help_delete
  PROVE  NSInv'
<1> USE DEF NSInv, NSTypes
<1> DEFINE f == info[cur].file_name
           found == Contains(file_name_vec, f)
<1>1. Executing(DELETE) /\ UNCHANGED client_vars /\ UNCHANGED req
  BY DEF help_delete, client_vars
<1>2. /\ server = "up" /\ spc = "exec" /\ cur \in Clients /\ info[cur] \in Named /\ f \in Names
      /\ Died(cur) \/ req[cur].verb = DELETE
  BY <1>1, ExecutingServed DEF DELETE, LIST
<1>3. Failed(info[cur], 3) \in Named
  BY <1>2, FailedNamed
<1>4. reply[cur] \in Replies /\ Truthful(reply[cur]) /\ reply = [reply EXCEPT ![cur] = reply[cur]]
  BY <1>2, OldReply
<1>5. CASE dir[f] = NULL
  <2>1. Close(Failed(info[cur], 3)) /\ UNCHANGED <<reply, store_vars>>
    BY <1>5 DEF help_delete
  <2>2. StoreTypes' /\ StoreInv'
    BY <1>1, <1>2, <2>1, StoreStays
  <2>3. reply' = [reply EXCEPT ![cur] = reply[cur]]
    BY <1>4, <2>1
  <2> QED
    BY <1>1, <1>2, <1>3, <1>4, <2>1, <2>2, <2>3, CloseKeeps
<1>6. CASE dir[f] # NULL
  <2> DEFINE r == IF found THEN OK ELSE reply[cur]
             i == IF found THEN info[cur] ELSE Failed(info[cur], 3)
  <2>1. /\ dir' = [dir EXCEPT ![f] = NULL] /\ file_size_dict' = [file_size_dict EXCEPT ![f] = NULL]
        /\ file_name_vec' = RemoveFirst(file_name_vec, f)
        /\ reply' = [reply EXCEPT ![cur] = r] /\ Close(i)
    BY <1>6 DEF help_delete, Removed, Answer
  <2>2. Truthful(OK)
    BY <1>2 DEF Truthful, GET, DELETE, LIST
  <2>3. r \in Replies /\ Truthful(r) /\ i \in Named
    BY <1>2, <1>3, <1>4, <2>2, NoReplyType
  <2> HIDE DEF r, i
  <2>4. /\ RemoveFirst(file_name_vec, f) \in Seq(Names)
        /\ \A h \in Names : (h # f /\ Contains(file_name_vec, h))
                               => Contains(RemoveFirst(file_name_vec, f), h)
    BY RemoveFirstKeeps DEF StoreTypes
  <2>5. StoreTypes'
    BY <2>1, <2>4 DEF StoreTypes
  <2>6. StoreInv'
    <3>1. \A h \in Names : dir[h] # NULL => Contains(file_name_vec, h) /\ Complete(h)
      BY <1>2, StoreComplete
    <3>2. \A h \in Names : /\ dir'[h] = IF h = f THEN NULL ELSE dir[h]
                           /\ file_size_dict'[h] = IF h = f THEN NULL ELSE file_size_dict[h]
      BY <2>1 DEF StoreTypes
    <3> QED
      BY <1>1, <2>1, <2>4, <3>1, <3>2 DEF StoreInv, Complete
  <2> QED
    BY <1>1, <1>2, <2>1, <2>3, <2>5, <2>6, CloseKeeps
<1> QED
  BY <1>5, <1>6

\* A download is announced with the size of the upload it comes from.
LEMMA GetStep ==
  ASSUME NSInv, help_get
  PROVE  NSInv'
<1> USE DEF NSInv, NSTypes
<1> DEFINE f == info[cur].file_name
<1>1. Executing(GET) /\ UNCHANGED <<client_vars, store_vars>> /\ UNCHANGED <<req, outcome>>
  BY DEF help_get, client_vars
<1>2. /\ server = "up" /\ spc = "exec" /\ cur \in Clients /\ info[cur] \in Named /\ f \in Names
      /\ Died(cur) \/ req[cur].verb = GET
  BY <1>1, ExecutingServed DEF GET, LIST
<1>3. StoreTypes' /\ StoreInv'
  BY <1>1, <1>2, StoreStays
<1>4. CASE Die /\ UNCHANGED <<conn, reply>>
  BY <1>1, <1>2, <1>3, <1>4, DieKeeps
<1>5. CASE Close(Failed(info[cur], 3)) /\ UNCHANGED reply
  <2>1. reply[cur] \in Replies /\ Truthful(reply[cur]) /\ reply' = [reply EXCEPT ![cur] = reply[cur]]
    BY <1>2, <1>5, OldReply
  <2>2. Failed(info[cur], 3) \in Named
    BY <1>2, FailedNamed
  <2> QED
    BY <1>1, <1>2, <1>3, <1>5, <2>1, <2>2, CloseKeeps
<1>6. CASE /\ dir[f] # NULL
           /\ Answer(cur, [OK EXCEPT !.size = file_size_dict[f], !.by = dir[f].by])
           /\ spc' = "send" /\ UNCHANGED <<server, cur, info, freed, conn>>
  <2> DEFINE size == file_size_dict[f]
             by == dir[f].by
             r == [OK EXCEPT !.size = size, !.by = by]
  <2>1. by \in Clients /\ size \in Nat /\ size = req[by].size
    <3>1. Complete(f) /\ dir[f] \in Files
      BY <1>2, <1>6, StoreComplete DEF StoreTypes
    <3> QED
      BY <3>1 DEF Complete, Files
  <2> HIDE DEF size, by
  <2>2. r \in Replies /\ r.size = size /\ r.by = by
    BY <2>1 DEF OK, NoReply, Replies
  <2>3. reply' = [reply EXCEPT ![cur] = r]
    BY <1>6 DEF Answer, size, by
  <2> HIDE DEF r
  <2>4. Truthful(r)
    BY <1>2, <2>1, <2>2 DEF Truthful, GET, LIST
  <2>5. reply' \in [Clients -> Replies] /\ ReplyInv'
    BY <1>1, <1>2, <2>2, <2>3, <2>4, AnswerKeeps
  <2>6. ServerTypes' /\ ServeInv' /\ ServerMoves
    <3>1. conn[cur] = "open"
      BY <1>2 DEF ServeInv
    <3> QED
      BY <1>1, <1>2, <1>6, <2>3, <2>5, <3>1 DEF ServerTypes, ServeInv, ServerMoves
  <2>7. ExecInv'
    <3>1. UNCHANGED dir /\ info[cur].command = GET
      BY <1>1 DEF store_vars, Executing
    <3> QED
      BY <1>1, <1>2, <1>6, <3>1 DEF ExecInv, Put, Died
  <2> QED
    BY <1>3, <2>5, <2>6, <2>7, ServerKeeps
<1> QED
  BY <1>4, <1>5, <1>6 DEF help_get

LEMMA SendStep ==
  ASSUME NSInv, SendBlock
  PROVE  NSInv'
<1> USE DEF NSInv, NSTypes
<1>1. server = "up" /\ spc = "send" /\ UNCHANGED <<client_vars, store_vars>> /\ UNCHANGED <<req, outcome>>
  BY DEF SendBlock, client_vars
<1>2. cur \in Clients /\ conn[cur] = "open" /\ info[cur] \in Named
  BY <1>1, Served
<1>3. StoreTypes' /\ StoreInv'
  BY <1>1, StoreStays
<1>4. reply[cur] \in Replies /\ Truthful(reply[cur]) /\ reply = [reply EXCEPT ![cur] = reply[cur]]
  BY <1>2, OldReply
<1>5. CASE /\ Answer(cur, [reply[cur] EXCEPT !.count = reply[cur].count + 1])
           /\ UNCHANGED <<server_vars, conn>>
  <2> DEFINE old == reply[cur]
             r == [old EXCEPT !.count = old.count + 1]
  <2>1. r \in Replies /\ r.status = old.status /\ r.size = old.size /\ r.by = old.by
    BY <1>4 DEF Replies
  <2>2. reply' = [reply EXCEPT ![cur] = r]
    BY <1>5 DEF Answer
  <2>3. Truthful(r)
    <3>1. Died(cur) \/ req[cur].verb = GET
      BY <1>1 DEF ExecInv
    <3> HIDE DEF r
    <3> QED
      BY <1>4, <2>1, <3>1 DEF Truthful, GET, LIST
  <2> HIDE DEF r
  <2>4. reply' \in [Clients -> Replies] /\ ReplyInv'
    BY <1>1, <1>2, <2>1, <2>2, <2>3, AnswerKeeps
  <2>5. UNCHANGED <<server, spc, cur, info, freed, conn, dir>>
    BY <1>1, <1>5 DEF server_vars, store_vars
  <2>6. ServerTypes' /\ ServeInv' /\ ServerMoves
    BY <1>1, <1>2, <2>2, <2>4, <2>5 DEF ServerTypes, ServeInv, ServerMoves
  <2>7. ExecInv'
    BY <1>1, <2>5 DEF ExecInv, Put, Died
  <2> QED
    BY <1>3, <2>4, <2>6, <2>7, ServerKeeps
<1>6. CASE Die /\ UNCHANGED <<conn, reply>>
  BY <1>1, <1>3, <1>6, DieKeeps
<1>7. CASE Close(Failed(info[cur], 3)) /\ UNCHANGED reply
  <2>1. Failed(info[cur], 3) \in Named
    BY <1>2, FailedNamed
  <2>2. reply' = [reply EXCEPT ![cur] = reply[cur]]
    BY <1>4, <1>7
  <2> QED
    BY <1>1, <1>3, <1>4, <1>7, <2>1, <2>2, CloseKeeps
<1> QED
  BY <1>5, <1>6, <1>7 DEF SendBlock

LEMMA ReportStep ==
  ASSUME NSInv, ReportError
  PROVE  NSInv'
<1> DEFINE status == IF info[cur].error_type > 0 THEN "ERROR" ELSE NULL
           r == [NoReply EXCEPT !.status = status]
<1>1. /\ server = "up" /\ spc = "exec" /\ Close(info[cur]) /\ reply' = [reply EXCEPT ![cur] = r]
      /\ UNCHANGED <<client_vars, store_vars>> /\ UNCHANGED req
  BY DEF ReportError, Answer, client_vars
<1>2. info[cur] \in Named
  BY <1>1, Served
<1>3. r \in Replies /\ r.status # "OK"
  BY NullApart DEF NoReply, Replies
<1> HIDE DEF r
<1>4. Truthful(r)
  BY <1>3 DEF Truthful
<1>5. StoreTypes' /\ StoreInv'
  BY <1>1, StoreStays
<1> QED
  BY <1>1, <1>2, <1>3, <1>4, <1>5, CloseKeeps

LEMMA SigintStep ==
  ASSUME NSInv, disconnect_server
  PROVE  NSInv'
<1>1. /\ server = "up" /\ Die /\ dir' = [f \in Names |-> NULL]
      /\ UNCHANGED <<client_vars, conn, reply, file_size_dict, file_name_vec>>
  BY DEF disconnect_server
<1>2. StoreTypes'
  BY <1>1 DEF NSInv, NSTypes, StoreTypes
<1> QED
  BY <1>1, <1>2, DieKeeps

\* The invariant holds in every state of the program.
LEMMA NSInvariance ==
  Spec => []NSInv
<1>1. NSInv /\ [Next]_vars => NSInv'
  <2> SUFFICES ASSUME NSInv, [Next]_vars PROVE NSInv'
    OBVIOUS
  <2>1. CASE Server
    BY <2>1, AcceptStep, ParseNothingStep, ParseRequestStep, StartPutStep, ReadSizeStep,
       ReadDataStep, ExecPutStep, ListStep, DeleteStep, GetStep, SendStep, ReportStep DEF Server
  <2>2. CASE disconnect_server
    BY <2>2, SigintStep
  <2>3. ASSUME NEW c \in Clients, Client(c) \/ Crash(c) PROVE NSInv'
    BY <2>3, ClientStep
  <2>4. CASE UNCHANGED vars
    <3>1. UNCHANGED <<req, cpc, up, eof, outcome, conn, reply, server, spc, cur, info, freed,
                      dir, file_size_dict, file_name_vec>>
      BY <2>4 DEF vars, client_vars, server_vars, store_vars
    <3> QED
      <4>1. NSTypes'
        BY <3>1 DEF NSInv, NSTypes, ClientTypes, ServerTypes, StoreTypes, Put, Total
      <4>2. ClientInv' /\ ServeInv'
        BY <3>1 DEF NSInv, ClientInv, ClientGoesOn, ServeInv, Put, Total
      <4>3. ExecInv' /\ StoreInv'
        BY <3>1 DEF NSInv, ExecInv, StoreInv, Unfinished, Complete, Died, Put
      <4>4. ReplyInv' /\ VerdictInv'
        BY <3>1 DEF NSInv, ReplyInv, VerdictInv, Died
      <4> QED
        BY <4>1, <4>2, <4>3, <4>4 DEF NSInv
  <2> QED
    BY <2>1, <2>2, <2>3, <2>4 DEF Next
<1> QED
  BY NSInit, <1>1, PTL DEF Spec

\* For any clients: while the server runs, every file of its directory is listed,
\* and between two requests it is one complete upload with its size in
\* file_size_dict (server.c:67-84, 108), although failed uploads, overwritten
\* files, dead clients and requests executed from stale memory come in between.
THEOREM StoreCorrect ==
  Spec => []StoreConsistent
<1>1. NSInv => StoreConsistent
  <2> SUFFICES ASSUME NSInv PROVE StoreConsistent
    OBVIOUS
  <2>1. TypeOK
    <3>1. Named \subseteq Infos
      BY DEF Named
    <3>2. \A c \in Clients : conn[c] = "open" <=> info[c] \in Infos
      BY <3>1, NullApart DEF NSInv, NSTypes, ServerTypes, ServeInv
    <3>3. \A c \in Clients : up[c] \in 0..Total(c)
      BY TotalType DEF NSInv, NSTypes, ClientTypes
    <3>4. spc # "wait" => conn[cur] = "open"
      BY DEF NSInv, ServeInv
    <3> QED
      BY <3>1, <3>2, <3>3, <3>4 DEF TypeOK, NSInv, NSTypes, ServerTypes
  <2>2. server = "up" => \A f \in Names : dir[f] # NULL => Contains(file_name_vec, f)
    BY DEF NSInv, StoreInv
  <2>3. (server = "up" /\ spc \in {"wait", "exec", "send"}) =>
          \A f \in Names : dir[f] # NULL => Complete(f)
    BY StoreComplete
  <2> QED
    BY <2>1, <2>2, <2>3 DEF StoreConsistent, Complete
<1> QED
  BY <1>1, NSInvariance, PTL

\* For any clients: a download that a client accepts is the whole of one upload,
\* and a list that was announced is never turned down by check_size, even when
\* the server dies (client.c:112-113 and 139-140, server.c:113 and 159-168).
THEOREM AnswersCorrect ==
  Spec => []AnswersComplete
<1>1. NSInv => AnswersComplete
  <2> SUFFICES ASSUME NSInv, NEW c \in Clients
               PROVE  /\ (outcome[c] = "ok" /\ req[c].verb = GET) =>
                           reply[c].count = req[reply[c].by].size
                      /\ (req[c].verb = LIST /\ reply[c].status = "OK") =>
                           outcome[c] \notin {"too little", "too much"}
    BY DEF AnswersComplete
  <2> QED
    BY DEF NSInv, VerdictInv, ReplyInv, Died
<1> QED
  BY <1>1, NSInvariance, PTL

\* For any clients: a client that is told its upload succeeded has it stored, all
\* of it, when the answer is written (server.c:82-84 and 236).
THEOREM UploadsStored ==
  Spec => UploadStored
<1>1. ASSUME NSInv, [Next]_vars, NEW c \in Clients, Put(c), cpc[c] = "reading",
             reply[c].status = NULL, reply'[c].status = "OK"
      PROVE  dir[req[c].name] = [by |-> c, count |-> req[c].size]
  <2>1. reply'[c] # reply[c]
    BY <1>1, NullApart
  <2>2. ~Died(c)
    BY <1>1, NullApart DEF NSInv, ClientInv, ClientGoesOn, Died, Outcomes
  <2>3. c = cur /\ spc \in {"exec", "send"} /\ server = "up"
    <3>1. \A r : \A d \in Clients : reply' = [reply EXCEPT ![cur] = r] /\ d # cur => reply'[d] = reply[d]
      BY DEF NSInv, NSTypes, ServerTypes
    <3> QED
      BY <1>1, <2>1, <3>1
         DEF Next, Server, Accept, ParseNothing, ParseRequest, StartPut, ReadSize, ReadData, ExecPut,
             help_list, help_delete, help_get, SendBlock, ReportError, disconnect_server, Client,
             Crash, connect_to_server, write_all_to_socket, RequestSent, ReadResponse,
             Answer, Executing, vars
  <2> QED
    BY <1>1, <2>2, <2>3 DEF NSInv, ExecInv
<1>2. NSInv /\ [Next]_vars =>
        [\A c \in Clients : (Put(c) /\ cpc[c] = "reading" /\ reply[c].status = NULL
                               /\ reply'[c].status = "OK") =>
            dir[req[c].name] = [by |-> c, count |-> req[c].size]]_vars
  BY <1>1
<1> QED
  BY <1>2, NSInvariance, PTL DEF Spec, UploadStored
=============================================================================
