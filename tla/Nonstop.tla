------------------------------- MODULE Nonstop -------------------------------
(***************************************************************************)
(* nonstop_networking: the file server (server.c), its clients (client.c)  *)
(* and the transfer routines both use (common.c).  The server is one       *)
(* thread around epoll_wait; its sockets block, so it serves one request   *)
(* from the header to the close.  A client writes its request, shuts its   *)
(* write side down and reads the answer until the server closes.  Files    *)
(* are counted in blocks of BLK_SIZE.  client_info is malloc'ed and not    *)
(* cleared: it holds zeros, or what a freed client_info left behind.       *)
(***************************************************************************)
EXTENDS Integers, Sequences, SequencesExt, FiniteSetsExt

CONSTANTS Clients, Names,
          Scenarios,  \* what the clients ask for
          MaxCrashes, \* bound on the clients that die
          LongNames,  \* names so long that directory/name exceeds the limit
          NULL

\* verb: GET is the first constant of the enum, the value of zeroed memory.
GET == 0
PUT == 1
DELETE == 2
LIST == 3

Infos == [ready_exec : {0, 1}, error_type : 0..3, command : {GET, PUT, DELETE, LIST},
          file_name : Names \cup {NULL}]
Files == [by : Clients, count : Nat]
Outcomes == {"ok", "error", "closed", "too little", "too much", "refused", "crashed"}

\* A request has a verb, the name of a file and the size of the file to upload;
\* NULL is none of the values it stands in for.
ASSUME NonstopAssumption ==
  /\ LongNames \subseteq Names /\ MaxCrashes \in Nat
  /\ Scenarios \subseteq
       [Clients -> [verb : {GET, PUT, DELETE, LIST}, name : Names, size : Nat]]
  /\ NULL \notin Clients \cup Names \cup Infos \cup Files \cup Outcomes \cup {"OK", "ERROR"}

VARIABLES req,      \* per client: verb, name, and size in blocks (PUT)
          cpc,      \* client: "start", "writing", "reading", "done"
          up,       \* items the client has written: header, size, blocks
          eof,      \* the client's write side is shut
          conn,     \* "none", "pending", "open", "closed"
          reply,    \* what the server has written to the client
          outcome,  \* how the client ended, or NULL
          server,   \* "up" or "down"
          spc, cur, \* server: position in the handler, the client served
          info,     \* connect_status_dict
          freed,    \* contents of freed client_infos
          dir,      \* the directory: who uploaded a file, blocks written
          file_size_dict, file_name_vec

client_vars == <<req, cpc, up, eof, outcome>>
store_vars  == <<dir, file_size_dict, file_name_vec>>
server_vars == <<server, spc, cur, info, freed>>
vars == <<client_vars, conn, reply, server_vars, store_vars>>

\* check_args fixes the verb of a client's request; only PUT uploads.
Put(c) == req[c].verb = PUT
Zeroed == [ready_exec |-> 0, error_type |-> 0, command |-> GET, file_name |-> NULL]
NoReply == [status |-> NULL, size |-> 0, count |-> 0, by |-> NULL]

Init ==
  /\ req \in Scenarios
  /\ cpc = [c \in Clients |-> "start"] /\ up = [c \in Clients |-> 0]
  /\ eof = [c \in Clients |-> FALSE] /\ conn = [c \in Clients |-> "none"]
  /\ reply = [c \in Clients |-> NoReply] /\ outcome = [c \in Clients |-> NULL]
  /\ server = "up" /\ spc = "wait" /\ cur = NULL
  /\ info = [c \in Clients |-> NULL] /\ freed = {}
  /\ dir = [f \in Names |-> NULL] /\ file_size_dict = [f \in Names |-> NULL]
  /\ file_name_vec = <<>>

-----------------------------------------------------------------------------
(* client.c *)

End(c, how) == cpc' = [cpc EXCEPT ![c] = "done"] /\ outcome' = [outcome EXCEPT ![c] = how]

connect_to_server(c) ==
  /\ cpc[c] = "start"
  /\ IF server = "up"
     THEN /\ cpc' = [cpc EXCEPT ![c] = "writing"]
          /\ conn' = [conn EXCEPT ![c] = "pending"] /\ UNCHANGED outcome
     ELSE End(c, "refused") /\ UNCHANGED conn
  /\ UNCHANGED <<req, up, eof, reply, server_vars, store_vars>>

\* What a client writes: the header and, for PUT, the size and the blocks.
Total(c) == IF Put(c) THEN 2 + req[c].size ELSE 1

write_all_to_socket(c) ==
  /\ cpc[c] = "writing" /\ up[c] < Total(c)
  /\ IF server = "up" /\ conn[c] # "closed"
     THEN up' = [up EXCEPT ![c] = @ + 1] /\ UNCHANGED <<cpc, outcome>>
     ELSE End(c, "closed") /\ UNCHANGED up
  /\ UNCHANGED <<req, eof, conn, reply, server_vars, store_vars>>

\* Slip: the write side is left open.
Slip_NoShutdown(c) == FALSE

ShutdownWr(c) == TRUE

RequestSent(c) ==
  /\ cpc[c] = "writing" /\ up[c] = Total(c)
  /\ eof' = [eof EXCEPT ![c] = ShutdownWr(c)]
  /\ cpc' = [cpc EXCEPT ![c] = "reading"]
  /\ UNCHANGED <<req, up, outcome, conn, reply, server_vars, store_vars>>

\* A client may die at any time; local errors (stat, fopen) end it as well.
Crash(c) ==
  /\ cpc[c] \in {"writing", "reading"}
  /\ Cardinality({d \in Clients : outcome[d] = "crashed"}) < MaxCrashes
  /\ eof' = [eof EXCEPT ![c] = TRUE]
  /\ End(c, "crashed")
  /\ UNCHANGED <<req, up, conn, reply, server_vars, store_vars>>

\* Slip: a short transfer is accepted.
Slip_AcceptShort(size, actual_size) == "ok"

check_size(size, actual_size) ==
  CASE actual_size = 0 /\ size # 0 -> "closed"
    [] actual_size < size /\ actual_size # 0 -> "too little"
    [] actual_size > size -> "too much"
    [] OTHER -> "ok"

Verdict(c) ==
  CASE reply[c].status = NULL -> "closed"
    [] reply[c].status = "ERROR" -> "error"
    [] reply[c].status = "OK" ->
         IF req[c].verb \in {GET, LIST}
         THEN check_size(reply[c].size, reply[c].count) ELSE "ok"

\* The answer is complete when the server has closed the connection.
ReadResponse(c) ==
  /\ cpc[c] = "reading" /\ (conn[c] = "closed" \/ server = "down")
  /\ End(c, Verdict(c))
  /\ UNCHANGED <<req, up, eof, conn, reply, server_vars, store_vars>>

-----------------------------------------------------------------------------
(* server.c *)

Die == server' = "down" /\ UNCHANGED <<spc, cur, info, freed>>

\* malloc hands out fresh memory or that of a client_info freed before.
Accept(c) ==
  /\ server = "up" /\ spc = "wait" /\ conn[c] = "pending"
  /\ conn' = [conn EXCEPT ![c] = "open"]
  /\ \E mem \in {Zeroed} \cup freed : info' = [info EXCEPT ![c] = mem]
  /\ UNCHANGED <<client_vars, reply, server, spc, cur, freed, store_vars>>

Readable(c) ==
  server = "up" /\ spc = "wait" /\ conn[c] = "open" /\ (up[c] > 0 \/ eof[c])

\* read_until_newline: the header line is there.
HeaderArrived(c) == up[c] > 0

\* read_all_from_socket: the size is there.
SizeArrived(c) == up[c] > 1

\* The handler goes on at `at` with client_info `i`.
Goto(c, at, i) ==
  /\ spc' = at /\ cur' = c /\ info' = [info EXCEPT ![c] = i]
  /\ UNCHANGED <<server, freed>>

Failed(i, type) == [i EXCEPT !.error_type = type]
Ready(i) == [i EXCEPT !.ready_exec = 1]

\* parse_header, the client closed before it wrote a header.
ParseNothing(c) ==
  /\ Readable(c) /\ ~HeaderArrived(c)
  /\ Goto(c, "exec", Failed(info[c], 1))
  /\ UNCHANGED <<client_vars, conn, reply, store_vars>>

Parsed(c) == [info[c] EXCEPT !.command = req[c].verb, !.file_name = req[c].name]

\* parse_header for GET, DELETE and LIST.  `!info->command` holds for GET.
ParseRequest(c) ==
  /\ Readable(c) /\ HeaderArrived(c) /\ ~Put(c)
  /\ LET i == IF req[c].verb = LIST THEN [info[c] EXCEPT !.command = LIST] ELSE Parsed(c)
     IN  Goto(c, "exec", IF i.command = GET THEN Failed(i, 1) ELSE Ready(i))
  /\ UNCHANGED <<client_vars, conn, reply, store_vars>>

\* Slip: the name of a new file is not recorded.
Slip_NotListed(f) == file_name_vec

Listed(f) == IF dir[f] = NULL THEN Append(file_name_vec, f) ELSE file_name_vec

\* Slip: a file that exists is not opened for writing.
Slip_NotReopened(f, c) ==
  IF dir[f] = NULL THEN [dir EXCEPT ![f] = [by |-> c, count |-> 0]] ELSE dir

\* fopen(path, "w") empties a file that exists.
Opened(f, c) == [dir EXCEPT ![f] = [by |-> c, count |-> 0]]

\* parse_header for PUT up to the first read of help_put: the file is opened
\* for writing.
StartPut(c) ==
  /\ Readable(c) /\ HeaderArrived(c) /\ Put(c)
  /\ IF req[c].name \in LongNames
     THEN Die /\ UNCHANGED store_vars
     ELSE /\ Goto(c, "size", Parsed(c))
          /\ file_name_vec' = Listed(req[c].name)
          /\ dir' = Opened(req[c].name, c)
          /\ UNCHANGED file_size_dict
  /\ UNCHANGED <<client_vars, conn, reply>>

Removed(f) == [dir EXCEPT ![f] = NULL]

\* help_put: the size is there, or the client has gone.
ReadSize ==
  /\ server = "up" /\ spc = "size"
  /\ \/ /\ SizeArrived(cur) /\ spc' = "data"
        /\ UNCHANGED <<server, cur, info, freed, store_vars>>
     \/ /\ ~SizeArrived(cur) /\ eof[cur]
        /\ Goto(cur, "exec", Failed(info[cur], 2))
        /\ dir' = Removed(req[cur].name)
        /\ UNCHANGED <<file_size_dict, file_name_vec>>
  /\ UNCHANGED <<client_vars, conn, reply>>

\* help_write_read_file reading: everything up to the end of the stream, and
\* at most one block more than announced.
Received == IF up[cur] - 2 > req[cur].size + 1 THEN req[cur].size + 1 ELSE up[cur] - 2

CountRight(count, size) == count - size = 0

\* help_put, after the size: store the file, or give the whole server up.
ReadData ==
  /\ server = "up" /\ spc = "data" /\ (eof[cur] \/ Received > req[cur].size)
  /\ LET f == req[cur].name IN
     IF CountRight(Received, req[cur].size)
     THEN /\ Goto(cur, "exec", Ready(info[cur]))
          /\ file_size_dict' = [file_size_dict EXCEPT ![f] = req[cur].size]
          /\ dir' = [dir EXCEPT ![f].count = Received]
     ELSE Die /\ dir' = Removed(f) /\ UNCHANGED file_size_dict
  /\ UNCHANGED <<client_vars, conn, reply, file_name_vec>>

Answer(c, r) == reply' = [reply EXCEPT ![c] = r]
OK == [NoReply EXCEPT !.status = "OK"]

Unregistered(c) == [info EXCEPT ![c] = NULL]

\* The end of process_client: close, free the client_info as it is.
Close(i) ==
  /\ conn' = [conn EXCEPT ![cur] = "closed"]
  /\ freed' = freed \cup {i} /\ info' = Unregistered(cur)
  /\ spc' = "wait" /\ cur' = NULL /\ UNCHANGED server

Executing(command) ==
  server = "up" /\ spc = "exec" /\ info[cur].ready_exec = 1 /\ info[cur].command = command

ExecPut ==
  /\ Executing(PUT) /\ Answer(cur, OK) /\ Close(info[cur])
  /\ UNCHANGED <<client_vars, store_vars>>

\* Every name has length 1; there is a newline between two names.
ListSize(names) == IF names = <<>> THEN 0 ELSE Len(names) - 1 + Len(names)

help_list ==
  /\ Executing(LIST)
  /\ Answer(cur, [OK EXCEPT !.size = ListSize(file_name_vec),
                            !.count = IF file_name_vec = <<>> THEN 0
                                      ELSE 2 * Len(file_name_vec) - 1])
  /\ Close(info[cur]) /\ UNCHANGED <<client_vars, store_vars>>

\* A file that is not there, or not listed, gets no answer at all: the error
\* type is set after process_client has looked at it.
help_delete ==
  /\ Executing(DELETE)
  /\ LET f == info[cur].file_name
         found == Contains(file_name_vec, f)
     IN \/ /\ dir[f] = NULL
           /\ Close(Failed(info[cur], 3)) /\ UNCHANGED <<reply, store_vars>>
        \/ /\ dir[f] # NULL
           /\ dir' = Removed(f) /\ file_size_dict' = [file_size_dict EXCEPT ![f] = NULL]
           /\ file_name_vec' = RemoveFirst(file_name_vec, f)
           /\ Answer(cur, IF found THEN OK ELSE reply[cur])
           /\ Close(IF found THEN info[cur] ELSE Failed(info[cur], 3))
  /\ UNCHANGED client_vars

help_get ==
  /\ Executing(GET)
  /\ LET f == info[cur].file_name IN
     \/ /\ f \in LongNames /\ Die /\ UNCHANGED <<conn, reply>>
     \/ /\ f \notin LongNames /\ dir[f] = NULL
        /\ Close(Failed(info[cur], 3)) /\ UNCHANGED reply
     \/ /\ f \notin LongNames /\ dir[f] # NULL
        /\ Answer(cur, [OK EXCEPT !.size = file_size_dict[f], !.by = dir[f].by])
        /\ spc' = "send" /\ UNCHANGED <<server, cur, info, freed, conn>>
  /\ UNCHANGED <<client_vars, store_vars>>

\* help_write_read_file writing.  A write to a client that has gone may fail,
\* and ends the server.
SendBlock ==
  /\ server = "up" /\ spc = "send"
  /\ \/ /\ reply[cur].count < reply[cur].size
        /\ Answer(cur, [reply[cur] EXCEPT !.count = @ + 1])
        /\ UNCHANGED <<server_vars, conn>>
     \/ /\ reply[cur].count < reply[cur].size /\ cpc[cur] = "done"
        /\ Die /\ UNCHANGED <<conn, reply>>
     \/ /\ reply[cur].count = reply[cur].size
        /\ Close(Failed(info[cur], 3)) /\ UNCHANGED reply
  /\ UNCHANGED <<client_vars, store_vars>>

\* process_client with an error that parse_header found.
ReportError ==
  /\ server = "up" /\ spc = "exec" /\ info[cur].ready_exec = 0
  /\ Answer(cur, [NoReply EXCEPT !.status = IF info[cur].error_type > 0 THEN "ERROR" ELSE NULL])
  /\ Close(info[cur])
  /\ UNCHANGED <<client_vars, store_vars>>

\* SIGINT: remove all files and the directory, exit.
disconnect_server ==
  /\ server = "up" /\ Die /\ dir' = [f \in Names |-> NULL]
  /\ UNCHANGED <<client_vars, conn, reply, file_size_dict, file_name_vec>>

Client(c) == connect_to_server(c) \/ write_all_to_socket(c) \/ RequestSent(c) \/ ReadResponse(c)

Server ==
  \/ \E c \in Clients : Accept(c) \/ ParseNothing(c) \/ ParseRequest(c) \/ StartPut(c)
  \/ ReadSize \/ ReadData \/ ExecPut \/ help_list \/ help_delete \/ help_get
  \/ SendBlock \/ ReportError

Next == Server \/ disconnect_server \/ \E c \in Clients : Client(c) \/ Crash(c)

\* The server and every client that is not dead keep running.
Spec == Init /\ [][Next]_vars /\ WF_vars(Server) /\ \A c \in Clients : WF_vars(Client(c))

-----------------------------------------------------------------------------
(* Properties *)

\* The values of the variables; the client served has a client_info, all
\* others that are connected too.
TypeOK ==
  /\ server \in {"up", "down"} /\ spc \in {"wait", "size", "data", "exec", "send"}
  /\ freed \subseteq Infos
  /\ \A c \in Clients : conn[c] = "open" <=> info[c] \in Infos
  /\ spc # "wait" => conn[cur] = "open"
  /\ \A c \in Clients : up[c] \in 0..Total(c)

\* While the server runs, every file in its directory is listed (server.c:70),
\* and between two requests every file is a complete upload whose size is in
\* file_size_dict (help_get dereferences the entry without looking,
\* server.c:108), although failed uploads, overwritten files and requests
\* executed from stale memory come in between.
StoreConsistent ==
  /\ TypeOK
  /\ server = "up" => \A f \in Names : dir[f] # NULL => Contains(file_name_vec, f)
  /\ (server = "up" /\ spc \in {"wait", "exec", "send"}) =>
       \A f \in Names : dir[f] # NULL =>
          dir[f].count = req[dir[f].by].size /\ file_size_dict[f] = dir[f].count

\* A download the client accepts is the whole of one upload, even when the
\* server dies in the middle (client.c:112-113, server.c:113), and a list that
\* was announced is not rejected by the client's size check (server.c:159-168,
\* client.c:139-140).
AnswersComplete ==
  \A c \in Clients :
     /\ (outcome[c] = "ok" /\ req[c].verb = GET) => reply[c].count = req[reply[c].by].size
     /\ (req[c].verb = LIST /\ reply[c].status = "OK") =>
          outcome[c] \notin {"too little", "too much"}

\* A client that was told its upload succeeded sent all of it, and the file
\* was stored: from the OK on it is there until a request removes or replaces
\* it (server.c:82-84 and 236).
UploadStored ==
  [][\A c \in Clients : (Put(c) /\ cpc[c] = "reading" /\ reply[c].status = NULL
                           /\ reply'[c].status = "OK") =>
       dir[req[c].name] = [by |-> c, count |-> req[c].size]]_vars

\* Every client comes to an end, with the answer or with an error, whatever
\* happens to the other clients and to the server.
EveryClientEnds == \A c \in Clients : <>(cpc[c] = "done")

\* "GET - Client downloads (GETs) a file from the server" (client.c:101): a
\* GET is not turned down while the file is there.
GetServed ==
  [][\A c \in Clients : (req[c].verb = GET /\ reply[c].status = NULL
                           /\ reply'[c].status = "ERROR") => dir[req[c].name] = NULL]_vars
=============================================================================
