------------------------------ MODULE Chatroom ------------------------------
(***************************************************************************)
(* charming_chatroom: the server (server.c) with its accepting thread and  *)
(* one thread per client, its clients (client.c) and the socket routines   *)
(* of utils.c.  A client's thread closes the descriptor before it takes    *)
(* the mutex and clears the slot, so a new connection may get the number   *)
(* of a descriptor that another slot still holds.                          *)
(***************************************************************************)
EXTENDS Integers, Sequences, FiniteSets, FiniteSetsExt

CONSTANTS Clients,
          MAX_CLIENTS,
          Fds,       \* descriptor numbers, given out from the lowest
          Senders,   \* bound: the clients that write, each one message
          Leavers,   \* bound: the clients that may leave
          Capacity,  \* messages a socket holds before a write blocks
          NULL

ASSUME ChatroomAssumption ==
  /\ MAX_CLIENTS \in Nat /\ Capacity \in Nat /\ Fds \subseteq Nat
  /\ Senders \cup Leavers \subseteq Clients
  /\ NULL \notin Clients \cup Fds \cup 1..MAX_CLIENTS

Slots == 1..MAX_CLIENTS

VARIABLES clients, clientsCount, endSession,
          lock,      \* owner of the mutex, or NULL
          fdtab,     \* the server's open descriptors: the client connected
          server,    \* "up" or "down"
          mpc, cd,   \* accepting thread: position, descriptor accepted
          slot,      \* and slot found
          pc, i, buffer,  \* client threads: position, loop index, message
          cst,       \* client: "start", "open", "left", "refused"
          backlog,   \* connections not accepted yet
          writ, used, \* items the client wrote, the server has read
          unread,    \* messages the client has not read yet
          got,       \* history: the broadcasts written to a client
          log,       \* history: the broadcasts, in the order of the mutex
          owner      \* history: the client a slot was given to

net_vars == <<backlog, cst, writ, used, unread, got>>
main_vars == <<mpc, cd, slot>>
thread_vars == <<pc, i, buffer>>
slot_vars == <<clients, clientsCount, owner>>
vars == <<net_vars, main_vars, thread_vars, slot_vars, endSession, lock, fdtab, server, log>>

Init ==
  /\ clients = [s \in Slots |-> -1] /\ clientsCount = 0 /\ endSession = 0
  /\ lock = NULL /\ fdtab = [f \in Fds |-> NULL] /\ server = "up"
  /\ mpc = "accept" /\ cd = NULL /\ slot = NULL
  /\ pc = [s \in Slots |-> "idle"] /\ i = [s \in Slots |-> 1]
  /\ buffer = [s \in Slots |-> NULL]
  /\ cst = [c \in Clients |-> "start"] /\ backlog = {} /\ writ = [c \in Clients |-> 0]
  /\ used = [c \in Clients |-> 0] /\ unread = [c \in Clients |-> 0]
  /\ got = [c \in Clients |-> <<>>] /\ log = <<>> /\ owner = [s \in Slots |-> NULL]

-----------------------------------------------------------------------------
(* client.c *)

connect_to_server(c) ==
  /\ cst[c] = "start" /\ server = "up" /\ mpc # "gone"
  /\ cst' = [cst EXCEPT ![c] = "open"] /\ backlog' = backlog \cup {c}
  /\ UNCHANGED <<writ, used, unread, got, main_vars, thread_vars, slot_vars,
                 endSession, lock, fdtab, server, log>>

\* A message is three writes: its size, and its text in two parts.
write_to_server(c) ==
  /\ c \in Senders /\ cst[c] = "open" /\ server = "up" /\ writ[c] < 3
  /\ writ' = [writ EXCEPT ![c] = @ + 1]
  /\ UNCHANGED <<backlog, cst, used, unread, got, main_vars, thread_vars, slot_vars,
                 endSession, lock, fdtab, server, log>>

read_from_server(c) ==
  /\ server = "up" /\ cst[c] = "open" /\ unread[c] > 0
  /\ unread' = [unread EXCEPT ![c] = @ - 1]
  /\ UNCHANGED <<backlog, cst, writ, used, got, main_vars, thread_vars, slot_vars,
                 endSession, lock, fdtab, server, log>>

\* SIGINT, or the client dies.
close_program(c) ==
  /\ c \in Leavers /\ server = "up" /\ cst[c] = "open"
  /\ cst' = [cst EXCEPT ![c] = "left"]
  /\ UNCHANGED <<backlog, writ, used, unread, got, main_vars, thread_vars, slot_vars,
                 endSession, lock, fdtab, server, log>>

-----------------------------------------------------------------------------
(* server.c: the accepting thread *)

FreeFds == {f \in Fds : fdtab[f] = NULL}

Accept(c) ==
  /\ server = "up" /\ mpc = "accept" /\ c \in backlog /\ FreeFds # {}
  /\ backlog' = backlog \ {c}
  /\ cd' = Min(FreeFds) /\ fdtab' = [fdtab EXCEPT ![cd'] = c]
  /\ mpc' = "register"
  /\ UNCHANGED <<cst, writ, used, unread, got, slot, thread_vars, slot_vars,
                 endSession, lock, server, log>>

LoopOrEnd == IF endSession = 1 THEN "cleanup" ELSE "accept"

RefusedFd == cd

\* The room is full: the new client is shut out.
Refuse ==
  /\ server = "up" /\ mpc = "register" /\ lock = NULL /\ clientsCount >= MAX_CLIENTS
  /\ fdtab' = [fdtab EXCEPT ![RefusedFd] = NULL] /\ cd' = NULL
  /\ cst' = [cst EXCEPT ![fdtab[cd]] = "refused"] /\ mpc' = LoopOrEnd
  /\ UNCHANGED <<backlog, writ, used, unread, got, slot, thread_vars, slot_vars,
                 endSession, lock, server, log>>

FreeSlots == {s \in Slots : clients[s] = -1}

Register ==
  /\ server = "up" /\ mpc = "register" /\ lock = NULL /\ clientsCount < MAX_CLIENTS
  /\ slot' = Min(FreeSlots)
  /\ clients' = [clients EXCEPT ![slot'] = cd] /\ clientsCount' = clientsCount + 1
  /\ owner' = [owner EXCEPT ![slot'] = fdtab[cd]]
  /\ mpc' = "create" /\ cd' = NULL
  /\ UNCHANGED <<net_vars, thread_vars, endSession, lock, fdtab, server, log>>

CreateThread ==
  /\ server = "up" /\ mpc = "create"
  /\ pc' = [pc EXCEPT ![slot] = "size"] /\ slot' = NULL /\ mpc' = LoopOrEnd
  /\ UNCHANGED <<net_vars, cd, i, buffer, slot_vars, endSession, lock, fdtab, server, log>>

\* close_server.  In accept the signal ends the server: accept returns -1 and
\* run_server calls exit(1); delivered to another thread it only sets the flag.
Sigint ==
  /\ server = "up" /\ endSession = 0 /\ endSession' = 1
  /\ server' \in IF mpc = "accept" THEN {"up", "down"} ELSE {"up"}
  /\ UNCHANGED <<net_vars, main_vars, thread_vars, slot_vars, lock, fdtab, log>>

\* cleanup: without the mutex.
cleanup ==
  /\ server = "up" /\ mpc = "cleanup" /\ mpc' = "gone"
  /\ fdtab' = [f \in Fds |-> IF f \in {clients[s] : s \in Slots} THEN NULL ELSE fdtab[f]]
  /\ UNCHANGED <<net_vars, cd, slot, thread_vars, slot_vars, endSession, lock, server, log>>

-----------------------------------------------------------------------------
(* server.c: process_client and write_to_clients, the thread of slot s *)

Goto(s, label) == pc' = [pc EXCEPT ![s] = label]
Peer(s) == IF clients[s] = -1 THEN NULL ELSE fdtab[clients[s]]
Waiting(s) == IF Peer(s) = NULL THEN 0 ELSE writ[Peer(s)] - used[Peer(s)]

\* Slip: a read that returns 0 is repeated.
Slip_EofIgnored(s, n) == FALSE

\* No n more items: the client has left, or the descriptor is closed.
AtEof(s, n) ==
  \/ Peer(s) = NULL
  \/ Peer(s) # NULL /\ cst[Peer(s)] = "left" /\ Waiting(s) < n

\* get_message_size, at the head of the loop.
ReadSize(s) ==
  /\ server = "up" /\ pc[s] = "size"
  /\ \/ (endSession = 1 \/ AtEof(s, 1)) /\ Goto(s, "close") /\ UNCHANGED used
     \/ /\ endSession = 0 /\ Waiting(s) >= 1
        /\ used' = [used EXCEPT ![Peer(s)] = @ + 1] /\ Goto(s, "body")
  /\ UNCHANGED <<backlog, cst, writ, unread, got, main_vars, i, buffer, slot_vars,
                 endSession, lock, fdtab, server, log>>

\* Slip: one read for the whole text.
Slip_OneRead == 1

TextParts == 2

\* read_all_from_socket: the whole text, or what there is when the client has
\* left in the middle.
ReadBody(s) ==
  /\ server = "up" /\ pc[s] = "body"
  /\ \/ AtEof(s, 1) /\ Goto(s, "close") /\ UNCHANGED <<used, buffer>>
     \/ /\ (Waiting(s) >= TextParts \/ (AtEof(s, 2) /\ Waiting(s) = 1))
        /\ LET n == IF Waiting(s) >= TextParts THEN TextParts ELSE 1 IN
           /\ used' = [used EXCEPT ![Peer(s)] = @ + n]
           /\ buffer' = [buffer EXCEPT ![s] = [from |-> Peer(s), parts |-> n, no |-> 0]]
        /\ Goto(s, "lock")
  /\ UNCHANGED <<backlog, cst, writ, unread, got, main_vars, i, slot_vars,
                 endSession, lock, fdtab, server, log>>

MutexFree(s) == lock = NULL

Lock(s) ==
  /\ server = "up" /\ pc[s] = "lock" /\ MutexFree(s) /\ lock' = s
  /\ log' = Append(log, buffer[s])
  /\ buffer' = [buffer EXCEPT ![s].no = Len(log')]
  /\ i' = [i EXCEPT ![s] = 1] /\ Goto(s, "send")
  /\ UNCHANGED <<net_vars, main_vars, slot_vars, endSession, fdtab, server>>

\* Slip: the last slot is left out.
Slip_OneLess == MAX_CLIENTS - 1

LastSlot == MAX_CLIENTS

\* write_all_to_socket returns when the socket has taken everything.
Writable(c) == cst[c] = "open" /\ unread[c] < Capacity

\* One round of the loop: write_message_size and write_all_to_socket.  A write
\* to a client that has left is lost, or ends the server with SIGPIPE.
Write(s) ==
  /\ server = "up" /\ pc[s] = "send" /\ i[s] <= LastSlot
  /\ i' = [i EXCEPT ![s] = @ + 1]
  /\ LET c == Peer(i[s]) IN
     \/ c = NULL /\ UNCHANGED <<unread, got, server>>
     \/ /\ c # NULL /\ cst[c] = "left" /\ server' \in {"up", "down"}
        /\ UNCHANGED <<unread, got>>
     \/ /\ c # NULL /\ Writable(c)
        /\ unread' = [unread EXCEPT ![c] = @ + 1]
        /\ got' = [got EXCEPT ![c] = Append(@, buffer[s].no)]
        /\ UNCHANGED server
  /\ UNCHANGED <<backlog, cst, writ, used, main_vars, pc, buffer, slot_vars,
                 endSession, lock, fdtab, log>>

Unlock(s) ==
  /\ server = "up" /\ pc[s] = "send" /\ i[s] > LastSlot
  /\ lock' = NULL /\ buffer' = [buffer EXCEPT ![s] = NULL] /\ Goto(s, "size")
  /\ UNCHANGED <<net_vars, main_vars, i, slot_vars, endSession, fdtab, server, log>>

\* The descriptor is closed before the slot is cleared.
Close(s) ==
  /\ server = "up" /\ pc[s] = "close" /\ Goto(s, "clear")
  /\ fdtab' = [fdtab EXCEPT ![clients[s]] = NULL]
  /\ UNCHANGED <<net_vars, main_vars, i, buffer, slot_vars, endSession, lock, server, log>>

\* Slip: the count is not lowered.
Slip_CountKept == clientsCount

CountAfterLeave == clientsCount - 1

Clear(s) ==
  /\ server = "up" /\ pc[s] = "clear" /\ lock = NULL /\ Goto(s, "idle")
  /\ clients' = [clients EXCEPT ![s] = -1] /\ clientsCount' = CountAfterLeave
  /\ UNCHANGED <<net_vars, main_vars, i, buffer, owner, endSession, lock, fdtab, server, log>>

Thread(s) ==
  ReadSize(s) \/ ReadBody(s) \/ Lock(s) \/ Write(s) \/ Unlock(s) \/ Close(s) \/ Clear(s)

Main == (\E c \in Clients : Accept(c)) \/ Refuse \/ Register \/ CreateThread \/ cleanup

Next ==
  \/ \E c \in Clients : connect_to_server(c) \/ write_to_server(c)
                          \/ read_from_server(c) \/ close_program(c)
  \/ Main \/ Sigint \/ \E s \in Slots : Thread(s)

\* The server's threads run, and clients read what they are sent (a thread of
\* theirs does nothing else).  Messages are finite in number, so the mutex is
\* free for good after a while and needs no stronger fairness.
Spec ==
  /\ Init /\ [][Next]_vars /\ WF_vars(Main)
  /\ \A s \in Slots : WF_vars(Thread(s))
  /\ \A c \in Clients : WF_vars(read_from_server(c))

-----------------------------------------------------------------------------
(* Properties *)

\* The values of the variables; who holds the mutex is writing.
TypeOK ==
  /\ clients \in [Slots -> Fds \cup {-1}] /\ clientsCount \in 0..MAX_CLIENTS
  /\ \A s \in Slots : lock = s <=> pc[s] = "send"
  /\ \A c \in Clients : used[c] <= writ[c] /\ unread[c] \in 0..Capacity

\* Whenever the mutex is free, clientsCount is the number of slots in use, so
\* that run_server finds a slot when it thinks there is one (server.c:148-162);
\* and until cleanup, a thread that reads reads from its own client, although
\* descriptor numbers come back while older slots still hold them.
SlotsTrue ==
  /\ TypeOK
  /\ lock = NULL => clientsCount = Cardinality({s \in Slots : clients[s] # -1})
  /\ \A s \in Slots : (pc[s] \in {"size", "body", "lock"} /\ mpc # "gone") => Peer(s) = owner[s]

\* Every client sees the broadcasts in one order, and a message is broadcast in
\* part only when its sender has left (server.c:176-188, 209).
MessagesTrue ==
  /\ \A c \in Clients : \A j, k \in DOMAIN got[c] : j < k => got[c][j] <= got[c][k]
  /\ \A k \in DOMAIN log : log[k].parts = 2 \/ cst[log[k].from] = "left"

\* "Broadcasts the message to all connected clients" (server.c:170): when a
\* broadcast is over, every client in a slot that has not left has got it.
ReachesAll ==
  [][\A s, t \in Slots :
       (pc[s] = "send" /\ pc'[s] = "size" /\ Peer(t) # NULL
          /\ Peer(t) = owner[t] /\ cst[owner[t]] = "open") =>
             \E k \in DOMAIN got[owner[t]] : got[owner[t]][k] = buffer[s].no]_vars

\* The slot of a client that has left becomes free again, whatever the other
\* clients do, as long as the server runs.
SlotReleased ==
  \A s \in Slots :
     (pc[s] = "size" /\ cst[owner[s]] = "left") ~> (pc[s] = "idle" \/ server = "down")
=============================================================================
