---------------------------- MODULE ChatroomProofs ----------------------------
(***************************************************************************)
(* Proofs about charming_chatroom for any number of clients and slots.     *)
(*                                                                         *)
(* SlotsTrue, MessagesTrue and ReachesAll follow from one inductive        *)
(* invariant.  Its heart is PeerInv: until cleanup, the slots that are     *)
(* still served and the connection being registered hold descriptors that  *)
(* are open and different, although a slot waiting to be cleared keeps a   *)
(* number that may be in use again; and FreshInv: a client that has not    *)
(* been registered has nothing in the server yet, so a reused number never *)
(* leads back to the client a slot was given to.                           *)
(***************************************************************************)
EXTENDS Chatroom, FiniteSetTheorems, SequenceTheorems, TLAPS

Msg == [from : Clients, parts : {1, 2}, no : Nat]

ThreadPC == {"idle", "size", "body", "lock", "send", "close", "clear"}

Types ==
  /\ clients \in [Slots -> Fds \cup {-1}] /\ endSession \in {0, 1}
  /\ lock \in Slots \cup {NULL} /\ fdtab \in [Fds -> Clients \cup {NULL}]
  /\ server \in {"up", "down"}
  /\ mpc \in {"accept", "register", "create", "cleanup", "gone"}
  /\ cd \in Fds \cup {NULL} /\ slot \in Slots \cup {NULL}
  /\ pc \in [Slots -> ThreadPC] /\ i \in [Slots -> Nat]
  /\ buffer \in [Slots -> Msg \cup {NULL}]
  /\ cst \in [Clients -> {"start", "open", "left", "refused"}]
  /\ backlog \in SUBSET Clients
  /\ writ \in [Clients -> Nat] /\ used \in [Clients -> Nat]
  /\ \A c \in Clients : used[c] <= writ[c]
  /\ unread \in [Clients -> 0..Capacity]
  /\ got \in [Clients -> Seq(Nat)] /\ log \in Seq(Msg)
  /\ owner \in [Slots -> Clients \cup {NULL}]

\* What the positions of the threads say about the other variables.
ControlInv ==
  /\ \A s \in Slots : lock = s <=> pc[s] = "send"
  /\ \A s \in Slots : pc[s] \in {"lock", "send"} => buffer[s] \in Msg
  /\ \A s \in Slots : i[s] >= 1
  /\ mpc = "register" => cd \in Fds /\ fdtab[cd] \in Clients
  /\ mpc = "create" => slot \in Slots /\ pc[slot] = "idle"
  /\ \A s \in Slots : clients[s] # -1 <=> pc[s] # "idle" \/ (mpc = "create" /\ slot = s)

UsedSlots == {s \in Slots : clients[s] # -1}

CountInv == clientsCount = Cardinality(UsedSlots)

\* The slots that are served: from their registration until their descriptor
\* is closed.
Served(s) ==
  pc[s] \in {"size", "body", "lock", "send", "close"} \/ (mpc = "create" /\ slot = s)

PeerInv ==
  mpc # "gone" =>
    /\ \A s \in Slots : Served(s) => fdtab[clients[s]] = owner[s] /\ owner[s] \in Clients
    /\ \A s, t \in Slots : Served(s) /\ Served(t) /\ clients[s] = clients[t] => s = t
    /\ mpc = "register" => \A s \in Slots : Served(s) => clients[s] # cd

\* A client that is not connected, or not registered yet.
Fresh(c) == cst[c] = "start" \/ c \in backlog \/ (mpc = "register" /\ fdtab[cd] = c)

FreshInv ==
  /\ \A c \in Clients : cst[c] = "start" => c \notin backlog
  /\ \A f \in Fds : fdtab[f] # NULL => cst[fdtab[f]] # "start" /\ fdtab[f] \notin backlog
  /\ \A f, g \in Fds : fdtab[f] # NULL /\ fdtab[f] = fdtab[g] => f = g
  /\ \A s \in Slots : owner[s] # NULL => ~Fresh(owner[s])

\* A message in a thread's hands, or broadcast, is from a registered client, and
\* it is whole unless that client has left.
Good(msg) == ~Fresh(msg.from) /\ (msg.parts = 2 \/ cst[msg.from] = "left")

LogInv ==
  /\ \A k \in DOMAIN log : Good(log[k])
  /\ \A s \in Slots : pc[s] \in {"lock", "send"} => Good(buffer[s])

\* The thread that broadcasts has the newest number, so what it writes comes
\* after all that was written before.
OrderInv ==
  /\ \A c \in Clients : \A j \in DOMAIN got[c] : got[c][j] <= Len(log)
  /\ \A c \in Clients : \A j, k \in DOMAIN got[c] : j < k => got[c][j] <= got[c][k]
  /\ \A s \in Slots : pc[s] = "send" => buffer[s].no = Len(log)

\* The slots the loop has passed have been served, or hold no open connection
\* of the client they were given to.
SentInv ==
  \A s, t \in Slots :
    (/\ pc[s] = "send" /\ t < i[s]
     /\ Peer(t) # NULL /\ Peer(t) = owner[t] /\ cst[owner[t]] = "open") =>
       \E k \in DOMAIN got[owner[t]] : got[owner[t]][k] = buffer[s].no

IInv ==
  /\ Types /\ ControlInv /\ CountInv /\ PeerInv /\ FreshInv
  /\ LogInv /\ OrderInv /\ SentInv

USE ChatroomAssumption

\* Every non-empty set of naturals has a least element.
LEMMA Least ==
  ASSUME NEW T, T \subseteq Nat, T # {}
  PROVE  \E x \in T : \A y \in T : x <= y
<1>1. \E R : IsWellFoundedOn(R, Nat) /\ \A a, b \in Nat : a < b => <<a, b>> \in R
  <2>1. \A a, b \in Nat : a < b => <<a, b>> \in OpToRel(<, Nat)
    BY DEF OpToRel
  <2> QED
    BY <2>1, NatLessThanWellFounded, Zenon
<1>2. PICK R : IsWellFoundedOn(R, Nat) /\ \A a, b \in Nat : a < b => <<a, b>> \in R
  BY <1>1
<1>3. \E x \in T : \A y \in T : ~(<<y, x>> \in R)
  <2>1. IsWellFoundedOn(R, Nat)
   BY <1>2
  <2> QED
   BY <2>1, WFMin, Zenon
<1>4. PICK x \in T : \A y \in T : ~(<<y, x>> \in R)
  BY <1>3
<1>5. \A y \in T : ~(y < x)
  BY <1>2, <1>4
<1>6. \A y \in T : x <= y
  BY <1>5
<1> QED
  BY <1>6

LEMMA MinIn == ASSUME NEW S, S \subseteq Nat, S # {} PROVE Min(S) \in S
BY Least DEF Min

LEMMA SlotsFinite ==
  IsFiniteSet(Slots) /\ Cardinality(Slots) = MAX_CLIENTS /\ NULL \notin Slots
BY FS_Interval DEF Slots

LEMMA UsedFinite ==
  ASSUME NEW cl
  PROVE  LET U == {s \in Slots : cl[s] # -1}
         IN  IsFiniteSet(U) /\ Cardinality(U) \in Nat /\ Cardinality(U) <= MAX_CLIENTS
BY SlotsFinite, FS_Subset, FS_CardinalityType

\* run_server finds a free slot when the count says there is one.
LEMMA SlotFound ==
  ASSUME IInv, clientsCount < MAX_CLIENTS
  PROVE  Min(FreeSlots) \in Slots /\ clients[Min(FreeSlots)] = -1
<1>1. UsedSlots # Slots
  BY SlotsFinite DEF IInv, CountInv
<1>2. FreeSlots # {} /\ FreeSlots \subseteq Nat /\ FreeSlots \subseteq Slots
  BY <1>1 DEF UsedSlots, FreeSlots, Slots
<1>3. Min(FreeSlots) \in FreeSlots
  BY <1>2, MinIn
<1> QED
  BY <1>3 DEF FreeSlots

LEMMA FdFound ==
  ASSUME FreeFds # {}
  PROVE  Min(FreeFds) \in Fds /\ fdtab[Min(FreeFds)] = NULL
<1>1. FreeFds \subseteq Nat
  BY DEF FreeFds
<1>2. Min(FreeFds) \in FreeFds
  BY <1>1, MinIn
<1> QED
  BY <1>2 DEF FreeFds

LEMMA InitIInv == Init => IInv
<1> SUFFICES ASSUME Init PROVE IInv
  OBVIOUS
<1> USE SlotsFinite DEF Init
<1>1. Types
  BY DEF Types, ThreadPC
<1>2. ControlInv
  BY DEF ControlInv
<1>3. CountInv
  <2>1. UsedSlots = {}
    BY DEF UsedSlots
  <2> QED
    BY <2>1, FS_EmptySet DEF CountInv
<1>4. PeerInv
  BY DEF PeerInv, Served
<1>5. FreshInv
  BY DEF FreshInv
<1>6. LogInv /\ OrderInv /\ SentInv
  BY DEF LogInv, OrderInv, SentInv
<1> QED
  BY <1>1, <1>2, <1>3, <1>4, <1>5, <1>6 DEF IInv

LEMMA PeerType ==
  ASSUME Types, NEW s \in Slots PROVE Peer(s) \in Clients \cup {NULL}
BY DEF Types, Peer

LEMMA WaitingType ==
  ASSUME Types, NEW s \in Slots
  PROVE  Waiting(s) \in Nat /\ (Waiting(s) > 0 => Peer(s) \in Clients)
BY PeerType DEF Types, Waiting

\* A thread that has read a text has it from a client, in part only when that
\* client has left.
LEMMA BodyRead ==
  ASSUME Types, NEW s \in Slots, ReadBody(s)
  PROVE  \/ UNCHANGED <<used, buffer>> /\ Goto(s, "close")
         \/ \E n \in {1, 2} :
              /\ Peer(s) \in Clients /\ Waiting(s) >= n
              /\ n = 2 \/ cst[Peer(s)] = "left"
              /\ used' = [used EXCEPT ![Peer(s)] = @ + n]
              /\ buffer' = [buffer EXCEPT ![s] = [from |-> Peer(s), parts |-> n, no |-> 0]]
              /\ Goto(s, "lock")
<1>1. CASE UNCHANGED <<used, buffer>> /\ Goto(s, "close")
  BY <1>1
<1>2. CASE /\ Waiting(s) >= TextParts
           /\ used' = [used EXCEPT ![Peer(s)] = @ + TextParts]
           /\ buffer' = [buffer EXCEPT ![s] = [from |-> Peer(s), parts |-> TextParts, no |-> 0]]
           /\ Goto(s, "lock")
  BY <1>2, WaitingType DEF TextParts
<1>3. CASE /\ AtEof(s, 2) /\ Waiting(s) = 1
           /\ used' = [used EXCEPT ![Peer(s)] = @ + 1]
           /\ buffer' = [buffer EXCEPT ![s] = [from |-> Peer(s), parts |-> 1, no |-> 0]]
           /\ Goto(s, "lock")
  BY <1>3, WaitingType DEF AtEof
<1> QED
  BY <1>1, <1>2, <1>3, WaitingType DEF ReadBody, TextParts

\* Types are kept.
LEMMA TypesStep == IInv /\ [Next]_vars => Types'
<1> SUFFICES ASSUME IInv, [Next]_vars PROVE Types'
  OBVIOUS
<1> USE SlotsFinite DEF Types, net_vars, main_vars, thread_vars, slot_vars, ThreadPC
<1>0. Types /\ ControlInv
  BY DEF IInv
<1>1. ASSUME NEW c \in Clients, connect_to_server(c) PROVE Types'
  BY <1>0, <1>1 DEF connect_to_server
<1>2. ASSUME NEW c \in Clients, write_to_server(c) PROVE Types'
  <2>1. writ' \in [Clients -> Nat] /\ \A d \in Clients : used[d] <= writ'[d]
    BY <1>0, <1>2 DEF write_to_server
  <2> QED
    BY <1>0, <1>2, <2>1 DEF write_to_server
<1>3. ASSUME NEW c \in Clients, read_from_server(c) PROVE Types'
  BY <1>0, <1>3, SMTT(15) DEF read_from_server
<1>4. ASSUME NEW c \in Clients, close_program(c) PROVE Types'
  BY <1>0, <1>4 DEF close_program
<1>5. ASSUME NEW c \in Clients, Accept(c) PROVE Types'
  BY <1>0, <1>5, FdFound DEF Accept
<1>6. CASE Refuse
  BY <1>0, <1>6 DEF Refuse, RefusedFd, LoopOrEnd, ControlInv
<1>7. CASE Register
  BY <1>0, <1>7, SlotFound DEF Register, ControlInv
<1>8. CASE CreateThread
  BY <1>0, <1>8 DEF CreateThread, LoopOrEnd, ControlInv
<1>9. CASE Sigint
  BY <1>0, <1>9 DEF Sigint
<1>10. CASE cleanup
  BY <1>0, <1>10 DEF cleanup
<1>11. ASSUME NEW s \in Slots, ReadSize(s) PROVE Types'
  <2>1. pc' \in [Slots -> ThreadPC]
    BY <1>0, <1>11, ZenonT(30) DEF ReadSize, Goto
  <2>2. used' \in [Clients -> Nat] /\ \A c \in Clients : used'[c] <= writ[c]
    <3>1. CASE UNCHANGED used
      BY <1>0, <3>1
    <3>2. CASE Waiting(s) >= 1 /\ used' = [used EXCEPT ![Peer(s)] = @ + 1]
      BY <1>0, <3>2, PeerType, SMTT(15) DEF Waiting
    <3> QED
      BY <1>11, <3>1, <3>2 DEF ReadSize
  <2> QED
    BY <1>0, <1>11, <2>1, <2>2 DEF ReadSize
<1>12. ASSUME NEW s \in Slots, ReadBody(s) PROVE Types'
  <2>1. pc' \in [Slots -> ThreadPC]
    BY <1>0, <1>12 DEF ReadBody, Goto
  <2>2. /\ used' \in [Clients -> Nat] /\ \A c \in Clients : used'[c] <= writ[c]
        /\ buffer' \in [Slots -> Msg \cup {NULL}]
    <3>1. CASE UNCHANGED <<used, buffer>>
      BY <1>0, <3>1
    <3>2. CASE ~UNCHANGED <<used, buffer>>
      <4>1. PICK n \in {1, 2} :
              /\ Peer(s) \in Clients /\ Waiting(s) >= n
              /\ used' = [used EXCEPT ![Peer(s)] = @ + n]
              /\ buffer' = [buffer EXCEPT ![s] = [from |-> Peer(s), parts |-> n, no |-> 0]]
        BY <1>0, <1>12, <3>2, BodyRead, SMTT(15)
      <4>2. [from |-> Peer(s), parts |-> n, no |-> 0] \in Msg
        BY <4>1 DEF Msg
      <4>3. used' \in [Clients -> Nat] /\ \A c \in Clients : used'[c] <= writ[c]
        BY <1>0, <4>1 DEF Waiting
      <4> QED
        BY <1>0, <4>1, <4>2, <4>3
    <3> QED
      BY <3>1, <3>2
  <2> QED
    BY <1>0, <1>12, <2>1, <2>2 DEF ReadBody
<1>13. ASSUME NEW s \in Slots, Lock(s) PROVE Types'
  <2>1. buffer[s] \in Msg
    BY <1>0, <1>13 DEF Lock, ControlInv
  <2>2. log' \in Seq(Msg) /\ Len(log') \in Nat
    BY <1>0, <1>13, <2>1, AppendProperties, LenProperties DEF Lock
  <2>3. buffer' \in [Slots -> Msg \cup {NULL}]
    BY <1>0, <1>13, <2>1, <2>2 DEF Lock, Msg
  <2>4. pc' \in [Slots -> ThreadPC] /\ i' \in [Slots -> Nat] /\ lock' \in Slots
    BY <1>0, <1>13 DEF Lock, Goto
  <2> QED
    BY <1>0, <1>13, <2>2, <2>3, <2>4 DEF Lock
<1>14. ASSUME NEW s \in Slots, Write(s) PROVE Types'
  <2>1. buffer[s].no \in Nat
    BY <1>0, <1>14 DEF Write, ControlInv, Msg
  <2>2. i[s] \in Slots
    BY <1>0, <1>14 DEF Write, LastSlot, Slots, ControlInv
  <2>3. unread' \in [Clients -> 0..Capacity] /\ got' \in [Clients -> Seq(Nat)]
    <3>1. CASE UNCHANGED <<unread, got>>
      BY <1>0, <3>1
    <3>2. CASE \E c \in Clients :
                 /\ Writable(c)
                 /\ unread' = [unread EXCEPT ![c] = @ + 1]
                 /\ got' = [got EXCEPT ![c] = Append(@, buffer[s].no)]
      BY <1>0, <2>1, <3>2, SMTT(15) DEF Writable
    <3> QED
      BY <1>0, <1>14, <2>2, <3>1, <3>2, PeerType DEF Write
  <2>4. i' \in [Slots -> Nat] /\ server' \in {"up", "down"}
    BY <1>0, <1>14, SMTT(15) DEF Write
  <2> QED
    BY <1>0, <1>14, <2>3, <2>4 DEF Write
<1>15. ASSUME NEW s \in Slots, Unlock(s) PROVE Types'
  BY <1>0, <1>15 DEF Unlock, Goto
<1>16. ASSUME NEW s \in Slots, Close(s) PROVE Types'
  BY <1>0, <1>16 DEF Close, Goto
<1>17. ASSUME NEW s \in Slots, Clear(s) PROVE Types'
  BY <1>0, <1>17 DEF Clear, Goto
<1>18. CASE UNCHANGED vars
  BY <1>0, <1>18 DEF vars
<1> QED
  BY <1>1, <1>2, <1>3, <1>4, <1>5, <1>6, <1>7, <1>8, <1>9, <1>10, <1>11, <1>12,
     <1>13, <1>14, <1>15, <1>16, <1>17, <1>18 DEF Next, Main, Thread

\* Positions and what they imply are kept; a thread closes a descriptor that
\* is not the one being registered.
LEMMA ControlStep == IInv /\ [Next]_vars => ControlInv'
<1> SUFFICES ASSUME IInv, [Next]_vars PROVE ControlInv'
  OBVIOUS
<1> USE SlotsFinite DEF Types, ControlInv, net_vars, main_vars, thread_vars, slot_vars, ThreadPC
<1>0. Types /\ ControlInv /\ PeerInv
  BY DEF IInv
<1>1. ASSUME NEW c \in Clients, connect_to_server(c) PROVE ControlInv'
  BY <1>0, <1>1 DEF connect_to_server
<1>2. ASSUME NEW c \in Clients, write_to_server(c) PROVE ControlInv'
  BY <1>0, <1>2 DEF write_to_server
<1>3. ASSUME NEW c \in Clients, read_from_server(c) PROVE ControlInv'
  BY <1>0, <1>3 DEF read_from_server
<1>4. ASSUME NEW c \in Clients, close_program(c) PROVE ControlInv'
  BY <1>0, <1>4 DEF close_program
<1>5. ASSUME NEW c \in Clients, Accept(c) PROVE ControlInv'
  BY <1>0, <1>5, FdFound DEF Accept
<1>6. CASE Refuse
  BY <1>0, <1>6 DEF Refuse, LoopOrEnd
<1>7. CASE Register
  BY <1>0, <1>7, SlotFound DEF Register
<1>8. CASE CreateThread
  BY <1>0, <1>8 DEF CreateThread, LoopOrEnd
<1>9. CASE Sigint
  BY <1>0, <1>9 DEF Sigint
<1>10. CASE cleanup
  BY <1>0, <1>10 DEF cleanup
<1>11. ASSUME NEW s \in Slots, ReadSize(s) PROVE ControlInv'
  BY <1>0, <1>11 DEF ReadSize, Goto
<1>12. ASSUME NEW s \in Slots, ReadBody(s) PROVE ControlInv'
  <2>1. pc[s] = "body" /\ UNCHANGED <<lock, i, mpc, cd, fdtab, slot, clients>>
    BY <1>12 DEF ReadBody
  <2>2. CASE UNCHANGED buffer /\ Goto(s, "close")
    BY <1>0, <2>1, <2>2 DEF Goto
  <2>3. CASE ~(UNCHANGED buffer /\ Goto(s, "close"))
    <3>1. PICK n \in {1, 2} :
            /\ Peer(s) \in Clients /\ Goto(s, "lock")
            /\ buffer' = [buffer EXCEPT ![s] = [from |-> Peer(s), parts |-> n, no |-> 0]]
      BY <1>0, <1>12, <2>3, BodyRead
    <3>2. [from |-> Peer(s), parts |-> n, no |-> 0] \in Msg
      BY <3>1 DEF Msg
    <3> QED
      BY <1>0, <2>1, <3>1, <3>2 DEF Goto
  <2> QED
    BY <2>2, <2>3
<1>13. ASSUME NEW s \in Slots, Lock(s) PROVE ControlInv'
  <2>1. buffer[s] \in Msg
    BY <1>0, <1>13 DEF Lock
  <2>2. Len(log') \in Nat
    BY <1>0, <1>13, <2>1, AppendProperties, LenProperties DEF Lock
  <2>3. buffer'[s] \in Msg /\ \A t \in Slots : t # s => buffer'[t] = buffer[t]
    BY <1>0, <1>13, <2>1, <2>2 DEF Lock, Msg
  <2> QED
    BY <1>0, <1>13, <2>3 DEF Lock, Goto, MutexFree
<1>14. ASSUME NEW s \in Slots, Write(s) PROVE ControlInv'
  BY <1>0, <1>14 DEF Write
<1>15. ASSUME NEW s \in Slots, Unlock(s) PROVE ControlInv'
  BY <1>0, <1>15 DEF Unlock, Goto
<1>16. ASSUME NEW s \in Slots, Close(s) PROVE ControlInv'
  BY <1>0, <1>16 DEF Close, Goto, PeerInv, Served
<1>17. ASSUME NEW s \in Slots, Clear(s) PROVE ControlInv'
  BY <1>0, <1>17 DEF Clear, Goto
<1>18. CASE UNCHANGED vars
  BY <1>0, <1>18 DEF vars
<1> QED
  BY <1>1, <1>2, <1>3, <1>4, <1>5, <1>6, <1>7, <1>8, <1>9, <1>10, <1>11, <1>12,
     <1>13, <1>14, <1>15, <1>16, <1>17, <1>18 DEF Next, Main, Thread

\* The count follows the slots.
LEMMA CountStep == IInv /\ [Next]_vars => CountInv'
<1> SUFFICES ASSUME IInv, [Next]_vars PROVE CountInv'
  OBVIOUS
<1> USE DEF CountInv, UsedSlots, net_vars, main_vars, thread_vars, slot_vars
<1>0. IInv /\ Types /\ ControlInv /\ CountInv
  BY DEF IInv
<1>1. ASSUME NEW c \in Clients, connect_to_server(c) PROVE CountInv'
  BY <1>0, <1>1 DEF connect_to_server
<1>2. ASSUME NEW c \in Clients, write_to_server(c) PROVE CountInv'
  BY <1>0, <1>2 DEF write_to_server
<1>3. ASSUME NEW c \in Clients, read_from_server(c) PROVE CountInv'
  BY <1>0, <1>3 DEF read_from_server
<1>4. ASSUME NEW c \in Clients, close_program(c) PROVE CountInv'
  BY <1>0, <1>4 DEF close_program
<1>5. ASSUME NEW c \in Clients, Accept(c) PROVE CountInv'
  BY <1>0, <1>5 DEF Accept
<1>6. CASE Refuse
  BY <1>0, <1>6 DEF Refuse
<1>7. CASE Register
  <2>1. /\ slot' \in Slots /\ clients[slot'] = -1 /\ clientsCount' = clientsCount + 1
        /\ clients' = [clients EXCEPT ![slot'] = cd] /\ cd \in Fds
    BY <1>0, <1>7, SlotFound DEF Register, ControlInv
  <2>2. UsedSlots' = UsedSlots \cup {slot'} /\ slot' \notin UsedSlots
    BY <1>0, <2>1 DEF Types
  <2> QED
    BY <1>0, <2>1, <2>2, UsedFinite, FS_AddElement, SMTT(15)
<1>8. CASE CreateThread
  BY <1>0, <1>8 DEF CreateThread
<1>9. CASE Sigint
  BY <1>0, <1>9 DEF Sigint
<1>10. CASE cleanup
  BY <1>0, <1>10 DEF cleanup
<1>11. ASSUME NEW s \in Slots, ReadSize(s) PROVE CountInv'
  BY <1>0, <1>11 DEF ReadSize
<1>12. ASSUME NEW s \in Slots, ReadBody(s) PROVE CountInv'
  BY <1>0, <1>12 DEF ReadBody
<1>13. ASSUME NEW s \in Slots, Lock(s) PROVE CountInv'
  BY <1>0, <1>13 DEF Lock
<1>14. ASSUME NEW s \in Slots, Write(s) PROVE CountInv'
  BY <1>0, <1>14 DEF Write
<1>15. ASSUME NEW s \in Slots, Unlock(s) PROVE CountInv'
  BY <1>0, <1>15 DEF Unlock
<1>16. ASSUME NEW s \in Slots, Close(s) PROVE CountInv'
  BY <1>0, <1>16 DEF Close
<1>17. ASSUME NEW s \in Slots, Clear(s) PROVE CountInv'
  <2>1. clients[s] # -1 /\ clients' = [clients EXCEPT ![s] = -1]
    BY <1>0, <1>17 DEF Clear, ControlInv
  <2>2. UsedSlots' = UsedSlots \ {s} /\ s \in UsedSlots
    BY <1>0, <2>1 DEF Types
  <2>3. clientsCount' = clientsCount - 1
    BY <1>17 DEF Clear, CountAfterLeave
  <2> QED
    <3>1. IsFiniteSet(UsedSlots)
      BY UsedFinite
    <3>2. Cardinality(UsedSlots \ {s}) = Cardinality(UsedSlots) - 1
      BY <2>2, <3>1, FS_RemoveElement
    <3> HIDE DEF UsedSlots
    <3> QED
      BY <1>0, <2>2, <2>3, <3>2
<1>18. CASE UNCHANGED vars
  BY <1>0, <1>18 DEF vars
<1> QED
  BY <1>1, <1>2, <1>3, <1>4, <1>5, <1>6, <1>7, <1>8, <1>9, <1>10, <1>11, <1>12,
     <1>13, <1>14, <1>15, <1>16, <1>17, <1>18 DEF Next, Main, Thread

LEMMA PeerFrame ==
  ASSUME PeerInv, UNCHANGED <<clients, fdtab, owner, cd, mpc>>,
         \A t \in Slots : Served(t)' => Served(t)
  PROVE  PeerInv'
BY DEF PeerInv

\* No descriptor of a served slot is closed by another thread, refused, or
\* given out again.
LEMMA PeerStep == IInv /\ [Next]_vars => PeerInv'
<1> SUFFICES ASSUME IInv, [Next]_vars PROVE PeerInv'
  OBVIOUS
<1> USE SlotsFinite DEF Types, ControlInv, PeerInv, Served, net_vars, main_vars, thread_vars, slot_vars, ThreadPC
<1>0. IInv /\ Types /\ ControlInv /\ PeerInv
  BY DEF IInv
<1>1. ASSUME NEW c \in Clients, connect_to_server(c) PROVE PeerInv'
  BY <1>0, <1>1 DEF connect_to_server
<1>2. ASSUME NEW c \in Clients, write_to_server(c) PROVE PeerInv'
  BY <1>0, <1>2 DEF write_to_server
<1>3. ASSUME NEW c \in Clients, read_from_server(c) PROVE PeerInv'
  BY <1>0, <1>3 DEF read_from_server
<1>4. ASSUME NEW c \in Clients, close_program(c) PROVE PeerInv'
  BY <1>0, <1>4 DEF close_program
<1>5. ASSUME NEW c \in Clients, Accept(c) PROVE PeerInv'
  <2>1. /\ cd' \in Fds /\ fdtab[cd'] = NULL /\ fdtab' = [fdtab EXCEPT ![cd'] = c]
        /\ mpc = "accept" /\ mpc' = "register" /\ UNCHANGED <<clients, owner, pc, slot>>
    BY <1>5, FdFound DEF Accept
  <2>2. \A t \in Slots : Served(t)' <=> Served(t)
    BY <2>1
  <2>3. \A t \in Slots : Served(t) => clients[t] \in Fds /\ clients[t] # cd'
    BY <1>0, <2>1, SMTT(15)
  <2> HIDE DEF Served
  <2>4. \A t \in Slots : Served(t) => fdtab'[clients[t]] = fdtab[clients[t]]
    BY <1>0, <2>1, <2>3
  <2> QED
    BY <1>0, <2>1, <2>2, <2>3, <2>4
<1>6. CASE Refuse
  BY <1>0, <1>6 DEF Refuse, LoopOrEnd, RefusedFd
<1>7. CASE Register
  BY <1>0, <1>7, SlotFound, SMTT(15) DEF Register
<1>8. CASE CreateThread
  BY <1>0, <1>8, SMTT(15) DEF CreateThread, LoopOrEnd
<1>9. CASE Sigint
  BY <1>0, <1>9 DEF Sigint
<1>10. CASE cleanup
  BY <1>0, <1>10 DEF cleanup
<1>11. ASSUME NEW s \in Slots, ReadSize(s) PROVE PeerInv'
  <2>1. \A t \in Slots : Served(t)' => Served(t)
    BY <1>0, <1>11 DEF ReadSize, Goto
  <2> QED
    BY <1>0, <1>11, <2>1, PeerFrame DEF ReadSize
<1>12. ASSUME NEW s \in Slots, ReadBody(s) PROVE PeerInv'
  <2>1. \A t \in Slots : Served(t)' => Served(t)
    BY <1>0, <1>12 DEF ReadBody, Goto
  <2> QED
    BY <1>0, <1>12, <2>1, PeerFrame DEF ReadBody
<1>13. ASSUME NEW s \in Slots, Lock(s) PROVE PeerInv'
  <2>1. \A t \in Slots : Served(t)' => Served(t)
    BY <1>0, <1>13 DEF Lock, Goto
  <2> QED
    BY <1>0, <1>13, <2>1, PeerFrame DEF Lock
<1>14. ASSUME NEW s \in Slots, Write(s) PROVE PeerInv'
  BY <1>0, <1>14 DEF Write
<1>15. ASSUME NEW s \in Slots, Unlock(s) PROVE PeerInv'
  BY <1>0, <1>15, SMTT(15) DEF Unlock, Goto
<1>16. ASSUME NEW s \in Slots, Close(s) PROVE PeerInv'
  <2>1. /\ Served(s) /\ ~Served(s)' /\ \A t \in Slots \ {s} : Served(t)' <=> Served(t)
    BY <1>0, <1>16 DEF Close, Goto
  <2>3. \A t \in Slots : Served(t) => clients[t] \in Fds
    BY <1>0
  <2>2. fdtab' = [fdtab EXCEPT ![clients[s]] = NULL] /\ UNCHANGED <<clients, owner, mpc, cd>>
    BY <1>16 DEF Close
  <2> HIDE DEF Served
  <2>4. mpc # "gone" =>
          \A t \in Slots : Served(t)' => /\ Served(t) /\ clients[t] # clients[s]
                                        /\ fdtab'[clients[t]] = fdtab[clients[t]]
    BY <1>0, <2>1, <2>2, <2>3
  <2> QED
    BY <1>0, <2>2, <2>4
<1>17. ASSUME NEW s \in Slots, Clear(s) PROVE PeerInv'
  BY <1>0, <1>17 DEF Clear, Goto
<1>18. CASE UNCHANGED vars
  BY <1>0, <1>18 DEF vars
<1> QED
  BY <1>1, <1>2, <1>3, <1>4, <1>5, <1>6, <1>7, <1>8, <1>9, <1>10, <1>11, <1>12,
     <1>13, <1>14, <1>15, <1>16, <1>17, <1>18 DEF Next, Main, Thread

\* A client is registered at most once.
LEMMA FreshStep == IInv /\ [Next]_vars => FreshInv'
<1> SUFFICES ASSUME IInv, [Next]_vars PROVE FreshInv'
  OBVIOUS
<1> USE SlotsFinite DEF Types, ControlInv, FreshInv, Fresh, net_vars, main_vars, thread_vars, slot_vars
<1>0. IInv /\ Types /\ ControlInv /\ FreshInv
  BY DEF IInv
<1>1. ASSUME NEW c \in Clients, connect_to_server(c) PROVE FreshInv'
  BY <1>0, <1>1 DEF connect_to_server
<1>2. ASSUME NEW c \in Clients, write_to_server(c) PROVE FreshInv'
  BY <1>0, <1>2 DEF write_to_server
<1>3. ASSUME NEW c \in Clients, read_from_server(c) PROVE FreshInv'
  BY <1>0, <1>3 DEF read_from_server
<1>4. ASSUME NEW c \in Clients, close_program(c) PROVE FreshInv'
  BY <1>0, <1>4 DEF close_program
<1>5. ASSUME NEW c \in Clients, Accept(c) PROVE FreshInv'
  BY <1>0, <1>5, FdFound, SMTT(15) DEF Accept
<1>6. CASE Refuse
  BY <1>0, <1>6 DEF Refuse, LoopOrEnd, RefusedFd
<1>7. CASE Register
  BY <1>0, <1>7, SlotFound DEF Register
<1>8. CASE CreateThread
  BY <1>0, <1>8 DEF CreateThread, LoopOrEnd
<1>9. CASE Sigint
  BY <1>0, <1>9 DEF Sigint
<1>10. CASE cleanup
  BY <1>0, <1>10 DEF cleanup
<1>11. ASSUME NEW s \in Slots, ReadSize(s) PROVE FreshInv'
  BY <1>0, <1>11 DEF ReadSize
<1>12. ASSUME NEW s \in Slots, ReadBody(s) PROVE FreshInv'
  BY <1>0, <1>12 DEF ReadBody
<1>13. ASSUME NEW s \in Slots, Lock(s) PROVE FreshInv'
  BY <1>0, <1>13 DEF Lock
<1>14. ASSUME NEW s \in Slots, Write(s) PROVE FreshInv'
  BY <1>0, <1>14 DEF Write
<1>15. ASSUME NEW s \in Slots, Unlock(s) PROVE FreshInv'
  BY <1>0, <1>15 DEF Unlock
<1>16. ASSUME NEW s \in Slots, Close(s) PROVE FreshInv'
  BY <1>0, <1>16 DEF Close, Goto
<1>17. ASSUME NEW s \in Slots, Clear(s) PROVE FreshInv'
  BY <1>0, <1>17 DEF Clear
<1>18. CASE UNCHANGED vars
  BY <1>0, <1>18 DEF vars
<1> QED
  BY <1>1, <1>2, <1>3, <1>4, <1>5, <1>6, <1>7, <1>8, <1>9, <1>10, <1>11, <1>12,
     <1>13, <1>14, <1>15, <1>16, <1>17, <1>18 DEF Next, Main, Thread

\* A registered client stays registered, and one that has left stays away.
LEMMA KnownStays ==
  IInv /\ [Next]_vars =>
    \A d \in Clients : ~Fresh(d) => ~Fresh(d)' /\ (cst[d] = "left" => cst'[d] = "left")
<1> DEFINE Known == \A d \in Clients :
                      ~Fresh(d) => ~Fresh(d)' /\ (cst[d] = "left" => cst'[d] = "left")
<1> SUFFICES ASSUME IInv, [Next]_vars PROVE Known
  OBVIOUS
<1> USE SlotsFinite DEF Types, ControlInv, FreshInv, Fresh, net_vars, main_vars, thread_vars, slot_vars
<1>0. IInv /\ Types /\ ControlInv /\ FreshInv /\ PeerInv
  BY DEF IInv
<1>1. ASSUME NEW c \in Clients, connect_to_server(c) PROVE Known
  BY <1>0, <1>1 DEF connect_to_server
<1>2. ASSUME NEW c \in Clients, write_to_server(c) PROVE Known
  BY <1>0, <1>2 DEF write_to_server
<1>3. ASSUME NEW c \in Clients, read_from_server(c) PROVE Known
  BY <1>0, <1>3 DEF read_from_server
<1>4. ASSUME NEW c \in Clients, close_program(c) PROVE Known
  BY <1>0, <1>4 DEF close_program
<1>5. ASSUME NEW c \in Clients, Accept(c) PROVE Known
  BY <1>0, <1>5, FdFound DEF Accept
<1>6. CASE Refuse
  BY <1>0, <1>6 DEF Refuse, LoopOrEnd, RefusedFd
<1>7. CASE Register
  BY <1>0, <1>7, SlotFound DEF Register
<1>8. CASE CreateThread
  BY <1>0, <1>8 DEF CreateThread, LoopOrEnd
<1>9. CASE Sigint
  BY <1>0, <1>9 DEF Sigint
<1>10. CASE cleanup
  BY <1>0, <1>10 DEF cleanup
<1>11. ASSUME NEW s \in Slots, ReadSize(s) PROVE Known
  BY <1>0, <1>11 DEF ReadSize
<1>12. ASSUME NEW s \in Slots, ReadBody(s) PROVE Known
  BY <1>0, <1>12 DEF ReadBody
<1>13. ASSUME NEW s \in Slots, Lock(s) PROVE Known
  BY <1>0, <1>13 DEF Lock
<1>14. ASSUME NEW s \in Slots, Write(s) PROVE Known
  BY <1>0, <1>14 DEF Write
<1>15. ASSUME NEW s \in Slots, Unlock(s) PROVE Known
  BY <1>0, <1>15 DEF Unlock
<1>16. ASSUME NEW s \in Slots, Close(s) PROVE Known
  BY <1>0, <1>16 DEF Close, PeerInv, Served
<1>17. ASSUME NEW s \in Slots, Clear(s) PROVE Known
  BY <1>0, <1>17 DEF Clear
<1>18. CASE UNCHANGED vars
  BY <1>0, <1>18 DEF vars
<1> QED
  BY <1>1, <1>2, <1>3, <1>4, <1>5, <1>6, <1>7, <1>8, <1>9, <1>10, <1>11, <1>12,
     <1>13, <1>14, <1>15, <1>16, <1>17, <1>18 DEF Next, Main, Thread

\* What has been written to a client is not taken back, and a number is
\* written to one client at a time by the thread that broadcasts.
LEMMA Written ==
  ASSUME IInv, NEW s \in Slots, Write(s)
  PROVE  /\ i[s] \in Slots /\ i' = [i EXCEPT ![s] = @ + 1] /\ pc[s] = "send"
         /\ UNCHANGED <<pc, buffer, log, clients, fdtab, owner, cst>>
         /\ \/ /\ UNCHANGED got
               /\ Peer(i[s]) = NULL \/ cst[Peer(i[s])] = "left"
            \/ /\ Peer(i[s]) \in Clients
               /\ got' = [got EXCEPT ![Peer(i[s])] = Append(@, buffer[s].no)]
<1>0. Types /\ ControlInv
  BY DEF IInv
<1>1. i[s] \in Slots
  BY <1>0 DEF Write, LastSlot, Slots, ControlInv, Types
<1>2. Peer(i[s]) \in Clients \cup {NULL}
  BY <1>0, <1>1, PeerType
<1> QED
  BY <1>1, <1>2 DEF Write, slot_vars

\* What Append does to a sequence of numbers.
LEMMA AppendTo ==
  ASSUME NEW S, NEW e \in S, NEW seq \in Seq(S)
  PROVE  /\ DOMAIN seq = 1..Len(seq) /\ Len(seq) \in Nat
         /\ DOMAIN Append(seq, e) = 1..(Len(seq) + 1) /\ Len(Append(seq, e)) = Len(seq) + 1
         /\ \A k \in 1..Len(seq) : Append(seq, e)[k] = seq[k]
         /\ Append(seq, e)[Len(seq) + 1] = e
BY AppendProperties, LenProperties

LEMMA GoodStays ==
  ASSUME IInv, [Next]_vars, NEW msg \in Msg, Good(msg) PROVE Good(msg)'
BY KnownStays DEF Good, Msg

LEMMA LogFrame ==
  ASSUME IInv, [Next]_vars, UNCHANGED <<log, buffer>>,
         \A s \in Slots : pc'[s] \in {"lock", "send"} => pc[s] \in {"lock", "send"}
  PROVE  LogInv'
<1>0. Types /\ ControlInv /\ LogInv
  BY DEF IInv
<1>1. \A k \in DOMAIN log : log[k] \in Msg
  BY <1>0, LenProperties, ElementOfSeq DEF Types
<1>2. \A k \in DOMAIN log : Good(log[k])'
  BY <1>0, <1>1, GoodStays DEF LogInv
<1>3. \A s \in Slots : pc'[s] \in {"lock", "send"} => Good(buffer[s])'
  BY <1>0, GoodStays DEF LogInv, ControlInv
<1> QED
  BY <1>2, <1>3 DEF LogInv

\* Only whole messages are broadcast, unless their sender has left.
LEMMA LogStep == IInv /\ [Next]_vars => LogInv'
<1> SUFFICES ASSUME IInv, [Next]_vars PROVE LogInv'
  OBVIOUS
<1> USE DEF net_vars, main_vars, thread_vars, slot_vars
<1>0. IInv /\ Types /\ ControlInv /\ LogInv /\ PeerInv /\ FreshInv
  BY DEF IInv
<1>1. ASSUME NEW c \in Clients, connect_to_server(c) PROVE LogInv'
  BY <1>0, <1>1, LogFrame DEF connect_to_server
<1>2. ASSUME NEW c \in Clients, write_to_server(c) PROVE LogInv'
  BY <1>0, <1>2, LogFrame DEF write_to_server
<1>3. ASSUME NEW c \in Clients, read_from_server(c) PROVE LogInv'
  BY <1>0, <1>3, LogFrame DEF read_from_server
<1>4. ASSUME NEW c \in Clients, close_program(c) PROVE LogInv'
  BY <1>0, <1>4, LogFrame DEF close_program
<1>5. ASSUME NEW c \in Clients, Accept(c) PROVE LogInv'
  BY <1>0, <1>5, LogFrame DEF Accept
<1>6. CASE Refuse
  BY <1>0, <1>6, LogFrame DEF Refuse
<1>7. CASE Register
  BY <1>0, <1>7, LogFrame DEF Register
<1>8. CASE CreateThread
  BY <1>0, <1>8, LogFrame DEF CreateThread, Types, ControlInv
<1>9. CASE Sigint
  BY <1>0, <1>9, LogFrame DEF Sigint
<1>10. CASE cleanup
  BY <1>0, <1>10, LogFrame DEF cleanup
<1>11. ASSUME NEW s \in Slots, ReadSize(s) PROVE LogInv'
  BY <1>0, <1>11, LogFrame DEF ReadSize, Goto, Types
<1>12. ASSUME NEW s \in Slots, ReadBody(s) PROVE LogInv'
  <2>1. pc[s] = "body" /\ UNCHANGED <<log, cst, backlog, mpc, fdtab, cd>>
    BY <1>12 DEF ReadBody
  <2>2. CASE UNCHANGED buffer /\ Goto(s, "close")
    BY <1>0, <2>1, <2>2, LogFrame DEF Goto, Types
  <2>3. CASE ~(UNCHANGED buffer /\ Goto(s, "close"))
    <3> DEFINE msg(n) == [from |-> Peer(s), parts |-> n, no |-> 0]
    <3>1. PICK n \in {1, 2} :
            /\ Peer(s) \in Clients /\ Goto(s, "lock")
            /\ n = 2 \/ cst[Peer(s)] = "left"
            /\ buffer' = [buffer EXCEPT ![s] = msg(n)]
      BY <1>0, <1>12, <2>3, BodyRead
    <3>2. ~Fresh(Peer(s))
      <4>1. CASE mpc # "gone"
        BY <1>0, <2>1, <3>1, <4>1 DEF PeerInv, Served, FreshInv, Peer, Types
      <4>2. CASE mpc = "gone"
        BY <1>0, <3>1, <4>2, ZenonT(30) DEF FreshInv, Fresh, Peer, Types
      <4> QED
        BY <4>1, <4>2
    <3>3. /\ \A t \in Slots : t # s => buffer'[t] = buffer[t] /\ pc'[t] = pc[t]
          /\ buffer'[s] = msg(n)
      BY <1>0, <3>1 DEF Types, Goto
    <3>4. \A x : Good(x)' <=> Good(x)
      BY <2>1 DEF Good, Fresh
    <3>5. Good(buffer'[s])
      BY <3>1, <3>2, <3>3 DEF Good
    <3> QED
      BY <1>0, <2>1, <3>3, <3>4, <3>5 DEF LogInv
  <2> QED
    BY <2>2, <2>3
<1>13. ASSUME NEW s \in Slots, Lock(s) PROVE LogInv'
  <2>1. /\ pc[s] = "lock" /\ UNCHANGED <<cst, backlog, mpc, fdtab, cd>>
        /\ log' = Append(log, buffer[s]) /\ buffer[s] \in Msg
    BY <1>0, <1>13 DEF Lock, ControlInv
  <2>2. \A x : Good(x)' <=> Good(x)
    BY <2>1 DEF Good, Fresh
  <2>3. \A k \in DOMAIN log' : (k \in DOMAIN log /\ log'[k] = log[k]) \/ log'[k] = buffer[s]
    <3>1. log \in Seq(Msg)
      BY <1>0 DEF Types
    <3> QED
      BY <2>1, <3>1, AppendTo
  <2>4. /\ \A t \in Slots : t # s => buffer'[t] = buffer[t] /\ pc'[t] = pc[t]
        /\ buffer'[s].from = buffer[s].from /\ buffer'[s].parts = buffer[s].parts
    BY <1>0, <1>13, <2>1 DEF Lock, Goto, Types, Msg
  <2>5. Good(buffer[s]) /\ Good(buffer'[s])
    BY <1>0, <2>1, <2>4 DEF LogInv, Good
  <2> QED
    BY <1>0, <2>2, <2>3, <2>4, <2>5 DEF LogInv
<1>14. ASSUME NEW s \in Slots, Write(s) PROVE LogInv'
  BY <1>0, <1>14, LogFrame DEF Write
<1>15. ASSUME NEW s \in Slots, Unlock(s) PROVE LogInv'
  BY <1>0, <1>15, GoodStays DEF Unlock, Goto, Types, LogInv, ControlInv, Good, Fresh
<1>16. ASSUME NEW s \in Slots, Close(s) PROVE LogInv'
  BY <1>0, <1>16, LogFrame DEF Close, Goto, Types
<1>17. ASSUME NEW s \in Slots, Clear(s) PROVE LogInv'
  BY <1>0, <1>17, LogFrame DEF Clear, Goto, Types
<1>18. CASE UNCHANGED vars
  BY <1>0, <1>18, LogFrame DEF vars
<1> QED
  BY <1>1, <1>2, <1>3, <1>4, <1>5, <1>6, <1>7, <1>8, <1>9, <1>10, <1>11, <1>12,
     <1>13, <1>14, <1>15, <1>16, <1>17, <1>18 DEF Next, Main, Thread

LEMMA OrderFrame ==
  ASSUME OrderInv, UNCHANGED <<got, log, buffer>>,
         \A s \in Slots : pc'[s] = "send" => pc[s] = "send"
  PROVE  OrderInv'
BY DEF OrderInv

\* Broadcasts are written in the order of their numbers.
LEMMA OrderStep == IInv /\ [Next]_vars => OrderInv'
<1> SUFFICES ASSUME IInv, [Next]_vars PROVE OrderInv'
  OBVIOUS
<1> USE DEF net_vars, main_vars, thread_vars, slot_vars
<1>0. IInv /\ Types /\ ControlInv /\ OrderInv
  BY DEF IInv
<1>1. ASSUME NEW c \in Clients, connect_to_server(c) PROVE OrderInv'
  BY <1>0, <1>1, OrderFrame DEF connect_to_server
<1>2. ASSUME NEW c \in Clients, write_to_server(c) PROVE OrderInv'
  BY <1>0, <1>2, OrderFrame DEF write_to_server
<1>3. ASSUME NEW c \in Clients, read_from_server(c) PROVE OrderInv'
  BY <1>0, <1>3, OrderFrame DEF read_from_server
<1>4. ASSUME NEW c \in Clients, close_program(c) PROVE OrderInv'
  BY <1>0, <1>4, OrderFrame DEF close_program
<1>5. ASSUME NEW c \in Clients, Accept(c) PROVE OrderInv'
  BY <1>0, <1>5, OrderFrame DEF Accept
<1>6. CASE Refuse
  BY <1>0, <1>6, OrderFrame DEF Refuse
<1>7. CASE Register
  BY <1>0, <1>7, OrderFrame DEF Register
<1>8. CASE CreateThread
  BY <1>0, <1>8, OrderFrame DEF CreateThread, Types, ControlInv
<1>9. CASE Sigint
  BY <1>0, <1>9, OrderFrame DEF Sigint
<1>10. CASE cleanup
  BY <1>0, <1>10, OrderFrame DEF cleanup
<1>11. ASSUME NEW s \in Slots, ReadSize(s) PROVE OrderInv'
  BY <1>0, <1>11, OrderFrame DEF ReadSize, Goto, Types
<1>12. ASSUME NEW s \in Slots, ReadBody(s) PROVE OrderInv'
  <2>1. \A t \in Slots : pc'[t] = "send" => t # s /\ pc[t] = "send"
    BY <1>0, <1>12 DEF ReadBody, Goto, Types
  <2>2. \A t \in Slots : t # s => buffer'[t] = buffer[t]
    BY <1>0, <1>12 DEF ReadBody, Types
  <2> QED
    BY <1>0, <1>12, <2>1, <2>2 DEF ReadBody, OrderInv
<1>13. ASSUME NEW s \in Slots, Lock(s) PROVE OrderInv'
  <2>1. log' = Append(log, buffer[s]) /\ buffer[s] \in Msg /\ log \in Seq(Msg)
    BY <1>0, <1>13 DEF Lock, ControlInv, Types
  <2>2. Len(log') = Len(log) + 1 /\ Len(log) \in Nat
    BY <2>1, AppendTo
  <2>3. \A t \in Slots : pc'[t] = "send" => t = s
    BY <1>0, <1>13, SlotsFinite DEF Lock, Goto, MutexFree, ControlInv, Types
  <2>4. buffer'[s].no = Len(log')
    BY <1>0, <1>13, <2>1 DEF Lock, Types, Msg
  <2>5. \A c \in Clients : \A j \in DOMAIN got[c] : got[c][j] \in Nat
    BY <1>0, LenProperties, ElementOfSeq DEF Types
  <2> QED
    BY <1>0, <1>13, <2>2, <2>3, <2>4, <2>5 DEF Lock, OrderInv
<1>14. ASSUME NEW s \in Slots, Write(s) PROVE OrderInv'
  <2>1. CASE UNCHANGED got
    BY <1>0, <1>14, <2>1, Written, OrderFrame
  <2>2. CASE ~UNCHANGED got
    <3>1. /\ Peer(i[s]) \in Clients /\ UNCHANGED <<pc, buffer, log>> /\ pc[s] = "send"
          /\ got' = [got EXCEPT ![Peer(i[s])] = Append(@, buffer[s].no)]
      BY <1>0, <1>14, <2>2, Written
    <3> DEFINE c == Peer(i[s])
               n == Len(got[c])
    <3>2. /\ got[c] \in Seq(Nat) /\ Len(log) \in Nat /\ buffer[s].no = Len(log)
      BY <1>0, <3>1, LenProperties DEF Types, OrderInv
    <3>3. /\ DOMAIN got[c] = 1..n /\ n \in Nat /\ DOMAIN got'[c] = 1..(n + 1)
          /\ \A k \in 1..n : got'[c][k] = got[c][k]
          /\ got'[c][n + 1] = Len(log)
      BY <1>0, <3>1, <3>2, AppendTo DEF Types
    <3>4. \A d \in Clients : d # c => got'[d] = got[d]
      BY <1>0, <3>1 DEF Types
    <3> HIDE DEF c, n
    <3>5. \A j \in DOMAIN got'[c] : got'[c][j] <= Len(log)
      BY <1>0, <3>1, <3>2, <3>3 DEF OrderInv, c
    <3>6. \A j, k \in DOMAIN got'[c] : j < k => got'[c][j] <= got'[c][k]
      BY <1>0, <3>1, <3>2, <3>3 DEF OrderInv, c
    <3> QED
      BY <1>0, <3>1, <3>4, <3>5, <3>6 DEF OrderInv
  <2> QED
    BY <2>1, <2>2
<1>15. ASSUME NEW s \in Slots, Unlock(s) PROVE OrderInv'
  <2>1. \A t \in Slots : pc'[t] = "send" => t # s /\ pc[t] = "send" /\ buffer'[t] = buffer[t]
    BY <1>0, <1>15 DEF Unlock, Goto, Types
  <2> QED
    BY <1>0, <1>15, <2>1 DEF Unlock, OrderInv
<1>16. ASSUME NEW s \in Slots, Close(s) PROVE OrderInv'
  BY <1>0, <1>16, OrderFrame DEF Close, Goto, Types
<1>17. ASSUME NEW s \in Slots, Clear(s) PROVE OrderInv'
  BY <1>0, <1>17, OrderFrame DEF Clear, Goto, Types
<1>18. CASE UNCHANGED vars
  BY <1>0, <1>18, OrderFrame DEF vars
<1> QED
  BY <1>1, <1>2, <1>3, <1>4, <1>5, <1>6, <1>7, <1>8, <1>9, <1>10, <1>11, <1>12,
     <1>13, <1>14, <1>15, <1>16, <1>17, <1>18 DEF Next, Main, Thread

\* Slot t holds an open connection of the client it was given to.
Reachable(t) == Peer(t) # NULL /\ Peer(t) = owner[t] /\ cst[owner[t]] = "open"

\* During a broadcast no slot comes to hold such a connection: its client would
\* have to connect a second time.
LEMMA NoneAdded ==
  IInv /\ [Next]_vars =>
    (lock # NULL => \A t \in Slots : Reachable(t)' => Reachable(t) /\ owner'[t] = owner[t])
<1> DEFINE Kept == \A t \in Slots : Reachable(t)' => Reachable(t) /\ owner'[t] = owner[t]
<1> SUFFICES ASSUME IInv, [Next]_vars, lock # NULL PROVE Kept
  OBVIOUS
<1> USE DEF Reachable, Peer, Types, net_vars, main_vars, thread_vars, slot_vars
<1>0. Types /\ ControlInv /\ FreshInv
  BY DEF IInv
<1>1. ASSUME NEW c \in Clients, connect_to_server(c) PROVE Kept
  BY <1>0, <1>1 DEF connect_to_server, FreshInv, Fresh
<1>2. ASSUME NEW c \in Clients, write_to_server(c) PROVE Kept
  BY <1>0, <1>2 DEF write_to_server
<1>3. ASSUME NEW c \in Clients, read_from_server(c) PROVE Kept
  BY <1>0, <1>3 DEF read_from_server
<1>4. ASSUME NEW c \in Clients, close_program(c) PROVE Kept
  BY <1>0, <1>4 DEF close_program
<1>5. ASSUME NEW c \in Clients, Accept(c) PROVE Kept
  <2>1. /\ cd' \in Fds /\ fdtab[cd'] = NULL /\ fdtab' = [fdtab EXCEPT ![cd'] = c]
        /\ c \in backlog /\ UNCHANGED <<clients, owner, cst>>
    BY <1>5, FdFound DEF Accept
  <2>2. \A t \in Slots : owner[t] # c
    BY <1>0, <2>1 DEF FreshInv, Fresh
  <2> QED
    BY <1>0, <2>1, <2>2
<1>6. CASE Refuse
  BY <1>0, <1>6 DEF Refuse
<1>7. CASE Register
  BY <1>0, <1>7 DEF Register
<1>8. CASE CreateThread
  BY <1>0, <1>8 DEF CreateThread
<1>9. CASE Sigint
  BY <1>0, <1>9 DEF Sigint
<1>10. CASE cleanup
  BY <1>0, <1>10 DEF cleanup
<1>11. ASSUME NEW s \in Slots, ReadSize(s) PROVE Kept
  BY <1>0, <1>11 DEF ReadSize
<1>12. ASSUME NEW s \in Slots, ReadBody(s) PROVE Kept
  BY <1>0, <1>12 DEF ReadBody
<1>13. ASSUME NEW s \in Slots, Lock(s) PROVE Kept
  BY <1>0, <1>13 DEF Lock
<1>14. ASSUME NEW s \in Slots, Write(s) PROVE Kept
  BY <1>0, <1>14 DEF Write
<1>15. ASSUME NEW s \in Slots, Unlock(s) PROVE Kept
  BY <1>0, <1>15 DEF Unlock
<1>16. ASSUME NEW s \in Slots, Close(s) PROVE Kept
  BY <1>0, <1>16 DEF Close, ControlInv
<1>17. ASSUME NEW s \in Slots, Clear(s) PROVE Kept
  BY <1>0, <1>17 DEF Clear
<1>18. CASE UNCHANGED vars
  BY <1>0, <1>18 DEF vars
<1> QED
  BY <1>1, <1>2, <1>3, <1>4, <1>5, <1>6, <1>7, <1>8, <1>9, <1>10, <1>11, <1>12,
     <1>13, <1>14, <1>15, <1>16, <1>17, <1>18 DEF Next, Main, Thread

LEMMA SentFrame ==
  ASSUME IInv, [Next]_vars, UNCHANGED <<got, buffer, i>>,
         \A s \in Slots : pc'[s] = "send" => pc[s] = "send"
  PROVE  SentInv'
<1>0. Types /\ ControlInv /\ SentInv
  BY DEF IInv
<1> SUFFICES ASSUME NEW s \in Slots, NEW t \in Slots, pc'[s] = "send", t < i[s], Reachable(t)'
             PROVE  \E k \in DOMAIN got[owner'[t]] : got[owner'[t]][k] = buffer[s].no
  BY DEF SentInv, Reachable
<1>1. pc[s] = "send" /\ lock # NULL
  BY <1>0, SlotsFinite DEF ControlInv
<1>2. Reachable(t) /\ owner'[t] = owner[t]
  BY <1>1, NoneAdded
<1> QED
  BY <1>0, <1>1, <1>2 DEF SentInv, Reachable

\* The loop leaves no client out.
LEMMA SentStep == IInv /\ [Next]_vars => SentInv'
<1> SUFFICES ASSUME IInv, [Next]_vars PROVE SentInv'
  OBVIOUS
<1> USE DEF net_vars, main_vars, thread_vars, slot_vars
<1>0. IInv /\ Types /\ ControlInv /\ SentInv
  BY DEF IInv
<1>1. ASSUME NEW c \in Clients, connect_to_server(c) PROVE SentInv'
  BY <1>0, <1>1, SentFrame DEF connect_to_server
<1>2. ASSUME NEW c \in Clients, write_to_server(c) PROVE SentInv'
  BY <1>0, <1>2, SentFrame DEF write_to_server
<1>3. ASSUME NEW c \in Clients, read_from_server(c) PROVE SentInv'
  BY <1>0, <1>3, SentFrame DEF read_from_server
<1>4. ASSUME NEW c \in Clients, close_program(c) PROVE SentInv'
  BY <1>0, <1>4, SentFrame DEF close_program
<1>5. ASSUME NEW c \in Clients, Accept(c) PROVE SentInv'
  BY <1>0, <1>5, SentFrame DEF Accept
<1>6. CASE Refuse
  BY <1>0, <1>6, SentFrame DEF Refuse
<1>7. CASE Register
  BY <1>0, <1>7, SentFrame DEF Register
<1>8. CASE CreateThread
  BY <1>0, <1>8, SentFrame DEF CreateThread, Types, ControlInv
<1>9. CASE Sigint
  BY <1>0, <1>9, SentFrame DEF Sigint
<1>10. CASE cleanup
  BY <1>0, <1>10, SentFrame DEF cleanup
<1>11. ASSUME NEW s \in Slots, ReadSize(s) PROVE SentInv'
  BY <1>0, <1>11, SentFrame DEF ReadSize, Goto, Types
<1>12. ASSUME NEW s \in Slots, ReadBody(s) PROVE SentInv'
  <2>1. \A t \in Slots : pc'[t] = "send" => t # s /\ pc[t] = "send" /\ buffer'[t] = buffer[t]
    BY <1>0, <1>12 DEF ReadBody, Goto, Types
  <2>2. UNCHANGED <<got, i, clients, fdtab, owner, cst>>
    BY <1>12 DEF ReadBody
  <2> QED
    BY <1>0, <2>1, <2>2 DEF SentInv, Peer
<1>13. ASSUME NEW s \in Slots, Lock(s) PROVE SentInv'
  <2>1. \A t \in Slots : pc'[t] = "send" => t = s
    BY <1>0, <1>13, SlotsFinite DEF Lock, Goto, MutexFree, ControlInv, Types
  <2>2. i'[s] = 1 /\ \A t \in Slots : ~(t < 1)
    BY <1>0, <1>13 DEF Lock, Types, Slots
  <2> QED
    BY <2>1, <2>2 DEF SentInv
<1>14. ASSUME NEW s \in Slots, Write(s) PROVE SentInv'
  <2>1. /\ i[s] \in Slots /\ i' = [i EXCEPT ![s] = @ + 1] /\ pc[s] = "send"
        /\ UNCHANGED <<pc, buffer, log, clients, fdtab, owner, cst>>
    BY <1>0, <1>14, Written
  <2>2. \A u \in Slots : pc[u] = "send" => u = s
    BY <1>0, <2>1 DEF ControlInv
  <2> SUFFICES ASSUME NEW t \in Slots, t < i'[s], Reachable(t)
               PROVE  \E k \in DOMAIN got'[owner[t]] : got'[owner[t]][k] = buffer[s].no
    BY <2>1, <2>2 DEF SentInv, Reachable, Peer
  <2>3. owner[t] \in Clients /\ got[owner[t]] \in Seq(Nat) /\ buffer[s].no \in Nat
    BY <1>0, <2>1 DEF Reachable, Types, ControlInv, Msg
  <2>4. ASSUME NEW k \in DOMAIN got[owner[t]]
        PROVE  k \in DOMAIN got'[owner[t]] /\ got'[owner[t]][k] = got[owner[t]][k]
    <3>1. CASE UNCHANGED got
      BY <3>1
    <3>2. CASE ~UNCHANGED got
      <4>1. got' = [got EXCEPT ![Peer(i[s])] = Append(@, buffer[s].no)]
        BY <1>0, <1>14, <3>2, Written
      <4> QED
        BY <1>0, <2>3, <4>1, AppendTo DEF Types
    <3> QED
      BY <3>1, <3>2
  <2>5. CASE t < i[s]
    <3>1. PICK k \in DOMAIN got[owner[t]] : got[owner[t]][k] = buffer[s].no
      BY <1>0, <2>1, <2>5 DEF SentInv, Reachable
    <3> QED
      BY <2>4, <3>1
  <2>6. CASE t = i[s]
    <3>1. got' = [got EXCEPT ![owner[t]] = Append(@, buffer[s].no)]
      BY <1>0, <1>14, <2>6, Written DEF Reachable
    <3>2. got'[owner[t]] = Append(got[owner[t]], buffer[s].no)
      BY <1>0, <2>3, <3>1 DEF Types
    <3>3. Len(got[owner[t]]) + 1 \in DOMAIN got'[owner[t]]
      BY <2>3, <3>2, AppendTo
    <3>4. got'[owner[t]][Len(got[owner[t]]) + 1] = buffer[s].no
      BY <2>3, <3>2, AppendTo
    <3> QED
      BY <3>3, <3>4
  <2>7. t < i[s] \/ t = i[s]
    BY <1>0, <2>1 DEF Types, Slots
  <2> QED
    BY <2>5, <2>6, <2>7
<1>15. ASSUME NEW s \in Slots, Unlock(s) PROVE SentInv'
  <2>1. \A t \in Slots : pc'[t] = "send" => t # s /\ pc[t] = "send" /\ buffer'[t] = buffer[t]
    BY <1>0, <1>15 DEF Unlock, Goto, Types
  <2>2. UNCHANGED <<got, i, clients, fdtab, owner, cst>>
    BY <1>15 DEF Unlock
  <2> QED
    BY <1>0, <2>1, <2>2 DEF SentInv, Peer
<1>16. ASSUME NEW s \in Slots, Close(s) PROVE SentInv'
  BY <1>0, <1>16, SentFrame DEF Close, Goto, Types
<1>17. ASSUME NEW s \in Slots, Clear(s) PROVE SentInv'
  BY <1>0, <1>17, SentFrame DEF Clear, Goto, Types
<1>18. CASE UNCHANGED vars
  BY <1>0, <1>18, SentFrame DEF vars
<1> QED
  BY <1>1, <1>2, <1>3, <1>4, <1>5, <1>6, <1>7, <1>8, <1>9, <1>10, <1>11, <1>12,
     <1>13, <1>14, <1>15, <1>16, <1>17, <1>18 DEF Next, Main, Thread

\* The inductive invariant holds in every reachable state of the chat server.
THEOREM Invariance == Spec => []IInv
<1>1. IInv /\ [Next]_vars => IInv'
  BY TypesStep, ControlStep, CountStep, PeerStep, FreshStep, LogStep, OrderStep, SentStep
  DEF IInv
<1> QED
  BY InitIInv, <1>1, PTL DEF Spec

\* clientsCount is the number of slots in use and every thread reads from its
\* own client, however descriptor numbers are reused, for any number of clients
\* and slots.
THEOREM SlotsCorrect == Spec => []SlotsTrue
<1>1. IInv => SlotsTrue
  <2> SUFFICES ASSUME IInv PROVE SlotsTrue
    OBVIOUS
  <2>0. Types /\ ControlInv /\ CountInv /\ PeerInv
    BY DEF IInv
  <2>1. clientsCount \in 0..MAX_CLIENTS
    BY <2>0, UsedFinite DEF CountInv, UsedSlots
  <2>2. TypeOK
    BY <2>0, <2>1 DEF TypeOK, Types, ControlInv
  <2>3. \A s \in Slots :
          (pc[s] \in {"size", "body", "lock"} /\ mpc # "gone") => Peer(s) = owner[s]
    BY <2>0 DEF PeerInv, Served, Peer, ControlInv
  <2> QED
    BY <2>0, <2>2, <2>3 DEF SlotsTrue, CountInv, UsedSlots
<1> QED
  BY Invariance, <1>1, PTL

\* All clients see the broadcasts in one order, and a message is cut short only
\* when its sender has left.
THEOREM MessagesCorrect == Spec => []MessagesTrue
<1>1. IInv => MessagesTrue
  BY DEF IInv, MessagesTrue, OrderInv, LogInv, Good
<1> QED
  BY Invariance, <1>1, PTL

\* A broadcast that is over has reached every client that was in its slot and
\* had not left.
THEOREM BroadcastComplete == Spec => ReachesAll
<1> DEFINE Complete ==
      \A s, t \in Slots :
        (pc[s] = "send" /\ pc'[s] = "size" /\ Peer(t) # NULL
           /\ Peer(t) = owner[t] /\ cst[owner[t]] = "open") =>
              \E k \in DOMAIN got[owner[t]] : got[owner[t]][k] = buffer[s].no
<1>1. IInv /\ [Next]_vars => [Complete]_vars
  <2> SUFFICES ASSUME IInv, Next, NEW s \in Slots, NEW t \in Slots,
                      pc[s] = "send", pc'[s] = "size", Reachable(t)
               PROVE  \E k \in DOMAIN got[owner[t]] : got[owner[t]][k] = buffer[s].no
    BY DEF Reachable
  <2>0. Types /\ ControlInv /\ SentInv
    BY DEF IInv
  <2>1. i[s] > MAX_CLIENTS
    <3>1. Unlock(s)
      <4>1. ASSUME NEW u \in Slots, Thread(u) PROVE Unlock(s)
        <5>1. ReadSize(u) \/ ReadBody(u) \/ Lock(u) \/ Close(u) \/ Clear(u) => FALSE
          BY <2>0 DEF ReadSize, ReadBody, Lock, Close, Clear, Goto, Types
        <5>2. Write(u) => FALSE
          BY DEF Write
        <5>3. Unlock(u) => u = s
          BY <2>0 DEF Unlock, Goto, Types
        <5> QED
          BY <4>1, <5>1, <5>2, <5>3 DEF Thread
      <4>2. CreateThread => FALSE
        BY <2>0 DEF CreateThread, Types, ControlInv
      <4> QED
        BY <4>1, <4>2 DEF Next, Main, connect_to_server, write_to_server, read_from_server,
           close_program, Accept, Refuse, Register, Sigint, cleanup, thread_vars
    <3> QED
      BY <3>1 DEF Unlock, LastSlot
  <2>2. t < i[s]
    BY <2>0, <2>1 DEF Types, Slots
  <2> QED
    BY <2>0, <2>2 DEF SentInv, Reachable
<1> QED
  BY <1>1, Invariance, PTL DEF Spec, ReachesAll
===============================================================================
