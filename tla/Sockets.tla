------------------------------ MODULE Sockets -------------------------------
(***************************************************************************)
(* Unix sockets (kernel/unix_socket.c, syscall/socket.c).  Clients connect *)
(* to one listening socket; servers accept from it, several at a time      *)
(* after a fork().  The queue of pending clients is a list under a lock,   *)
(* but its length num_pending is changed before or after the section and   *)
(* read without it, and everybody can be preempted in between.             *)
(*                                                                         *)
(* A connection is two ring buffers; their bytes are numbered from 1 in    *)
(* the order in which they are written.  The sockets are never destroyed:  *)
(* sys_socket() keeps the reference that unix_socket_create() returns.     *)
(***************************************************************************)
EXTENDS Integers, Sequences, FiniteSets

CONSTANTS Client, Server,   \* processes on the two sides
          Nobody,
          Backlog,          \* the argument of listen()
          SockCapacity,     \* bytes that fit a ring buffer
          SockWord,         \* numbers of a size_t
          MaxSent           \* bound: bytes sent per direction

ASSUME SocketsAssumption == /\ Backlog \in Nat /\ SockWord \in Nat \ {0}
                            /\ SockCapacity \in Nat \ {0} /\ MaxSent \in Nat
                            /\ IsFiniteSet(Client) /\ IsFiniteSet(Server)

VARIABLES bound,        \* the listener's name exists
          backlog,      \* listener->backlog: 0 before listen()
          pending,      \* the list at listener->next
          numPending,   \* listener->num_pending
          cState, sState,   \* where each process is
          peer,         \* peer[s]: the client a server has dequeued
          connected,    \* connector->connected
          toServer, toClient,   \* the bytes in the two ring buffers
          sentTo, got,    \* sentTo[c][dir], got[c][dir]: how far each stream is
          sockStopped   \* the kernel crashed

sockVars == <<bound, backlog, pending, numPending, cState, sState, peer,
              connected, toServer, toClient, sentTo, got, sockStopped>>

Zero == [up |-> 0, down |-> 0]

SocketsInit ==
    /\ bound = FALSE /\ backlog = 0
    /\ pending = <<>> /\ numPending = 0
    /\ cState = [c \in Client |-> "idle"]
    /\ sState = [s \in Server |-> "idle"]
    /\ peer = [s \in Server |-> Nobody]
    /\ connected = [c \in Client |-> FALSE]
    /\ toServer = [c \in Client |-> <<>>] /\ toClient = [c \in Client |-> <<>>]
    /\ sentTo = [c \in Client |-> Zero] /\ got = [c \in Client |-> Zero]
    /\ sockStopped = FALSE

bufferVars == <<toServer, toClient, sentTo, got>>

ClientMoves(c, from, to) ==
    /\ ~sockStopped /\ cState[c] = from
    /\ cState' = [cState EXCEPT ![c] = to]
    /\ UNCHANGED <<sState, peer, bufferVars>>

ServerMoves(s, from, to) ==
    /\ ~sockStopped /\ sState[s] = from
    /\ sState' = [sState EXCEPT ![s] = to]
    /\ UNCHANGED <<cState, bufferVars, bound, backlog>>

(* sys_bind() makes the name, exclusively; sys_listen() sets the backlog.  *)
(* A client may find the name before that: the backlog is still zero then. *)
SysBind == /\ ~sockStopped /\ ~bound /\ bound' = TRUE
           /\ UNCHANGED <<backlog, pending, numPending, cState, sState, peer,
                          connected, bufferVars, sockStopped>>

SysListen == /\ ~sockStopped /\ bound /\ backlog # Backlog
             /\ backlog' = Backlog
             /\ UNCHANGED <<bound, pending, numPending, cState, sState, peer,
                            connected, bufferVars, sockStopped>>

(* sys_connect(), unix_socket_connect(): the name is looked up and the     *)
(* backlog compared with num_pending, then enqueue_pending() appends to    *)
(* the list, then num_pending is incremented, then the client waits.       *)
ConnectCheck(c) ==
    /\ ClientMoves(c, "idle", IF ~bound \/ numPending >= backlog
                              THEN "refused" ELSE "enqueue")
    /\ UNCHANGED <<bound, backlog, pending, numPending, connected, sockStopped>>

EnqueuePendingReplaces(c) ==
    /\ ClientMoves(c, "enqueue", "count")
    /\ pending' = <<c>>
    /\ UNCHANGED <<bound, backlog, numPending, connected, sockStopped>>

EnqueuePending(c) ==
    /\ ClientMoves(c, "enqueue", "count")
    /\ pending' = Append(pending, c)
    /\ UNCHANGED <<bound, backlog, numPending, connected, sockStopped>>

EnqueueCountForgotten(c) ==
    /\ ClientMoves(c, "count", "wait")
    /\ UNCHANGED <<bound, backlog, pending, numPending, connected, sockStopped>>

EnqueueCount(c) ==
    /\ ClientMoves(c, "count", "wait")
    /\ numPending' = (numPending + 1) % SockWord
    /\ UNCHANGED <<bound, backlog, pending, connected, sockStopped>>

(* connect_should_unblock(): the client is accepted.                       *)
ConnectReturns(c) ==
    /\ connected[c] /\ ClientMoves(c, "wait", "talk")
    /\ UNCHANGED <<bound, backlog, pending, numPending, connected, sockStopped>>

(* The wait is interrupted because the client is killed; its socket stays  *)
(* in the queue.                                                           *)
ConnectInterrupted(c) ==
    /\ ClientMoves(c, "wait", "dead")
    /\ UNCHANGED <<bound, backlog, pending, numPending, connected, sockStopped>>

(* A refused client tries again.                                           *)
ConnectAgain(c) ==
    /\ ClientMoves(c, "refused", "idle")
    /\ UNCHANGED <<bound, backlog, pending, numPending, connected, sockStopped>>

(* unix_socket_accept(): the server waits until num_pending is positive;   *)
(* deque_pending() takes the first of the list, reading its link before    *)
(* the assertion that there is one, and decrements num_pending outside the *)
(* lock; then the client is connected.                                     *)
AcceptUnblocks(s) ==
    /\ numPending > 0 /\ ServerMoves(s, "idle", "deque")
    /\ UNCHANGED <<pending, numPending, peer, connected, sockStopped>>

DequePending(s) ==
    \/ /\ pending # <<>> /\ ServerMoves(s, "deque", "uncount")
       /\ peer' = [peer EXCEPT ![s] = Head(pending)]
       /\ pending' = Tail(pending)
       /\ UNCHANGED <<numPending, connected, sockStopped>>
    \/ /\ pending = <<>> /\ ~sockStopped /\ sState[s] = "deque"
       /\ sockStopped' = TRUE
       /\ UNCHANGED <<bound, backlog, pending, numPending, cState, sState, peer,
                      connected, bufferVars>>

DequeCount(s) ==
    /\ ServerMoves(s, "uncount", "accept")
    /\ numPending' = (numPending - 1) % SockWord
    /\ UNCHANGED <<pending, peer, connected, sockStopped>>

(* ASSERT(!connector->connected), then it is.                              *)
AcceptConnects(s) ==
    /\ ServerMoves(s, "accept", "talk")
    /\ sockStopped' = connected[peer[s]]
    /\ connected' = [connected EXCEPT ![peer[s]] = TRUE]
    /\ UNCHANGED <<pending, numPending, peer>>

(* A server that has finished with a client accepts the next one.          *)
ServerDone(s) ==
    /\ ServerMoves(s, "talk", "idle")
    /\ peer' = [peer EXCEPT ![s] = Nobody]
    /\ UNCHANGED <<pending, numPending, connected, sockStopped>>

(* unix_socket_write() and unix_socket_read(): get_buf_to_write() and      *)
(* get_buf_to_read() tell the ends apart by the connector's description.   *)
(* The buffer takes what fits, the reader gets what is there; each blocks  *)
(* while that is nothing.                                                  *)
Talks(s, c) == ~sockStopped /\ sState[s] = "talk" /\ peer[s] = c

WriteUp(c) ==
    /\ ~sockStopped /\ cState[c] = "talk"
    /\ Len(toServer[c]) < SockCapacity /\ sentTo[c].up < MaxSent
    /\ toServer' = [toServer EXCEPT ![c] = Append(@, sentTo[c].up + 1)]
    /\ sentTo' = [sentTo EXCEPT ![c].up = @ + 1]
    /\ UNCHANGED <<toClient, got>>

ReadUp(c) ==
    /\ \E s \in Server : Talks(s, c)
    /\ toServer[c] # <<>>
    /\ got' = [got EXCEPT ![c].up = Head(toServer[c])]
    /\ toServer' = [toServer EXCEPT ![c] = Tail(@)]
    /\ UNCHANGED <<toClient, sentTo>>

WriteDown(c) ==
    /\ \E s \in Server : Talks(s, c)
    /\ Len(toClient[c]) < SockCapacity /\ sentTo[c].down < MaxSent
    /\ toClient' = [toClient EXCEPT ![c] = Append(@, sentTo[c].down + 1)]
    /\ sentTo' = [sentTo EXCEPT ![c].down = @ + 1]
    /\ UNCHANGED <<toServer, got>>

ReadDown(c) ==
    /\ ~sockStopped /\ cState[c] = "talk" /\ toClient[c] # <<>>
    /\ got' = [got EXCEPT ![c].down = Head(toClient[c])]
    /\ toClient' = [toClient EXCEPT ![c] = Tail(@)]
    /\ UNCHANGED <<toServer, sentTo>>

Transfer(c) ==
    /\ WriteUp(c) \/ ReadUp(c) \/ WriteDown(c) \/ ReadDown(c)
    /\ UNCHANGED <<bound, backlog, pending, numPending, cState, sState, peer,
                   connected, sockStopped>>

SocketsNext ==
    \/ SysBind \/ SysListen
    \/ \E c \in Client : \/ ConnectCheck(c) \/ EnqueuePending(c)
                         \/ EnqueueCount(c) \/ ConnectReturns(c)
                         \/ ConnectInterrupted(c) \/ ConnectAgain(c)
                         \/ Transfer(c)
    \/ \E s \in Server : \/ AcceptUnblocks(s) \/ DequePending(s)
                         \/ DequeCount(s) \/ AcceptConnects(s) \/ ServerDone(s)

SocketsSpec == SocketsInit /\ [][SocketsNext]_sockVars

(* Every process that can go on in the kernel does, a client that is       *)
(* connected notices, and servers come back to accept().                   *)
ConnectGoesOn(c) == EnqueueCount(c) \/ EnqueuePending(c) \/ ConnectReturns(c)
AcceptGoesOn(s) == DequePending(s) \/ DequeCount(s) \/ AcceptConnects(s) \/ ServerDone(s)

SocketsFairness ==
    /\ \A c \in Client : WF_sockVars(ConnectGoesOn(c))
    /\ \A s \in Server : WF_sockVars(AcceptGoesOn(s)) /\ WF_sockVars(AcceptUnblocks(s))

-----------------------------------------------------------------------------
SocketsTypeOK ==
    /\ numPending \in 0..(SockWord - 1)
    /\ pending \in Seq(Client)
    /\ peer \in [Server -> Client \cup {Nobody}]

(* num_pending is the length of the queue up to the increments and         *)
(* decrements that are still to come, although it may have wrapped below   *)
(* zero in between.                                                        *)
PendingIsCounted ==
    numPending = (Len(pending)
                  + Cardinality({s \in Server : sState[s] = "uncount"})
                  - Cardinality({c \in Client : cState[c] = "count"})) % SockWord

(* A client that waits is in the queue once or in one server's hands:      *)
(* racing connects and accepts neither lose nor duplicate it.              *)
NoClientIsLost ==
    \A c \in Client :
      LET inQueue == Cardinality({k \in DOMAIN pending : pending[k] = c})
          taken == Cardinality({s \in Server : peer[s] = c
                                   /\ sState[s] \in {"uncount", "accept"}})
      IN  /\ inQueue + taken <= 1
          /\ cState[c] \in {"count", "wait"} /\ ~connected[c] =>
               inQueue + taken = 1

(* Each end gets exactly the bytes the other end wrote, in their order.    *)
StreamsDeliver ==
    \A c \in Client :
      /\ toServer[c] = [k \in 1..(sentTo[c].up - got[c].up) |-> got[c].up + k]
      /\ toClient[c] = [k \in 1..(sentTo[c].down - got[c].down)
                           |-> got[c].down + k]

(* Racing connects and accepts neither lose nor duplicate a client, the    *)
(* count of those that wait is right once the steps are done, and each end *)
(* gets the other's bytes (unix_socket.c:60, :160, :193).                  *)
ClientsAreServedOnce == /\ SocketsTypeOK /\ PendingIsCounted
                        /\ NoClientIsLost /\ StreamsDeliver

(* A client that waits is connected in the end, or killed, or the race of  *)
(* two servers for it crashes the kernel.                                  *)
WaitingIsAccepted ==
    \A c \in Client : cState[c] = "wait" ~>
                         (cState[c] # "wait" \/ sockStopped)
=============================================================================
