--------------------------------- MODULE Hub ---------------------------------
(***************************************************************************)
(* The WebSocket hub of internal/websocket: Hub.Run (hub.go), the two      *)
(* pumps of every client (client.go) and the handler that connects them    *)
(* (handler.go).                                                           *)
(*                                                                         *)
(* The hub's request channels are unbuffered: a sender meets the hub       *)
(* between two rounds of its select, the request is then in the hub's      *)
(* hands (op), and the sender goes on while the hub handles it.  What a    *)
(* message says is left out, where it is sent is kept.                     *)
(***************************************************************************)
EXTENDS Naturals, Sequences, FiniteSets

CONSTANTS
  Client,   \* connections (*Client)
  UserOf,   \* UserOf[c]: client.UserID, 0 when not authenticated
  Room,     \* room names
  NoRoom,   \* the empty room name
  NoOp,     \* the hub is in select
  SendSize, \* sendBufferSize
  QueueSize,\* capacity of h.broadcast
  Closers   \* clients whose Close() other code calls

ASSUME HubAssumption ==
  /\ UserOf \in [Client -> Nat]
  /\ NoRoom \notin Room
  /\ NoOp \notin [kind : {"register", "unregister", "join", "leave"},
                 client : Client, room : Room \cup {NoRoom}]
  /\ SendSize \in Nat \ {0} /\ QueueSize \in Nat \ {0}
  /\ Closers \subseteq Client

VARIABLES
  clients, userClients, roomClients, \* the hub's maps
  totalRooms, active, \* its metrics TotalRooms and ActiveConnections
  op,       \* the request the hub has received
  queue,    \* h.broadcast
  send,     \* send[c]: messages in the client's send buffer
  closed,   \* the clients whose send channel is closed
  rooms,    \* rooms[c]: client.Rooms
  reader,   \* where ReadPump is, handleWebSocket before it
  writer,   \* where WritePump is
  conn,     \* whether the connection is up
  asked,    \* history: the rooms the client has asked to be in
  ended,    \* history: the clients Close() was called for
  panicked  \* a send on a closed channel has ended the process

hubVars == <<clients, userClients, roomClients, totalRooms, active>>
cliVars == <<rooms, reader, writer, conn, asked>>
vars == <<hubVars, cliVars, op, queue, send, closed, ended, panicked>>

User == {UserOf[c] : c \in Client}
Message == [room : Room \cup {NoRoom}, user : User \cup {0}]

HubInit ==
  /\ clients = {}
  /\ userClients = [u \in User |-> {}]
  /\ roomClients = [r \in Room |-> {}]
  /\ totalRooms = 0 /\ active = 0
  /\ op = NoOp
  /\ queue = <<>>
  /\ send = [c \in Client |-> 0]
  /\ closed = {}
  /\ rooms = [c \in Client |-> {}]
  /\ reader = [c \in Client |-> "new"]
  /\ writer = [c \in Client |-> "new"]
  /\ conn = [c \in Client |-> "up"]
  /\ asked = [c \in Client |-> {}]
  /\ ended = {}
  /\ panicked = FALSE

Occupied(rc) == {r \in Room : rc[r] # {}}
-----------------------------------------------------------------------------
(* The hub's goroutine.                                                    *)

\* A sender hands the hub a request.
Hand(k, c, r) ==
  /\ op = NoOp
  /\ op' = [kind |-> k, client |-> c, room |-> r]

Handles(k) == ~panicked /\ op # NoOp /\ op.kind = k /\ op' = NoOp

registerClient ==
  /\ Handles("register")
  /\ LET c == op.client IN
       /\ clients' = clients \cup {c}
       /\ userClients' = IF UserOf[c] > 0
                         THEN [userClients EXCEPT ![UserOf[c]] = @ \cup {c}]
                         ELSE userClients
  /\ active' = active + 1
  /\ UNCHANGED <<roomClients, totalRooms, cliVars, queue, send, closed, ended,
                 panicked>>

\* Mutant: the client is left in the rooms it was in.
unregisterForgetsRooms ==
  /\ Handles("unregister")
  /\ LET c == op.client IN
       IF c \in clients
       THEN /\ clients' = clients \ {c}
            /\ closed' = closed \cup {c}
            /\ userClients' = [userClients EXCEPT ![UserOf[c]] = @ \ {c}]
            /\ active' = active - 1
       ELSE UNCHANGED <<clients, userClients, active, closed>>
  /\ UNCHANGED <<roomClients, totalRooms, cliVars, queue, send, ended, panicked>>

\* TotalRooms is not brought up to date, nor client.Rooms.
unregisterClient ==
  /\ Handles("unregister")
  /\ LET c == op.client IN
       IF c \in clients
       THEN /\ clients' = clients \ {c}
            /\ closed' = closed \cup {c}
            /\ userClients' = [userClients EXCEPT ![UserOf[c]] = @ \ {c}]
            /\ roomClients' = [r \in Room |-> roomClients[r] \ {c}]
            /\ active' = active - 1
       ELSE UNCHANGED <<clients, userClients, roomClients, active, closed>>
  /\ UNCHANGED <<totalRooms, cliVars, queue, send, ended, panicked>>

\* Whether the client is registered is not asked.
handleJoinRoom ==
  /\ Handles("join")
  /\ roomClients' = [roomClients EXCEPT ![op.room] = @ \cup {op.client}]
  /\ rooms' = [rooms EXCEPT ![op.client] = @ \cup {op.room}]
  /\ totalRooms' = Cardinality(Occupied(roomClients'))
  /\ UNCHANGED <<clients, userClients, active, reader, writer, conn, asked,
                 queue, send, closed, ended, panicked>>

\* Mutant: client.Rooms keeps the room.
handleLeaveKeepsRoom ==
  /\ Handles("leave")
  /\ roomClients' = [roomClients EXCEPT ![op.room] = @ \ {op.client}]
  /\ totalRooms' = Cardinality(Occupied(roomClients'))
  /\ UNCHANGED <<clients, userClients, active, rooms, reader, writer, conn, asked,
                 queue, send, closed, ended, panicked>>

handleLeaveRoom ==
  /\ Handles("leave")
  /\ roomClients' = [roomClients EXCEPT ![op.room] = @ \ {op.client}]
  /\ rooms' = [rooms EXCEPT ![op.client] = @ \ {op.room}]
  /\ totalRooms' = Cardinality(Occupied(roomClients'))
  /\ UNCHANGED <<clients, userClients, active, reader, writer, conn, asked,
                 queue, send, closed, ended, panicked>>

Targets(m) ==
  IF m.room # NoRoom THEN roomClients[m.room]
  ELSE IF m.user > 0 THEN userClients[m.user]
  ELSE clients

\* A full buffer misses the message, a closed one is the end of the process.
handleBroadcast ==
  /\ ~panicked /\ op = NoOp /\ queue # <<>>
  /\ queue' = Tail(queue)
  /\ LET to == Targets(Head(queue)) IN
       IF to \cap closed # {}
       THEN panicked' = TRUE /\ UNCHANGED send
       ELSE /\ send' = [c \in Client |-> IF c \in to /\ send[c] < SendSize
                                         THEN send[c] + 1 ELSE send[c]]
            /\ UNCHANGED panicked
  /\ UNCHANGED <<hubVars, cliVars, op, closed, ended>>
-----------------------------------------------------------------------------
(* The clients.                                                            *)

\* handleWebSocket up to the registration ...
handleWebSocket(c) ==
  /\ ~panicked /\ reader[c] = "new"
  /\ Hand("register", c, NoRoom)
  /\ reader' = [reader EXCEPT ![c] = "welcome"]
  /\ UNCHANGED <<hubVars, rooms, writer, conn, asked, queue, send, closed, ended,
                 panicked>>

\* ... and from the welcome, sent without blocking, to the start of the pumps.
Welcome(c) ==
  /\ ~panicked /\ reader[c] = "welcome"
  /\ IF c \in closed
     THEN panicked' = TRUE /\ UNCHANGED <<send, reader, writer>>
     ELSE /\ send' = [send EXCEPT ![c] = IF @ < SendSize THEN @ + 1 ELSE @]
          /\ reader' = [reader EXCEPT ![c] = "read"]
          /\ writer' = [writer EXCEPT ![c] = "run"]
          /\ UNCHANGED panicked
  /\ UNCHANGED <<hubVars, rooms, conn, asked, op, queue, closed, ended>>

\* ReadPump has read a message and handleMessage goes by its type.
Reads(c, next) ==
  /\ ~panicked /\ reader[c] = "read" /\ conn[c] = "up"
  /\ reader' = [reader EXCEPT ![c] = next]
  /\ UNCHANGED <<hubVars, rooms, writer, conn, send, closed, ended, panicked>>

ReadPing(c) == Reads(c, "reply") /\ UNCHANGED <<asked, op, queue>>

ReadSubscribe(c, r) ==
  /\ Reads(c, "reply")
  /\ Hand("join", c, r)
  /\ asked' = [asked EXCEPT ![c] = @ \cup {r}]
  /\ UNCHANGED queue

ReadUnsubscribe(c, r) ==
  /\ Reads(c, "reply")
  /\ Hand("leave", c, r)
  /\ asked' = [asked EXCEPT ![c] = @ \ {r}]
  /\ UNCHANGED queue

\* To the room, if there is one; otherwise to the sender's own user.
ReadMessage(c, r) ==
  /\ Reads(c, "read")
  /\ Len(queue) < QueueSize
  /\ queue' = Append(queue, [room |-> r, user |-> UserOf[c]])
  /\ UNCHANGED <<asked, op>>

\* The pong or the acknowledgement: a send that blocks while the buffer is full.
Reply(c) ==
  /\ ~panicked /\ reader[c] = "reply"
  /\ IF c \in closed
     THEN panicked' = TRUE /\ UNCHANGED <<send, reader>>
     ELSE /\ send[c] < SendSize
          /\ send' = [send EXCEPT ![c] = @ + 1]
          /\ reader' = [reader EXCEPT ![c] = "read"]
          /\ UNCHANGED panicked
  /\ UNCHANGED <<hubVars, rooms, writer, conn, asked, op, queue, closed, ended>>

\* ReadMessage fails: the connection is closed, from either side, or no pong
\* came in time.
ReadFails(c) ==
  /\ ~panicked /\ reader[c] = "read" /\ conn[c] = "down"
  /\ reader' = [reader EXCEPT ![c] = "leave"]
  /\ UNCHANGED <<hubVars, rooms, writer, conn, asked, op, queue, send, closed,
                 ended, panicked>>

\* Mutant: the pump ends without a word to the hub.
ReadEndsSilently(c) ==
  /\ ~panicked /\ reader[c] = "leave"
  /\ reader' = [reader EXCEPT ![c] = "done"]
  /\ UNCHANGED <<hubVars, rooms, writer, conn, asked, op, queue, send, closed,
                 ended, panicked>>

\* ReadPump's deferred function.
ReadEnds(c) ==
  /\ ~panicked /\ reader[c] = "leave"
  /\ Hand("unregister", c, NoRoom)
  /\ reader' = [reader EXCEPT ![c] = "done"]
  /\ UNCHANGED <<hubVars, rooms, writer, conn, asked, queue, send, closed, ended,
                 panicked>>

\* WritePump takes a message off the buffer and writes it ...
Write(c) ==
  /\ ~panicked /\ writer[c] = "run" /\ send[c] > 0 /\ conn[c] = "up"
  /\ send' = [send EXCEPT ![c] = @ - 1]
  /\ UNCHANGED <<hubVars, cliVars, op, queue, closed, ended, panicked>>

\* ... and ends, closing the connection, when that fails, when a ping fails or
\* when the buffer is closed and empty.
WriteEnds(c) ==
  /\ ~panicked /\ writer[c] = "run"
  /\ \/ conn[c] = "down" /\ send[c] > 0 /\ send' = [send EXCEPT ![c] = @ - 1]
     \/ conn[c] = "down" /\ UNCHANGED send
     \/ c \in closed /\ send[c] = 0 /\ UNCHANGED send
  /\ writer' = [writer EXCEPT ![c] = "done"]
  /\ conn' = [conn EXCEPT ![c] = "down"]
  /\ UNCHANGED <<hubVars, rooms, reader, asked, op, queue, closed, ended, panicked>>

\* The peer goes away.
ConnBreaks(c) ==
  /\ ~panicked /\ reader[c] # "new" /\ conn[c] = "up"
  /\ conn' = [conn EXCEPT ![c] = "down"]
  /\ UNCHANGED <<hubVars, rooms, reader, writer, asked, op, queue, send, closed,
                 ended, panicked>>
-----------------------------------------------------------------------------
(* What the application calls.                                             *)

\* Client.Close
Close(c) ==
  /\ ~panicked /\ c \in Closers \ ended /\ reader[c] # "new"
  /\ Hand("unregister", c, NoRoom)
  /\ ended' = ended \cup {c}
  /\ UNCHANGED <<hubVars, cliVars, queue, send, closed, panicked>>

\* Broadcast, BroadcastToRoom and BroadcastToUser.
Broadcast(m) ==
  /\ ~panicked
  /\ Len(queue) < QueueSize
  /\ queue' = Append(queue, m)
  /\ UNCHANGED <<hubVars, cliVars, op, send, closed, ended, panicked>>

SendHeartbeat == Broadcast([room |-> NoRoom, user |-> 0])

GetOnlineUsers == {u \in User \ {0} : userClients[u] # {}}

\* What /ws/status answers.
handleStatus ==
  [activeConnections |-> active, activeRooms |-> totalRooms,
   onlineUsers |-> Cardinality(GetOnlineUsers)]
-----------------------------------------------------------------------------
Run == \/ registerClient \/ unregisterClient
       \/ handleJoinRoom \/ handleLeaveRoom \/ handleBroadcast

ReadPump(c) ==
  \/ ReadPing(c) \/ Reply(c) \/ ReadFails(c) \/ ReadEnds(c)
  \/ \E r \in Room : ReadSubscribe(c, r) \/ ReadUnsubscribe(c, r)
  \/ \E r \in Room \cup {NoRoom} : ReadMessage(c, r)

WritePump(c) == Write(c) \/ WriteEnds(c)

HubNext ==
  \/ Run
  \/ \E c \in Client :
       \/ handleWebSocket(c) \/ Welcome(c) \/ ReadPump(c) \/ WritePump(c)
       \/ ConnBreaks(c) \/ Close(c)
  \/ SendHeartbeat
  \/ \E m \in Message : Broadcast(m)

\* The hub's loop and the pumps keep running; a pump that waits to unregister
\* is met in the end, since a Go channel serves its senders in order.
HubFairness ==
  /\ WF_vars(Run)
  /\ \A c \in Client :
       /\ WF_vars(Welcome(c)) /\ WF_vars(Reply(c)) /\ WF_vars(ReadFails(c))
       /\ SF_vars(ReadEnds(c))
       /\ WF_vars(WritePump(c))

HubSpec == HubInit /\ [][HubNext]_vars /\ HubFairness
-----------------------------------------------------------------------------
(* Properties.                                                             *)

\* The hub's three maps agree: the clients listed for a user are that user's
\* registered ones, and a client in a room is registered unless Close was
\* called for it; /ws/status counts the registered clients and their users,
\* and its rooms, whose number a disconnection does not lower, are never too
\* few.
RoutesConsistent ==
  /\ \A u \in User \ {0} : userClients[u] = {c \in clients : UserOf[c] = u}
  /\ \A r \in Room : roomClients[r] \subseteq clients \cup ended
  /\ handleStatus.activeConnections = Cardinality(clients)
  /\ handleStatus.onlineUsers = Cardinality({UserOf[c] : c \in clients} \ {0})
  /\ handleStatus.activeRooms >= Cardinality(Occupied(roomClients))

\* Between two rounds of the hub a registered client is in exactly the rooms it
\* asked for, however its requests interleave with those of the others, and
\* client.Rooms says so: a message it sends to a room it subscribed to comes
\* back to it.
MembershipAgrees ==
  op = NoOp =>
    \A c \in clients :
      /\ rooms[c] = asked[c]
      /\ \A r \in Room : c \in roomClients[r] <=> r \in asked[c]

\* A connection that comes and goes never brings the process down: only the
\* Close of a client whose pumps are still running leads to a send on a closed
\* channel.
OnlyCloseBreaks ==
  /\ panicked => ended # {}
  /\ \A c \in closed \ ended : reader[c] = "done" /\ \A r \in Room : c \notin roomClients[r]

\* The one way to lose a client's registration for good: the write pump has
\* ended, the buffer is full and the read pump blocks on it.
Stuck(c) == reader[c] = "reply" /\ writer[c] = "done" /\ send[c] = SendSize

\* A client whose connection is lost is unregistered in the end, unless it is
\* stuck.
GoneUnregistered ==
  \A c \in Client :
    conn[c] = "down" ~> (c \notin clients \/ Stuck(c) \/ panicked)
=============================================================================
