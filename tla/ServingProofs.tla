---------------------------- MODULE ServingProofs ----------------------------
(***************************************************************************)
(* What the hub and the ssr run check on two clients and two requests, for *)
(* any number of clients, users, rooms and requests: the hub's maps agree  *)
(* and only Close leads to a send on a closed channel; a cached render is  *)
(* current, and the render statistics add up.                              *)
(***************************************************************************)
EXTENDS Hub, SSR, TLAPS

-----------------------------------------------------------------------------
(* The hub.                                                                *)

Readers == {"new", "welcome", "read", "reply", "leave", "done"}
Request ==
  [kind : {"register", "unregister"}, client : Client, room : {NoRoom}]
    \cup [kind : {"join", "leave"}, client : Client, room : Room]

HubTyped ==
  /\ clients \subseteq Client /\ closed \subseteq Client /\ ended \subseteq Client
  /\ userClients \in [User -> SUBSET Client] /\ roomClients \in [Room -> SUBSET Client]
  /\ op \in Request \cup {NoOp} /\ queue \in Seq(Message)
  /\ rooms \in [Client -> SUBSET Room] /\ asked \in [Client -> SUBSET Room]
  /\ reader \in [Client -> Readers]

\* The hub has a request of kind k by client c in its hands.
Holds(k, c) == op # NoOp /\ op.kind = k /\ op.client = c

\* The hub has not registered c yet.
Fresh(c) == reader[c] = "new" \/ Holds("register", c)

InNoRoom(c) == \A r \in Room : c \notin roomClients[r]

\* The rooms c will be in when the hub has handled the request it holds.
Coming(c) ==
  IF Holds("join", c) THEN rooms[c] \cup {op.room}
  ELSE IF Holds("leave", c) THEN rooms[c] \ {op.room}
  ELSE rooms[c]

\* Where a client is between its pumps and the hub's maps.  A client is
\* registered once; it is unregistered when its read pump is done, unless
\* Close was called.
ClientOK(c) ==
  /\ IF Fresh(c)
       THEN /\ c \notin clients \cup ended \cup closed
            /\ rooms[c] = {} /\ asked[c] = {} /\ InNoRoom(c)
       ELSE c \in clients \cup ended \cup closed
  /\ Holds("register", c) => reader[c] \in {"welcome", "read", "reply", "leave"}
  /\ Holds("unregister", c) => c \in ended \/ reader[c] = "done"
  /\ Holds("join", c) \/ Holds("leave", c) => reader[c] \in {"read", "reply", "leave"}
  /\ c \in closed => c \notin clients
  /\ c \in closed \ ended => reader[c] = "done" /\ InNoRoom(c)
  /\ c \in clients \cup ended \/ InNoRoom(c)
  /\ c \in clients =>
       /\ asked[c] = Coming(c)
       /\ \A r \in Room : c \in roomClients[r] <=> r \in rooms[c]

Listed == \A u \in User \ {0} : userClients[u] = {c \in clients : UserOf[c] = u}

Counted ==
  /\ IsFiniteSet(clients) /\ active = Cardinality(clients)
  /\ IsFiniteSet(Occupied(roomClients)) /\ totalRooms \in Nat
  /\ totalRooms >= Cardinality(Occupied(roomClients))

\* The inductive invariant of the hub.
HubInv ==
  /\ HubTyped /\ Listed /\ Counted
  /\ \A c \in Client : ClientOK(c)
  /\ panicked => ended # {}

\* The requests are not NoOp.
LEMMA RequestTyped ==
  ASSUME NEW x \in Request
  PROVE  x # NoOp /\ x.client \in Client
<1>1. x \in [kind : {"register", "unregister", "join", "leave"},
             client : Client, room : Room \cup {NoRoom}]
  BY DEF Request
<1>2. QED BY <1>1, HubAssumption

\* A client whose own affairs do not change.
LEMMA ClientKept ==
  ASSUME NEW c \in Client, ClientOK(c),
         UNCHANGED op \/ \A k : ~Holds(k, c) /\ ~Holds(k, c)',
         c \in clients' <=> c \in clients, c \in ended' <=> c \in ended,
         c \in closed' <=> c \in closed,
         rooms'[c] = rooms[c], asked'[c] = asked[c], reader'[c] = reader[c],
         \A r \in Room : c \in roomClients'[r] <=> c \in roomClients[r]
  PROVE  ClientOK(c)'
<1>1. (Fresh(c)' <=> Fresh(c)) /\ (InNoRoom(c)' <=> InNoRoom(c)) /\ Coming(c)' = Coming(c)
  BY Zenon DEF Fresh, InNoRoom, Coming, Holds
<1>2. \A k : Holds(k, c)' <=> Holds(k, c)
  BY Zenon DEF Holds
<1>3. QED BY Zenon, <1>1, <1>2 DEF ClientOK

\* Steps that leave the hub's maps, the requests and the read pumps alone.
LEMMA HubQuiet ==
  ASSUME HubInv,
         UNCHANGED <<hubVars, op, closed, ended, rooms, asked, reader>>,
         queue' \in Seq(Message), panicked' => ended # {}
  PROVE  HubInv'
<1>1. UNCHANGED <<clients, userClients, roomClients, totalRooms, active>>
  BY Zenon DEF hubVars
<1>2. HubTyped' /\ Listed' /\ Counted'
  BY Zenon, <1>1 DEF HubInv, HubTyped, Listed, Counted, Occupied
<1>3. \A c \in Client : ClientOK(c)'
  BY Zenon, <1>1, ClientKept DEF HubInv
<1>4. QED BY Zenon, <1>2, <1>3 DEF HubInv

\* A read pump goes on without the hub.
LEMMA ReaderMoves ==
  ASSUME HubInv, NEW c \in Client, NEW l \in {"read", "reply", "leave"},
         reader[c] \in {"welcome", "read", "reply"}, reader' = [reader EXCEPT ![c] = l],
         UNCHANGED <<hubVars, op, closed, ended, rooms, asked>>,
         queue' \in Seq(Message), panicked' => ended # {}
  PROVE  HubInv'
<1>1. UNCHANGED <<clients, userClients, roomClients, totalRooms, active>>
  BY Zenon DEF hubVars
<1>2. /\ reader' \in [Client -> Readers] /\ reader'[c] = l
      /\ \A d \in Client \ {c} : reader'[d] = reader[d]
  BY Zenon DEF HubInv, HubTyped, Readers
<1>3. HubTyped' /\ Listed' /\ Counted'
  BY Zenon, <1>1, <1>2 DEF HubInv, HubTyped, Listed, Counted, Occupied
<1>4. ASSUME NEW d \in Client \ {c} PROVE ClientOK(d)'
  BY Zenon, <1>1, <1>2, ClientKept DEF HubInv
<1>5. ClientOK(c)'
  <2>1. ClientOK(c)
    BY Zenon DEF HubInv
  <2>2. /\ InNoRoom(c)' <=> InNoRoom(c)
        /\ \A k : Holds(k, c)' <=> Holds(k, c)
        /\ Coming(c)' = Coming(c)
    BY Zenon, <1>1 DEF InNoRoom, Holds, Coming
  <2>3. reader[c] # "new" /\ reader[c] # "done" /\ l # "new"
    BY Zenon
  <2>4. Fresh(c)' <=> Fresh(c)
    BY Zenon, <1>2, <2>2, <2>3 DEF Fresh
  <2>5. QED BY Zenon, <1>1, <1>2, <2>1, <2>2, <2>3, <2>4 DEF ClientOK
<1>6. QED BY Zenon, <1>3, <1>4, <1>5 DEF HubInv

\* A client hands the hub a request; the maps stay as they are.
LEMMA Handed ==
  ASSUME HubInv, NEW c \in Client, NEW k, NEW r, Hand(k, c, r),
         [kind |-> k, client |-> c, room |-> r] \in Request,
         UNCHANGED <<hubVars, closed, rooms, queue, panicked>>,
         reader' \in [Client -> Readers], asked' \in [Client -> SUBSET Room],
         ended' \in SUBSET Client, ended \subseteq ended', ended' \subseteq ended \cup {c},
         \A d \in Client \ {c} : reader'[d] = reader[d] /\ asked'[d] = asked[d],
         ClientOK(c)'
  PROVE  HubInv'
<1>1. UNCHANGED <<clients, userClients, roomClients, totalRooms, active>>
  BY Zenon DEF hubVars
<1>2. op = NoOp /\ op' = [kind |-> k, client |-> c, room |-> r] /\ op' \in Request
  BY Zenon DEF Hand
<1>3. HubTyped' /\ Listed' /\ Counted'
  BY Zenon, <1>1, <1>2 DEF HubInv, HubTyped, Listed, Counted, Occupied
<1>4. ASSUME NEW d \in Client \ {c} PROVE ClientOK(d)'
  <2>1. op'.client = c
    BY <1>2
  <2>2. \A m : ~Holds(m, d) /\ ~Holds(m, d)'
    BY Zenon, <1>2, <2>1 DEF Holds
  <2>3. d \in ended' <=> d \in ended
    BY Zenon
  <2>4. QED BY Zenon, <1>1, <2>2, <2>3, ClientKept DEF HubInv
<1>5. panicked' => ended' # {}
  BY Zenon DEF HubInv
<1>6. QED BY Zenon, <1>3, <1>4, <1>5 DEF HubInv

\* What the client's own requests look like to it.
LEMMA HandedOwn ==
  ASSUME NEW c \in Client, NEW k, NEW r, Hand(k, c, r),
         [kind |-> k, client |-> c, room |-> r] \in Request
  PROVE  /\ op = NoOp /\ op' # NoOp
         /\ op'.kind = k /\ op'.client = c /\ op'.room = r
         /\ Coming(c) = rooms[c]
<1>1. op = NoOp /\ op' = [kind |-> k, client |-> c, room |-> r]
  BY Zenon DEF Hand
<1>2. op' # NoOp /\ op'.kind = k /\ op'.client = c /\ op'.room = r
  BY <1>1, RequestTyped
<1>3. QED BY Zenon, <1>1, <1>2 DEF Coming, Holds

\* handleWebSocket: the client registers.
LEMMA RegisterHands ==
  ASSUME HubInv, NEW c \in Client, handleWebSocket(c)
  PROVE  HubInv'
<1>1. /\ reader[c] = "new" /\ Hand("register", c, NoRoom)
      /\ reader' = [reader EXCEPT ![c] = "welcome"]
      /\ UNCHANGED <<hubVars, rooms, asked, queue, closed, ended, panicked>>
  BY Zenon DEF handleWebSocket
<1>2. [kind |-> "register", client |-> c, room |-> NoRoom] \in Request
  BY DEF Request
<1>3. /\ reader' \in [Client -> Readers] /\ reader'[c] = "welcome"
      /\ \A d \in Client \ {c} : reader'[d] = reader[d]
  BY Zenon, <1>1 DEF HubInv, HubTyped, Readers
<1>4. op = NoOp /\ op' # NoOp /\ op'.kind = "register" /\ op'.client = c
  BY Zenon, <1>1, <1>2, HandedOwn
<1>5. ClientOK(c)'
  <2>1. ClientOK(c) /\ Fresh(c) /\ Fresh(c)'
    BY Zenon, <1>1, <1>4 DEF HubInv, Fresh, Holds
  <2>2. c \notin clients' \cup ended' \cup closed' /\ rooms'[c] = {} /\ asked'[c] = {}
    BY Zenon, <1>1, <2>1 DEF ClientOK, hubVars
  <2>3. InNoRoom(c)'
    BY Zenon, <1>1, <2>1 DEF ClientOK, InNoRoom, hubVars
  <2>4. /\ Holds("register", c)' => reader'[c] = "welcome"
        /\ ~Holds("unregister", c)' /\ ~Holds("join", c)' /\ ~Holds("leave", c)'
    BY Zenon, <1>3, <1>4 DEF Holds
  <2>5. QED BY Zenon, <2>1, <2>2, <2>3, <2>4 DEF ClientOK
<1>6. QED BY Zenon, <1>1, <1>2, <1>3, <1>5, Handed DEF HubInv, HubTyped

\* A client asks to join a room, or to leave it.
LEMMA RoomHands ==
  ASSUME HubInv, NEW c \in Client, NEW r \in Room,
         ReadSubscribe(c, r) \/ ReadUnsubscribe(c, r)
  PROVE  HubInv'
<1>1. PICK k \in {"join", "leave"} :
        /\ reader[c] = "read" /\ Hand(k, c, r)
        /\ reader' = [reader EXCEPT ![c] = "reply"]
        /\ asked' = [asked EXCEPT ![c] = IF k = "join" THEN asked[c] \cup {r}
                                         ELSE asked[c] \ {r}]
        /\ UNCHANGED <<hubVars, rooms, queue, closed, ended, panicked>>
  <2>1. CASE ReadSubscribe(c, r)
    BY Zenon, <2>1 DEF ReadSubscribe, Reads
  <2>2. CASE ReadUnsubscribe(c, r)
    BY Zenon, <2>2 DEF ReadUnsubscribe, Reads
  <2>3. QED BY Zenon, <2>1, <2>2
<1>2. [kind |-> k, client |-> c, room |-> r] \in Request
  BY DEF Request
<1>3. /\ reader' \in [Client -> Readers] /\ reader'[c] = "reply"
      /\ asked' \in [Client -> SUBSET Room]
      /\ asked'[c] = IF k = "join" THEN asked[c] \cup {r} ELSE asked[c] \ {r}
      /\ \A d \in Client \ {c} : reader'[d] = reader[d] /\ asked'[d] = asked[d]
  BY Zenon, <1>1 DEF HubInv, HubTyped, Readers
<1>4. /\ op = NoOp /\ op' # NoOp /\ op'.kind = k /\ op'.client = c /\ op'.room = r
      /\ Coming(c) = rooms[c]
  BY Zenon, <1>1, <1>2, HandedOwn
<1>5. ClientOK(c)'
  <2>1. ClientOK(c)
    BY Zenon DEF HubInv
  <2>2. ~Fresh(c) /\ ~Fresh(c)' /\ ~Holds("register", c)' /\ ~Holds("unregister", c)'
    BY Zenon, <1>1, <1>3, <1>4 DEF Fresh, Holds
  <2>3. UNCHANGED <<clients, roomClients, ended, closed, rooms>>
    BY Zenon, <1>1 DEF hubVars
  <2>4. InNoRoom(c)' <=> InNoRoom(c)
    BY Zenon, <2>3 DEF InNoRoom
  <2>5. c \in clients => asked'[c] = Coming(c)'
    <3>1. c \in clients => asked[c] = rooms[c]
      BY Zenon, <1>4, <2>1 DEF ClientOK
    <3>2. QED BY Zenon, <1>3, <1>4, <2>3, <3>1 DEF Coming, Holds
  <2>6. c \notin closed \ ended
    BY Zenon, <1>1, <2>1 DEF ClientOK
  <2>7. QED BY Zenon, <1>3, <2>1, <2>2, <2>3, <2>4, <2>5, <2>6 DEF ClientOK
<1>6. QED BY Zenon, <1>1, <1>2, <1>3, <1>5, Handed DEF HubInv, HubTyped

\* The end of a read pump, or Close.
LEMMA UnregisterHands ==
  ASSUME HubInv, NEW c \in Client, ReadEnds(c) \/ Close(c)
  PROVE  HubInv'
<1>1. /\ Hand("unregister", c, NoRoom) /\ reader[c] # "new"
      /\ UNCHANGED <<hubVars, rooms, asked, queue, closed, panicked>>
      /\ \/ reader' = [reader EXCEPT ![c] = "done"] /\ UNCHANGED ended
         \/ UNCHANGED reader /\ ended' = ended \cup {c}
  BY Zenon DEF ReadEnds, Close, cliVars
<1>2. [kind |-> "unregister", client |-> c, room |-> NoRoom] \in Request
  BY DEF Request
<1>3. /\ reader' \in [Client -> Readers] /\ reader'[c] # "new"
      /\ ended' \in SUBSET Client /\ ended \subseteq ended' /\ ended' \subseteq ended \cup {c}
      /\ reader'[c] = "done" \/ c \in ended'
      /\ reader[c] = "done" => reader'[c] = "done"
      /\ \A d \in Client \ {c} : reader'[d] = reader[d]
  BY Zenon, <1>1 DEF HubInv, HubTyped, Readers
<1>4. /\ op = NoOp /\ op' # NoOp /\ op'.kind = "unregister" /\ op'.client = c
      /\ Coming(c) = rooms[c]
  BY Zenon, <1>1, <1>2, HandedOwn
<1>5. ClientOK(c)'
  <2>1. ClientOK(c)
    BY Zenon DEF HubInv
  <2>2. /\ ~Fresh(c) /\ ~Fresh(c)'
        /\ ~Holds("register", c)' /\ ~Holds("join", c)' /\ ~Holds("leave", c)'
    BY Zenon, <1>1, <1>3, <1>4 DEF Fresh, Holds
  <2>3. UNCHANGED <<clients, roomClients, closed, rooms, asked>>
    BY Zenon, <1>1 DEF hubVars
  <2>4. (InNoRoom(c)' <=> InNoRoom(c)) /\ Coming(c)' = rooms'[c]
    BY Zenon, <2>2, <2>3 DEF InNoRoom, Coming
  <2>5. QED BY Zenon, <1>3, <1>4, <2>1, <2>2, <2>3, <2>4 DEF ClientOK
<1>6. QED BY Zenon, <1>1, <1>2, <1>3, <1>5, Handed DEF HubInv, HubTyped

INSTANCE FiniteSetTheorems

\* The hub handles the request of client c.
LEMMA Handled ==
  ASSUME HubInv, op # NoOp, op' = NoOp, NEW c \in Client, c = op.client,
         HubTyped', Listed', Counted', UNCHANGED <<ended, panicked, reader, asked>>,
         \A d \in Client \ {c} :
           /\ d \in clients' <=> d \in clients
           /\ d \in closed' <=> d \in closed
           /\ rooms'[d] = rooms[d]
           /\ \A r \in Room : d \in roomClients'[r] <=> d \in roomClients[r],
         ClientOK(c)'
  PROVE  HubInv'
<1>1. ASSUME NEW d \in Client \ {c} PROVE ClientOK(d)'
  <2>1. \A m : ~Holds(m, d) /\ ~Holds(m, d)'
    BY Zenon DEF Holds
  <2>2. QED BY Zenon, <2>1, ClientKept DEF HubInv
<1>2. QED BY Zenon, <1>1 DEF HubInv

\* The request in the hub's hands, and its client.
LEMMA InHand ==
  ASSUME HubInv, NEW k, Handles(k)
  PROVE  /\ op # NoOp /\ op' = NoOp /\ op.kind = k /\ op.client \in Client
         /\ ClientOK(op.client) /\ Holds(k, op.client) /\ ~panicked
         /\ k \in {"join", "leave"} => op.room \in Room
<1>1. op # NoOp /\ op' = NoOp /\ op.kind = k /\ op \in Request /\ ~panicked
  BY Zenon DEF Handles, HubInv, HubTyped
<1>2. op.client \in Client /\ (k \in {"join", "leave"} => op.room \in Room)
  BY <1>1 DEF Request
<1>3. QED BY Zenon, <1>1, <1>2 DEF Holds, HubInv

\* registerClient
LEMMA RegisterHandled ==
  ASSUME HubInv, registerClient
  PROVE  HubInv'
<1>0. PICK c \in Client : c = op.client
  BY Zenon, InHand DEF registerClient
<1>1. /\ clients' = clients \cup {c}
      /\ userClients' = IF UserOf[c] > 0
                        THEN [userClients EXCEPT ![UserOf[c]] = userClients[UserOf[c]] \cup {c}]
                        ELSE userClients
      /\ active' = active + 1
      /\ UNCHANGED <<roomClients, totalRooms, rooms, reader, asked, queue, closed, ended,
                     panicked>>
  BY Zenon, <1>0 DEF registerClient, cliVars
<1>2. /\ op # NoOp /\ op' = NoOp /\ op.kind = "register" /\ c \in Client
      /\ ClientOK(c) /\ Holds("register", c)
  BY Zenon, <1>0, InHand DEF registerClient
<1>3. /\ c \notin clients \cup ended \cup closed /\ rooms[c] = {} /\ asked[c] = {}
      /\ InNoRoom(c) /\ reader[c] # "new"
  BY Zenon, <1>2 DEF ClientOK, Fresh
<1>4. HubTyped'
  <2>1. userClients' \in [User -> SUBSET Client]
    BY Zenon, <1>1, <1>2 DEF HubInv, HubTyped
  <2>2. QED BY Zenon, <1>1, <1>2, <2>1 DEF HubInv, HubTyped
<1>5. Listed'
  <2> SUFFICES ASSUME NEW u \in User \ {0}
               PROVE  userClients'[u] = {d \in clients' : UserOf[d] = u}
    BY Zenon DEF Listed
  <2>1. userClients[u] = {d \in clients : UserOf[d] = u}
    BY Zenon DEF HubInv, Listed
  <2>2. CASE u = UserOf[c]
    <3>1. UserOf[c] > 0
      BY <1>2, <2>2, HubAssumption
    <3>2. userClients'[u] = userClients[u] \cup {c}
      BY Zenon, <1>1, <2>2, <3>1 DEF HubInv, HubTyped
    <3>3. QED BY Zenon, <1>1, <2>1, <2>2, <3>2
  <2>3. CASE u # UserOf[c]
    <3>1. userClients'[u] = userClients[u]
      BY Zenon, <1>1, <2>3 DEF HubInv, HubTyped
    <3>2. QED BY Zenon, <1>1, <2>1, <2>3, <3>1
  <2>4. QED BY Zenon, <2>2, <2>3
<1>6. Counted'
  <2>1. IsFiniteSet(clients') /\ Cardinality(clients') = Cardinality(clients) + 1
    BY Zenon, <1>1, <1>3, FS_AddElement DEF HubInv, Counted
  <2>2. QED BY Zenon, <1>1, <2>1 DEF HubInv, Counted, Occupied
<1>7. ClientOK(c)'
  <2>1. ~Fresh(c)' /\ Coming(c)' = rooms[c] /\ \A m : ~Holds(m, c)'
    BY Zenon, <1>1, <1>2, <1>3 DEF Fresh, Holds, Coming
  <2>2. QED BY Zenon, <1>1, <1>3, <2>1 DEF ClientOK, InNoRoom
<1>8. QED BY Zenon, <1>1, <1>2, <1>4, <1>5, <1>6, <1>7, <1>0, Handled

\* unregisterClient
LEMMA UnregisterHandled ==
  ASSUME HubInv, unregisterClient
  PROVE  HubInv'
<1>0. PICK c \in Client : c = op.client
  BY Zenon, InHand DEF unregisterClient
<1>1. /\ IF c \in clients
           THEN /\ clients' = clients \ {c}
                /\ closed' = closed \cup {c}
                /\ userClients' = [userClients EXCEPT ![UserOf[c]] = userClients[UserOf[c]] \ {c}]
                /\ roomClients' = [r \in Room |-> roomClients[r] \ {c}]
                /\ active' = active - 1
           ELSE UNCHANGED <<clients, userClients, roomClients, active, closed>>
      /\ UNCHANGED <<totalRooms, rooms, reader, asked, queue, ended, panicked>>
  BY Zenon, <1>0 DEF unregisterClient, cliVars
<1>2. /\ op # NoOp /\ op' = NoOp /\ op.kind = "unregister" /\ c \in Client
      /\ ClientOK(c) /\ Holds("unregister", c)
  BY Zenon, <1>0, InHand DEF unregisterClient
<1>3. c \in ended \/ reader[c] = "done"
  BY Zenon, <1>2 DEF ClientOK
<1>4. ~Fresh(c) /\ ~Fresh(c)' /\ Coming(c) = rooms[c] /\ Coming(c)' = rooms[c]
      /\ \A m : ~Holds(m, c)'
  <2>1. reader[c] # "new"
    BY Zenon, <1>2, <1>3 DEF ClientOK, Fresh
  <2>2. QED BY Zenon, <1>1, <1>2, <2>1 DEF Fresh, Holds, Coming
<1>5. CASE c \in clients
  <2>1. HubTyped'
    <3>1. userClients' \in [User -> SUBSET Client]
      BY <1>1, <1>5 DEF HubInv, HubTyped
    <3>2. roomClients' \in [Room -> SUBSET Client]
      BY <1>1, <1>5 DEF HubInv, HubTyped
    <3>3. QED BY Zenon, <1>1, <1>2, <1>5, <3>1, <3>2 DEF HubInv, HubTyped
  <2>2. Listed'
    <3> SUFFICES ASSUME NEW u \in User \ {0}
                 PROVE  userClients'[u] = {d \in clients' : UserOf[d] = u}
      BY Zenon DEF Listed
    <3>1. userClients[u] = {d \in clients : UserOf[d] = u}
      BY Zenon DEF HubInv, Listed
    <3>2. CASE u = UserOf[c]
      <4>1. userClients'[u] = userClients[u] \ {c}
        BY Zenon, <1>1, <1>5, <3>2 DEF HubInv, HubTyped
      <4>2. QED BY Zenon, <1>1, <1>5, <3>1, <4>1
    <3>3. CASE u # UserOf[c]
      <4>1. userClients'[u] = userClients[u]
        BY Zenon, <1>1, <1>5, <3>3 DEF HubInv, HubTyped
      <4>2. QED BY Zenon, <1>1, <1>5, <3>1, <3>3, <4>1
    <3>4. QED BY Zenon, <3>2, <3>3
  <2>3. Counted'
    <3>1. IsFiniteSet(clients') /\ Cardinality(clients') = Cardinality(clients) - 1
      BY Zenon, <1>1, <1>5, FS_RemoveElement DEF HubInv, Counted
    <3>2. Occupied(roomClients') \in SUBSET Occupied(roomClients)
      BY Zenon, <1>1, <1>5 DEF Occupied
    <3>3. /\ IsFiniteSet(Occupied(roomClients'))
          /\ Cardinality(Occupied(roomClients')) <= Cardinality(Occupied(roomClients))
          /\ Cardinality(Occupied(roomClients')) \in Nat
          /\ Cardinality(Occupied(roomClients)) \in Nat
      BY Zenon, <3>2, FS_Subset, FS_CardinalityType DEF HubInv, Counted
    <3>4. totalRooms' >= Cardinality(Occupied(roomClients')) /\ totalRooms' \in Nat
      BY <1>1, <3>3 DEF HubInv, Counted
    <3>5. QED BY Zenon, <1>1, <1>5, <3>1, <3>3, <3>4 DEF HubInv, Counted
  <2>4. ClientOK(c)'
    <3>1. InNoRoom(c)' /\ c \notin clients' /\ c \in closed' /\ UNCHANGED <<ended, reader>>
      BY Zenon, <1>1, <1>5 DEF InNoRoom
    <3>2. QED BY Zenon, <1>3, <1>4, <3>1 DEF ClientOK
  <2>5. \A d \in Client \ {c} :
          /\ d \in clients' <=> d \in clients
          /\ d \in closed' <=> d \in closed
          /\ rooms'[d] = rooms[d]
          /\ \A r \in Room : d \in roomClients'[r] <=> d \in roomClients[r]
    BY Zenon, <1>1, <1>5
  <2>6. QED BY Zenon, <1>1, <1>2, <2>1, <2>2, <2>3, <2>4, <2>5, <1>0, Handled
<1>6. CASE c \notin clients
  <2>1. UNCHANGED <<clients, userClients, roomClients, active, closed>>
    BY Zenon, <1>1, <1>6
  <2>2. HubTyped' /\ Listed' /\ Counted'
    BY Zenon, <1>1, <1>2, <2>1 DEF HubInv, HubTyped, Listed, Counted, Occupied
  <2>3. ClientOK(c)'
    BY Zenon, <1>1, <1>2, <1>4, <1>6, <2>1 DEF ClientOK, InNoRoom
  <2>4. QED BY Zenon, <1>1, <1>2, <2>1, <2>2, <2>3, <1>0, Handled
<1>7. QED BY Zenon, <1>5, <1>6

\* A room keeps its place in the count when no room but r gains a client.
LEMMA RoomsCounted ==
  ASSUME HubInv, NEW r \in Room, totalRooms' = Cardinality(Occupied(roomClients')),
         Occupied(roomClients') \subseteq Occupied(roomClients) \cup {r},
         UNCHANGED <<clients, active>>
  PROVE  Counted'
<1>1. IsFiniteSet(Occupied(roomClients) \cup {r})
  BY Zenon, FS_AddElement DEF HubInv, Counted
<1>2. IsFiniteSet(Occupied(roomClients')) /\ totalRooms' \in Nat
  BY Zenon, <1>1, FS_Subset, FS_CardinalityType
<1>3. totalRooms' >= Cardinality(Occupied(roomClients'))
  BY <1>2
<1>4. QED BY Zenon, <1>2, <1>3 DEF HubInv, Counted

\* handleJoinRoom and handleLeaveRoom: s are the client's rooms afterwards.
LEMMA RoomHandled ==
  ASSUME HubInv, NEW k \in {"join", "leave"}, Handles(k), NEW c \in Client, c = op.client,
         NEW r \in Room, r = op.room, NEW s \in SUBSET Room, s = Coming(c),
         NEW m \in SUBSET Client, roomClients' = [roomClients EXCEPT ![r] = m],
         m \ {c} = roomClients[r] \ {c}, c \in m <=> r \in s,
         s \ {r} = rooms[c] \ {r},
         rooms' = [rooms EXCEPT ![c] = s],
         totalRooms' = Cardinality(Occupied(roomClients')),
         UNCHANGED <<clients, userClients, active, reader, asked, queue, closed, ended, panicked>>
  PROVE  HubInv'
<1>1. op # NoOp /\ op' = NoOp /\ ClientOK(c) /\ Holds(k, c) /\ \A x : ~Holds(x, c)'
  <2>1. op # NoOp /\ op' = NoOp /\ ClientOK(c) /\ Holds(k, c)
    BY Zenon, InHand
  <2>2. QED BY Zenon, <2>1 DEF Holds
<1>2. roomClients'[r] = m /\ \A q \in Room \ {r} : roomClients'[q] = roomClients[q]
  BY Zenon DEF HubInv, HubTyped
<1>3. rooms'[c] = s /\ \A d \in Client \ {c} : rooms'[d] = rooms[d]
  BY Zenon DEF HubInv, HubTyped
<1>4. HubTyped'
  BY Zenon, <1>1 DEF HubInv, HubTyped
<1>5. Listed'
  BY Zenon DEF HubInv, Listed
<1>6. Counted'
  <2>1. Occupied(roomClients') \subseteq Occupied(roomClients) \cup {r}
    BY Zenon, <1>2 DEF Occupied
  <2>2. QED BY Zenon, <2>1, RoomsCounted
<1>7. reader[c] \in {"read", "reply", "leave"}
  BY Zenon, <1>1 DEF ClientOK
<1>8. ~Fresh(c) /\ ~Fresh(c)' /\ Coming(c)' = s
  BY Zenon, <1>1, <1>3, <1>7 DEF Fresh, Holds, Coming
<1>9. c \in clients \cup ended
  BY Zenon, <1>1, <1>7, <1>8 DEF ClientOK
<1>10. ClientOK(c)'
  <2>1. c \in clients => \A q \in Room : c \in roomClients'[q] <=> q \in rooms'[c]
    BY Zenon, <1>1, <1>2, <1>3 DEF ClientOK
  <2>2. c \in closed => c \notin clients /\ c \in ended
    BY Zenon, <1>1, <1>7 DEF ClientOK
  <2>3. QED BY Zenon, <1>1, <1>8, <1>9, <2>1, <2>2 DEF ClientOK
<1>11. \A d \in Client \ {c}, q \in Room : d \in roomClients'[q] <=> d \in roomClients[q]
  BY Zenon, <1>2
<1>12. QED BY Zenon, <1>1, <1>3, <1>4, <1>5, <1>6, <1>10, <1>11, Handled

\* handleJoinRoom
LEMMA JoinHandled ==
  ASSUME HubInv, handleJoinRoom
  PROVE  HubInv'
<1>1. PICK c \in Client, r \in Room : c = op.client /\ r = op.room
  BY Zenon, InHand DEF handleJoinRoom
<1>2. /\ Handles("join") /\ Holds("join", c)
      /\ roomClients' = [roomClients EXCEPT ![r] = roomClients[r] \cup {c}]
      /\ rooms' = [rooms EXCEPT ![c] = rooms[c] \cup {r}]
      /\ totalRooms' = Cardinality(Occupied(roomClients'))
      /\ UNCHANGED <<clients, userClients, active, reader, asked, queue, closed, ended,
                     panicked>>
  BY Zenon, <1>1, InHand DEF handleJoinRoom
<1>3. Coming(c) = rooms[c] \cup {r} /\ rooms[c] \subseteq Room /\ roomClients[r] \subseteq Client
  BY Zenon, <1>1, <1>2 DEF Coming, HubInv, HubTyped
<1>4. PICK s \in SUBSET Room, m \in SUBSET Client :
        s = rooms[c] \cup {r} /\ m = roomClients[r] \cup {c}
  BY Zenon, <1>3
<1>5. m \ {c} = roomClients[r] \ {c} /\ (c \in m <=> r \in s) /\ s \ {r} = rooms[c] \ {r}
  BY Zenon, <1>4
<1>6. QED BY Zenon, <1>1, <1>2, <1>3, <1>4, <1>5, RoomHandled

\* handleLeaveRoom
LEMMA LeaveHandled ==
  ASSUME HubInv, handleLeaveRoom
  PROVE  HubInv'
<1>1. PICK c \in Client, r \in Room : c = op.client /\ r = op.room
  BY Zenon, InHand DEF handleLeaveRoom
<1>2. /\ Handles("leave") /\ Holds("leave", c)
      /\ roomClients' = [roomClients EXCEPT ![r] = roomClients[r] \ {c}]
      /\ rooms' = [rooms EXCEPT ![c] = rooms[c] \ {r}]
      /\ totalRooms' = Cardinality(Occupied(roomClients'))
      /\ UNCHANGED <<clients, userClients, active, reader, asked, queue, closed, ended,
                     panicked>>
  BY Zenon, <1>1, InHand DEF handleLeaveRoom
<1>3. Coming(c) = rooms[c] \ {r} /\ rooms[c] \subseteq Room /\ roomClients[r] \subseteq Client
  BY <1>1, <1>2 DEF Coming, Holds, HubInv, HubTyped
<1>4. PICK s \in SUBSET Room, m \in SUBSET Client :
        s = rooms[c] \ {r} /\ m = roomClients[r] \ {c}
  BY Zenon, <1>3
<1>5. m \ {c} = roomClients[r] \ {c} /\ (c \in m <=> r \in s) /\ s \ {r} = rooms[c] \ {r}
  BY Zenon, <1>4
<1>6. QED BY Zenon, <1>1, <1>2, <1>3, <1>4, <1>5, RoomHandled

\* A message goes only to clients that are registered, or that Close was
\* called for.
LEMMA TargetsKnown ==
  ASSUME HubInv, NEW m \in Message
  PROVE  Targets(m) \subseteq Client /\ (Targets(m) \cap closed # {} => ended # {})
<1>1. m.room \in Room \cup {NoRoom} /\ m.user \in User \cup {0} /\ (m.user > 0 => m.user # 0)
  BY HubAssumption DEF Message, User
<1>2. \A c \in Client : c \in closed \ ended => c \notin clients /\ InNoRoom(c)
  BY Zenon DEF HubInv, ClientOK
<1>3. \A u \in User \ {0} : userClients[u] \subseteq clients
  BY Zenon DEF HubInv, Listed
<1>4. clients \subseteq Client /\ \A r \in Room : roomClients[r] \subseteq Client
  BY Zenon DEF HubInv, HubTyped
<1>5. CASE m.room # NoRoom
  BY Zenon, <1>1, <1>2, <1>4, <1>5 DEF Targets, InNoRoom
<1>6. CASE m.room = NoRoom /\ m.user > 0
  BY Zenon, <1>1, <1>2, <1>3, <1>4, <1>6 DEF Targets
<1>7. CASE m.room = NoRoom /\ ~(m.user > 0)
  BY Zenon, <1>2, <1>4, <1>7 DEF Targets
<1>8. QED BY Zenon, <1>5, <1>6, <1>7

\* handleBroadcast
LEMMA BroadcastHandled ==
  ASSUME HubInv, handleBroadcast
  PROVE  HubInv'
<1>1. /\ queue \in Seq(Message) /\ queue # <<>> /\ queue' = Tail(queue)
      /\ UNCHANGED <<hubVars, cliVars, op, closed, ended>>
      /\ panicked' => panicked \/ Targets(Head(queue)) \cap closed # {}
  BY Zenon DEF handleBroadcast, HubInv, HubTyped
<1>2. Head(queue) \in Message /\ queue' \in Seq(Message)
  BY <1>1
<1>3. panicked' => ended # {}
  BY Zenon, <1>1, <1>2, TargetsKnown DEF HubInv
<1>4. QED BY Zenon, <1>1, <1>2, <1>3, HubQuiet DEF cliVars

\* The steps of the pumps that ask nothing of the hub.
LEMMA PumpMoves ==
  ASSUME HubInv, NEW c \in Client,
         \/ Welcome(c) \/ ReadPing(c) \/ Reply(c) \/ ReadFails(c)
         \/ \E r \in Room \cup {NoRoom} : ReadMessage(c, r)
  PROVE  HubInv'
<1>1. queue \in Seq(Message) /\ (panicked => ended # {}) /\ ClientOK(c)
  BY Zenon DEF HubInv, HubTyped
<1>2. CASE Welcome(c) \/ Reply(c)
  <2>1. /\ reader[c] \in {"welcome", "reply"}
        /\ UNCHANGED <<hubVars, op, closed, ended, rooms, asked, queue>>
        /\ \/ c \in closed /\ UNCHANGED reader
           \/ reader' = [reader EXCEPT ![c] = "read"] /\ UNCHANGED panicked
    BY Zenon, <1>2 DEF Welcome, Reply
  <2>2. c \in closed => c \in ended
    BY Zenon, <1>1, <2>1 DEF ClientOK
  <2>3. CASE c \in closed /\ UNCHANGED reader
    BY Zenon, <1>1, <2>1, <2>2, <2>3, HubQuiet
  <2>4. CASE reader' = [reader EXCEPT ![c] = "read"] /\ UNCHANGED panicked
    BY Zenon, <1>1, <2>1, <2>4, ReaderMoves
  <2>5. QED BY Zenon, <2>1, <2>3, <2>4
<1>3. CASE ReadPing(c)
  <2>1. /\ reader[c] = "read" /\ reader' = [reader EXCEPT ![c] = "reply"]
        /\ UNCHANGED <<hubVars, op, closed, ended, rooms, asked, queue, panicked>>
    BY Zenon, <1>3 DEF ReadPing, Reads
  <2>2. QED BY Zenon, <1>1, <2>1, ReaderMoves
<1>4. CASE ReadFails(c)
  <2>1. /\ reader[c] = "read" /\ reader' = [reader EXCEPT ![c] = "leave"]
        /\ UNCHANGED <<hubVars, op, closed, ended, rooms, asked, queue, panicked>>
    BY Zenon, <1>4 DEF ReadFails
  <2>2. QED BY Zenon, <1>1, <2>1, ReaderMoves
<1>5. ASSUME NEW r \in Room \cup {NoRoom}, ReadMessage(c, r) PROVE HubInv'
  <2>1. /\ reader[c] = "read" /\ reader' = [reader EXCEPT ![c] = "read"]
        /\ UNCHANGED <<hubVars, op, closed, ended, rooms, asked, panicked>>
        /\ queue' = Append(queue, [room |-> r, user |-> UserOf[c]])
    BY Zenon, <1>5 DEF ReadMessage, Reads
  <2>2. [room |-> r, user |-> UserOf[c]] \in Message
    BY DEF Message, User
  <2>3. queue' \in Seq(Message)
    BY <1>1, <2>1, <2>2
  <2>4. QED BY Zenon, <1>1, <2>1, <2>3, ReaderMoves
<1>6. QED BY Zenon, <1>2, <1>3, <1>4, <1>5

\* The other steps outside the hub.
LEMMA OthersMove ==
  ASSUME HubInv,
         \/ \E c \in Client : WritePump(c) \/ ConnBreaks(c)
         \/ SendHeartbeat
         \/ \E m \in Message : Broadcast(m)
  PROVE  HubInv'
<1>1. queue \in Seq(Message) /\ (panicked => ended # {})
  BY Zenon DEF HubInv, HubTyped
<1>2. ASSUME NEW c \in Client, WritePump(c) \/ ConnBreaks(c) PROVE HubInv'
  <2>1. UNCHANGED <<hubVars, op, closed, ended, rooms, asked, reader, queue, panicked>>
    BY Zenon, <1>2 DEF WritePump, Write, WriteEnds, ConnBreaks, cliVars
  <2>2. QED BY Zenon, <1>1, <2>1, HubQuiet
<1>3. ASSUME NEW m \in Message, Broadcast(m) PROVE HubInv'
  <2>1. /\ UNCHANGED <<hubVars, op, closed, ended, rooms, asked, reader, panicked>>
        /\ queue' = Append(queue, m)
    BY Zenon, <1>3 DEF Broadcast, cliVars
  <2>2. queue' \in Seq(Message)
    BY <1>1, <2>1
  <2>3. QED BY Zenon, <1>1, <2>1, <2>2, HubQuiet
<1>4. [room |-> NoRoom, user |-> 0] \in Message
  BY DEF Message
<1>5. QED BY Zenon, <1>2, <1>3, <1>4 DEF SendHeartbeat

\* Every step of the hub and its clients keeps the invariant.
LEMMA HubStep ==
  ASSUME HubInv, [HubNext]_vars
  PROVE  HubInv'
<1>1. CASE Run
  BY Zenon, <1>1, RegisterHandled, UnregisterHandled, JoinHandled, LeaveHandled,
     BroadcastHandled DEF Run
<1>2. ASSUME NEW c \in Client, handleWebSocket(c) \/ Welcome(c) \/ ReadPump(c) \/ Close(c)
      PROVE  HubInv'
  BY Zenon, <1>2, RegisterHands, RoomHands, UnregisterHands, PumpMoves DEF ReadPump
<1>3. CASE UNCHANGED vars
  <2>1. UNCHANGED <<hubVars, op, closed, ended, rooms, asked, reader, queue, panicked>>
    BY Zenon, <1>3 DEF vars, cliVars
  <2>2. QED BY Zenon, <2>1, HubQuiet DEF HubInv, HubTyped
<1>4. QED BY Zenon, <1>1, <1>2, <1>3, OthersMove DEF HubNext

\* The hub starts with no client.
LEMMA HubStart ==
  ASSUME HubInit
  PROVE  HubInv
<1>1. HubTyped
  <2>1. <<>> \in Seq(Message)
    OBVIOUS
  <2>2. QED BY Zenon, <2>1 DEF HubInit, HubTyped, Readers
<1>2. Listed
  BY Zenon DEF HubInit, Listed
<1>3. Counted
  <2>1. Occupied(roomClients) = {} /\ clients = {} /\ active = 0 /\ totalRooms = 0
    BY Zenon DEF HubInit, Occupied
  <2>2. IsFiniteSet({}) /\ Cardinality({}) = 0
    BY Zenon, FS_EmptySet
  <2>3. QED BY <2>1, <2>2 DEF Counted
<1>4. ASSUME NEW c \in Client PROVE ClientOK(c)
  <2>1. /\ reader[c] = "new" /\ rooms[c] = {} /\ asked[c] = {} /\ op = NoOp
        /\ clients = {} /\ ended = {} /\ closed = {} /\ InNoRoom(c)
    BY Zenon DEF HubInit, InNoRoom
  <2>2. QED BY Zenon, <2>1 DEF ClientOK, Fresh, Holds
<1>5. QED BY Zenon, <1>1, <1>2, <1>3, <1>4 DEF HubInv, HubInit

\* The invariant of the hub, at every moment of every run.
THEOREM HubInvariant == HubSpec => []HubInv
<1>1. HubInit => HubInv
  BY Zenon, HubStart
<1>2. HubInv /\ [HubNext]_vars => HubInv'
  BY Zenon, HubStep
<1>3. QED BY <1>1, <1>2, PTL DEF HubSpec

\* The hub's maps agree and /ws/status counts what is there, for any number of
\* clients, users and rooms and any capacity of the channels (hub.go,
\* registerClient to handleLeaveRoom).
THEOREM HubRoutes == HubSpec => []RoutesConsistent
<1>1. ASSUME HubInv PROVE RoutesConsistent
  <2>1. \A u \in User \ {0} : userClients[u] = {c \in clients : UserOf[c] = u}
    BY Zenon, <1>1 DEF HubInv, Listed
  <2>2. \A r \in Room : roomClients[r] \subseteq clients \cup ended
    BY Zenon, <1>1 DEF HubInv, HubTyped, ClientOK, InNoRoom
  <2>3. GetOnlineUsers = {UserOf[c] : c \in clients} \ {0}
    <3>1. clients \subseteq Client
      BY Zenon, <1>1 DEF HubInv, HubTyped
    <3>2. \A u \in User \ {0} : userClients[u] # {} <=> \E c \in clients : UserOf[c] = u
      BY Zenon, <2>1
    <3>3. \A u : u \in GetOnlineUsers <=> u \in {UserOf[c] : c \in clients} \ {0}
      BY Zenon, <3>1, <3>2 DEF GetOnlineUsers, User
    <3>4. QED BY Zenon, <3>3
  <2>4. /\ handleStatus.activeConnections = active
        /\ handleStatus.onlineUsers = Cardinality(GetOnlineUsers)
        /\ handleStatus.activeRooms = totalRooms
    BY DEF handleStatus
  <2>5. QED BY Zenon, <1>1, <2>1, <2>2, <2>3, <2>4 DEF RoutesConsistent, HubInv, Counted
<1>2. QED BY <1>1, HubInvariant, PTL

\* Between two rounds of the hub a registered client is in exactly the rooms it
\* asked for.
THEOREM HubMembership == HubSpec => []MembershipAgrees
<1>1. ASSUME HubInv PROVE MembershipAgrees
  BY Zenon, <1>1 DEF HubInv, HubTyped, ClientOK, MembershipAgrees, Coming, Holds
<1>2. QED BY <1>1, HubInvariant, PTL

\* Only Close leads to a send on a closed channel.
THEOREM HubBreaks == HubSpec => []OnlyCloseBreaks
<1>1. ASSUME HubInv PROVE OnlyCloseBreaks
  BY Zenon, <1>1 DEF HubInv, HubTyped, ClientOK, InNoRoom, OnlyCloseBreaks
<1>2. QED BY <1>1, HubInvariant, PTL

-----------------------------------------------------------------------------
(* The render service.                                                     *)

Key == {"react", "angular"} \X Component
Result == [key : Key, state : Props, at : Nat, clears : Nat]
Asking == {"lookup", "hit", "miss"}
Serving ==
  [at : {"idle", "render", "answered"} \cup Asking,
   key : Key \cup {<<>>}, props : Props \cup {{}}, begun : Nat, looked : Nat,
   cached : BOOLEAN, result : Result \cup {<<>>}]

SSRTyped ==
  /\ now \in Nat /\ clears \in Nat /\ cacheEnabled \in BOOLEAN
  /\ stats \in [react : Nat, angular : Nat, hits : Nat, misses : Nat]
  /\ req \in [Req -> Serving]
  /\ DOMAIN cache \subseteq Key

\* A stored result is of its key, and the last ClearCache came before it.
Stored ==
  \A k \in DOMAIN cache :
    /\ cache[k] \in Result
    /\ cache[k].key = k /\ cache[k].clears = clears

\* What a request has in its hands at each point.
ReqOK(r) ==
  /\ r.begun <= clears
  /\ r.at \in Asking => cacheEnabled
  /\ r.at \in Asking \cup {"render", "answered"} => r.key \in Key /\ r.props \in Props
  /\ r.at # "answered" => ~r.cached
  /\ (r.at = "hit" \/ (r.at = "answered" /\ r.cached)) =>
       /\ r.result.key = r.key
       /\ r.looked <= r.result.at + CacheTTL
       /\ r.begun <= r.result.clears
  /\ (r.at = "answered" /\ ~r.cached) => r.result.key = r.key /\ r.result.state = r.props

Under == {q \in Req : req[q].at \in Asking}

\* The counters, against the requests between their two counts.
Added ==
  IF cacheEnabled
    THEN stats.react + stats.angular = stats.hits + stats.misses + Cardinality(Under)
    ELSE stats.hits = 0 /\ stats.misses = 0 /\ DOMAIN cache = {}

\* The inductive invariant of the service.
SSRInv == SSRTyped /\ Stored /\ Added /\ \A q \in Req : ReqOK(req[q])

\* A request moves on: the others keep what they have.
LEMMA ServingMoves ==
  ASSUME SSRTyped, \A q \in Req : ReqOK(req[q]), NEW q \in Req, NEW r \in Serving,
         req' = [req EXCEPT ![q] = r], ReqOK(r), UNCHANGED <<cacheEnabled, clears>>
  PROVE  /\ req' \in [Req -> Serving] /\ req'[q] = r
         /\ \A p \in Req : ReqOK(req[p])'
<1>1. /\ req' \in [Req -> Serving] /\ req'[q] = r
      /\ \A p \in Req \ {q} : req'[p] = req[p]
  BY Zenon DEF SSRTyped
<1>2. \A p \in Req : ReqOK(req'[p])
  BY Zenon, <1>1
<1>3. QED BY Zenon, <1>1, <1>2 DEF ReqOK

\* How many requests are between their two counts when one moves on.
LEMMA UnderMoves ==
  ASSUME SSRTyped, NEW q \in Req, NEW r \in Serving, req' = [req EXCEPT ![q] = r]
  PROVE  /\ Cardinality(Under) \in Nat
         /\ req[q].at \notin Asking /\ r.at \in Asking =>
              Cardinality(Under') = Cardinality(Under) + 1
         /\ req[q].at \in Asking /\ r.at \notin Asking =>
              Cardinality(Under') = Cardinality(Under) - 1
         /\ (req[q].at \in Asking <=> r.at \in Asking) => Under' = Under
<1>1. IsFiniteSet(Under) /\ Cardinality(Under) \in Nat
  BY Zenon, SSRAssumption, FS_Subset, FS_CardinalityType DEF Under
<1>2. req'[q] = r /\ \A p \in Req \ {q} : req'[p] = req[p]
  BY Zenon DEF SSRTyped
<1>3. req[q].at \notin Asking /\ r.at \in Asking => q \notin Under /\ Under' = Under \cup {q}
  BY Zenon, <1>2 DEF Under
<1>4. req[q].at \in Asking /\ r.at \notin Asking => q \in Under /\ Under' = Under \ {q}
  BY Zenon, <1>2 DEF Under
<1>5. (req[q].at \in Asking <=> r.at \in Asking) => Under' = Under
  BY Zenon, <1>2 DEF Under
<1>6. QED BY Zenon, <1>1, <1>3, <1>4, <1>5, FS_AddElement, FS_RemoveElement

\* Begin: a render is counted and its request is under way.
LEMMA BeginKeeps ==
  ASSUME SSRInv, NEW q \in Req, NEW f \in {"react", "angular"}, NEW c \in Component,
         NEW p \in Props, Begin(q, f, c, p)
  PROVE  SSRInv'
<1>1. PICK r : r = [Idle EXCEPT !.at = IF cacheEnabled THEN "lookup" ELSE "render",
                                !.key = <<f, c>>, !.props = p, !.begun = clears]
  OBVIOUS
<1>2. /\ req[q].at \in {"idle", "answered"} /\ stats' = [stats EXCEPT ![f] = stats[f] + 1]
      /\ req' = [req EXCEPT ![q] = r] /\ UNCHANGED <<now, cacheEnabled, cache, clears>>
  BY Zenon, <1>1 DEF Begin, IncrementStat
<1>3. /\ r.at = IF cacheEnabled THEN "lookup" ELSE "render"
      /\ r.key = <<f, c>> /\ r.props = p /\ r.begun = clears /\ r.cached = FALSE
      /\ r \in Serving
  BY <1>1 DEF Idle, SSRInv, SSRTyped, Serving, Asking, Key
<1>4. ReqOK(r)
  <2>1. r.begun <= clears
    BY <1>3 DEF SSRInv, SSRTyped
  <2>2. r.at \in {"lookup", "render"} /\ r.key \in Key /\ r.props \in Props
    BY <1>3 DEF Key
  <2>3. QED BY Zenon, <1>3, <2>1, <2>2 DEF ReqOK, Asking
<1>5. req' \in [Req -> Serving] /\ \A s \in Req : ReqOK(req[s])'
  BY Zenon, <1>2, <1>3, <1>4, ServingMoves DEF SSRInv
<1>6. /\ stats' \in [react : Nat, angular : Nat, hits : Nat, misses : Nat]
      /\ stats'.react + stats'.angular = stats.react + stats.angular + 1
      /\ stats'.hits = stats.hits /\ stats'.misses = stats.misses
  <2>1. stats \in [react : Nat, angular : Nat, hits : Nat, misses : Nat]
    BY Zenon DEF SSRInv, SSRTyped
  <2>2. QED BY <1>2, <2>1
<1>7. Added'
  <2>1. /\ Cardinality(Under) \in Nat
        /\ cacheEnabled => Cardinality(Under') = Cardinality(Under) + 1
    BY Zenon, <1>2, <1>3, UnderMoves DEF SSRInv, Asking
  <2>2. CASE cacheEnabled
    <3>1. stats.react + stats.angular = stats.hits + stats.misses + Cardinality(Under)
      BY Zenon, <2>2 DEF SSRInv, Added
    <3>2. stats.hits \in Nat /\ stats.misses \in Nat
      BY DEF SSRInv, SSRTyped
    <3>3. stats'.react + stats'.angular = stats'.hits + stats'.misses + Cardinality(Under')
      BY <1>6, <2>1, <2>2, <3>1, <3>2
    <3>4. QED BY Zenon, <1>2, <2>2, <3>3 DEF Added
  <2>3. CASE ~cacheEnabled
    BY Zenon, <1>2, <1>6, <2>3 DEF SSRInv, Added
  <2>4. QED BY Zenon, <2>2, <2>3
<1>8. SSRTyped' /\ Stored'
  BY Zenon, <1>2, <1>5, <1>6 DEF SSRInv, SSRTyped, Stored
<1>9. QED BY Zenon, <1>5, <1>7, <1>8 DEF SSRInv

\* getFromCache: what is found is copied.
LEMMA LookupKeeps ==
  ASSUME SSRInv, NEW q \in Req, getFromCache(q)
  PROVE  SSRInv'
<1>1. req[q] \in Serving /\ ReqOK(req[q])
  BY Zenon DEF SSRInv, SSRTyped
<1>2. PICK r : /\ req' = [req EXCEPT ![q] = r]
               /\ r = IF req[q].key \in DOMAIN cache /\ ~Expired(req[q].key)
                      THEN [req[q] EXCEPT !.at = "hit", !.looked = now,
                                          !.result = cache[req[q].key]]
                      ELSE [req[q] EXCEPT !.at = "miss"]
  BY Zenon DEF getFromCache
<1>3. req[q].at = "lookup" /\ UNCHANGED <<now, cacheEnabled, cache, stats, clears>>
  BY Zenon DEF getFromCache
<1>4. r \in Serving /\ ReqOK(r) /\ r.at \in Asking
  <2>1. CASE req[q].key \in DOMAIN cache /\ ~Expired(req[q].key)
    <3>1. PICK e \in Result : e = cache[req[q].key] /\ e.key = req[q].key /\ e.clears = clears
      BY Zenon, <2>1 DEF SSRInv, Stored
    <3>2. now <= e.at + CacheTTL /\ now \in Nat
      BY <2>1, <3>1, SSRAssumption DEF Expired, SSRInv, SSRTyped, Result
    <3>3. /\ r \in Serving /\ r.at = "hit" /\ r.looked = now /\ r.result = e
          /\ r.key = req[q].key /\ r.props = req[q].props /\ r.begun = req[q].begun
          /\ r.cached = req[q].cached
      BY <1>1, <1>2, <2>1, <3>1, <3>2 DEF Serving, Asking
    <3>4. QED BY Zenon, <1>1, <1>3, <3>1, <3>2, <3>3 DEF ReqOK, Asking
  <2>2. CASE ~(req[q].key \in DOMAIN cache /\ ~Expired(req[q].key))
    <3>1. /\ r \in Serving /\ r.at = "miss"
          /\ r.key = req[q].key /\ r.props = req[q].props /\ r.begun = req[q].begun
          /\ r.cached = req[q].cached
      BY <1>1, <1>2, <2>2 DEF Serving, Asking
    <3>2. QED BY Zenon, <1>1, <1>3, <3>1 DEF ReqOK, Asking
  <2>3. QED BY Zenon, <2>1, <2>2
<1>5. req' \in [Req -> Serving] /\ \A s \in Req : ReqOK(req[s])'
  BY Zenon, <1>2, <1>3, <1>4, ServingMoves DEF SSRInv
<1>6. Under' = Under
  BY Zenon, <1>2, <1>3, <1>4, UnderMoves DEF SSRInv, Asking
<1>7. SSRTyped' /\ Stored' /\ Added'
  BY Zenon, <1>3, <1>5, <1>6 DEF SSRInv, SSRTyped, Stored, Added
<1>8. QED BY Zenon, <1>5, <1>7 DEF SSRInv

\* CountHit and CountMiss: the request is counted and goes on.
LEMMA CountKeeps ==
  ASSUME SSRInv, NEW q \in Req, CountHit(q) \/ CountMiss(q)
  PROVE  SSRInv'
<1>1. req[q] \in Serving /\ ReqOK(req[q]) /\ req[q].at \in Asking
  BY Zenon DEF SSRInv, SSRTyped, CountHit, CountMiss, Asking
<1>2. UNCHANGED <<now, cacheEnabled, cache, clears>>
  BY Zenon DEF CountHit, CountMiss
<1>3. /\ stats' \in [react : Nat, angular : Nat, hits : Nat, misses : Nat]
      /\ stats'.react + stats'.angular = stats.react + stats.angular
      /\ stats'.hits + stats'.misses = stats.hits + stats.misses + 1
      /\ {stats.hits, stats.misses, stats'.hits, stats'.misses} \subseteq Nat
      /\ {stats.react + stats.angular, stats'.react + stats'.angular} \subseteq Nat
  <2>1. stats \in [react : Nat, angular : Nat, hits : Nat, misses : Nat]
    BY Zenon DEF SSRInv, SSRTyped
  <2>2. \/ stats' = [stats EXCEPT !["hits"] = stats["hits"] + 1]
        \/ stats' = [stats EXCEPT !["misses"] = stats["misses"] + 1]
    BY Zenon DEF CountHit, CountMiss, IncrementStat
  <2>3. QED BY <2>1, <2>2
<1>4. PICK r \in Serving : req' = [req EXCEPT ![q] = r] /\ ReqOK(r) /\ r.at \notin Asking
  <2>1. CASE CountHit(q)
    <3> DEFINE r == [req[q] EXCEPT !.at = "answered", !.cached = TRUE]
    <3>1. req' = [req EXCEPT ![q] = r] /\ req[q].at = "hit"
      BY <1>1, <2>1 DEF CountHit, SSRInv, SSRTyped
    <3>2. /\ r \in Serving /\ r.at = "answered" /\ r.cached = TRUE
          /\ r.key = req[q].key /\ r.props = req[q].props /\ r.begun = req[q].begun
          /\ r.looked = req[q].looked /\ r.result = req[q].result
      BY <1>1 DEF Serving
    <3> HIDE DEF r
    <3>3. QED BY Zenon, <1>1, <3>1, <3>2 DEF ReqOK, Asking
  <2>2. CASE CountMiss(q)
    <3> DEFINE r == [req[q] EXCEPT !.at = "render"]
    <3>1. req' = [req EXCEPT ![q] = r] /\ req[q].at = "miss"
      BY <1>1, <2>2 DEF CountMiss, SSRInv, SSRTyped
    <3>2. /\ r \in Serving /\ r.at = "render" /\ r.cached = req[q].cached
          /\ r.key = req[q].key /\ r.props = req[q].props /\ r.begun = req[q].begun
      BY <1>1 DEF Serving
    <3> HIDE DEF r
    <3>3. QED BY Zenon, <1>1, <3>1, <3>2 DEF ReqOK, Asking
  <2>3. QED BY Zenon, <2>1, <2>2
<1>5. req' \in [Req -> Serving] /\ \A s \in Req : ReqOK(req[s])'
  BY Zenon, <1>2, <1>4, ServingMoves DEF SSRInv
<1>6. Added'
  <2>1. cacheEnabled
    BY Zenon, <1>1 DEF ReqOK
  <2>2. Cardinality(Under) \in Nat /\ Cardinality(Under') = Cardinality(Under) - 1
    BY Zenon, <1>1, <1>4, UnderMoves DEF SSRInv
  <2>3. stats.react + stats.angular = stats.hits + stats.misses + Cardinality(Under)
    BY Zenon, <2>1 DEF SSRInv, Added
  <2>4. stats'.react + stats'.angular = stats'.hits + stats'.misses + Cardinality(Under')
    BY <1>3, <2>2, <2>3
  <2>5. QED BY Zenon, <1>2, <2>1, <2>4 DEF Added
<1>7. SSRTyped' /\ Stored'
  BY Zenon, <1>2, <1>3, <1>5 DEF SSRInv, SSRTyped, Stored
<1>8. QED BY Zenon, <1>5, <1>6, <1>7 DEF SSRInv

\* Answer: the render is stored, whatever came in between.
LEMMA AnswerKeeps ==
  ASSUME SSRInv, NEW q \in Req, Answer(q)
  PROVE  SSRInv'
<1>1. req[q] \in Serving /\ ReqOK(req[q]) /\ req[q].at = "render"
  BY Zenon DEF SSRInv, SSRTyped, Answer
<1>2. PICK e : e = [key |-> req[q].key, state |-> req[q].props, at |-> now, clears |-> clears]
  OBVIOUS
<1>3. /\ UNCHANGED <<now, cacheEnabled, stats, clears>>
      /\ req' = [req EXCEPT ![q].at = "answered", ![q].result = e]
      /\ IF cacheEnabled THEN putInCache(req[q].key, e) ELSE UNCHANGED cache
  BY Zenon, <1>2 DEF Answer
<1>4. req[q].key \in Key /\ req[q].props \in Props
  BY Zenon, <1>1 DEF ReqOK
<1>5. e \in Result /\ e.key = req[q].key /\ e.state = req[q].props /\ e.clears = clears
  BY <1>2, <1>4 DEF Result, SSRInv, SSRTyped
<1>6. PICK r \in Serving : req' = [req EXCEPT ![q] = r] /\ ReqOK(r) /\ r.at = "answered"
  <2> DEFINE r == [req[q] EXCEPT !.at = "answered", !.result = e]
  <2>1. req' = [req EXCEPT ![q] = r]
    BY <1>1, <1>3 DEF SSRInv, SSRTyped
  <2>2. /\ r \in Serving /\ r.at = "answered" /\ r.cached = req[q].cached
        /\ r.key = req[q].key /\ r.props = req[q].props /\ r.begun = req[q].begun
        /\ r.result = e
    BY <1>1, <1>5 DEF Serving
  <2> HIDE DEF r
  <2>3. ReqOK(r)
    BY Zenon, <1>1, <1>4, <1>5, <2>2 DEF ReqOK, Asking
  <2>4. QED BY Zenon, <2>1, <2>2, <2>3
<1>7. req' \in [Req -> Serving] /\ \A s \in Req : ReqOK(req[s])'
  BY Zenon, <1>3, <1>6, ServingMoves DEF SSRInv
<1>8. Under' = Under
  BY Zenon, <1>1, <1>6, UnderMoves DEF SSRInv, Asking
<1>9. Stored' /\ DOMAIN cache' \subseteq Key
  <2>1. CASE cacheEnabled
    <3>1. /\ DOMAIN cache' = DOMAIN cache \cup {req[q].key}
          /\ cache'[req[q].key] = e
          /\ \A k \in DOMAIN cache \ {req[q].key} : cache'[k] = cache[k]
      BY Zenon, <1>3, <2>1 DEF putInCache
    <3>2. \A k \in DOMAIN cache' :
            cache'[k] \in Result /\ cache'[k].key = k /\ cache'[k].clears = clears
      <4>1. ASSUME NEW k \in DOMAIN cache', k = req[q].key
            PROVE  cache'[k] = e /\ e.key = k
        BY Zenon, <1>5, <3>1, <4>1
      <4>2. ASSUME NEW k \in DOMAIN cache', k # req[q].key
            PROVE  k \in DOMAIN cache /\ cache'[k] = cache[k]
        BY Zenon, <3>1, <4>2
      <4>3. QED BY Zenon, <1>5, <4>1, <4>2 DEF SSRInv, Stored
    <3>3. QED BY Zenon, <1>3, <1>4, <3>1, <3>2 DEF SSRInv, SSRTyped, Stored
  <2>2. CASE ~cacheEnabled
    BY Zenon, <1>3, <2>2 DEF SSRInv, SSRTyped, Stored
  <2>3. QED BY Zenon, <2>1, <2>2
<1>10. SSRTyped' /\ Added'
  BY Zenon, <1>3, <1>7, <1>8, <1>9 DEF SSRInv, SSRTyped, Added
<1>11. QED BY Zenon, <1>7, <1>9, <1>10 DEF SSRInv

\* The steps of no request.
LEMMA CacheSteps ==
  ASSUME SSRInv, ClearCache \/ CleanupCache \/ Tick \/ UNCHANGED ssrVars
  PROVE  SSRInv'
<1>1. /\ UNCHANGED <<cacheEnabled, stats, req>>
      /\ now' \in Nat /\ clears' \in Nat /\ clears <= clears'
      /\ \/ cache' = << >>
         \/ UNCHANGED <<cache, clears>>
         \/ UNCHANGED clears /\ cache' = [k \in {i \in DOMAIN cache : ~Expired(i)} |-> cache[k]]
  BY DEF ClearCache, CleanupCache, Tick, ssrVars, SSRInv, SSRTyped
<1>2. Stored' /\ DOMAIN cache' \subseteq DOMAIN cache
  <2>1. CASE cache' = << >>
    <3>1. DOMAIN cache' = {}
      BY <2>1
    <3>2. QED BY Zenon, <3>1 DEF Stored
  <2>2. CASE UNCHANGED <<cache, clears>>
    BY Zenon, <2>2 DEF SSRInv, Stored
  <2>3. CASE /\ UNCHANGED clears
             /\ cache' = [k \in {i \in DOMAIN cache : ~Expired(i)} |-> cache[k]]
    BY Zenon, <2>3 DEF SSRInv, Stored
  <2>4. QED BY Zenon, <1>1, <2>1, <2>2, <2>3
<1>3. ASSUME NEW q \in Req PROVE ReqOK(req[q])'
  <2>1. PICK r \in Serving : r = req[q] /\ ReqOK(r)
    BY Zenon DEF SSRInv, SSRTyped
  <2>2. r.begun <= clears'
    <3>1. r.begun \in Nat /\ r.begun <= clears /\ clears \in Nat
      BY <2>1 DEF Serving, ReqOK, SSRInv, SSRTyped
    <3>2. QED BY <1>1, <3>1
  <2>3. QED BY Zenon, <1>1, <2>1, <2>2 DEF ReqOK
<1>4. Under' = Under
  BY Zenon, <1>1 DEF Under
<1>5. SSRTyped' /\ Added'
  BY Zenon, <1>1, <1>2, <1>4 DEF SSRInv, SSRTyped, Added
<1>6. QED BY Zenon, <1>2, <1>3, <1>5 DEF SSRInv

\* The invariant of the render service, at every moment of every run.
THEOREM SSRInvariant == SSRSpec => []SSRInv
<1>1. ASSUME SSRInit PROVE SSRInv
  <2>1. req = [q \in Req |-> Idle] /\ Under = {} /\ DOMAIN cache = {}
    BY <1>1 DEF SSRInit, Under, Idle, Asking
  <2>2. Idle \in Serving
    BY DEF Idle, Serving
  <2>3. ReqOK(Idle)
    BY <1>1 DEF ReqOK, Idle, Asking, SSRInit
  <2>4. Cardinality(Under) = 0
    BY Zenon, <2>1, FS_EmptySet
  <2>5. SSRTyped
    <3>1. req \in [Req -> Serving]
      BY Zenon, <2>1, <2>2
    <3>2. QED BY <1>1, <2>1, <3>1 DEF SSRInit, SSRTyped
  <2>6. Added
    BY <1>1, <2>1, <2>4 DEF SSRInit, Added
  <2>7. QED BY Zenon, <2>1, <2>3, <2>5, <2>6 DEF SSRInv, Stored
<1>2. ASSUME SSRInv, [SSRNext]_ssrVars PROVE SSRInv'
  <2>1. ASSUME NEW q \in Req, SSRRequest(q) PROVE SSRInv'
    BY Zenon, <1>2, <2>1, BeginKeeps DEF SSRRequest, RenderReact, RenderAngular
  <2>2. ASSUME NEW q \in Req, RenderStep(q) PROVE SSRInv'
    BY Zenon, <1>2, <2>2, LookupKeeps, CountKeeps, AnswerKeeps DEF RenderStep
  <2>3. QED BY Zenon, <1>2, <2>1, <2>2, CacheSteps DEF SSRNext
<1>3. QED BY <1>1, <1>2, PTL DEF SSRSpec

\* An answer is current and of the component asked for, for any number of
\* requests, clears and cache entries (getFromCache, putInCache, ClearCache).
THEOREM RendersCurrent == SSRSpec => []AnswersCurrent
<1>1. ASSUME SSRInv PROVE AnswersCurrent
  BY Zenon, <1>1 DEF SSRInv, ReqOK, AnswersCurrent
<1>2. QED BY <1>1, SSRInvariant, PTL

\* What GetStatus reports adds up, however the requests interleave between
\* their two counts.
THEOREM RendersAddUp == SSRSpec => []StatsAdd
<1>1. ASSUME SSRInv PROVE StatsAdd
  <2>1. /\ GetStatus.renders = stats.react + stats.angular
        /\ GetStatus.hits = stats.hits /\ GetStatus.misses = stats.misses
        /\ GetStatus.cacheSize = Cardinality(DOMAIN cache)
    BY DEF GetStatus
  <2>2. ~cacheEnabled => Cardinality(DOMAIN cache) = 0
    BY Zenon, <1>1, FS_EmptySet DEF SSRInv, Added
  <2>3. QED BY Zenon, <1>1, <2>1, <2>2 DEF SSRInv, Added, StatsAdd, Under, Asking
<1>2. QED BY <1>1, SSRInvariant, PTL
=============================================================================
