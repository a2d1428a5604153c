-------------------------------- MODULE LiveHub --------------------------------
(***************************************************************************)
(* The live stream of traces (src/collector/websocket.go): one goroutine   *)
(* owns the clients, each client has a goroutine that reads its connection *)
(* and one that writes it, and a client that cannot keep up is dropped by  *)
(* closing its channel.                                                    *)
(***************************************************************************)
EXTENDS Naturals, Sequences, FiniteSets, SequencesExt

CONSTANTS
  Clients,         \* connections
  SendSlots,       \* wsSendBufSize
  BroadcastSlots,  \* capacity of Hub.broadcast
  MaxGone          \* bound: peers that stop reading or go away

ASSUME HubAssumption ==
  /\ SendSlots \in Nat \ {0} /\ BroadcastSlots \in Nat \ {0}
  /\ MaxGone \in Nat

VARIABLES
  hubClients,  \* Hub.clients
  broadcast,   \* Hub.broadcast
  queue,       \* client -> messages in its send channel
  closed,      \* client -> its send channel is closed
  conn,        \* client -> "none", "open", "closed": the connection, as seen from here
  peer,        \* client -> the other side answers and reads
  reader,      \* client -> "none", "register", "start", "read", "unregister", "done"
  writer,      \* client -> "none", "write", "done"
  taken,       \* history: traces Run has handed to its clients
  joined,      \* history: client -> Len(taken) when it was registered
  heard,       \* history: client -> messages written to its connection
  panicked     \* a channel was closed twice or sent to after it was closed

hubVars == <<hubClients, broadcast, queue, closed, conn, peer, reader, writer, taken, joined,
             heard, panicked>>
pumpVars == <<conn, peer, reader, writer>>

NoClients ==
  /\ hubClients = {} /\ broadcast = <<>> /\ taken = <<>> /\ panicked = FALSE
  /\ queue = [c \in Clients |-> <<>>]
  /\ closed = [c \in Clients |-> FALSE]
  /\ conn = [c \in Clients |-> "none"]
  /\ peer = [c \in Clients |-> TRUE]
  /\ reader = [c \in Clients |-> "none"]
  /\ writer = [c \in Clients |-> "none"]
  /\ joined = [c \in Clients |-> 0]
  /\ heard = [c \in Clients |-> <<>>]

\* Broadcast: a full channel loses the trace.
Broadcast(t) ==
  /\ broadcast' = IF Len(broadcast) < BroadcastSlots THEN Append(broadcast, t) ELSE broadcast
  /\ UNCHANGED <<hubClients, queue, closed, pumpVars, taken, joined, heard, panicked>>

---------------------------------------------------------------------------
\* The goroutine of the hub.

\* A close of the channels of the clients in C; closing a closed channel ends the process.
Close(C) ==
  /\ closed' = [c \in Clients |-> closed[c] \/ c \in C]
  /\ panicked' = (panicked \/ \E c \in C : closed[c])

\* Run, register: the handler of the request waits for it and then starts the two pumps.
Register(c) ==
  /\ reader[c] = "register"
  /\ hubClients' = hubClients \union {c}
  /\ joined' = [joined EXCEPT ![c] = Len(taken)]
  /\ reader' = [reader EXCEPT ![c] = "start"]
  /\ UNCHANGED <<broadcast, queue, closed, conn, peer, writer, taken, heard, panicked>>

\* Run, unregister: nothing is done about a client that was dropped before.
Leaving(c) == IF c \in hubClients THEN {c} ELSE {}

Unregister(c) ==
  /\ reader[c] = "unregister"
  /\ hubClients' = hubClients \ {c}
  /\ Close(Leaving(c))
  /\ reader' = [reader EXCEPT ![c] = "done"]
  /\ conn' = [conn EXCEPT ![c] = "closed"]
  /\ UNCHANGED <<broadcast, queue, peer, writer, taken, joined, heard>>

Full(c) == Len(queue[c]) >= SendSlots

\* Mutant: a client whose buffer is full misses the trace and stays.
SlowKept == {}

\* The clients that a broadcast drops: those whose buffer is full.
Slow == {c \in hubClients : Full(c)}

\* Run, broadcast: with no client the trace is not kept.
Deliver ==
  /\ broadcast # <<>>
  /\ broadcast' = Tail(broadcast)
  /\ IF hubClients = {}
     THEN UNCHANGED <<hubClients, queue, closed, taken, panicked>>
     ELSE /\ taken' = Append(taken, Head(broadcast))
          /\ queue' = [c \in Clients |-> IF c \in hubClients /\ ~Full(c)
                                         THEN Append(queue[c], Head(broadcast)) ELSE queue[c]]
          /\ hubClients' = hubClients \ Slow
          /\ Close(Slow)
  /\ UNCHANGED <<pumpVars, joined, heard>>

---------------------------------------------------------------------------
\* Connections.

\* handleWebSocket: the connection is upgraded, the handler offers the client to the hub.
Connect(c) ==
  /\ conn[c] = "none"
  /\ conn' = [conn EXCEPT ![c] = "open"]
  /\ reader' = [reader EXCEPT ![c] = "register"]
  /\ UNCHANGED <<hubClients, broadcast, queue, closed, peer, writer, taken, joined, heard,
                 panicked>>

StartPumps(c) ==
  /\ reader[c] = "start"
  /\ reader' = [reader EXCEPT ![c] = "read"]
  /\ writer' = [writer EXCEPT ![c] = "write"]
  /\ UNCHANGED <<hubClients, broadcast, queue, closed, conn, peer, taken, joined, heard,
                 panicked>>

\* The other side goes away, or keeps the connection and stops reading and answering pings.
PeerGone(c) ==
  /\ conn[c] = "open" /\ peer[c]
  /\ Cardinality({d \in Clients : ~peer[d]}) < MaxGone
  /\ peer' = [peer EXCEPT ![c] = FALSE]
  /\ UNCHANGED <<hubClients, broadcast, queue, closed, conn, reader, writer, taken, joined,
                 heard, panicked>>

\* readPump: ReadMessage fails on a closed connection, on one that was closed by the other
\* side, and at the deadline when no pong came.
ReadFails(c) ==
  /\ reader[c] = "read"
  /\ conn[c] = "closed" \/ ~peer[c]
  /\ reader' = [reader EXCEPT ![c] = "unregister"]
  /\ UNCHANGED <<hubClients, broadcast, queue, closed, conn, peer, writer, taken, joined, heard,
                 panicked>>

\* writePump: the message is on the wire.
WriteMessage(c) ==
  /\ writer[c] = "write" /\ queue[c] # <<>> /\ conn[c] = "open"
  /\ queue' = [queue EXCEPT ![c] = Tail(@)]
  /\ heard' = [heard EXCEPT ![c] = Append(@, Head(queue[c]))]
  /\ UNCHANGED <<hubClients, broadcast, closed, pumpVars, taken, joined, panicked>>

\* writePump: a message or a ping fails, at once or at the deadline; the pump closes the
\* connection and ends.
WriteFails(c) ==
  /\ writer[c] = "write"
  /\ conn[c] = "closed" \/ ~peer[c]
  /\ writer' = [writer EXCEPT ![c] = "done"]
  /\ conn' = [conn EXCEPT ![c] = "closed"]
  /\ queue' = [queue EXCEPT ![c] = IF @ = <<>> THEN @ ELSE Tail(@)]
  /\ UNCHANGED <<hubClients, broadcast, closed, peer, reader, taken, joined, heard, panicked>>

\* Mutant: the pump ends and leaves the connection to the one that reads it.
ChannelClosedOpen(c) ==
  /\ writer[c] = "write" /\ closed[c] /\ queue[c] = <<>>
  /\ writer' = [writer EXCEPT ![c] = "done"]
  /\ UNCHANGED <<hubClients, broadcast, queue, closed, conn, peer, reader, taken, joined, heard,
                 panicked>>

\* writePump: a closed channel gives what is left in it first.
ChannelClosed(c) ==
  /\ writer[c] = "write" /\ closed[c] /\ queue[c] = <<>>
  /\ writer' = [writer EXCEPT ![c] = "done"]
  /\ conn' = [conn EXCEPT ![c] = "closed"]
  /\ UNCHANGED <<hubClients, broadcast, queue, closed, peer, reader, taken, joined, heard,
                 panicked>>

Hub == Deliver \/ \E c \in Clients : Register(c) \/ Unregister(c)
ReadPump(c) == ReadFails(c)
WritePump(c) == WriteMessage(c) \/ WriteFails(c) \/ ChannelClosed(c)

HubNext ==
  \/ Hub
  \/ \E c \in Clients :
       Connect(c) \/ StartPumps(c) \/ PeerGone(c) \/ ReadPump(c) \/ WritePump(c)

\* Go runs every goroutine that can run and chooses among the ready cases of a select.
HubFairness ==
  /\ WF_hubVars(Deliver)
  /\ \A c \in Clients :
       /\ WF_hubVars(Register(c)) /\ WF_hubVars(Unregister(c)) /\ WF_hubVars(StartPumps(c))
       /\ WF_hubVars(ReadPump(c)) /\ WF_hubVars(WritePump(c))

HubTypeOK ==
  /\ hubClients \subseteq Clients
  /\ Len(broadcast) <= BroadcastSlots
  /\ \A c \in Clients : Len(queue[c]) <= SendSlots
  /\ conn \in [Clients -> {"none", "open", "closed"}]
  /\ reader \in [Clients -> {"none", "register", "start", "read", "unregister", "done"}]
  /\ writer \in [Clients -> {"none", "write", "done"}]
  /\ peer \in [Clients -> BOOLEAN] /\ closed \in [Clients -> BOOLEAN]

\* The traces the hub has taken since the client was registered.
Since(c) == SubSeq(taken, joined[c] + 1, Len(taken))

\* A client hears the traces from the moment it was registered on, in order and without a gap,
\* up to where it was dropped or its connection ended; while the hub has it and its writer runs,
\* nothing has been left out; and no channel is closed twice.
StreamContiguous ==
  /\ ~panicked
  /\ \A c \in Clients :
       /\ IsPrefix(heard[c], Since(c))
       /\ c \in hubClients /\ writer[c] # "done" => heard[c] \o queue[c] = Since(c)
       /\ c \in hubClients => ~closed[c]

\* A client that was dropped, and one whose peer is gone, is let go of: both its goroutines end
\* and the hub has it no more.
Gone(c) == closed[c] \/ ~peer[c]
LetGo(c) == c \notin hubClients /\ reader[c] = "done" /\ writer[c] = "done"
ClientsLetGo == \A c \in Clients : []<>(Gone(c) => LetGo(c))

=============================================================================
