-------------------------------- MODULE Hub --------------------------------
(***************************************************************************)
(* The WebSocket hub of the gateway (services/gateway/internal/ws/hub.go)  *)
(* together with what main.go makes of it: the bridge goroutine calls      *)
(* Broadcast, the server's handlers register clients, and the main         *)
(* goroutine walks through the shutdown sequence and calls Close.          *)
(*                                                                         *)
(* A message is the number of its result: 1 is the first one stored.  Each *)
(* client connects at most once, so the hub sees finitely many of them.    *)
(*                                                                         *)
(* Goroutines: Run (hub.Run), the bridge's consumer, main, and one write   *)
(* and one read pump per client.  A step of the model ends where a         *)
(* goroutine may block or where another one may observe it: at a channel   *)
(* operation, at RLock/Lock, at the announcement of a writer.  The body of *)
(* a critical section is one step with the unlock that ends it.            *)
(***************************************************************************)
EXTENDS Integers, Sequences, FiniteSets

CONSTANTS Clients,       \* the WebSocket clients that may ever connect
          NoClient,      \* "no client in hand"
          BroadcastCap,  \* capacity of hub.broadcast (256 in NewHub)
          SendCap,       \* capacity of client.send (256 in HandleWebSocket)
          MaxMessages    \* bound of the model: results the bridge produces

ASSUME HubAssumption ==
    /\ NoClient \notin Clients
    /\ BroadcastCap \in Nat \ {0}
    /\ SendCap \in Nat \ {0}
    /\ MaxMessages \in Nat

VARIABLES
    clients,     \* h.clients
    closed,      \* h.closed
    writer,      \* h.mu: who holds or has announced the write lock
    readers,     \* h.mu: who holds the read lock
    broadcast,   \* h.broadcast, the buffered channel
    send,        \* client.send, the buffered channel of each client
    sendClosed,  \* close(client.send) has happened
    runPc,       \* where Run is
    runClient,   \* the client Run has in hand
    runMsg,      \* the last message Run took from broadcast, 0 before
    visited,     \* the clients Run's range has dealt with
    bridgePc,    \* where the bridge's goroutine is
    stored,      \* results in the AnomalyStore
    conn,        \* the client's connection
    handler,     \* where HandleWebSocket is for the client
    writePump, readPump,  \* where the two pump goroutines are
    mainPc,      \* where main is in the shutdown sequence
    proc,        \* the gateway process
    got          \* last message written to the client, or last one before it joined

lockVars   == <<writer, readers>>
runVars    == <<runPc, runClient, runMsg, visited>>
bridgeVars == <<bridgePc, stored>>
clientVars == <<conn, handler, writePump, readPump, got>>
queueVars  == <<broadcast, send, sendClosed>>
vars == <<clients, closed, lockVars, queueVars, runVars, bridgeVars,
          clientVars, mainPc, proc>>

TypeOK ==
    /\ clients \subseteq Clients
    /\ closed \in BOOLEAN
    /\ writer \in {"none", "run", "main"}
    /\ readers \subseteq {"run", "bridge"}
    /\ broadcast \in Seq(1..MaxMessages) /\ Len(broadcast) <= BroadcastCap
    /\ send \in [Clients -> Seq(1..MaxMessages)]
    /\ \A c \in Clients : Len(send[c]) <= SendCap
    /\ sendClosed \in [Clients -> BOOLEAN]
    /\ runPc \in {"select", "add", "remove", "count", "fan", "range", "kick"}
    /\ runClient \in Clients \cup {NoClient}
    /\ runMsg \in 0..MaxMessages
    /\ visited \subseteq Clients
    /\ bridgePc \in {"idle", "result", "lock", "send"}
    /\ stored \in 0..MaxMessages
    /\ conn \in [Clients -> {"off", "open", "gone", "closed"}]
    /\ handler \in [Clients -> {"off", "registering", "served"}]
    /\ writePump \in [Clients -> {"off", "loop", "leave", "done"}]
    /\ readPump \in [Clients -> {"off", "loop", "leave", "close", "done"}]
    /\ mainPc \in {"serving", "stopping", "draining", "closing", "closed"}
    /\ proc \in {"up", "panicked", "exited"}
    /\ got \in [Clients -> 0..MaxMessages]

Init ==
    /\ clients = {} /\ closed = FALSE
    /\ writer = "none" /\ readers = {}
    /\ broadcast = <<>>
    /\ send = [c \in Clients |-> <<>>]
    /\ sendClosed = [c \in Clients |-> FALSE]
    /\ runPc = "select" /\ runClient = NoClient /\ runMsg = 0 /\ visited = {}
    /\ bridgePc = "idle" /\ stored = 0
    /\ conn = [c \in Clients |-> "off"]
    /\ handler = [c \in Clients |-> "off"]
    /\ writePump = [c \in Clients |-> "off"]
    /\ readPump = [c \in Clients |-> "off"]
    /\ got = [c \in Clients |-> 0]
    /\ mainPc = "serving" /\ proc = "up"

Running == proc = "up"

-----------------------------------------------------------------------------
(* sync.RWMutex: a writer that has called Lock keeps new readers out, and  *)
(* enters when the readers inside have left.                               *)

RLock(p)     == writer = "none" /\ readers' = readers \cup {p}
RUnlock(p)   == readers' = readers \ {p}
Announce(p)  == writer = "none" /\ writer' = p
Exclusive(p) == writer = p /\ readers = {}
Unlock       == writer' = "none" /\ UNCHANGED readers

\* Sending on a closed channel, or closing it again, takes the process down.
PanicIf(misuse) == proc' = IF misuse THEN "panicked" ELSE proc

-----------------------------------------------------------------------------
(* hub.Run *)

\* case client := <-h.register; the handler goes on to start the two pumps.
RunTakesRegister(c) ==
    /\ Running /\ runPc = "select" /\ handler[c] = "registering"
    /\ runPc' = "add" /\ runClient' = c
    /\ handler' = [handler EXCEPT ![c] = "served"]
    /\ writePump' = [writePump EXCEPT ![c] = "loop"]
    /\ readPump' = [readPump EXCEPT ![c] = "loop"]
    /\ UNCHANGED <<clients, closed, lockVars, queueVars, runMsg, visited,
                   bridgeVars, conn, got, mainPc, proc>>

\* case client := <-h.unregister, sent by the write pump after it closed the
\* connection, or by the read pump before it does.
RunTakesUnregister(c) ==
    /\ Running /\ runPc = "select"
    /\ \/ /\ writePump[c] = "leave"
          /\ writePump' = [writePump EXCEPT ![c] = "done"]
          /\ UNCHANGED readPump
       \/ /\ readPump[c] = "leave"
          /\ readPump' = [readPump EXCEPT ![c] = "close"]
          /\ UNCHANGED writePump
    /\ runPc' = "remove" /\ runClient' = c
    /\ UNCHANGED <<clients, closed, lockVars, queueVars, runMsg, visited,
                   bridgeVars, conn, handler, got, mainPc, proc>>

\* h.mu.Lock() has been called.
RunLocks ==
    /\ Running /\ runPc \in {"add", "remove", "kick"}
    /\ Announce("run")
    /\ UNCHANGED <<clients, closed, readers, queueVars, runVars, bridgeVars,
                   clientVars, mainPc, proc>>

\* Mutant: ClientCount is called with the write lock held.
AddClient_CountsInside ==
    /\ Running /\ runPc = "add" /\ Exclusive("run")
    /\ clients' = clients \cup {runClient}
    /\ got' = [got EXCEPT ![runClient] = runMsg]
    /\ runPc' = "count" /\ runClient' = NoClient
    /\ UNCHANGED <<closed, lockVars, queueVars, runMsg, visited, bridgeVars,
                   conn, handler, writePump, readPump, mainPc, proc>>

AddClient ==
    /\ Running /\ runPc = "add" /\ Exclusive("run") /\ Unlock
    /\ clients' = clients \cup {runClient}
    /\ got' = [got EXCEPT ![runClient] = runMsg]
    /\ runPc' = "count" /\ runClient' = NoClient
    /\ UNCHANGED <<closed, queueVars, runMsg, visited, bridgeVars, conn,
                   handler, writePump, readPump, mainPc, proc>>

\* Mutant: the two unregistrations of a client are not told apart.
Registered_Unchecked(c) == TRUE

\* if _, ok := h.clients[client]; ok
Registered(c) == c \in clients

\* Only the first of the two unregistrations of a client finds it in the map.
RemoveClient ==
    /\ Running /\ runPc = "remove" /\ Exclusive("run") /\ Unlock
    /\ clients' = clients \ {runClient}
    /\ sendClosed' = [sendClosed EXCEPT
                        ![runClient] = @ \/ Registered(runClient)]
    /\ PanicIf(Registered(runClient) /\ sendClosed[runClient])
    /\ runPc' = "count" /\ runClient' = NoClient
    /\ UNCHANGED <<closed, broadcast, send, runMsg, visited, bridgeVars,
                   clientVars, mainPc>>

\* ClientCount, for the log line: takes and leaves the read lock.
CountClients ==
    /\ Running /\ runPc = "count" /\ writer = "none"
    /\ runPc' = "select"
    /\ UNCHANGED <<clients, closed, lockVars, queueVars, runClient, runMsg,
                   visited, bridgeVars, clientVars, mainPc, proc>>

TakeMessage ==
    /\ Running /\ runPc = "select" /\ broadcast # <<>>
    /\ runMsg' = Head(broadcast) /\ broadcast' = Tail(broadcast)
    /\ runPc' = "fan" /\ visited' = {}
    /\ UNCHANGED <<clients, closed, lockVars, send, sendClosed, runClient,
                   bridgeVars, clientVars, mainPc, proc>>

\* Mutant: the range starts again after a client was dropped.
FanLock_Restarts ==
    /\ Running /\ runPc = "fan" /\ RLock("run")
    /\ runPc' = "range" /\ visited' = {}
    /\ UNCHANGED <<clients, closed, writer, queueVars, runClient, runMsg,
                   bridgeVars, clientVars, mainPc, proc>>

\* RLock before the range, and again after a client was dropped.
FanLock ==
    /\ Running /\ runPc = "fan" /\ RLock("run")
    /\ runPc' = "range"
    /\ UNCHANGED <<clients, closed, writer, queueVars, runClient, runMsg,
                   visited, bridgeVars, clientVars, mainPc, proc>>

InRange(c) == Running /\ runPc = "range" /\ c \in clients \ visited

\* Mutant: one message more than the channel holds.
HasRoom_OffByOne(c) == Len(send[c]) <= SendCap

HasRoom(c) == Len(send[c]) < SendCap

\* case client.send <- message
Offer(c) ==
    /\ InRange(c) /\ HasRoom(c)
    /\ send' = [send EXCEPT ![c] = Append(@, runMsg)]
    /\ visited' = visited \cup {c}
    /\ PanicIf(sendClosed[c])
    /\ UNCHANGED <<clients, closed, lockVars, broadcast, sendClosed, runPc,
                   runClient, runMsg, bridgeVars, clientVars, mainPc>>

\* Mutant: a full client just misses the message.
FindFull_Skips(c) ==
    /\ InRange(c) /\ ~HasRoom(c)
    /\ visited' = visited \cup {c}
    /\ UNCHANGED <<clients, closed, lockVars, queueVars, runPc, runClient,
                   runMsg, bridgeVars, clientVars, mainPc, proc>>

\* default: the client's buffer is full; the read lock is given up first.
FindFull(c) ==
    /\ InRange(c) /\ ~HasRoom(c)
    /\ RUnlock("run")
    /\ runPc' = "kick" /\ runClient' = c
    /\ PanicIf(sendClosed[c])
    /\ UNCHANGED <<clients, closed, writer, queueVars, runMsg, visited,
                   bridgeVars, clientVars, mainPc>>

FanDone ==
    /\ Running /\ runPc = "range" /\ clients \subseteq visited
    /\ RUnlock("run")
    /\ runPc' = "select"
    /\ UNCHANGED <<clients, closed, writer, queueVars, runClient, runMsg,
                   visited, bridgeVars, clientVars, mainPc, proc>>

\* close(client.send); delete(h.clients, client), under the write lock, even
\* if Close got in after the read lock was given up.
Kick ==
    /\ Running /\ runPc = "kick" /\ Exclusive("run") /\ Unlock
    /\ clients' = clients \ {runClient}
    /\ sendClosed' = [sendClosed EXCEPT ![runClient] = TRUE]
    /\ PanicIf(sendClosed[runClient])
    /\ visited' = visited \cup {runClient}
    /\ runPc' = "fan" /\ runClient' = NoClient
    /\ UNCHANGED <<closed, broadcast, send, runMsg, bridgeVars, clientVars,
                   mainPc>>

-----------------------------------------------------------------------------
(* The bridge's goroutine: the onResult callback and hub.Broadcast *)

\* Predict has answered, which it does not once the context is cancelled.
PredictAnswers ==
    /\ Running /\ bridgePc = "idle" /\ mainPc = "serving" /\ stored < MaxMessages
    /\ bridgePc' = "result"
    /\ UNCHANGED <<clients, closed, lockVars, queueVars, runVars, stored,
                   clientVars, mainPc, proc>>

\* onResult, which may also be after the cancel: store.Add, then Broadcast is
\* called.
OnResult ==
    /\ Running /\ bridgePc = "result"
    /\ stored' = stored + 1
    /\ bridgePc' = "lock"
    /\ UNCHANGED <<clients, closed, lockVars, queueVars, runVars, clientVars,
                   mainPc, proc>>

BroadcastLock ==
    /\ Running /\ bridgePc = "lock" /\ RLock("bridge")
    /\ bridgePc' = "send"
    /\ UNCHANGED <<clients, closed, writer, queueVars, runVars, stored,
                   clientVars, mainPc, proc>>

\* Blocks, with the read lock held, while the channel is full.
BroadcastSend(m) ==
    /\ Running /\ bridgePc = "send"
    /\ closed \/ Len(broadcast) < BroadcastCap
    /\ broadcast' = IF closed THEN broadcast ELSE Append(broadcast, m)
    /\ RUnlock("bridge")
    /\ bridgePc' = "idle"
    /\ UNCHANGED <<clients, closed, writer, send, sendClosed, runVars, stored,
                   clientVars, mainPc, proc>>

-----------------------------------------------------------------------------
(* HandleWebSocket and the pumps of a client *)

\* A request is accepted until server.Shutdown, and upgraded.
Connect(c) ==
    /\ Running /\ conn[c] = "off" /\ mainPc \in {"serving", "stopping", "draining"}
    /\ conn' = [conn EXCEPT ![c] = "open"]
    /\ handler' = [handler EXCEPT ![c] = "registering"]
    /\ UNCHANGED <<clients, closed, lockVars, queueVars, runVars, bridgeVars,
                   writePump, readPump, got, mainPc, proc>>

\* The peer goes away, or the network does.
Disconnect(c) ==
    /\ Running /\ conn[c] = "open"
    /\ conn' = [conn EXCEPT ![c] = "gone"]
    /\ UNCHANGED <<clients, closed, lockVars, queueVars, runVars, bridgeVars,
                   handler, writePump, readPump, got, mainPc, proc>>

\* conn.WriteMessage succeeds: also for a while after the peer has gone.
WriteMsg(c) ==
    /\ Running /\ writePump[c] = "loop" /\ send[c] # <<>> /\ conn[c] # "closed"
    /\ got' = [got EXCEPT ![c] = Head(send[c])]
    /\ send' = [send EXCEPT ![c] = Tail(@)]
    /\ UNCHANGED <<clients, closed, lockVars, broadcast, sendClosed, runVars,
                   bridgeVars, conn, handler, writePump, readPump, mainPc, proc>>

\* Mutant: a failed write is passed over and the pump goes on.
WriteFail_GoesOn(c) ==
    /\ Running /\ writePump[c] = "loop" /\ send[c] # <<>> /\ conn[c] # "open"
    /\ send' = [send EXCEPT ![c] = Tail(@)]
    /\ UNCHANGED <<clients, closed, lockVars, broadcast, sendClosed, runVars,
                   bridgeVars, clientVars, mainPc, proc>>

\* conn.WriteMessage fails; the deferred conn.Close() runs.
WriteFail(c) ==
    /\ Running /\ writePump[c] = "loop" /\ send[c] # <<>> /\ conn[c] # "open"
    /\ send' = [send EXCEPT ![c] = Tail(@)]
    /\ conn' = [conn EXCEPT ![c] = "closed"]
    /\ writePump' = [writePump EXCEPT ![c] = "leave"]
    /\ UNCHANGED <<clients, closed, lockVars, broadcast, sendClosed, runVars,
                   bridgeVars, handler, readPump, got, mainPc, proc>>

\* The range over client.send ends: closed and drained.
WriteClosed(c) ==
    /\ Running /\ writePump[c] = "loop" /\ send[c] = <<>> /\ sendClosed[c]
    /\ conn' = [conn EXCEPT ![c] = "closed"]
    /\ writePump' = [writePump EXCEPT ![c] = "leave"]
    /\ UNCHANGED <<clients, closed, lockVars, queueVars, runVars, bridgeVars,
                   handler, readPump, got, mainPc, proc>>

\* Mutant: the read pump ends without unregistering the client.
ReadFail_NoUnregister(c) ==
    /\ Running /\ readPump[c] = "loop" /\ conn[c] # "open"
    /\ readPump' = [readPump EXCEPT ![c] = "close"]
    /\ UNCHANGED <<clients, closed, lockVars, queueVars, runVars, bridgeVars,
                   conn, handler, writePump, got, mainPc, proc>>

\* ReadMessage fails: the peer is gone or the write pump closed the connection.
ReadFail(c) ==
    /\ Running /\ readPump[c] = "loop" /\ conn[c] # "open"
    /\ readPump' = [readPump EXCEPT ![c] = "leave"]
    /\ UNCHANGED <<clients, closed, lockVars, queueVars, runVars, bridgeVars,
                   conn, handler, writePump, got, mainPc, proc>>

\* The read pump's conn.Close(), after its unregistration was taken.
ReadClose(c) ==
    /\ Running /\ readPump[c] = "close"
    /\ readPump' = [readPump EXCEPT ![c] = "done"]
    /\ conn' = [conn EXCEPT ![c] = "closed"]
    /\ UNCHANGED <<clients, closed, lockVars, queueVars, runVars, bridgeVars,
                   handler, writePump, got, mainPc, proc>>

-----------------------------------------------------------------------------
(* main: <-ctx.Done(), bridge.Stop(), server.Shutdown(), hub.Close() *)

Signal ==
    /\ Running /\ mainPc = "serving" /\ mainPc' = "stopping"
    /\ UNCHANGED <<clients, closed, lockVars, queueVars, runVars, bridgeVars,
                   clientVars, proc>>

\* b.wg.Wait() returns once the consumer is out of onResult.
BridgeStopped ==
    /\ Running /\ mainPc = "stopping" /\ bridgePc = "idle"
    /\ mainPc' = "draining"
    /\ UNCHANGED <<clients, closed, lockVars, queueVars, runVars, bridgeVars,
                   clientVars, proc>>

\* Upgraded connections are hijacked: Shutdown does not wait for them.
ServerShutdown ==
    /\ Running /\ mainPc = "draining" /\ mainPc' = "closing"
    /\ UNCHANGED <<clients, closed, lockVars, queueVars, runVars, bridgeVars,
                   clientVars, proc>>

\* Mutant: main takes the read lock first and keeps it.
CloseLocks_WhileReading ==
    /\ Running /\ mainPc = "closing" /\ Announce("main")
    /\ readers' = readers \cup {"run"}
    /\ UNCHANGED <<clients, closed, queueVars, runVars, bridgeVars,
                   clientVars, mainPc, proc>>

\* Close calls h.mu.Lock().
CloseLocks ==
    /\ Running /\ mainPc = "closing" /\ Announce("main")
    /\ UNCHANGED <<clients, closed, readers, queueVars, runVars, bridgeVars,
                   clientVars, mainPc, proc>>

Close ==
    /\ Running /\ mainPc = "closing" /\ Exclusive("main") /\ Unlock
    /\ closed' = TRUE
    /\ sendClosed' = [c \in Clients |-> sendClosed[c] \/ c \in clients]
    /\ clients' = {}
    /\ PanicIf(\E c \in clients : sendClosed[c])
    /\ mainPc' = "closed"
    /\ UNCHANGED <<broadcast, send, runVars, bridgeVars, clientVars>>

Exit ==
    /\ Running /\ mainPc = "closed" /\ proc' = "exited"
    /\ UNCHANGED <<clients, closed, lockVars, queueVars, runVars, bridgeVars,
                   clientVars, mainPc>>

-----------------------------------------------------------------------------
RunStep ==
    \/ \E c \in Clients : \/ RunTakesRegister(c) \/ RunTakesUnregister(c)
                          \/ Offer(c) \/ FindFull(c)
    \/ RunLocks \/ AddClient \/ RemoveClient \/ CountClients
    \/ TakeMessage \/ FanLock \/ FanDone \/ Kick

\* What is broadcast is the result last stored.
BridgeStep == OnResult \/ BroadcastLock \/ BroadcastSend(stored)

WriteEnds(c) == WriteFail(c) \/ WriteClosed(c)

ReadStep(c) == ReadFail(c) \/ ReadClose(c)

MainStep == BridgeStopped \/ ServerShutdown \/ CloseLocks \/ Close \/ Exit

Stopped == ~Running /\ UNCHANGED vars

Next ==
    \/ RunStep \/ PredictAnswers \/ BridgeStep \/ Signal \/ MainStep
    \/ \E c \in Clients : \/ Connect(c) \/ Disconnect(c) \/ WriteMsg(c)
                          \/ WriteEnds(c) \/ ReadStep(c)
    \/ Stopped

Spec == Init /\ [][Next]_vars

(* Every goroutine that can take a step takes one, as Go's scheduler does. *)
(* Nothing is assumed of the signal, of new results, of new connections,   *)
(* of disconnections, nor (but in PeersRead) of how fast a peer reads.     *)
Fairness ==
    /\ WF_vars(RunStep) /\ WF_vars(BridgeStep) /\ WF_vars(MainStep)
    /\ \A c \in Clients : WF_vars(WriteEnds(c)) /\ WF_vars(ReadStep(c))

PeersRead == \A c \in Clients : WF_vars(WriteMsg(c))

FairSpec == Spec /\ Fairness

-----------------------------------------------------------------------------
(* Properties *)

\* A client in the map has an open channel: whoever closes client.send takes
\* the client out of h.clients in the same critical section (hub.go:56-61,
\* 72-75, 102-108).
RegisteredOpen == \A c \in clients : ~sendClosed[c]

\* A double close or a send on a closed channel takes the process down, and
\* it can happen only once Close has run: while the gateway serves, no order
\* of registrations, unregistrations and drops panics.
PanicOnlyAfterClose == proc = "panicked" => closed

\* What is queued for a client follows on, without a gap or a repetition,
\* what was written to it, through drops of other clients and the restart
\* of the range (hub.go:66-78).
FeedConsecutive ==
    \A c \in Clients : writePump[c] = "loop" =>
        \A i \in 1..Len(send[c]) : send[c][i] = got[c] + i

\* A registered client is never silently behind: everything Run has taken
\* from the channel since the client joined was written to it or is queued
\* for it, but for the message in Run's hands.
NobodyBehind ==
    \A c \in clients : writePump[c] = "loop" =>
        got[c] + Len(send[c]) =
            IF runPc \in {"fan", "range", "kick"} /\ c \notin visited
            THEN runMsg - 1 ELSE runMsg

\* The feed each client sees, as Feed.tla promises it: a client is new until
\* it enters the map, and has left when its write pump stops.
Joined(c) == c \in clients \/ sendClosed[c]

FeedState == [c \in Clients |-> IF writePump[c] \in {"leave", "done"} THEN "left"
                                ELSE IF Joined(c) THEN "live" ELSE "new"]

Feed == INSTANCE Feed WITH pos <- got, state <- FeedState
FeedSpec == Feed!Spec

\* Run waits for the write lock, the bridge holds the read lock and waits for
\* Run to empty the channel.
LockCycle ==
    /\ bridgePc = "send" /\ Len(broadcast) = BroadcastCap
    /\ runPc \in {"add", "remove", "kick"} /\ writer = "run"

\* Broadcast returns, unless the process is gone: "Broadcast sends a message
\* to all connected clients" (hub.go:84).
BroadcastReturns == bridgePc # "idle" ~> (bridgePc = "idle" \/ proc # "up")

\* Nothing moves any more: the process is gone or in that cycle.
Halted == proc # "up" \/ LockCycle

\* The lock cycle is the only thing that can keep Broadcast from returning.
BroadcastReturnsOrCycle == bridgePc # "idle" ~> (bridgePc = "idle" \/ Halted)

\* A connection that is no longer open ends both its pumps and leaves the
\* map, whether or not peers read: no goroutine and no map entry is leaked.
PumpsStop ==
    \A c \in Clients :
        (handler[c] = "served" /\ conn[c] # "open")
            ~> (\/ writePump[c] = "done" /\ readPump[c] = "done" /\ c \notin clients
                \/ Halted)

\* The shutdown sequence runs to its end once the signal is there, through
\* panics and whatever the clients do, unless it meets the lock cycle.
ShutdownCompletes == mainPc = "stopping" ~> Halted

\* If peers read, a message in the broadcast channel is written to every client
\* registered at that time, or the client is on its way out.
Delivered ==
    PeersRead =>
        \A c \in Clients, m \in 1..MaxMessages :
            (c \in clients /\ \E i \in 1..Len(broadcast) : broadcast[i] = m)
                ~> (got[c] >= m \/ writePump[c] # "loop" \/ c \notin clients \/ Halted)
=============================================================================
