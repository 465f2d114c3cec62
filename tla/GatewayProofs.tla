--------------------------- MODULE GatewayProofs ---------------------------
(***************************************************************************)
(* Theorems about Hub and, on top of them, about Gateway, which extends    *)
(* it: for any number of clients, REST handlers and results and any        *)
(* channel capacities.                                                     *)
(*                                                                         *)
(* HubInv is the inductive invariant of the hub: types, what the           *)
(* goroutines know of the client in hand, and where every message is       *)
(* between the store and the connection.  Every behaviour of the gateway   *)
(* is one of the hub, of the bridge and of the store, so that what holds   *)
(* of them alone holds of them together.  CallbackInv says where the       *)
(* bridge's goroutine is in all three at once: the hub's and the store's   *)
(* own specifications number the results, in the gateway the bridge does,  *)
(* and it is this invariant that makes the gateway's steps theirs.         *)
(* ServedInv says what became of the records that may be committed.        *)
(***************************************************************************)
EXTENDS Gateway, SequenceTheorems, TLAPS

-----------------------------------------------------------------------------
(* The invariant of the hub *)

\* A client that has not joined has an open, empty channel, and Run only
\* adds such a client.
Fresh(c) == c \notin clients /\ ~sendClosed[c] /\ send[c] = <<>>

RegistrationInv ==
    /\ \A c \in Clients : ~Joined(c) => send[c] = <<>>
    /\ \A c \in Clients : conn[c] = "off" => handler[c] = "off"
    /\ \A c \in Clients :
          writePump[c] \in {"leave", "done"} \/ readPump[c] # "off"
            => handler[c] = "served"
    /\ \A c \in Clients : handler[c] # "served" => Fresh(c) /\ writePump[c] = "off"
    /\ runPc \in {"add", "remove", "kick"} => runClient \in Clients
    /\ runPc = "add" => /\ Fresh(runClient) /\ writePump[runClient] = "loop"
                        /\ handler[runClient] = "served"

\* The client Run is about to drop is in the map unless Close emptied it.
KickInv ==
    /\ runPc = "kick" => Joined(runClient)
    /\ runPc = "kick" /\ ~closed => runClient \in clients

\* Messages are numbered in the order of the store, from the last one Run
\* took, through the channel, to the one the bridge has in hand.
ChannelInv ==
    /\ \A i \in 1..Len(broadcast) : broadcast[i] = runMsg + i
    /\ runMsg + Len(broadcast) = IF bridgePc \in {"idle", "result"} THEN stored ELSE stored - 1
    /\ runPc \in {"fan", "range", "kick"} => runMsg > 0
    /\ bridgePc = "result" => stored < MaxMessages
    /\ mainPc \in {"draining", "closing", "closed"} => bridgePc = "idle"
    /\ closed => mainPc = "closed"

\* Nothing queued for a client is newer than what Run took.
QueueInv ==
    \A c \in Clients : \A i \in 1..Len(send[c]) : send[c][i] <= runMsg

HubInv ==
    /\ TypeOK /\ RegistrationInv /\ KickInv /\ ChannelInv /\ QueueInv
    /\ RegisteredOpen /\ PanicOnlyAfterClose /\ FeedConsecutive /\ NobodyBehind

-----------------------------------------------------------------------------
(* The queues of the hub *)

\* What is left of a queue when its head is taken.
LEMMA TakeFacts ==
    ASSUME NEW T, NEW q \in Seq(T), q # <<>>
    PROVE  /\ Head(q) \in T /\ Head(q) = q[1]
           /\ Tail(q) \in Seq(T) /\ Len(Tail(q)) = Len(q) - 1 /\ Len(q) \in Nat \ {0}
           /\ \A i \in 1..Len(Tail(q)) : Tail(q)[i] = q[i + 1]
  OBVIOUS

LEMMA ElementFacts ==
    ASSUME NEW T, NEW q \in Seq(T), NEW i \in 1..Len(q)
    PROVE  q[i] \in T
  OBVIOUS

\* A queue with one more element.
LEMMA PutFacts ==
    ASSUME NEW T, NEW q \in Seq(T), NEW e \in T
    PROVE  /\ Append(q, e) \in Seq(T) /\ Len(Append(q, e)) = Len(q) + 1
           /\ \A i \in 1..Len(q) : Append(q, e)[i] = q[i]
           /\ Append(q, e)[Len(q) + 1] = e
  OBVIOUS

\* The message Run takes is the one after the last it took.
LEMMA TakeAdvances ==
    ASSUME TypeOK, ChannelInv, TakeMessage
    PROVE  runMsg' = runMsg + 1
  <1>1. 1 \in 1..Len(broadcast) /\ Head(broadcast) = broadcast[1]
    BY TakeFacts DEF TypeOK, TakeMessage
  <1>2. QED
    BY <1>1 DEF ChannelInv, TakeMessage

\* The invariant holds of the empty hub.
LEMMA InitInv == Init => HubInv
  <1> SUFFICES ASSUME Init PROVE HubInv
    OBVIOUS
  <1> USE HubAssumption DEF HubAssumption, Init
  <1>1. TypeOK
    <2>1. /\ <<>> \in Seq(1..MaxMessages) /\ Len(<<>>) = 0
          /\ BroadcastCap >= 0 /\ SendCap >= 0
      OBVIOUS
    <2>2. /\ send \in [Clients -> Seq(1..MaxMessages)]
          /\ \A c \in Clients : Len(send[c]) <= SendCap
      BY <2>1
    <2>3. /\ got \in [Clients -> 0..MaxMessages]
          /\ stored \in 0..MaxMessages /\ runMsg \in 0..MaxMessages
      OBVIOUS
    <2>4. /\ sendClosed \in [Clients -> BOOLEAN]
          /\ conn \in [Clients -> {"off", "open", "gone", "closed"}]
          /\ handler \in [Clients -> {"off", "registering", "served"}]
          /\ writePump \in [Clients -> {"off", "loop", "leave", "done"}]
          /\ readPump \in [Clients -> {"off", "loop", "leave", "close", "done"}]
      OBVIOUS
    <2>5. QED
      BY <2>1, <2>2, <2>3, <2>4 DEF TypeOK
  <1>2. RegistrationInv /\ KickInv
    BY DEF RegistrationInv, KickInv, Fresh, Joined
  <1>3. ChannelInv /\ QueueInv
    BY DEF ChannelInv, QueueInv
  <1>4. RegisteredOpen /\ PanicOnlyAfterClose /\ FeedConsecutive /\ NobodyBehind
    BY DEF RegisteredOpen, PanicOnlyAfterClose, FeedConsecutive, NobodyBehind
  <1>5. QED
    BY <1>1, <1>2, <1>3, <1>4 DEF HubInv

-----------------------------------------------------------------------------
(* The hub's inductive step *)

\* Types are preserved: message numbers stay below the bound because what is
\* in the channel was stored.
LEMMA TypeStep == HubInv /\ [Next]_vars => TypeOK'
  <1> SUFFICES ASSUME HubInv, [Next]_vars PROVE TypeOK'
    OBVIOUS
  <1> USE HubAssumption DEF HubAssumption, HubInv, TypeOK, lockVars, runVars,
     bridgeVars, clientVars, queueVars
  <1>1. ASSUME NEW c \in Clients, RunTakesRegister(c) PROVE TypeOK'
    BY <1>1 DEF RunTakesRegister
  <1>2. ASSUME NEW c \in Clients, RunTakesUnregister(c) PROVE TypeOK'
    <2>1. /\ writePump' \in [Clients -> {"off", "loop", "leave", "done"}]
          /\ readPump' \in [Clients -> {"off", "loop", "leave", "close", "done"}]
      BY <1>2 DEF RunTakesUnregister
    <2>2. /\ runPc' = "remove" /\ runClient' = c
          /\ UNCHANGED <<clients, closed, lockVars, queueVars, runMsg, visited,
                         bridgeVars, conn, handler, got, mainPc, proc>>
      BY <1>2 DEF RunTakesUnregister
    <2>3. QED
      BY <2>1, <2>2
  <1>3. ASSUME NEW c \in Clients, Offer(c) PROVE TypeOK'
    <2>1. /\ send[c] \in Seq(1..MaxMessages) /\ Len(send[c]) + 1 <= SendCap
          /\ runMsg \in 1..MaxMessages
      BY <1>3 DEF Offer, InRange, HasRoom, ChannelInv
    <2>2. /\ Append(send[c], runMsg) \in Seq(1..MaxMessages)
          /\ Len(Append(send[c], runMsg)) <= SendCap
      BY <2>1, PutFacts
    <2>3. /\ send' \in [Clients -> Seq(1..MaxMessages)]
          /\ \A d \in Clients : Len(send'[d]) <= SendCap
      BY <1>3, <2>2 DEF Offer
    <2>4. visited' \subseteq Clients /\ proc' \in {"up", "panicked", "exited"}
      BY <1>3 DEF Offer, PanicIf
    <2>5. QED
      BY <1>3, <2>3, <2>4, SMTT(30) DEF Offer
  <1>4. ASSUME NEW c \in Clients, FindFull(c) PROVE TypeOK'
    BY <1>4 DEF FindFull, InRange, RUnlock, PanicIf
  <1>5. CASE RunLocks
    BY <1>5 DEF RunLocks, Announce
  <1>6. CASE AddClient
    BY <1>6 DEF AddClient, Unlock, RegistrationInv
  <1>7. CASE RemoveClient
    BY <1>7 DEF RemoveClient, Unlock, Registered, PanicIf
  <1>8. CASE CountClients
    BY <1>8 DEF CountClients
  <1>9. CASE TakeMessage
    BY <1>9, TakeFacts DEF TakeMessage
  <1>10. CASE FanLock
    BY <1>10 DEF FanLock, RLock
  <1>11. CASE FanDone
    BY <1>11 DEF FanDone, RUnlock
  <1>12. CASE Kick
    BY <1>12 DEF Kick, Unlock, PanicIf, RegistrationInv
  <1>13. CASE PredictAnswers \/ OnResult
    <2>1. bridgePc' \in {"result", "lock"} /\ stored' \in 0..MaxMessages
      BY <1>13 DEF PredictAnswers, OnResult, ChannelInv
    <2>2. UNCHANGED <<clients, closed, lockVars, queueVars, runVars, clientVars,
                      mainPc, proc>>
      BY <1>13 DEF PredictAnswers, OnResult
    <2>3. QED
      BY <2>1, <2>2
  <1>14. CASE BroadcastLock
    BY <1>14 DEF BroadcastLock, RLock
  <1>15. CASE BroadcastSend(stored)
    <2>1. /\ stored \in 1..MaxMessages /\ Len(broadcast) + 1 <= BroadcastCap
          /\ broadcast' = Append(broadcast, stored)
      BY <1>15 DEF BroadcastSend, ChannelInv
    <2>2. broadcast' \in Seq(1..MaxMessages) /\ Len(broadcast') <= BroadcastCap
      BY <2>1, PutFacts
    <2>3. QED
      BY <1>15, <2>2 DEF BroadcastSend, RUnlock
  <1>16. ASSUME NEW c \in Clients, Connect(c) PROVE TypeOK'
    BY <1>16 DEF Connect
  <1>17. ASSUME NEW c \in Clients, Disconnect(c) PROVE TypeOK'
    BY <1>17 DEF Disconnect
  <1>18. ASSUME NEW c \in Clients, WriteMsg(c) PROVE TypeOK'
    <2>1. /\ send[c] \in Seq(1..MaxMessages) /\ send[c] # <<>>
          /\ Len(send[c]) <= SendCap
      BY <1>18 DEF WriteMsg
    <2>2. /\ Head(send[c]) \in 1..MaxMessages /\ Tail(send[c]) \in Seq(1..MaxMessages)
          /\ Len(Tail(send[c])) <= SendCap
      BY <2>1, TakeFacts
    <2>3. /\ got' = [got EXCEPT ![c] = Head(send[c])]
          /\ send' = [send EXCEPT ![c] = Tail(send[c])]
          /\ UNCHANGED <<clients, closed, lockVars, broadcast, sendClosed, runVars,
                         bridgeVars, conn, handler, writePump, readPump, mainPc, proc>>
      BY <1>18 DEF WriteMsg
    <2>4. got' \in [Clients -> 0..MaxMessages]
      <3>1. Head(send[c]) \in 0..MaxMessages /\ got \in [Clients -> 0..MaxMessages]
        BY <2>2
      <3>2. QED
        BY <2>3, <3>1, Zenon
    <2>5. /\ send' \in [Clients -> Seq(1..MaxMessages)]
          /\ \A d \in Clients : Len(send'[d]) <= SendCap
      BY <2>2, <2>3
    <2>6. UNCHANGED <<writer, readers, runPc, runClient, runMsg, visited, bridgePc, stored>>
      BY <2>3
    <2>7. QED
      BY <2>3, <2>4, <2>5, <2>6, SMTT(30)
  <1>19. ASSUME NEW c \in Clients, WriteFail(c) PROVE TypeOK'
    BY <1>19, TakeFacts DEF WriteFail
  <1>20. ASSUME NEW c \in Clients, WriteClosed(c) PROVE TypeOK'
    BY <1>20 DEF WriteClosed
  <1>21. ASSUME NEW c \in Clients, ReadFail(c) PROVE TypeOK'
    BY <1>21 DEF ReadFail
  <1>22. ASSUME NEW c \in Clients, ReadClose(c) PROVE TypeOK'
    BY <1>22 DEF ReadClose
  <1>23. CASE Signal
    BY <1>23 DEF Signal
  <1>24. CASE BridgeStopped
    BY <1>24 DEF BridgeStopped
  <1>25. CASE ServerShutdown
    BY <1>25 DEF ServerShutdown
  <1>26. CASE CloseLocks
    BY <1>26 DEF CloseLocks, Announce
  <1>27. CASE Close
    BY <1>27 DEF Close, Unlock, PanicIf
  <1>28. CASE Exit
    BY <1>28 DEF Exit
  <1>29. CASE UNCHANGED vars
    BY <1>29 DEF vars
  <1>30. QED
    BY <1>1, <1>2, <1>3, <1>4, <1>5, <1>6, <1>7, <1>8, <1>9, <1>10, <1>11,
       <1>12, <1>13, <1>14, <1>15, <1>16, <1>17, <1>18, <1>19, <1>20, <1>21,
       <1>22, <1>23, <1>24, <1>25, <1>26, <1>27, <1>28, <1>29
    DEF Next, RunStep, BridgeStep, WriteEnds, ReadStep, MainStep, Stopped

\* A client reaches the map once, from its handler, with a fresh channel.
LEMMA RegistrationStep == HubInv /\ [Next]_vars => RegistrationInv'
  <1> SUFFICES ASSUME HubInv, [Next]_vars PROVE RegistrationInv'
    OBVIOUS
  <1> USE DEF HubInv, TypeOK, RegistrationInv, Joined, Fresh, lockVars,
     runVars, bridgeVars, clientVars, queueVars
  <1>1. ASSUME NEW c \in Clients, RunTakesRegister(c) PROVE RegistrationInv'
    BY <1>1 DEF RunTakesRegister
  <1>2. ASSUME NEW c \in Clients, RunTakesUnregister(c) PROVE RegistrationInv'
    BY <1>2 DEF RunTakesUnregister
  <1>3. ASSUME NEW c \in Clients, Offer(c) PROVE RegistrationInv'
    BY <1>3 DEF Offer, InRange
  <1>4. ASSUME NEW c \in Clients, FindFull(c) PROVE RegistrationInv'
    BY <1>4 DEF FindFull, InRange
  <1>5. CASE RunLocks
    BY <1>5 DEF RunLocks
  <1>6. CASE AddClient
    BY <1>6 DEF AddClient
  <1>7. CASE RemoveClient
    BY <1>7 DEF RemoveClient, Registered
  <1>8. CASE CountClients
    BY <1>8 DEF CountClients
  <1>9. CASE TakeMessage
    BY <1>9 DEF TakeMessage
  <1>10. CASE FanLock
    BY <1>10 DEF FanLock
  <1>11. CASE FanDone
    BY <1>11 DEF FanDone
  <1>12. CASE Kick
    BY <1>12 DEF Kick, KickInv
  <1>13. CASE PredictAnswers \/ OnResult
    BY <1>13 DEF PredictAnswers, OnResult
  <1>14. CASE BroadcastLock
    BY <1>14 DEF BroadcastLock
  <1>15. CASE BroadcastSend(stored)
    BY <1>15 DEF BroadcastSend
  <1>16. ASSUME NEW c \in Clients, Connect(c) PROVE RegistrationInv'
    BY <1>16 DEF Connect
  <1>17. ASSUME NEW c \in Clients, Disconnect(c) PROVE RegistrationInv'
    BY <1>17 DEF Disconnect
  <1>18. ASSUME NEW c \in Clients, WriteMsg(c) PROVE RegistrationInv'
    BY <1>18 DEF WriteMsg
  <1>19. ASSUME NEW c \in Clients, WriteFail(c) PROVE RegistrationInv'
    BY <1>19 DEF WriteFail
  <1>20. ASSUME NEW c \in Clients, WriteClosed(c) PROVE RegistrationInv'
    <2>1. handler[c] = "served" /\ (runPc = "add" => runClient # c)
      BY <1>20 DEF WriteClosed
    <2>2. /\ writePump' = [writePump EXCEPT ![c] = "leave"]
          /\ conn' = [conn EXCEPT ![c] = "closed"]
          /\ UNCHANGED <<clients, send, sendClosed, handler, readPump, runPc, runClient>>
      BY <1>20 DEF WriteClosed
    <2>3. QED
      BY <2>1, <2>2
  <1>21. ASSUME NEW c \in Clients, ReadFail(c) PROVE RegistrationInv'
    BY <1>21 DEF ReadFail
  <1>22. ASSUME NEW c \in Clients, ReadClose(c) PROVE RegistrationInv'
    BY <1>22 DEF ReadClose
  <1>23. CASE Signal
    BY <1>23 DEF Signal
  <1>24. CASE BridgeStopped
    BY <1>24 DEF BridgeStopped
  <1>25. CASE ServerShutdown
    BY <1>25 DEF ServerShutdown
  <1>26. CASE CloseLocks
    BY <1>26 DEF CloseLocks
  <1>27. CASE Close
    BY <1>27 DEF Close
  <1>28. CASE Exit
    BY <1>28 DEF Exit
  <1>29. CASE UNCHANGED vars
    BY <1>29 DEF vars
  <1>30. QED
    BY <1>1, <1>2, <1>3, <1>4, <1>5, <1>6, <1>7, <1>8, <1>9, <1>10, <1>11,
       <1>12, <1>13, <1>14, <1>15, <1>16, <1>17, <1>18, <1>19, <1>20, <1>21,
       <1>22, <1>23, <1>24, <1>25, <1>26, <1>27, <1>28, <1>29
    DEF Next, RunStep, BridgeStep, WriteEnds, ReadStep, MainStep, Stopped

\* Only Close can take the client away that Run is about to drop.
LEMMA KickStep == HubInv /\ [Next]_vars => KickInv'
  <1> SUFFICES ASSUME HubInv, [Next]_vars PROVE KickInv'
    OBVIOUS
  <1> USE DEF HubInv, TypeOK, RegistrationInv, KickInv, Joined, lockVars,
     runVars, bridgeVars, clientVars, queueVars
  <1>1. ASSUME NEW c \in Clients, RunTakesRegister(c) PROVE KickInv'
    BY <1>1 DEF RunTakesRegister
  <1>2. ASSUME NEW c \in Clients, RunTakesUnregister(c) PROVE KickInv'
    BY <1>2 DEF RunTakesUnregister
  <1>3. ASSUME NEW c \in Clients, Offer(c) PROVE KickInv'
    BY <1>3 DEF Offer, InRange
  <1>4. ASSUME NEW c \in Clients, FindFull(c) PROVE KickInv'
    BY <1>4 DEF FindFull, InRange
  <1>5. CASE RunLocks
    BY <1>5 DEF RunLocks
  <1>6. CASE AddClient
    BY <1>6 DEF AddClient
  <1>7. CASE RemoveClient
    BY <1>7 DEF RemoveClient, Registered
  <1>8. CASE CountClients
    BY <1>8 DEF CountClients
  <1>9. CASE TakeMessage
    BY <1>9 DEF TakeMessage
  <1>10. CASE FanLock
    BY <1>10 DEF FanLock
  <1>11. CASE FanDone
    BY <1>11 DEF FanDone
  <1>12. CASE Kick
    BY <1>12 DEF Kick
  <1>13. CASE PredictAnswers \/ OnResult
    BY <1>13 DEF PredictAnswers, OnResult
  <1>14. CASE BroadcastLock
    BY <1>14 DEF BroadcastLock
  <1>15. CASE BroadcastSend(stored)
    BY <1>15 DEF BroadcastSend
  <1>16. ASSUME NEW c \in Clients, Connect(c) PROVE KickInv'
    BY <1>16 DEF Connect
  <1>17. ASSUME NEW c \in Clients, Disconnect(c) PROVE KickInv'
    BY <1>17 DEF Disconnect
  <1>18. ASSUME NEW c \in Clients, WriteMsg(c) PROVE KickInv'
    BY <1>18 DEF WriteMsg
  <1>19. ASSUME NEW c \in Clients, WriteFail(c) PROVE KickInv'
    BY <1>19 DEF WriteFail
  <1>20. ASSUME NEW c \in Clients, WriteClosed(c) PROVE KickInv'
    BY <1>20 DEF WriteClosed
  <1>21. ASSUME NEW c \in Clients, ReadFail(c) PROVE KickInv'
    BY <1>21 DEF ReadFail
  <1>22. ASSUME NEW c \in Clients, ReadClose(c) PROVE KickInv'
    BY <1>22 DEF ReadClose
  <1>23. CASE Signal
    BY <1>23 DEF Signal
  <1>24. CASE BridgeStopped
    BY <1>24 DEF BridgeStopped
  <1>25. CASE ServerShutdown
    BY <1>25 DEF ServerShutdown
  <1>26. CASE CloseLocks
    BY <1>26 DEF CloseLocks
  <1>27. CASE Close
    BY <1>27 DEF Close
  <1>28. CASE Exit
    BY <1>28 DEF Exit
  <1>29. CASE UNCHANGED vars
    BY <1>29 DEF vars
  <1>30. QED
    BY <1>1, <1>2, <1>3, <1>4, <1>5, <1>6, <1>7, <1>8, <1>9, <1>10, <1>11,
       <1>12, <1>13, <1>14, <1>15, <1>16, <1>17, <1>18, <1>19, <1>20, <1>21,
       <1>22, <1>23, <1>24, <1>25, <1>26, <1>27, <1>28, <1>29
    DEF Next, RunStep, BridgeStep, WriteEnds, ReadStep, MainStep, Stopped

\* The channel holds the results between the last one taken and the last
\* one sent, in order.
LEMMA ChannelStep == HubInv /\ [Next]_vars => ChannelInv'
  <1> SUFFICES ASSUME HubInv, [Next]_vars PROVE ChannelInv'
    OBVIOUS
  <1> USE DEF HubInv, TypeOK, ChannelInv, lockVars, runVars, bridgeVars,
     clientVars, queueVars
  <1>1. ASSUME NEW c \in Clients, RunTakesRegister(c) PROVE ChannelInv'
    BY <1>1 DEF RunTakesRegister
  <1>2. ASSUME NEW c \in Clients, RunTakesUnregister(c) PROVE ChannelInv'
    BY <1>2 DEF RunTakesUnregister
  <1>3. ASSUME NEW c \in Clients, Offer(c) PROVE ChannelInv'
    BY <1>3 DEF Offer, InRange
  <1>4. ASSUME NEW c \in Clients, FindFull(c) PROVE ChannelInv'
    BY <1>4 DEF FindFull, InRange
  <1>5. CASE RunLocks
    BY <1>5 DEF RunLocks
  <1>6. CASE AddClient
    BY <1>6 DEF AddClient
  <1>7. CASE RemoveClient
    BY <1>7 DEF RemoveClient
  <1>8. CASE CountClients
    BY <1>8 DEF CountClients
  <1>9. CASE TakeMessage
    <2>1. runMsg' = runMsg + 1 /\ Len(broadcast') = Len(broadcast) - 1
      BY <1>9, TakeFacts, TakeAdvances DEF TakeMessage
    <2>2. \A i \in 1..Len(broadcast') : broadcast'[i] = runMsg' + i
      <3> SUFFICES ASSUME NEW i \in 1..Len(broadcast') PROVE broadcast'[i] = runMsg' + i
        OBVIOUS
      <3>1. broadcast'[i] = broadcast[i + 1]
        BY <1>9, TakeFacts DEF TakeMessage
      <3>2. i \in Nat /\ Len(broadcast) \in Nat /\ i + 1 \in 1..Len(broadcast)
        BY <2>1
      <3>3. QED
        BY <2>1, <3>1, <3>2
    <2>3. QED
      BY <1>9, <2>1, <2>2 DEF TakeMessage
  <1>10. CASE FanLock
    BY <1>10 DEF FanLock
  <1>11. CASE FanDone
    BY <1>11 DEF FanDone
  <1>12. CASE Kick
    BY <1>12 DEF Kick
  <1>13. CASE PredictAnswers \/ OnResult
    BY <1>13 DEF PredictAnswers, OnResult
  <1>14. CASE BroadcastLock
    BY <1>14 DEF BroadcastLock
  <1>15. CASE BroadcastSend(stored)
    <2>1. ~closed /\ stored \in 1..MaxMessages /\ broadcast' = Append(broadcast, stored)
      BY <1>15 DEF BroadcastSend
    <2>2. /\ Len(broadcast') = Len(broadcast) + 1 /\ broadcast'[Len(broadcast) + 1] = stored
          /\ \A i \in 1..Len(broadcast) : broadcast'[i] = broadcast[i]
      BY <2>1, PutFacts
    <2>3. \A i \in 1..Len(broadcast') : broadcast'[i] = runMsg + i
      <3> SUFFICES ASSUME NEW i \in 1..Len(broadcast') PROVE broadcast'[i] = runMsg + i
        OBVIOUS
      <3>1. CASE i = Len(broadcast) + 1
        BY <1>15, <2>2, <3>1 DEF BroadcastSend
      <3>2. CASE i # Len(broadcast) + 1
        <4>1. i \in 1..Len(broadcast)
          BY <2>2, <3>2
        <4>2. QED
          BY <2>2, <4>1
      <3>3. QED
        BY <3>1, <3>2
    <2>4. QED
      BY <1>15, <2>2, <2>3 DEF BroadcastSend
  <1>16. ASSUME NEW c \in Clients, Connect(c) PROVE ChannelInv'
    BY <1>16 DEF Connect
  <1>17. ASSUME NEW c \in Clients, Disconnect(c) PROVE ChannelInv'
    BY <1>17 DEF Disconnect
  <1>18. ASSUME NEW c \in Clients, WriteMsg(c) PROVE ChannelInv'
    BY <1>18 DEF WriteMsg
  <1>19. ASSUME NEW c \in Clients, WriteFail(c) PROVE ChannelInv'
    BY <1>19 DEF WriteFail
  <1>20. ASSUME NEW c \in Clients, WriteClosed(c) PROVE ChannelInv'
    BY <1>20 DEF WriteClosed
  <1>21. ASSUME NEW c \in Clients, ReadFail(c) PROVE ChannelInv'
    BY <1>21 DEF ReadFail
  <1>22. ASSUME NEW c \in Clients, ReadClose(c) PROVE ChannelInv'
    BY <1>22 DEF ReadClose
  <1>23. CASE Signal
    BY <1>23 DEF Signal
  <1>24. CASE BridgeStopped
    BY <1>24 DEF BridgeStopped
  <1>25. CASE ServerShutdown
    BY <1>25 DEF ServerShutdown
  <1>26. CASE CloseLocks
    BY <1>26 DEF CloseLocks
  <1>27. CASE Close
    BY <1>27 DEF Close
  <1>28. CASE Exit
    BY <1>28 DEF Exit
  <1>29. CASE UNCHANGED vars
    BY <1>29 DEF vars
  <1>30. QED
    BY <1>1, <1>2, <1>3, <1>4, <1>5, <1>6, <1>7, <1>8, <1>9, <1>10, <1>11,
       <1>12, <1>13, <1>14, <1>15, <1>16, <1>17, <1>18, <1>19, <1>20, <1>21,
       <1>22, <1>23, <1>24, <1>25, <1>26, <1>27, <1>28, <1>29
    DEF Next, RunStep, BridgeStep, WriteEnds, ReadStep, MainStep, Stopped

\* No client is ahead of Run.
LEMMA QueueStep == HubInv /\ [Next]_vars => QueueInv'
  <1> SUFFICES ASSUME HubInv, [Next]_vars PROVE QueueInv'
    OBVIOUS
  <1> USE DEF HubInv, TypeOK, QueueInv, lockVars, runVars, bridgeVars,
     clientVars, queueVars
  <1>1. ASSUME NEW c \in Clients, RunTakesRegister(c) PROVE QueueInv'
    BY <1>1 DEF RunTakesRegister
  <1>2. ASSUME NEW c \in Clients, RunTakesUnregister(c) PROVE QueueInv'
    BY <1>2 DEF RunTakesUnregister
  <1>3. ASSUME NEW c \in Clients, Offer(c) PROVE QueueInv'
    BY <1>3, PutFacts DEF Offer, InRange
  <1>4. ASSUME NEW c \in Clients, FindFull(c) PROVE QueueInv'
    BY <1>4 DEF FindFull
  <1>5. CASE RunLocks
    BY <1>5 DEF RunLocks
  <1>6. CASE AddClient
    BY <1>6 DEF AddClient
  <1>7. CASE RemoveClient
    BY <1>7 DEF RemoveClient
  <1>8. CASE CountClients
    BY <1>8 DEF CountClients
  <1>9. CASE TakeMessage
    <2>1. runMsg' = runMsg + 1 /\ send' = send
      BY <1>9, TakeAdvances DEF TakeMessage
    <2>2. \A d \in Clients : \A i \in 1..Len(send[d]) : send[d][i] \in 1..MaxMessages
      <3>1. \A d \in Clients : send[d] \in Seq(1..MaxMessages)
        OBVIOUS
      <3>2. QED
        BY <3>1, ElementFacts
    <2>3. QED
      BY <2>1, <2>2
  <1>10. CASE FanLock
    BY <1>10 DEF FanLock
  <1>11. CASE FanDone
    BY <1>11 DEF FanDone
  <1>12. CASE Kick
    BY <1>12 DEF Kick
  <1>13. CASE PredictAnswers \/ OnResult
    BY <1>13 DEF PredictAnswers, OnResult
  <1>14. CASE BroadcastLock
    BY <1>14 DEF BroadcastLock
  <1>15. CASE BroadcastSend(stored)
    BY <1>15 DEF BroadcastSend
  <1>16. ASSUME NEW c \in Clients, Connect(c) PROVE QueueInv'
    BY <1>16 DEF Connect
  <1>17. ASSUME NEW c \in Clients, Disconnect(c) PROVE QueueInv'
    BY <1>17 DEF Disconnect
  <1>18. ASSUME NEW c \in Clients, WriteMsg(c) PROVE QueueInv'
    BY <1>18, TakeFacts DEF WriteMsg
  <1>19. ASSUME NEW c \in Clients, WriteFail(c) PROVE QueueInv'
    BY <1>19, TakeFacts DEF WriteFail
  <1>20. ASSUME NEW c \in Clients, WriteClosed(c) PROVE QueueInv'
    BY <1>20 DEF WriteClosed
  <1>21. ASSUME NEW c \in Clients, ReadFail(c) PROVE QueueInv'
    BY <1>21 DEF ReadFail
  <1>22. ASSUME NEW c \in Clients, ReadClose(c) PROVE QueueInv'
    BY <1>22 DEF ReadClose
  <1>23. CASE Signal
    BY <1>23 DEF Signal
  <1>24. CASE BridgeStopped
    BY <1>24 DEF BridgeStopped
  <1>25. CASE ServerShutdown
    BY <1>25 DEF ServerShutdown
  <1>26. CASE CloseLocks
    BY <1>26 DEF CloseLocks
  <1>27. CASE Close
    BY <1>27 DEF Close
  <1>28. CASE Exit
    BY <1>28 DEF Exit
  <1>29. CASE UNCHANGED vars
    BY <1>29 DEF vars
  <1>30. QED
    BY <1>1, <1>2, <1>3, <1>4, <1>5, <1>6, <1>7, <1>8, <1>9, <1>10, <1>11,
       <1>12, <1>13, <1>14, <1>15, <1>16, <1>17, <1>18, <1>19, <1>20, <1>21,
       <1>22, <1>23, <1>24, <1>25, <1>26, <1>27, <1>28, <1>29
    DEF Next, RunStep, BridgeStep, WriteEnds, ReadStep, MainStep, Stopped

\* No channel of a registered client is closed, and none is closed twice.
LEMMA OpenStep == HubInv /\ [Next]_vars => (RegisteredOpen /\ PanicOnlyAfterClose)'
  <1> SUFFICES ASSUME HubInv, [Next]_vars PROVE (RegisteredOpen /\ PanicOnlyAfterClose)'
    OBVIOUS
  <1> USE DEF HubInv, TypeOK, RegisteredOpen, PanicOnlyAfterClose, Running,
     lockVars, runVars, bridgeVars, clientVars, queueVars
  <1>1. ASSUME NEW c \in Clients, RunTakesRegister(c) PROVE (RegisteredOpen /\ PanicOnlyAfterClose)'
    BY <1>1 DEF RunTakesRegister
  <1>2. ASSUME NEW c \in Clients, RunTakesUnregister(c) PROVE (RegisteredOpen /\ PanicOnlyAfterClose)'
    BY <1>2 DEF RunTakesUnregister
  <1>3. ASSUME NEW c \in Clients, Offer(c) PROVE (RegisteredOpen /\ PanicOnlyAfterClose)'
    BY <1>3 DEF Offer, PanicIf, InRange
  <1>4. ASSUME NEW c \in Clients, FindFull(c) PROVE (RegisteredOpen /\ PanicOnlyAfterClose)'
    BY <1>4 DEF FindFull, PanicIf, InRange
  <1>5. CASE RunLocks
    BY <1>5 DEF RunLocks
  <1>6. CASE AddClient
    BY <1>6 DEF AddClient, RegistrationInv, Fresh
  <1>7. CASE RemoveClient
    BY <1>7 DEF RemoveClient, PanicIf, Registered
  <1>8. CASE CountClients
    BY <1>8 DEF CountClients
  <1>9. CASE TakeMessage
    BY <1>9 DEF TakeMessage
  <1>10. CASE FanLock
    BY <1>10 DEF FanLock
  <1>11. CASE FanDone
    BY <1>11 DEF FanDone
  <1>12. CASE Kick
    BY <1>12 DEF Kick, PanicIf, KickInv
  <1>13. CASE PredictAnswers \/ OnResult
    BY <1>13 DEF PredictAnswers, OnResult
  <1>14. CASE BroadcastLock
    BY <1>14 DEF BroadcastLock
  <1>15. CASE BroadcastSend(stored)
    BY <1>15 DEF BroadcastSend
  <1>16. ASSUME NEW c \in Clients, Connect(c) PROVE (RegisteredOpen /\ PanicOnlyAfterClose)'
    BY <1>16 DEF Connect
  <1>17. ASSUME NEW c \in Clients, Disconnect(c) PROVE (RegisteredOpen /\ PanicOnlyAfterClose)'
    BY <1>17 DEF Disconnect
  <1>18. ASSUME NEW c \in Clients, WriteMsg(c) PROVE (RegisteredOpen /\ PanicOnlyAfterClose)'
    BY <1>18 DEF WriteMsg
  <1>19. ASSUME NEW c \in Clients, WriteFail(c) PROVE (RegisteredOpen /\ PanicOnlyAfterClose)'
    BY <1>19 DEF WriteFail
  <1>20. ASSUME NEW c \in Clients, WriteClosed(c) PROVE (RegisteredOpen /\ PanicOnlyAfterClose)'
    BY <1>20 DEF WriteClosed
  <1>21. ASSUME NEW c \in Clients, ReadFail(c) PROVE (RegisteredOpen /\ PanicOnlyAfterClose)'
    BY <1>21 DEF ReadFail
  <1>22. ASSUME NEW c \in Clients, ReadClose(c) PROVE (RegisteredOpen /\ PanicOnlyAfterClose)'
    BY <1>22 DEF ReadClose
  <1>23. CASE Signal
    BY <1>23 DEF Signal
  <1>24. CASE BridgeStopped
    BY <1>24 DEF BridgeStopped
  <1>25. CASE ServerShutdown
    BY <1>25 DEF ServerShutdown
  <1>26. CASE CloseLocks
    BY <1>26 DEF CloseLocks
  <1>27. CASE Close
    BY <1>27 DEF Close, PanicIf
  <1>28. CASE Exit
    BY <1>28 DEF Exit
  <1>29. CASE UNCHANGED vars
    BY <1>29 DEF vars
  <1>30. QED
    BY <1>1, <1>2, <1>3, <1>4, <1>5, <1>6, <1>7, <1>8, <1>9, <1>10, <1>11,
       <1>12, <1>13, <1>14, <1>15, <1>16, <1>17, <1>18, <1>19, <1>20, <1>21,
       <1>22, <1>23, <1>24, <1>25, <1>26, <1>27, <1>28, <1>29
    DEF Next, RunStep, BridgeStep, WriteEnds, ReadStep, MainStep, Stopped

\* A queue stays the continuation of what was written: Run appends the
\* message that follows, and a pump starts on an empty queue.
LEMMA ConsecutiveStep == HubInv /\ [Next]_vars => FeedConsecutive'
  <1> SUFFICES ASSUME HubInv, [Next]_vars PROVE FeedConsecutive'
    OBVIOUS
  <1> USE DEF HubInv, TypeOK, FeedConsecutive, lockVars, runVars, bridgeVars,
     clientVars, queueVars
  <1>1. ASSUME NEW c \in Clients, RunTakesRegister(c) PROVE FeedConsecutive'
    BY <1>1 DEF RunTakesRegister, RegistrationInv, Fresh
  <1>2. ASSUME NEW c \in Clients, RunTakesUnregister(c) PROVE FeedConsecutive'
    <2>1. UNCHANGED <<send, got>>
      BY <1>2 DEF RunTakesUnregister
    <2>2. \A d \in Clients : writePump'[d] = "loop" => writePump[d] = "loop"
      BY <1>2 DEF RunTakesUnregister
    <2>3. QED
      BY <2>1, <2>2
  <1>3. ASSUME NEW c \in Clients, Offer(c) PROVE FeedConsecutive'
    <2>1. /\ Len(send'[c]) = Len(send[c]) + 1 /\ send'[c][Len(send[c]) + 1] = runMsg
          /\ \A i \in 1..Len(send[c]) : send'[c][i] = send[c][i]
      BY <1>3, PutFacts DEF Offer
    <2>2. writePump[c] = "loop" => got[c] + Len(send[c]) + 1 = runMsg
      BY <1>3 DEF Offer, InRange, NobodyBehind
    <2>3. ASSUME writePump[c] = "loop", NEW i \in 1..Len(send'[c])
          PROVE  send'[c][i] = got[c] + i
      <3>1. CASE i = Len(send[c]) + 1
        BY <2>1, <2>2, <2>3, <3>1
      <3>2. CASE i # Len(send[c]) + 1
        <4>1. i \in 1..Len(send[c])
          BY <2>1, <3>2
        <4>2. QED
          BY <2>1, <2>3, <4>1
      <3>3. QED
        BY <3>1, <3>2
    <2>4. QED
      BY <1>3, <2>3 DEF Offer, InRange
  <1>4. ASSUME NEW c \in Clients, FindFull(c) PROVE FeedConsecutive'
    BY <1>4 DEF FindFull
  <1>5. CASE RunLocks
    BY <1>5 DEF RunLocks
  <1>6. CASE AddClient
    BY <1>6 DEF AddClient, RegistrationInv, Fresh
  <1>7. CASE RemoveClient
    BY <1>7 DEF RemoveClient
  <1>8. CASE CountClients
    BY <1>8 DEF CountClients
  <1>9. CASE TakeMessage
    BY <1>9 DEF TakeMessage
  <1>10. CASE FanLock
    BY <1>10 DEF FanLock
  <1>11. CASE FanDone
    BY <1>11 DEF FanDone
  <1>12. CASE Kick
    BY <1>12 DEF Kick
  <1>13. CASE PredictAnswers \/ OnResult
    BY <1>13 DEF PredictAnswers, OnResult
  <1>14. CASE BroadcastLock
    BY <1>14 DEF BroadcastLock
  <1>15. CASE BroadcastSend(stored)
    BY <1>15 DEF BroadcastSend
  <1>16. ASSUME NEW c \in Clients, Connect(c) PROVE FeedConsecutive'
    BY <1>16 DEF Connect
  <1>17. ASSUME NEW c \in Clients, Disconnect(c) PROVE FeedConsecutive'
    BY <1>17 DEF Disconnect
  <1>18. ASSUME NEW c \in Clients, WriteMsg(c) PROVE FeedConsecutive'
    <2>1. got'[c] = got[c] + 1
      BY <1>18, TakeFacts DEF WriteMsg
    <2>2. \A i \in 1..Len(send'[c]) : i + 1 \in 1..Len(send[c]) /\ send'[c][i] = send[c][i + 1]
      BY <1>18, TakeFacts DEF WriteMsg
    <2>3. \A i \in 1..Len(send'[c]) : send'[c][i] = got'[c] + i
      BY <1>18, <2>1, <2>2 DEF WriteMsg
    <2>4. QED
      BY <1>18, <2>3 DEF WriteMsg
  <1>19. ASSUME NEW c \in Clients, WriteFail(c) PROVE FeedConsecutive'
    BY <1>19 DEF WriteFail
  <1>20. ASSUME NEW c \in Clients, WriteClosed(c) PROVE FeedConsecutive'
    BY <1>20 DEF WriteClosed
  <1>21. ASSUME NEW c \in Clients, ReadFail(c) PROVE FeedConsecutive'
    BY <1>21 DEF ReadFail
  <1>22. ASSUME NEW c \in Clients, ReadClose(c) PROVE FeedConsecutive'
    BY <1>22 DEF ReadClose
  <1>23. CASE Signal
    BY <1>23 DEF Signal
  <1>24. CASE BridgeStopped
    BY <1>24 DEF BridgeStopped
  <1>25. CASE ServerShutdown
    BY <1>25 DEF ServerShutdown
  <1>26. CASE CloseLocks
    BY <1>26 DEF CloseLocks
  <1>27. CASE Close
    BY <1>27 DEF Close
  <1>28. CASE Exit
    BY <1>28 DEF Exit
  <1>29. CASE UNCHANGED vars
    BY <1>29 DEF vars
  <1>30. QED
    BY <1>1, <1>2, <1>3, <1>4, <1>5, <1>6, <1>7, <1>8, <1>9, <1>10, <1>11,
       <1>12, <1>13, <1>14, <1>15, <1>16, <1>17, <1>18, <1>19, <1>20, <1>21,
       <1>22, <1>23, <1>24, <1>25, <1>26, <1>27, <1>28, <1>29
    DEF Next, RunStep, BridgeStep, WriteEnds, ReadStep, MainStep, Stopped

\* A registered client misses at most the message in Run's hands.
LEMMA BehindStep == HubInv /\ [Next]_vars => NobodyBehind'
  <1> SUFFICES ASSUME HubInv, [Next]_vars PROVE NobodyBehind'
    OBVIOUS
  <1> USE DEF HubInv, TypeOK, NobodyBehind, lockVars, runVars, bridgeVars,
     clientVars, queueVars
  <1>1. ASSUME NEW c \in Clients, RunTakesRegister(c) PROVE NobodyBehind'
    BY <1>1 DEF RunTakesRegister, RegistrationInv, Fresh
  <1>2. ASSUME NEW c \in Clients, RunTakesUnregister(c) PROVE NobodyBehind'
    BY <1>2 DEF RunTakesUnregister
  <1>3. ASSUME NEW c \in Clients, Offer(c) PROVE NobodyBehind'
    BY <1>3, PutFacts DEF Offer, InRange
  <1>4. ASSUME NEW c \in Clients, FindFull(c) PROVE NobodyBehind'
    BY <1>4 DEF FindFull, InRange
  <1>5. CASE RunLocks
    BY <1>5 DEF RunLocks
  <1>6. CASE AddClient
    <2>1. /\ runClient \in Clients /\ Len(send[runClient]) = 0
          /\ got' = [got EXCEPT ![runClient] = runMsg]
          /\ clients' = clients \cup {runClient} /\ runPc' = "count"
      BY <1>6 DEF AddClient, RegistrationInv, Fresh
    <2>2. UNCHANGED <<send, writePump, runMsg, visited>> /\ runPc = "add"
      BY <1>6 DEF AddClient
    <2>3. \A d \in clients' : d # runClient =>
             d \in clients /\ got'[d] = got[d] /\ send'[d] = send[d]
      BY <2>1, <2>2
    <2>4. got'[runClient] + Len(send'[runClient]) = runMsg'
      BY <2>1, <2>2
    <2>5. QED
      BY <2>1, <2>2, <2>3, <2>4
  <1>7. CASE RemoveClient
    BY <1>7 DEF RemoveClient
  <1>8. CASE CountClients
    BY <1>8 DEF CountClients
  <1>9. CASE TakeMessage
    BY <1>9, TakeAdvances DEF TakeMessage, TakeMessage
  <1>10. CASE FanLock
    BY <1>10 DEF FanLock
  <1>11. CASE FanDone
    BY <1>11 DEF FanDone
  <1>12. CASE Kick
    BY <1>12 DEF Kick, RegistrationInv
  <1>13. CASE PredictAnswers \/ OnResult
    BY <1>13 DEF PredictAnswers, OnResult
  <1>14. CASE BroadcastLock
    BY <1>14 DEF BroadcastLock
  <1>15. CASE BroadcastSend(stored)
    BY <1>15 DEF BroadcastSend
  <1>16. ASSUME NEW c \in Clients, Connect(c) PROVE NobodyBehind'
    BY <1>16 DEF Connect
  <1>17. ASSUME NEW c \in Clients, Disconnect(c) PROVE NobodyBehind'
    BY <1>17 DEF Disconnect
  <1>18. ASSUME NEW c \in Clients, WriteMsg(c) PROVE NobodyBehind'
    <2>1. got'[c] = got[c] + 1
      BY <1>18, TakeFacts DEF WriteMsg, FeedConsecutive
    <2>2. Len(send'[c]) = Len(send[c]) - 1
      BY <1>18, TakeFacts DEF WriteMsg
    <2>3. QED
      BY <1>18, <2>1, <2>2 DEF WriteMsg
  <1>19. ASSUME NEW c \in Clients, WriteFail(c) PROVE NobodyBehind'
    BY <1>19 DEF WriteFail
  <1>20. ASSUME NEW c \in Clients, WriteClosed(c) PROVE NobodyBehind'
    BY <1>20 DEF WriteClosed
  <1>21. ASSUME NEW c \in Clients, ReadFail(c) PROVE NobodyBehind'
    BY <1>21 DEF ReadFail
  <1>22. ASSUME NEW c \in Clients, ReadClose(c) PROVE NobodyBehind'
    BY <1>22 DEF ReadClose
  <1>23. CASE Signal
    BY <1>23 DEF Signal
  <1>24. CASE BridgeStopped
    BY <1>24 DEF BridgeStopped
  <1>25. CASE ServerShutdown
    BY <1>25 DEF ServerShutdown
  <1>26. CASE CloseLocks
    BY <1>26 DEF CloseLocks
  <1>27. CASE Close
    BY <1>27 DEF Close
  <1>28. CASE Exit
    BY <1>28 DEF Exit
  <1>29. CASE UNCHANGED vars
    BY <1>29 DEF vars
  <1>30. QED
    BY <1>1, <1>2, <1>3, <1>4, <1>5, <1>6, <1>7, <1>8, <1>9, <1>10, <1>11,
       <1>12, <1>13, <1>14, <1>15, <1>16, <1>17, <1>18, <1>19, <1>20, <1>21,
       <1>22, <1>23, <1>24, <1>25, <1>26, <1>27, <1>28, <1>29
    DEF Next, RunStep, BridgeStep, WriteEnds, ReadStep, MainStep, Stopped

-----------------------------------------------------------------------------
(* Theorems about the hub *)

LEMMA HubInvStep == HubInv /\ [Next]_vars => HubInv'
  BY TypeStep, RegistrationStep, KickStep, ChannelStep, QueueStep, OpenStep,
     ConsecutiveStep, BehindStep DEF HubInv

LEMMA Inductive == Spec => []HubInv
  BY InitInv, HubInvStep, PTL DEF Spec

\* Every variable of the hub keeps its type and both channels their capacity.
THEOREM TypeCorrect == Spec => []TypeOK
  BY Inductive, PTL DEF HubInv

\* Nobody closes a registered client's channel without taking the client out
\* of the map: whatever the number of clients, Run and Close agree.
THEOREM RegisteredClientsAreOpen == Spec => []RegisteredOpen
  BY Inductive, PTL DEF HubInv

\* Before Close no schedule of Run, the bridge, the handlers and the pumps
\* closes a channel twice or sends on a closed one.
THEOREM NoPanicWhileServing == Spec => []PanicOnlyAfterClose
  BY Inductive, PTL DEF HubInv

\* What is queued for a client continues what was written to it.
THEOREM QueuesContinueTheFeed == Spec => []FeedConsecutive
  BY Inductive, PTL DEF HubInv

\* A registered client lacks at most the message Run is handing out.
THEOREM NoClientBehind == Spec => []NobodyBehind
  BY Inductive, PTL DEF HubInv

\* A step of the hub is a step of the feed or leaves the feed as it is.
LEMMA FeedStep == HubInv /\ [Next]_vars => [Feed!Next]_(Feed!vars)
  <1> SUFFICES ASSUME HubInv, [Next]_vars PROVE [Feed!Next]_(Feed!vars)
    OBVIOUS
  <1> USE DEF HubInv, TypeOK, FeedState, Joined, Feed!vars, lockVars,
     runVars, bridgeVars, clientVars, queueVars
  <1>1. ASSUME NEW c \in Clients, RunTakesRegister(c) PROVE [Feed!Next]_(Feed!vars)
    BY <1>1 DEF RunTakesRegister, RegistrationInv, Fresh
  <1>2. ASSUME NEW c \in Clients, RunTakesUnregister(c) PROVE [Feed!Next]_(Feed!vars)
    BY <1>2 DEF RunTakesUnregister
  <1>3. ASSUME NEW c \in Clients, Offer(c) PROVE [Feed!Next]_(Feed!vars)
    BY <1>3 DEF Offer, InRange
  <1>4. ASSUME NEW c \in Clients, FindFull(c) PROVE [Feed!Next]_(Feed!vars)
    BY <1>4 DEF FindFull, InRange
  <1>5. CASE RunLocks
    BY <1>5 DEF RunLocks
  <1>6. CASE AddClient
    <2>1. runClient \in Clients /\ runMsg \in 0..stored
      BY <1>6 DEF AddClient, RegistrationInv, ChannelInv
    <2>2. PICK r \in Clients : r = runClient
      BY <2>1
    <2>3. writePump[r] = "loop" /\ ~Joined(r)
      BY <1>6, <2>2 DEF AddClient, RegistrationInv, Fresh
    <2>4. /\ UNCHANGED <<stored, writePump, sendClosed>>
          /\ got' = [got EXCEPT ![r] = runMsg]
          /\ clients' = clients \cup {r}
      BY <1>6, <2>2 DEF AddClient
    <2>5. FeedState[r] = "new" /\ FeedState' = [FeedState EXCEPT ![r] = "live"]
      BY <2>3, <2>4
    <2>6. Feed!Join(r)
      BY <2>1, <2>4, <2>5 DEF Feed!Join
    <2>7. QED
      BY <2>6 DEF Feed!Next
  <1>7. CASE RemoveClient
    BY <1>7 DEF RemoveClient, Registered
  <1>8. CASE CountClients
    BY <1>8 DEF CountClients
  <1>9. CASE TakeMessage
    BY <1>9 DEF TakeMessage
  <1>10. CASE FanLock
    BY <1>10 DEF FanLock
  <1>11. CASE FanDone
    BY <1>11 DEF FanDone
  <1>12. CASE Kick
    BY <1>12 DEF Kick, KickInv
  <1>13. CASE PredictAnswers \/ OnResult
    BY <1>13 DEF PredictAnswers, OnResult, ChannelInv, Feed!Next, Feed!Store
  <1>14. CASE BroadcastLock
    BY <1>14 DEF BroadcastLock
  <1>15. CASE BroadcastSend(stored)
    BY <1>15 DEF BroadcastSend
  <1>16. ASSUME NEW c \in Clients, Connect(c) PROVE [Feed!Next]_(Feed!vars)
    BY <1>16 DEF Connect
  <1>17. ASSUME NEW c \in Clients, Disconnect(c) PROVE [Feed!Next]_(Feed!vars)
    BY <1>17 DEF Disconnect
  <1>18. ASSUME NEW c \in Clients, WriteMsg(c) PROVE [Feed!Next]_(Feed!vars)
    <2>1. /\ Head(send[c]) = send[c][1] /\ 1 \in 1..Len(send[c])
      BY <1>18, TakeFacts DEF WriteMsg
    <2>2. send[c][1] = got[c] + 1 /\ send[c][1] <= runMsg
      BY <1>18, <2>1 DEF WriteMsg, FeedConsecutive, QueueInv
    <2>3. runMsg <= stored
      BY DEF ChannelInv
    <2>4. got[c] < stored
      <3>1. got[c] \in Nat /\ runMsg \in Nat /\ stored \in Nat
        OBVIOUS
      <3>2. QED
        BY <2>2, <2>3, <3>1
    <2>5. /\ got' = [got EXCEPT ![c] = got[c] + 1]
          /\ UNCHANGED <<stored, writePump, sendClosed, clients>>
      BY <1>18, <2>1, <2>2 DEF WriteMsg
    <2>6. FeedState[c] = "live" /\ FeedState' = FeedState
      BY <1>18, <2>5 DEF WriteMsg, RegistrationInv
    <2>7. Feed!Receive(c)
      BY <2>4, <2>5, <2>6 DEF Feed!Receive
    <2>8. QED
      BY <2>7 DEF Feed!Next
  <1>19. ASSUME NEW c \in Clients, WriteFail(c) PROVE [Feed!Next]_(Feed!vars)
    <2>1. FeedState[c] = "live" /\ FeedState' = [FeedState EXCEPT ![c] = "left"]
      BY <1>19 DEF WriteFail, RegistrationInv
    <2>2. Feed!Leave(c)
      BY <1>19, <2>1 DEF WriteFail, Feed!Leave
    <2>3. QED
      BY <2>2 DEF Feed!Next
  <1>20. ASSUME NEW c \in Clients, WriteClosed(c) PROVE [Feed!Next]_(Feed!vars)
    <2>1. FeedState[c] = "live" /\ FeedState' = [FeedState EXCEPT ![c] = "left"]
      BY <1>20 DEF WriteClosed
    <2>2. Feed!Leave(c)
      BY <1>20, <2>1 DEF WriteClosed, Feed!Leave
    <2>3. QED
      BY <2>2 DEF Feed!Next
  <1>21. ASSUME NEW c \in Clients, ReadFail(c) PROVE [Feed!Next]_(Feed!vars)
    BY <1>21 DEF ReadFail
  <1>22. ASSUME NEW c \in Clients, ReadClose(c) PROVE [Feed!Next]_(Feed!vars)
    BY <1>22 DEF ReadClose
  <1>23. CASE Signal
    BY <1>23 DEF Signal
  <1>24. CASE BridgeStopped
    BY <1>24 DEF BridgeStopped
  <1>25. CASE ServerShutdown
    BY <1>25 DEF ServerShutdown
  <1>26. CASE CloseLocks
    BY <1>26 DEF CloseLocks
  <1>27. CASE Close
    BY <1>27 DEF Close
  <1>28. CASE Exit
    BY <1>28 DEF Exit
  <1>29. CASE UNCHANGED vars
    BY <1>29 DEF vars
  <1>30. QED
    BY <1>1, <1>2, <1>3, <1>4, <1>5, <1>6, <1>7, <1>8, <1>9, <1>10, <1>11,
       <1>12, <1>13, <1>14, <1>15, <1>16, <1>17, <1>18, <1>19, <1>20, <1>21,
       <1>22, <1>23, <1>24, <1>25, <1>26, <1>27, <1>28, <1>29
    DEF Next, RunStep, BridgeStep, WriteEnds, ReadStep, MainStep, Stopped

\* The hub implements the feed: every client gets, from where it joined on,
\* every stored result once and in order until it leaves.
THEOREM HubImplementsFeed == Spec => FeedSpec
  <1>1. Init => Feed!Init
    BY DEF Init, Feed!Init, FeedState, Joined
  <1>2. HubInv /\ [Next]_vars => [Feed!Next]_(Feed!vars)
    BY FeedStep
  <1>3. QED
    BY Inductive, <1>1, <1>2, PTL DEF Spec, FeedSpec, Feed!Spec

-----------------------------------------------------------------------------
(* The lock cycle *)

\* The bridge sends with the read lock held.
ReaderInv == bridgePc = "send" => "bridge" \in readers

\* Nobody but the bridge gives up the bridge's read lock.
LEMMA ReaderStep == ReaderInv /\ [Next]_vars => ReaderInv'
  <1> SUFFICES ASSUME ReaderInv, [Next]_vars PROVE ReaderInv'
    OBVIOUS
  <1> USE DEF ReaderInv, RLock, RUnlock, Announce, Unlock, Exclusive,
     lockVars, runVars, bridgeVars, clientVars, queueVars
  <1>1. CASE BroadcastLock \/ BroadcastSend(stored)
    BY <1>1 DEF BroadcastLock, BroadcastSend
  <1>2. CASE RunStep
    BY <1>2 DEF RunStep, RunTakesRegister, RunTakesUnregister, Offer, FindFull,
       RunLocks, AddClient, RemoveClient, CountClients, TakeMessage, FanLock,
       FanDone, Kick
  <1>3. CASE MainStep \/ Signal
    BY <1>3 DEF MainStep, Signal, BridgeStopped, ServerShutdown, CloseLocks,
       Close, Exit
  <1>4. CASE PredictAnswers \/ OnResult
    BY <1>4 DEF PredictAnswers, OnResult
  <1>5. ASSUME NEW c \in Clients,
               \/ Connect(c) \/ Disconnect(c) \/ WriteMsg(c)
               \/ WriteEnds(c) \/ ReadStep(c)
        PROVE  ReaderInv'
    BY <1>5 DEF Connect, Disconnect, WriteMsg, WriteEnds, WriteFail, WriteClosed,
       ReadStep, ReadFail, ReadClose
  <1>6. CASE UNCHANGED vars
    BY <1>6 DEF vars
  <1>7. QED
    BY <1>1, <1>2, <1>3, <1>4, <1>5, <1>6 DEF Next, BridgeStep, Stopped

\* No step of any goroutine, client or signal ends the cycle.
LEMMA CycleStep == HubInv /\ ReaderInv /\ LockCycle /\ [Next]_vars => LockCycle'
  <1> SUFFICES ASSUME HubInv, ReaderInv, LockCycle, [Next]_vars PROVE LockCycle'
    OBVIOUS
  <1> USE DEF LockCycle, ReaderInv, RLock, RUnlock, Announce, Unlock, Exclusive,
     lockVars, runVars, bridgeVars, clientVars, queueVars
  <1>1. CASE BroadcastLock \/ BroadcastSend(stored)
    <2>1. ~closed
      BY DEF HubInv, ChannelInv
    <2>2. Len(broadcast) = BroadcastCap /\ BroadcastCap \in Nat
      BY HubAssumption DEF HubAssumption
    <2>3. QED
      BY <1>1, <2>1, <2>2 DEF BroadcastLock, BroadcastSend
  <1>2. CASE RunStep
    BY <1>2 DEF RunStep, RunTakesRegister, RunTakesUnregister, Offer, FindFull,
       InRange, RunLocks, AddClient, RemoveClient, CountClients, TakeMessage,
       FanLock, FanDone, Kick
  <1>3. CASE MainStep \/ Signal
    BY <1>3 DEF MainStep, Signal, BridgeStopped, ServerShutdown, CloseLocks,
       Close, Exit
  <1>4. CASE PredictAnswers \/ OnResult
    BY <1>4 DEF PredictAnswers, OnResult
  <1>5. ASSUME NEW c \in Clients,
               \/ Connect(c) \/ Disconnect(c) \/ WriteMsg(c)
               \/ WriteEnds(c) \/ ReadStep(c)
        PROVE  LockCycle'
    BY <1>5 DEF Connect, Disconnect, WriteMsg, WriteEnds, WriteFail, WriteClosed,
       ReadStep, ReadFail, ReadClose
  <1>6. CASE UNCHANGED vars
    BY <1>6 DEF vars
  <1>7. QED
    BY <1>1, <1>2, <1>3, <1>4, <1>5, <1>6 DEF Next, BridgeStep, Stopped

\* The cycle in which Broadcast holds the read lock Run waits for, while it
\* waits for Run to take a message (hub.go:89), is never left: neither
\* goroutine moves again, and bridge.Stop waits for ever.
THEOREM LockCycleIsForever == Spec => [][LockCycle => LockCycle']_vars
  <1>1. Init => ReaderInv
    BY DEF Init, ReaderInv
  <1>2. ReaderInv /\ [Next]_vars => ReaderInv'
    BY ReaderStep
  <1>3. HubInv /\ ReaderInv /\ [Next]_vars => [LockCycle => LockCycle']_vars
    BY CycleStep
  <1>4. QED
    BY Inductive, <1>1, <1>2, <1>3, PTL DEF Spec

-----------------------------------------------------------------------------
(* The invariant of the gateway *)

\* The goroutine is in onResult exactly while the loop emits, adds a result
\* only there, and has stored what it counted but for the one in hand.
CallbackInv ==
    /\ loop = "emit" <=> bridgePc # "idle"
    /\ counter = IF bridgePc = "result" THEN stored + 1 ELSE stored
    /\ adder = "lock" => bridgePc = "result" /\ adding.id = counter
    /\ "len" \in DOMAIN slice /\ slice.len = stored
    /\ DOMAIN byID = 1..stored
    /\ \A r \in results : r.run = run => r.id \in 1..stored

\* Nothing was written to a client that Run had not taken.
GotInv == \A c \in Clients : got[c] <= runMsg

GatewayInv == HubInv /\ GotInv /\ CallbackInv

-----------------------------------------------------------------------------
(* What a client has been sent *)

LEMMA GotStep == HubInv /\ GotInv /\ [Next]_vars => GotInv'
  <1> SUFFICES ASSUME HubInv, GotInv, [Next]_vars PROVE GotInv'
    OBVIOUS
  <1> USE DEF HubInv, TypeOK
  <1>1. runMsg \in Nat /\ got \in [Clients -> 0..MaxMessages]
    OBVIOUS
  <1>2. CASE AddClient
    BY <1>1, <1>2 DEF AddClient, GotInv
  <1>3. CASE TakeMessage
    <2>1. runMsg' = runMsg + 1 /\ got' = got
      BY <1>3, TakeAdvances DEF TakeMessage, clientVars
    <2>2. QED
      BY <1>1, <2>1 DEF GotInv
  <1>4. ASSUME NEW c \in Clients, WriteMsg(c) PROVE GotInv'
    <2>1. send[c] \in Seq(1..MaxMessages) /\ send[c] # <<>>
      BY <1>4 DEF WriteMsg
    <2>2. 1 \in 1..Len(send[c]) /\ Head(send[c]) = send[c][1]
      BY <2>1, TakeFacts
    <2>3. Head(send[c]) <= runMsg
      BY <2>2 DEF QueueInv
    <2>4. QED
      BY <1>1, <1>4, <2>3 DEF WriteMsg, GotInv, runVars
  <1>5. CASE RunStep /\ ~AddClient /\ ~TakeMessage
    BY <1>5 DEF RunStep, RunTakesRegister, RunTakesUnregister, Offer, FindFull, RunLocks,
       RemoveClient, CountClients, FanLock, FanDone, Kick, GotInv, runVars, clientVars
  <1>6. CASE PredictAnswers \/ BridgeStep \/ Signal \/ MainStep
    BY <1>6 DEF PredictAnswers, BridgeStep, OnResult, BroadcastLock, BroadcastSend, Signal,
       MainStep, BridgeStopped, ServerShutdown, CloseLocks, Close, Exit, GotInv, runVars,
       clientVars
  <1>7. ASSUME NEW c \in Clients, Connect(c) \/ Disconnect(c) \/ WriteEnds(c) \/ ReadStep(c)
        PROVE  GotInv'
    BY <1>7 DEF Connect, Disconnect, WriteEnds, WriteFail, WriteClosed, ReadStep, ReadFail,
       ReadClose, GotInv, runVars
  <1>8. CASE Stopped \/ UNCHANGED vars
    BY <1>8 DEF Stopped, vars, GotInv, runVars, clientVars
  <1>9. QED
    BY <1>2, <1>3, <1>4, <1>5, <1>6, <1>7, <1>8 DEF Next

-----------------------------------------------------------------------------
(* The bridge's goroutine in all three components *)

LEMMA CallbackInit == GatewayInit => CallbackInv
  BY DEF GatewayInit, Init, B!Init, S!Init, CallbackInv

LEMMA CallbackStep == HubInv /\ CallbackInv /\ [GatewayNext]_gatewayVars => CallbackInv'
  <1> SUFFICES ASSUME HubInv, CallbackInv, [GatewayNext]_gatewayVars PROVE CallbackInv'
    OBVIOUS
  <1>1. stored \in Nat
    BY HubAssumption DEF HubInv, TypeOK, HubAssumption
  <1> USE <1>1 DEF CallbackInv, hubVars, consumerVars, storeVars, bridgeVars
  <1>2. CASE Consume
    BY <1>2 DEF Consume, B!CheckContext, B!EnterPoll, B!PollCancelled, B!BatchDone,
       B!CallPredict, B!Settle, B!historyVars, vars
  <1>3. CASE CallAdd
    BY <1>3 DEF CallAdd, S!CallAdd, S!memory, vars
  <1>4. CASE AddResult
    <2>1. /\ stored' = stored + 1 /\ bridgePc = "result" /\ bridgePc' = "lock"
          /\ adder = "lock" /\ adder' = "idle"
      BY <1>4 DEF AddResult, OnResult, S!Add
    <2>2. slice'.len = slice.len + 1 /\ "len" \in DOMAIN slice'
      BY <1>4 DEF AddResult, S!Add, S!AppendResult
    <2>3. DOMAIN byID' = DOMAIN byID \cup {stored + 1}
      BY <1>4, <2>1 DEF AddResult, S!Add, S!Index
    <2>4. QED
      BY <1>4, <2>1, <2>2, <2>3 DEF AddResult
  <1>5. CASE CallBroadcast
    BY <1>5 DEF CallBroadcast, BroadcastLock
  <1>6. CASE ResultReturns
    <2>1. /\ bridgePc = "send" /\ bridgePc' = "idle" /\ stored' = stored
          /\ loop' = "process" /\ counter' = counter /\ run' = run
          /\ \A r \in results' : r \in results \/ r.id = counter
      BY <1>6 DEF ResultReturns, BroadcastSend, B!EmitResult, B!Settle
    <2>2. counter = stored /\ stored > 0
      BY <2>1 DEF HubInv, TypeOK, ChannelInv
    <2>3. QED
      BY <1>6, <2>1, <2>2 DEF ResultReturns
  <1>7. CASE Answered
    BY <1>7 DEF Answered, PredictAnswers, B!PredictAnswers, B!historyVars
  <1>8. CASE Failed \/ (cancelled /\ Running /\ B!PredictFails /\ UNCHANGED <<hubVars, storeVars>>)
    BY <1>8 DEF Failed, B!PredictFails, B!PollFails, B!Settle, vars
  <1>9. CASE Deliver
    BY <1>9 DEF Deliver, B!Produce, B!PollReturnsAny, B!PollReturns,
       B!consumerVars, B!historyVars, vars
  <1>10. ASSUME NEW h \in Handlers, RestBegins(h) \/ RestEnds(h) PROVE CallbackInv'
    BY <1>10 DEF RestBegins, RestEnds, S!Request, S!WriteTimeout, S!memory, vars
  <1>11. CASE Terminate
    BY <1>11 DEF Terminate, Signal, B!Cancel, B!historyVars
  <1>12. CASE Main
    BY <1>12 DEF Main, BridgeStopped, ServerShutdown, CloseLocks, Close, Exit,
       B!CloseClient, B!historyVars
  <1>13. CASE HubStep
    BY <1>13 DEF HubStep, RunStep, RunTakesRegister, RunTakesUnregister, Offer, FindFull,
       RunLocks, AddClient, RemoveClient, CountClients, TakeMessage, FanLock, FanDone, Kick,
       Connect, Disconnect, WriteMsg, WriteEnds, WriteFail, WriteClosed, ReadStep, ReadFail,
       ReadClose
  <1>14. CASE Over \/ UNCHANGED gatewayVars
    BY <1>14 DEF Over, gatewayVars, vars
  <1>15. QED
    BY <1>2, <1>3, <1>4, <1>5, <1>6, <1>7, <1>8, <1>9, <1>10, <1>11, <1>12, <1>13, <1>14
       DEF GatewayNext, BridgeGoroutine

\* The hub's part of every step is a step of the hub: what onResult broadcasts
\* under the bridge's ID is the result last stored.
LEMMA HubPart == CallbackInv /\ [GatewayNext]_gatewayVars => [Next]_vars
  <1> SUFFICES ASSUME CallbackInv, [GatewayNext]_gatewayVars PROVE [Next]_vars
    OBVIOUS
  <1> USE DEF hubVars, Next, BridgeStep, MainStep
  <1>1. CASE BridgeGoroutine
    <2>1. CASE ResultReturns
      <3>1. bridgePc = "send" /\ BroadcastSend(counter)
        BY <2>1 DEF ResultReturns, BroadcastSend
      <3>2. BroadcastSend(stored)
        BY <3>1 DEF CallbackInv
      <3>3. QED
        BY <3>2
    <2>2. QED
      BY <1>1, <2>1 DEF BridgeGoroutine, Consume, CallAdd, AddResult, CallBroadcast
  <1>2. CASE Answered \/ Failed \/ Deliver
    BY <1>2 DEF Answered, Failed, Deliver
  <1>3. ASSUME NEW h \in Handlers, RestBegins(h) \/ RestEnds(h) PROVE [Next]_vars
    BY <1>3 DEF RestBegins, RestEnds
  <1>4. CASE Terminate \/ Main
    BY <1>4 DEF Terminate, Main
  <1>5. CASE HubStep
    BY <1>5 DEF HubStep
  <1>6. CASE Over \/ UNCHANGED gatewayVars
    BY <1>6 DEF Over, gatewayVars
  <1>7. QED
    BY <1>1, <1>2, <1>3, <1>4, <1>5, <1>6 DEF GatewayNext

\* The three are invariant together: what keeps the hub's invariant is that the
\* bridge's IDs are the hub's numbers, and what keeps these that a client is
\* never ahead of Run and Run never ahead of the store.
LEMMA GatewayInductive == GatewaySpec => []GatewayInv
  <1>1. GatewayInit => GatewayInv
    <2>1. Init => GotInv
      BY DEF Init, GotInv
    <2>2. QED
      BY <2>1, InitInv, CallbackInit DEF GatewayInit, GatewayInv
  <1>2. GatewayInv /\ [GatewayNext]_gatewayVars => GatewayInv'
    BY HubPart, HubInvStep, GotStep, CallbackStep DEF GatewayInv
  <1>3. QED
    BY <1>1, <1>2, PTL DEF GatewaySpec

-----------------------------------------------------------------------------
(* The components' specifications *)

\* What holds of every behaviour of the hub, holds of the gateway: with the
\* bridge, the store and main as they are, the hub is as Hub.tla has it.
THEOREM GatewayIsHub == GatewaySpec => Spec
  <1>1. GatewayInit => Init
    BY DEF GatewayInit
  <1>2. GatewayInv /\ [GatewayNext]_gatewayVars => [Next]_vars
    BY HubPart DEF GatewayInv
  <1>3. QED
    BY <1>1, <1>2, GatewayInductive, PTL DEF GatewaySpec, Spec

\* The feed is what the whole gateway promises its dashboards: with bridge, store
\* and main around it, the hub implements it all the same.
THEOREM GatewayServesFeed == GatewaySpec => FeedSpec
  BY GatewayIsHub, HubImplementsFeed

\* The bridge's part of every step is a step of the bridge.
LEMMA BridgePart == [GatewayNext]_gatewayVars => [B!Next]_(B!vars)
  <1> SUFFICES ASSUME [GatewayNext]_gatewayVars PROVE [B!Next]_(B!vars)
    OBVIOUS
  <1> USE DEF consumerVars, B!Next, B!LoopStep, B!vars, B!consumerVars, B!historyVars
  <1>1. CASE BridgeGoroutine
    BY <1>1 DEF BridgeGoroutine, Consume, CallAdd, AddResult, CallBroadcast, ResultReturns
  <1>2. CASE Answered \/ Deliver
    BY <1>2 DEF Answered, Deliver, B!Kinds
  <1>3. CASE Failed
    <2>1. 0 \in 0..MaxMessages
      BY HubAssumption DEF HubAssumption
    <2>2. QED
      BY <1>3, <2>1 DEF Failed, B!PollFailsAny
  <1>4. ASSUME NEW h \in Handlers, RestBegins(h) \/ RestEnds(h) PROVE [B!Next]_(B!vars)
    BY <1>4 DEF RestBegins, RestEnds
  <1>5. CASE Terminate \/ Main
    BY <1>5 DEF Terminate, Main
  <1>6. CASE HubStep
    BY <1>6 DEF HubStep
  <1>7. CASE Over \/ UNCHANGED gatewayVars
    BY <1>7 DEF Over, gatewayVars
  <1>8. QED
    BY <1>1, <1>2, <1>3, <1>4, <1>5, <1>6, <1>7 DEF GatewayNext

\* The gateway consumes the topic as Bridge.tla has it: the callback's way
\* through store and hub is nothing the consumer client could notice.
THEOREM GatewayIsBridge == GatewaySpec => B!Spec
  <1>1. GatewayInit => B!Init
    BY DEF GatewayInit
  <1>2. QED
    BY <1>1, BridgePart, PTL DEF GatewaySpec, B!Spec

\* The store's part of every step is a step of the store: the bridge's IDs are
\* the numbers Store.tla takes.
LEMMA StorePart == CallbackInv /\ [GatewayNext]_gatewayVars => [S!Next]_(S!vars)
  <1> SUFFICES ASSUME CallbackInv, [GatewayNext]_gatewayVars
               PROVE  [S!Next]_(S!vars)
    OBVIOUS
  <1> USE DEF storeVars, S!Next, S!vars, S!memory
  <1>1. CASE BridgeGoroutine
    <2>1. CASE CallAdd
      <3>1. counter = slice.len + 1
        BY <2>1 DEF CallAdd, CallbackInv
      <3>2. S!CallAdd(slice.len + 1, 1, FALSE)
        BY <2>1, <3>1 DEF CallAdd
      <3>3. 1 \in 1..1 /\ FALSE \in BOOLEAN
        OBVIOUS
      <3>4. QED
        BY <3>2, <3>3, Zenon
    <2>2. CASE AddResult
      BY <2>2 DEF AddResult
    <2>3. QED
      BY <1>1, <2>1, <2>2 DEF BridgeGoroutine, Consume, CallBroadcast, ResultReturns
  <1>2. CASE Answered \/ Failed \/ Deliver
    BY <1>2 DEF Answered, Failed, Deliver
  <1>3. ASSUME NEW h \in Handlers, RestBegins(h) \/ RestEnds(h) PROVE [S!Next]_(S!vars)
    <2>1. [op |-> "list"] \in S!Requests
      BY DEF S!Requests
    <2>2. QED
      BY <1>3, <2>1 DEF RestBegins, RestEnds, S!Finish
  <1>4. CASE Terminate \/ Main
    BY <1>4 DEF Terminate, Main
  <1>5. CASE HubStep
    BY <1>5 DEF HubStep
  <1>6. CASE Over \/ UNCHANGED gatewayVars
    BY <1>6 DEF Over, gatewayVars
  <1>7. QED
    BY <1>1, <1>2, <1>3, <1>4, <1>5, <1>6 DEF GatewayNext

\* The gateway keeps its results as Store.tla has it: the bridge, through failed
\* calls and a shutdown at any time, numbers them as they are stored
\* (bridge.go:176, main.go:44).
THEOREM GatewayIsStore == GatewaySpec => S!Spec
  <1>1. GatewayInit => S!Init
    BY DEF GatewayInit
  <1>2. GatewayInv /\ [GatewayNext]_gatewayVars => [S!Next]_(S!vars)
    BY StorePart DEF GatewayInv
  <1>3. QED
    BY <1>1, <1>2, GatewayInductive, PTL DEF GatewaySpec, S!Spec

-----------------------------------------------------------------------------
(* Theorems about the gateway *)

\* What a dashboard has by the feed it can have by GET (main.go:43, 60).
THEOREM FeedIsServed == GatewaySpec => []FeedIsFetchable
  <1>1. GatewayInv => FeedIsFetchable
    <2> SUFFICES ASSUME GatewayInv, NEW c \in Clients
                 PROVE  /\ got[c] \in {0} \cup DOMAIN byID
                        /\ \A i \in DOMAIN send[c] : send[c][i] \in DOMAIN byID
      BY DEF FeedIsFetchable
    <2> USE DEF GatewayInv, HubInv
    <2>1. /\ stored \in Nat /\ runMsg \in Nat /\ got[c] \in Nat
          /\ broadcast \in Seq(1..MaxMessages) /\ send[c] \in Seq(1..MaxMessages)
      BY HubAssumption DEF TypeOK, HubAssumption
    <2>2. Len(broadcast) \in Nat
      BY <2>1
    <2>3. runMsg <= stored
      BY <2>1, <2>2 DEF ChannelInv
    <2>4. got[c] \in 0..stored
      BY <2>1, <2>3 DEF GotInv
    <2>5. ASSUME NEW i \in DOMAIN send[c] PROVE send[c][i] \in 1..stored
      <3>1. i \in 1..Len(send[c])
        BY <2>1
      <3>2. send[c][i] \in 1..MaxMessages
        BY <2>1, <3>1, ElementFacts
      <3>3. QED
        BY <2>1, <2>3, <3>1, <3>2 DEF QueueInv
    <2>6. QED
      BY <2>1, <2>4, <2>5 DEF CallbackInv
  <1>2. QED
    BY <1>1, GatewayInductive, PTL
-----------------------------------------------------------------------------
(* What may be committed *)

OffsetInv ==
    /\ topic \in Seq(B!Kinds) /\ Len(topic) <= MaxMessages /\ DOMAIN fate = 1..MaxMessages
    /\ committable \in Nat /\ done \in Nat /\ fetched \in Nat
    /\ committable <= done /\ done <= fetched /\ fetched <= Len(topic)
    /\ loop \in {"check", "poll", "waiting", "ended"} => done = fetched
    /\ loop \in {"predict", "emit"} => done < fetched

Served(o) == \E r \in results : r.offset = o /\ r.id \in DOMAIN byID

\* A record whose call the cancel made fail came after the last poll began, and
\* there is no other poll.
Cancelled(o) ==
    /\ fate[o] = "cancelled" /\ cancelled /\ committable < o
    /\ loop \notin {"poll", "waiting"}

\* What EachRecord is through with was refused, can be served, or will not be
\* committed.
ServedInv ==
    /\ OffsetInv
    /\ \A o \in 1..done : fate[o] = "failed" \/ Served(o) \/ Cancelled(o)

\* What can be served goes on being served.
LEMMA ServedStays ==
    ASSUME HubInv, CallbackInv, [GatewayNext]_gatewayVars, NEW o, Served(o)
    PROVE  Served(o)'
  <1>1. results \subseteq results' /\ DOMAIN byID \subseteq DOMAIN byID'
    <2> USE DEF hubVars, consumerVars, storeVars
    <2>1. CASE BridgeGoroutine
      <3>1. CASE AddResult
        BY <3>1 DEF AddResult, S!Add, S!Index
      <3>2. CASE CallAdd
        BY <3>2 DEF CallAdd, S!CallAdd, S!memory
      <3>3. QED
        BY <2>1, <3>1, <3>2 DEF BridgeGoroutine, Consume, CallBroadcast, ResultReturns,
           B!CheckContext, B!EnterPoll, B!PollCancelled, B!BatchDone, B!CallPredict,
           B!EmitResult, B!PredictFails, B!historyVars
    <2>2. CASE Answered \/ Failed \/ Deliver
      BY <2>2 DEF Answered, Failed, Deliver, B!PredictAnswers, B!PredictFails, B!PollFails,
         B!Produce, B!PollReturnsAny, B!PollReturns, B!historyVars
    <2>3. ASSUME NEW h \in Handlers, RestBegins(h) \/ RestEnds(h)
          PROVE  results \subseteq results' /\ DOMAIN byID \subseteq DOMAIN byID'
      BY <2>3 DEF RestBegins, RestEnds, S!Request, S!WriteTimeout, S!memory
    <2>4. CASE Terminate \/ Main
      BY <2>4 DEF Terminate, Main, B!Cancel, B!CloseClient, B!historyVars
    <2>5. CASE HubStep
      BY <2>5 DEF HubStep
    <2>6. CASE Over \/ UNCHANGED gatewayVars
      BY <2>6 DEF Over, gatewayVars
    <2>7. QED
      BY <2>1, <2>2, <2>3, <2>4, <2>5, <2>6 DEF GatewayNext
  <1>2. QED
    BY <1>1 DEF Served

\* A step of the loop that settles no record.
LEMMA ServedKept ==
    ASSUME ServedInv, OffsetInv', done' = done,
           \A o \in 1..done : fate'[o] = fate[o],
           \A o : Served(o) => Served(o)',
           \A o \in 1..done : Cancelled(o) => Cancelled(o)'
    PROVE  ServedInv'
  BY DEF ServedInv

\* A step that settles the next one.
LEMMA ServedSettled ==
    ASSUME ServedInv, OffsetInv', NEW f, B!Settle(f), NEW n \in Nat, n = done + 1, n <= fetched,
           f = "failed" \/ Served(n)' \/ Cancelled(n)',
           \A o : Served(o) => Served(o)',
           \A o \in 1..done : Cancelled(o) => Cancelled(o)'
    PROVE  ServedInv'
  <1>1. done' = n /\ fate' = [fate EXCEPT ![n] = f] /\ n \in DOMAIN fate
    <2>1. Len(topic) \in Nat
      BY DEF ServedInv, OffsetInv
    <2>2. QED
      BY <2>1, HubAssumption DEF ServedInv, OffsetInv, B!Settle, HubAssumption
  <1> SUFFICES ASSUME NEW o \in 1..done'
               PROVE  fate'[o] = "failed" \/ Served(o)' \/ Cancelled(o)'
    BY DEF ServedInv
  <1>2. CASE o = n
    BY <1>1, <1>2
  <1>3. CASE o \in 1..done
    <2>1. fate'[o] = fate[o]
      BY <1>1, <1>3 DEF ServedInv, OffsetInv
    <2>2. QED
      BY <1>3, <2>1 DEF ServedInv
  <1>4. QED
    BY <1>1, <1>2, <1>3 DEF ServedInv, OffsetInv

LEMMA ServedStep ==
    HubInv /\ CallbackInv /\ ServedInv /\ [GatewayNext]_gatewayVars => ServedInv'
  <1> SUFFICES ASSUME HubInv, CallbackInv, ServedInv, [GatewayNext]_gatewayVars
               PROVE  ServedInv'
    OBVIOUS
  <1>1. \A o : Served(o) => Served(o)'
    BY ServedStays
  <1>2. Len(topic) \in Nat /\ MaxMessages \in Nat
    BY HubAssumption DEF ServedInv, OffsetInv, HubAssumption
  <1>3. PICK n \in Nat : n = done + 1
    BY DEF ServedInv, OffsetInv
  <1> USE DEF hubVars, consumerVars, storeVars, B!consumerVars, B!historyVars
  <1>4. CASE B!CheckContext \/ B!EnterPoll \/ B!PollCancelled \/ B!BatchDone
    <2>1. OffsetInv' /\ done' = done /\ fate' = fate
      BY <1>2, <1>4 DEF ServedInv, OffsetInv, B!CheckContext, B!EnterPoll, B!PollCancelled,
         B!BatchDone
    <2>2. \A o \in 1..done : Cancelled(o) => Cancelled(o)'
      BY <1>4 DEF Cancelled, B!CheckContext, B!EnterPoll, B!PollCancelled, B!BatchDone
    <2>3. QED
      BY <1>1, <2>1, <2>2, ServedKept
  <1>5. ASSUME NEW f, B!Settle(f), done < fetched,
               f = "failed" \/ Served(n)' \/ (f = "cancelled" /\ cancelled),
               UNCHANGED <<topic, cancelled, fetched, committable>>
        PROVE  ServedInv'
    <2>1. OffsetInv' /\ n \in DOMAIN fate
      BY <1>2, <1>3, <1>5 DEF ServedInv, OffsetInv, B!Settle
    <2>2. \A o \in 1..done : Cancelled(o) => Cancelled(o)'
      BY <1>5 DEF Cancelled, B!Settle, ServedInv, OffsetInv
    <2>3. f = "cancelled" /\ cancelled => Cancelled(n)'
      BY <1>3, <1>5, <2>1 DEF Cancelled, B!Settle, ServedInv, OffsetInv
    <2>4. n <= fetched
      BY <1>3, <1>5 DEF ServedInv, OffsetInv
    <2>5. QED
      BY <1>1, <1>3, <1>5, <2>1, <2>2, <2>3, <2>4, ServedSettled
  <1>6. CASE B!CallPredict
    <2>1. CASE cancelled /\ B!Settle("cancelled")
      BY <1>5, <1>6, <2>1 DEF B!CallPredict, B!Record
    <2>2. CASE ~cancelled /\ loop' = "predict" /\ UNCHANGED <<done, fate>>
      <3>1. OffsetInv'
        BY <1>2, <1>6, <2>2 DEF B!CallPredict, B!Record, ServedInv, OffsetInv
      <3>2. QED
        BY <1>1, <2>2, <3>1, ServedKept DEF Cancelled
    <2>3. QED
      BY <1>6, <2>1, <2>2 DEF B!CallPredict
  <1>7. CASE B!PredictFails
    <2>1. CASE cancelled
      BY <1>5, <1>7, <2>1 DEF B!PredictFails, ServedInv, OffsetInv
    <2>2. CASE ~cancelled
      BY <1>5, <1>7, <2>2 DEF B!PredictFails, ServedInv, OffsetInv
    <2>3. QED
      BY <2>1, <2>2
  <1>8. CASE ResultReturns
    <2>1. stored \in Nat /\ counter = stored /\ stored > 0
      BY <1>8, HubAssumption DEF ResultReturns, BroadcastSend, CallbackInv, HubInv, TypeOK,
         ChannelInv, HubAssumption
    <2>2. counter \in DOMAIN byID'
      BY <1>8, <2>1 DEF ResultReturns, CallbackInv
    <2>3. [run |-> run, id |-> counter, offset |-> n] \in results'
      BY <1>3, <1>8 DEF ResultReturns, B!EmitResult
    <2>4. Served(n)'
      BY <2>2, <2>3 DEF Served
    <2>5. QED
      BY <1>5, <1>8, <2>4 DEF ResultReturns, B!EmitResult, ServedInv, OffsetInv
  <1>9. CASE B!PredictAnswers
    <2>1. OffsetInv' /\ \A o \in 1..done : Cancelled(o) => Cancelled(o)'
      BY <1>9 DEF B!PredictAnswers, ServedInv, OffsetInv, Cancelled
    <2>2. QED
      BY <1>1, <1>9, <2>1, ServedKept DEF B!PredictAnswers
  <1>10. CASE B!PollFails(0)
    <2>1. done' = done /\ fetched' = fetched
      BY <1>10 DEF B!PollFails, ServedInv, OffsetInv
    <2>2. DOMAIN fate' = 1..MaxMessages /\ \A o \in 1..done : fate'[o] = fate[o]
      BY <1>2, <1>10 DEF B!PollFails, B!Offsets, ServedInv, OffsetInv
    <2>3. OffsetInv' /\ \A o \in 1..done : Cancelled(o) => Cancelled(o)'
      BY <1>10, <2>1, <2>2 DEF B!PollFails, ServedInv, OffsetInv, Cancelled
    <2>4. QED
      BY <1>1, <2>1, <2>2, <2>3, ServedKept
  <1>11. CASE Deliver
    <2>1. CASE B!Produce("code")
      <3>1. topic \in Seq(B!Kinds) /\ "code" \in B!Kinds /\ topic' = Append(topic, "code")
        BY <2>1 DEF B!Produce, B!Kinds, ServedInv, OffsetInv
      <3>2. topic' \in Seq(B!Kinds) /\ Len(topic') = Len(topic) + 1
        BY <3>1, PutFacts
      <3>3. OffsetInv' /\ \A o \in 1..done : Cancelled(o) => Cancelled(o)'
        BY <1>2, <2>1, <3>2 DEF B!Produce, ServedInv, OffsetInv, Cancelled
      <3>4. QED
        BY <1>1, <2>1, <3>3, ServedKept DEF B!Produce
    <2>2. ASSUME NEW k \in 1..MaxMessages, B!PollReturns(k) PROVE ServedInv'
      <3>1. OffsetInv' /\ \A o \in 1..done : Cancelled(o) => Cancelled(o)'
        BY <1>2, <2>2 DEF B!PollReturns, ServedInv, OffsetInv, Cancelled
      <3>2. QED
        BY <1>1, <2>2, <3>1, ServedKept DEF B!PollReturns
    <2>3. QED
      BY <1>11, <2>1, <2>2 DEF Deliver, B!PollReturnsAny
  <1>12. CASE B!Cancel \/ B!CloseClient
    <2>1. OffsetInv' /\ \A o \in 1..done : Cancelled(o) => Cancelled(o)'
      <3>1. CASE B!Cancel
        BY <3>1 DEF B!Cancel, ServedInv, OffsetInv, Cancelled
      <3>2. CASE B!CloseClient
        BY <3>2 DEF B!CloseClient, ServedInv, OffsetInv, Cancelled
      <3>3. QED
        BY <1>12, <3>1, <3>2
    <2>2. done' = done /\ fate' = fate
      BY <1>12 DEF B!Cancel, B!CloseClient
    <2>3. QED
      BY <1>1, <2>1, <2>2, ServedKept
  <1>13. CASE UNCHANGED consumerVars
    BY <1>1, <1>13, ServedKept DEF ServedInv, OffsetInv, Cancelled
  <1>14. QED
    BY <1>4, <1>6, <1>7, <1>8, <1>9, <1>10, <1>11, <1>12, <1>13
       DEF GatewayNext, BridgeGoroutine, Consume, CallAdd, AddResult, CallBroadcast, Answered,
           Failed, RestBegins, RestEnds, Terminate, Main, HubStep, Over, gatewayVars

\* A record that may be committed, and that the engine did not refuse, has its
\* result in the store, under the ID the bridge gave it: a commit in the
\* background, a cancel in the middle of a batch and the commit of Stop are all
\* behind onResult (bridge.go:66-70, 117-143, main.go:43).
THEOREM CommittedResultsAreServed == GatewaySpec => []CommittableIsServed
  <1>1. GatewayInit => ServedInv
    BY HubAssumption DEF GatewayInit, B!Init, ServedInv, OffsetInv, B!Offsets, HubAssumption
  <1>2. GatewayInv /\ ServedInv /\ [GatewayNext]_gatewayVars => ServedInv'
    BY ServedStep DEF GatewayInv
  <1>3. ServedInv => CommittableIsServed
    BY DEF ServedInv, OffsetInv, CommittableIsServed, Served, Cancelled
  <1>4. QED
    BY <1>1, <1>2, <1>3, GatewayInductive, PTL DEF GatewaySpec
=============================================================================
