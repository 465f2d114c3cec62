------------------------------ MODULE Gateway ------------------------------
(***************************************************************************)
(* The gateway put together as services/gateway/main.go does it: the hub,  *)
(* the Kafka bridge and the anomaly store in one process.                  *)
(*                                                                         *)
(* The bridge's goroutine runs through all three: what Bridge calls        *)
(* onResult is Store's Add followed by Hub's Broadcast, and it returns to  *)
(* the consume loop when Broadcast does.  The main goroutine cancels the   *)
(* bridge, waits for it, and closes the hub.  A step that two components   *)
(* see is the conjunction of their actions.                                *)
(*                                                                         *)
(* It is one life of the process: a crash cuts a behaviour off, and what a *)
(* restart finds is Bridge's matter.  So are the client's own commits:     *)
(* nobody reads the group's offset in the same life, and committable is    *)
(* what it may be at any time.  Only records with code are produced, as    *)
(* the others never leave the bridge, and polls fail without records.      *)
(* A REST request is a list: what the answers say is Store's matter, here  *)
(* it is the lock that counts.                                             *)
(***************************************************************************)
EXTENDS Hub

CONSTANTS Handlers,  \* goroutines serving a REST request
          Limit      \* results in a list

VARIABLES
    \* of the bridge
    topic, loop, cancelled, counter, fetched, done, committable, committed,
    run, results, fate, settled,
    \* of the store
    heap, slice, byID, adder, adding, rest, request, reply

B == INSTANCE Bridge WITH MaxRecords <- MaxMessages, MaxRuns <- 1

S == INSTANCE Store WITH handler <- rest, MaxResults <- MaxMessages,
                         MaxSpare <- 0, MaxTime <- 1

hubVars      == vars
consumerVars == <<topic, loop, cancelled, counter, fetched, done, committable,
                  committed, run, results, fate, settled>>
storeVars    == <<heap, slice, byID, adder, adding, rest, request, reply>>
gatewayVars  == <<hubVars, consumerVars, storeVars>>

GatewayInit == Init /\ B!Init /\ S!Init

-----------------------------------------------------------------------------
(* The bridge's goroutine *)

\* What the loop does between two results.
Consume ==
    /\ Running
    /\ B!CheckContext \/ B!EnterPoll \/ B!PollCancelled \/ B!BatchDone \/ B!CallPredict
    /\ UNCHANGED <<hubVars, storeVars>>

\* The engine answers, and onResult is called.
Answered == PredictAnswers /\ B!PredictAnswers /\ UNCHANGED storeVars

\* store.Add is called with the bridge's ID.
CallAdd ==
    /\ Running /\ bridgePc = "result" /\ S!CallAdd(counter, 1, FALSE)
    /\ UNCHANGED <<hubVars, consumerVars>>

\* Mutant: go store.Add(...).
AddResult_InBackground ==
    \/ adder = "lock" /\ OnResult /\ UNCHANGED <<consumerVars, storeVars>>
    \/ Running /\ S!Add /\ UNCHANGED <<hubVars, consumerVars>>

\* store.Add has the lock, and returns.
AddResult == OnResult /\ S!Add /\ UNCHANGED consumerVars

CallBroadcast == BroadcastLock /\ UNCHANGED <<consumerVars, storeVars>>

\* hub.Broadcast returns, and with it onResult and processRecord: the message is
\* the result with the bridge's ID.
ResultReturns == BroadcastSend(counter) /\ B!EmitResult /\ UNCHANGED storeVars

\* A call or a poll comes back without a result.
Failed ==
    /\ Running /\ (B!PredictFails \/ B!PollFails(0))
    /\ UNCHANGED <<hubVars, storeVars>>

BridgeGoroutine ==
    \/ Consume \/ CallAdd \/ AddResult \/ CallBroadcast \/ ResultReturns
    \/ cancelled /\ Running /\ B!PredictFails /\ UNCHANGED <<hubVars, storeVars>>

-----------------------------------------------------------------------------
(* The topic, and REST requests *)

Deliver ==
    /\ Running
    /\ B!Produce("code") \/ B!PollReturnsAny
    /\ UNCHANGED <<hubVars, storeVars>>

\* There are new requests until server.Shutdown.
RestBegins(h) ==
    /\ Running /\ mainPc \in {"serving", "stopping", "draining"}
    /\ S!Request(h, [op |-> "list"])
    /\ UNCHANGED <<hubVars, consumerVars>>

\* An answer that is taken does to the lock what one that is not does.
RestEnds(h) == Running /\ S!WriteTimeout(h) /\ UNCHANGED <<hubVars, consumerVars>>

-----------------------------------------------------------------------------
(* The main goroutine *)

\* <-ctx.Done(), bridgeCancel() and the b.cancel() of bridge.Stop.
Terminate == Signal /\ B!Cancel /\ UNCHANGED storeVars

Main ==
    \/ BridgeStopped /\ B!CloseClient /\ UNCHANGED storeVars
    \/ (ServerShutdown \/ CloseLocks \/ Close \/ Exit) /\ UNCHANGED <<consumerVars, storeVars>>

-----------------------------------------------------------------------------
\* The hub's own goroutine, the WebSocket handlers and their peers.
HubStep ==
    /\ \/ RunStep
       \/ \E c \in Clients : \/ Connect(c) \/ Disconnect(c) \/ WriteMsg(c)
                             \/ WriteEnds(c) \/ ReadStep(c)
    /\ UNCHANGED <<consumerVars, storeVars>>

Over == ~Running /\ UNCHANGED gatewayVars

GatewayNext ==
    \/ BridgeGoroutine \/ Answered \/ Failed \/ Deliver
    \/ \E h \in Handlers : RestBegins(h) \/ RestEnds(h)
    \/ Terminate \/ Main
    \/ HubStep \/ Over

GatewaySpec == GatewayInit /\ [][GatewayNext]_gatewayVars

\* Every goroutine that can take a step takes one.  Nothing is assumed of the
\* engine, the broker, the signal, or of how fast a client of either kind reads:
\* a REST handler runs into the server's WriteTimeout.  A subscript has the
\* variables of which each step of the goroutine changes one.
GatewayFair ==
    /\ GatewaySpec
    /\ WF_<<runVars, writer>>(RunStep)
    /\ WF_<<loop, done, bridgePc, adder>>(BridgeGoroutine)
    /\ WF_<<mainPc, writer, proc>>(Main)
    /\ \A c \in Clients : WF_writePump(WriteEnds(c)) /\ WF_readPump(ReadStep(c))
    /\ \A h \in Handlers : WF_rest(RestEnds(h))

-----------------------------------------------------------------------------
(* Properties *)

\* The offset that the client may commit behind the loop's back, and commits when
\* Stop closes it, never gets past a record whose result the store cannot serve,
\* but for the ones the engine refused: not while onResult waits for the store's
\* lock, and not when the cancel fails the rest of a batch (bridge.go:66-70,
\* 117-121, 126-143, main.go:43).
CommittableIsServed ==
    \A o \in 1..committable :
        fate[o] # "failed" => \E r \in results : r.offset = o /\ r.id \in DOMAIN byID

\* Whatever a client has been sent, or has waiting for it, GET /api/anomalies
\* has as well: the feed is never ahead of the store (main.go:43, 60).
FeedIsFetchable ==
    \A c \in Clients :
        /\ got[c] \in {0} \cup DOMAIN byID
        /\ \A i \in DOMAIN send[c] : send[c][i] \in DOMAIN byID

\* An answer of the engine gets into the store, however slowly REST clients
\* read and whatever becomes of the hub, unless the process goes first.
AnsweredIsServed == loop = "emit" ~> (counter \in DOMAIN byID \/ ~Running)
=============================================================================
