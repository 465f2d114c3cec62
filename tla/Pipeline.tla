------------------------------ MODULE Pipeline ------------------------------
(***************************************************************************)
(* The ingestion service and the gateway's bridge, joined by the topic:    *)
(* what becomes of a delivery after it has been answered.  Ingestion.tla   *)
(* writes the topic; Bridge.tla reads it, and sees of a record whether it  *)
(* has code (bridge.go:149-158).                                           *)
(***************************************************************************)
EXTENDS Ingestion

CONSTANTS MaxRecords,  \* bound of the model: records in the topic, all there can be
          MaxRuns      \* bound of the model: lives of the gateway

VARIABLES loop, cancelled, counter, fetched, done, committable, committed,
          run, results, fate, settled   \* Bridge.tla's

bridgeVars == <<loop, cancelled, counter, fetched, done, committable, committed,
                run, results, fate, settled>>

\* json.Unmarshal into a CodeSnippet
Kind(record) == IF record.code = "" THEN "empty" ELSE "code"

B == INSTANCE Bridge WITH topic <- [i \in DOMAIN topic |-> Kind(topic[i])]

PipelineInit == Init /\ B!Init

\* What the bridge does by itself.
BridgeLoop == UNCHANGED vars /\ B!LoopStep

\* What the broker and the engine answer it.
Polled    == UNCHANGED vars /\ B!PollReturnsAny
Predicted == UNCHANGED vars /\ (B!PredictAnswers \/ B!PredictFails)

\* What else may happen to it.
BridgeEvent ==
    UNCHANGED vars /\ (B!AutoCommit \/ B!PollFailsAny \/ B!Cancel \/ B!Crash \/ B!Restart)

IngestionStep == Next /\ UNCHANGED bridgeVars

PipelineNext == IngestionStep \/ BridgeLoop \/ Polled \/ Predicted \/ BridgeEvent

PipelineSpec == PipelineInit /\ [][PipelineNext]_<<vars, bridgeVars>>

\* The bridge's loop runs, the engine answers or fails, and the broker
\* delivers to a consumer that keeps polling.
PipelineFairSpec ==
    /\ PipelineSpec
    /\ WF_<<vars, bridgeVars>>(BridgeLoop)
    /\ WF_<<vars, bridgeVars>>(Predicted)
    /\ SF_<<vars, bridgeVars>>(Polled)

-----------------------------------------------------------------------------
(* Properties *)

\* No step of the bridge and no failure stands in the way of a result.
AllWell ==
    /\ ~cancelled /\ loop # "down"
    /\ \A o \in 1..MaxRecords : fate[o] \notin {"failed", "discarded"}

\* "parses git diffs to extract added/modified code chunks, and publishes
\* structured messages to Kafka" (README.md:39), for the gateway to analyse:
\* while nothing fails, a record of a code file comes to a result.
CodeIsAnalysed ==
    []AllWell => \A o \in 1..MaxRecords :
                     o <= Len(topic) ~> \E r \in results : r.offset = o
=============================================================================
