------------------------------- MODULE Bridge -------------------------------
(***************************************************************************)
(* The Kafka bridge of the gateway (services/gateway/internal/kafka/       *)
(* bridge.go): consumeLoop, processRecord and Stop, over one partition of  *)
(* the topic, through crashes and restarts of the gateway.                 *)
(*                                                                         *)
(* An offset is the record's place in the topic, 1 being the first.  The   *)
(* consumer is franz-go's with its defaults, modelled by what the bridge   *)
(* meets: a poll makes everything polled before it committable, commits    *)
(* happen behind the loop's back and when the client is closed, and a      *)
(* group member starts after the committed offset.                         *)
(***************************************************************************)
EXTENDS Integers, Sequences

CONSTANTS MaxRecords,  \* bound of the model: records in the topic
          MaxRuns      \* bound of the model: lives of the gateway

ASSUME BridgeAssumption == MaxRecords \in Nat /\ MaxRuns \in Nat \ {0}

VARIABLES
    topic,        \* the records: what processRecord makes of their value
    loop,         \* where consumeLoop is
    cancelled,    \* ctx.Done()
    counter,      \* b.resultCounter
    fetched,      \* last offset polled
    done,         \* last offset EachRecord is through with
    committable,  \* last offset polled before the last poll began
    committed,    \* the group's offset, kept by the broker
    run,          \* the number of this life of the gateway
    results,      \* what onResult was ever called with
    fate,         \* what became of each record when it was last dealt with
    settled       \* last offset that was ever dealt with

consumerVars == <<fetched, done, committable>>
historyVars  == <<results, fate, settled>>
vars == <<topic, loop, cancelled, counter, consumerVars, committed, run, historyVars>>

\* Unparsable, without code, with code (processRecord's three ways).
Kinds == {"bad", "empty", "code"}

Fates == {"none", "dropped", "skipped", "emitted", "failed", "cancelled", "discarded"}

Offsets == 1..MaxRecords

Result == [run : 1..MaxRuns, id : 1..MaxRecords, offset : Offsets]

TypeOK ==
    /\ topic \in Seq(Kinds) /\ Len(topic) <= MaxRecords
    /\ loop \in {"check", "poll", "waiting", "process", "predict", "emit", "ended", "down"}
    /\ cancelled \in BOOLEAN
    /\ counter \in 0..MaxRecords
    /\ fetched \in 0..MaxRecords /\ done \in 0..MaxRecords
    /\ committable \in 0..MaxRecords /\ committed \in 0..MaxRecords
    /\ settled \in 0..MaxRecords
    /\ run \in 1..MaxRuns
    /\ results \subseteq Result
    /\ fate \in [Offsets -> Fates]

Init ==
    /\ topic = <<>>
    /\ loop = "check" /\ cancelled = FALSE /\ counter = 0
    /\ fetched = 0 /\ done = 0 /\ committable = 0 /\ committed = 0
    /\ run = 1
    /\ results = {} /\ fate = [o \in Offsets |-> "none"] /\ settled = 0

-----------------------------------------------------------------------------
(* The topic, and the commits of the consumer client *)

Produce(kind) ==
    /\ Len(topic) < MaxRecords
    /\ topic' = Append(topic, kind)
    /\ UNCHANGED <<loop, cancelled, counter, consumerVars, committed, run, historyVars>>

AutoCommit ==
    /\ loop # "down" /\ committed < committable
    /\ committed' = committable
    /\ UNCHANGED <<topic, loop, cancelled, counter, consumerVars, run, historyVars>>

-----------------------------------------------------------------------------
(* consumeLoop *)

\* Mutant: the loop does not look at the context.
CheckContext_Ignored ==
    /\ loop = "check" /\ loop' = "poll"
    /\ UNCHANGED <<topic, cancelled, counter, consumerVars, committed, run, historyVars>>

\* select { case <-ctx.Done(): return; default: }
CheckContext ==
    /\ loop = "check"
    /\ loop' = IF cancelled THEN "ended" ELSE "poll"
    /\ UNCHANGED <<topic, cancelled, counter, consumerVars, committed, run, historyVars>>

\* PollFetches is called: what earlier polls returned counts as processed.
EnterPoll ==
    /\ loop = "poll" /\ loop' = "waiting"
    /\ committable' = fetched
    /\ UNCHANGED <<topic, cancelled, counter, fetched, done, committed, run, historyVars>>

\* Mutant: kgo.GreedyAutoCommit, what a poll returns is committable at once.
PollReturns_Greedy(n) ==
    /\ loop = "waiting" /\ loop' = "process"
    /\ n > 0 /\ fetched + n <= Len(topic)
    /\ fetched' = fetched + n /\ committable' = fetched + n
    /\ UNCHANGED <<topic, cancelled, counter, done, committed, run, historyVars>>

\* PollFetches returns n records and no error.
PollReturns(n) ==
    /\ loop = "waiting" /\ loop' = "process"
    /\ n > 0 /\ fetched + n <= Len(topic)
    /\ fetched' = fetched + n
    /\ UNCHANGED <<topic, cancelled, counter, done, committable, committed, run, historyVars>>

Larger(a, b) == IF a > b THEN a ELSE b

\* PollFetches returns an error, and with it n records the loop never looks at.
PollFails(n) ==
    /\ loop = "waiting" /\ loop' = "check"
    /\ fetched + n <= Len(topic)
    /\ fetched' = fetched + n /\ done' = fetched + n
    /\ fate' = [o \in Offsets |->
                   IF o \in fetched + 1..fetched + n THEN "discarded" ELSE fate[o]]
    /\ settled' = Larger(settled, fetched + n)
    /\ UNCHANGED <<topic, cancelled, counter, committable, committed, run, results>>

\* PollFetches returns the error of the cancelled context.
PollCancelled ==
    /\ loop = "waiting" /\ cancelled /\ loop' = "check"
    /\ UNCHANGED <<topic, cancelled, counter, consumerVars, committed, run, historyVars>>

\* Mutant: the last record of a batch is forgotten.
BatchDone_OneShort ==
    /\ loop = "process" /\ done + 1 >= fetched /\ loop' = "check"
    /\ done' = fetched
    /\ UNCHANGED <<topic, cancelled, counter, fetched, committable, committed,
                   run, historyVars>>

\* EachRecord is through with the batch.
BatchDone ==
    /\ loop = "process" /\ done = fetched /\ loop' = "check"
    /\ UNCHANGED <<topic, cancelled, counter, consumerVars, committed, run, historyVars>>

-----------------------------------------------------------------------------
(* processRecord *)

Record(kind) == done < fetched /\ topic[done + 1] = kind

\* processRecord returns.
Settle(f) ==
    /\ done' = done + 1
    /\ fate' = [fate EXCEPT ![done + 1] = f]
    /\ settled' = Larger(settled, done + 1)
    /\ loop' = "process"

DropUnparsable ==
    /\ loop = "process" /\ Record("bad") /\ Settle("dropped")
    /\ UNCHANGED <<topic, cancelled, counter, fetched, committable, committed, run, results>>

SkipEmpty ==
    /\ loop = "process" /\ Record("empty") /\ Settle("skipped")
    /\ UNCHANGED <<topic, cancelled, counter, fetched, committable, committed, run, results>>

\* Predict is called; with a cancelled context it fails at once.
CallPredict ==
    /\ loop = "process" /\ Record("code")
    /\ \/ ~cancelled /\ loop' = "predict" /\ UNCHANGED <<done, fate, settled>>
       \/ cancelled /\ Settle("cancelled")
    /\ UNCHANGED <<topic, cancelled, counter, fetched, committable, committed, run, results>>

\* Mutant: a failed call uses up an ID.
PredictFails_Counts ==
    /\ loop = "predict"
    /\ Settle(IF cancelled THEN "cancelled" ELSE "failed")
    /\ counter' = counter + 1
    /\ UNCHANGED <<topic, cancelled, fetched, committable, committed, run, results>>

\* The engine or the connection fails, or the context is cancelled during
\* the call.  There is no retry.
PredictFails ==
    /\ loop = "predict"
    /\ Settle(IF cancelled THEN "cancelled" ELSE "failed")
    /\ UNCHANGED <<topic, cancelled, counter, fetched, committable, committed, run, results>>

\* Predict answers: b.resultCounter++ under b.mu.
PredictAnswers ==
    /\ loop = "predict" /\ loop' = "emit"
    /\ counter' = counter + 1
    /\ UNCHANGED <<topic, cancelled, consumerVars, committed, run, historyVars>>

\* b.onResult(result)
EmitResult ==
    /\ loop = "emit" /\ Settle("emitted")
    /\ results' = results \cup {[run |-> run, id |-> counter, offset |-> done + 1]}
    /\ UNCHANGED <<topic, cancelled, counter, fetched, committable, committed, run>>

-----------------------------------------------------------------------------
(* The life of the gateway *)

\* bridgeCancel() and the b.cancel() of Stop.
Cancel ==
    /\ loop # "down" /\ ~cancelled /\ cancelled' = TRUE
    /\ UNCHANGED <<topic, loop, counter, consumerVars, committed, run, historyVars>>

\* Stop, once the loop has returned: leaving the group commits.
CloseClient ==
    /\ loop = "ended" /\ loop' = "down"
    /\ committed' = committable
    /\ UNCHANGED <<topic, cancelled, counter, consumerVars, run, historyVars>>

Crash ==
    /\ loop # "down" /\ loop' = "down"
    /\ UNCHANGED <<topic, cancelled, counter, consumerVars, committed, run, historyVars>>

\* Mutant: the counter outlives the process.
Restart_KeepsCounter ==
    /\ loop = "down" /\ run < MaxRuns
    /\ run' = run + 1
    /\ loop' = "check" /\ cancelled' = FALSE
    /\ fetched' = committed /\ done' = committed /\ committable' = committed
    /\ UNCHANGED <<topic, counter, committed, historyVars>>

\* Mutant: the consumer goes on where the last one had polled to.
Restart_FromFetched ==
    /\ loop = "down" /\ run < MaxRuns
    /\ run' = run + 1
    /\ loop' = "check" /\ cancelled' = FALSE /\ counter' = 0
    /\ UNCHANGED <<topic, consumerVars, committed, historyVars>>

\* Mutant: the group has no say in where the consumer starts.
Restart_FromStart ==
    /\ loop = "down" /\ run < MaxRuns
    /\ run' = run + 1
    /\ loop' = "check" /\ cancelled' = FALSE /\ counter' = 0
    /\ fetched' = 0 /\ done' = 0 /\ committable' = committed
    /\ UNCHANGED <<topic, committed, historyVars>>

\* A new process: NewBridge and Start.
Restart ==
    /\ loop = "down" /\ run < MaxRuns
    /\ run' = run + 1
    /\ loop' = "check" /\ cancelled' = FALSE /\ counter' = 0
    /\ fetched' = committed /\ done' = committed /\ committable' = committed
    /\ UNCHANGED <<topic, committed, historyVars>>

-----------------------------------------------------------------------------
PollReturnsAny == \E n \in 1..MaxRecords : PollReturns(n)

PollFailsAny == \E n \in 0..MaxRecords : PollFails(n)

\* What the loop does by itself, without an answer from outside.
LoopStep ==
    \/ CheckContext \/ EnterPoll \/ PollCancelled \/ BatchDone
    \/ DropUnparsable \/ SkipEmpty \/ CallPredict \/ EmitResult \/ CloseClient

Next ==
    \/ \E kind \in Kinds : Produce(kind)
    \/ AutoCommit \/ LoopStep \/ PollReturnsAny \/ PollFailsAny
    \/ PredictFails \/ PredictAnswers
    \/ Cancel \/ Crash \/ Restart

Spec == Init /\ [][Next]_vars

\* The loop's goroutine runs, and a call under a cancelled context returns.
\* Nothing is assumed of the broker or the inference engine.
FairSpec == Spec /\ WF_vars(LoopStep) /\ WF_vars(cancelled /\ PredictFails)

\* The engine answers or fails, and a broker asked again and again delivers.
OthersAnswer == WF_vars(PredictAnswers \/ PredictFails) /\ SF_vars(PollReturnsAny)

-----------------------------------------------------------------------------
(* Properties *)

\* The bridge consumes as Consumption.tla says: records are dealt with in the
\* order of the topic, only what was dealt with is committed, and neither
\* goes back, through failed polls, crashes and restarts.
Group == INSTANCE Consumption WITH produced <- Len(topic)
ConsumptionSpec == Group!Spec

HasResult(o) == \E r \in results : r.offset = o

\* A record with code that is committed without ever having had a result was
\* refused by a failed Predict or came with an errored poll (bridge.go:134-139,
\* 169-172): no crash, restart or shutdown loses one, not even a shutdown
\* that makes the rest of a batch fail.
LossOnlyByFailure ==
    \A o \in 1..committed :
        topic[o] = "code" /\ ~HasResult(o) => fate[o] \in {"failed", "discarded"}

\* Within one life of the gateway the IDs are 1, 2, 3... in the order of the
\* records, and no record has two of them.
Ordered == \A r, s \in results :
              r.run = s.run => (r.id < s.id <=> r.offset < s.offset)
Dense == loop \notin {"emit", "down"} =>
              {r.id : r \in {s \in results : s.run = run}} = 1..counter
IdsInOrder == Ordered /\ Dense

\* A record gets a second result only in a later life of the gateway, and not
\* if it was committed before that life began (bridge.go:66-70).
FirstInThisRun(r) ==
    \A s \in results : s.offset = r.offset => s.run # r.run /\ r.offset > committed
RepeatedOnlyAfterRestart == [][\A r \in results' \ results : FirstInThisRun(r)]_vars

\* If engine and broker answer, every record is dealt with while the gateway
\* stays up.
EverySettled ==
    OthersAnswer =>
        \A o \in Offsets : Len(topic) >= o ~> (settled >= o \/ cancelled \/ loop = "down")
=============================================================================
