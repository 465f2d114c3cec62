------------------------------- MODULE Engine -------------------------------
(***************************************************************************)
(* The inference engine (services/inference/src/engine.rs) and the gRPC    *)
(* service around it (main.rs): concurrent Predict and PredictBatch calls, *)
(* each a blocking task, that share one ONNX session behind a Mutex and    *)
(* two relaxed counters; and the health check that reads the counters.     *)
(*                                                                         *)
(* A code is what the model says of it.  Tokenizing, padding and softmax   *)
(* have no effect on other calls and belong to the step after them.  A     *)
(* prediction takes one unit of time.  Relaxed accesses to the two         *)
(* counters are seen in any order.  A task whose client has gone runs to   *)
(* its end like any other.                                                 *)
(***************************************************************************)
EXTENDS Integers, Sequences, FiniteSets

CONSTANTS Calls,     \* the calls in progress at a time; tokio bounds the blocking tasks
          MaxBatch,  \* bound of the model: snippets in a batch
          MaxCalls   \* bound of the model: calls over time

ASSUME EngineAssumption == IsFiniteSet(Calls) /\ MaxBatch \in Nat /\ MaxCalls \in Nat

VARIABLES
    pc,          \* per call: "idle", or where its task is
    codes,       \* the snippets of the call
    results,     \* the predictions it has so far
    started,     \* calls made so far
    session,     \* holder of the session's lock, or Free
    poisoned,    \* a holder of the lock has panicked
    predictions, \* total_predictions
    latency,     \* total_latency_us
    due,         \* per call: the counters its prediction is still to be added to
    health       \* what the health check in progress has loaded, and how many
                 \* predictions were on their way to the counters at its first
                 \* load or got there before its second

callVars  == <<pc, codes, results>>
lockVars  == <<session, poisoned>>
statVars  == <<predictions, latency, due>>
vars == <<callVars, started, lockVars, statVars, health>>

Free  == "free"
Codes == {"good", "bad"}
Batches == UNION {[1..n -> Codes] : n \in 0..MaxBatch}

Label(code) == IF code = "bad" THEN "vulnerable" ELSE "clean"

MaxTotal == MaxCalls * (MaxBatch + 1)

Counters == {"total", "latency"}
NotLoaded == -1
Loaded == {NotLoaded} \cup 0..MaxTotal
NoCheck == [total |-> NotLoaded, latency |-> NotLoaded, overlap |-> 0]

TypeOK ==
    /\ pc \in [Calls -> {"idle", "lock", "run", "stats", "reply"}]
    /\ codes \in [Calls -> Batches \cup [{1} -> Codes]]
    /\ \A c \in Calls : Len(results[c]) <= Len(codes[c])
    /\ started \in 0..MaxCalls
    /\ session \in Calls \cup {Free} /\ poisoned \in BOOLEAN
    /\ predictions \in 0..MaxTotal /\ latency \in 0..MaxTotal
    /\ due \in [Calls -> SUBSET Counters]
    /\ health \in [total : Loaded, latency : Loaded, overlap : 0..MaxTotal]

Init ==
    /\ pc = [c \in Calls |-> "idle"]
    /\ codes = [c \in Calls |-> <<>>] /\ results = codes
    /\ started = 0
    /\ session = Free /\ poisoned = FALSE
    /\ predictions = 0 /\ latency = 0
    /\ due = [c \in Calls |-> {}]
    /\ health = NoCheck

-----------------------------------------------------------------------------
(* A call arrives *)

\* Predict with an empty code, which PredictBatch would take.
Refuse ==
    /\ started < MaxCalls /\ started' = started + 1
    /\ UNCHANGED <<callVars, lockVars, statVars, health>>

\* spawn_blocking
Spawn(c, batch) ==
    /\ pc[c] = "idle" /\ started < MaxCalls /\ started' = started + 1
    /\ codes' = [codes EXCEPT ![c] = batch]
    /\ results' = [results EXCEPT ![c] = <<>>]
    /\ pc' = [pc EXCEPT ![c] = IF batch = <<>> THEN "reply" ELSE "lock"]
    /\ UNCHANGED <<lockVars, statVars, health>>

Predict(c) == \E code \in Codes : Spawn(c, <<code>>)

PredictBatch(c) == \E batch \in Batches : Spawn(c, batch)

-----------------------------------------------------------------------------
(* Engine::predict, for the next snippet of the call *)

Goto(c, from, to) == pc[c] = from /\ pc' = [pc EXCEPT ![c] = to]

\* The call ends with an error; a batch ends with its first one, and what it
\* has so far is dropped.
Error(c) ==
    /\ codes' = [codes EXCEPT ![c] = <<>>] /\ results' = [results EXCEPT ![c] = <<>>]

\* Tokenization or building the tensors fails.
TokenizeFails(c) ==
    /\ Goto(c, "lock", "idle") /\ Error(c)
    /\ UNCHANGED <<started, lockVars, statVars, health>>

\* session.lock() of a healthy mutex
Lock(c) ==
    /\ session = Free /\ ~poisoned /\ Goto(c, "lock", "run")
    /\ session' = c
    /\ UNCHANGED <<codes, results, started, poisoned, statVars, health>>

\* session.lock() of a poisoned mutex
LockPoisoned(c) ==
    /\ session = Free /\ poisoned /\ Goto(c, "lock", "idle") /\ Error(c)
    /\ UNCHANGED <<started, lockVars, statVars, health>>

\* A health check has one of the counters and not the other.
Between == (health.total = NotLoaded) # (health.latency = NotLoaded)

\* The logits are copied and the lock released.
Run(c) ==
    /\ Goto(c, "run", "stats")
    /\ session' = Free
    /\ due' = [due EXCEPT ![c] = Counters]
    /\ health' = [health EXCEPT !.overlap = IF Between THEN @ + 1 ELSE @]
    /\ UNCHANGED <<codes, results, started, poisoned, predictions, latency>>

\* Mutant: failures count as predictions.
RunFails_Counted(c) ==
    /\ Goto(c, "run", "idle") /\ Error(c)
    /\ session' = Free /\ predictions' = predictions + 1
    /\ UNCHANGED <<started, poisoned, latency, due, health>>

\* Mutant: a failed snippet is left out of the batch.
RunFails_Skipped(c) ==
    /\ pc[c] = "run"
    /\ session' = Free
    /\ codes' = codes /\ results' = results
    /\ pc' = [pc EXCEPT ![c] = "reply"]
    /\ UNCHANGED <<started, poisoned, statVars, health>>

\* session.run fails, or the output is not two logits.
RunFails(c) ==
    /\ Goto(c, "run", "idle") /\ Error(c)
    /\ session' = Free
    /\ UNCHANGED <<started, poisoned, statVars, health>>

\* Mutant: the panic does not give the lock back.
RunPanics_KeepsLock(c) ==
    /\ Goto(c, "run", "idle") /\ Error(c)
    /\ UNCHANGED <<started, lockVars, statVars, health>>

\* A panic in the session's code or in taking its output: the guard's drop
\* unlocks and poisons, the task's JoinError is an error to the caller.
RunPanics(c) ==
    /\ Goto(c, "run", "idle") /\ Error(c)
    /\ session' = Free /\ poisoned' = TRUE
    /\ UNCHANGED <<started, statVars, health>>

\* total_predictions.fetch_add(1, Relaxed)
AddTotal(c) ==
    /\ "total" \in due[c] /\ due' = [due EXCEPT ![c] = @ \ {"total"}]
    /\ predictions' = predictions + 1
    /\ UNCHANGED <<callVars, started, lockVars, latency, health>>

\* total_latency_us.fetch_add(.., Relaxed)
AddLatency(c) ==
    /\ "latency" \in due[c] /\ due' = [due EXCEPT ![c] = @ \ {"latency"}]
    /\ latency' = latency + 1
    /\ UNCHANGED <<callVars, started, lockVars, predictions, health>>

\* predict returns, and a batch goes on with the next snippet.
Predicted(c) ==
    /\ pc[c] = "stats" /\ due[c] = {}
    /\ LET n == Len(results[c]) + 1 IN
        /\ results' = [results EXCEPT ![c] = Append(@, Label(codes[c][n]))]
        /\ pc' = [pc EXCEPT ![c] = IF n = Len(codes[c]) THEN "reply" ELSE "lock"]
    /\ UNCHANGED <<codes, started, lockVars, statVars, health>>

\* The response goes out: results[c], zipped with the snippets of a batch.
Reply(c) ==
    /\ Goto(c, "reply", "idle")
    /\ codes' = [codes EXCEPT ![c] = <<>>] /\ results' = [results EXCEPT ![c] = <<>>]
    /\ UNCHANGED <<started, lockVars, statVars, health>>

-----------------------------------------------------------------------------
(* HealthCheck: Engine::stats loads both counters *)

Reported == NotLoaded \notin {health.total, health.latency}

\* The predictions that are between the session and the counters.
OnTheirWay == Cardinality({c \in Calls : pc[c] = "stats"})

Overlap == IF health = NoCheck THEN OnTheirWay ELSE health.overlap

LoadTotal ==
    /\ health.total = NotLoaded
    /\ health' = [health EXCEPT !.total = predictions, !.overlap = Overlap]
    /\ UNCHANGED <<callVars, started, lockVars, statVars>>

LoadLatency ==
    /\ health.latency = NotLoaded
    /\ health' = [health EXCEPT !.latency = latency, !.overlap = Overlap]
    /\ UNCHANGED <<callVars, started, lockVars, statVars>>

\* The report goes out, with a status that is a constant of the program.
HealthCheck ==
    /\ Reported /\ health' = NoCheck
    /\ UNCHANGED <<callVars, started, lockVars, statVars>>

-----------------------------------------------------------------------------
TaskStep(c) ==
    \/ Lock(c) \/ LockPoisoned(c)
    \/ Run(c) \/ RunFails(c) \/ RunPanics(c)
    \/ AddTotal(c) \/ AddLatency(c) \/ Predicted(c) \/ Reply(c)

Next ==
    \/ \E c \in Calls : Predict(c) \/ PredictBatch(c) \/ TokenizeFails(c) \/ TaskStep(c)
    \/ Refuse \/ LoadTotal \/ LoadLatency \/ HealthCheck

Spec == Init /\ [][Next]_vars

\* The blocking threads run, and the session returns or panics.  The mutex need
\* not be fair: the calls of a run are finitely many.
FairSpec == Spec /\ \A c \in Calls : WF_vars(TaskStep(c))

-----------------------------------------------------------------------------
(* Properties *)

\* A batch is answered with one prediction for every snippet, each the one of
\* its snippet, or with an error (engine.rs:166-169, main.rs:112-131).
AnswersFit ==
    \A c \in Calls :
        pc[c] = "reply" =>
            /\ Len(results[c]) = Len(codes[c])
            /\ \A i \in DOMAIN codes[c] : results[c][i] = Label(codes[c][i])

\* What a health check reports is torn, as it loads two counters that tasks add
\* to one after the other, but by no more than the predictions it overlaps:
\* those before are in both numbers, those after in neither, and failures and
\* panics leave no trace in either (engine.rs:149-151, 172-184).
ReportIsOffByOverlap ==
    Reported => health.total - health.latency \in -health.overlap..health.overlap

\* Every call is answered, also the ones that meet a poisoned session or wait
\* for it behind a panic (engine.rs:118-121): no task waits for ever.
CallsAnswered == \A c \in Calls : pc[c] # "idle" ~> pc[c] = "idle"
=============================================================================
