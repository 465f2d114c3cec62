---------------------------- MODULE EngineProofs ----------------------------
(***************************************************************************)
(* Theorems about Engine for any finite set of calls and any batches, and  *)
(* about the training (Training) that makes the model it serves, for any   *)
(* number of runs and epochs.                                              *)
(*                                                                         *)
(* CountInv is the account behind the reports: the counters differ only by *)
(* what is still to be added to each.  HealthInv says how far behind the   *)
(* account a counter is when a health check loads it.  BestInv says what   *)
(* the checkpoint is in each phase of a run.                               *)
(***************************************************************************)
EXTENDS Engine, Training, SequenceTheorems, FiniteSetTheorems, TLAPS

Labels == {"vulnerable", "clean"}

ShapeInv ==
    /\ pc \in [Calls -> {"idle", "lock", "run", "stats", "reply"}]
    /\ codes \in [Calls -> Seq(Codes)] /\ results \in [Calls -> Seq(Labels)]
    /\ due \in [Calls -> SUBSET Counters]
    /\ predictions \in Nat /\ latency \in Nat
    /\ health \in [total : {NotLoaded} \cup Nat, latency : {NotLoaded} \cup Nat,
                   overlap : Nat]

\* A call has the predictions of its first snippets, and of all when it replies.
ProgressInv ==
    \A c \in Calls :
        /\ pc[c] \in {"lock", "run", "stats"} => Len(results[c]) < Len(codes[c])
        /\ pc[c] = "reply" => Len(results[c]) = Len(codes[c])
        /\ \A i \in 1..Len(results[c]) : results[c][i] = Label(codes[c][i])

\* The calls whose prediction is still to be added to a counter.
Owing(counter) == {c \in Calls : counter \in due[c]}

CountInv ==
    /\ \A c \in Calls : due[c] # {} => pc[c] = "stats"
    /\ predictions + Cardinality(Owing("total")) = latency + Cardinality(Owing("latency"))

\* The predictions the session has made.
Made == predictions + Cardinality(Owing("total"))

\* What one load has seen is behind by no more than the overlap, and neither is
\* what the other one will see.
HealthInv ==
    /\ ~Between /\ ~Reported => health = NoCheck
    /\ Between =>
          /\ \A k \in Counters : Cardinality(Owing(k)) <= health.overlap
          /\ health.total # NotLoaded => health.total \in Made - health.overlap..Made
          /\ health.latency # NotLoaded => health.latency \in Made - health.overlap..Made

EngineInv ==
    ShapeInv /\ ProgressInv /\ CountInv /\ HealthInv /\ ReportIsOffByOverlap

-----------------------------------------------------------------------------
\* One call less, or one more, owes to a counter.
LEMMA OwingFacts ==
    ASSUME NEW S \in SUBSET Calls, NEW c \in Calls
    PROVE  /\ IsFiniteSet(S) /\ Cardinality(S) \in Nat
           /\ c \in S => Cardinality(S \ {c}) = Cardinality(S) - 1
           /\ c \notin S => Cardinality(S \cup {c}) = Cardinality(S) + 1
  <1>1. IsFiniteSet(S)
    BY EngineAssumption, FS_Subset DEF EngineAssumption
  <1>2. QED
    BY <1>1, FS_CardinalityType, FS_AddElement, FS_RemoveElement

\* No more calls owe to a counter than are on their way to both.
LEMMA OnTheirWayFacts ==
    OnTheirWay \in Nat /\ (CountInv => \A k : Cardinality(Owing(k)) <= OnTheirWay)
  <1> DEFINE S == {c \in Calls : pc[c] = "stats"}
  <1>1. S \subseteq Calls /\ OnTheirWay = Cardinality(S)
    BY DEF OnTheirWay
  <1>2. IsFiniteSet(S) /\ Cardinality(S) \in Nat
    BY <1>1, EngineAssumption, FS_Subset, FS_CardinalityType DEF EngineAssumption
  <1>3. ASSUME CountInv, NEW k PROVE Cardinality(Owing(k)) <= Cardinality(S)
    <2>1. Owing(k) \subseteq S
      BY <1>3 DEF CountInv, Owing
    <2>2. QED
      BY <1>2, <2>1, FS_Subset
  <1>4. QED
    BY <1>1, <1>2, <1>3

LEMMA EngineInit == Init => EngineInv
  <1> SUFFICES ASSUME Init PROVE EngineInv
    OBVIOUS
  <1>1. ShapeInv
    <2>1. codes \in [Calls -> Seq(Codes)] /\ results \in [Calls -> Seq(Labels)]
      BY DEF Init
    <2>2. health \in [total : {NotLoaded} \cup Nat, latency : {NotLoaded} \cup Nat,
                      overlap : Nat]
      BY DEF Init, NoCheck
    <2>3. QED
      BY <2>1, <2>2 DEF Init, ShapeInv
  <1>2. ProgressInv
    BY DEF Init, ProgressInv
  <1>3. CountInv
    <2>1. Owing("total") = {} /\ Owing("latency") = {}
      BY DEF Init, Owing
    <2>2. QED
      BY <2>1 DEF Init, CountInv
  <1>4. HealthInv /\ ReportIsOffByOverlap
    BY DEF Init, HealthInv, ReportIsOffByOverlap, NoCheck, Between, Reported
  <1>5. QED
    BY <1>1, <1>2, <1>3, <1>4 DEF EngineInv

-----------------------------------------------------------------------------
(* The inductive step *)

\* What a call is asked is a sequence of codes.
LEMMA SpawnFacts ==
    ASSUME NEW c \in Calls, Predict(c) \/ PredictBatch(c)
    PROVE  \E batch \in Seq(Codes) : Spawn(c, batch)
  <1>1. \A code \in Codes : <<code>> \in Seq(Codes)
    OBVIOUS
  <1>2. \A batch \in Batches : batch \in Seq(Codes)
    BY EngineAssumption DEF EngineAssumption, Batches
  <1>3. QED
    BY <1>1, <1>2 DEF Predict, PredictBatch

\* One more prediction, with its snippet's label.
LEMMA PredictedFacts ==
    ASSUME ShapeInv, ProgressInv, NEW c \in Calls, Predicted(c)
    PROVE  LET n == Len(results[c]) + 1 IN
           /\ results' = [results EXCEPT ![c] = Append(results[c], Label(codes[c][n]))]
           /\ Append(results[c], Label(codes[c][n])) \in Seq(Labels)
           /\ results'[c] \in Seq(Labels) /\ Len(results'[c]) = n /\ n <= Len(codes[c])
           /\ \A i \in 1..n : results'[c][i] = Label(codes[c][i])
           /\ pc' = [pc EXCEPT ![c] = IF n = Len(codes[c]) THEN "reply" ELSE "lock"]
           /\ codes' = codes
  <1> DEFINE n == Len(results[c]) + 1
             label == Label(codes[c][n])
  <1>1. results[c] \in Seq(Labels) /\ codes[c] \in Seq(Codes) /\ Len(results[c]) < Len(codes[c])
    BY DEF ShapeInv, ProgressInv, Predicted
  <1>2. label \in Labels
    BY DEF Label, Labels
  <1>3. /\ results' = [results EXCEPT ![c] = Append(results[c], label)]
        /\ pc' = [pc EXCEPT ![c] = IF n = Len(codes[c]) THEN "reply" ELSE "lock"]
        /\ codes' = codes
    BY DEF Predicted
  <1> HIDE DEF label
  <1>4. /\ Append(results[c], label) \in Seq(Labels) /\ Len(Append(results[c], label)) = n
        /\ \A i \in 1..Len(results[c]) : Append(results[c], label)[i] = results[c][i]
        /\ Append(results[c], label)[n] = label
    BY <1>1, <1>2, AppendProperties
  <1>5. results'[c] = Append(results[c], label)
    BY <1>3 DEF ShapeInv
  <1>6. \A i \in 1..n : results'[c][i] = Label(codes[c][i])
    <2>1. ASSUME NEW i \in 1..n PROVE results'[c][i] = Label(codes[c][i])
      <3>1. CASE i = n
        BY <1>4, <1>5, <3>1 DEF label
      <3>2. CASE i # n
        <4>1. i \in 1..Len(results[c])
          BY <1>1, <3>2
        <4>2. QED
          BY <1>4, <1>5, <4>1 DEF ProgressInv
      <3>3. QED
        BY <3>1, <3>2
    <2>2. QED
      BY <2>1
  <1>7. QED
    BY <1>1, <1>3, <1>4, <1>5, <1>6 DEF label

LEMMA ShapeStep ==
    ASSUME ShapeInv, ProgressInv, [Next]_vars
    PROVE  ShapeInv'
  <1>1. ASSUME NEW c \in Calls, Predict(c) \/ PredictBatch(c) PROVE ShapeInv'
    <2>1. PICK batch \in Seq(Codes) : Spawn(c, batch)
      BY <1>1, SpawnFacts
    <2>2. QED
      BY <2>1 DEF Spawn, ShapeInv, lockVars, statVars
  <1>2. ASSUME NEW c \in Calls,
               \/ TokenizeFails(c) \/ LockPoisoned(c) \/ Reply(c)
               \/ RunFails(c) \/ RunPanics(c)
        PROVE  ShapeInv'
    <2>1. /\ results' = [results EXCEPT ![c] = <<>>] /\ codes' = [codes EXCEPT ![c] = <<>>]
          /\ pc' = [pc EXCEPT ![c] = "idle"]
      BY <1>2 DEF TokenizeFails, LockPoisoned, Reply, RunFails, RunPanics, Goto, Error
    <2>2. <<>> \in Seq(Codes) /\ <<>> \in Seq(Labels)
      OBVIOUS
    <2>3. /\ codes' \in [Calls -> Seq(Codes)] /\ results' \in [Calls -> Seq(Labels)]
          /\ pc' \in [Calls -> {"idle", "lock", "run", "stats", "reply"}]
      BY <2>1, <2>2 DEF ShapeInv
    <2>4. UNCHANGED <<predictions, latency, due, health>>
      BY <1>2 DEF TokenizeFails, LockPoisoned, Reply, RunFails, RunPanics, statVars
    <2>5. QED
      BY <2>3, <2>4 DEF ShapeInv
  <1>3. ASSUME NEW c \in Calls, Lock(c) PROVE ShapeInv'
    BY <1>3 DEF Lock, Goto, ShapeInv, statVars
  <1>4. ASSUME NEW c \in Calls, Run(c) PROVE ShapeInv'
    <2>1. health' \in [total : {NotLoaded} \cup Nat, latency : {NotLoaded} \cup Nat,
                      overlap : Nat]
      <3> DEFINE overlap == IF Between THEN health.overlap + 1 ELSE health.overlap
      <3>1. overlap \in Nat /\ health' = [health EXCEPT !.overlap = overlap]
        BY <1>4 DEF Run, ShapeInv
      <3> HIDE DEF overlap
      <3>2. QED
        BY <3>1 DEF ShapeInv
    <2>2. QED
      BY <1>4, <2>1 DEF Run, Goto, ShapeInv, Counters
  <1>5. ASSUME NEW c \in Calls, AddTotal(c) PROVE ShapeInv'
    <2>1. due' \in [Calls -> SUBSET Counters]
      BY <1>5 DEF AddTotal, ShapeInv
    <2>2. QED
      BY <1>5, <2>1 DEF AddTotal, ShapeInv, callVars
  <1>6. ASSUME NEW c \in Calls, AddLatency(c) PROVE ShapeInv'
    <2>1. due' \in [Calls -> SUBSET Counters]
      BY <1>6 DEF AddLatency, ShapeInv
    <2>2. QED
      BY <1>6, <2>1 DEF AddLatency, ShapeInv, callVars
  <1>7. ASSUME NEW c \in Calls, Predicted(c) PROVE ShapeInv'
    <2>1. results' \in [Calls -> Seq(Labels)]
      <3> DEFINE all == Append(results[c], Label(codes[c][Len(results[c]) + 1]))
      <3>1. all \in Seq(Labels) /\ results' = [results EXCEPT ![c] = all]
        BY <1>7, PredictedFacts
      <3> HIDE DEF all
      <3>2. QED
        BY <3>1 DEF ShapeInv
    <2>2. pc' \in [Calls -> {"idle", "lock", "run", "stats", "reply"}]
      BY <1>7 DEF Predicted, ShapeInv
    <2>3. QED
      BY <1>7, <2>1, <2>2 DEF Predicted, ShapeInv, statVars
  <1>8. CASE Refuse
    BY <1>8 DEF Refuse, ShapeInv, callVars, statVars
  <1>9. CASE LoadTotal \/ LoadLatency
    <2>1. Overlap \in Nat
      BY OnTheirWayFacts DEF Overlap, ShapeInv
    <2>2. \/ health' = [health EXCEPT !.total = predictions, !.overlap = Overlap]
          \/ health' = [health EXCEPT !.latency = latency, !.overlap = Overlap]
      BY <1>9 DEF LoadTotal, LoadLatency
    <2>3. health' \in [total : {NotLoaded} \cup Nat, latency : {NotLoaded} \cup Nat,
                      overlap : Nat]
      BY <2>1, <2>2 DEF ShapeInv
    <2>4. QED
      BY <1>9, <2>3 DEF LoadTotal, LoadLatency, ShapeInv, callVars, statVars
  <1>10. CASE HealthCheck
    BY <1>10 DEF HealthCheck, NoCheck, ShapeInv, callVars, statVars
  <1>11. CASE UNCHANGED vars
    BY <1>11 DEF ShapeInv, vars, callVars, statVars
  <1>12. QED
    BY <1>1, <1>2, <1>3, <1>4, <1>5, <1>6, <1>7, <1>8, <1>9, <1>10, <1>11
       DEF Next, TaskStep

LEMMA ProgressStep ==
    ASSUME ShapeInv, ProgressInv, [Next]_vars
    PROVE  ProgressInv'
  \* A call that begins, or ends, has no prediction.
  <1>1. ASSUME NEW c \in Calls, NEW batch \in Seq(Codes), Spawn(c, batch)
        PROVE  ProgressInv'
    <2>1. /\ results' = [results EXCEPT ![c] = <<>>] /\ codes' = [codes EXCEPT ![c] = batch]
          /\ pc' = [pc EXCEPT ![c] = IF batch = <<>> THEN "reply" ELSE "lock"]
      BY <1>1 DEF Spawn
    <2>2. Len(batch) \in Nat /\ (batch # <<>> => Len(batch) > 0)
      OBVIOUS
    <2>3. Len(<<>>) = 0 /\ 1..Len(<<>>) = {}
      OBVIOUS
    <2>4. QED
      BY <2>1, <2>2, <2>3 DEF ProgressInv, ShapeInv
  <1>2. ASSUME NEW c \in Calls, Predict(c) \/ PredictBatch(c) PROVE ProgressInv'
    BY <1>1, <1>2, SpawnFacts
  <1>3. ASSUME NEW c \in Calls,
               \/ TokenizeFails(c) \/ LockPoisoned(c) \/ Reply(c)
               \/ RunFails(c) \/ RunPanics(c)
        PROVE  ProgressInv'
    <2>1. /\ results' = [results EXCEPT ![c] = <<>>] /\ codes' = [codes EXCEPT ![c] = <<>>]
          /\ pc' = [pc EXCEPT ![c] = "idle"]
      BY <1>3 DEF TokenizeFails, LockPoisoned, Reply, RunFails, RunPanics, Goto, Error
    <2>2. 1..Len(<<>>) = {}
      OBVIOUS
    <2>3. QED
      BY <2>1, <2>2 DEF ProgressInv, ShapeInv
  <1>4. ASSUME NEW c \in Calls, Lock(c) \/ Run(c) PROVE ProgressInv'
    BY <1>4 DEF Lock, Run, Goto, ProgressInv, ShapeInv
  <1>5. ASSUME NEW c \in Calls, Predicted(c) PROVE ProgressInv'
    <2> DEFINE n == Len(results[c]) + 1
    <2>1. /\ Len(results'[c]) = n /\ n <= Len(codes[c])
          /\ \A i \in 1..n : results'[c][i] = Label(codes[c][i])
          /\ pc' = [pc EXCEPT ![c] = IF n = Len(codes[c]) THEN "reply" ELSE "lock"]
          /\ codes' = codes
      BY <1>5, PredictedFacts
    <2>2. \A d \in Calls \ {c} : results'[d] = results[d] /\ pc'[d] = pc[d]
      BY <1>5 DEF Predicted, ShapeInv
    <2>3. pc'[c] = IF n = Len(codes[c]) THEN "reply" ELSE "lock"
      BY <2>1 DEF ShapeInv
    <2>4. Len(codes[c]) \in Nat /\ n \in Nat
      BY DEF ShapeInv
    <2>5. /\ pc'[c] \in {"lock", "run", "stats"} => Len(results'[c]) < Len(codes'[c])
          /\ pc'[c] = "reply" => Len(results'[c]) = Len(codes'[c])
          /\ \A i \in 1..Len(results'[c]) : results'[c][i] = Label(codes'[c][i])
      BY <2>1, <2>3, <2>4
    <2>6. QED
      BY <2>1, <2>2, <2>5 DEF ProgressInv
  <1>6. ASSUME callVars' = callVars PROVE ProgressInv'
    BY <1>6 DEF ProgressInv, callVars
  <1>7. QED
    BY <1>2, <1>3, <1>4, <1>5, <1>6
       DEF Next, TaskStep, AddTotal, AddLatency, Refuse, LoadTotal, LoadLatency,
           HealthCheck, vars

\* A prediction that the session has made owes to both counters.
LEMMA RunOwes ==
    ASSUME ShapeInv, CountInv, NEW c \in Calls, Run(c)
    PROVE  /\ \A k \in Counters : /\ Cardinality(Owing(k)) \in Nat
                                  /\ Cardinality(Owing(k)') = Cardinality(Owing(k)) + 1
           /\ predictions' = predictions /\ latency' = latency
  <1> USE DEF Counters
  <1>1. /\ due' = [due EXCEPT ![c] = Counters] /\ due[c] = {}
        /\ predictions' = predictions /\ latency' = latency
    BY DEF Run, Goto, CountInv
  <1>2. \A k \in Counters : Owing(k) \subseteq Calls /\ c \notin Owing(k)
                            /\ Owing(k)' = Owing(k) \cup {c}
    BY <1>1 DEF Owing, ShapeInv
  <1>3. QED
    BY <1>1, <1>2, OwingFacts

\* What is added to a counter is no longer owed to it.
LEMMA AddOwes ==
    ASSUME ShapeInv, CountInv, NEW c \in Calls
    PROVE  /\ Cardinality(Owing("total")) \in Nat /\ Cardinality(Owing("latency")) \in Nat
           /\ Cardinality(Owing("total")') \in Nat /\ Cardinality(Owing("latency")') \in Nat
           /\ AddTotal(c) =>
                 /\ Cardinality(Owing("total")') = Cardinality(Owing("total")) - 1
                 /\ Owing("latency")' = Owing("latency")
                 /\ predictions' = predictions + 1 /\ latency' = latency
           /\ AddLatency(c) =>
                 /\ Cardinality(Owing("latency")') = Cardinality(Owing("latency")) - 1
                 /\ Owing("total")' = Owing("total")
                 /\ latency' = latency + 1 /\ predictions' = predictions
  <1>1. \A k : Owing(k) \subseteq Calls /\ Owing(k)' \subseteq Calls
    BY DEF Owing
  <1>2. AddTotal(c) => /\ c \in Owing("total") /\ Owing("total")' = Owing("total") \ {c}
                       /\ Owing("latency")' = Owing("latency")
    BY DEF AddTotal, Owing, ShapeInv, Counters
  <1>3. AddLatency(c) => /\ c \in Owing("latency")
                         /\ Owing("latency")' = Owing("latency") \ {c}
                         /\ Owing("total")' = Owing("total")
    BY DEF AddLatency, Owing, ShapeInv, Counters
  <1>4. QED
    BY <1>1, <1>2, <1>3, OwingFacts DEF AddTotal, AddLatency

\* A prediction owes to both counters, or to the one it is not added to yet.
LEMMA CountStep ==
    ASSUME ShapeInv, CountInv, [Next]_vars
    PROVE  CountInv'
  <1> USE DEF Counters
  <1>0. /\ predictions \in Nat /\ latency \in Nat
        /\ predictions + Cardinality(Owing("total")) = latency + Cardinality(Owing("latency"))
    BY DEF ShapeInv, CountInv
  <1>1. ASSUME NEW c \in Calls, Run(c) PROVE CountInv'
    <2>1. \A d \in Calls : due'[d] # {} => pc'[d] = "stats"
      BY <1>1 DEF Run, Goto, CountInv, ShapeInv
    <2>2. (predictions + Cardinality(Owing("total")) = latency + Cardinality(Owing("latency")))'
      BY <1>0, <1>1, RunOwes
    <2>3. QED
      BY <2>1, <2>2 DEF CountInv
  <1>2. ASSUME NEW c \in Calls, AddTotal(c) \/ AddLatency(c) PROVE CountInv'
    <2>1. \A d \in Calls : due'[d] # {} => pc'[d] = "stats"
      BY <1>2 DEF AddTotal, AddLatency, CountInv, ShapeInv, callVars
    <2>2. (predictions + Cardinality(Owing("total")) = latency + Cardinality(Owing("latency")))'
      BY <1>0, <1>2, AddOwes
    <2>3. QED
      BY <2>1, <2>2 DEF CountInv
  \* Nothing else leaves "stats" with something due, or touches a counter.
  <1>4. ASSUME UNCHANGED statVars, \A d \in Calls : due[d] # {} => pc'[d] = pc[d]
        PROVE  CountInv'
    <2>1. Owing("total")' = Owing("total") /\ Owing("latency")' = Owing("latency")
      BY <1>4 DEF Owing, statVars
    <2>2. \A d \in Calls : due'[d] # {} => pc'[d] = "stats"
      BY <1>4 DEF CountInv, statVars
    <2>3. QED
      BY <1>4, <2>1, <2>2 DEF CountInv, statVars
  <1>5. ASSUME NEW c \in Calls, Predict(c) \/ PredictBatch(c) PROVE CountInv'
    <2>1. PICK batch \in Seq(Codes) : Spawn(c, batch)
      BY <1>5, SpawnFacts
    <2>2. UNCHANGED statVars /\ \A d \in Calls : due[d] # {} => pc'[d] = pc[d]
      BY <2>1 DEF Spawn, CountInv, ShapeInv
    <2>3. QED
      BY <1>4, <2>2
  <1>6. ASSUME NEW c \in Calls,
               \/ TokenizeFails(c) \/ Lock(c) \/ LockPoisoned(c) \/ Reply(c)
               \/ RunFails(c) \/ RunPanics(c)
        PROVE  CountInv'
    <2>1. UNCHANGED statVars /\ \A d \in Calls : due[d] # {} => pc'[d] = pc[d]
      BY <1>6 DEF TokenizeFails, Lock, LockPoisoned, Reply, RunFails, RunPanics, Goto,
                  CountInv, ShapeInv
    <2>2. QED
      BY <1>4, <2>1
  <1>7. ASSUME NEW c \in Calls, Predicted(c) PROVE CountInv'
    <2>1. UNCHANGED statVars /\ \A d \in Calls : due[d] # {} => pc'[d] = pc[d]
      BY <1>7 DEF Predicted, ShapeInv
    <2>2. QED
      BY <1>4, <2>1
  <1>8. CASE Refuse \/ LoadTotal \/ LoadLatency \/ HealthCheck \/ UNCHANGED vars
    <2>1. UNCHANGED statVars /\ pc' = pc
      BY <1>8 DEF Refuse, LoadTotal, LoadLatency, HealthCheck, vars, callVars
    <2>2. QED
      BY <1>4, <2>1
  <1>9. QED
    BY <1>1, <1>2, <1>5, <1>6, <1>7, <1>8 DEF Next, TaskStep

\* Between its two loads a health check sees the account grow with the overlap.
LEMMA HealthStep ==
    ASSUME ShapeInv, CountInv, HealthInv, ReportIsOffByOverlap, [Next]_vars
    PROVE  HealthInv' /\ ReportIsOffByOverlap'
  <1> USE DEF HealthInv, ReportIsOffByOverlap, Between, Reported, Made, NotLoaded
  <1>1. /\ predictions \in Nat /\ latency \in Nat /\ health.overlap \in Nat
        /\ health.total \in {-1} \cup Nat /\ health.latency \in {-1} \cup Nat
        /\ Cardinality(Owing("total")) \in Nat /\ Cardinality(Owing("latency")) \in Nat
        /\ predictions + Cardinality(Owing("total")) = latency + Cardinality(Owing("latency"))
    <2>1. Owing("total") \subseteq Calls /\ Owing("latency") \subseteq Calls
      BY DEF Owing
    <2>2. QED
      BY <2>1, EngineAssumption, FS_Subset, FS_CardinalityType
         DEF EngineAssumption, ShapeInv, CountInv
  <1>2. ASSUME NEW c \in Calls, Run(c) PROVE HealthInv' /\ ReportIsOffByOverlap'
    <2>1. \A k \in Counters : Cardinality(Owing(k)') = Cardinality(Owing(k)) + 1
      BY <1>2, RunOwes
    <2>2. predictions' = predictions
      BY <1>2, RunOwes
    <2>3. CASE Between
      <3>1. /\ health'.overlap = health.overlap + 1
            /\ health'.total = health.total /\ health'.latency = health.latency
        BY <1>2, <2>3 DEF Run, ShapeInv
      <3>2. QED
        BY <1>1, <2>1, <2>2, <2>3, <3>1 DEF Counters
    <2>4. CASE ~Between
      BY <1>2, <2>4 DEF Run, ShapeInv
    <2>5. QED
      BY <2>3, <2>4
  <1>3. ASSUME NEW c \in Calls, AddTotal(c) \/ AddLatency(c)
        PROVE  HealthInv' /\ ReportIsOffByOverlap'
    <2>1. health' = health
      BY <1>3 DEF AddTotal, AddLatency
    <2>2. Made' = Made
      BY <1>1, <1>3, AddOwes
    <2>3. \A k \in Counters : Cardinality(Owing(k)') <= Cardinality(Owing(k))
      BY <1>1, <1>3, AddOwes DEF Counters
    <2>4. \A k \in Counters : /\ Cardinality(Owing(k)) \in Nat
                              /\ Cardinality(Owing(k)') \in Nat
      BY <1>1, <1>3, AddOwes DEF Counters
    <2>5. QED
      BY <1>1, <2>1, <2>2, <2>3, <2>4
  <1>4. CASE LoadTotal
    <2>1. /\ health'.total = predictions /\ health'.latency = health.latency
          /\ health'.overlap = Overlap /\ health.total = -1
      BY <1>4 DEF LoadTotal, ShapeInv
    <2>2. UNCHANGED <<predictions, latency>> /\ \A k : Owing(k)' = Owing(k)
      BY <1>4 DEF LoadTotal, statVars, Owing
    <2>3. CASE health = NoCheck
      BY <1>1, <2>1, <2>2, <2>3, OnTheirWayFacts DEF Overlap, NoCheck
    <2>4. CASE health # NoCheck
      BY <1>1, <2>1, <2>2, <2>4 DEF Overlap, Counters
    <2>5. QED
      BY <2>3, <2>4
  <1>5. CASE LoadLatency
    <2>1. /\ health'.latency = latency /\ health'.total = health.total
          /\ health'.overlap = Overlap /\ health.latency = -1
      BY <1>5 DEF LoadLatency, ShapeInv
    <2>2. UNCHANGED <<predictions, latency>> /\ \A k : Owing(k)' = Owing(k)
      BY <1>5 DEF LoadLatency, statVars, Owing
    <2>3. CASE health = NoCheck
      BY <1>1, <2>1, <2>2, <2>3, OnTheirWayFacts DEF Overlap, NoCheck
    <2>4. CASE health # NoCheck
      BY <1>1, <2>1, <2>2, <2>4 DEF Overlap, Counters
    <2>5. QED
      BY <2>3, <2>4
  <1>6. CASE HealthCheck
    BY <1>6 DEF HealthCheck, NoCheck
  <1>7. ASSUME UNCHANGED <<statVars, health>> PROVE HealthInv' /\ ReportIsOffByOverlap'
    <2>1. UNCHANGED <<predictions, latency>> /\ \A k : Owing(k)' = Owing(k)
      BY <1>7 DEF statVars, Owing
    <2>2. QED
      BY <1>7, <2>1 DEF NoCheck
  <1>8. ASSUME NEW c \in Calls, Predict(c) \/ PredictBatch(c) PROVE UNCHANGED <<statVars, health>>
    BY <1>8, SpawnFacts DEF Spawn
  <1>9. QED
    BY <1>2, <1>3, <1>4, <1>5, <1>6, <1>7, <1>8
       DEF Next, TaskStep, vars, TokenizeFails, Lock, LockPoisoned, RunFails, RunPanics,
           Predicted, Reply, Refuse

-----------------------------------------------------------------------------
LEMMA EngineInvariant == Spec => []EngineInv
  <1>1. EngineInv /\ [Next]_vars => EngineInv'
    BY ShapeStep, ProgressStep, CountStep, HealthStep DEF EngineInv
  <1>2. QED
    BY EngineInit, <1>1, PTL DEF Spec

\* A reply carries one prediction per snippet, each its own (engine.rs:166-169,
\* main.rs:112-131), however many calls share the session and whichever of
\* them fail or panic.
THEOREM EveryAnswerFits == Spec => []AnswersFit
  <1>1. ASSUME EngineInv PROVE AnswersFit
    <2>1. ASSUME NEW c \in Calls, pc[c] = "reply"
          PROVE  /\ Len(results[c]) = Len(codes[c])
                 /\ \A i \in DOMAIN codes[c] : results[c][i] = Label(codes[c][i])
      <3>1. codes[c] \in Seq(Codes) /\ Len(results[c]) = Len(codes[c])
        BY <1>1, <2>1 DEF EngineInv, ShapeInv, ProgressInv
      <3>2. DOMAIN codes[c] = 1..Len(results[c])
        BY <3>1
      <3>3. QED
        BY <1>1, <3>1, <3>2 DEF EngineInv, ProgressInv
    <2>2. QED
      BY <2>1 DEF AnswersFit
  <1>2. QED
    BY EngineInvariant, <1>1, PTL

\* A health check is off by no more than the predictions it overlaps, however
\* many calls there are and whichever of them fail (engine.rs:149-151, 172-184).
THEOREM ChecksAreOffByOverlap == Spec => []ReportIsOffByOverlap
  <1>1. EngineInv => ReportIsOffByOverlap
    BY DEF EngineInv
  <1>2. QED
    BY EngineInvariant, <1>1, PTL

-----------------------------------------------------------------------------
(* Training *)

\* The epoch with the best F1, the first if there are more of them.
FirstBest(e) ==
    /\ e \in DOMAIN scores /\ scores[e] = best_f1
    /\ \A i \in DOMAIN scores : scores[i] = best_f1 => e <= i

ScoreInv ==
    /\ scores \in Seq(Nat) /\ best_f1 \in Nat /\ run \in Nat
    /\ phase \in {"training", "saving", "complete", "crashed"}
    /\ \A i \in DOMAIN scores : scores[i] <= best_f1

\* While nothing is being saved the checkpoint is the best epoch; the epoch that
\* is being saved is the best one.
BestInv ==
    /\ phase \in {"training", "complete"} /\ best_f1 > 0 =>
           \E e \in DOMAIN scores : FirstBest(e) /\ best = Model(run, e)
    /\ phase = "saving" => FirstBest(Len(scores))

\* A model is none, or a trained one that was the best its run had so far.
Picked(m) ==
    \/ m \in {Nothing, Torn, Base}
    \/ \E r \in Nat, e \in Nat :
          /\ m = Model(r, e) /\ r <= run
          /\ r = run => e \in DOMAIN scores /\ \A i \in 1..e - 1 : scores[i] < scores[e]

PickedInv == Picked(best) /\ Picked(loaded) /\ Picked(onnx)

TrainingInv == ScoreInv /\ BestInv

\* An epoch that beats the others is to be saved, one that does not leaves what
\* is saved the best.
LEMMA EpochStep ==
    ASSUME TrainingInv, NEW f1 \in Nat, Epoch(f1)
    PROVE  TrainingInv'
  <1> DEFINE last == Len(scores) + 1
  <1>1. /\ scores' \in Seq(Nat) /\ Len(scores) \in Nat
        /\ DOMAIN scores = 1..Len(scores) /\ DOMAIN scores' = 1..last
        /\ \A i \in DOMAIN scores : scores'[i] = scores[i]
        /\ scores'[last] = f1 /\ Len(scores') = last
    BY AppendProperties DEF Epoch, TrainingInv, ScoreInv
  <1>2. phase = "training" /\ run' = run
    BY DEF Epoch
  <1>3. \A i \in DOMAIN scores : scores[i] <= best_f1 /\ scores[i] \in Nat
    BY DEF TrainingInv, ScoreInv
  <1>4. CASE f1 > best_f1 /\ best_f1' = f1 /\ phase' = "saving"
    <2>1. ScoreInv'
      BY <1>1, <1>2, <1>3, <1>4 DEF TrainingInv, ScoreInv
    <2>2. FirstBest(Len(scores))'
      BY <1>1, <1>3, <1>4 DEF FirstBest, TrainingInv, ScoreInv
    <2>3. QED
      BY <1>4, <2>1, <2>2 DEF TrainingInv, BestInv
  <1>5. CASE f1 <= best_f1 /\ UNCHANGED <<best_f1, phase, best>>
    <2>1. ScoreInv'
      BY <1>1, <1>2, <1>3, <1>5 DEF TrainingInv, ScoreInv
    <2>2. ASSUME best_f1 > 0
          PROVE  \E e \in DOMAIN scores' : FirstBest(e)' /\ best' = Model(run, e)
      <3>1. PICK e \in DOMAIN scores : FirstBest(e) /\ best = Model(run, e)
        BY <1>2, <2>2 DEF TrainingInv, BestInv
      <3>2. e \in DOMAIN scores' /\ scores'[e] = best_f1
        BY <1>1, <3>1 DEF FirstBest
      <3>3. \A i \in DOMAIN scores' : scores'[i] = best_f1 => e <= i
        BY <1>1, <3>1 DEF FirstBest
      <3>4. QED
        BY <1>5, <3>1, <3>2, <3>3 DEF FirstBest
    <2>3. QED
      BY <1>2, <1>5, <2>1, <2>2 DEF TrainingInv, BestInv, Model
  <1>6. QED
    BY <1>4, <1>5 DEF Epoch

LEMMA TrainingStep == TrainingInv /\ [TrainingNext]_modelVars => TrainingInv'
  <1> SUFFICES ASSUME TrainingInv, [TrainingNext]_modelVars PROVE TrainingInv'
    OBVIOUS
  <1>1. CASE Train
    <2>1. scores' = <<>> /\ run' = run + 1 /\ phase' = "training" /\ best_f1' = 0
      BY <1>1 DEF Train
    <2>2. QED
      BY <2>1 DEF TrainingInv, ScoreInv, BestInv
  <1>2. ASSUME NEW f1 \in 0..MaxF1, Epoch(f1) PROVE TrainingInv'
    BY <1>2, EpochStep
  <1>3. CASE Saved
    <2>1. FirstBest(Len(scores)) /\ best' = Model(run, Len(scores))
          /\ phase' = "training" /\ UNCHANGED <<run, scores, best_f1>>
      BY <1>3 DEF Saved, TrainingInv, BestInv
    <2>2. FirstBest(Len(scores))' /\ Len(scores') \in DOMAIN scores'
          /\ best' = Model(run', Len(scores'))
      BY <2>1 DEF FirstBest
    <2>3. QED
      BY <2>1, <2>2 DEF TrainingInv, ScoreInv, BestInv, FirstBest, Model
  <1>4. CASE Complete \/ CrashTraining
    BY <1>4 DEF Complete, CrashTraining, TrainingInv, ScoreInv, BestInv, FirstBest, Model
  <1>5. CASE Load \/ BeginExport \/ EndExport \/ CrashExport \/ UNCHANGED modelVars
    <2>1. UNCHANGED <<run, phase, scores, best_f1, best>>
      BY <1>5 DEF Load, BeginExport, EndExport, CrashExport, modelVars, trainVars
    <2>2. QED
      BY <2>1 DEF TrainingInv, ScoreInv, BestInv, FirstBest, Model
  <1>6. QED
    BY <1>1, <1>2, <1>3, <1>4, <1>5 DEF TrainingNext

\* A later epoch, or a later run, does not make a model less than it was.
LEMMA PickedStays ==
    ASSUME ScoreInv, [TrainingNext]_modelVars, NEW m, Picked(m)
    PROVE  Picked(m)'
  <1>1. CASE Train
    <2>1. run' = run + 1 /\ run \in Nat
      BY <1>1 DEF Train, ScoreInv
    <2>2. QED
      BY <2>1 DEF Picked
  <1>2. ASSUME NEW f1 \in 0..MaxF1, Epoch(f1) PROVE Picked(m)'
    <2>1. /\ run' = run /\ DOMAIN scores = 1..Len(scores) /\ Len(scores) \in Nat
          /\ DOMAIN scores' = 1..Len(scores) + 1
          /\ \A i \in DOMAIN scores : scores'[i] = scores[i]
      BY <1>2, AppendProperties DEF Epoch, ScoreInv
    <2>2. QED
      BY <2>1 DEF Picked
  <1>3. CASE UNCHANGED <<run, scores>>
    BY <1>3 DEF Picked
  <1>4. QED
    BY <1>1, <1>2, <1>3
       DEF TrainingNext, Saved, Complete, CrashTraining, Load, BeginExport, EndExport,
           CrashExport, modelVars, trainVars

LEMMA PickedStep == TrainingInv /\ PickedInv /\ [TrainingNext]_modelVars => PickedInv'
  <1> SUFFICES ASSUME TrainingInv, PickedInv, [TrainingNext]_modelVars PROVE PickedInv'
    OBVIOUS
  <1>1. /\ \A m : Picked(m) => Picked(m)'
        /\ \A m \in {Nothing, Torn, Base} : Picked(m)'
    BY PickedStays DEF TrainingInv, Picked
  <1>2. Picked(best)'
    <2>1. CASE Saved
      <3>1. FirstBest(Len(scores)) /\ UNCHANGED <<run, scores>> /\ best' = Model(run, Len(scores))
        BY <2>1 DEF Saved, TrainingInv, BestInv
      <3>2. DOMAIN scores = 1..Len(scores) /\ Len(scores) \in Nat /\ run \in Nat
        BY DEF TrainingInv, ScoreInv
      <3>3. \A i \in 1..Len(scores) - 1 : scores[i] < scores[Len(scores)]
        <4> SUFFICES ASSUME NEW i \in 1..Len(scores) - 1 PROVE scores[i] < scores[Len(scores)]
          OBVIOUS
        <4>1. i \in DOMAIN scores /\ i < Len(scores)
          BY <3>2
        <4>2. scores[i] <= best_f1 /\ scores[i] # best_f1 /\ scores[i] \in Nat /\ best_f1 \in Nat
          BY <3>1, <3>2, <4>1 DEF FirstBest, TrainingInv, ScoreInv
        <4>3. QED
          BY <3>1, <4>2 DEF FirstBest
      <3>4. Len(scores) \in DOMAIN scores
        BY <3>1 DEF FirstBest
      <3>5. QED
        BY <3>1, <3>2, <3>3, <3>4 DEF Picked
    <2>2. best' = best \/ best' = Torn \/ Saved
      BY DEF TrainingNext, Train, Epoch, Saved, Complete, CrashTraining, Load, BeginExport,
             EndExport, CrashExport, modelVars, trainVars
    <2>3. QED
      BY <1>1, <2>1, <2>2 DEF PickedInv, Picked
  <1>3. loaded' \in {loaded, best, Nothing, Base} /\ onnx' \in {onnx, loaded, Torn}
    BY DEF TrainingNext, Train, Epoch, Saved, Complete, CrashTraining, Load, BeginExport,
           EndExport, CrashExport, modelVars, trainVars
  <1>4. /\ Picked(best) /\ Picked(loaded) /\ Picked(onnx) /\ Picked(Nothing) /\ Picked(Torn)
        /\ Picked(Base)
    BY DEF PickedInv, Picked
  <1>5. (\E m : Picked(m) /\ loaded' = m) /\ (\E m : Picked(m) /\ onnx' = m)
    BY <1>3, <1>4
  <1>6. Picked(loaded)'
    <2>1. PICK m : Picked(m) /\ loaded' = m
      BY <1>5
    <2>2. Picked(m)'
      BY <1>1, <2>1
    <2>3. QED
      BY <2>1, <2>2 DEF Picked
  <1>7. Picked(onnx)'
    <2>1. PICK m : Picked(m) /\ onnx' = m
      BY <1>5
    <2>2. Picked(m)'
      BY <1>1, <2>1
    <2>3. QED
      BY <2>1, <2>2 DEF Picked
  <1>8. QED
    BY <1>2, <1>6, <1>7 DEF PickedInv

\* Whatever runs came before and however they ended, the checkpoint of a run
\* that had an epoch of use is the first of its best epochs, and what is exported
\* of it was the best so far (train.py:197-201, export_onnx.py:34-44).
THEOREM CheckpointIsBest == TrainingSpec => []BestOfRun
  <1>1. TrainingInit => TrainingInv /\ PickedInv
    BY DEF TrainingInit, TrainingInv, ScoreInv, BestInv, PickedInv, Picked
  <1>2. TrainingInv => FirstOfBest
    <2> SUFFICES ASSUME TrainingInv, phase \in {"training", "complete"},
                        NEW p \in DOMAIN scores, scores[p] > 0
                 PROVE  \E e \in DOMAIN scores :
                            /\ best = Model(run, e)
                            /\ \A i \in DOMAIN scores : /\ scores[i] <= scores[e]
                                                        /\ scores[i] = scores[e] => e <= i
      BY DEF FirstOfBest
    <2>1. best_f1 > 0
      BY DEF TrainingInv, ScoreInv
    <2>2. QED
      BY <2>1 DEF TrainingInv, ScoreInv, BestInv, FirstBest
  <1>3. ASSUME NEW m, Picked(m) PROVE BestSoFar(m)
    BY <1>3 DEF Picked, BestSoFar, Nothing, Torn, Base, Model
  <1>4. TrainingInv /\ PickedInv => BestOfRun
    BY <1>2, <1>3 DEF PickedInv, BestOfRun
  <1>5. QED
    BY <1>1, <1>4, TrainingStep, PickedStep, PTL DEF TrainingSpec
=============================================================================
