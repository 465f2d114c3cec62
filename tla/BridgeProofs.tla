---------------------------- MODULE BridgeProofs ----------------------------
(***************************************************************************)
(* Theorems about Bridge for any bound on the topic and on the restarts.   *)
(* BridgeInv is the inductive invariant: the order of the five offsets,    *)
(* what the IDs of this run look like, and an account of every record with *)
(* code up to done, of which only those refused by a cancelled context     *)
(* are still open; these are beyond what can be committed.                 *)
(***************************************************************************)
EXTENDS Bridge, TLAPS

OrderInv ==
    /\ committed <= committable /\ committable <= done /\ done <= fetched
    /\ done <= settled /\ fetched <= Len(topic) /\ settled <= Len(topic)
    /\ loop \in {"check", "poll", "waiting", "ended"} => done = fetched
    /\ loop \in {"predict", "emit"} => done < fetched

CounterInv ==
    /\ loop # "down" => counter <= done + (IF loop = "emit" THEN 1 ELSE 0)
    /\ loop = "emit" => counter > 0

\* The last ID that was given to a result.
LastId == IF loop = "emit" THEN counter - 1 ELSE counter

ResultInv ==
    \A r \in results :
        r.run <= run /\ (r.run = run => r.offset <= done /\ r.id <= LastId)

DenseInv ==
    loop # "down" => \A i \in 1..LastId : \E r \in results : r.run = run /\ r.id = i

LossInv ==
    \A o \in 1..done : topic[o] = "code" /\ ~HasResult(o) =>
        \/ fate[o] \in {"failed", "discarded"}
        \/ /\ fate[o] = "cancelled" /\ cancelled /\ o > committable
           /\ loop \notin {"poll", "waiting"}

BridgeInv ==
    TypeOK /\ OrderInv /\ CounterInv /\ ResultInv /\ DenseInv /\ LossInv /\ Ordered

-----------------------------------------------------------------------------
\* A topic with one more record.
LEMMA PutFacts ==
    ASSUME NEW S, NEW q \in Seq(S), NEW e \in S
    PROVE  /\ Append(q, e) \in Seq(S) /\ Len(Append(q, e)) = Len(q) + 1
           /\ \A i \in 1..Len(q) : Append(q, e)[i] = q[i]
  OBVIOUS

\* The invariant holds of an empty topic.
LEMMA InitInv == Init => BridgeInv
  <1> SUFFICES ASSUME Init PROVE BridgeInv
    OBVIOUS
  <1> USE BridgeAssumption DEF BridgeAssumption, Init
  <1>1. <<>> \in Seq(Kinds) /\ Len(<<>>) = 0
    OBVIOUS
  <1>2. TypeOK
    <2>1. /\ run \in 1..MaxRuns /\ counter \in 0..MaxRecords /\ fetched \in 0..MaxRecords
          /\ done \in 0..MaxRecords /\ committable \in 0..MaxRecords
          /\ committed \in 0..MaxRecords /\ settled \in 0..MaxRecords
      OBVIOUS
    <2>2. topic \in Seq(Kinds) /\ Len(topic) <= MaxRecords
      BY <1>1
    <2>3. results \subseteq Result /\ fate \in [Offsets -> Fates]
      BY DEF Fates
    <2>4. QED
      BY <2>1, <2>2, <2>3 DEF TypeOK
  <1>3. OrderInv /\ CounterInv
    BY <1>1 DEF OrderInv, CounterInv
  <1>4. ResultInv /\ DenseInv /\ LossInv /\ Ordered
    BY DEF ResultInv, DenseInv, LossInv, Ordered, LastId
  <1>5. QED
    BY <1>2, <1>3, <1>4 DEF BridgeInv

-----------------------------------------------------------------------------
(* The inductive step *)

\* Types are preserved.
LEMMA TypeStep == BridgeInv /\ [Next]_vars => TypeOK'
  <1> SUFFICES ASSUME BridgeInv, [Next]_vars PROVE TypeOK'
    OBVIOUS
  <1> USE BridgeAssumption DEF BridgeAssumption, BridgeInv, TypeOK, OrderInv,
     Offsets, Fates, consumerVars, historyVars
  <1>1. ASSUME NEW kind \in Kinds, Produce(kind) PROVE TypeOK'
    BY <1>1, PutFacts DEF Produce
  <1>2. CASE AutoCommit
    BY <1>2 DEF AutoCommit
  <1>3. CASE CheckContext
    BY <1>3 DEF CheckContext
  <1>4. CASE EnterPoll
    BY <1>4 DEF EnterPoll
  <1>5. ASSUME NEW n \in 1..MaxRecords, PollReturns(n) PROVE TypeOK'
    BY <1>5 DEF PollReturns
  <1>6. ASSUME NEW n \in 0..MaxRecords, PollFails(n) PROVE TypeOK'
    BY <1>6 DEF PollFails, Larger
  <1>7. CASE PollCancelled
    BY <1>7 DEF PollCancelled
  <1>8. CASE BatchDone
    BY <1>8 DEF BatchDone
  <1>9. CASE DropUnparsable
    BY <1>9 DEF DropUnparsable, Settle, Record, Larger
  <1>10. CASE SkipEmpty
    BY <1>10 DEF SkipEmpty, Settle, Record, Larger
  <1>11. CASE CallPredict
    BY <1>11 DEF CallPredict, Settle, Record, Larger
  <1>12. CASE PredictFails
    BY <1>12 DEF PredictFails, Settle, Larger
  <1>13. CASE PredictAnswers
    BY <1>13 DEF PredictAnswers, CounterInv
  <1>14. CASE EmitResult
    BY <1>14 DEF EmitResult, Settle, Larger, Result, CounterInv
  <1>15. CASE Cancel
    BY <1>15 DEF Cancel
  <1>16. CASE CloseClient
    BY <1>16 DEF CloseClient
  <1>17. CASE Crash
    BY <1>17 DEF Crash
  <1>18. CASE Restart
    <2>1. run' \in 1..MaxRuns /\ committed \in 0..MaxRecords
      BY <1>18 DEF Restart
    <2>2. /\ loop' = "check" /\ cancelled' = FALSE /\ counter' = 0
          /\ fetched' = committed /\ done' = committed /\ committable' = committed
          /\ UNCHANGED <<topic, committed, results, fate, settled>>
      BY <1>18 DEF Restart
    <2>3. /\ counter' \in 0..MaxRecords /\ fetched' \in 0..MaxRecords
          /\ done' \in 0..MaxRecords /\ committable' \in 0..MaxRecords
      BY <2>1, <2>2
    <2>4. /\ topic' \in Seq(Kinds) /\ Len(topic') <= MaxRecords
          /\ results' \subseteq Result /\ fate' \in [Offsets -> Fates]
          /\ committed' \in 0..MaxRecords /\ settled' \in 0..MaxRecords
      BY <2>2
    <2>5. QED
      BY <2>1, <2>2, <2>3, <2>4
  <1>19. CASE UNCHANGED vars
    BY <1>19 DEF vars
  <1>20. QED
    BY <1>1, <1>2, <1>3, <1>4, <1>5, <1>6, <1>7, <1>8, <1>9, <1>10, <1>11,
       <1>12, <1>13, <1>14, <1>15, <1>16, <1>17, <1>18, <1>19
    DEF Next, LoopStep, PollReturnsAny, PollFailsAny

\* The offsets keep their order.
LEMMA OrderStep == BridgeInv /\ [Next]_vars => OrderInv'
  <1> SUFFICES ASSUME BridgeInv, [Next]_vars PROVE OrderInv'
    OBVIOUS
  <1> USE BridgeAssumption DEF BridgeAssumption, BridgeInv, TypeOK, OrderInv,
     consumerVars, historyVars
  <1>1. ASSUME NEW kind \in Kinds, Produce(kind) PROVE OrderInv'
    BY <1>1, PutFacts DEF Produce
  <1>2. CASE AutoCommit
    BY <1>2 DEF AutoCommit
  <1>3. CASE CheckContext
    BY <1>3 DEF CheckContext
  <1>4. CASE EnterPoll
    BY <1>4 DEF EnterPoll
  <1>5. ASSUME NEW n \in 1..MaxRecords, PollReturns(n) PROVE OrderInv'
    BY <1>5 DEF PollReturns
  <1>6. ASSUME NEW n \in 0..MaxRecords, PollFails(n) PROVE OrderInv'
    BY <1>6 DEF PollFails, Larger
  <1>7. CASE PollCancelled
    BY <1>7 DEF PollCancelled
  <1>8. CASE BatchDone
    BY <1>8 DEF BatchDone
  <1>9. CASE DropUnparsable
    BY <1>9 DEF DropUnparsable, Settle, Record, Larger
  <1>10. CASE SkipEmpty
    BY <1>10 DEF SkipEmpty, Settle, Record, Larger
  <1>11. CASE CallPredict
    BY <1>11 DEF CallPredict, Settle, Record, Larger
  <1>12. CASE PredictFails
    BY <1>12 DEF PredictFails, Settle, Larger
  <1>13. CASE PredictAnswers
    BY <1>13 DEF PredictAnswers
  <1>14. CASE EmitResult
    BY <1>14 DEF EmitResult, Settle, Larger
  <1>15. CASE Cancel
    BY <1>15 DEF Cancel
  <1>16. CASE CloseClient
    BY <1>16 DEF CloseClient
  <1>17. CASE Crash
    BY <1>17 DEF Crash
  <1>18. CASE Restart
    BY <1>18 DEF Restart
  <1>19. CASE UNCHANGED vars
    BY <1>19 DEF vars
  <1>20. QED
    BY <1>1, <1>2, <1>3, <1>4, <1>5, <1>6, <1>7, <1>8, <1>9, <1>10, <1>11,
       <1>12, <1>13, <1>14, <1>15, <1>16, <1>17, <1>18, <1>19
    DEF Next, LoopStep, PollReturnsAny, PollFailsAny

\* No more IDs are given out than records were dealt with.
LEMMA CounterStep == BridgeInv /\ [Next]_vars => CounterInv'
  <1> SUFFICES ASSUME BridgeInv, [Next]_vars PROVE CounterInv'
    OBVIOUS
  <1> USE BridgeAssumption DEF BridgeAssumption, BridgeInv, TypeOK, OrderInv,
     CounterInv, consumerVars, historyVars
  <1>1. ASSUME NEW kind \in Kinds, Produce(kind) PROVE CounterInv'
    BY <1>1 DEF Produce
  <1>2. CASE AutoCommit
    BY <1>2 DEF AutoCommit
  <1>3. CASE CheckContext
    BY <1>3 DEF CheckContext
  <1>4. CASE EnterPoll
    BY <1>4 DEF EnterPoll
  <1>5. ASSUME NEW n \in 1..MaxRecords, PollReturns(n) PROVE CounterInv'
    BY <1>5 DEF PollReturns
  <1>6. ASSUME NEW n \in 0..MaxRecords, PollFails(n) PROVE CounterInv'
    BY <1>6 DEF PollFails, Larger
  <1>7. CASE PollCancelled
    BY <1>7 DEF PollCancelled
  <1>8. CASE BatchDone
    BY <1>8 DEF BatchDone
  <1>9. CASE DropUnparsable
    BY <1>9 DEF DropUnparsable, Settle, Record, Larger
  <1>10. CASE SkipEmpty
    BY <1>10 DEF SkipEmpty, Settle, Record, Larger
  <1>11. CASE CallPredict
    BY <1>11 DEF CallPredict, Settle, Record, Larger
  <1>12. CASE PredictFails
    BY <1>12 DEF PredictFails, Settle, Larger
  <1>13. CASE PredictAnswers
    BY <1>13 DEF PredictAnswers
  <1>14. CASE EmitResult
    BY <1>14 DEF EmitResult, Settle, Larger
  <1>15. CASE Cancel
    BY <1>15 DEF Cancel
  <1>16. CASE CloseClient
    BY <1>16 DEF CloseClient
  <1>17. CASE Crash
    BY <1>17 DEF Crash
  <1>18. CASE Restart
    BY <1>18 DEF Restart
  <1>19. CASE UNCHANGED vars
    BY <1>19 DEF vars
  <1>20. QED
    BY <1>1, <1>2, <1>3, <1>4, <1>5, <1>6, <1>7, <1>8, <1>9, <1>10, <1>11,
       <1>12, <1>13, <1>14, <1>15, <1>16, <1>17, <1>18, <1>19
    DEF Next, LoopStep, PollReturnsAny, PollFailsAny

\* What was read is accounted for.
LEMMA LossStep == BridgeInv /\ [Next]_vars => LossInv'
  <1> SUFFICES ASSUME BridgeInv, [Next]_vars PROVE LossInv'
    OBVIOUS
  <1> USE BridgeAssumption DEF BridgeAssumption, BridgeInv, TypeOK, OrderInv,
     HasResult, Offsets, consumerVars, historyVars
  <1>1. ASSUME NEW kind \in Kinds, Produce(kind) PROVE LossInv'
    BY <1>1, PutFacts DEF Produce, LossInv
  <1>2. CASE AutoCommit
    BY <1>2 DEF AutoCommit, LossInv
  <1>3. CASE CheckContext
    BY <1>3 DEF CheckContext, LossInv
  <1>4. CASE EnterPoll
    BY <1>4 DEF EnterPoll, LossInv
  <1>5. ASSUME NEW n \in 1..MaxRecords, PollReturns(n) PROVE LossInv'
    BY <1>5 DEF PollReturns, LossInv
  <1>6. ASSUME NEW n \in 0..MaxRecords, PollFails(n) PROVE LossInv'
    <2> SUFFICES ASSUME NEW o \in 1..done', topic'[o] = "code", ~HasResult(o)'
                 PROVE  \/ fate'[o] \in {"failed", "discarded"}
                        \/ /\ fate'[o] = "cancelled" /\ cancelled' /\ o > committable'
                           /\ loop' \notin {"poll", "waiting"}
      BY DEF LossInv
    <2>1. ~HasResult(o) /\ topic[o] = "code"
      BY <1>6 DEF PollFails, Larger
    <2>2. CASE o \in 1..done
      <3>1. /\ fate'[o] = fate[o] /\ committable' = committable /\ cancelled' = cancelled
            /\ loop' \notin {"poll", "waiting"}
        BY <1>6, <2>2 DEF PollFails, Larger
      <3>2. QED
        BY <2>1, <2>2, <3>1 DEF LossInv
    <2>3. CASE o \notin 1..done
      <3>1. o \in fetched + 1..fetched + n /\ o \in Offsets
        BY <1>6, <2>3 DEF PollFails, Larger
      <3>2. fate'[o] = "discarded"
        BY <1>6, <2>1, <3>1 DEF PollFails, Larger
      <3>3. QED
        BY <3>1, <3>2
    <2>4. QED
      BY <2>2, <2>3
  <1>7. CASE PollCancelled
    BY <1>7 DEF PollCancelled, LossInv
  <1>8. CASE BatchDone
    BY <1>8 DEF BatchDone, LossInv
  <1>9. CASE DropUnparsable
    BY <1>9 DEF DropUnparsable, Settle, Record, Larger, LossInv
  <1>10. CASE SkipEmpty
    BY <1>10 DEF SkipEmpty, Settle, Record, Larger, LossInv
  <1>11. CASE CallPredict
    <2> SUFFICES ASSUME NEW o \in 1..done', topic'[o] = "code", ~HasResult(o)'
                 PROVE  \/ fate'[o] \in {"failed", "discarded"}
                        \/ /\ fate'[o] = "cancelled" /\ cancelled' /\ o > committable'
                           /\ loop' \notin {"poll", "waiting"}
      BY DEF LossInv
    <2>1. ~HasResult(o) /\ topic[o] = "code"
      BY <1>11 DEF CallPredict, Settle, Record, Larger
    <2>2. CASE o \in 1..done
      <3>1. /\ fate'[o] = fate[o] /\ committable' = committable /\ cancelled' = cancelled
            /\ loop' \notin {"poll", "waiting"}
        BY <1>11, <2>2 DEF CallPredict, Settle, Record, Larger
      <3>2. QED
        BY <2>1, <2>2, <3>1 DEF LossInv
    <2>3. CASE o \notin 1..done
      <3>1. o = done + 1 /\ cancelled /\ o \in Offsets
        BY <1>11, <2>3 DEF CallPredict, Settle, Record, Larger
      <3>2. fate'[o] = "cancelled" /\ cancelled' /\ o > committable' /\ loop' = "process"
        BY <1>11, <2>1, <3>1 DEF CallPredict, Settle, Record, Larger
      <3>3. QED
        BY <3>1, <3>2
    <2>4. QED
      BY <2>2, <2>3
  <1>12. CASE PredictFails
    <2> SUFFICES ASSUME NEW o \in 1..done', topic'[o] = "code", ~HasResult(o)'
                 PROVE  \/ fate'[o] \in {"failed", "discarded"}
                        \/ /\ fate'[o] = "cancelled" /\ cancelled' /\ o > committable'
                           /\ loop' \notin {"poll", "waiting"}
      BY DEF LossInv
    <2>1. ~HasResult(o) /\ topic[o] = "code"
      BY <1>12 DEF PredictFails, Settle, Larger
    <2>2. CASE o \in 1..done
      <3>1. /\ fate'[o] = fate[o] /\ committable' = committable /\ cancelled' = cancelled
            /\ loop' \notin {"poll", "waiting"}
        BY <1>12, <2>2 DEF PredictFails, Settle, Larger
      <3>2. QED
        BY <2>1, <2>2, <3>1 DEF LossInv
    <2>3. CASE o \notin 1..done
      <3>1. o = done + 1 /\ o \in Offsets
        BY <1>12, <2>3 DEF PredictFails, Settle, Larger
      <3>2. /\ fate'[o] = IF cancelled THEN "cancelled" ELSE "failed"
            /\ cancelled' = cancelled /\ o > committable' /\ loop' = "process"
        BY <1>12, <2>1, <3>1 DEF PredictFails, Settle, Larger
      <3>3. QED
        BY <3>1, <3>2
    <2>4. QED
      BY <2>2, <2>3
  <1>13. CASE PredictAnswers
    BY <1>13 DEF PredictAnswers, LossInv
  <1>14. CASE EmitResult
    <2> SUFFICES ASSUME NEW o \in 1..done', topic'[o] = "code", ~HasResult(o)'
                 PROVE  \/ fate'[o] \in {"failed", "discarded"}
                        \/ /\ fate'[o] = "cancelled" /\ cancelled' /\ o > committable'
                           /\ loop' \notin {"poll", "waiting"}
      BY DEF LossInv
    <2>1. ~HasResult(o) /\ topic[o] = "code"
      BY <1>14 DEF EmitResult, Settle, Larger
    <2>2. CASE o \in 1..done
      <3>1. /\ fate'[o] = fate[o] /\ committable' = committable /\ cancelled' = cancelled
            /\ loop' \notin {"poll", "waiting"}
        BY <1>14, <2>2 DEF EmitResult, Settle, Larger
      <3>2. QED
        BY <2>1, <2>2, <3>1 DEF LossInv
    <2>3. CASE o \notin 1..done
      <3>1. o = done + 1 /\ o \in Offsets
        BY <1>14, <2>3 DEF EmitResult, Settle, Larger
      <3>2. FALSE
        <4> DEFINE new == [run |-> run, id |-> counter, offset |-> done + 1]
        <4>1. new \in results' /\ new.offset = o
          BY <1>14, <3>1 DEF EmitResult
        <4>2. QED
          BY <4>1
      <3>3. QED
        BY <3>1, <3>2
    <2>4. QED
      BY <2>2, <2>3
  <1>15. CASE Cancel
    BY <1>15 DEF Cancel, LossInv
  <1>16. CASE CloseClient
    BY <1>16 DEF CloseClient, LossInv
  <1>17. CASE Crash
    BY <1>17 DEF Crash, LossInv
  <1>18. CASE Restart
    BY <1>18 DEF Restart, LossInv
  <1>19. CASE UNCHANGED vars
    BY <1>19 DEF vars, LossInv
  <1>20. QED
    BY <1>1, <1>2, <1>3, <1>4, <1>5, <1>6, <1>7, <1>8, <1>9, <1>10, <1>11,
       <1>12, <1>13, <1>14, <1>15, <1>16, <1>17, <1>18, <1>19
    DEF Next, LoopStep, PollReturnsAny, PollFailsAny

\* Results of this run are older than what comes next.
LEMMA ResultStep == BridgeInv /\ [Next]_vars => (ResultInv /\ Ordered)'
  <1> SUFFICES ASSUME BridgeInv, [Next]_vars PROVE (ResultInv /\ Ordered)'
    OBVIOUS
  <1> USE DEF BridgeInv, TypeOK, OrderInv, CounterInv, ResultInv, LastId,
     Ordered, Result, Offsets, consumerVars, historyVars
  <1>1. ASSUME NEW kind \in Kinds, Produce(kind) PROVE (ResultInv /\ Ordered)'
    BY <1>1 DEF Produce
  <1>2. CASE AutoCommit
    BY <1>2 DEF AutoCommit
  <1>3. CASE CheckContext
    BY <1>3 DEF CheckContext
  <1>4. CASE EnterPoll
    BY <1>4 DEF EnterPoll
  <1>5. ASSUME NEW n \in 1..MaxRecords, PollReturns(n) PROVE (ResultInv /\ Ordered)'
    BY <1>5 DEF PollReturns
  <1>6. ASSUME NEW n \in 0..MaxRecords, PollFails(n) PROVE (ResultInv /\ Ordered)'
    BY <1>6 DEF PollFails, Larger
  <1>7. CASE PollCancelled
    BY <1>7 DEF PollCancelled
  <1>8. CASE BatchDone
    BY <1>8 DEF BatchDone
  <1>9. CASE DropUnparsable
    BY <1>9 DEF DropUnparsable, Settle, Record, Larger
  <1>10. CASE SkipEmpty
    BY <1>10 DEF SkipEmpty, Settle, Record, Larger
  <1>11. CASE CallPredict
    BY <1>11 DEF CallPredict, Settle, Record, Larger
  <1>12. CASE PredictFails
    BY <1>12 DEF PredictFails, Settle, Larger
  <1>13. CASE PredictAnswers
    BY <1>13 DEF PredictAnswers
  <1>14. CASE EmitResult
    BY <1>14 DEF EmitResult, Settle, Larger
  <1>15. CASE Cancel
    BY <1>15 DEF Cancel
  <1>16. CASE CloseClient
    BY <1>16 DEF CloseClient
  <1>17. CASE Crash
    BY <1>17 DEF Crash
  <1>18. CASE Restart
    BY <1>18 DEF Restart
  <1>19. CASE UNCHANGED vars
    BY <1>19 DEF vars
  <1>20. QED
    BY <1>1, <1>2, <1>3, <1>4, <1>5, <1>6, <1>7, <1>8, <1>9, <1>10, <1>11,
       <1>12, <1>13, <1>14, <1>15, <1>16, <1>17, <1>18, <1>19
    DEF Next, LoopStep, PollReturnsAny, PollFailsAny

\* No ID is skipped.
LEMMA DenseStep == BridgeInv /\ [Next]_vars => DenseInv'
  <1> SUFFICES ASSUME BridgeInv, [Next]_vars PROVE DenseInv'
    OBVIOUS
  <1> USE DEF BridgeInv, TypeOK, CounterInv, ResultInv, LastId, DenseInv,
     Result, consumerVars, historyVars
  <1>1. ASSUME NEW kind \in Kinds, Produce(kind) PROVE DenseInv'
    BY <1>1 DEF Produce
  <1>2. CASE AutoCommit
    BY <1>2 DEF AutoCommit
  <1>3. CASE CheckContext
    BY <1>3 DEF CheckContext
  <1>4. CASE EnterPoll
    BY <1>4 DEF EnterPoll
  <1>5. ASSUME NEW n \in 1..MaxRecords, PollReturns(n) PROVE DenseInv'
    BY <1>5 DEF PollReturns
  <1>6. ASSUME NEW n \in 0..MaxRecords, PollFails(n) PROVE DenseInv'
    BY <1>6 DEF PollFails, Larger
  <1>7. CASE PollCancelled
    BY <1>7 DEF PollCancelled
  <1>8. CASE BatchDone
    BY <1>8 DEF BatchDone
  <1>9. CASE DropUnparsable
    BY <1>9 DEF DropUnparsable, Settle, Record, Larger
  <1>10. CASE SkipEmpty
    BY <1>10 DEF SkipEmpty, Settle, Record, Larger
  <1>11. CASE CallPredict
    BY <1>11 DEF CallPredict, Settle, Record, Larger
  <1>12. CASE PredictFails
    BY <1>12 DEF PredictFails, Settle, Larger
  <1>13. CASE PredictAnswers
    BY <1>13 DEF PredictAnswers
  <1>14. CASE EmitResult
    <2>1. /\ LastId' = LastId + 1 /\ LastId' = counter /\ run' = run
          /\ results' = results \cup {[run |-> run, id |-> counter, offset |-> done + 1]}
      BY <1>14 DEF EmitResult, Settle
    <2>2. SUFFICES ASSUME NEW i \in 1..LastId'
                   PROVE  \E r \in results' : r.run = run' /\ r.id = i
      BY DEF DenseInv
    <2>3. CASE i \in 1..LastId
      BY <1>14, <2>1, <2>3 DEF EmitResult
    <2>4. CASE i = counter
      <3> DEFINE new == [run |-> run, id |-> counter, offset |-> done + 1]
      <3>1. new \in results' /\ new.run = run' /\ new.id = i
        BY <2>1, <2>4
      <3>2. QED
        BY <3>1
    <2>5. QED
      BY <2>1, <2>3, <2>4
  <1>15. CASE Cancel
    BY <1>15 DEF Cancel
  <1>16. CASE CloseClient
    BY <1>16 DEF CloseClient
  <1>17. CASE Crash
    BY <1>17 DEF Crash
  <1>18. CASE Restart
    BY <1>18 DEF Restart
  <1>19. CASE UNCHANGED vars
    BY <1>19 DEF vars
  <1>20. QED
    BY <1>1, <1>2, <1>3, <1>4, <1>5, <1>6, <1>7, <1>8, <1>9, <1>10, <1>11,
       <1>12, <1>13, <1>14, <1>15, <1>16, <1>17, <1>18, <1>19
    DEF Next, LoopStep, PollReturnsAny, PollFailsAny

\* A step of the bridge is one of the group or leaves the group as it is.
LEMMA GroupStep == BridgeInv /\ [Next]_vars => [Group!Next]_(Group!vars)
  <1> SUFFICES ASSUME BridgeInv, [Next]_vars PROVE [Group!Next]_(Group!vars)
    OBVIOUS
  <1> USE DEF BridgeInv, TypeOK, OrderInv, Group!Next, Group!vars,
     Group!Produce, Group!Settle, Group!Commit, consumerVars, historyVars
  <1>1. ASSUME NEW kind \in Kinds, Produce(kind) PROVE [Group!Next]_(Group!vars)
    BY <1>1, PutFacts DEF Produce
  <1>2. CASE AutoCommit
    BY <1>2 DEF AutoCommit
  <1>3. CASE CheckContext
    BY <1>3 DEF CheckContext
  <1>4. CASE EnterPoll
    BY <1>4 DEF EnterPoll
  <1>5. ASSUME NEW n \in 1..MaxRecords, PollReturns(n) PROVE [Group!Next]_(Group!vars)
    BY <1>5 DEF PollReturns
  <1>6. ASSUME NEW n \in 0..MaxRecords, PollFails(n) PROVE [Group!Next]_(Group!vars)
    BY <1>6 DEF PollFails, Larger
  <1>7. CASE PollCancelled
    BY <1>7 DEF PollCancelled
  <1>8. CASE BatchDone
    BY <1>8 DEF BatchDone
  <1>9. CASE DropUnparsable
    BY <1>9 DEF DropUnparsable, Settle, Record, Larger
  <1>10. CASE SkipEmpty
    BY <1>10 DEF SkipEmpty, Settle, Record, Larger
  <1>11. CASE CallPredict
    BY <1>11 DEF CallPredict, Settle, Record, Larger
  <1>12. CASE PredictFails
    BY <1>12 DEF PredictFails, Settle, Larger
  <1>13. CASE PredictAnswers
    BY <1>13 DEF PredictAnswers
  <1>14. CASE EmitResult
    BY <1>14 DEF EmitResult, Settle, Larger
  <1>15. CASE Cancel
    BY <1>15 DEF Cancel
  <1>16. CASE CloseClient
    BY <1>16 DEF CloseClient
  <1>17. CASE Crash
    BY <1>17 DEF Crash
  <1>18. CASE Restart
    BY <1>18 DEF Restart
  <1>19. CASE UNCHANGED vars
    BY <1>19 DEF vars
  <1>20. QED
    BY <1>1, <1>2, <1>3, <1>4, <1>5, <1>6, <1>7, <1>8, <1>9, <1>10, <1>11,
       <1>12, <1>13, <1>14, <1>15, <1>16, <1>17, <1>18, <1>19
    DEF Next, LoopStep, PollReturnsAny, PollFailsAny

\* A new result is for a record beyond the commit and beyond this run's results.
LEMMA RepeatStep == BridgeInv /\ [Next]_vars => [\A r \in results' \ results : FirstInThisRun(r)]_vars
  <1> SUFFICES ASSUME BridgeInv, [Next]_vars PROVE [\A r \in results' \ results : FirstInThisRun(r)]_vars
    OBVIOUS
  <1> USE DEF BridgeInv, TypeOK, OrderInv, ResultInv, FirstInThisRun, Result,
     consumerVars, historyVars
  <1>1. ASSUME NEW kind \in Kinds, Produce(kind) PROVE [\A r \in results' \ results : FirstInThisRun(r)]_vars
    BY <1>1 DEF Produce
  <1>2. CASE AutoCommit
    BY <1>2 DEF AutoCommit
  <1>3. CASE CheckContext
    BY <1>3 DEF CheckContext
  <1>4. CASE EnterPoll
    BY <1>4 DEF EnterPoll
  <1>5. ASSUME NEW n \in 1..MaxRecords, PollReturns(n) PROVE [\A r \in results' \ results : FirstInThisRun(r)]_vars
    BY <1>5 DEF PollReturns
  <1>6. ASSUME NEW n \in 0..MaxRecords, PollFails(n) PROVE [\A r \in results' \ results : FirstInThisRun(r)]_vars
    BY <1>6 DEF PollFails, Larger
  <1>7. CASE PollCancelled
    BY <1>7 DEF PollCancelled
  <1>8. CASE BatchDone
    BY <1>8 DEF BatchDone
  <1>9. CASE DropUnparsable
    BY <1>9 DEF DropUnparsable, Settle, Record, Larger
  <1>10. CASE SkipEmpty
    BY <1>10 DEF SkipEmpty, Settle, Record, Larger
  <1>11. CASE CallPredict
    BY <1>11 DEF CallPredict, Settle, Record, Larger
  <1>12. CASE PredictFails
    BY <1>12 DEF PredictFails, Settle, Larger
  <1>13. CASE PredictAnswers
    BY <1>13 DEF PredictAnswers
  <1>14. CASE EmitResult
    BY <1>14 DEF EmitResult, Settle, vars
  <1>15. CASE Cancel
    BY <1>15 DEF Cancel
  <1>16. CASE CloseClient
    BY <1>16 DEF CloseClient
  <1>17. CASE Crash
    BY <1>17 DEF Crash
  <1>18. CASE Restart
    BY <1>18 DEF Restart
  <1>19. CASE UNCHANGED vars
    BY <1>19 DEF vars
  <1>20. QED
    BY <1>1, <1>2, <1>3, <1>4, <1>5, <1>6, <1>7, <1>8, <1>9, <1>10, <1>11,
       <1>12, <1>13, <1>14, <1>15, <1>16, <1>17, <1>18, <1>19
    DEF Next, LoopStep, PollReturnsAny, PollFailsAny

-----------------------------------------------------------------------------
(* Theorems *)

LEMMA Inductive == Spec => []BridgeInv
  <1>1. BridgeInv /\ [Next]_vars => BridgeInv'
    BY TypeStep, OrderStep, CounterStep, LossStep, ResultStep, DenseStep DEF
       BridgeInv
  <1>2. QED
    BY InitInv, <1>1, PTL DEF Spec

\* Every variable keeps its type; a run gives out at most one ID per record.
THEOREM TypeCorrect == Spec => []TypeOK
  BY Inductive, PTL DEF BridgeInv

\* No crash, restart or shutdown loses a record that is committed.
THEOREM NothingElseIsLost == Spec => []LossOnlyByFailure
  <1>1. BridgeInv => LossOnlyByFailure
    <2> SUFFICES ASSUME BridgeInv, NEW o \in 1..committed,
                        topic[o] = "code", ~HasResult(o)
                 PROVE  fate[o] \in {"failed", "discarded"}
      BY DEF LossOnlyByFailure
    <2>1. o \in 1..done /\ ~(o > committable)
      BY DEF BridgeInv, TypeOK, OrderInv
    <2>2. QED
      BY <2>1 DEF BridgeInv, LossInv
  <1>2. QED
    BY Inductive, <1>1, PTL

\* The IDs of a run are 1, 2, 3... in the order of its records.
THEOREM IdsAreInOrder == Spec => []IdsInOrder
  <1>1. BridgeInv => IdsInOrder
    <2> SUFFICES ASSUME BridgeInv, loop \notin {"emit", "down"}
                 PROVE  {r.id : r \in {s \in results : s.run = run}} = 1..counter
      BY DEF IdsInOrder, Dense, BridgeInv
    <2>1. \A r \in results : r.run = run => r.id \in 1..counter
      BY DEF BridgeInv, TypeOK, ResultInv, LastId, Result
    <2>2. \A i \in 1..counter : \E r \in results : r.run = run /\ r.id = i
      BY DEF BridgeInv, DenseInv, LastId
    <2>3. QED
      BY <2>1, <2>2
  <1>2. QED
    BY Inductive, <1>1, PTL

\* A record is given a second result only by a later run, and only if it was
\* not committed.
THEOREM RepeatsAreRedeliveries == Spec => RepeatedOnlyAfterRestart
  BY Inductive, RepeatStep, PTL DEF Spec, RepeatedOnlyAfterRestart

\* The bridge is a consumer as Consumption describes it.
THEOREM BridgeImplementsConsumption == Spec => ConsumptionSpec
  <1>1. Init => Group!Init
    BY DEF Init, Group!Init
  <1>2. BridgeInv /\ [Next]_vars => [Group!Next]_(Group!vars)
    BY GroupStep
  <1>3. QED
    BY Inductive, <1>1, <1>2, PTL DEF Spec, ConsumptionSpec, Group!Spec
=============================================================================
