-------------------------- MODULE IngestionProofs --------------------------
(***************************************************************************)
(* Theorems about Ingestion for any deliveries and pushes of any length,   *)
(* and about Pipeline for any number of records and lives of the gateway.  *)
(* TopicInv ties each record of the broker to the snippet it came from: a  *)
(* handler has gone past it, or is about to.                               *)
(***************************************************************************)
EXTENDS Pipeline, SequenceTheorems, FiniteSetTheorems, TLAPS

Places == {"none", "loop", "produce", "flight", "count", "done", "cut"}
Stages == {"starting", "serving", "draining", "closing", "exited", "failed"}

Sent == [delivery : Deliveries, file : Nat, code : {""}]

ShapeInv ==
    /\ handler \in [Deliveries -> Places]
    /\ snippets \in [Deliveries -> Seq(Nat)]
    /\ at \in [Deliveries -> Nat \ {0}] /\ published \in [Deliveries -> Nat]
    /\ topic \in Seq(Sent)
    /\ main \in Stages /\ count \in Nat

LoopInv ==
    \A d \in Deliveries :
        /\ \A i, j \in DOMAIN snippets[d] : i < j => snippets[d][i] < snippets[d][j]
        /\ handler[d] = "none" => snippets[d] = <<>>
        /\ handler[d] \in {"produce", "flight", "count"} => at[d] \in DOMAIN snippets[d]

\* What the broker has of a delivery is of the snippets before the one its loop
\* is at, or of that one if ProduceSync has returned.
TopicInv ==
    \A k \in DOMAIN topic :
        \E m \in DOMAIN snippets[topic[k].delivery] :
            /\ topic[k].file = snippets[topic[k].delivery][m]
            /\ \/ m < at[topic[k].delivery]
               \/ m = at[topic[k].delivery] /\ handler[topic[k].delivery] \in {"count", "cut"}

\* The snippet a handler is about to count is in the topic as well.
BackedInv ==
    \A d \in Deliveries :
        published[d] + (IF handler[d] = "count" THEN 1 ELSE 0) <= Cardinality(Of(d))

DrainInv ==
    /\ main \in {"starting", "serving", "draining"} => total = -1
    /\ GracefulShutdown

OrderInv == ShapeInv /\ LoopInv /\ TopicInv /\ InOrderOnce

-----------------------------------------------------------------------------
(* The initial state *)

LEMMA IngestionInit == Init => OrderInv /\ BackedInv /\ DrainInv
  <1> SUFFICES ASSUME Init PROVE OrderInv /\ BackedInv /\ DrainInv
    OBVIOUS
  <1>1. DOMAIN topic = {}
    BY DEF Init
  <1>2. ShapeInv
    <2>1. snippets \in [Deliveries -> Seq(Nat)]
      BY DEF Init
    <2>2. QED
      BY <2>1 DEF Init, ShapeInv, Places, Stages, Sent
  <1>3. LoopInv
    BY DEF Init, LoopInv
  <1>4. TopicInv /\ InOrderOnce
    BY <1>1 DEF TopicInv, InOrderOnce, Of
  <1>5. BackedInv
    <2>1. \A d \in Deliveries : Of(d) = {}
      BY <1>1 DEF Of
    <2>2. Cardinality({}) = 0
      BY FS_EmptySet
    <2>3. \A d \in Deliveries : published[d] = 0 /\ handler[d] = "none"
      BY DEF Init
    <2>4. QED
      BY <2>1, <2>2, <2>3 DEF BackedInv
  <1>6. DrainInv
    BY DEF Init, DrainInv, GracefulShutdown
  <1>7. QED
    BY <1>2, <1>3, <1>4, <1>5, <1>6 DEF OrderInv

-----------------------------------------------------------------------------
(* Steps *)

\* The list of a delivery is in the order of the files.
LEMMA ExtractedFacts ==
    ASSUME NEW d \in Deliveries, HandlePush(d) \/ HandlePullRequest(d)
    PROVE  \E list \in Seq(Nat) :
              /\ Extracted(d, list)
              /\ \A i, j \in DOMAIN list : i < j => list[i] < list[j]
  <1>1. CASE HandlePush(d)
    <2>1. PICK list \in Ordered : Extracted(d, list)
      BY <1>1 DEF HandlePush
    <2>2. list \in Seq(Nat) /\ \A i, j \in DOMAIN list : i < j => list[i] < list[j]
      BY <2>1, IngestionAssumption DEF Ordered, IngestionAssumption
    <2>3. QED
      BY <2>1, <2>2
  <1>2. CASE HandlePullRequest(d)
    <2>1. <<>> \in Seq(Nat) /\ DOMAIN <<>> = {} /\ <<0>> \in Seq(Nat) /\ DOMAIN <<0>> = {1}
      OBVIOUS
    <2>2. Extracted(d, <<0>>) \/ Extracted(d, <<>>)
      BY <1>2 DEF HandlePullRequest
    <2>3. \A i, j \in {1} : ~ i < j
      OBVIOUS
    <2>4. CASE Extracted(d, <<0>>)
      BY <2>1, <2>3, <2>4
    <2>5. CASE Extracted(d, <<>>)
      BY <2>1, <2>5
    <2>6. QED
      BY <2>2, <2>4, <2>5
  <1>3. QED
    BY <1>1, <1>2

\* A message that goes to the topic becomes its last record.
Sends(d) == Produced(d) \/ \E written \in BOOLEAN : written /\ ProduceFails(d, written)

LEMMA SendFacts ==
    ASSUME ShapeInv, LoopInv, NEW d \in Deliveries, Sends(d)
    PROVE  /\ topic' = Append(topic, Message(d))
           /\ Message(d) \in Sent
           /\ Len(topic) \in Nat /\ topic' \in Seq(Sent)
           /\ DOMAIN topic = 1..Len(topic) /\ DOMAIN topic' = 1..(Len(topic) + 1)
           /\ \A k \in DOMAIN topic : topic'[k] = topic[k]
           /\ topic'[Len(topic) + 1] = Message(d)
           /\ handler[d] = "flight" /\ at[d] \in DOMAIN snippets[d]
           /\ snippets' = snippets
           /\ \/ at' = at /\ handler' = [handler EXCEPT ![d] = "count"]
              \/ at' = [at EXCEPT ![d] = @ + 1] /\ handler' = [handler EXCEPT ![d] = "loop"]
  <1>1. handler[d] = "flight"
    BY DEF Sends, Produced, ProduceFails, ProduceErr, Goto
  <1>2. at[d] \in DOMAIN snippets[d]
    BY <1>1 DEF LoopInv
  <1>3. snippets[d] \in Seq(Nat)
    BY DEF ShapeInv
  <1>4. snippets[d][at[d]] \in Nat
    BY <1>2, <1>3
  <1>5. Message(d) \in Sent
    BY <1>4 DEF Message, Sent
  <1>6. topic' = Append(topic, Message(d)) /\ snippets' = snippets
    BY DEF Sends, Produced, ProduceFails, ProduceErr
  <1>7. /\ Len(topic) \in Nat /\ DOMAIN topic = 1..Len(topic)
        /\ topic \in Seq(Sent)
    BY DEF ShapeInv
  <1> DEFINE more == Append(topic, Message(d))
  <1>8. /\ more \in Seq(Sent)
        /\ Len(more) = Len(topic) + 1
        /\ \A k \in 1..Len(topic) : more[k] = topic[k]
        /\ more[Len(topic) + 1] = Message(d)
    BY <1>5, <1>7, AppendProperties
  <1>9. DOMAIN more = 1..(Len(topic) + 1)
    BY <1>8
  <1>10. \/ at' = at /\ handler' = [handler EXCEPT ![d] = "count"]
         \/ at' = [at EXCEPT ![d] = @ + 1] /\ handler' = [handler EXCEPT ![d] = "loop"]
    BY DEF Sends, Produced, ProduceFails, ProduceErr, Goto, Advance
  <1> HIDE DEF more
  <1>11. topic' = more
    BY <1>6 DEF more
  <1>12. QED
    BY <1>1, <1>2, <1>5, <1>6, <1>7, <1>8, <1>9, <1>10, <1>11

\* A step that neither sends nor begins: a handler stays before the same
\* snippet, or goes past it.
Calm ==
    /\ UNCHANGED <<topic, snippets>>
    /\ \A e \in Deliveries :
        /\ at'[e] \in {at[e], at[e] + 1}
        /\ handler[e] \in {"count", "cut"} =>
               handler'[e] \in {"count", "cut"} \/ at'[e] = at[e] + 1
        /\ handler'[e] = "none" => handler[e] = "none"
        /\ handler'[e] \in {"produce", "flight", "count"} =>
            /\ at'[e] = at[e]
            /\ handler[e] \in {"produce", "flight", "count"} \/ at[e] \in DOMAIN snippets[e]

LEMMA StepKinds ==
    ASSUME ShapeInv, [Next]_vars
    PROVE  \/ Calm
           \/ \E d \in Deliveries : Sends(d)
           \/ \E d \in Deliveries : HandlePush(d) \/ HandlePullRequest(d)
  <1>1. ASSUME NEW d \in Deliveries,
               BadRequest(d) \/ Unauthorized(d) \/ Ignored(d) \/ Unparsable(d)
        PROVE  Calm
    <2>1. PICK status \in Nat : Answered(d, status)
      BY <1>1 DEF BadRequest, Unauthorized, Ignored, Unparsable
    <2>2. QED
      BY <2>1 DEF Answered, Arrives, Calm, ShapeInv
  <1>0. ASSUME NEW d \in Deliveries, SendRequest(d) PROVE Calm
    BY <1>0 DEF SendRequest, Goto, Calm, ShapeInv
  <1>2. ASSUME NEW d \in Deliveries, CallProduce(d) PROVE Calm
    <2>1. at[d] \in DOMAIN snippets[d]
      <3>1. snippets[d] \in Seq(Nat) /\ at[d] \in Nat \ {0} /\ at[d] <= Len(snippets[d])
        BY <1>2 DEF CallProduce, ShapeInv
      <3>2. QED
        BY <3>1
    <2>2. QED
      BY <1>2, <2>1 DEF CallProduce, Goto, Calm, ShapeInv
  <1>3. ASSUME NEW d \in Deliveries, CountPublished(d) \/ Respond(d) \/ GiveUp(d)
        PROVE  Calm
    BY <1>3 DEF CountPublished, Respond, GiveUp, Goto, Advance, Calm, ShapeInv
  <1>4. ASSUME NEW d \in Deliveries, ProduceFails(d, FALSE) PROVE Calm
    BY <1>4 DEF ProduceFails, ProduceErr, Goto, Advance, Calm, ShapeInv
  <1>5. ASSUME NEW d \in Deliveries, Produced(d) \/ Fails(d)
        PROVE  Sends(d) \/ ProduceFails(d, FALSE)
    BY <1>5 DEF Sends, Fails
  <1>6. CASE Start \/ Signal \/ Drained \/ DrainTimeout \/ Report \/ UNCHANGED vars
    BY <1>6 DEF Start, Signal, Drained, DrainTimeout, Report, vars, requestVars, Calm,
                ShapeInv
  <1>7. CASE Fail \/ Exit
    <2>1. \A e \in Deliveries :
              handler'[e] = IF handler[e] \in {"none", "done"} THEN handler[e] ELSE "cut"
      BY <1>7 DEF Fail, Exit, CutHandlers
    <2>2. UNCHANGED <<topic, snippets, at>>
      BY <1>7 DEF Fail, Exit
    <2>3. QED
      BY <2>1, <2>2 DEF Calm
  <1>8. QED
    BY <1>0, <1>1, <1>2, <1>3, <1>4, <1>5, <1>6, <1>7
       DEF Next, HandlerStep, MainStep, Finished

LEMMA ShapeStep ==
    ASSUME ShapeInv, LoopInv, [Next]_vars
    PROVE  ShapeInv'
  <1> USE DEF Places, Stages
  <1>0. ASSUME NEW d \in Deliveries, at' = [at EXCEPT ![d] = @ + 1]
        PROVE  at' \in [Deliveries -> Nat \ {0}]
    BY <1>0 DEF ShapeInv
  <1>1. ASSUME NEW d \in Deliveries,
               BadRequest(d) \/ Unauthorized(d) \/ Ignored(d) \/ Unparsable(d)
        PROVE  ShapeInv'
    <2>1. PICK status \in Nat : Answered(d, status)
      BY <1>1 DEF BadRequest, Unauthorized, Ignored, Unparsable
    <2>2. QED
      BY <2>1 DEF Answered, ShapeInv, mainVars
  <1>2. ASSUME NEW d \in Deliveries, HandlePush(d) \/ HandlePullRequest(d)
        PROVE  ShapeInv'
    <2>1. PICK list \in Seq(Nat) : Extracted(d, list)
      BY <1>2, ExtractedFacts
    <2>2. QED
      BY <2>1 DEF Extracted, ShapeInv, mainVars
  <1>3. ASSUME NEW d \in Deliveries, Sends(d) PROVE ShapeInv'
    <2>1. topic' \in Seq(Sent) /\ snippets' = snippets
      BY <1>3, SendFacts
    <2>2. \/ at' = at /\ handler' = [handler EXCEPT ![d] = "count"]
          \/ at' = [at EXCEPT ![d] = @ + 1] /\ handler' = [handler EXCEPT ![d] = "loop"]
      BY <1>3, SendFacts
    <2>3. handler' \in [Deliveries -> Places]
      BY <2>2 DEF ShapeInv
    <2>4. at' \in [Deliveries -> Nat \ {0}]
      BY <1>0, <2>2 DEF ShapeInv
    <2>5. UNCHANGED <<published, count, main>>
      BY <1>3 DEF Sends, Produced, ProduceFails, ProduceErr, mainVars
    <2>6. QED
      BY <2>1, <2>3, <2>4, <2>5 DEF ShapeInv
  <1>4. ASSUME NEW d \in Deliveries, ProduceFails(d, FALSE) PROVE ShapeInv'
    BY <1>4 DEF ProduceFails, ProduceErr, Goto, Advance, ShapeInv, mainVars
  <1>5. ASSUME NEW d \in Deliveries, Produced(d) \/ Fails(d)
        PROVE  Sends(d) \/ ProduceFails(d, FALSE)
    BY <1>5 DEF Sends, Fails
  <1>6. ASSUME NEW d \in Deliveries, HandlerStep(d) \/ SendRequest(d) PROVE ShapeInv'
    <2>1. \E l \in Places : handler' = [handler EXCEPT ![d] = l]
      BY <1>6 DEF HandlerStep, SendRequest, CallProduce, CountPublished, Respond, Goto
    <2>2. handler' \in [Deliveries -> Places]
      BY <2>1 DEF ShapeInv
    <2>3. at' = at \/ at' = [at EXCEPT ![d] = @ + 1]
      BY <1>6 DEF HandlerStep, SendRequest, CallProduce, CountPublished, Respond, Advance
    <2>4. at' \in [Deliveries -> Nat \ {0}]
      BY <1>0, <2>3 DEF ShapeInv
    <2>5. \/ published' = published /\ count' = count
          \/ published' = [published EXCEPT ![d] = @ + 1] /\ count' = count + 1
      BY <1>6 DEF HandlerStep, SendRequest, CallProduce, CountPublished, Respond
    <2>6. published' \in [Deliveries -> Nat] /\ count' \in Nat
      <3>1. CASE published' = published /\ count' = count
        BY <3>1 DEF ShapeInv
      <3>2. CASE published' = [published EXCEPT ![d] = @ + 1] /\ count' = count + 1
        BY <3>2 DEF ShapeInv
      <3>3. QED
        BY <2>5, <3>1, <3>2
    <2>7. UNCHANGED <<topic, snippets, main>>
      BY <1>6 DEF HandlerStep, SendRequest, CallProduce, CountPublished, Respond, mainVars
    <2>8. QED
      BY <2>2, <2>4, <2>6, <2>7 DEF ShapeInv
  <1>7. ASSUME NEW d \in Deliveries, GiveUp(d) PROVE ShapeInv'
    BY <1>7 DEF GiveUp, ShapeInv, mainVars
  <1>8. CASE Start \/ Signal \/ Drained \/ DrainTimeout \/ Report \/ UNCHANGED vars
    <2>1. UNCHANGED <<handler, snippets, at, published, topic, count>> /\ main' \in Stages
      BY <1>8 DEF Start, Signal, Drained, DrainTimeout, Report, vars, requestVars,
                  mainVars, ShapeInv
    <2>2. QED
      BY <2>1 DEF ShapeInv
  <1>9. CASE Fail \/ Exit
    <2>1. handler' \in [Deliveries -> Places]
      BY <1>9 DEF Fail, Exit, CutHandlers, ShapeInv
    <2>2. UNCHANGED <<snippets, at, published, topic, count>> /\ main' \in Stages
      BY <1>9 DEF Fail, Exit
    <2>3. QED
      BY <2>1, <2>2 DEF ShapeInv
  <1>10. QED
    BY <1>1, <1>2, <1>3, <1>4, <1>5, <1>6, <1>7, <1>8, <1>9 DEF Next, MainStep, Finished

-----------------------------------------------------------------------------
(* The order of the records *)

LEMMA RecordFacts ==
    ASSUME ShapeInv
    PROVE  /\ \A k \in DOMAIN topic : topic[k].delivery \in Deliveries /\ topic[k].file \in Nat
           /\ \A d \in Deliveries : snippets[d] \in Seq(Nat)
           /\ \A d \in Deliveries : DOMAIN snippets[d] \subseteq Nat /\ at[d] \in Nat
  <1>1. \A k \in DOMAIN topic : topic[k] \in Sent
    BY DEF ShapeInv
  <1>2. \A d \in Deliveries : snippets[d] \in Seq(Nat) /\ at[d] \in Nat
    BY DEF ShapeInv
  <1>3. \A r \in Sent : r.delivery \in Deliveries /\ r.file \in Nat
    BY DEF Sent
  <1>4. \A list \in Seq(Nat) : DOMAIN list \subseteq Nat
    OBVIOUS
  <1>5. QED
    BY <1>1, <1>2, <1>3, <1>4

LEMMA CalmStep ==
    ASSUME OrderInv, Calm
    PROVE  LoopInv' /\ TopicInv' /\ InOrderOnce'
  <1>1. topic' = topic /\ snippets' = snippets
    BY DEF Calm
  <1>2. LoopInv'
    BY <1>1 DEF Calm, LoopInv, OrderInv
  <1>3. TopicInv'
    <2>1. ASSUME NEW k \in DOMAIN topic, NEW d \in Deliveries, d = topic[k].delivery
          PROVE  \E m \in DOMAIN snippets[d] :
                    /\ topic[k].file = snippets[d][m]
                    /\ m < at'[d] \/ (m = at'[d] /\ handler'[d] \in {"count", "cut"})
      <3>1. PICK m \in DOMAIN snippets[d] :
                /\ topic[k].file = snippets[d][m]
                /\ m < at[d] \/ (m = at[d] /\ handler[d] \in {"count", "cut"})
        BY <2>1 DEF OrderInv, TopicInv
      <3>2. m \in Nat /\ at[d] \in Nat
        BY <3>1, RecordFacts DEF OrderInv
      <3>3. m < at'[d] \/ (m = at'[d] /\ handler'[d] \in {"count", "cut"})
        BY <3>1, <3>2 DEF Calm
      <3>4. QED
        BY <3>1, <3>3
    <2>2. \A k \in DOMAIN topic : topic[k].delivery \in Deliveries
      BY RecordFacts DEF OrderInv
    <2>3. QED
      BY <1>1, <2>1, <2>2 DEF TopicInv
  <1>4. InOrderOnce'
    BY <1>1 DEF OrderInv, InOrderOnce, Of
  <1>5. QED
    BY <1>2, <1>3, <1>4

\* The broker has nothing yet of a delivery that begins.
LEMMA BeginStep ==
    ASSUME OrderInv, NEW d \in Deliveries, NEW list \in Seq(Nat), Extracted(d, list),
           \A i, j \in DOMAIN list : i < j => list[i] < list[j]
    PROVE  LoopInv' /\ TopicInv' /\ InOrderOnce'
  <1>1. /\ handler[d] = "none" /\ handler' = [handler EXCEPT ![d] = "loop"]
        /\ snippets' = [snippets EXCEPT ![d] = list] /\ at' = at /\ topic' = topic
    BY DEF Extracted, Arrives
  <1>2. snippets[d] = <<>>
    BY <1>1 DEF OrderInv, LoopInv
  <1>3. \A k \in DOMAIN topic : topic[k].delivery \in Deliveries \ {d}
    <2>1. DOMAIN snippets[d] = {}
      BY <1>2
    <2>2. QED
      BY <2>1, RecordFacts DEF OrderInv, TopicInv
  <1>4. \A e \in Deliveries \ {d} : snippets'[e] = snippets[e] /\ handler'[e] = handler[e]
    BY <1>1 DEF OrderInv, ShapeInv
  <1>5. snippets'[d] = list /\ handler'[d] = "loop"
    BY <1>1 DEF OrderInv, ShapeInv
  <1>6. LoopInv'
    BY <1>1, <1>4, <1>5 DEF OrderInv, LoopInv
  <1>7. TopicInv'
    BY <1>1, <1>3, <1>4 DEF OrderInv, TopicInv
  <1>8. InOrderOnce'
    BY <1>1 DEF OrderInv, InOrderOnce, Of
  <1>9. QED
    BY <1>6, <1>7, <1>8

\* The message sent is of a later snippet than those the broker has.
LEMMA SendStep ==
    ASSUME OrderInv, NEW d \in Deliveries, Sends(d)
    PROVE  LoopInv' /\ TopicInv' /\ InOrderOnce'
  <1> DEFINE last == Len(topic) + 1
  <1>1. /\ Len(topic) \in Nat /\ DOMAIN topic = 1..Len(topic) /\ DOMAIN topic' = 1..last
        /\ \A k \in DOMAIN topic : topic'[k] = topic[k]
        /\ topic'[last] = Message(d)
        /\ handler[d] = "flight" /\ at[d] \in DOMAIN snippets[d] /\ snippets' = snippets
    BY SendFacts DEF OrderInv
  <1>2. \/ at' = at /\ handler' = [handler EXCEPT ![d] = "count"]
        \/ at' = [at EXCEPT ![d] = at[d] + 1] /\ handler' = [handler EXCEPT ![d] = "loop"]
    BY SendFacts DEF OrderInv
  <1>3. /\ \A e \in Deliveries \ {d} : at'[e] = at[e] /\ handler'[e] = handler[e]
        /\ \/ at'[d] = at[d] /\ handler'[d] = "count"
           \/ at'[d] = at[d] + 1 /\ handler'[d] = "loop"
    BY <1>2 DEF OrderInv, ShapeInv
  <1>4. topic'[last].delivery = d /\ topic'[last].file = snippets[d][at[d]]
    <2>1. Message(d).delivery = d /\ Message(d).file = snippets[d][at[d]]
      BY DEF Message
    <2>2. QED
      BY <1>1, <2>1
  <1>5. /\ \A k \in DOMAIN topic : topic[k].delivery \in Deliveries /\ topic[k].file \in Nat
        /\ \A e \in Deliveries : DOMAIN snippets[e] \subseteq Nat /\ at[e] \in Nat
    BY RecordFacts DEF OrderInv
  <1> HIDE DEF last
  <1>6. LoopInv'
    BY <1>1, <1>3 DEF OrderInv, LoopInv
  <1>7. ASSUME NEW k \in DOMAIN topic, topic[k].delivery = d
        PROVE  \E m \in DOMAIN snippets[d] : topic[k].file = snippets[d][m] /\ m < at[d]
    BY <1>1, <1>7 DEF OrderInv, TopicInv
  <1>8. TopicInv'
    <2>1. ASSUME NEW k \in DOMAIN topic', NEW e \in Deliveries, e = topic'[k].delivery
          PROVE  \E m \in DOMAIN snippets[e] :
                    /\ topic'[k].file = snippets[e][m]
                    /\ m < at'[e] \/ (m = at'[e] /\ handler'[e] \in {"count", "cut"})
      <3>1. CASE k = last
        <4>1. e = d /\ topic'[k].file = snippets[d][at[d]] /\ at[d] \in DOMAIN snippets[d]
          BY <1>1, <1>4, <2>1, <3>1
        <4>2. at[d] < at'[d] \/ (at[d] = at'[d] /\ handler'[d] \in {"count", "cut"})
          BY <1>3, <1>5
        <4>3. QED
          BY <4>1, <4>2
      <3>2. CASE k # last
        <4>1. k \in DOMAIN topic /\ topic'[k] = topic[k]
          BY <1>1, <3>2 DEF last
        <4>2. CASE e = d
          <5>1. PICK m \in DOMAIN snippets[d] : topic[k].file = snippets[d][m] /\ m < at[d]
            BY <1>7, <2>1, <4>1, <4>2
          <5>2. m \in Nat /\ at[d] \in Nat /\ m < at'[d]
            BY <1>3, <1>5, <5>1
          <5>3. QED
            BY <4>1, <4>2, <5>1, <5>2
        <4>3. CASE e # d
          BY <1>3, <2>1, <4>1, <4>3 DEF OrderInv, TopicInv
        <4>4. QED
          BY <4>2, <4>3
      <3>3. QED
        BY <3>1, <3>2
    <2>2. \A k \in DOMAIN topic' : topic'[k].delivery \in Deliveries
      BY <1>1, <1>4, <1>5 DEF last
    <2>3. QED
      BY <1>1, <2>1, <2>2 DEF TopicInv
  <1>9. InOrderOnce'
    <2>1. ASSUME NEW i \in DOMAIN topic', NEW j \in DOMAIN topic', i < j,
                 topic'[i].delivery = topic'[j].delivery,
                 topic'[j].delivery \in Deliveries
          PROVE  topic'[i].file < topic'[j].file
      <3>1. i \in DOMAIN topic /\ topic'[i] = topic[i]
        BY <1>1, <2>1 DEF last
      <3>2. CASE j = last
        <4>1. PICK m \in DOMAIN snippets[d] : topic[i].file = snippets[d][m] /\ m < at[d]
          BY <1>4, <1>7, <2>1, <3>1, <3>2
        <4>2. snippets[d][m] < snippets[d][at[d]]
          BY <1>1, <4>1 DEF OrderInv, LoopInv
        <4>3. QED
          BY <1>4, <3>1, <3>2, <4>1, <4>2
      <3>3. CASE j # last
        <4>1. j \in DOMAIN topic /\ topic'[j] = topic[j]
          BY <1>1, <3>3 DEF last
        <4>2. i \in Of(topic[j].delivery) /\ j \in Of(topic[j].delivery)
          BY <2>1, <3>1, <4>1 DEF Of
        <4>3. QED
          BY <2>1, <3>1, <4>1, <4>2 DEF OrderInv, InOrderOnce
      <3>4. QED
        BY <3>2, <3>3
    <2>2. QED
      BY <2>1 DEF InOrderOnce, Of
  <1>10. QED
    BY <1>6, <1>8, <1>9

LEMMA OrderInvariant == Spec => []OrderInv
  <1>1. ASSUME OrderInv, [Next]_vars PROVE OrderInv'
    <2>1. ShapeInv'
      BY <1>1, ShapeStep DEF OrderInv
    <2>2. LoopInv' /\ TopicInv' /\ InOrderOnce'
      <3>1. \/ Calm
            \/ \E d \in Deliveries : Sends(d)
            \/ \E d \in Deliveries : HandlePush(d) \/ HandlePullRequest(d)
        BY <1>1, StepKinds DEF OrderInv
      <3>2. ASSUME NEW d \in Deliveries, HandlePush(d) \/ HandlePullRequest(d)
            PROVE  LoopInv' /\ TopicInv' /\ InOrderOnce'
        BY <1>1, <3>2, ExtractedFacts, BeginStep
      <3>3. QED
        BY <1>1, <3>1, <3>2, CalmStep, SendStep
    <2>3. QED
      BY <2>1, <2>2 DEF OrderInv
  <1>2. QED
    BY IngestionInit, <1>1, PTL DEF Spec

\* However many deliveries are in progress, and whatever fails, the snippets of
\* each reach the broker in the order of its files and none twice
\* (handler.go:145-158).
THEOREM FilesInOrder == Spec => []InOrderOnce
  <1>1. OrderInv => InOrderOnce
    BY DEF OrderInv
  <1>2. QED
    BY OrderInvariant, <1>1, PTL

-----------------------------------------------------------------------------
(* The number in the answer *)

LEMMA OfFacts ==
    ASSUME ShapeInv, NEW e \in Deliveries
    PROVE  /\ Of(e) \subseteq 1..Len(topic) /\ IsFiniteSet(Of(e))
           /\ Cardinality(Of(e)) \in Nat
  <1>1. Len(topic) \in Nat /\ DOMAIN topic = 1..Len(topic)
    BY DEF ShapeInv
  <1>2. Of(e) \subseteq 1..Len(topic)
    BY <1>1 DEF Of
  <1>3. IsFiniteSet(1..Len(topic))
    BY <1>1, FS_Interval
  <1>4. IsFiniteSet(Of(e))
    BY <1>2, <1>3, FS_Subset
  <1>5. QED
    BY <1>2, <1>4, FS_CardinalityType

\* One more record, of one delivery.
LEMMA SentOne ==
    ASSUME OrderInv, NEW d \in Deliveries, Sends(d), NEW e \in Deliveries
    PROVE  /\ Cardinality(Of(e)) \in Nat
           /\ Cardinality(Of(e)') = IF e = d THEN Cardinality(Of(e)) + 1
                                             ELSE Cardinality(Of(e))
  <1> DEFINE last == Len(topic) + 1
  <1>1. /\ Len(topic) \in Nat /\ DOMAIN topic = 1..Len(topic) /\ DOMAIN topic' = 1..last
        /\ \A k \in DOMAIN topic : topic'[k] = topic[k]
        /\ topic'[last] = Message(d)
    BY SendFacts DEF OrderInv
  <1>2. topic'[last].delivery = d
    <2>1. Message(d).delivery = d
      BY DEF Message
    <2>2. QED
      BY <1>1, <2>1
  <1>3. last \notin Of(e) /\ Of(e) \subseteq 1..Len(topic)
    BY <1>1 DEF Of
  <1>4. Of(e)' = IF e = d THEN Of(e) \cup {last} ELSE Of(e)
    <2>1. Of(e)' = {i \in DOMAIN topic' : topic'[i].delivery = e}
      BY DEF Of
    <2>2. DOMAIN topic' = DOMAIN topic \cup {last}
      BY <1>1
    <2> HIDE DEF last
    <2>3. QED
      BY <1>1, <1>2, <2>1, <2>2 DEF Of
  <1>5. IsFiniteSet(Of(e))
    BY OfFacts DEF OrderInv
  <1>6. QED
    BY <1>3, <1>4, <1>5, FS_AddElement, FS_CardinalityType

LEMMA BackedStep ==
    ASSUME OrderInv, BackedInv, [Next]_vars
    PROVE  BackedInv'
  <1> DEFINE ahead(e) == IF handler[e] = "count" THEN 1 ELSE 0
  <1>1. ASSUME NEW d \in Deliveries, Sends(d) PROVE BackedInv'
    <2>1. /\ handler[d] = "flight"
          /\ \E l \in {"count", "loop"} : handler' = [handler EXCEPT ![d] = l]
      BY <1>1, SendFacts DEF OrderInv
    <2>2. published' = published
      BY <1>1 DEF Sends, Produced, ProduceFails, ProduceErr
    <2>3. ASSUME NEW e \in Deliveries
          PROVE  published'[e] + ahead(e)' <= Cardinality(Of(e)')
      <3>1. /\ Cardinality(Of(e)) \in Nat /\ published[e] \in Nat
            /\ Cardinality(Of(e)') = IF e = d THEN Cardinality(Of(e)) + 1
                                              ELSE Cardinality(Of(e))
        BY <1>1, SentOne DEF OrderInv, ShapeInv
      <3>2. published[e] + ahead(e) <= Cardinality(Of(e))
        BY DEF BackedInv
      <3>3. ahead(e)' <= IF e = d THEN 1 ELSE ahead(e)
        BY <2>1 DEF OrderInv, ShapeInv
      <3>4. e = d => ahead(e) = 0
        BY <2>1
      <3>5. ahead(e) \in Nat /\ ahead(e)' \in Nat
        OBVIOUS
      <3> HIDE DEF ahead
      <3>6. QED
        BY <2>2, <3>1, <3>2, <3>3, <3>4, <3>5
    <2>4. QED
      BY <2>3 DEF BackedInv
  <1>2. ASSUME NEW d \in Deliveries, CountPublished(d) PROVE BackedInv'
    <2>1. /\ handler[d] = "count" /\ handler' = [handler EXCEPT ![d] = "loop"]
          /\ published' = [published EXCEPT ![d] = published[d] + 1] /\ topic' = topic
      BY <1>2 DEF CountPublished, Goto
    <2>2. ASSUME NEW e \in Deliveries
          PROVE  published'[e] + ahead(e)' = published[e] + ahead(e) /\ Of(e)' = Of(e)
      BY <2>1 DEF OrderInv, ShapeInv, Of
    <2>3. QED
      BY <2>2 DEF BackedInv
  <1>3. ASSUME published' = published, topic' = topic,
               \A e \in Deliveries : handler'[e] = "count" => handler[e] = "count"
        PROVE  BackedInv'
    <2>1. ASSUME NEW e \in Deliveries
          PROVE  published'[e] + ahead(e)' <= Cardinality(Of(e)')
      <3>1. published[e] \in Nat /\ Of(e)' = Of(e)
        BY <1>3 DEF OrderInv, ShapeInv, Of
      <3>2. ASSUME handler[e] # "count" PROVE handler'[e] # "count"
        BY <1>3, <3>2
      <3>3. published[e] + ahead(e) <= Cardinality(Of(e))
        BY DEF BackedInv
      <3>4. CASE handler[e] # "count"
        BY <1>3, <3>1, <3>2, <3>3, <3>4
      <3>5. CASE handler[e] = "count" /\ handler'[e] = "count"
        BY <1>3, <3>1, <3>3, <3>5
      <3>6. CASE handler[e] = "count" /\ handler'[e] # "count"
        <4>1. Cardinality(Of(e)) \in Nat
          BY OfFacts DEF OrderInv
        <4>2. published[e] + 1 <= Cardinality(Of(e))
          BY <3>3, <3>6
        <4>3. QED
          BY <1>3, <3>1, <3>6, <4>1, <4>2
      <3>7. QED
        BY <3>4, <3>5, <3>6
    <2>2. QED
      BY <2>1 DEF BackedInv
  <1>4. ASSUME NEW d \in Deliveries,
               \/ BadRequest(d) \/ Unauthorized(d) \/ Ignored(d) \/ Unparsable(d)
               \/ CallProduce(d) \/ SendRequest(d) \/ Respond(d) \/ GiveUp(d)
               \/ ProduceFails(d, FALSE)
        PROVE  BackedInv'
    <2>1. \A e \in Deliveries : handler'[e] = "count" => handler[e] = "count"
      BY <1>4 DEF BadRequest, Unauthorized, Ignored, Unparsable, Answered, CallProduce,
                  SendRequest, Respond, GiveUp, ProduceFails, ProduceErr, Goto, OrderInv, ShapeInv
    <2>2. published' = published /\ topic' = topic
      BY <1>4 DEF BadRequest, Unauthorized, Ignored, Unparsable, Answered, CallProduce,
                  SendRequest, Respond, GiveUp, ProduceFails, ProduceErr
    <2>3. QED
      BY <1>3, <2>1, <2>2
  <1>5. ASSUME NEW d \in Deliveries, HandlePush(d) \/ HandlePullRequest(d)
        PROVE  BackedInv'
    <2>1. PICK list \in Seq(Nat) : Extracted(d, list)
      BY <1>5, ExtractedFacts
    <2>2. /\ published' = published /\ topic' = topic
          /\ handler' = [handler EXCEPT ![d] = "loop"]
      BY <2>1 DEF Extracted
    <2>3. QED
      BY <1>3, <2>2 DEF OrderInv, ShapeInv
  <1>6. ASSUME NEW d \in Deliveries, Produced(d) \/ Fails(d)
        PROVE  Sends(d) \/ ProduceFails(d, FALSE)
    BY <1>6 DEF Sends, Fails
  <1>7. CASE Start \/ Signal \/ Drained \/ DrainTimeout \/ Report \/ UNCHANGED vars
    <2>1. UNCHANGED <<handler, published, topic>>
      BY <1>7 DEF Start, Signal, Drained, DrainTimeout, Report, vars, requestVars
    <2>2. QED
      BY <1>3, <2>1
  <1>8. CASE Fail \/ Exit
    <2>1. /\ \A e \in Deliveries : handler'[e] \in {handler[e], "cut"}
          /\ UNCHANGED <<published, topic>>
      BY <1>8 DEF Fail, Exit, CutHandlers
    <2>2. QED
      BY <1>3, <2>1
  <1>9. QED
    BY <1>1, <1>2, <1>4, <1>5, <1>6, <1>7, <1>8
       DEF Next, HandlerStep, MainStep, Finished

\* One number more is counted, or none.
LEMMA CountSteps ==
    ASSUME ShapeInv, [Next]_vars
    PROVE  \/ UNCHANGED <<published, count>>
           \/ \E d \in Deliveries : CountPublished(d)
  <1>1. ASSUME NEW d \in Deliveries,
               \/ BadRequest(d) \/ Unauthorized(d) \/ Ignored(d) \/ Unparsable(d)
               \/ HandlePush(d) \/ HandlePullRequest(d)
        PROVE  UNCHANGED <<published, count>>
    BY <1>1 DEF BadRequest, Unauthorized, Ignored, Unparsable, Answered, HandlePush,
                HandlePullRequest, Extracted
  <1>2. ASSUME NEW d \in Deliveries,
               \/ CallProduce(d) \/ SendRequest(d) \/ Respond(d) \/ Produced(d)
               \/ Fails(d) \/ GiveUp(d)
        PROVE  UNCHANGED <<published, count>>
    BY <1>2 DEF CallProduce, SendRequest, Respond, Produced, Fails, ProduceFails, ProduceErr, GiveUp
  <1>3. CASE Start \/ Signal \/ Fail \/ MainStep \/ UNCHANGED vars
    BY <1>3 DEF Start, Signal, Fail, MainStep, Drained, DrainTimeout, Report, Exit, vars,
                requestVars
  <1>4. QED
    BY <1>1, <1>2, <1>3 DEF Next, HandlerStep, Finished

CountInv == IsFiniteSet(Counted) /\ count = Cardinality(Counted)

LEMMA CountStep ==
    ASSUME ShapeInv, CountInv, [Next]_vars
    PROVE  CountInv'
  <1>1. CASE UNCHANGED <<published, count>>
    <2>1. Counted' = Counted
      BY <1>1 DEF Counted
    <2>2. QED
      BY <1>1, <2>1 DEF CountInv
  <1>2. ASSUME NEW d \in Deliveries, CountPublished(d) PROVE CountInv'
    <2> DEFINE next == <<d, published[d] + 1>>
    <2>1. /\ count' = count + 1 /\ published[d] \in Nat
          /\ published' = [published EXCEPT ![d] = published[d] + 1]
      BY <1>2 DEF CountPublished, ShapeInv
    <2>2. /\ \A e \in Deliveries : published[e] \in Nat
          /\ \A e \in Deliveries :
                 published'[e] = IF e = d THEN published[e] + 1 ELSE published[e]
      BY <2>1 DEF ShapeInv
    <2>3. \A e, n : <<e, n>> \in Counted <=> e \in Deliveries /\ n \in 1..published[e]
      BY DEF Counted
    <2>4. \A e, n : <<e, n>> \in Counted' <=> e \in Deliveries /\ n \in 1..published'[e]
      BY DEF Counted
    <2>5. next \notin Counted
      BY <2>1, <2>3
    <2>6. \A e \in Deliveries : \A n :
              n \in 1..published'[e] <=> n \in 1..published[e] \/ (e = d /\ n = published[d] + 1)
      BY <2>2
    <2>7. /\ \A p \in Counted : \E e, n : p = <<e, n>>
          /\ \A p \in Counted' : \E e, n : p = <<e, n>>
      BY DEF Counted
    <2>8. Counted' = Counted \cup {next}
      BY <2>3, <2>4, <2>6, <2>7
    <2>9. QED
      BY <2>1, <2>5, <2>8, FS_AddElement DEF CountInv
  <1>3. QED
    BY <1>1, <1>2, CountSteps

\* The number in an answer is of messages the broker has, never more, and what
\* the producer has counted is the sum of these numbers, whatever failed and
\* was cut off (handler.go:157, producer.go:51-57).
THEOREM CountsAreBacked == Spec => []CountsArePublished
  <1>1. ASSUME OrderInv, BackedInv
        PROVE  \A d \in Deliveries : published[d] <= Cardinality(Of(d))
    <2>1. ASSUME NEW d \in Deliveries PROVE published[d] <= Cardinality(Of(d))
      <3>1. published[d] \in Nat /\ Cardinality(Of(d)) \in Nat
        BY <1>1, OfFacts DEF OrderInv, ShapeInv
      <3>2. published[d] + (IF handler[d] = "count" THEN 1 ELSE 0) <= Cardinality(Of(d))
        BY <1>1 DEF BackedInv
      <3>3. QED
        BY <3>1, <3>2
    <2>2. QED
      BY <2>1
  <1>2. OrderInv /\ BackedInv /\ CountInv => CountsArePublished
    BY <1>1 DEF CountsArePublished, CountInv
  <1>3. OrderInv /\ BackedInv /\ [Next]_vars => BackedInv'
    BY BackedStep
  <1>4. OrderInv /\ CountInv /\ [Next]_vars => CountInv'
    BY CountStep DEF OrderInv
  <1>5. Init => CountInv
    <2>1. ASSUME Init PROVE Counted = {}
      BY <2>1 DEF Init, Counted
    <2>2. QED
      BY <2>1, FS_EmptySet DEF Init, CountInv
  <1>6. QED
    BY IngestionInit, OrderInvariant, <1>2, <1>3, <1>4, <1>5, PTL DEF Spec

-----------------------------------------------------------------------------
(* Types *)

\* A loop has not gone beyond its snippets and has counted no more of them than
\* it has gone past.
LimitInv ==
    \A d \in Deliveries :
        /\ snippets[d] \in Seq(0..MaxFiles)
        /\ at[d] <= Len(snippets[d]) + 1 /\ published[d] < at[d]
        /\ handler[d] = "none" => at[d] = 1 /\ published[d] = 0

AnswerInv ==
    /\ response \in [Deliveries -> {0, 200, 400, 401, 500}]
    /\ gone \subseteq Deliveries /\ topic \in Seq(Record)
    /\ timedOut \in BOOLEAN /\ total \in {-1} \cup Nat

LEMMA LimitStep ==
    ASSUME OrderInv, LimitInv, [Next]_vars
    PROVE  LimitInv'
  <1> USE DEF OrderInv, ShapeInv, LimitInv
  <1>1. ASSUME NEW d \in Deliveries,
               BadRequest(d) \/ Unauthorized(d) \/ Ignored(d) \/ Unparsable(d)
        PROVE  LimitInv'
    BY <1>1 DEF BadRequest, Unauthorized, Ignored, Unparsable, Answered
  <1>2. ASSUME NEW d \in Deliveries, HandlePush(d) \/ HandlePullRequest(d)
        PROVE  LimitInv'
    <2>1. PICK list \in Seq(0..MaxFiles) : Extracted(d, list)
      <3>1. ASSUME NEW list \in Ordered PROVE list \in Seq(0..MaxFiles)
        <4>1. PICK n \in 0..MaxFiles : list \in [1..n -> 1..MaxFiles]
          BY DEF Ordered
        <4>2. n \in Nat /\ list \in [1..n -> 0..MaxFiles]
          BY <4>1
        <4>3. \A T : \A m \in Nat : [1..m -> T] \subseteq Seq(T)
          OBVIOUS
        <4>4. QED
          BY <4>2, <4>3, Zenon
      <3>2. <<>> \in Seq(0..MaxFiles) /\ <<0>> \in Seq(0..MaxFiles)
        BY IngestionAssumption DEF IngestionAssumption
      <3>3. QED
        BY <1>2, <3>1, <3>2 DEF HandlePush, HandlePullRequest
    <2>2. /\ handler[d] = "none" /\ handler' = [handler EXCEPT ![d] = "loop"]
          /\ snippets' = [snippets EXCEPT ![d] = list] /\ at' = at /\ published' = published
      BY <2>1 DEF Extracted, Arrives
    <2>3. ASSUME NEW e \in Deliveries, e # d
          PROVE  snippets'[e] = snippets[e] /\ handler'[e] = handler[e]
      BY <2>2, <2>3
    <2>4. snippets'[d] = list /\ handler'[d] = "loop" /\ Len(list) \in Nat
      BY <2>2
    <2>5. SUFFICES ASSUME NEW e \in Deliveries
                   PROVE  /\ snippets'[e] \in Seq(0..MaxFiles)
                          /\ at'[e] <= Len(snippets'[e]) + 1 /\ published'[e] < at'[e]
                          /\ handler'[e] = "none" => at'[e] = 1 /\ published'[e] = 0
      BY DEF LimitInv
    <2>6. CASE e = d
      BY <2>2, <2>4, <2>6
    <2>7. CASE e # d
      BY <2>2, <2>3, <2>7
    <2>8. QED
      BY <2>6, <2>7
  <1>3. ASSUME NEW d \in Deliveries, Sends(d) \/ ProduceFails(d, FALSE) \/ CountPublished(d)
        PROVE  LimitInv'
    <2>1. handler[d] \in {"produce", "flight", "count"}
      BY <1>3 DEF Sends, Produced, ProduceFails, ProduceErr, CountPublished, Goto
    <2>2. at[d] \in Nat /\ at[d] <= Len(snippets[d]) /\ Len(snippets[d]) \in Nat
      BY <2>1 DEF LoopInv
    <2>3. /\ snippets' = snippets /\ at' \in {at, [at EXCEPT ![d] = @ + 1]}
          /\ \/ published' = published
             \/ published' = [published EXCEPT ![d] = @ + 1] /\ at' = [at EXCEPT ![d] = @ + 1]
          /\ \E l \in {"loop", "count"} : handler' = [handler EXCEPT ![d] = l]
      BY <1>3 DEF Sends, Produced, ProduceFails, ProduceErr, CountPublished, Goto, Advance
    <2>4. ASSUME NEW e \in Deliveries, e # d
          PROVE  at'[e] = at[e] /\ published'[e] = published[e] /\ handler'[e] = handler[e]
      BY <2>3, <2>4
    <2>5. /\ at'[d] \in {at[d], at[d] + 1} /\ handler'[d] # "none"
          /\ published'[d] < at'[d]
      BY <2>2, <2>3
    <2>6. SUFFICES ASSUME NEW e \in Deliveries
                   PROVE  /\ snippets'[e] \in Seq(0..MaxFiles)
                          /\ at'[e] <= Len(snippets'[e]) + 1 /\ published'[e] < at'[e]
                          /\ handler'[e] = "none" => at'[e] = 1 /\ published'[e] = 0
      BY DEF LimitInv
    <2>7. snippets'[e] = snippets[e] /\ snippets[e] \in Seq(0..MaxFiles)
      BY <2>3
    <2>8. CASE e = d
      BY <2>2, <2>5, <2>7, <2>8
    <2>9. CASE e # d
      BY <2>4, <2>7, <2>9
    <2>10. QED
      BY <2>8, <2>9
  <1>4. ASSUME NEW d \in Deliveries,
               CallProduce(d) \/ SendRequest(d) \/ Respond(d) \/ GiveUp(d)
        PROVE  LimitInv'
    BY <1>4 DEF CallProduce, SendRequest, Respond, GiveUp, Goto
  <1>5. ASSUME NEW d \in Deliveries, Produced(d) \/ Fails(d)
        PROVE  Sends(d) \/ ProduceFails(d, FALSE)
    BY <1>5 DEF Sends, Fails
  <1>6. CASE Start \/ Signal \/ Drained \/ DrainTimeout \/ Report \/ UNCHANGED vars
    BY <1>6 DEF Start, Signal, Drained, DrainTimeout, Report, vars, requestVars
  <1>7. CASE Fail \/ Exit
    BY <1>7 DEF Fail, Exit, CutHandlers
  <1>8. QED
    BY <1>1, <1>2, <1>3, <1>4, <1>5, <1>6, <1>7 DEF Next, HandlerStep, MainStep, Finished

LEMMA AnswerStep ==
    ASSUME OrderInv, LimitInv, AnswerInv, [Next]_vars
    PROVE  AnswerInv'
  <1>1. topic' \in Seq(Record)
    <2>1. CASE \E d \in Deliveries : Sends(d)
      <3>1. PICK d \in Deliveries : Sends(d)
        BY <2>1
      <3>2. topic' = Append(topic, Message(d)) /\ at[d] \in DOMAIN snippets[d]
        BY <3>1, SendFacts DEF OrderInv
      <3>3. snippets[d][at[d]] \in 0..MaxFiles
        <4>1. snippets[d] \in Seq(0..MaxFiles)
          BY DEF LimitInv
        <4>2. \A T : \A list \in Seq(T) : \A i \in DOMAIN list : list[i] \in T
          OBVIOUS
        <4>3. QED
          BY <3>2, <4>1, <4>2, Zenon
      <3>4. Message(d) \in Record
        BY <3>3 DEF Message, Record
      <3>5. QED
        BY <3>2, <3>4, AppendProperties DEF AnswerInv
    <2>2. CASE topic' = topic
      BY <2>2 DEF AnswerInv
    <2>3. ASSUME NEW d \in Deliveries, HandlePush(d) \/ HandlePullRequest(d)
          PROVE  topic' = topic
      BY <2>3 DEF HandlePush, HandlePullRequest, Extracted
    <2>4. QED
      BY <2>1, <2>2, <2>3, StepKinds DEF OrderInv, Calm
  <1>2. gone' \subseteq Deliveries
    <2>1. gone' = gone \/ \E d \in Deliveries : gone' = gone \cup {d}
      BY DEF Next, HandlerStep, MainStep, Finished, BadRequest, Unauthorized, Ignored,
             Unparsable, Answered, HandlePush, HandlePullRequest, Extracted, CallProduce,
             CountPublished, SendRequest, Respond, Produced, Fails, ProduceFails, ProduceErr,
             GiveUp, Start, Fail, Signal, Drained, DrainTimeout, Report, Exit, requestVars, vars
    <2>2. QED
      BY <2>1 DEF AnswerInv
  <1>3. response' \in [Deliveries -> {0, 200, 400, 401, 500}]
    <2>1. \/ response' = response
          \/ \E d \in Deliveries, status \in {200, 400, 401, 500} :
                 response' = [response EXCEPT ![d] = status]
      BY DEF Next, HandlerStep, MainStep, Finished, BadRequest, Unauthorized, Ignored,
             Unparsable, Answered, HandlePush, HandlePullRequest, Extracted, CallProduce,
             CountPublished, SendRequest, Respond, Produced, Fails, ProduceFails, ProduceErr,
             GiveUp, Start, Fail, Signal, Drained, DrainTimeout, Report, Exit, requestVars, vars
    <2>2. QED
      BY <2>1 DEF AnswerInv
  <1>4. timedOut' \in {timedOut, TRUE} /\ total' \in {total, count}
    BY DEF Next, HandlerStep, MainStep, Finished, BadRequest, Unauthorized, Ignored,
           Unparsable, Answered, HandlePush, HandlePullRequest, Extracted, CallProduce,
           CountPublished, SendRequest, Respond, Produced, Fails, ProduceFails, ProduceErr,
           GiveUp, Start, Fail, Signal, Drained, DrainTimeout, Report, Exit, mainVars, vars
  <1>5. QED
    <2>1. timedOut' \in BOOLEAN
      BY <1>4 DEF AnswerInv
    <2>2. total' \in {-1} \cup Nat
      BY <1>4 DEF AnswerInv, OrderInv, ShapeInv
    <2>3. QED
      BY <1>1, <1>2, <1>3, <2>1, <2>2 DEF AnswerInv

\* Types; a loop keeps within its snippets, and its count within what it has
\* gone past.
THEOREM TypeCorrect == Spec => []TypeOK
  <1>1. ASSUME Init PROVE LimitInv /\ AnswerInv
    <2>1. /\ <<>> \in Seq(0..MaxFiles) /\ Len(<<>>) = 0 /\ <<>> \in Seq(Record)
          /\ \A d \in Deliveries : snippets[d] = <<>> /\ at[d] = 1 /\ published[d] = 0
      BY <1>1 DEF Init
    <2>2. LimitInv
      <3>1. \A d \in Deliveries : snippets[d] \in Seq(0..MaxFiles)
        BY <2>1, Zenon
      <3>2. \A d \in Deliveries : Len(snippets[d]) = 0
        BY <2>1, Zenon
      <3>3. \A d \in Deliveries : at[d] <= Len(snippets[d]) + 1 /\ published[d] < at[d]
        BY <2>1, <3>2
      <3>4. QED
        BY <2>1, <3>1, <3>3 DEF LimitInv
    <2>3. response \in [Deliveries -> {0, 200, 400, 401, 500}]
      <3>1. response = [d \in Deliveries |-> 0]
        BY <1>1 DEF Init
      <3>2. QED
        BY <3>1
    <2>4. topic \in Seq(Record) /\ gone \subseteq Deliveries
      BY <1>1, <2>1 DEF Init
    <2>5. timedOut \in BOOLEAN /\ total \in {-1} \cup Nat
      BY <1>1 DEF Init
    <2>6. QED
      BY <2>2, <2>3, <2>4, <2>5 DEF AnswerInv
  <1>2. OrderInv /\ LimitInv /\ AnswerInv /\ [Next]_vars => LimitInv' /\ AnswerInv'
    BY LimitStep, AnswerStep
  <1>3. OrderInv /\ LimitInv /\ AnswerInv => TypeOK
    <2> SUFFICES ASSUME OrderInv, LimitInv, AnswerInv PROVE TypeOK
      OBVIOUS
    <2>1. \A d \in Deliveries : at[d] \in 1..Len(snippets[d]) + 1
      BY DEF OrderInv, ShapeInv, LimitInv
    <2>2. \A d \in Deliveries : published[d] \in 0..Len(snippets[d])
      BY DEF OrderInv, ShapeInv, LimitInv
    <2>3. \A d \in Deliveries : snippets[d] \in Seq(0..MaxFiles)
      BY DEF LimitInv
    <2>4. QED
      BY <2>1, <2>2, <2>3 DEF OrderInv, ShapeInv, AnswerInv, TypeOK, Places, Stages
  <1>4. QED
    BY IngestionInit, OrderInvariant, <1>1, <1>2, <1>3, PTL DEF Spec

-----------------------------------------------------------------------------
(* The shutdown *)

\* After a shutdown that waited for everyone no delivery is cut off and the
\* total reported is final (main.go:72-80), whenever the signal came.
THEOREM NobodyIsCutOff == Spec => []GracefulShutdown
  <1>1. ASSUME DrainInv, [Next]_vars PROVE DrainInv'
    <2>1. ASSUME NEW d \in Deliveries,
                 \/ BadRequest(d) \/ Unauthorized(d) \/ Ignored(d) \/ Unparsable(d)
                 \/ HandlePush(d) \/ HandlePullRequest(d)
          PROVE  DrainInv'
      <3>1. main \in {"serving", "draining"} /\ UNCHANGED mainVars
        BY <2>1 DEF BadRequest, Unauthorized, Ignored, Unparsable, Answered, HandlePush,
                    HandlePullRequest, Extracted, Arrives
      <3>2. QED
        BY <1>1, <3>1 DEF DrainInv, GracefulShutdown, mainVars
    <2>2. ASSUME NEW d \in Deliveries,
                 HandlerStep(d) \/ SendRequest(d) \/ Produced(d) \/ Fails(d) \/ GiveUp(d)
          PROVE  DrainInv'
      <3>1. handler[d] \notin {"none", "done"} /\ UNCHANGED mainVars
        BY <2>2 DEF HandlerStep, CallProduce, SendRequest, CountPublished, Respond, Produced, Fails,
                    ProduceFails, ProduceErr, GiveUp, Goto
      <3>2. QED
        BY <1>1, <3>1 DEF DrainInv, GracefulShutdown, mainVars
    <2>3. CASE Start \/ Signal \/ Fail
      BY <1>1, <2>3 DEF Start, Signal, Fail, DrainInv, GracefulShutdown, requestVars
    <2>4. CASE Drained \/ DrainTimeout
      BY <1>1, <2>4 DEF Drained, DrainTimeout, Idle, DrainInv, GracefulShutdown, requestVars
    <2>5. CASE Report
      BY <1>1, <2>5 DEF Report, DrainInv, GracefulShutdown, requestVars
    <2>6. CASE Exit
      BY <1>1, <2>6 DEF Exit, CutHandlers, DrainInv, GracefulShutdown
    <2>7. CASE UNCHANGED vars
      BY <1>1, <2>7 DEF vars, requestVars, mainVars, DrainInv, GracefulShutdown
    <2>8. QED
      BY <1>1, <2>1, <2>2, <2>3, <2>4, <2>5, <2>6, <2>7 DEF Next, MainStep, Finished
  <1>2. DrainInv => GracefulShutdown
    BY DEF DrainInv
  <1>3. QED
    BY IngestionInit, <1>1, <1>2, PTL DEF Spec

-----------------------------------------------------------------------------
(* The pipeline *)

\* The bridge changes nothing that ingestion has.
LEMMA IngestionPart == [PipelineNext]_<<vars, bridgeVars>> => [Next]_vars
  BY DEF PipelineNext, IngestionStep, BridgeLoop, Polled, Predicted, BridgeEvent

\* What holds of every behaviour of the ingestion service holds of it with a
\* gateway that reads its topic.
THEOREM PipelineIsIngestion == PipelineSpec => Spec
  <1>1. PipelineInit => Init
    BY DEF PipelineInit
  <1>2. QED
    BY <1>1, IngestionPart, PTL DEF PipelineSpec, Spec

\* The bridge is at records that exist, and has sent none of them to the engine.
BarrenInv ==
    /\ fetched \in 0..Len(topic) /\ committable \in 0..Len(topic)
    /\ committed \in 0..Len(topic) /\ done \in Nat
    /\ loop \notin {"predict", "emit"} /\ results = {}

\* No record has code for the bridge.
LEMMA RecordsAreEmpty ==
    ASSUME OrderInv, BarrenInv
    PROVE  ~ B!Record("code")
  <1> SUFFICES ASSUME B!Record("code") PROVE FALSE
    OBVIOUS
  <1>1. Len(topic) \in Nat /\ DOMAIN topic = 1..Len(topic)
    BY DEF OrderInv, ShapeInv
  <1>2. done + 1 \in DOMAIN topic
    BY <1>1 DEF B!Record, BarrenInv
  <1>3. topic[done + 1] \in Sent
    BY <1>2 DEF OrderInv, ShapeInv
  <1>4. topic[done + 1].code = ""
    BY <1>3 DEF Sent
  <1>5. Kind(topic[done + 1]) = "empty"
    BY <1>4 DEF Kind
  <1>6. Kind(topic[done + 1]) = "code"
    BY <1>2 DEF B!Record
  <1>7. QED
    BY <1>5, <1>6

LEMMA BarrenStep ==
    ASSUME OrderInv, BarrenInv, [PipelineNext]_<<vars, bridgeVars>>
    PROVE  BarrenInv'
  <1>1. Len(topic) \in Nat
    BY DEF OrderInv, ShapeInv
  <1>2. CASE UNCHANGED bridgeVars /\ [Next]_vars
    <2>1. Len(topic') \in Nat /\ Len(topic) <= Len(topic')
      <3>1. \/ topic' = topic
            \/ \E d \in Deliveries : Sends(d)
        <4>1. ASSUME NEW d \in Deliveries, HandlePush(d) \/ HandlePullRequest(d)
              PROVE  topic' = topic
          BY <4>1 DEF HandlePush, HandlePullRequest, Extracted
        <4>2. QED
          BY <1>2, <4>1, StepKinds DEF OrderInv, Calm
      <3>2. ASSUME NEW d \in Deliveries, Sends(d) PROVE Len(topic') = Len(topic) + 1
        <4>1. topic' = Append(topic, Message(d)) /\ topic' \in Seq(Sent)
          BY <3>2, SendFacts DEF OrderInv
        <4>2. topic \in Seq(Sent)
          BY DEF OrderInv, ShapeInv
        <4>3. QED
          BY <4>1, <4>2
      <3>3. QED
        BY <1>1, <3>1, <3>2
    <2>2. QED
      BY <1>1, <1>2, <2>1 DEF BarrenInv, bridgeVars
  <1> DEFINE records == [i \in DOMAIN topic |-> Kind(topic[i])]
  <1>3. Len(records) = Len(topic)
    <2>1. DOMAIN records = 1..Len(topic)
      BY DEF OrderInv, ShapeInv
    <2>2. QED
      BY <1>1, <2>1
  <1>4. ASSUME NEW n \in Nat, topic' = topic, B!PollReturns(n) \/ B!PollFails(n)
        PROVE  BarrenInv'
    BY <1>1, <1>3, <1>4 DEF B!PollReturns, B!PollFails, B!consumerVars, B!historyVars, BarrenInv
  <1>5. CASE topic' = topic /\ (B!LoopStep \/ B!PredictAnswers \/ B!PredictFails)
    <2>1. CASE B!CheckContext \/ B!EnterPoll \/ B!PollCancelled \/ B!BatchDone \/ B!CloseClient
      BY <1>1, <1>5, <2>1 DEF B!CheckContext, B!EnterPoll, B!PollCancelled, B!BatchDone,
                              B!CloseClient, B!consumerVars, B!historyVars, BarrenInv
    <2>2. CASE B!DropUnparsable \/ B!SkipEmpty
      BY <1>1, <1>5, <2>2 DEF B!DropUnparsable, B!SkipEmpty, B!Settle, BarrenInv
    <2>3. ~ (B!CallPredict \/ B!EmitResult \/ B!PredictAnswers \/ B!PredictFails)
      BY RecordsAreEmpty DEF B!CallPredict, B!EmitResult, B!PredictAnswers,
                             B!PredictFails, BarrenInv
    <2>4. QED
      BY <1>5, <2>1, <2>2, <2>3 DEF B!LoopStep
  <1>6. CASE topic' = topic /\ (B!AutoCommit \/ B!Cancel \/ B!Crash \/ B!Restart)
    BY <1>1, <1>6 DEF B!AutoCommit, B!Cancel, B!Crash, B!Restart, B!consumerVars,
                      B!historyVars, BarrenInv
  <1>7. UNCHANGED vars => topic' = topic
    BY DEF vars
  <1>8. ASSUME B!PollReturnsAny \/ B!PollFailsAny
        PROVE  \E n \in Nat : B!PollReturns(n) \/ B!PollFails(n)
    BY <1>8 DEF B!PollReturnsAny, B!PollFailsAny
  <1>9. QED
    BY <1>2, <1>4, <1>5, <1>6, <1>7, <1>8
       DEF PipelineNext, IngestionStep, BridgeLoop, Polled, Predicted, BridgeEvent

\* Nothing that ingestion publishes is ever analysed: whatever succeeds, fails,
\* crashes or is restarted, no record comes to a result, since none has code
\* (handler.go:199, bridge.go:154-158).
THEOREM NothingIsAnalysed == PipelineSpec => [](results = {})
  <1>1. PipelineInit => BarrenInv
    <2> SUFFICES ASSUME PipelineInit PROVE BarrenInv
      OBVIOUS
    <2>1. Len(topic) = 0
      BY DEF PipelineInit, Init
    <2>2. QED
      BY <2>1 DEF PipelineInit, B!Init, BarrenInv
  <1>2. OrderInv /\ BarrenInv /\ [PipelineNext]_<<vars, bridgeVars>> => BarrenInv'
    BY BarrenStep
  <1>3. BarrenInv => results = {}
    BY DEF BarrenInv
  <1>4. QED
    BY PipelineIsIngestion, OrderInvariant, <1>1, <1>2, <1>3, PTL DEF PipelineSpec
=============================================================================
