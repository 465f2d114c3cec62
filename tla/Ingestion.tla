----------------------------- MODULE Ingestion -----------------------------
(***************************************************************************)
(* The ingestion service: concurrent webhook handlers                      *)
(* (services/ingestion/internal/webhook/handler.go), the producer they     *)
(* share (internal/kafka/producer.go) and the shutdown in main.go.         *)
(*                                                                         *)
(* A push is the sequence of the files its commits modify and add, in the  *)
(* order handlePush goes through them; a snippet is the place of its file. *)
(* The topic is what the broker has accepted.  franz-go's ProduceSync is   *)
(* modelled by what Publish meets: it blocks until the broker has the      *)
(* record or gives up with an error, which does not mean that the broker   *)
(* has not got it.  A cancelled context ends it while the record waits in  *)
(* the client; once a request carries the record, only the broker's answer *)
(* or the end of the client does, because the producer is idempotent.      *)
(***************************************************************************)
EXTENDS Integers, Sequences, FiniteSets

CONSTANTS Deliveries,  \* webhook deliveries, each one request
          MaxFiles     \* bound of the model: files of a push

ASSUME IngestionAssumption == MaxFiles \in Nat

VARIABLES
    handler,    \* per delivery: where its goroutine is
    snippets,   \* what is to be published for it
    at,         \* the snippet the publish loop is at
    published,  \* the loop's count
    response,   \* the status it was answered with
    gone,       \* GitHub no longer waits: r.Context() is done
    topic,      \* the records the broker has
    count,      \* p.count
    main,       \* where main is; "failed" is os.Exit(1)
    timedOut,   \* Shutdown gave up waiting
    total       \* the total_messages Close reports

requestVars == <<handler, snippets, at, published, response, gone>>
mainVars    == <<main, timedOut, total>>
vars == <<requestVars, topic, count, mainVars>>

\* What isCodeFile says of a file's name.
Files == {"code", "other"}

Pushes == UNION {[1..n -> Files] : n \in 0..MaxFiles}

\* Some files of a push, in their order.
Ordered == {list \in UNION {[1..n -> 1..MaxFiles] : n \in 0..MaxFiles} :
                \A i, j \in DOMAIN list : i < j => list[i] < list[j]}

\* A CodeSnippet with what matters of it; no handler fills in its code.
Record == [delivery : Deliveries, file : 0..MaxFiles, code : {""}]

TypeOK ==
    /\ handler \in [Deliveries ->
                    {"none", "loop", "produce", "flight", "count", "done", "cut"}]
    /\ \A d \in Deliveries : snippets[d] \in Seq(0..MaxFiles)
    /\ \A d \in Deliveries : at[d] \in 1..Len(snippets[d]) + 1
    /\ \A d \in Deliveries : published[d] \in 0..Len(snippets[d])
    /\ response \in [Deliveries -> {0, 200, 400, 401, 500}]
    /\ gone \subseteq Deliveries
    /\ topic \in Seq(Record) /\ count \in Nat
    /\ main \in {"starting", "serving", "draining", "closing", "exited", "failed"}
    /\ timedOut \in BOOLEAN /\ total \in {-1} \cup Nat

Init ==
    /\ handler = [d \in Deliveries |-> "none"]
    /\ snippets = [d \in Deliveries |-> <<>>]
    /\ at = [d \in Deliveries |-> 1] /\ published = [d \in Deliveries |-> 0]
    /\ response = published /\ gone = {}
    /\ topic = <<>> /\ count = 0
    /\ main = "starting" /\ timedOut = FALSE /\ total = -1

-----------------------------------------------------------------------------
(* HandleWebhook, up to the publish loop *)

\* A connection that is open when Shutdown begins may still bring a request.
Arrives(d) == main \in {"serving", "draining"} /\ handler[d] = "none"

\* One of the early returns.
Answered(d, status) ==
    /\ Arrives(d)
    /\ handler' = [handler EXCEPT ![d] = "done"]
    /\ response' = [response EXCEPT ![d] = status]
    /\ UNCHANGED <<snippets, at, published, gone, topic, count, mainVars>>

\* The body cannot be read.
BadRequest(d) == Answered(d, 400)

\* There is a secret, and verifySignature says no: the signature is missing,
\* not hexadecimal, or of another body.
Unauthorized(d) == Answered(d, 401)

\* A ping, or an event that is not handled.
Ignored(d) == Answered(d, 200)

\* json.Unmarshal of a push or pull_request fails.
Unparsable(d) == Answered(d, 500)

Extracted(d, list) ==
    /\ Arrives(d)
    /\ handler' = [handler EXCEPT ![d] = "loop"]
    /\ snippets' = [snippets EXCEPT ![d] = list]
    /\ UNCHANGED <<at, published, response, gone, topic, count, mainVars>>

\* handlePush: one snippet for every code file.
HandlePush(d) ==
    \E files \in Pushes, list \in Ordered :
        /\ {list[i] : i \in DOMAIN list} = {i \in DOMAIN files : files[i] = "code"}
        /\ Extracted(d, list)

\* handlePullRequest: a marker, if the pull request is opened or has new commits.
HandlePullRequest(d) == Extracted(d, <<0>>) \/ Extracted(d, <<>>)

-----------------------------------------------------------------------------
(* The publish loop, and Producer.Publish *)

ClientOpen == main \in {"serving", "draining"}

\* The snippet as it is sent: handlePush and handlePullRequest leave its code
\* empty, for the gateway to fill in.
Message(d) == [delivery |-> d, file |-> snippets[d][at[d]], code |-> ""]

Goto(d, from, to) == handler[d] = from /\ handler' = [handler EXCEPT ![d] = to]

Advance(d) == at' = [at EXCEPT ![d] = @ + 1]

\* p.client.ProduceSync
CallProduce(d) ==
    /\ at[d] <= Len(snippets[d]) /\ Goto(d, "loop", "produce")
    /\ UNCHANGED <<snippets, at, published, response, gone, topic, count, mainVars>>

\* A request carries the record.
SendRequest(d) ==
    /\ ClientOpen /\ Goto(d, "produce", "flight")
    /\ UNCHANGED <<snippets, at, published, response, gone, topic, count, mainVars>>

Produced(d) ==
    /\ ClientOpen /\ Goto(d, "flight", "count")
    /\ topic' = Append(topic, Message(d))
    /\ UNCHANGED <<snippets, at, published, response, gone, count, mainVars>>

\* ProduceSync returns an error, of a record that the broker may have got if it
\* was sent.
ProduceErr(d, written) ==
    /\ handler[d] = "flight" \/ (handler[d] = "produce" /\ ~written)
    /\ handler' = [handler EXCEPT ![d] = "loop"]
    /\ topic' = IF written THEN Append(topic, Message(d)) ELSE topic

\* Mutant: published is counted before the error is looked at.
ProduceFails_Counts(d, written) ==
    /\ ProduceErr(d, written) /\ Advance(d)
    /\ published' = [published EXCEPT ![d] = @ + 1] /\ count' = count + 1
    /\ UNCHANGED <<snippets, response, gone, mainVars>>

\* Mutant: a failed message is sent again.
ProduceFails_Retries(d, written) ==
    /\ ProduceErr(d, written) /\ (written => Len(topic) <= MaxFiles)
    /\ UNCHANGED <<snippets, at, published, response, gone, count, mainVars>>

\* Publish returns an error: the loop goes on with the next snippet.
ProduceFails(d, written) ==
    /\ ProduceErr(d, written) /\ Advance(d)
    /\ UNCHANGED <<snippets, published, response, gone, count, mainVars>>

\* Mutant: a published message is sent again.
CountPublished_Again(d) ==
    /\ Goto(d, "count", "loop")
    /\ count' = count + 1
    /\ published' = [published EXCEPT ![d] = @ + 1]
    /\ UNCHANGED <<snippets, at, response, gone, topic, mainVars>>

\* p.mu.Lock(); p.count++; p.mu.Unlock(), and published++ in the loop.
CountPublished(d) ==
    /\ Goto(d, "count", "loop") /\ Advance(d)
    /\ count' = count + 1
    /\ published' = [published EXCEPT ![d] = @ + 1]
    /\ UNCHANGED <<snippets, response, gone, topic, mainVars>>

\* 200 and "snippets": published, whatever came of the others.
Respond(d) ==
    /\ at[d] > Len(snippets[d]) /\ Goto(d, "loop", "done")
    /\ response' = [response EXCEPT ![d] = 200]
    /\ UNCHANGED <<snippets, at, published, gone, topic, count, mainVars>>

\* Mutant: Publish does not get the request's context.
GiveUp_NotPassedOn(d) == FALSE /\ UNCHANGED vars

\* GitHub closes the connection after its timeout: the request's context ends.
GiveUp(d) ==
    /\ handler[d] \notin {"none", "done", "cut"} /\ d \notin gone
    /\ gone' = gone \cup {d}
    /\ UNCHANGED <<handler, snippets, at, published, response, topic, count, mainVars>>

-----------------------------------------------------------------------------
(* main *)

\* NewProducer has pinged the broker, and the server is started.
Start ==
    /\ main = "starting" /\ main' = "serving"
    /\ UNCHANGED <<requestVars, topic, count, timedOut, total>>

\* What a process that ends takes with it.
CutHandlers ==
    handler' = [d \in Deliveries |->
                   IF handler[d] \in {"none", "done"} THEN handler[d] ELSE "cut"]

\* The ping fails, or ListenAndServe does: os.Exit(1), which runs no deferred
\* Close and waits for no handler.
Fail ==
    /\ main \in {"starting", "serving"} /\ main' = "failed" /\ CutHandlers
    /\ UNCHANGED <<snippets, at, published, response, gone, topic, count,
                   timedOut, total>>

Signal ==
    /\ main = "serving" /\ main' = "draining"
    /\ UNCHANGED <<requestVars, topic, count, timedOut, total>>

Idle == \A d \in Deliveries : handler[d] \in {"none", "done"}

\* Mutant: main does not wait for the requests.
Drained_NotAwaited ==
    /\ main = "draining" /\ main' = "closing"
    /\ UNCHANGED <<requestVars, topic, count, timedOut, total>>

\* server.Shutdown returns.
Drained ==
    /\ main = "draining" /\ Idle /\ main' = "closing"
    /\ UNCHANGED <<requestVars, topic, count, timedOut, total>>

\* Mutant: Shutdown gets a context without a deadline.
DrainTimeout_None == FALSE /\ UNCHANGED vars

\* Its ten seconds are over: "Shutdown error".
DrainTimeout ==
    /\ main = "draining" /\ ~Idle /\ main' = "closing" /\ timedOut' = TRUE
    /\ UNCHANGED <<requestVars, topic, count, total>>

\* The deferred producer.Close, once the client is closed: it reads p.count
\* without p.mu.
Report ==
    /\ main = "closing" /\ total = -1 /\ total' = count
    /\ UNCHANGED <<requestVars, topic, count, main, timedOut>>

\* main returns, and takes the handlers that are left with it.
Exit ==
    /\ main = "closing" /\ total # -1 /\ main' = "exited" /\ CutHandlers
    /\ UNCHANGED <<snippets, at, published, response, gone, topic, count, timedOut, total>>

-----------------------------------------------------------------------------
Fails(d) == \E written \in BOOLEAN : ProduceFails(d, written)

HandlerStep(d) == CallProduce(d) \/ CountPublished(d) \/ Respond(d)

MainStep == Drained \/ DrainTimeout \/ Report \/ Exit

Finished == main \in {"exited", "failed"} /\ UNCHANGED vars

Next ==
    \/ \E d \in Deliveries :
           \/ BadRequest(d) \/ Unauthorized(d) \/ Ignored(d) \/ Unparsable(d)
           \/ HandlePush(d) \/ HandlePullRequest(d)
           \/ HandlerStep(d) \/ SendRequest(d) \/ Produced(d) \/ Fails(d) \/ GiveUp(d)
    \/ Start \/ Fail \/ Signal \/ MainStep
    \/ Finished

Spec == Init /\ [][Next]_vars

\* main runs, and its timer goes off.
FairSpec == Spec /\ WF_vars(MainStep)

\* The context's end, which is no end for a record that has been sent.
ContextEnds(d) == d \in gone /\ handler[d] = "produce" /\ Fails(d)

\* The broker's answer, or the client's end.
RequestEnds(d) == handler[d] = "flight" /\ (Produced(d) \/ Fails(d))

\* The handlers run as well, GitHub gives up, ProduceSync returns under a context
\* that is done, and what was sent is answered: a broker may be out of reach for
\* ever, but does not keep a request for ever.
HandlersRun ==
    \A d \in Deliveries :
        /\ WF_vars(HandlerStep(d)) /\ WF_vars(GiveUp(d))
        /\ WF_vars(ContextEnds(d)) /\ WF_vars(RequestEnds(d))

-----------------------------------------------------------------------------
(* Properties *)

Of(d) == {i \in DOMAIN topic : topic[i].delivery = d}

\* The broker gets the snippets of a delivery in the order of its files and
\* each of them once, though a failed one may be missing (handler.go:145-158):
\* there is no retry, and ProduceSync keeps one in flight.
InOrderOnce ==
    \A d \in Deliveries :
        \A i, j \in Of(d) : i < j => topic[i].file < topic[j].file

\* The messages the answers count: the first, second, ... of each delivery.
Counted == UNION {{d} \X (1..published[d]) : d \in Deliveries}

\* The number in the answer, and the producer's count over all deliveries, are
\* of messages the broker has (handler.go:157, producer.go:51-57), with
\* handlers in any step and after failures that were none.
CountsArePublished ==
    /\ \A d \in Deliveries : published[d] <= Cardinality(Of(d))
    /\ count = Cardinality(Counted)

\* A shutdown that does not time out cuts no delivery off: everyone was
\* answered, and the total reported is final (main.go:72-80).
GracefulShutdown ==
    main \in {"closing", "exited"} /\ ~timedOut =>
        /\ \A d \in Deliveries : handler[d] \in {"none", "done"}
        /\ total \in {-1, count}

\* If handlers run, every delivery is over some time, even if no request gets
\* through to the broker: Publish has no timeout but the context of its request
\* (producer.go:50), which ends the wait of what has not been sent.
DeliveriesEnd ==
    HandlersRun =>
        \A d \in Deliveries : handler[d] # "none" ~> handler[d] \in {"done", "cut"}

\* The shutdown ends whatever handlers, broker and GitHub do (main.go:75-80).
ShutdownEnds == main = "draining" ~> main = "exited"
=============================================================================
