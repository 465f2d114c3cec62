------------------------------- MODULE Socket -------------------------------
(***************************************************************************)
(* The dashboard's connection to the feed: the hook useWebSocket           *)
(* (dashboard/src/hooks/useWebSocket.ts) as App uses it.                   *)
(*                                                                         *)
(* App passes onMessage as a new function in every render (App.tsx:37), so *)
(* connect is a new function too, and the effect that depends on it is     *)
(* cleaned up and run again after every render that is committed.  React   *)
(* commits App if a state it holds has changed by the time it renders, and *)
(* runs the effects of one commit before it renders again.  The functions  *)
(* of earlier renders that sockets and timers still hold do the same as    *)
(* the latest: onMessage only uses functional updates.                     *)
(***************************************************************************)
EXTENDS Integers, FiniteSets

CONSTANTS Sockets,    \* bound of the model: WebSockets that are not closed yet
          MaxOrphans  \* bound of the model: forgotten timers, more count as this many

ASSUME SocketAssumption == MaxOrphans \in Nat

VARIABLES
    socket,     \* "none", or the readyState: a closed one is "none" again
    wsRef,      \* the current socket, NoSocket once it is closed
    timer,      \* reconnectTimer.current is pending
    orphans,    \* pending timers that reconnectTimer has been overwritten over
    connected,  \* isConnected, as it was last set
    rendered,   \* isConnected, as it was last committed
    changed,    \* another state of App has been set since the last commit
    effect,     \* a commit's effects are to be run
    valid,      \* the URL is one that new WebSocket takes
    up          \* the gateway is there

hookVars  == <<socket, wsRef, timer, orphans>>
reactVars == <<connected, rendered, changed, effect>>
vars == <<hookVars, reactVars, valid, up>>

NoSocket == "none"

TypeOK ==
    /\ socket \in [Sockets -> {"none", "connecting", "open", "closing"}]
    /\ wsRef \in {s \in Sockets : socket[s] # "none"} \cup {NoSocket}
    /\ timer \in BOOLEAN /\ orphans \in 0..MaxOrphans
    /\ connected \in BOOLEAN /\ rendered \in BOOLEAN
    /\ changed \in BOOLEAN /\ effect \in BOOLEAN
    /\ valid \in BOOLEAN /\ up \in BOOLEAN

\* One more timer: reconnectTimer forgets the one it may have.
Forgotten(pending, n) == IF pending /\ n < MaxOrphans THEN n + 1 ELSE n

\* connect(), with the sockets ws and the timer pending at that moment.  A
\* socket that wsRef had is left as it is.
Connect(ws, pending, n) ==
    \/ /\ valid
       /\ \E s \in Sockets :
              ws[s] = "none" /\ socket' = [ws EXCEPT ![s] = "connecting"] /\ wsRef' = s
       /\ timer' = pending /\ orphans' = n
    \/ /\ ~valid
       /\ timer' = TRUE /\ orphans' = Forgotten(pending, n)
       /\ socket' = ws /\ UNCHANGED wsRef

\* App has been mounted; StrictMode (main.tsx:7) does so twice in development,
\* with a cleanup in between.
Init ==
    /\ valid \in BOOLEAN /\ up \in BOOLEAN
    /\ connected = FALSE /\ rendered = FALSE /\ changed = FALSE /\ effect = FALSE
    /\ orphans = 0
    /\ IF valid
       THEN /\ wsRef \in Sockets /\ timer = FALSE
            /\ \/ socket = [s \in Sockets |-> IF s = wsRef THEN "connecting" ELSE "none"]
               \/ \E first \in Sockets \ {wsRef} :
                      socket = [s \in Sockets |-> CASE s = wsRef -> "connecting"
                                                    [] s = first -> "closing"
                                                    [] OTHER -> "none"]
       ELSE /\ wsRef = NoSocket /\ timer = TRUE
            /\ socket = [s \in Sockets |-> "none"]

-----------------------------------------------------------------------------
(* The socket's events *)

\* onopen: setIsConnected(true)
OnOpen(s) ==
    /\ socket[s] = "connecting" /\ up
    /\ socket' = [socket EXCEPT ![s] = "open"]
    /\ connected' = TRUE
    /\ UNCHANGED <<wsRef, timer, orphans, rendered, changed, effect, valid, up>>

\* onmessage: setLastMessage, and App's onMessage
OnMessage(s) ==
    /\ socket[s] = "open" /\ up
    /\ changed' = TRUE
    /\ UNCHANGED <<hookVars, connected, rendered, effect, valid, up>>

\* onerror, or the other side closes.  ws.close() leads to onclose in any case.
OnError(s) ==
    /\ socket[s] \in {"connecting", "open"} /\ ~up
    /\ socket' = [socket EXCEPT ![s] = "closing"]
    /\ UNCHANGED <<wsRef, timer, orphans, reactVars, valid, up>>

Closed(s) ==
    /\ socket[s] = "closing" /\ socket' = [socket EXCEPT ![s] = "none"]
    /\ wsRef' = IF wsRef = s THEN NoSocket ELSE wsRef

\* Mutant: the hook does not reconnect.
OnClose_NoRetry(s) ==
    /\ Closed(s)
    /\ connected' = FALSE
    /\ UNCHANGED <<timer, orphans, rendered, changed, effect, valid, up>>

\* Mutant: the hook reconnects after a connection that was made.
OnClose_IfConnected(s) ==
    /\ Closed(s)
    /\ connected' = FALSE
    /\ timer' = connected /\ orphans' = Forgotten(timer /\ connected, orphans)
    /\ UNCHANGED <<rendered, changed, effect, valid, up>>

\* Mutant: only the current socket's end is shown.
OnClose_OfCurrent(s) ==
    /\ Closed(s)
    /\ connected' = (connected /\ wsRef # s)
    /\ timer' = TRUE /\ orphans' = Forgotten(timer, orphans)
    /\ UNCHANGED <<rendered, changed, effect, valid, up>>

\* onclose: setIsConnected(false) and a timer, whichever socket it is.
OnClose(s) ==
    /\ Closed(s)
    /\ connected' = FALSE
    /\ timer' = TRUE /\ orphans' = Forgotten(timer, orphans)
    /\ UNCHANGED <<rendered, changed, effect, valid, up>>

\* setTimeout(connect, reconnectInterval) is over.
TimerFires ==
    /\ timer /\ Connect(socket, FALSE, orphans)
    /\ UNCHANGED <<reactVars, valid, up>>

OrphanFires ==
    /\ orphans > 0 /\ Connect(socket, timer, orphans - 1)
    /\ UNCHANGED <<reactVars, valid, up>>

-----------------------------------------------------------------------------
(* React *)

\* Another state of App is set: a click, the demo stream, the REST answer.
Touch ==
    /\ changed' = TRUE
    /\ UNCHANGED <<hookVars, connected, rendered, effect, valid, up>>

\* App renders.  Updates that cancel out are no change.
Commit ==
    /\ ~effect /\ (changed \/ connected # rendered)
    /\ rendered' = connected /\ changed' = FALSE /\ effect' = TRUE
    /\ UNCHANGED <<hookVars, connected, valid, up>>

\* wsRef.current?.close()
Left ==
    [s \in Sockets |-> IF s = wsRef /\ socket[s] \in {"connecting", "open"}
                       THEN "closing" ELSE socket[s]]

\* The cleanup of the last effect and connect() of the new one.
Effect ==
    /\ effect /\ effect' = FALSE
    /\ Connect(Left, FALSE, orphans)
    /\ UNCHANGED <<connected, rendered, changed, valid, up>>

-----------------------------------------------------------------------------
\* The gateway goes, or drops this client; or it is back.
Gateway == up' = ~up /\ UNCHANGED <<hookVars, reactVars, valid>>

Timers == TimerFires \/ OrphanFires

Next ==
    \/ \E s \in Sockets : OnOpen(s) \/ OnMessage(s) \/ OnError(s) \/ OnClose(s)
    \/ Timers \/ Touch \/ Commit \/ Effect \/ Gateway

Spec == Init /\ [][Next]_vars

\* The browser runs what is due, connections come up or fail.
FairSpec ==
    /\ Spec
    /\ \A s \in Sockets : WF_vars(OnOpen(s)) /\ WF_vars(OnError(s)) /\ WF_vars(OnClose(s))
    /\ WF_vars(TimerFires) /\ WF_vars(OrphanFires) /\ WF_vars(Commit) /\ WF_vars(Effect)

-----------------------------------------------------------------------------
(* Properties *)

\* The hook always has something that leads to a connection: a socket, a timer
\* or an effect to run, whichever timers and sockets it has cancelled
\* (useWebSocket.ts:52, 70-71).
NeverGivesUp ==
    effect \/ timer \/ orphans > 0 \/ \E s \in Sockets : socket[s] # "none"

\* "Live WebSocket Active" (App.tsx:95) is shown of a connection that exists:
\* one that was open and whose onclose is still to come.
ConnectedMeansOpen ==
    connected => \E s \in Sockets : socket[s] \in {"open", "closing"}

\* While the gateway is there and App is left alone, the hook has a connection
\* and knows it again and again, after any number of failures before: no onclose
\* that comes late makes isConnected false for good (useWebSocket.ts:26-53).
Reopens ==
    <>[](up /\ valid /\ ~changed) =>
        []<>(connected /\ \E s \in Sockets : socket[s] = "open")
=============================================================================
