---------------------------- MODULE SocketProofs ----------------------------
(***************************************************************************)
(* Theorems about Socket for any number of sockets and forgotten timers.   *)
(* The three invariants are inductive one after the other: whatever calls  *)
(* connect leaves a socket or a timer behind, and only onclose makes a     *)
(* socket disappear.                                                       *)
(***************************************************************************)
EXTENDS Socket, TLAPS

\* connect() either opens a new socket or sets a timer; the other sockets are
\* as they were.
LEMMA ConnectFacts ==
    ASSUME NEW ws \in [Sockets -> {"none", "connecting", "open", "closing"}],
           NEW pending \in BOOLEAN, NEW n \in 0..MaxOrphans, Connect(ws, pending, n),
           wsRef \in {s \in Sockets : ws[s] # "none"} \cup {NoSocket}
    PROVE  /\ socket' \in [Sockets -> {"none", "connecting", "open", "closing"}]
           /\ wsRef' \in {s \in Sockets : socket'[s] # "none"} \cup {NoSocket}
           /\ timer' \in BOOLEAN /\ orphans' \in 0..MaxOrphans
           /\ timer' \/ \E s \in Sockets : socket'[s] # "none"
           /\ \A s \in Sockets : ws[s] # "none" => socket'[s] = ws[s]
  <1>1. CASE /\ \E s \in Sockets :
                   ws[s] = "none" /\ socket' = [ws EXCEPT ![s] = "connecting"] /\ wsRef' = s
             /\ timer' = pending /\ orphans' = n
    BY <1>1
  <1>2. CASE /\ timer' = TRUE /\ orphans' = Forgotten(pending, n)
             /\ socket' = ws /\ UNCHANGED wsRef
    BY <1>2, SocketAssumption DEF Forgotten, SocketAssumption
  <1>3. QED
    BY <1>1, <1>2 DEF Connect

\* The current socket begins to close, and none is gone.
LEMMA LeftFacts ==
    ASSUME TypeOK
    PROVE  /\ Left \in [Sockets -> {"none", "connecting", "open", "closing"}]
           /\ wsRef \in {s \in Sockets : Left[s] # "none"} \cup {NoSocket}
           /\ \A s \in Sockets : Left[s] = "none" <=> socket[s] = "none"
           /\ \A s \in Sockets : socket[s] = "open" => Left[s] \in {"open", "closing"}
           /\ \A s \in Sockets : socket[s] = "closing" => Left[s] = "closing"
  BY DEF TypeOK, Left

LEMMA TypeStep == TypeOK /\ [Next]_vars => TypeOK'
  <1> SUFFICES ASSUME TypeOK, [Next]_vars PROVE TypeOK'
    OBVIOUS
  <1> USE DEF TypeOK, hookVars, reactVars
  <1>1. ASSUME NEW s \in Sockets, OnOpen(s) \/ OnMessage(s) \/ OnError(s) PROVE TypeOK'
    BY <1>1 DEF OnOpen, OnMessage, OnError
  <1>2. ASSUME NEW s \in Sockets, OnClose(s) PROVE TypeOK'
    <2>1. /\ socket' \in [Sockets -> {"none", "connecting", "open", "closing"}]
          /\ wsRef' \in {t \in Sockets : socket'[t] # "none"} \cup {NoSocket}
      BY <1>2 DEF OnClose, Closed
    <2>2. orphans' \in 0..MaxOrphans
      BY <1>2, SocketAssumption DEF OnClose, Forgotten, SocketAssumption
    <2>3. timer' \in BOOLEAN /\ connected' \in BOOLEAN
      BY <1>2 DEF OnClose
    <2>4. QED
      BY <1>2, <2>1, <2>2, <2>3 DEF OnClose
  <1>3. CASE TimerFires
    BY <1>3, ConnectFacts DEF TimerFires
  <1>4. CASE OrphanFires
    <2>1. orphans - 1 \in 0..MaxOrphans
      BY <1>4, SocketAssumption DEF OrphanFires, SocketAssumption
    <2>2. QED
      BY <1>4, <2>1, ConnectFacts DEF OrphanFires
  <1>5. CASE Effect
    <2>1. /\ socket' \in [Sockets -> {"none", "connecting", "open", "closing"}]
          /\ wsRef' \in {s \in Sockets : socket'[s] # "none"} \cup {NoSocket}
          /\ timer' \in BOOLEAN /\ orphans' \in 0..MaxOrphans
      BY <1>5, LeftFacts, ConnectFacts DEF Effect
    <2>2. QED
      BY <1>5, <2>1 DEF Effect
  <1>6. CASE Touch \/ Commit \/ Gateway
    BY <1>6 DEF Touch, Commit, Gateway
  <1>7. CASE UNCHANGED vars
    BY <1>7 DEF vars
  <1>8. QED
    BY <1>1, <1>2, <1>3, <1>4, <1>5, <1>6, <1>7 DEF Next, Timers

LEMMA GiveUpStep == TypeOK /\ NeverGivesUp /\ [Next]_vars => NeverGivesUp'
  <1> SUFFICES ASSUME TypeOK, NeverGivesUp, [Next]_vars PROVE NeverGivesUp'
    OBVIOUS
  <1> USE DEF NeverGivesUp, hookVars, reactVars
  <1>1. ASSUME NEW s \in Sockets, OnOpen(s) \/ OnMessage(s) \/ OnError(s) PROVE NeverGivesUp'
    BY <1>1 DEF OnOpen, OnMessage, OnError, TypeOK
  <1>2. ASSUME NEW s \in Sockets, OnClose(s) PROVE NeverGivesUp'
    BY <1>2 DEF OnClose
  <1>3. CASE TimerFires
    BY <1>3, ConnectFacts DEF TimerFires, TypeOK
  <1>4. CASE OrphanFires
    <2>1. orphans - 1 \in 0..MaxOrphans
      BY <1>4, SocketAssumption DEF OrphanFires, SocketAssumption, TypeOK
    <2>2. QED
      BY <1>4, <2>1, ConnectFacts DEF OrphanFires, TypeOK
  <1>5. CASE Effect
    BY <1>5, LeftFacts, ConnectFacts DEF Effect, TypeOK
  <1>6. CASE Touch \/ Commit \/ Gateway
    BY <1>6 DEF Touch, Commit, Gateway
  <1>7. CASE UNCHANGED vars
    BY <1>7 DEF vars
  <1>8. QED
    BY <1>1, <1>2, <1>3, <1>4, <1>5, <1>6, <1>7 DEF Next, Timers

LEMMA ConnectedStep == TypeOK /\ ConnectedMeansOpen /\ [Next]_vars => ConnectedMeansOpen'
  <1> SUFFICES ASSUME TypeOK, ConnectedMeansOpen, [Next]_vars PROVE ConnectedMeansOpen'
    OBVIOUS
  <1> USE DEF ConnectedMeansOpen, hookVars, reactVars
  <1>1. ASSUME NEW s \in Sockets, OnOpen(s) \/ OnMessage(s) \/ OnError(s)
        PROVE  ConnectedMeansOpen'
    BY <1>1 DEF OnOpen, OnMessage, OnError, TypeOK
  <1>2. ASSUME NEW s \in Sockets, OnClose(s) PROVE ConnectedMeansOpen'
    BY <1>2 DEF OnClose
  <1>3. CASE TimerFires
    BY <1>3, ConnectFacts DEF TimerFires, TypeOK
  <1>4. CASE OrphanFires
    <2>1. orphans - 1 \in 0..MaxOrphans
      BY <1>4, SocketAssumption DEF OrphanFires, SocketAssumption, TypeOK
    <2>2. QED
      BY <1>4, <2>1, ConnectFacts DEF OrphanFires, TypeOK
  <1>5. CASE Effect
    BY <1>5, LeftFacts, ConnectFacts DEF Effect, TypeOK
  <1>6. CASE Touch \/ Commit \/ Gateway
    BY <1>6 DEF Touch, Commit, Gateway
  <1>7. CASE UNCHANGED vars
    BY <1>7 DEF vars
  <1>8. QED
    BY <1>1, <1>2, <1>3, <1>4, <1>5, <1>6, <1>7 DEF Next, Timers

LEMMA SocketInit == Init => TypeOK /\ NeverGivesUp /\ ConnectedMeansOpen
  <1> SUFFICES ASSUME Init PROVE TypeOK /\ NeverGivesUp /\ ConnectedMeansOpen
    OBVIOUS
  <1>1. /\ socket \in [Sockets -> {"none", "connecting", "open", "closing"}]
        /\ wsRef \in {s \in Sockets : socket[s] # "none"} \cup {NoSocket}
        /\ timer \/ \E s \in Sockets : socket[s] # "none"
    <2>1. CASE valid
      BY <2>1 DEF Init
    <2>2. CASE ~valid
      BY <2>2 DEF Init
    <2>3. QED
      BY <2>1, <2>2
  <1>2. timer \in BOOLEAN
    BY DEF Init
  <1>3. orphans \in 0..MaxOrphans
    BY SocketAssumption DEF Init, SocketAssumption
  <1>4. QED
    BY <1>1, <1>2, <1>3, Zenon DEF Init, TypeOK, NeverGivesUp, ConnectedMeansOpen

LEMMA SocketInductive == Spec => [](TypeOK /\ NeverGivesUp /\ ConnectedMeansOpen)
  BY SocketInit, TypeStep, GiveUpStep, ConnectedStep, PTL DEF Spec

-----------------------------------------------------------------------------
(* Theorems *)

\* Types; wsRef is a socket that is there, or none.
THEOREM TypeCorrect == Spec => []TypeOK
  BY SocketInductive, PTL

\* The hook always has a way back to a connection (useWebSocket.ts:52, 70-71).
THEOREM AWayBack == Spec => []NeverGivesUp
  BY SocketInductive, PTL

\* The badge is true, whichever sockets are still closing (App.tsx:95).
THEOREM BadgeIsTrue == Spec => []ConnectedMeansOpen
  BY SocketInductive, PTL
=============================================================================
