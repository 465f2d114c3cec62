----------------------------- MODULE AppProofs -----------------------------
(***************************************************************************)
(* Theorems about App for any number of sockets and results and any        *)
(* lengths of the list and of the REST answer.  AppInv says what the list  *)
(* has before and after the answer has come: an empty answer leaves the    *)
(* list as it is, so that nothing may be missing from it even before.      *)
(***************************************************************************)
EXTENDS App, SequenceTheorems, TLAPS

Item == [result : 0..MaxResults, bad : BOOLEAN]

AnswerLength(n) == IF n < Limit THEN n ELSE Limit

ShapeInv ==
    /\ stored \in 0..MaxResults /\ base \in 0..stored
    /\ pos \in [Sockets -> 0..stored] /\ early \in [Sockets -> 0..stored]
    /\ state \in [Sockets -> {"new", "live", "left"}]
    /\ fetch \in {"asked", "answered", "over"}
    /\ anomalies \in Seq(Item) /\ selected \in Item /\ simulating \in BOOLEAN

CoveringInv ==
    /\ covering \subseteq Sockets
    /\ \A s \in covering : state[s] = "live"
    /\ fetch = "asked" => covering = {}

SnapshotInv ==
    fetch = "answered" =>
        snapshot = [i \in 1..AnswerLength(base) |-> Result(base + 1 - i)]

\* What a socket brought is in the list, or has left it.
Has(n) == n \in Results(anomalies) \/ Len(anomalies) = Keep

\* Nothing was stored when the answer was given: it will not replace the list.
PendingInv ==
    fetch = "answered" /\ base = 0 => \A s \in covering : \A n \in 1..pos[s] : Has(n)

AppInv == ShapeInv /\ CoveringInv /\ SnapshotInv /\ PendingInv /\ NoGap

-----------------------------------------------------------------------------
(* The list *)

\* An item on top of the list takes nothing from it, unless it is full.
LEMMA PrependFacts ==
    ASSUME anomalies \in Seq(Item), selected \in Item, NEW x \in Item, Prepend(x)
    PROVE  /\ anomalies' \in Seq(Item) /\ selected' \in Item
           /\ \/ Len(anomalies') = Keep
              \/ Results(anomalies') = Results(anomalies) \cup ({x.result} \ {0})
           /\ Len(anomalies) = Keep => Len(anomalies') = Keep
  <1> DEFINE more == <<x>> \o anomalies
  <1>1. /\ <<x>> \in Seq(Item) /\ Len(<<x>>) = 1 /\ <<x>>[1] = x
        /\ Len(anomalies) \in Nat /\ Keep \in Nat \ {0}
    BY AppAssumption DEF AppAssumption
  <1>2. /\ more \in Seq(Item) /\ Len(more) = Len(anomalies) + 1
        /\ \A i \in 1..Len(anomalies) + 1 :
              more[i] = IF i <= 1 THEN x ELSE anomalies[i - 1]
    BY <1>1, ConcatProperties
  <1>3. anomalies' = SubSeq(more, 1, IF Len(anomalies) < Keep THEN Len(anomalies) + 1 ELSE Keep)
        /\ selected' \in Item
    BY DEF Prepend
  <1> HIDE DEF more
  <1>4. CASE Len(anomalies) < Keep
    <2>1. anomalies' = more
      BY <1>2, <1>3, <1>4, SubSeqFull
    <2>2. \A r : (\E i \in DOMAIN more : r = more[i].result)
                    <=> (\E j \in DOMAIN anomalies : r = anomalies[j].result) \/ r = x.result
      <3>1. DOMAIN more = 1..Len(anomalies) + 1 /\ DOMAIN anomalies = 1..Len(anomalies)
        BY <1>2
      <3>2. \A i \in 1..Len(anomalies) : i + 1 \in 1..Len(anomalies) + 1 /\ more[i + 1] = anomalies[i]
        BY <1>1, <1>2
      <3>3. more[1] = x /\ 1 \in 1..Len(anomalies) + 1
        BY <1>1, <1>2
      <3>4. \A i \in 1..Len(anomalies) + 1 :
               i = 1 \/ (i - 1 \in 1..Len(anomalies) /\ more[i] = anomalies[i - 1])
        BY <1>1, <1>2
      <3>5. ASSUME NEW i \in DOMAIN more
            PROVE  more[i] = x \/ \E j \in DOMAIN anomalies : more[i] = anomalies[j]
        BY <3>1, <3>3, <3>4
      <3>6. \A j \in DOMAIN anomalies : \E i \in DOMAIN more : more[i] = anomalies[j]
        BY <3>1, <3>2
      <3>7. \E i \in DOMAIN more : more[i] = x
        BY <3>1, <3>3
      <3>8. QED
        BY <3>5, <3>6, <3>7, Zenon
    <2>3. Results(anomalies') = Results(anomalies) \cup ({x.result} \ {0})
      BY <2>1, <2>2 DEF Results
    <2>4. QED
      BY <1>2, <1>3, <1>4, <2>1, <2>3
  <1>5. CASE ~(Len(anomalies) < Keep)
    <2>1. /\ anomalies' = SubSeq(more, 1, Keep)
          /\ \A i \in 1..Keep : more[i] \in Item
      <3>1. \A i \in 1..Keep : i \in 1..Len(more)
        BY <1>1, <1>2, <1>5
      <3>2. QED
        BY <1>2, <1>3, <1>5, <3>1, ElementOfSeq
    <2>2. anomalies' \in Seq(Item) /\ Len(anomalies') = IF 1 <= Keep THEN Keep - 1 + 1 ELSE 0
      BY <1>1, <2>1, SubSeqProperties
    <2>3. QED
      BY <1>1, <1>3, <2>2
  <1>6. QED
    BY <1>1, <1>4, <1>5

\* The results of an answer are the newest ones.
LEMMA SnapshotFacts ==
    ASSUME NEW b \in 0..MaxResults,
           NEW list, list = [i \in 1..AnswerLength(b) |-> Result(b + 1 - i)]
    PROVE  /\ list \in Seq(Item) /\ (list = <<>> <=> b = 0)
           /\ b > 0 => list[1] \in Item
           /\ \A n \in 1..b : n > b - Limit => n \in Results(list)
  <1>1. /\ b \in Nat /\ Limit \in Nat \ {0} /\ AnswerLength(b) \in 0..b
        /\ b > 0 => AnswerLength(b) > 0
        /\ MaxResults \in Nat
    BY AppAssumption DEF AppAssumption, AnswerLength
  <1>2. \A i \in 1..AnswerLength(b) : Result(b + 1 - i) \in Item
    BY <1>1 DEF Result, Item
  <1>3. list \in [1..AnswerLength(b) -> Item] /\ DOMAIN list = 1..AnswerLength(b)
    BY <1>2
  <1>4. list \in Seq(Item) /\ Len(list) = AnswerLength(b)
    BY <1>1, <1>3
  <1>5. ASSUME NEW n \in 1..b, n > b - Limit PROVE n \in Results(list)
    <2>1. b + 1 - n \in 1..AnswerLength(b)
      BY <1>1, <1>5 DEF AnswerLength
    <2>2. list[b + 1 - n].result = n
      BY <1>1, <2>1 DEF Result
    <2>3. QED
      BY <1>3, <2>1, <2>2 DEF Results
  <1>6. QED
    BY <1>1, <1>3, <1>4, <1>5

-----------------------------------------------------------------------------
(* The inductive step *)

LEMMA AppInit == Init => AppInv
  <1> SUFFICES ASSUME Init PROVE AppInv
    OBVIOUS
  <1> USE AppAssumption DEF AppAssumption, Init, F!Init
  <1>1. Example(TRUE) \in Item
    BY DEF Example, Item
  <1>2. /\ stored = 0 /\ base = 0 /\ MaxResults \in Nat
        /\ pos = [s \in Sockets |-> 0] /\ early = [s \in Sockets |-> 0]
        /\ fetch = "asked" /\ simulating = FALSE
    OBVIOUS
  <1>3. ShapeInv
    <2>1. pos \in [Sockets -> 0..stored] /\ early \in [Sockets -> 0..stored]
      BY <1>2
    <2>2. state \in [Sockets -> {"new", "live", "left"}]
      OBVIOUS
    <2>3. anomalies = <<Example(TRUE)>> /\ selected = Example(TRUE)
      OBVIOUS
    <2> HIDE DEF Init
    <2>4. \A x \in Item : <<x>> \in Seq(Item)
      OBVIOUS
    <2>5. anomalies \in Seq(Item) /\ selected \in Item
      BY <1>1, <2>3, <2>4, Zenon
    <2>6. stored \in 0..MaxResults /\ base \in 0..stored
      BY <1>2
    <2>7. fetch \in {"asked", "answered", "over"} /\ simulating \in BOOLEAN
      BY <1>2, Zenon
    <2>8. QED
      BY <2>1, <2>2, <2>5, <2>6, <2>7, Zenon DEF ShapeInv
  <1>4. QED
    BY <1>2, <1>3 DEF AppInv, CoveringInv, SnapshotInv, PendingInv, NoGap

LEMMA ShapeStep == AppInv /\ [Next]_vars => ShapeInv'
  <1> SUFFICES ASSUME AppInv, [Next]_vars PROVE ShapeInv'
    OBVIOUS
  <1> USE DEF AppInv, ShapeInv, feedVars, fetchVars, listVars
  <1>0. MaxResults \in Nat /\ stored \in Nat /\ \A b \in BOOLEAN : Example(b) \in Item
    BY AppAssumption DEF AppAssumption, Example, Item
  <1>1. CASE Store
    <2>1. stored' = stored + 1 /\ stored < MaxResults
      BY <1>1 DEF Store, F!Store
    <2>2. 0..stored \subseteq 0..stored' /\ stored' \in 0..MaxResults /\ base \in 0..stored'
      BY <1>0, <2>1
    <2>3. pos \in [Sockets -> 0..stored'] /\ early \in [Sockets -> 0..stored']
      BY <2>2
    <2>4. QED
      BY <1>1, <2>2, <2>3 DEF Store, F!Store
  <1>2. CASE HandleList
    BY <1>0, <1>2 DEF HandleList
  <1>3. ASSUME NEW s \in Sockets, Join(s) PROVE ShapeInv'
    BY <1>3 DEF Join, F!Join
  <1>4. ASSUME NEW s \in Sockets, Leave(s) PROVE ShapeInv'
    BY <1>4 DEF Leave, F!Leave
  <1>5. ASSUME NEW s \in Sockets, OnMessage(s) PROVE ShapeInv'
    <2>1. pos[s] + 1 \in 1..stored /\ Result(pos[s] + 1) \in Item
      BY <1>0, <1>5 DEF OnMessage, F!Receive, Result, Item
    <2>2. anomalies' \in Seq(Item) /\ selected' \in Item
      BY <1>5, <2>1, PrependFacts DEF OnMessage
    <2>3. pos' \in [Sockets -> 0..stored]
      BY <1>0, <1>5, <2>1 DEF OnMessage, F!Receive
    <2>4. QED
      BY <1>5, <2>2, <2>3 DEF OnMessage, F!Receive
  <1>6. CASE FetchResolves
    <2>1. /\ snapshot \in Seq(Item) /\ (snapshot = <<>> <=> base = 0)
          /\ base > 0 => snapshot[1] \in Item
      <3>1. base \in 0..MaxResults
        BY <1>0
      <3>2. QED
        BY <1>6, <3>1, SnapshotFacts DEF FetchResolves, SnapshotInv
    <2>2. snapshot # <<>> => snapshot[1] \in Item
      BY <1>0, <2>1
    <2>3. QED
      BY <1>6, <2>1, <2>2 DEF FetchResolves
  <1>7. CASE FetchFails \/ ToggleDemo
    BY <1>7 DEF FetchFails, ToggleDemo
  <1>8. CASE DemoTick
    <2>1. PICK b \in BOOLEAN : Prepend(Example(b))
      BY <1>8 DEF DemoTick
    <2>2. anomalies' \in Seq(Item) /\ selected' \in Item
      BY <1>0, <2>1, PrependFacts
    <2>3. QED
      BY <1>8, <2>2 DEF DemoTick
  <1>9. CASE Select
    <2>1. selected' \in Item
      BY <1>9, ElementOfSeq DEF Select
    <2>2. QED
      BY <1>9, <2>1 DEF Select
  <1>10. CASE UNCHANGED vars
    BY <1>10 DEF vars
  <1>11. QED
    BY <1>1, <1>2, <1>3, <1>4, <1>5, <1>6, <1>7, <1>8, <1>9, <1>10 DEF Next

LEMMA AnswerStep == AppInv /\ [Next]_vars => (CoveringInv /\ SnapshotInv)'
  <1> SUFFICES ASSUME AppInv, [Next]_vars PROVE (CoveringInv /\ SnapshotInv)'
    OBVIOUS
  <1> USE DEF AppInv, ShapeInv, CoveringInv, SnapshotInv, feedVars, fetchVars
  <1>1. CASE Store \/ FetchFails \/ DemoTick \/ ToggleDemo \/ Select \/ UNCHANGED vars
    BY <1>1 DEF Store, F!Store, FetchFails, DemoTick, ToggleDemo, Select, vars
  <1>2. CASE HandleList
    BY <1>2 DEF HandleList, AnswerLength
  <1>3. ASSUME NEW s \in Sockets, Join(s) \/ Leave(s) \/ OnMessage(s)
        PROVE  (CoveringInv /\ SnapshotInv)'
    BY <1>3 DEF Join, F!Join, Leave, F!Leave, OnMessage, F!Receive
  <1>4. CASE FetchResolves
    BY <1>4 DEF FetchResolves
  <1>5. QED
    BY <1>1, <1>2, <1>3, <1>4 DEF Next

\* A result from the feed is in the list afterwards, with what was there before.
LEMMA MessageKeeps ==
    ASSUME ShapeInv, NEW s \in Sockets, OnMessage(s)
    PROVE  /\ \A n \in Nat : n = pos[s] + 1 => Has(n)'
           /\ \A n \in Nat : Has(n) => Has(n)'
  <1>1. pos[s] \in Nat /\ pos[s] + 1 <= stored /\ stored \in 0..MaxResults
    BY AppAssumption DEF AppAssumption, ShapeInv, OnMessage, F!Receive
  <1>2. Result(pos[s] + 1) \in Item /\ Result(pos[s] + 1).result = pos[s] + 1
    BY <1>1, AppAssumption DEF AppAssumption, Result, Item
  <1>3. \/ Len(anomalies') = Keep
        \/ Results(anomalies') = Results(anomalies) \cup {pos[s] + 1}
    BY <1>1, <1>2, PrependFacts DEF OnMessage, ShapeInv
  <1>4. Len(anomalies) = Keep => Len(anomalies') = Keep
    BY <1>2, PrependFacts DEF ShapeInv, OnMessage
  <1>5. QED
    BY <1>1, <1>3, <1>4 DEF Has

LEMMA DemoKeeps ==
    ASSUME ShapeInv, DemoTick
    PROVE  \A n \in Nat : Has(n) => Has(n)'
  <1>1. PICK b \in BOOLEAN : Prepend(Example(b))
    BY DEF DemoTick
  <1>2. Example(b) \in Item /\ Example(b).result = 0
    BY AppAssumption DEF AppAssumption, Example, Item
  <1>3. /\ \/ Len(anomalies') = Keep
           \/ Results(anomalies') = Results(anomalies) \cup ({0} \ {0})
        /\ Len(anomalies) = Keep => Len(anomalies') = Keep
    BY <1>1, <1>2, PrependFacts DEF ShapeInv
  <1>4. QED
    BY <1>3 DEF Has

LEMMA ListStep == AppInv /\ [Next]_vars => (PendingInv /\ NoGap)'
  <1> SUFFICES ASSUME AppInv, [Next]_vars PROVE (PendingInv /\ NoGap)'
    OBVIOUS
  <1> USE DEF AppInv, feedVars, fetchVars, listVars
  <1>0. /\ Limit \in Nat \ {0} /\ stored \in Nat /\ base \in Nat
        /\ \A s \in Sockets : pos[s] \in Nat /\ early[s] \in Nat
        /\ covering \subseteq Sockets
    BY AppAssumption DEF AppAssumption, ShapeInv, CoveringInv
  <1>1. CASE UNCHANGED <<pos, fetch, base, anomalies, early>> /\ covering' \subseteq covering
    BY <1>1 DEF PendingInv, NoGap, Has, Results
  <1>2. CASE HandleList
    <2>1. ASSUME base' = 0, NEW s \in covering' PROVE pos'[s] = 0
      BY <1>0, <1>2, <2>1 DEF HandleList, ShapeInv
    <2>2. fetch' = "answered" /\ PendingInv'
      <3>1. \A s \in covering' : base' = 0 => 1..pos'[s] = {}
        BY <2>1
      <3>2. QED
        BY <1>2, <3>1 DEF HandleList, PendingInv
    <2>3. QED
      BY <2>2 DEF NoGap
  <1>3. ASSUME NEW s \in Sockets, OnMessage(s) PROVE (PendingInv /\ NoGap)'
    <2>1. \A n \in Nat : Has(n) \/ n = pos[s] + 1 => Has(n)'
      BY <1>3, MessageKeeps
    <2>2. /\ pos' = [pos EXCEPT ![s] = pos[s] + 1]
          /\ UNCHANGED <<fetch, base, covering, early>>
      BY <1>3 DEF OnMessage, F!Receive
    <2>3. ASSUME NEW t \in covering, NEW n \in 1..pos'[t]
          PROVE  n \in Nat /\ (n \in 1..pos[t] \/ Has(n)')
      <3>1. n \in Nat /\ (n \in 1..pos[t] \/ (t = s /\ n = pos[s] + 1))
        BY <1>0, <2>2 DEF ShapeInv
      <3>2. QED
        BY <2>1, <3>1
    <2>4. PendingInv'
      BY <2>1, <2>2, <2>3 DEF PendingInv
    <2>5. NoGap'
      BY <2>1, <2>2, <2>3 DEF NoGap, Has
    <2>6. QED
      BY <2>4, <2>5
  <1>4. CASE FetchResolves
    <2>1. /\ fetch = "answered" /\ fetch' = "over" /\ UNCHANGED <<pos, base, covering>>
          /\ base \in 0..MaxResults
      BY <1>4, AppAssumption DEF FetchResolves, ShapeInv, AppAssumption
    <2>2. /\ snapshot = <<>> <=> base = 0
          /\ \A n \in 1..base : n > base - Limit => n \in Results(snapshot)
      BY <2>1, SnapshotFacts DEF SnapshotInv
    <2>3. CASE base = 0
      <3>1. UNCHANGED <<anomalies, early>>
        BY <1>4, <2>2, <2>3 DEF FetchResolves
      <3>2. QED
        BY <2>1, <2>3, <3>1 DEF PendingInv, NoGap, Has, Results
    <2>4. CASE base # 0
      <3>1. anomalies' = snapshot /\ early' = pos
        BY <1>4, <2>2, <2>4 DEF FetchResolves
      <3>2. ASSUME NEW s \in covering, NEW n \in 1..pos[s], n > base - Limit
            PROVE  n \in Results(snapshot) \/ (n > base /\ n <= pos[s])
        BY <1>0, <2>2, <3>2
      <3>3. NoGap'
        BY <2>1, <3>1, <3>2 DEF NoGap, Results
      <3>4. QED
        BY <2>1, <3>3 DEF PendingInv
    <2>5. QED
      BY <2>3, <2>4
  <1>5. CASE FetchFails
    BY <1>5 DEF FetchFails, PendingInv, NoGap
  <1>6. CASE DemoTick
    <2>1. UNCHANGED <<pos, fetch, base, covering, early>> /\ \A n \in Nat : Has(n) => Has(n)'
      BY <1>6, DemoKeeps DEF DemoTick
    <2>2. \A s \in covering : \A n \in 1..pos[s] : n \in Nat
      BY <1>0
    <2>3. QED
      BY <2>1, <2>2 DEF PendingInv, NoGap, Has
  <1>7. ASSUME NEW s \in Sockets, Join(s) PROVE (PendingInv /\ NoGap)'
    <2>1. s \notin covering
      BY <1>7 DEF Join, F!Join, CoveringInv
    <2>2. /\ UNCHANGED <<fetch, base, covering, anomalies, early>>
          /\ \A t \in covering : pos'[t] = pos[t]
      BY <1>0, <1>7, <2>1 DEF Join, F!Join, ShapeInv
    <2>3. QED
      BY <2>2 DEF PendingInv, NoGap, Has, Results
  <1>8. CASE Store \/ ToggleDemo \/ Select \/ UNCHANGED vars \/ \E s \in Sockets : Leave(s)
    BY <1>1, <1>8 DEF Store, F!Store, ToggleDemo, Select, Leave, F!Leave, vars
  <1>9. QED
    BY <1>2, <1>3, <1>4, <1>5, <1>6, <1>7, <1>8 DEF Next

LEMMA AppInductive == Spec => []AppInv
  <1>1. AppInv /\ [Next]_vars => AppInv'
    BY ShapeStep, AnswerStep, ListStep DEF AppInv
  <1>2. QED
    BY <1>1, AppInit, PTL DEF Spec

-----------------------------------------------------------------------------
(* Theorems *)

\* REST answer and feed together leave no other gap than the known ones, for
\* any number of sockets and whatever comes first (App.tsx:20-38).
THEOREM NothingElseIsMissing == Spec => []NoGap
  BY AppInductive, PTL DEF AppInv
=============================================================================
