-------------------------------- MODULE App --------------------------------
(***************************************************************************)
(* The dashboard's list of results (dashboard/src/App.tsx): it starts with *)
(* examples, is replaced by the answer of GET /api/anomalies once that is  *)
(* there, and grows by what the feed brings and by the demo stream.        *)
(*                                                                         *)
(* The gateway is its promises: a feed per socket as in Feed.tla, where    *)
(* pos is the last result that has come to the browser, and the newest     *)
(* results, which are the last stored unless the clock is set back, as the *)
(* answer.  The hook may have more than one socket.                        *)
(***************************************************************************)
EXTENDS Integers, Sequences

CONSTANTS Sockets,    \* the sockets of the hook, one after the other or together
          Keep,       \* length of the list (500)
          Limit,      \* length of the REST answer (100)
          MaxResults, \* bound of the model
          Bad         \* the results with is_anomalous

ASSUME AppAssumption ==
    /\ Keep \in Nat \ {0} /\ Limit \in Nat \ {0} /\ MaxResults \in Nat
    /\ Bad \subseteq 1..MaxResults

VARIABLES
    stored, pos, state,  \* the gateway and its feeds, as in Feed
    fetch,        \* "asked", "answered" or "over"
    snapshot,     \* the answer, until it is there
    base,         \* the results that were stored when it was given
    covering,     \* the sockets registered since before that
    anomalies,    \* the list
    selected,     \* the one that is shown in full
    simulating,   \* the demo stream is on
    early         \* the last result of each socket when the answer replaced the list

feedVars  == <<stored, pos, state>>
fetchVars == <<fetch, snapshot, base, covering>>
listVars  == <<anomalies, selected>>
vars == <<feedVars, fetchVars, listVars, simulating, early>>

F == INSTANCE Feed WITH Clients <- Sockets, MaxMessages <- MaxResults

Example(b) == [result |-> 0, bad |-> b]
Result(n)  == [result |-> n, bad |-> n \in Bad]

Results(items) == {items[i].result : i \in DOMAIN items} \ {0}

Init ==
    /\ F!Init
    /\ fetch = "asked" /\ snapshot = <<>> /\ base = 0 /\ covering = {}
    /\ anomalies = <<Example(TRUE)>> /\ selected = Example(TRUE)
    /\ simulating = FALSE /\ early = [s \in Sockets |-> 0]

-----------------------------------------------------------------------------
(* The gateway *)

Store ==
    /\ F!Store
    /\ UNCHANGED <<fetchVars, listVars, simulating, early>>

Join(s) ==
    /\ F!Join(s)
    /\ UNCHANGED <<fetchVars, listVars, simulating, early>>

Leave(s) ==
    /\ F!Leave(s) /\ covering' = covering \ {s}
    /\ UNCHANGED <<fetch, snapshot, base, listVars, simulating, early>>

\* HandleList: the newest results, the newest first.
HandleList ==
    /\ fetch = "asked" /\ fetch' = "answered"
    /\ snapshot' = [i \in 1..(IF stored < Limit THEN stored ELSE Limit) |-> Result(stored + 1 - i)]
    /\ base' = stored
    /\ covering' = {s \in Sockets : state[s] = "live"}
    /\ UNCHANGED <<feedVars, listVars, simulating, early>>

-----------------------------------------------------------------------------
(* App *)

\* The answer has arrived and takes the place of the list, whatever the feed
\* has brought meanwhile; an empty one changes nothing.
FetchResolves ==
    /\ fetch = "answered" /\ fetch' = "over" /\ snapshot' = <<>>
    /\ IF snapshot # <<>>
       THEN /\ anomalies' = snapshot /\ selected' = snapshot[1]
            /\ early' = pos
       ELSE UNCHANGED <<listVars, early>>
    /\ UNCHANGED <<feedVars, base, covering, simulating>>

\* No gateway, or no JSON: the examples stay.
FetchFails ==
    /\ fetch # "over" /\ fetch' = "over"
    /\ snapshot' = <<>> /\ covering' = {}
    /\ UNCHANGED <<feedVars, base, listVars, simulating, early>>

\* The new item on top, and selected if it is the first bad one.
Prepend(item) ==
    /\ anomalies' = SubSeq(<<item>> \o anomalies, 1,
                           IF Len(anomalies) < Keep THEN Len(anomalies) + 1 ELSE Keep)
    /\ selected' = IF item.bad /\ ~selected.bad THEN item ELSE selected

\* Mutant: nothing is taken from the feed before the list is loaded.
OnMessage_OnceLoaded(s) ==
    /\ F!Receive(s)
    /\ IF fetch = "over" THEN Prepend(Result(pos[s] + 1)) ELSE UNCHANGED listVars
    /\ UNCHANGED <<fetchVars, simulating, early>>

OnMessage(s) ==
    /\ F!Receive(s) /\ Prepend(Result(pos[s] + 1))
    /\ UNCHANGED <<fetchVars, simulating, early>>

\* generateMockAnomaly
DemoTick ==
    /\ simulating
    /\ \E b \in BOOLEAN : Prepend(Example(b))
    /\ UNCHANGED <<feedVars, fetchVars, simulating, early>>

ToggleDemo ==
    /\ simulating' = ~simulating
    /\ UNCHANGED <<feedVars, fetchVars, listVars, early>>

Select ==
    /\ \E i \in DOMAIN anomalies : selected' = anomalies[i]
    /\ UNCHANGED <<feedVars, fetchVars, anomalies, simulating, early>>

-----------------------------------------------------------------------------
Next ==
    \/ Store \/ HandleList
    \/ \E s \in Sockets : Join(s) \/ Leave(s) \/ OnMessage(s)
    \/ FetchResolves \/ FetchFails
    \/ DemoTick \/ ToggleDemo \/ Select

Spec == Init /\ [][Next]_vars

-----------------------------------------------------------------------------
(* Properties *)

\* A socket that is registered before the gateway answers the REST request and
\* stays brings, together with that answer, every result but the older ones
\* the answer had no room for: what has come is in the list, or has left it at
\* its end (App.tsx:38), or came so early that the answer, which was given
\* before it was stored, replaced the list it was in (App.tsx:25).
NoGap ==
    fetch = "over" =>
        \A s \in covering : \A n \in 1..pos[s] :
            n > base - Limit =>
                \/ n \in Results(anomalies)
                \/ Len(anomalies) = Keep
                \/ n > base /\ n <= early[s]
=============================================================================
