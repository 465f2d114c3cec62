-------------------------------- MODULE Feed --------------------------------
(***************************************************************************)
(* What the gateway's live feed promises a dashboard, whatever the hub     *)
(* does with locks, channels and pumps.  Results are numbered as they are  *)
(* stored.  A client joins at a position not beyond what is stored (the    *)
(* results before it are in the store already, for GET /api/anomalies),    *)
(* and then gets the results that follow, each one once and in order, for  *)
(* as long as it stays.  It never learns of a result that is not stored.   *)
(***************************************************************************)
EXTENDS Naturals

CONSTANTS Clients, MaxMessages

VARIABLES stored,  \* results stored so far
          pos,     \* the last result the client knows of
          state    \* whether the client is yet to join, in, or out

vars == <<stored, pos, state>>

Init ==
    /\ stored = 0
    /\ pos = [c \in Clients |-> 0]
    /\ state = [c \in Clients |-> "new"]

Store ==
    /\ stored < MaxMessages /\ stored' = stored + 1
    /\ UNCHANGED <<pos, state>>

Join(c) ==
    /\ state[c] = "new"
    /\ state' = [state EXCEPT ![c] = "live"]
    /\ \E p \in 0..stored : pos' = [pos EXCEPT ![c] = p]
    /\ UNCHANGED stored

Receive(c) ==
    /\ state[c] = "live" /\ pos[c] < stored
    /\ pos' = [pos EXCEPT ![c] = @ + 1]
    /\ UNCHANGED <<stored, state>>

Leave(c) ==
    /\ state[c] = "live"
    /\ state' = [state EXCEPT ![c] = "left"]
    /\ UNCHANGED <<stored, pos>>

Next == Store \/ \E c \in Clients : Join(c) \/ Receive(c) \/ Leave(c)

Spec == Init /\ [][Next]_vars
=============================================================================
