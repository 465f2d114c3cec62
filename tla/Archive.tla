------------------------------ MODULE Archive ------------------------------
(***************************************************************************)
(* What the REST side of the gateway owes its callers: every answer is     *)
(* about the results stored at one moment, all of them, and a list holds   *)
(* the newest ones.  Store.tla implements it.                              *)
(***************************************************************************)
EXTENDS Integers, Sequences, FiniteSets

CONSTANT Limit  \* results in a list

VARIABLES added,  \* the results, in the order of their arrival
          reply   \* the answer that the last step gave, if it gave one

NoReply == [op |-> "none"]

Stored == {added[i] : i \in DOMAIN added}

AtMost(a, b) == IF a < b THEN a ELSE b

\* The Limit newest by timestamp, the newest first; ties in any order.
IsNewest(s) ==
    LET shown == {s[i] : i \in DOMAIN s} IN
    /\ Len(s) = AtMost(Limit, Len(added)) /\ Cardinality(shown) = Len(s)
    /\ shown \subseteq Stored
    /\ \A i \in DOMAIN s : \A r \in Stored \ {s[j] : j \in 1..i} : r.ts <= s[i].ts

IsAnswer(r) ==
    \/ r.op = "list"  /\ IsNewest(r.items) /\ r.total = Len(added)
    \/ r.op = "get"   /\ r.found = {x \in Stored : x.id = r.id}
    \/ r.op = "stats" /\ r.total = Len(added)
                      /\ r.anomalous = Cardinality({x \in Stored : x.bad})

Init == added = <<>> /\ reply = NoReply

Add == /\ Len(added') = Len(added) + 1 /\ SubSeq(added', 1, Len(added)) = added
       /\ reply' = NoReply

Quiet == reply' = NoReply /\ UNCHANGED added

Answer == IsAnswer(reply') /\ UNCHANGED added

Next == Add \/ Quiet \/ Answer

Spec == Init /\ [][Next]_<<added, reply>>
=============================================================================
