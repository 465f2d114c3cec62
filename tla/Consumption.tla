---------------------------- MODULE Consumption ----------------------------
(***************************************************************************)
(* What a consumer group owes the topic it reads.  The records that were   *)
(* dealt with at least once are a prefix of the topic; what is committed   *)
(* is a prefix of that one and never shrinks.  A record beyond the commit  *)
(* is delivered again after a restart, a record before it never is.        *)
(***************************************************************************)
EXTENDS Naturals

VARIABLES produced,  \* records in the topic
          settled,   \* records dealt with at least once
          committed  \* records the group will not be given again

vars == <<produced, settled, committed>>

Init == produced = 0 /\ settled = 0 /\ committed = 0

Produce ==
    /\ produced' = produced + 1
    /\ UNCHANGED <<settled, committed>>

Settle ==
    /\ settled' > settled /\ settled' <= produced
    /\ UNCHANGED <<produced, committed>>

Commit ==
    /\ committed' > committed /\ committed' <= settled
    /\ UNCHANGED <<produced, settled>>

Next == Produce \/ Settle \/ Commit

Spec == Init /\ [][Next]_vars
=============================================================================
