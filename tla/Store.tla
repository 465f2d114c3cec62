------------------------------- MODULE Store -------------------------------
(***************************************************************************)
(* The AnomalyStore of the gateway (services/gateway/internal/api/         *)
(* store.go): Add, HandleList, HandleGet and HandleStats around one        *)
(* RWMutex.                                                                *)
(*                                                                         *)
(* The slice is modelled with its memory: append writes into the backing   *)
(* array while it has room and moves to a larger one when it has not,      *)
(* while the pointers in byID go on pointing into the arrays left behind.  *)
(* The handlers hold the read lock until their answer is written.          *)
(*                                                                         *)
(* A result comes from the bridge's goroutine with the bridge's ID and a   *)
(* timestamp (main.go:41-60): Add's defaults for missing ones              *)
(* (store.go:52-57) are never used.  By itself the store is called with    *)
(* the numbers 1, 2, 3...; that the bridge does so is Gateway's matter.    *)
(***************************************************************************)
EXTENDS Integers, Sequences, SequencesExt, FiniteSets

CONSTANTS Handlers,    \* goroutines serving a REST request
          Limit,       \* results in a list (100)
          MaxResults,  \* bound of the model
          MaxSpare,    \* bound of the model: unused elements of a new array
          MaxTime      \* bound of the model: readings of the wall clock

ASSUME StoreAssumption ==
    Limit \in Nat /\ MaxResults \in Nat /\ MaxSpare \in Nat /\ MaxTime \in Nat

VARIABLES
    heap,     \* the backing arrays, the oldest first
    slice,    \* s.anomalies: the place of its array in heap, and its length
    byID,     \* ID -> pointer into an array
    adder,    \* the bridge's goroutine: "idle", or "lock" once it calls s.mu.Lock
    adding,   \* the result it adds
    handler,  \* per handler: "idle", "blocked" in s.mu.RLock, "reading" with the lock
    request,  \* what the handler was asked
    reply     \* the answer that the last step gave, if it gave one

memory == <<heap, slice, byID>>
vars == <<memory, adder, adding, handler, request, reply>>

Ids == 1..MaxResults
Result == [id : Ids, ts : 1..MaxTime, bad : BOOLEAN]
Blank == [id |-> 0]   \* an element of an array beyond the slice
Requests == [op : {"list", "stats"}] \cup [op : {"get"}, id : Ids]

NoRequest == [op |-> "none"]
NoReply   == [op |-> "none"]

Pointer == [array : 1..Len(heap), index : 1..MaxResults]

Deref(p) == heap[p.array][p.index]

\* The slice's elements.
Contents == SubSeq(heap[slice.array], 1, slice.len)

TypeOK ==
    /\ \A a \in DOMAIN heap : heap[a] \in Seq(Result \cup {Blank})
    /\ slice.array = Len(heap) /\ slice.len \in 0..Len(heap[slice.array])
    /\ DOMAIN byID \subseteq Ids
    /\ \A id \in DOMAIN byID : byID[id] \in Pointer
    /\ adder \in {"idle", "lock"} /\ adding \in Result \cup {Blank}
    /\ handler \in [Handlers -> {"idle", "blocked", "reading"}]
    /\ request \in [Handlers -> Requests \cup {NoRequest}]
    /\ reply.op \in {"none", "list", "get", "stats"}

\* make([]Anomaly, 0)
Init ==
    /\ heap = << <<>> >> /\ slice = [array |-> 1, len |-> 0] /\ byID = <<>>
    /\ adder = "idle" /\ adding = Blank
    /\ handler = [h \in Handlers |-> "idle"]
    /\ request = [h \in Handlers |-> NoRequest] /\ reply = NoReply

-----------------------------------------------------------------------------
(* Add *)

\* The bridge has the next result and calls Add: s.mu.Lock().  The clock
\* is the wall clock, which may be set back.
CallAdd(id, ts, bad) ==
    /\ adder = "idle" /\ slice.len < MaxResults
    /\ adder' = "lock"
    /\ adding' = [id |-> id, ts |-> ts, bad |-> bad]
    /\ reply' = NoReply
    /\ UNCHANGED <<memory, handler, request>>

Smaller(a, b) == IF a < b THEN a ELSE b

Room == slice.len < Len(heap[slice.array])

\* A larger array with the slice's elements and x, and unused elements.
Grown(x, capacity) ==
    [i \in 1..capacity |-> IF i <= slice.len THEN Contents[i]
                           ELSE IF i = slice.len + 1 THEN x ELSE Blank]

\* How much a new array has to spare is up to the runtime.
Capacities == slice.len + 1..Smaller(slice.len + 1 + MaxSpare, MaxResults)

\* s.anomalies = append(s.anomalies, a)
AppendResult(x) ==
    \/ /\ Room
       /\ heap' = [heap EXCEPT ![slice.array][slice.len + 1] = x]
       /\ slice' = [slice EXCEPT !.len = @ + 1]
    \/ /\ ~Room
       /\ \E capacity \in Capacities :
              heap' = Append(heap, Grown(x, capacity))
       /\ slice' = [array |-> Len(heap) + 1, len |-> slice.len + 1]

\* s.byID[a.ID] = &s.anomalies[len(s.anomalies)-1]
Index(id) ==
    byID' = [i \in DOMAIN byID \cup {id} |->
                IF i = id THEN [array |-> slice'.array, index |-> slice'.len] ELSE byID[i]]

\* Mutant: the unlock lets one reader in.
Unlock_WakesOne ==
    LET blocked == {h \in Handlers : handler[h] = "blocked"} IN
    handler' = [h \in Handlers |->
                   IF h \in blocked /\ h = CHOOSE b \in blocked : TRUE THEN "reading"
                   ELSE handler[h]]

\* s.mu.Unlock() lets the readers in that wait for it.
Unlock ==
    handler' = [h \in Handlers |-> IF handler[h] = "blocked" THEN "reading" ELSE handler[h]]

\* Mutant: append's slice is kept in a variable of Add's own.
Add_NotAssigned ==
    /\ adder = "lock" /\ adder' = "idle"
    /\ \A h \in Handlers : handler[h] # "reading"
    /\ heap' = IF Room THEN [heap EXCEPT ![slice.array][slice.len + 1] = adding]
                        ELSE Append(heap, Grown(adding, slice.len + 1))
    /\ byID' = (adding.id :> [array |-> Len(heap'), index |-> slice.len + 1]) @@ byID
    /\ Unlock /\ adding' = Blank /\ reply' = NoReply
    /\ UNCHANGED <<slice, request>>

\* Add, once the readers are out.
Add ==
    /\ adder = "lock" /\ adder' = "idle"
    /\ \A h \in Handlers : handler[h] # "reading"
    /\ AppendResult(adding) /\ Index(adding.id) /\ Unlock
    /\ adding' = Blank /\ reply' = NoReply
    /\ UNCHANGED request

-----------------------------------------------------------------------------
(* The handlers *)

\* s.mu.RLock(): a waiting Lock keeps new readers out.
Request(h, r) ==
    /\ handler[h] = "idle"
    /\ request' = [request EXCEPT ![h] = r]
    /\ handler' = [handler EXCEPT ![h] = IF adder = "lock" THEN "blocked" ELSE "reading"]
    /\ reply' = NoReply
    /\ UNCHANGED <<memory, adder, adding>>

\* The answer is written and s.mu.RUnlock() deferred to here.
Answer(h, op, r) ==
    /\ handler[h] = "reading" /\ request[h].op = op
    /\ handler' = [handler EXCEPT ![h] = "idle"]
    /\ request' = [request EXCEPT ![h] = NoRequest]
    /\ reply' = r
    /\ UNCHANGED <<adder, adding>>

\* The orders sort.Slice, which is not stable, may leave a copy in.
NewestFirst ==
    {s \in SetToSeqs(ToSet(Contents)) : \A i, j \in DOMAIN s : i < j => s[i].ts >= s[j].ts}

ListReply(sorted) ==
    [op |-> "list", items |-> SubSeq(sorted, 1, Smaller(Limit, Len(sorted))),
     total |-> slice.len]

\* Mutant: the slice itself is sorted.
HandleList_InPlace(h) ==
    \E sorted \in NewestFirst :
        /\ Answer(h, "list", ListReply(sorted))
        /\ heap' = [heap EXCEPT ![slice.array] =
                        [i \in DOMAIN @ |-> IF i <= slice.len THEN sorted[i] ELSE @[i]]]
        /\ UNCHANGED <<slice, byID>>

\* Mutant: the limit is taken before the sort.
HandleList_LimitFirst(h) ==
    \E sorted \in NewestFirst :
        /\ Answer(h, "list",
               [op |-> "list", total |-> slice.len,
                items |-> SelectSeq(sorted, LAMBDA r : r.id <= Limit)])
        /\ UNCHANGED memory

HandleList(h) ==
    \E sorted \in NewestFirst :
        /\ Answer(h, "list", ListReply(sorted))
        /\ UNCHANGED memory

\* {} is the 404 of an unknown ID.
HandleGet(h) ==
    LET id == request[h].id IN
    /\ Answer(h, "get",
           [op |-> "get", id |-> id,
            found |-> IF id \in DOMAIN byID THEN {Deref(byID[id])} ELSE {}])
    /\ UNCHANGED memory

HandleStats(h) ==
    /\ Answer(h, "stats",
           [op |-> "stats", total |-> slice.len,
            anomalous |-> Cardinality({i \in 1..slice.len : Contents[i].bad})])
    /\ UNCHANGED memory

\* Mutant: a server without a WriteTimeout.
WriteTimeout_Unset(h) == FALSE /\ UNCHANGED vars

\* The client does not take the answer: the write fails at the server's
\* WriteTimeout (main.go:101), and Encode's error is dropped.
WriteTimeout(h) ==
    /\ handler[h] = "reading"
    /\ handler' = [handler EXCEPT ![h] = "idle"]
    /\ request' = [request EXCEPT ![h] = NoRequest]
    /\ reply' = NoReply
    /\ UNCHANGED <<memory, adder, adding>>

-----------------------------------------------------------------------------
Finish(h) == HandleList(h) \/ HandleGet(h) \/ HandleStats(h) \/ WriteTimeout(h)

Next ==
    \/ \E ts \in 1..MaxTime, bad \in BOOLEAN : CallAdd(slice.len + 1, ts, bad)
    \/ Add
    \/ \E h \in Handlers : Finish(h)
    \/ \E h \in Handlers, r \in Requests : Request(h, r)

Spec == Init /\ [][Next]_vars

\* Nothing is assumed of the clients: a handler that does not get its answer
\* written runs into the WriteTimeout.
FairSpec == Spec /\ WF_vars(Add) /\ \A h \in Handlers : WF_vars(WriteTimeout(h))

-----------------------------------------------------------------------------
(* Properties *)

\* Every result can be had by its ID, whichever array its pointer is into:
\* the arrays that append leaves behind keep what they held (store.go:59-60).
IndexedIsStored ==
    /\ DOMAIN byID = {Contents[i].id : i \in 1..slice.len}
    /\ \A i \in 1..slice.len : Deref(byID[Contents[i].id]) = Contents[i]

\* Every answer is about all the results stored at one moment; a list has the
\* newest of them and leaves the order of arrival, which it sorts a copy of,
\* alone (store.go:68-79).
A == INSTANCE Archive WITH added <- Contents
ArchiveSpec == A!Spec

\* Whoever waits for the lock gets it: the bridge however many requests keep
\* coming and however slowly their clients read, a handler however many
\* results keep coming.
LockIsGranted ==
    /\ adder = "lock" ~> adder = "idle"
    /\ \A h \in Handlers : handler[h] = "blocked" ~> handler[h] # "blocked"
=============================================================================
