---------------------------- MODULE StoreProofs ----------------------------
(***************************************************************************)
(* Theorems about Store for any number of handlers and results, any limit  *)
(* and any growth of the slice.  MemoryInv is the inductive invariant: the *)
(* pointer of a result leads to a copy of it that is never written again,  *)
(* in whichever array it was left, because append only writes behind the   *)
(* last element of the last array.                                         *)
(***************************************************************************)
EXTENDS Store, SequenceTheorems, FiniteSetTheorems, TLAPS

Element == Result \cup {Blank}

\* The result with a given number in the slice's array.
Current(i) == heap[slice.array][i]

ShapeInv ==
    /\ heap \in Seq(Seq(Element)) /\ heap # <<>>
    /\ slice \in [array : Nat, len : Nat]
    /\ slice.array = Len(heap) /\ slice.len <= Len(heap[slice.array])
    /\ slice.len <= MaxResults
    /\ DOMAIN byID = 1..slice.len

MemoryInv ==
    \A i \in 1..slice.len :
        /\ Current(i) \in Result /\ Current(i).id = i
        /\ byID[i] \in [array : 1..Len(heap), index : {i}]
        /\ i <= Len(heap[byID[i].array])
        /\ Deref(byID[i]) = Current(i)

CallerInv ==
    /\ adder \in {"idle", "lock"} /\ adding \in Result \cup {Blank}
    /\ adder = "lock" => adding \in Result /\ adding.id = slice.len + 1
    /\ handler \in [Handlers -> {"idle", "blocked", "reading"}]
    /\ request \in [Handlers -> Requests \cup {NoRequest}]
    /\ reply.op \in {"none", "list", "get", "stats"}

StoreInv == ShapeInv /\ MemoryInv /\ CallerInv

-----------------------------------------------------------------------------
(* The memory of the slice *)

\* The first n elements of an array.
LEMMA PrefixFacts ==
    ASSUME NEW R, NEW array, NEW n \in Nat, \A i \in 1..n : array[i] \in R
    PROVE  /\ SubSeq(array, 1, n) \in Seq(R) /\ Len(SubSeq(array, 1, n)) = n
           /\ DOMAIN SubSeq(array, 1, n) = 1..n
           /\ \A i \in 1..n : SubSeq(array, 1, n)[i] = array[i]
  <1>1. /\ SubSeq(array, 1, n) \in Seq(R)
        /\ Len(SubSeq(array, 1, n)) = IF 1 <= n THEN n - 1 + 1 ELSE 0
        /\ \A i \in 1..n - 1 + 1 : SubSeq(array, 1, n)[i] = array[1 + i - 1]
    BY SubSeqProperties
  <1>2. QED
    BY <1>1

LEMMA ContentsFacts ==
    ASSUME ShapeInv, MemoryInv
    PROVE  /\ Contents \in Seq(Result) /\ Len(Contents) = slice.len
           /\ DOMAIN Contents = 1..slice.len
           /\ \A i \in 1..slice.len : Contents[i] = Current(i) /\ Contents[i].id = i
  BY PrefixFacts DEF ShapeInv, MemoryInv, Contents, Current

\* A larger array is a sequence that starts with what the slice has.
LEMMA GrownFacts ==
    ASSUME ShapeInv, MemoryInv, NEW x \in Result, NEW capacity \in Capacities
    PROVE  /\ Grown(x, capacity) \in Seq(Element)
           /\ Len(Grown(x, capacity)) = capacity /\ slice.len < capacity
           /\ Grown(x, capacity)[slice.len + 1] = x
           /\ \A i \in 1..slice.len : Grown(x, capacity)[i] = Current(i)
  <1>1. slice.len \in Nat /\ capacity \in Nat /\ slice.len < capacity
    BY StoreAssumption DEF StoreAssumption, ShapeInv, Capacities, Smaller
  <1>2. \A i \in 1..slice.len : Contents[i] = Current(i) /\ Contents[i] \in Result
    BY ContentsFacts DEF MemoryInv
  <1>3. \A i \in 1..capacity : Grown(x, capacity)[i] \in Element
    BY <1>1, <1>2 DEF Grown, Element
  <1>4. Grown(x, capacity) \in [1..capacity -> Element]
    BY <1>3 DEF Grown
  <1>5. QED
    BY <1>1, <1>2, <1>4 DEF Grown

\* What append leaves as it was: every array's elements but the first free one
\* of the slice's.
LEMMA AppendFacts ==
    ASSUME ShapeInv, MemoryInv, NEW x \in Result, AppendResult(x), slice.len < MaxResults
    PROVE  /\ heap' \in Seq(Seq(Element)) /\ heap' # <<>> /\ Len(heap) <= Len(heap')
           /\ slice' \in [array : Nat, len : Nat]
           /\ slice'.array = Len(heap') /\ slice'.len = slice.len + 1
           /\ slice'.len <= Len(heap'[slice'.array])
           /\ heap'[slice'.array][slice'.len] = x
           /\ \A i \in 1..slice.len : heap'[slice'.array][i] = Current(i)
           /\ \A a \in 1..Len(heap) :
                 /\ Len(heap'[a]) = Len(heap[a])
                 /\ \A i \in 1..slice.len : heap'[a][i] = heap[a][i]
  <1> USE DEF ShapeInv
  <1>1. /\ slice.array \in 1..Len(heap) /\ slice.len \in Nat /\ Len(heap) \in Nat
        /\ \A a \in 1..Len(heap) : heap[a] \in Seq(Element)
    OBVIOUS
  <1>2. CASE /\ Room
             /\ heap' = [heap EXCEPT ![slice.array][slice.len + 1] = x]
             /\ slice' = [slice EXCEPT !.len = @ + 1]
    <2> DEFINE old == heap[slice.array]
               new == [old EXCEPT ![slice.len + 1] = x]
    <2>1. old \in Seq(Element) /\ slice.len + 1 \in 1..Len(old) /\ x \in Element
      BY <1>1, <1>2 DEF Room, Element
    <2>2. /\ new \in Seq(Element) /\ Len(new) = Len(old)
          /\ \A i \in 1..Len(old) : new[i] = IF i = slice.len + 1 THEN x ELSE old[i]
      BY <2>1, ExceptSeq
    <2>3. heap' = [heap EXCEPT ![slice.array] = new]
      BY <1>2
    <2> HIDE DEF new
    <2>4. /\ heap' \in Seq(Seq(Element)) /\ Len(heap') = Len(heap)
          /\ \A a \in 1..Len(heap) : heap'[a] = IF a = slice.array THEN new ELSE heap[a]
      BY <1>1, <2>2, <2>3, ExceptSeq
    <2>5. slice' = [array |-> slice.array, len |-> slice.len + 1]
      BY <1>2
    <2>6. slice'.array = slice.array /\ slice'.len = slice.len + 1
      BY <2>5
    <2>7. /\ heap' # <<>> /\ heap'[slice.array] = new
          /\ slice' \in [array : Nat, len : Nat]
      BY <1>1, <2>4, <2>5
    <2>8. new[slice.len + 1] = x /\ \A i \in 1..slice.len : new[i] = Current(i)
      BY <1>1, <2>1, <2>2 DEF Current
    <2>9. \A a \in 1..Len(heap) : /\ Len(heap'[a]) = Len(heap[a])
                                  /\ \A i \in 1..slice.len : heap'[a][i] = heap[a][i]
      BY <1>1, <2>2, <2>4, <2>8 DEF Current
    <2>10. QED
      BY <1>1, <2>1, <2>2, <2>4, <2>6, <2>7, <2>8, <2>9
  <1>3. CASE /\ \E capacity \in Capacities : heap' = Append(heap, Grown(x, capacity))
             /\ slice' = [array |-> Len(heap) + 1, len |-> slice.len + 1]
    <2>1. PICK capacity \in Capacities : heap' = Append(heap, Grown(x, capacity))
      BY <1>3
    <2> DEFINE new == Grown(x, capacity)
    <2>2. /\ new \in Seq(Element) /\ slice.len + 1 <= Len(new) /\ new[slice.len + 1] = x
          /\ \A i \in 1..slice.len : new[i] = Current(i)
      BY <1>1, GrownFacts DEF Capacities
    <2>3. heap' = Append(heap, new)
      BY <2>1
    <2> HIDE DEF new
    <2>4. /\ heap' \in Seq(Seq(Element)) /\ Len(heap') = Len(heap) + 1 /\ heap' # <<>>
          /\ heap'[Len(heap) + 1] = new /\ \A a \in 1..Len(heap) : heap'[a] = heap[a]
      BY <2>2, <2>3, AppendProperties
    <2>5. QED
      BY <1>1, <1>3, <2>2, <2>4
  <1>4. QED
    BY <1>2, <1>3 DEF AppendResult
-----------------------------------------------------------------------------
(* The inductive step *)

LEMMA StoreInit == Init => StoreInv
  <1> SUFFICES ASSUME Init PROVE StoreInv
    OBVIOUS
  <1>1. /\ heap = << <<>> >> /\ slice = [array |-> 1, len |-> 0] /\ byID = <<>>
        /\ MaxResults \in Nat
    BY StoreAssumption DEF Init, StoreAssumption
  <1>2. heap \in Seq(Seq(Element)) /\ Len(heap) = 1 /\ Len(heap[1]) = 0 /\ heap # <<>>
    <2>1. <<>> \in Seq(Element) /\ Len(<<>>) = 0
      OBVIOUS
    <2>2. QED
      BY <1>1, <2>1
  <1>3. ShapeInv
    BY <1>1, <1>2 DEF ShapeInv
  <1>4. MemoryInv
    BY <1>1 DEF MemoryInv
  <1>5. CallerInv
    BY DEF Init, CallerInv, NoReply
  <1>6. QED
    BY <1>3, <1>4, <1>5 DEF StoreInv

\* Add: the pointers keep what they point to, and there is one more.
LEMMA AddStep ==
    ASSUME StoreInv, Add
    PROVE  ShapeInv' /\ MemoryInv'
  <1> USE DEF StoreInv
  <1>1. /\ adding \in Result /\ adding.id = slice.len + 1 /\ slice.len \in Nat
        /\ slice.len < MaxResults /\ MaxResults \in Nat
    BY StoreAssumption DEF StoreAssumption, Add, CallerInv, ShapeInv, Result, Ids
  <1> DEFINE x == adding
  <1>2. AppendResult(x) /\ Index(x.id)
    BY DEF Add
  <1>3. /\ heap' \in Seq(Seq(Element)) /\ heap' # <<>> /\ Len(heap) <= Len(heap')
        /\ slice' \in [array : Nat, len : Nat]
        /\ slice'.array = Len(heap') /\ slice'.len = slice.len + 1
        /\ slice'.len <= Len(heap'[slice'.array])
        /\ heap'[slice'.array][slice'.len] = x
        /\ \A i \in 1..slice.len : heap'[slice'.array][i] = Current(i)
        /\ \A a \in 1..Len(heap) :
              /\ Len(heap'[a]) = Len(heap[a])
              /\ \A i \in 1..slice.len : heap'[a][i] = heap[a][i]
    BY <1>1, <1>2, AppendFacts
  <1>4. /\ DOMAIN byID' = 1..slice.len + 1
        /\ byID'[slice.len + 1] = [array |-> slice'.array, index |-> slice.len + 1]
        /\ \A i \in 1..slice.len : byID'[i] = byID[i]
    BY <1>1, <1>2, <1>3 DEF Index, ShapeInv
  <1>5. ShapeInv'
    <2>1. DOMAIN byID' = 1..slice'.len /\ slice'.len <= MaxResults
      BY <1>1, <1>3, <1>4
    <2>2. QED
      BY <1>3, <2>1 DEF ShapeInv
  <1>6. ASSUME NEW i \in 1..slice.len
        PROVE  /\ Current(i)' = Current(i) /\ byID'[i] = byID[i]
               /\ byID[i] \in [array : 1..Len(heap'), index : {i}]
               /\ i <= Len(heap'[byID[i].array])
               /\ Deref(byID[i])' = Current(i)
    <2>1. /\ byID[i] \in [array : 1..Len(heap), index : {i}]
          /\ i <= Len(heap[byID[i].array]) /\ heap[byID[i].array][byID[i].index] = Current(i)
      BY DEF MemoryInv, Deref
    <2>2. /\ byID[i].array \in 1..Len(heap) /\ byID[i].index = i
          /\ Len(heap) \in Nat /\ Len(heap') \in Nat
      BY <1>3, <2>1 DEF ShapeInv
    <2>3. byID'[i] = byID[i] /\ Current(i)' = Current(i)
      BY <1>3, <1>4 DEF Current
    <2>4. byID[i] \in [array : 1..Len(heap'), index : {i}]
      BY <1>3, <2>1, <2>2
    <2>5. QED
      BY <1>3, <2>1, <2>2, <2>3, <2>4 DEF Deref
  <1>7. PICK n \in Nat : n = slice.len + 1
    BY <1>1
  <1>8. /\ Current(n)' = x /\ byID'[n] \in [array : 1..Len(heap'), index : {n}]
        /\ n <= Len(heap'[byID'[n].array]) /\ Deref(byID[n])' = x
    <2>1. slice'.array \in 1..Len(heap')
      BY <1>3
    <2>2. /\ byID'[n] = [array |-> slice'.array, index |-> n] /\ slice'.len = n
          /\ byID'[n].array = slice'.array /\ byID'[n].index = n
      BY <1>3, <1>4, <1>7
    <2>3. QED
      BY <1>3, <2>1, <2>2 DEF Current, Deref
  <1>9. MemoryInv'
    <2> SUFFICES ASSUME NEW i \in 1..slice'.len
                 PROVE  /\ Current(i)' \in Result /\ Current(i)'.id = i
                        /\ byID'[i] \in [array : 1..Len(heap'), index : {i}]
                        /\ i <= Len(heap'[byID'[i].array])
                        /\ Deref(byID[i])' = Current(i)'
      BY DEF MemoryInv
    <2>1. CASE i = n
      BY <1>1, <1>7, <1>8, <2>1
    <2>2. CASE i \in 1..slice.len
      BY <1>6, <2>2 DEF MemoryInv
    <2>3. QED
      BY <1>1, <1>3, <1>7, <2>1, <2>2
  <1>10. QED
    BY <1>5, <1>9

LEMMA CallerStep == StoreInv /\ [Next]_vars => CallerInv'
  <1> SUFFICES ASSUME StoreInv, [Next]_vars PROVE CallerInv'
    OBVIOUS
  <1> USE DEF StoreInv, CallerInv, memory, NoReply
  <1>1. ASSUME NEW ts \in 1..MaxTime, NEW bad \in BOOLEAN, CallAdd(slice.len + 1, ts, bad)
        PROVE  CallerInv'
    <2>1. slice.len + 1 \in Ids
      BY <1>1, StoreAssumption DEF CallAdd, ShapeInv, Ids, StoreAssumption
    <2>2. adding' \in Result /\ adding'.id = slice.len + 1
      BY <1>1, <2>1 DEF CallAdd, Result
    <2>3. QED
      BY <1>1, <2>2 DEF CallAdd
  <1>2. CASE Add
    BY <1>2 DEF Add, Unlock
  <1>3. ASSUME NEW h \in Handlers, NEW op, NEW r, Answer(h, op, r), UNCHANGED memory,
               r.op \in {"list", "get", "stats"}
        PROVE  CallerInv'
    BY <1>3 DEF Answer
  <1>4. ASSUME NEW h \in Handlers, Finish(h) PROVE CallerInv'
    <2>1. CASE HandleList(h)
      BY <1>3, <2>1 DEF HandleList, ListReply
    <2>2. CASE HandleGet(h)
      BY <1>3, <2>2 DEF HandleGet
    <2>3. CASE HandleStats(h)
      BY <1>3, <2>3 DEF HandleStats
    <2>4. CASE WriteTimeout(h)
      BY <2>4 DEF WriteTimeout
    <2>5. QED
      BY <1>4, <2>1, <2>2, <2>3, <2>4 DEF Finish
  <1>5. ASSUME NEW h \in Handlers, NEW r \in Requests, Request(h, r) PROVE CallerInv'
    BY <1>5 DEF Request
  <1>6. CASE UNCHANGED vars
    BY <1>6 DEF vars
  <1>7. QED
    BY <1>1, <1>2, <1>4, <1>5, <1>6 DEF Next

LEMMA StoreStep == StoreInv /\ [Next]_vars => StoreInv'
  <1> SUFFICES ASSUME StoreInv, [Next]_vars PROVE StoreInv'
    OBVIOUS
  <1>1. CallerInv'
    BY CallerStep
  <1>2. CASE Add
    BY <1>1, <1>2, AddStep DEF StoreInv
  <1>3. CASE UNCHANGED memory
    BY <1>1, <1>3 DEF StoreInv, ShapeInv, MemoryInv, Current, Deref, memory
  <1>4. Add \/ UNCHANGED memory
    BY DEF Next, CallAdd, Finish, HandleList, HandleGet, HandleStats, WriteTimeout, Request,
       vars
  <1>5. QED
    BY <1>2, <1>3, <1>4

LEMMA StoreInductive == Spec => []StoreInv
  BY StoreInit, StoreStep, PTL DEF Spec

-----------------------------------------------------------------------------
(* Theorems *)

\* Types; a pointer leads into an array that exists.
THEOREM TypeCorrect == Spec => []TypeOK
  <1>1. StoreInv => TypeOK
    <2> SUFFICES ASSUME StoreInv PROVE TypeOK
      OBVIOUS
    <2>1. /\ heap \in Seq(Seq(Element)) /\ slice.array = Len(heap)
          /\ slice.array \in 1..Len(heap) /\ slice.len \in Nat /\ MaxResults \in Nat
          /\ slice.len <= MaxResults
      BY StoreAssumption DEF StoreAssumption, StoreInv, ShapeInv
    <2>2. \A a \in DOMAIN heap : heap[a] \in Seq(Result \cup {Blank})
      BY <2>1 DEF Element
    <2>3. slice.len \in 0..Len(heap[slice.array])
      <3>1. heap[slice.array] \in Seq(Element)
        BY <2>1
      <3>2. QED
        BY <2>1, <3>1 DEF StoreInv, ShapeInv
    <2>4. DOMAIN byID = 1..slice.len /\ DOMAIN byID \subseteq Ids
      BY <2>1 DEF StoreInv, ShapeInv, Ids
    <2>5. \A id \in DOMAIN byID : byID[id] \in Pointer
      BY <2>1, <2>4 DEF StoreInv, MemoryInv, Pointer
    <2>6. QED
      BY <2>1, <2>2, <2>3, <2>4, <2>5 DEF StoreInv, CallerInv, TypeOK
  <1>2. QED
    BY <1>1, StoreInductive, PTL

\* Whatever append does with the slice's memory, a result can be had by its ID
\* (store.go:59-60).
THEOREM IndexAgrees == Spec => []IndexedIsStored
  <1>1. StoreInv => IndexedIsStored
    <2> SUFFICES ASSUME StoreInv PROVE IndexedIsStored
      OBVIOUS
    <2>1. /\ DOMAIN byID = 1..slice.len
          /\ \A i \in 1..slice.len : Contents[i] = Current(i) /\ Contents[i].id = i
      BY ContentsFacts DEF StoreInv, ShapeInv
    <2>2. \A i \in 1..slice.len : Deref(byID[i]) = Current(i)
      BY DEF StoreInv, MemoryInv
    <2>3. QED
      BY <2>1, <2>2 DEF IndexedIsStored
  <1>2. QED
    BY <1>1, StoreInductive, PTL

-----------------------------------------------------------------------------
(* What the answers say *)

\* The cardinality Archive speaks of.
LEMMA SameCardinality == \A T : A!Cardinality(T) = Cardinality(T)
  BY DEF A!Cardinality, Cardinality

\* A function with different values has as many as arguments.
LEMMA ImageFacts ==
    ASSUME NEW D, IsFiniteSet(D), NEW f, DOMAIN f = D,
           \A i, j \in D : i # j => f[i] # f[j]
    PROVE  /\ IsFiniteSet({f[i] : i \in D})
           /\ Cardinality({f[i] : i \in D}) = Cardinality(D)
  <1> DEFINE T == {f[i] : i \in D}
             g == [i \in D |-> f[i]]
  <1>1. g \in [D -> T]
    OBVIOUS
  <1>2. g \in Injection(D, T)
    BY <1>1 DEF Injection, IsInjective
  <1>3. g \in Surjection(D, T)
    BY <1>1 DEF Surjection
  <1>4. ExistsBijection(D, T)
    BY <1>2, <1>3 DEF ExistsBijection, Bijection
  <1>5. QED
    BY <1>4, FS_Bijection

\* As many results as the slice is long.
LEMMA StoredFacts ==
    ASSUME ShapeInv, MemoryInv
    PROVE  /\ A!Stored = {Contents[i] : i \in 1..slice.len} /\ A!Stored \subseteq Result
           /\ IsFiniteSet(A!Stored) /\ Cardinality(A!Stored) = slice.len
  <1>1. /\ DOMAIN Contents = 1..slice.len /\ slice.len \in Nat
        /\ \A i \in 1..slice.len : Contents[i].id = i /\ Contents[i] \in Result
    BY ContentsFacts DEF ShapeInv, MemoryInv
  <1>2. A!Stored = {Contents[i] : i \in 1..slice.len} /\ A!Stored \subseteq Result
    BY <1>1 DEF A!Stored
  <1>3. IsFiniteSet(1..slice.len) /\ Cardinality(1..slice.len) = slice.len
    BY <1>1, FS_Interval
  <1>4. \A i, j \in 1..slice.len : i # j => Contents[i] # Contents[j]
    BY <1>1
  <1>5. QED
    BY <1>1, <1>2, <1>3, <1>4, ImageFacts

\* A sorted copy has every result once.
LEMMA SortedFacts ==
    ASSUME ShapeInv, MemoryInv, NEW sorted \in NewestFirst
    PROVE  /\ sorted \in [1..slice.len -> A!Stored] /\ Len(sorted) = slice.len
           /\ \A i, j \in 1..slice.len : i # j => sorted[i] # sorted[j]
           /\ \A r \in A!Stored : \E i \in 1..slice.len : sorted[i] = r
           /\ \A i, j \in 1..slice.len : i < j => sorted[i].ts >= sorted[j].ts
  <1>0. slice.len \in Nat
    BY DEF ShapeInv
  <1>1. ToSet(Contents) = A!Stored
    BY DEF ToSet, A!Stored
  <1>2. IsFiniteSet(A!Stored) /\ Cardinality(A!Stored) = slice.len
    BY StoredFacts
  <1>3. /\ sorted \in [1..slice.len -> A!Stored]
        /\ \A i, j \in 1..slice.len : i # j => sorted[i] # sorted[j]
        /\ \A i, j \in DOMAIN sorted : i < j => sorted[i].ts >= sorted[j].ts
    BY <1>1, <1>2 DEF NewestFirst, SetToSeqs
  <1>4. sorted \in Injection(1..slice.len, A!Stored)
    BY <1>3 DEF Injection, IsInjective
  <1>5. IsFiniteSet(1..slice.len) /\ Cardinality(1..slice.len) = slice.len
    BY <1>0, FS_Interval
  <1>6. sorted \in Surjection(1..slice.len, A!Stored)
    BY <1>2, <1>4, <1>5, FS_Injection
  <1>7. \A r \in A!Stored : \E i \in 1..slice.len : sorted[i] = r
    BY <1>6 DEF Surjection
  <1>8. Len(sorted) = slice.len /\ DOMAIN sorted = 1..slice.len
    BY <1>0, <1>3
  <1>9. QED
    BY <1>3, <1>7, <1>8

\* Its first elements are the newest results.
LEMMA ListIsNewest ==
    ASSUME ShapeInv, MemoryInv, NEW sorted \in NewestFirst
    PROVE  A!IsNewest(SubSeq(sorted, 1, Smaller(Limit, Len(sorted))))
  <1> DEFINE n == slice.len
             k == Smaller(Limit, Len(sorted))
             items == SubSeq(sorted, 1, k)
             shown == {items[i] : i \in 1..k}
  <1>1. n \in Nat /\ Limit \in Nat /\ Len(Contents) = n
    BY StoreAssumption, ContentsFacts DEF StoreAssumption, ShapeInv
  <1>2. /\ sorted \in [1..n -> A!Stored] /\ Len(sorted) = n
        /\ \A i, j \in 1..n : i # j => sorted[i] # sorted[j]
        /\ \A r \in A!Stored : \E i \in 1..n : sorted[i] = r
        /\ \A i, j \in 1..n : i < j => sorted[i].ts >= sorted[j].ts
    BY SortedFacts
  <1>3. k \in Nat /\ k <= n /\ k = A!AtMost(Limit, Len(Contents))
    BY <1>1, <1>2 DEF Smaller, A!AtMost
  <1> HIDE DEF k
  <1>4. /\ Len(items) = k /\ DOMAIN items = 1..k
        /\ \A i \in 1..k : items[i] = sorted[i] /\ items[i] \in A!Stored
    BY <1>1, <1>2, <1>3, PrefixFacts
  <1> HIDE DEF items
  <1>5. Cardinality(shown) = Len(items) /\ shown \subseteq A!Stored
    <2>1. IsFiniteSet(1..k) /\ Cardinality(1..k) = k
      BY <1>3, FS_Interval
    <2>2. \A i, j \in 1..k : i # j => items[i] # items[j]
      BY <1>1, <1>2, <1>3, <1>4
    <2>3. QED
      BY <1>4, <2>1, <2>2, ImageFacts
  <1>6. ASSUME NEW i \in 1..k, NEW r \in A!Stored \ {items[j] : j \in 1..i}
        PROVE  r.ts <= items[i].ts
    <2>1. PICK m \in 1..n : sorted[m] = r
      BY <1>2
    <2>2. m > i
      BY <1>3, <1>4, <2>1
    <2>3. r.ts \in Int /\ sorted[i].ts \in Int
      <3>1. r \in Result /\ sorted[i] \in Result
        BY <1>1, <1>2, <1>3, StoredFacts
      <3>2. QED
        BY <3>1 DEF Result
    <2>4. QED
      BY <1>2, <1>3, <1>4, <2>1, <2>2, <2>3
  <1>7. A!IsNewest(items)
    BY <1>3, <1>4, <1>5, <1>6, SameCardinality DEF A!IsNewest
  <1>8. QED
    BY <1>7 DEF items, k

\* The count of the bad ones.
LEMMA BadFacts ==
    ASSUME ShapeInv, MemoryInv
    PROVE  Cardinality({i \in 1..slice.len : Contents[i].bad})
               = Cardinality({x \in A!Stored : x.bad})
  <1> DEFINE D == {i \in 1..slice.len : Contents[i].bad}
             f == [i \in D |-> Contents[i]]
  <1>1. slice.len \in Nat /\ \A i \in 1..slice.len : Contents[i].id = i
    BY ContentsFacts DEF ShapeInv
  <1>2. IsFiniteSet(D)
    BY <1>1, FS_Interval, FS_Subset
  <1>3. {f[i] : i \in D} = {x \in A!Stored : x.bad}
    BY StoredFacts
  <1>4. DOMAIN f = D /\ \A i, j \in D : i # j => f[i] # f[j]
    BY <1>1
  <1> HIDE DEF f
  <1>5. Cardinality({f[i] : i \in D}) = Cardinality(D)
    BY <1>2, <1>4, ImageFacts
  <1>6. QED
    BY <1>3, <1>5

-----------------------------------------------------------------------------
(* Store implements Archive *)

LEMMA AnswerStep ==
    ASSUME StoreInv, NEW h \in Handlers, HandleList(h) \/ HandleGet(h) \/ HandleStats(h)
    PROVE  A!IsAnswer(reply') /\ UNCHANGED memory
  <1> USE DEF StoreInv
  <1>1. Len(Contents) = slice.len
    BY ContentsFacts
  <1>2. CASE HandleList(h)
    <2>1. PICK sorted \in NewestFirst : reply' = ListReply(sorted) /\ UNCHANGED memory
      BY <1>2 DEF HandleList, Answer
    <2>2. A!IsNewest(reply'.items)
      BY <2>1, ListIsNewest DEF ListReply
    <2>3. QED
      BY <1>1, <2>1, <2>2 DEF ListReply, A!IsAnswer
  <1>3. CASE HandleGet(h)
    <2> DEFINE id == request[h].id
               found == IF id \in DOMAIN byID THEN {Deref(byID[id])} ELSE {}
    <2>1. /\ reply' = [op |-> "get", id |-> id, found |-> found] /\ UNCHANGED memory
      BY <1>3 DEF HandleGet, Answer
    <2>2. /\ A!Stored = {Contents[i] : i \in 1..slice.len} /\ DOMAIN byID = 1..slice.len
          /\ \A i \in 1..slice.len : Contents[i].id = i /\ Contents[i] = Deref(byID[i])
      BY StoredFacts, ContentsFacts DEF ShapeInv, MemoryInv
    <2>3. found = {x \in A!Stored : x.id = id}
      BY <2>2
    <2> HIDE DEF id, found
    <2>4. QED
      BY <2>1, <2>3 DEF A!IsAnswer
  <1>4. CASE HandleStats(h)
    BY <1>1, <1>4, BadFacts, SameCardinality DEF HandleStats, Answer, A!IsAnswer
  <1>5. QED
    BY <1>2, <1>3, <1>4

LEMMA ArchiveStep ==
    StoreInv /\ [Next]_vars => [A!Next]_<<Contents, reply>>
  <1> SUFFICES ASSUME StoreInv, [Next]_vars PROVE [A!Next]_<<Contents, reply>>
    OBVIOUS
  <1> USE DEF A!Next, A!Quiet, A!NoReply, NoReply
  <1>1. ASSUME UNCHANGED memory PROVE Contents' = Contents
    BY <1>1 DEF memory, Contents
  <1>2. CASE Add
    <2>1. /\ slice'.len = slice.len + 1 /\ slice.len \in Nat /\ reply' = NoReply
          /\ \A i \in 1..slice.len + 1 : Current(i)' \in Result
          /\ \A i \in 1..slice.len : Current(i)' = Current(i)
      <3>1. adding \in Result /\ slice.len < MaxResults /\ AppendResult(adding)
        BY <1>2, StoreAssumption
           DEF StoreAssumption, Add, StoreInv, CallerInv, ShapeInv, Result, Ids
      <3>2. /\ slice'.len = slice.len + 1
            /\ \A i \in 1..slice.len : heap'[slice'.array][i] = Current(i)
        BY <3>1, AppendFacts DEF StoreInv
      <3>3. MemoryInv'
        BY <1>2, AddStep
      <3>4. QED
        BY <1>2, <3>2, <3>3 DEF Add, MemoryInv, StoreInv, ShapeInv, Current
    <2>2. /\ Contents' \in Seq(Result) /\ Len(Contents') = slice.len + 1
          /\ \A i \in 1..slice.len + 1 : Contents'[i] = Current(i)'
      BY <2>1, PrefixFacts DEF Contents, Current
    <2>3. /\ Contents \in Seq(Result) /\ Len(Contents) = slice.len
          /\ \A i \in 1..slice.len : Contents[i] = Current(i)
      BY ContentsFacts DEF StoreInv
    <2>4. SubSeq(Contents', 1, Len(Contents)) = Contents
      <3>1. /\ SubSeq(Contents', 1, slice.len) \in Seq(Result)
            /\ Len(SubSeq(Contents', 1, slice.len)) = slice.len
            /\ \A i \in 1..slice.len : SubSeq(Contents', 1, slice.len)[i] = Contents'[i]
        BY <2>1, <2>2, PrefixFacts
      <3>2. QED
        BY <2>1, <2>2, <2>3, <3>1, SeqEqual
    <2>5. QED
      BY <2>1, <2>2, <2>3, <2>4 DEF A!Add
  <1>3. ASSUME NEW h \in Handlers, Finish(h) PROVE [A!Next]_<<Contents, reply>>
    <2>1. CASE WriteTimeout(h)
      BY <1>1, <2>1 DEF WriteTimeout
    <2>2. CASE HandleList(h) \/ HandleGet(h) \/ HandleStats(h)
      BY <1>1, <2>2, AnswerStep DEF A!Answer
    <2>3. QED
      BY <1>3, <2>1, <2>2 DEF Finish
  <1>4. CASE \/ \E ts \in 1..MaxTime, bad \in BOOLEAN : CallAdd(slice.len + 1, ts, bad)
             \/ \E h \in Handlers, r \in Requests : Request(h, r)
    BY <1>1, <1>4 DEF CallAdd, Request
  <1>5. CASE UNCHANGED vars
    BY <1>1, <1>5 DEF vars
  <1>6. QED
    BY <1>2, <1>3, <1>4, <1>5 DEF Next

\* Every answer of the REST side is about one moment, whatever the slice's
\* memory looked like then (store.go:68-132).
THEOREM StoreImplementsArchive == Spec => ArchiveSpec
  <1>1. Init => A!Init
    <2> SUFFICES ASSUME Init PROVE A!Init
      OBVIOUS
    <2>1. Contents = SubSeq(<<>>, 1, 0)
      BY DEF Init, Contents
    <2>2. Contents = <<>>
      BY <2>1
    <2>3. QED
      BY <2>2 DEF Init, A!Init, NoReply, A!NoReply
  <1>2. QED
    BY <1>1, ArchiveStep, StoreInductive, PTL DEF Spec, ArchiveSpec, A!Spec
=============================================================================
