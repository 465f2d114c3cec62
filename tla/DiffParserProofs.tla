------------------------- MODULE DiffParserProofs -------------------------
(***************************************************************************)
(* Theorems about DiffParser for diffs of any length over any number of    *)
(* files.  The first part is about sequences, the second about the         *)
(* snippets of one hunk, the third about a diff as it is read:  CurrentInv *)
(* ties the hunk that is read to the lines of the diff, and SnippetInv     *)
(* says what has become of the hunks before it.                            *)
(***************************************************************************)
EXTENDS DiffParser, SequenceTheorems, WellFoundedInduction, TLAPS

(* Sequences *)

LEMMA Induct ==
    ASSUME NEW S \in SUBSET Nat, 0 \in S, \A n \in S : n + 1 \in S
    PROVE  S = Nat
  <1> DEFINE R == OpToRel(<, Nat)
             T == Nat \ S
  <1>1. IsWellFoundedOn(R, Nat)
    BY NatLessThanWellFounded
  <1>2. \A x, y \in Nat : <<x, y>> \in R <=> x < y
    BY DEF OpToRel
  <1> HIDE DEF R
  <1>3. ASSUME T # {} PROVE FALSE
    <2>1. \E x \in T : \A y \in T : ~ (<<y, x>> \in R)
      BY <1>1, <1>3, WFMin
    <2>2. PICK x \in T : \A y \in T : ~ (y < x)
      BY <2>1, <1>2
    <2>3. x # 0 /\ x - 1 \in Nat /\ x - 1 < x /\ (x - 1) + 1 = x
      BY <2>2
    <2>4. x - 1 \in S
      BY <2>2, <2>3
    <2>5. QED
      BY <2>2, <2>3, <2>4
  <1>4. QED
    BY <1>3

\* The function in FlattenSeq exists.
LEMMA FlattenExists ==
    ASSUME NEW s, NEW n \in Nat
    PROVE  \E f : f = [i \in 1..n |-> IF i = 1 THEN s[i] ELSE f[i-1] \o s[i]]
  <1> DEFINE Upto(m) == \E f : f = [i \in 1..m |-> IF i = 1 THEN s[i] ELSE f[i-1] \o s[i]]
             S == {m \in Nat : Upto(m)}
  <1>1. 0 \in S
    <2>1. [i \in 1..0 |-> {}] = [i \in 1..0 |-> IF i = 1 THEN s[i] ELSE [j \in 1..0 |-> {}][i-1] \o s[i]]
      OBVIOUS
    <2>2. QED BY <2>1
  <1>2. ASSUME NEW m \in S PROVE m + 1 \in S
    <2>1. PICK f : f = [i \in 1..m |-> IF i = 1 THEN s[i] ELSE f[i-1] \o s[i]]
      BY <1>2
    <2> DEFINE g == [i \in 1..m+1 |-> IF i \in 1..m THEN f[i] ELSE IF i = 1 THEN s[i] ELSE f[i-1] \o s[i]]
    <2>2. ASSUME NEW i \in 1..m+1 PROVE g[i] = IF i = 1 THEN s[i] ELSE g[i-1] \o s[i]
      <3>1. CASE i \in 1..m
        <4>1. f[i] = IF i = 1 THEN s[i] ELSE f[i-1] \o s[i]
          BY <2>1, <3>1
        <4>2. i # 1 => g[i-1] = f[i-1]
          BY <3>1
        <4>3. QED BY <3>1, <4>1, <4>2
      <3>2. CASE i \notin 1..m
        <4>2. i # 1 => g[i-1] = f[i-1]
          BY <3>2
        <4>3. QED BY <3>2, <4>2
      <3>3. QED BY <3>1, <3>2
    <2>3. g = [i \in 1..m+1 |-> IF i = 1 THEN s[i] ELSE g[i-1] \o s[i]]
      <3> DEFINE h == [i \in 1..m+1 |-> IF i = 1 THEN s[i] ELSE g[i-1] \o s[i]]
      <3>1. \A i \in 1..m+1 : g[i] = h[i]
        BY <2>2
      <3>2. DOMAIN g = 1..m+1 /\ DOMAIN h = 1..m+1 
        OBVIOUS
      <3>3. g = [i \in 1..m+1 |-> g[i]] /\ h = [i \in 1..m+1 |-> h[i]]
        OBVIOUS
      <3> HIDE DEF g, h
      <3>4. g = h BY <3>1, <3>3
      <3>5. QED BY <3>4 DEF h
    <2> HIDE DEF g
    <2>4. Upto(m+1)
      BY <2>3
    <2> HIDE DEF Upto
    <2>5. QED BY <2>4
  <1>3. S = Nat BY <1>1, <1>2, Induct
  <1>4. QED BY <1>3

LEMMA FlattenUnfold ==
    ASSUME NEW s, Len(s) \in Nat \ {0}
    PROVE  \E f : /\ f = [i \in 1..Len(s) |-> IF i = 1 THEN s[i] ELSE f[i-1] \o s[i]]
                  /\ FlattenSeq(s) = f[Len(s)]
  BY FlattenExists DEF FlattenSeq

LEMMA MaxFacts ==
    ASSUME NEW n \in Nat, NEW S \in SUBSET (0..n), S # {}
    PROVE  Max(S) \in S /\ \A e \in S : e <= Max(S)
  <1> DEFINE Top(T) == \E m \in T : \A e \in T : e <= m
             Upto(k) == \A T \in SUBSET (0..k) : T # {} => Top(T)
             G == {k \in Nat : Upto(k)}
  <1>1. Upto(0)
    <2>1. SUFFICES ASSUME NEW T \in SUBSET (0..0), T # {} PROVE Top(T)
      OBVIOUS
    <2>2. 0 \in T /\ \A e \in T : e <= 0
      <3>1. PICK e \in T : TRUE
        BY <2>1
      <3>2. \A x \in T : x = 0
        OBVIOUS
      <3>3. QED
        BY <3>1, <3>2
    <2>3. QED
      BY <2>2
  <1>2. ASSUME NEW k \in Nat, Upto(k) PROVE Upto(k + 1)
    <2>1. SUFFICES ASSUME NEW T \in SUBSET (0..k + 1), T # {} PROVE Top(T)
      OBVIOUS
    <2>2. CASE k + 1 \in T
      BY <2>2
    <2>3. CASE k + 1 \notin T
      <3>1. T \in SUBSET (0..k)
        BY <2>3
      <3>2. QED
        BY <1>2, <2>1, <3>1
    <2>4. QED
      BY <2>2, <2>3
  <1>3. Upto(n)
    <2> HIDE DEF Upto
    <2>1. G \in SUBSET Nat /\ 0 \in G /\ \A k \in G : k + 1 \in G
      BY <1>1, <1>2
    <2>2. G = Nat
      BY <2>1, Induct
    <2>3. QED
      BY <2>2
  <1>4. QED
    BY <1>3 DEF Max

Selects(g, s, m, T) ==
    /\ g \in Seq(T)
    /\ \E at \in [1..Len(g) -> 1..m] :
           /\ \A k \in 1..Len(g) : s[at[k]] = <<g[k]>>
           /\ \A j, k \in 1..Len(g) : j < k => at[j] < at[k]
           /\ \A i \in 1..m : s[i] # <<>> => \E k \in 1..Len(g) : at[k] = i

LEMMA SelectStep ==
    ASSUME NEW T, NEW s, NEW m \in Nat, NEW g, Selects(g, s, m, T),
           s[m + 1] \in Seq(T), Len(s[m + 1]) <= 1
    PROVE  Selects(g \o s[m + 1], s, m + 1, T)
  <1>1. PICK at \in [1..Len(g) -> 1..m] :
           /\ \A k \in 1..Len(g) : s[at[k]] = <<g[k]>>
           /\ \A j, k \in 1..Len(g) : j < k => at[j] < at[k]
           /\ \A i \in 1..m : s[i] # <<>> => \E k \in 1..Len(g) : at[k] = i
    BY DEF Selects
  <1>2. g \in Seq(T) /\ Len(g) \in Nat
    BY DEF Selects
  <1>3. CASE s[m + 1] = <<>>
    <2>1. g \o s[m + 1] = g
      BY <1>2, <1>3, ConcatEmptySeq
    <2>2. at \in [1..Len(g) -> 1..m + 1]
      <3>1. \A k \in 1..Len(g) : at[k] \in 1..m + 1
        BY <1>1
      <3>2. QED
        BY <3>1
    <2>3. \A i \in 1..m + 1 : s[i] # <<>> => \E k \in 1..Len(g) : at[k] = i
      <3>1. \A i \in 1..m + 1 : i = m + 1 \/ i \in 1..m
        OBVIOUS
      <3>2. QED
        BY <1>1, <1>3, <3>1
    <2>4. Selects(g, s, m + 1, T)
      BY <1>1, <1>2, <2>2, <2>3, Zenon DEF Selects
    <2>5. QED
      BY <2>1, <2>4
  <1>4. CASE s[m + 1] # <<>>
    <2>0. s[m + 1] \in Seq(T) /\ Len(s[m + 1]) <= 1
      OBVIOUS
    <2> DEFINE x == s[m + 1][1]
               h == Append(g, x)
               up == [k \in 1..Len(g) + 1 |-> IF k \in 1..Len(g) THEN at[k] ELSE m + 1]
    <2>1. x \in T /\ s[m + 1] = <<x>>
      <3>1. Len(s[m + 1]) = 1
        <4>1. Len(s[m + 1]) # 0
          BY <1>4, <2>0, EmptySeq
        <4>2. Len(s[m + 1]) \in Nat
          BY <2>0, LenProperties
        <4>3. \A l \in Nat : l # 0 /\ l <= 1 => l = 1
          OBVIOUS
        <4>4. QED
          BY <2>0, <4>1, <4>2, <4>3, Zenon
      <3>2. QED
        BY <3>1
    <2>2. g \o s[m + 1] = h
      BY <1>2, <2>1, AppendIsConcat
    <2>3. h \in Seq(T) /\ Len(h) = Len(g) + 1 /\ h[Len(g) + 1] = x
          /\ \A k \in 1..Len(g) : h[k] = g[k]
      BY <1>2, <2>1
    <2>4. up \in [1..Len(g) + 1 -> 1..m + 1]
      BY <1>1, <1>2
    <2>5. \A k \in 1..Len(g) + 1 : (k \in 1..Len(g) /\ up[k] = at[k]) \/ (k = Len(g) + 1 /\ up[k] = m + 1)
      BY <1>2
    <2> HIDE DEF up, h, x
    <2>6. \A k \in 1..Len(g) + 1 : s[up[k]] = <<h[k]>>
      BY <1>1, <2>1, <2>3, <2>5
    <2>7. \A j, k \in 1..Len(g) + 1 : j < k => up[j] < up[k]
      <3>1. SUFFICES ASSUME NEW j \in 1..Len(g) + 1, NEW k \in 1..Len(g) + 1, j < k
                     PROVE  up[j] < up[k]
        OBVIOUS
      <3>2. j \in 1..Len(g) /\ up[j] = at[j] /\ at[j] \in 1..m
        BY <1>1, <1>2, <2>5, <3>1
      <3>3. QED
        BY <1>1, <1>2, <2>5, <3>1, <3>2
    <2>8. \A i \in 1..m + 1 : s[i] # <<>> => \E k \in 1..Len(g) + 1 : up[k] = i
      <3>1. SUFFICES ASSUME NEW i \in 1..m + 1, s[i] # <<>>
                     PROVE  \E k \in 1..Len(g) + 1 : up[k] = i
        OBVIOUS
      <3>2. CASE i \in 1..m
        <4>1. PICK k \in 1..Len(g) : at[k] = i
          BY <1>1, <3>1, <3>2
        <4>2. k \in 1..Len(g) + 1 /\ up[k] = i
          BY <1>2, <2>5, <4>1
        <4>3. QED
          BY <4>2
      <3>3. CASE i = m + 1
        <4>1. Len(g) + 1 \in 1..Len(g) + 1 /\ up[Len(g) + 1] = m + 1
          BY <1>2, <2>5
        <4>2. QED
          BY <3>3, <4>1
      <3>4. QED
        BY <3>2, <3>3
    <2>9. Selects(h, s, m + 1, T)
      <3>1. 1..Len(h) = 1..Len(g) + 1
        BY <2>3
      <3>2. QED
        BY <2>3, <2>4, <2>6, <2>7, <2>8, <3>1, SMTT(30) DEF Selects
    <2>10. QED
      BY <2>2, <2>9
  <1>5. QED
    BY <1>3, <1>4

LEMMA SelectFacts ==
    ASSUME NEW T, NEW s \in Seq(Seq(T)), \A i \in 1..Len(s) : Len(s[i]) <= 1
    PROVE  Selects(FlattenSeq(s), s, Len(s), T)
  <1>0. Len(s) \in Nat /\ \A i \in 1..Len(s) : s[i] \in Seq(T)
    OBVIOUS
  <1>1. Selects(<<>>, s, 0, T)
    <2>1. <<>> \in Seq(T) /\ Len(<<>>) = 0 /\ 1..0 = {}
      OBVIOUS
    <2>2. [k \in 1..0 |-> 0] \in [1..0 -> 1..0]
      OBVIOUS
    <2>3. QED
      BY <2>1, <2>2, Zenon DEF Selects
  <1>2. CASE Len(s) = 0
    <2>1. s = <<>> /\ FlattenSeq(s) = s
      BY <1>2, EmptySeq DEF FlattenSeq
    <2>2. QED
      BY <1>1, <1>2, <2>1
  <1>3. CASE Len(s) # 0
    <2>1. PICK f : /\ f = [i \in 1..Len(s) |-> IF i = 1 THEN s[i] ELSE f[i-1] \o s[i]]
                   /\ FlattenSeq(s) = f[Len(s)]
      BY <1>0, <1>3, FlattenUnfold
    <2>2. f[1] = s[1] /\ \A i \in 1..Len(s) : i # 1 => f[i] = f[i - 1] \o s[i]
      <3>1. \A i \in 1..Len(s) : f[i] = IF i = 1 THEN s[i] ELSE f[i-1] \o s[i]
        BY <2>1, Zenon
      <3>2. 1 \in 1..Len(s)
        BY <1>0, <1>3
      <3>3. QED
        BY <3>1, <3>2
    <2> DEFINE G == {k \in Nat : k \in 1..Len(s) => Selects(f[k], s, k, T)}
    <2>3. 0 \in G
      BY <1>0
    <2>4. ASSUME NEW k \in G PROVE k + 1 \in G
      <3>1. SUFFICES ASSUME k + 1 \in 1..Len(s) PROVE Selects(f[k + 1], s, k + 1, T)
        BY DEF G
      <3>2. s[k + 1] \in Seq(T) /\ Len(s[k + 1]) <= 1 /\ k \in Nat
        BY <1>0, <3>1
      <3>3. CASE k = 0
        <4>1. f[k + 1] = <<>> \o s[k + 1]
          <5>1. <<>> \o s[k + 1] = s[k + 1]
            BY <3>2, ConcatEmptySeq
          <5>2. QED
            BY <2>2, <3>3, <5>1
        <4>2. QED
          BY <1>1, <3>2, <3>3, <4>1, SelectStep
      <3>4. CASE k # 0
        <4>1. Selects(f[k], s, k, T)
          BY <1>0, <3>1, <3>2, <3>4 DEF G
        <4>2. f[k + 1] = f[k] \o s[k + 1]
          <5>1. k + 1 # 1 /\ (k + 1) - 1 = k
            BY <3>2, <3>4
          <5>2. QED
            BY <2>2, <3>1, <5>1
        <4>3. QED
          BY <3>2, <4>1, <4>2, SelectStep
      <3>5. QED
        BY <3>3, <3>4
    <2>5. G = Nat
      <3> HIDE DEF G
      <3>1. G \in SUBSET Nat
        BY DEF G
      <3>2. QED
        BY <2>3, <2>4, <3>1, Induct
    <2>6. Len(s) \in 1..Len(s)
      BY <1>0, <1>3
    <2>7. Selects(f[Len(s)], s, Len(s), T)
      BY <1>0, <2>5, <2>6
    <2>8. QED
      BY <2>1, <2>7
  <1>4. QED
    BY <1>2, <1>3

-----------------------------------------------------------------------------
(* One hunk *)

Row == [kind : Kinds \cup {"header"}, file : Nat, hunk : Nat, number : Nat]

Snippet == [lines : Seq(Nat), startLine : Nat, endLine : Int]

LEMMA LastLineFacts ==
    ASSUME NEW h, NEW from \in DOMAIN h.addedLines,
           h.addedLines \in Seq(Nat), IsStart(h, from)
    PROVE  LET last == LastLine(h, from)
           IN  /\ last \in from..Len(h.addedLines)
               /\ \A i \in from + 1..last : ~IsStart(h, i)
               /\ \A e \in from..Len(h.addedLines) :
                      /\ Kind(h.addedLines[e]) # "blank"
                      /\ \A i \in from + 1..e : ~IsStart(h, i)
                      => e <= last
  <1> DEFINE n == Len(h.addedLines)
             Fits(e) == /\ Kind(h.addedLines[e]) # "blank"
                        /\ \A i \in from + 1..e : ~IsStart(h, i)
             S == {e \in from..n : Fits(e)}
  <1>1. n \in Nat /\ from \in 1..n
    OBVIOUS
  <1>2. Fits(from)
    BY <1>1 DEF IsStart, Boundary
  <1>3. LastLine(h, from) = Max(S)
    BY DEF LastLine
  <1> HIDE DEF Fits, n
  <1>4. S \in SUBSET (0..n) /\ S # {}
    BY <1>1, <1>2
  <1>5. Max(S) \in S /\ \A e \in S : e <= Max(S)
    BY <1>1, <1>4, MaxFacts
  <1>6. QED
    BY <1>3, <1>5 DEF Fits, n

LEMMA FunctionFacts ==
    ASSUME NEW h, NEW from \in DOMAIN h.addedLines,
           h.addedLines \in Seq(Nat), h.startLine \in Nat, IsStart(h, from)
    PROVE  Function(h, from) \in Snippet
  <1> DEFINE last == LastLine(h, from)
  <1>1. /\ last \in from..Len(h.addedLines)
        /\ from \in 1..Len(h.addedLines) /\ Len(h.addedLines) \in Nat
    BY LastLineFacts
  <1>2. SubSeq(h.addedLines, from, last) \in Seq(Nat)
    BY <1>1
  <1> HIDE DEF last
  <1>3. /\ h.startLine + from - 1 \in Nat
        /\ h.startLine + last - 1 \in Int
    BY <1>1
  <1>4. QED
    BY <1>2, <1>3 DEF Function, Snippet, last

\* The snippets of a hunk are pieces of it, one behind the other; what is in
\* none of them is blank, in a function too small, or before the first one.
Pieces(h, at, to) ==
    /\ at \in [DOMAIN Snippets(h) -> DOMAIN h.addedLines]
    /\ to \in [DOMAIN Snippets(h) -> DOMAIN h.addedLines]
    /\ \A k \in DOMAIN Snippets(h) :
           /\ at[k] <= to[k]
           /\ Snippets(h)[k].lines = SubSeq(h.addedLines, at[k], to[k])
           /\ Snippets(h)[k].startLine = h.startLine + at[k] - 1
    /\ \A j, k \in DOMAIN Snippets(h) : j < k => to[j] < at[k]
    /\ \A i \in DOMAIN h.addedLines :
           \/ \E k \in DOMAIN Snippets(h) : i \in at[k]..to[k]
           \/ Kind(h.addedLines[i]) = "blank"
           \/ \E q \in 1..i :
                  /\ Kind(h.addedLines[q]) = "tiny"
                  /\ \A j \in q..i : Kind(h.addedLines[j]) \notin {"plain", "function"}
           \/ /\ \A j \in 1..i : ~IsStart(h, j)
              /\ \E j \in i + 1..Len(h.addedLines) : IsStart(h, j)

LEMMA FunctionsFacts ==
    ASSUME NEW h, h.addedLines \in Seq(Nat), h.startLine \in Nat
    PROVE  /\ Functions(h) \in Seq(Snippet)
           /\ \E at \in [1..Len(Functions(h)) -> 1..Len(h.addedLines)] :
                  /\ \A k \in 1..Len(Functions(h)) :
                         /\ IsStart(h, at[k])
                         /\ Functions(h)[k] = Function(h, at[k])
                  /\ \A j, k \in 1..Len(Functions(h)) : j < k => at[j] < at[k]
                  /\ \A i \in 1..Len(h.addedLines) : IsStart(h, i) /\ Substantial(h, i)
                         => \E k \in 1..Len(Functions(h)) : at[k] = i
  <1> DEFINE n == Len(h.addedLines)
             s == [i \in DOMAIN h.addedLines |->
                      IF IsStart(h, i) /\ Substantial(h, i) THEN <<Function(h, i)>> ELSE <<>>]
  <1>1. DOMAIN h.addedLines = 1..n /\ n \in Nat
    OBVIOUS
  <1>2. Functions(h) = FlattenSeq(s)
    BY DEF Functions
  <1>3. \A i \in 1..n :
            \/ IsStart(h, i) /\ Substantial(h, i) /\ s[i] = <<Function(h, i)>>
            \/ ~(IsStart(h, i) /\ Substantial(h, i)) /\ s[i] = <<>>
    BY <1>1
  <1>4. \A i \in 1..n : IsStart(h, i) => Function(h, i) \in Snippet
    BY <1>1, FunctionFacts
  <1>5. s = [i \in 1..n |-> s[i]]
    BY <1>1
  <1> HIDE DEF s
  <1>6. \A i \in 1..n : s[i] \in Seq(Snippet) /\ Len(s[i]) <= 1
    <2>1. SUFFICES ASSUME NEW i \in 1..n PROVE s[i] \in Seq(Snippet) /\ Len(s[i]) <= 1
      OBVIOUS
    <2>2. \A T : \A x \in T : <<x>> \in Seq(T) /\ Len(<<x>>) <= 1
      OBVIOUS
    <2>3. \A T : <<>> \in Seq(T) /\ Len(<<>>) <= 1
      OBVIOUS
    <2>4. QED
      BY <1>3, <1>4, <2>1, <2>2, <2>3, Zenon
  <1>7. s \in Seq(Seq(Snippet)) /\ Len(s) = n
    <2>1. \A T : \A f \in [1..n -> T] : f \in Seq(T) /\ Len(f) = n
      BY <1>1
    <2>2. s \in [1..n -> Seq(Snippet)]
      BY <1>5, <1>6, Zenon
    <2>3. QED
      BY <2>1, <2>2, Zenon
  <1>8. Selects(Functions(h), s, n, Snippet)
    BY <1>2, <1>6, <1>7, SelectFacts
  <1>9. PICK at \in [1..Len(Functions(h)) -> 1..n] :
           /\ \A k \in 1..Len(Functions(h)) : s[at[k]] = <<Functions(h)[k]>>
           /\ \A j, k \in 1..Len(Functions(h)) : j < k => at[j] < at[k]
           /\ \A i \in 1..n : s[i] # <<>> => \E k \in 1..Len(Functions(h)) : at[k] = i
    BY <1>8 DEF Selects
  <1>10. \A k \in 1..Len(Functions(h)) :
             IsStart(h, at[k]) /\ Functions(h)[k] = Function(h, at[k])
    <2>1. \A x, y : <<x>> # <<>> /\ (<<x>> = <<y>> => x = y)
      OBVIOUS
    <2>2. SUFFICES ASSUME NEW k \in 1..Len(Functions(h))
                   PROVE  IsStart(h, at[k]) /\ Functions(h)[k] = Function(h, at[k])
      OBVIOUS
    <2>3. at[k] \in 1..n /\ s[at[k]] = <<Functions(h)[k]>>
      BY <1>9
    <2>4. s[at[k]] # <<>>
      BY <2>1, <2>3, Zenon
    <2>5. IsStart(h, at[k]) /\ s[at[k]] = <<Function(h, at[k])>>
      BY <1>3, <2>3, <2>4, Zenon
    <2>6. QED
      BY <2>1, <2>3, <2>5, Zenon
  <1>11. \A i \in 1..n : IsStart(h, i) /\ Substantial(h, i)
             => \E k \in 1..Len(Functions(h)) : at[k] = i
    <2>1. \A x : <<x>> # <<>>
      OBVIOUS
    <2>2. QED
      BY <1>3, <1>9, <2>1, Zenon
  <1>12. QED
    BY <1>8, <1>9, <1>10, <1>11, Zenon DEF Selects, n

LEMMA SnippetsFacts ==
    ASSUME NEW h, h.addedLines \in Seq(Nat), h.addedLines # <<>>, h.startLine \in Nat
    PROVE  Snippets(h) \in Seq(Snippet) /\ \E at, to : Pieces(h, at, to)
  <1> DEFINE n == Len(h.addedLines)
  <1>1. DOMAIN h.addedLines = 1..n /\ n \in Nat
    OBVIOUS
  <1>2. n # 0
    BY EmptySeq
  <1>3. CASE Functions(h) = <<>>
    <2> DEFINE whole == [lines     |-> h.addedLines,
                         startLine |-> h.startLine,
                         endLine   |-> h.startLine + n - 1]
               at == [k \in 1..1 |-> 1]
               to == [k \in 1..1 |-> n]
    <2>1. Snippets(h) = <<whole>>
      BY <1>3 DEF Snippets
    <2>2. h.startLine + n - 1 \in Int
      BY <1>1
    <2>3. whole \in Snippet
      BY <2>2 DEF Snippet
    <2>4. /\ whole.lines = SubSeq(h.addedLines, 1, n)
          /\ whole.startLine = h.startLine + 1 - 1
      BY SubSeqFull
    <2> HIDE DEF whole
    <2>5. Snippets(h) \in Seq(Snippet)
      <3>1. \A T : \A x \in T : <<x>> \in Seq(T)
        OBVIOUS
      <3>2. QED
        BY <2>1, <2>3, <3>1, Zenon
    <2>6. DOMAIN Snippets(h) = 1..1 /\ Snippets(h)[1] = whole
      BY <2>1
    <2>7. \A k \in 1..1 : k = 1 /\ at[k] = 1 /\ to[k] = n
      OBVIOUS
    <2>8. at \in [1..1 -> 1..n] /\ to \in [1..1 -> 1..n]
      BY <1>1, <1>2
    <2> HIDE DEF at, to
    <2>9. /\ \A k \in 1..1 : /\ at[k] <= to[k]
                              /\ Snippets(h)[k].lines = SubSeq(h.addedLines, at[k], to[k])
                              /\ Snippets(h)[k].startLine = h.startLine + at[k] - 1
          /\ \A j, k \in 1..1 : ~(j < k)
          /\ \A i \in 1..n : \E k \in 1..1 : i \in at[k]..to[k]
      <3>1. 1 \in 1..1 /\ 1 <= n /\ \A i \in 1..n : i \in 1..n
        BY <1>1, <1>2
      <3>2. \A j, k \in 1..1 : ~(j < k)
        OBVIOUS
      <3>3. QED
        BY <2>4, <2>6, <2>7, <3>1, <3>2, Zenon
    <2>10. Pieces(h, at, to)
      BY <1>1, <2>6, <2>8, <2>9, Zenon DEF Pieces
    <2>11. QED
      BY <2>5, <2>10
  <1>4. CASE Functions(h) # <<>>
    <2>1. Snippets(h) = Functions(h) /\ Functions(h) \in Seq(Snippet)
      BY <1>4, FunctionsFacts DEF Snippets
    <2> DEFINE m == Len(Functions(h))
    <2>2. PICK at \in [1..m -> 1..n] :
             /\ \A k \in 1..m : IsStart(h, at[k]) /\ Functions(h)[k] = Function(h, at[k])
             /\ \A j, k \in 1..m : j < k => at[j] < at[k]
             /\ \A i \in 1..n : IsStart(h, i) /\ Substantial(h, i)
                    => \E k \in 1..m : at[k] = i
      BY FunctionsFacts
    <2> DEFINE to == [k \in 1..m |-> LastLine(h, at[k])]
    <2>3. DOMAIN Functions(h) = 1..m /\ m \in Nat /\ m # 0
      BY <1>4, <2>1, EmptySeq
    <2> HIDE DEF m, n
    <2>4. \A k \in 1..m :
              /\ at[k] \in 1..n /\ to[k] = LastLine(h, at[k]) /\ to[k] \in at[k]..n
              /\ \A i \in at[k] + 1..to[k] : ~IsStart(h, i)
      BY <1>1, <2>2, LastLineFacts DEF n
    <2>5. to \in [1..m -> 1..n]
      BY <1>1, <2>4
    <2> HIDE DEF to
    <2>6. \A k \in 1..m :
              /\ at[k] <= to[k]
              /\ Functions(h)[k].lines = SubSeq(h.addedLines, at[k], to[k])
              /\ Functions(h)[k].startLine = h.startLine + at[k] - 1
      <3>1. \A k \in 1..m : at[k] <= to[k]
        BY <1>1, <2>4
      <3>2. \A x : /\ Function(h, x).lines = SubSeq(h.addedLines, x, LastLine(h, x))
                   /\ Function(h, x).startLine = h.startLine + x - 1
        BY DEF Function
      <3>3. QED
        <4>1. SUFFICES ASSUME NEW k \in 1..m
                       PROVE  /\ Functions(h)[k].lines = SubSeq(h.addedLines, at[k], to[k])
                              /\ Functions(h)[k].startLine = h.startLine + at[k] - 1
          BY <3>1, Zenon
        <4>2. Functions(h)[k] = Function(h, at[k]) /\ to[k] = LastLine(h, at[k])
          BY <2>2, <2>4, Zenon
        <4>3. QED
          BY <3>2, <4>2, Zenon
    <2>7. \A j, k \in 1..m : j < k => to[j] < at[k]
      <3>1. SUFFICES ASSUME NEW j \in 1..m, NEW k \in 1..m, j < k, ~(to[j] < at[k])
                     PROVE  FALSE
        OBVIOUS
      <3>2. at[k] \in at[j] + 1..to[j]
        BY <1>1, <2>2, <2>4, <3>1
      <3>3. QED
        BY <2>2, <2>4, <3>2
    <2>8. ASSUME NEW i \in 1..n, Kind(h.addedLines[i]) # "blank",
                 \E j \in 1..i : IsStart(h, j)
          PROVE  \/ \E k \in 1..m : i \in at[k]..to[k]
                 \/ \E q \in 1..i :
                        /\ Kind(h.addedLines[q]) = "tiny"
                        /\ \A j \in q..i : Kind(h.addedLines[j]) \notin {"plain", "function"}
      <3> DEFINE U == {j \in 1..i : IsStart(h, j)}
                 j == Max(U)
      <3>1. j \in U /\ \A e \in U : e <= j
        <4>1. i \in Nat /\ U \in SUBSET (0..i) /\ U # {}
          BY <1>1, <2>8
        <4>2. QED
          BY <4>1, MaxFacts
      <3>2. j \in 1..i /\ IsStart(h, j) /\ \A e \in 1..i : IsStart(h, e) => e <= j
        BY <3>1
      <3> HIDE DEF U, j
      <3>3. j \in 1..n /\ i \in j..n
        BY <1>1, <3>2
      <3>4. \A e \in j + 1..i : ~IsStart(h, e)
        BY <1>1, <3>2
      <3>5. i <= LastLine(h, j)
        BY <1>1, <2>8, <3>2, <3>3, <3>4, LastLineFacts DEF n
      <3>6. CASE Substantial(h, j)
        <4>1. PICK k \in 1..m : at[k] = j
          BY <2>2, <3>2, <3>3, <3>6
        <4>2. i \in at[k]..to[k]
          BY <1>1, <2>4, <3>3, <3>5, <4>1
        <4>3. QED
          BY <4>2
      <3>7. CASE ~Substantial(h, j)
        <4>1. LastLine(h, j) \in j..n
          BY <1>1, <3>2, <3>3, LastLineFacts DEF n
        <4>2. \A e \in j..i : e \in j..LastLine(h, j)
          BY <1>1, <3>3, <3>5, <4>1
        <4>3. \A e \in j..i : Kind(h.addedLines[e]) \notin {"plain", "function"}
          BY <3>7, <4>2 DEF Substantial
        <4>4. j \in j..i
          BY <1>1, <3>3
        <4>5. Kind(h.addedLines[j]) = "tiny"
          BY <3>2, <4>3, <4>4 DEF IsStart, Boundary
        <4>6. QED
          BY <3>2, <4>3, <4>5
      <3>8. QED
        BY <3>6, <3>7
    <2>9. ASSUME NEW i \in 1..n, \A j \in 1..i : ~IsStart(h, j)
          PROVE  \E j \in i + 1..n : IsStart(h, j)
      <3>1. 1 \in 1..m /\ at[1] \in 1..n /\ IsStart(h, at[1])
        BY <2>2, <2>3
      <3>2. at[1] \in i + 1..n
        BY <1>1, <2>9, <3>1
      <3>3. QED
        BY <3>1, <3>2
    <2>10. Pieces(h, at, to)
      <3>1. at \in [1..m -> 1..n]
        BY <2>2
      <3>2. \A i \in 1..n :
                \/ \E k \in 1..m : i \in at[k]..to[k]
                \/ Kind(h.addedLines[i]) = "blank"
                \/ \E q \in 1..i :
                       /\ Kind(h.addedLines[q]) = "tiny"
                       /\ \A j \in q..i : Kind(h.addedLines[j]) \notin {"plain", "function"}
                \/ /\ \A j \in 1..i : ~IsStart(h, j)
                   /\ \E j \in i + 1..n : IsStart(h, j)
        BY <2>8, <2>9, Zenon
      <3>3. QED
        BY <1>1, <2>1, <2>3, <2>5, <2>6, <2>7, <3>1, <3>2, Zenon DEF Pieces, n
    <2>11. QED
      BY <2>1, <2>10
  <1>5. QED
    BY <1>3, <1>4

-----------------------------------------------------------------------------
(* A diff as it is read *)

InOrder(lines) == \A a, b \in DOMAIN lines : a < b => lines[a] < lines[b]

\* The lines of its hunk before p that have a number, but are not collected.
Skipped(d, p) ==
    {q \in 1..p - 1 : d[q].hunk = d[p].hunk /\ d[q].kind \in {"context", "plusplus"}}

\* What LossIsKnown says of a line that is lost.
KnownLoss(d, p) ==
    \/ d[p].kind \in {"plusplus", "blank"}
    \/ \E q \in 1..p :
           /\ d[q].hunk = d[p].hunk /\ d[q].kind = "tiny"
           /\ \A r \in q..p : d[r].kind \notin {"plain", "function"}
    \/ /\ \A q \in 1..p - 1 : d[q].hunk = d[p].hunk => d[q].kind \notin Boundary
       /\ \E q \in p..Len(d) : d[q].hunk = d[p].hunk /\ d[q].kind \in Boundary

Accounted(d, p, out) ==
    \/ \E i \in DOMAIN out : p \in ToLines(out[i].lines)
    \/ KnownLoss(d, p)

\* A snippet that is taken from one hunk, and whose number is from above.
Good(d, s) ==
    /\ s.lines # <<>> /\ InOrder(s.lines)
    /\ \A a \in DOMAIN s.lines :
           /\ s.lines[a] \in 1..Len(d) /\ d[s.lines[a]].kind \in Added
           /\ d[s.lines[a]].hunk = d[s.lines[1]].hunk
    /\ s.startLine <= d[s.lines[1]].number
    /\ Skipped(d, s.lines[1]) = {} => s.startLine = d[s.lines[1]].number

\* One snippet is before another in the diff, and has a smaller identifier.
Precedes(d, s, t) ==
    /\ \A a \in DOMAIN s.lines, b \in DOMAIN t.lines : s.lines[a] < t.lines[b]
    /\ \/ d[s.lines[1]].file < d[t.lines[1]].file
       \/ /\ d[s.lines[1]].file = d[t.lines[1]].file
          /\ s.startLine < t.startLine

WellTaken(d, out) ==
    /\ \A i \in DOMAIN out : Good(d, out[i])
    /\ \A i, j \in DOMAIN out : i < j => Precedes(d, out[i], out[j])

\* All of this is true of a diff when it has one line more.
LEMMA Grow ==
    ASSUME NEW d \in Seq(Row), NEW row \in Row
    PROVE  /\ Append(d, row) \in Seq(Row) /\ Len(Append(d, row)) = Len(d) + 1
           /\ Append(d, row)[Len(d) + 1] = row
           /\ \A p \in 1..Len(d) :
                  /\ Append(d, row)[p] = d[p]
                  /\ Skipped(Append(d, row), p) = Skipped(d, p)
                  /\ KnownLoss(d, p) => KnownLoss(Append(d, row), p)
  <1> DEFINE e == Append(d, row)
  <1>1. /\ e \in Seq(Row) /\ Len(e) = Len(d) + 1 /\ e[Len(d) + 1] = row
        /\ \A p \in 1..Len(d) : e[p] = d[p]
        /\ Len(d) \in Nat
    OBVIOUS
  <1> HIDE DEF e
  <1>2. ASSUME NEW p \in 1..Len(d)
        PROVE  Skipped(e, p) = Skipped(d, p) /\ (KnownLoss(d, p) => KnownLoss(e, p))
    <2>1. e[p] = d[p] /\ \A q \in 1..p - 1 : e[q] = d[q]
      BY <1>1
    <2>2. Skipped(e, p) = Skipped(d, p)
      BY <2>1 DEF Skipped
    <2>3. \A q \in p..Len(d) : q \in p..Len(e) /\ e[q] = d[q]
      BY <1>1
    <2>4. \A q \in 1..p : e[q] = d[q] /\ \A r \in q..p : e[r] = d[r]
      BY <1>1
    <2>5. KnownLoss(d, p) => KnownLoss(e, p)
      BY <2>1, <2>3, <2>4, Zenon DEF KnownLoss
    <2>6. QED
      BY <2>2, <2>5
  <1>3. QED
    BY <1>1, <1>2 DEF e

LEMMA GrowSnippets ==
    ASSUME NEW d \in Seq(Row), NEW row \in Row, NEW out \in Seq(Snippet),
           WellTaken(d, out)
    PROVE  WellTaken(Append(d, row), out)
  <1> DEFINE e == Append(d, row)
  <1>1. /\ Len(e) = Len(d) + 1
        /\ \A p \in 1..Len(d) : e[p] = d[p] /\ Skipped(e, p) = Skipped(d, p)
    BY Grow
  <1> HIDE DEF e
  <1>2. \A i \in DOMAIN out : out[i].lines \in Seq(Nat) /\ Good(d, out[i])
    <2>1. \A i \in DOMAIN out : out[i] \in Snippet
      <3>1. \A T : \A list \in Seq(T) : \A i \in DOMAIN list : list[i] \in T
        OBVIOUS
      <3>2. QED
        BY <3>1, Zenon
    <2>2. QED
      BY <2>1 DEF Snippet, WellTaken
  <1>3. \A i \in DOMAIN out : \A a \in DOMAIN out[i].lines :
            out[i].lines[a] \in 1..Len(d)
    BY <1>2, Zenon DEF Good
  <1>4. \A i \in DOMAIN out : 1 \in DOMAIN out[i].lines
    <2>1. \A lines \in Seq(Nat) : lines # <<>> => 1 \in DOMAIN lines
      OBVIOUS
    <2>2. QED
      BY <1>2, <2>1, Zenon DEF Good
  <1>5. Len(d) \in Nat
    OBVIOUS
  <1>6. ASSUME NEW i \in DOMAIN out PROVE Good(e, out[i])
    <2>1. Good(d, out[i])
      BY <1>2
    <2>2. \A a \in DOMAIN out[i].lines :
              /\ out[i].lines[a] \in 1..Len(e) 
              /\ e[out[i].lines[a]] = d[out[i].lines[a]]
      <3>1. 1..Len(d) \subseteq 1..Len(e)
        BY <1>1, <1>5
      <3>2. QED
        BY <1>1, <1>3, <3>1, Zenon
    <2>3. Skipped(e, out[i].lines[1]) = Skipped(d, out[i].lines[1])
      BY <1>1, <1>3, <1>4, Zenon
    <2>4. QED
      BY <1>4, <2>1, <2>2, <2>3, Zenon DEF Good
  <1>7. ASSUME NEW i \in DOMAIN out, NEW j \in DOMAIN out, i < j
        PROVE  Precedes(e, out[i], out[j])
    <2>1. Precedes(d, out[i], out[j])
      BY <1>7 DEF WellTaken
    <2>2. /\ e[out[i].lines[1]] = d[out[i].lines[1]]
          /\ e[out[j].lines[1]] = d[out[j].lines[1]]
      BY <1>1, <1>3, <1>4, Zenon
    <2>3. QED
      BY <2>1, <2>2, Zenon DEF Precedes
  <1>8. QED
    BY <1>6, <1>7 DEF WellTaken, e

LEMMA GrowAccounted ==
    ASSUME NEW d \in Seq(Row), NEW row \in Row, NEW out, NEW p \in 1..Len(d),
           Accounted(d, p, out)
    PROVE  Accounted(Append(d, row), p, out)
  BY Grow, Zenon DEF Accounted

\* What is true of two lists of snippets is true of one after the other.
LEMMA Joined ==
    ASSUME NEW d, NEW out \in Seq(Snippet), NEW more \in Seq(Snippet),
           WellTaken(d, out), WellTaken(d, more),
           \A i \in DOMAIN out, j \in DOMAIN more : Precedes(d, out[i], more[j])
    PROVE  WellTaken(d, out \o more)
  <1> DEFINE m == Len(out)
             n == Len(more)
             all == out \o more
  <1>1. /\ m \in Nat /\ n \in Nat
        /\ DOMAIN out = 1..m /\ DOMAIN more = 1..n
    OBVIOUS
  <1>2. /\ DOMAIN all = 1..m + n
        /\ \A i \in 1..m : all[i] = out[i]
        /\ \A i \in m + 1..m + n : i - m \in 1..n /\ all[i] = more[i - m]
    OBVIOUS
  <1> HIDE DEF m, n, all
  <1>3. ASSUME NEW i \in 1..m + n
        PROVE  (i \in 1..m /\ all[i] = out[i]) \/ (i \notin 1..m /\ i - m \in 1..n /\ all[i] = more[i - m])
    <2>1. i \in 1..m \/ (i \notin 1..m /\ i \in m + 1..m + n)
      BY <1>1
    <2>2. QED
      BY <1>2, <2>1, Zenon
  <1>4. ASSUME NEW i \in 1..m + n PROVE Good(d, all[i])
    BY <1>1, <1>3, Zenon DEF WellTaken
  <1>5. ASSUME NEW i \in 1..m + n, NEW j \in 1..m + n, i < j
        PROVE  Precedes(d, all[i], all[j])
    <2>1. CASE j \in 1..m
      <3>1. i \in 1..m
        BY <1>1, <1>5, <2>1
      <3>2. QED
        BY <1>1, <1>2, <1>5, <2>1, <3>1, Zenon DEF WellTaken
    <2>2. CASE i \in 1..m /\ j \notin 1..m
      BY <1>1, <1>3, <2>2, Zenon
    <2>3. CASE i \notin 1..m /\ j \notin 1..m
      <3>1. /\ i - m \in 1..n /\ all[i] = more[i - m]
            /\ j - m \in 1..n /\ all[j] = more[j - m]
        BY <1>3, <2>3, Zenon
      <3>2. i - m < j - m
        BY <1>1, <1>5
      <3>3. QED
        BY <1>1, <3>1, <3>2, Zenon DEF WellTaken
    <2>4. QED
      BY <2>1, <2>2, <2>3
  <1>6. QED
    BY <1>2, <1>4, <1>5, Zenon DEF WellTaken, all

LEMMA JoinedAccounted ==
    ASSUME NEW d, NEW p, NEW out \in Seq(Snippet), NEW more \in Seq(Snippet),
           Accounted(d, p, out) \/ Accounted(d, p, more)
    PROVE  Accounted(d, p, out \o more)
  <1> DEFINE all == out \o more
  <1>1. /\ \A i \in DOMAIN out : i \in DOMAIN all /\ all[i] = out[i]
        /\ \A i \in DOMAIN more : Len(out) + i \in DOMAIN all /\ all[Len(out) + i] = more[i]
    <2>1. /\ DOMAIN out = 1..Len(out) /\ DOMAIN more = 1..Len(more)
          /\ Len(out) \in Nat /\ Len(more) \in Nat
          /\ DOMAIN all = 1..Len(out) + Len(more)
      OBVIOUS
    <2>2. QED
      BY <2>1
  <1> HIDE DEF all
  <1>2. Accounted(d, p, all)
    BY <1>1, Zenon DEF Accounted
  <1>3. QED
    BY <1>2 DEF all

-----------------------------------------------------------------------------
(* The invariant *)

ShapeInv ==
    /\ diff \in Seq(Row) /\ file \in Nat /\ number \in Nat \ {0}
    /\ current \in [startLine : Nat, addedLines : Seq(Nat)]
    /\ snippets \in Seq(Snippet)

\* Hunks and files come one after the other.
RowInv ==
    /\ \A p, q \in Places : p < q => diff[p].hunk <= diff[q].hunk
    /\ \A p \in Places : diff[p].file <= file
    /\ current # NoHunk =>
           \A p \in Places : diff[p].hunk = Hunk => diff[p].file = file

\* The hunk has the lines that are collected from it.  A line is counted from
\* the hunk's first number on unless it is skipped.
CurrentInv ==
    /\ current # NoHunk => current.startLine > 0
    /\ InOrder(current.addedLines)
    /\ current # NoHunk =>
           ToLines(current.addedLines) =
               {p \in Places : diff[p].hunk = Hunk /\ Collected(Kind(p))}
    /\ \A i \in DOMAIN current.addedLines :
           LET p == current.addedLines[i] IN
           /\ current.startLine + i - 1 <= diff[p].number
           /\ Skipped(diff, p) = {} => current.startLine + i - 1 = diff[p].number
    /\ current.startLine + Len(current.addedLines) <= number
    /\ \/ current.startLine + Len(current.addedLines) = number
       \/ \E p \in Places : diff[p].hunk = Hunk /\ Kind(p) \in {"context", "plusplus"}
       \/ current = NoHunk

\* The snippets are of the hunks before, and all the lines of these are
\* accounted for.
SnippetInv ==
    /\ WellTaken(diff, snippets)
    /\ \A p \in Places :
           (current = NoHunk \/ diff[p].hunk < Hunk) /\ Kind(p) \in Added
               => Accounted(diff, p, snippets)
    /\ \A i \in DOMAIN snippets :
           LET p == snippets[i].lines[1] IN
           \/ diff[p].file < file
           \/ current # NoHunk /\ snippets[i].startLine < current.startLine
    /\ current # NoHunk =>
           \A i \in DOMAIN snippets : diff[snippets[i].lines[1]].hunk < Hunk

ParserInv == ShapeInv /\ RowInv /\ CurrentInv /\ SnippetInv

LEMMA RowFacts ==
    ASSUME ShapeInv
    PROVE  /\ Len(diff) \in Nat /\ Hunk \in Nat
           /\ \A p \in Places : /\ diff[p] \in Row /\ diff[p].hunk \in Nat
                                /\ diff[p].file \in Nat /\ diff[p].number \in Nat
  <1>1. Len(diff) \in Nat
    BY DEF ShapeInv
  <1>2. \A p \in Places : diff[p] \in Row
    <2>1. \A T : \A list \in Seq(T) : \A i \in 1..Len(list) : list[i] \in T
      OBVIOUS
    <2>2. QED
      BY <2>1, Zenon DEF ShapeInv, Places
  <1>3. \A row \in Row : row.hunk \in Nat /\ row.file \in Nat /\ row.number \in Nat
    BY DEF Row
  <1>4. Hunk \in Nat
    <2>1. CASE diff = <<>>
      BY <2>1 DEF Hunk
    <2>2. CASE diff # <<>>
      <3>1. Len(diff) \in Places
        <4>1. Len(diff) # 0
          BY <2>2, EmptySeq, Zenon DEF ShapeInv
        <4>2. QED
          BY <1>1, <4>1 DEF Places
      <3>2. QED
        BY <1>2, <1>3, <2>2, <3>1 DEF Hunk
    <2>3. QED
      BY <2>1, <2>2
  <1>5. QED
    BY <1>1, <1>2, <1>3, <1>4

\* No line is of a hunk behind the one that is read.
LEMMA HunkIsLast ==
    ASSUME ShapeInv, RowInv
    PROVE  \A p \in Places : diff[p].hunk <= Hunk
  <1>1. SUFFICES ASSUME NEW p \in Places PROVE diff[p].hunk <= Hunk
    OBVIOUS
  <1>2. /\ Len(diff) \in Nat
        /\ \A q \in Places : diff[q].hunk \in Nat
    BY RowFacts
  <1>3. Len(diff) \in Places /\ p \in Nat /\ p <= Len(diff)
    BY <1>2 DEF Places
  <1>4. Hunk = diff[Len(diff)].hunk
    <2>1. diff # <<>>
      <3>1. Len(diff) # 0
        BY <1>2, <1>3 DEF Places
      <3>2. QED
        BY <3>1
    <2>2. QED
      BY <2>1 DEF Hunk
  <1>5. CASE p = Len(diff)
    BY <1>2, <1>4, <1>5
  <1>6. CASE p # Len(diff)
    <2>1. p < Len(diff)
      BY <1>2, <1>3, <1>6
    <2>2. QED
      BY <1>3, <1>4, <2>1 DEF RowInv
  <1>7. QED
    BY <1>5, <1>6

\* The hunk that is read: its lines are places of the diff, all in this hunk.
LEMMA CurrentLines ==
    ASSUME ShapeInv, RowInv, CurrentInv, current.addedLines # <<>>
    PROVE  /\ current # NoHunk /\ 1 \in DOMAIN current.addedLines
           /\ \A i \in DOMAIN current.addedLines :
                  /\ current.addedLines[i] \in Places
                  /\ Kind(current.addedLines[i]) \in Added
                  /\ diff[current.addedLines[i]].hunk = Hunk
                  /\ diff[current.addedLines[i]].file = file
                  /\ current.startLine + i - 1 <= diff[current.addedLines[i]].number
                  /\ Skipped(diff, current.addedLines[i]) = {}
                         => current.startLine + i - 1 = diff[current.addedLines[i]].number
  <1>1. current # NoHunk
    BY DEF NoHunk
  <1>2. 1 \in DOMAIN current.addedLines
    <2>1. current.addedLines \in Seq(Nat)
      BY DEF ShapeInv
    <2>2. \A list \in Seq(Nat) : list # <<>> => 1 \in DOMAIN list
      OBVIOUS
    <2>3. QED
      BY <2>1, <2>2
  <1>3. ASSUME NEW i \in DOMAIN current.addedLines
        PROVE  /\ current.addedLines[i] \in Places
               /\ Collected(Kind(current.addedLines[i]))
               /\ diff[current.addedLines[i]].hunk = Hunk
    <2>1. current.addedLines[i] \in ToLines(current.addedLines)
      BY DEF ToLines
    <2>2. QED
      BY <1>1, <2>1 DEF CurrentInv
  <1>4. \A kind : Collected(kind) => kind \in Added
    BY DEF Collected, Added
  <1>5. \A i \in DOMAIN current.addedLines : diff[current.addedLines[i]].file = file
    BY <1>1, <1>3 DEF RowInv
  <1>6. QED
    BY <1>1, <1>2, <1>3, <1>4, <1>5, Zenon DEF CurrentInv

\* What Snippets makes of the hunk that is read.
LEMMA CurrentSnippets ==
    ASSUME ShapeInv, RowInv, CurrentInv, current.addedLines # <<>>
    PROVE  /\ Snippets(current) \in Seq(Snippet)
           /\ WellTaken(diff, Snippets(current))
           /\ \A k \in DOMAIN Snippets(current) :
                  /\ \A a \in DOMAIN Snippets(current)[k].lines :
                         diff[Snippets(current)[k].lines[a]].hunk = Hunk
                  /\ diff[Snippets(current)[k].lines[1]].file = file
                  /\ Snippets(current)[k].startLine >= current.startLine
                  /\ Snippets(current)[k].startLine < number
           /\ \A i \in DOMAIN current.addedLines :
                  Accounted(diff, current.addedLines[i], Snippets(current))
  <1> DEFINE A == current.addedLines
             n == Len(A)
             out == Snippets(current)
             start == current.startLine
  <1>1. A \in Seq(Nat) /\ A # <<>> /\ start \in Nat
    BY DEF ShapeInv
  <1>2. PICK at, to : Pieces(current, at, to)
    BY <1>1, SnippetsFacts
  <1>3. out \in Seq(Snippet)
    BY <1>1, SnippetsFacts
  <1>4. DOMAIN A = 1..n /\ n \in Nat
    BY <1>1
  <1>5. \A k \in DOMAIN out :
            /\ at[k] \in 1..n /\ to[k] \in 1..n /\ at[k] <= to[k]
            /\ out[k].lines = SubSeq(A, at[k], to[k])
            /\ out[k].startLine = start + at[k] - 1
    BY <1>2, <1>4 DEF Pieces
  <1>6. \A j, k \in DOMAIN out : j < k => to[j] < at[k]
    BY <1>2 DEF Pieces
  <1>7. \A i \in 1..n :
            \/ \E k \in DOMAIN out : i \in at[k]..to[k]
            \/ Kind(A[i]) = "blank"
            \/ \E q \in 1..i :
                   /\ Kind(A[q]) = "tiny"
                   /\ \A j \in q..i : Kind(A[j]) \notin {"plain", "function"}
            \/ /\ \A j \in 1..i : ~IsStart(current, j)
               /\ \E j \in i + 1..n : IsStart(current, j)
    BY <1>2, <1>4 DEF Pieces
  <1>8. \A i \in 1..n :
            /\ A[i] \in Places /\ Kind(A[i]) \in Added
            /\ diff[A[i]].hunk = Hunk /\ diff[A[i]].file = file
            /\ start + i - 1 <= diff[A[i]].number
            /\ Skipped(diff, A[i]) = {} => start + i - 1 = diff[A[i]].number
    BY <1>1, <1>4, CurrentLines
  <1>9. \A i, j \in 1..n : i < j => A[i] < A[j]
    BY <1>4 DEF CurrentInv, InOrder
  <1>10. start + n <= number /\ number \in Nat
    BY DEF CurrentInv, ShapeInv
  <1> HIDE DEF A, n, out, start
  <1>11. ASSUME NEW k \in DOMAIN out
         PROVE  /\ DOMAIN out[k].lines = 1..to[k] - at[k] + 1
                /\ \A a \in 1..to[k] - at[k] + 1 :
                       at[k] + a - 1 \in 1..n /\ out[k].lines[a] = A[at[k] + a - 1]
    <2>1. at[k] \in 1..n /\ to[k] \in 1..n /\ at[k] <= to[k]
      BY <1>5
    <2>2. out[k].lines = SubSeq(A, at[k], to[k])
      BY <1>5
    <2>3. \A f, l \in 1..n : f <= l =>
              /\ DOMAIN SubSeq(A, f, l) = 1..l - f + 1
              /\ \A a \in 1..l - f + 1 :
                     f + a - 1 \in 1..n /\ SubSeq(A, f, l)[a] = A[f + a - 1]
      BY <1>1, <1>4
    <2>4. /\ DOMAIN SubSeq(A, at[k], to[k]) = 1..to[k] - at[k] + 1
          /\ \A a \in 1..to[k] - at[k] + 1 :
                 at[k] + a - 1 \in 1..n /\ SubSeq(A, at[k], to[k])[a] = A[at[k] + a - 1]
      BY <2>1, <2>3, Zenon
    <2>5. QED
      BY <2>2, <2>4
  <1>12. \A k \in DOMAIN out :
             /\ 1 \in DOMAIN out[k].lines /\ out[k].lines[1] = A[at[k]]
    <2>1. \A k \in DOMAIN out : 1 \in 1..to[k] - at[k] + 1 /\ at[k] + 1 - 1 = at[k]
      BY <1>4, <1>5
    <2>2. QED
      BY <1>11, <2>1
  <1>13. ASSUME NEW k \in DOMAIN out PROVE Good(diff, out[k])
    <2>1. out[k].lines # <<>>
      BY <1>12
    <2>2. InOrder(out[k].lines)
      <3>1. SUFFICES ASSUME NEW a \in 1..to[k] - at[k] + 1, NEW b \in 1..to[k] - at[k] + 1, a < b
                     PROVE  out[k].lines[a] < out[k].lines[b]
        BY <1>11 DEF InOrder
      <3>2. at[k] + a - 1 < at[k] + b - 1
        BY <1>4, <1>5, <3>1
      <3>3. QED
        BY <1>9, <1>11, <3>2
    <2>3. \A a \in DOMAIN out[k].lines :
              /\ out[k].lines[a] \in Places /\ Kind(out[k].lines[a]) \in Added
              /\ diff[out[k].lines[a]].hunk = Hunk
      <3>1. \A a \in DOMAIN out[k].lines :
                at[k] + a - 1 \in 1..n /\ out[k].lines[a] = A[at[k] + a - 1]
        BY <1>11
      <3>2. QED
        BY <1>8, <3>1
    <2>4. diff[out[k].lines[1]].hunk = Hunk
      BY <1>12, <2>3, Zenon
    <2>5. /\ out[k].startLine <= diff[out[k].lines[1]].number
          /\ Skipped(diff, out[k].lines[1]) = {} => out[k].startLine = diff[out[k].lines[1]].number
      BY <1>5, <1>8, <1>12, Zenon
    <2>6. QED
      BY <2>1, <2>2, <2>3, <2>4, <2>5, Zenon DEF Good, Places, Kind
  <1>14. ASSUME NEW j \in DOMAIN out, NEW k \in DOMAIN out, j < k
         PROVE  Precedes(diff, out[j], out[k])
    <2>1. to[j] < at[k] /\ to[j] \in 1..n /\ at[k] \in 1..n /\ at[j] \in 1..n
      BY <1>5, <1>6, <1>14
    <2>2. ASSUME NEW a \in DOMAIN out[j].lines, NEW b \in DOMAIN out[k].lines
          PROVE  out[j].lines[a] < out[k].lines[b]
      <3>1. /\ a \in 1..to[j] - at[j] + 1
            /\ at[j] + a - 1 \in 1..n /\ out[j].lines[a] = A[at[j] + a - 1]
        BY <1>11, <2>2
      <3>2. /\ b \in 1..to[k] - at[k] + 1
            /\ at[k] + b - 1 \in 1..n /\ out[k].lines[b] = A[at[k] + b - 1]
        BY <1>11, <2>2
      <3>3. at[j] + a - 1 < at[k] + b - 1
        BY <1>4, <2>1, <3>1, <3>2
      <3>4. QED
        BY <1>9, <3>1, <3>2, <3>3
    <2>3. /\ diff[out[j].lines[1]].file = file
          /\ diff[out[k].lines[1]].file = file
      BY <1>8, <1>12, <2>1, Zenon
    <2>4. out[j].startLine < out[k].startLine
      <3>1. at[j] < at[k]
        BY <1>4, <1>5, <2>1
      <3>2. QED
        BY <1>1, <1>4, <1>5, <2>1, <3>1
    <2>5. QED
      BY <2>2, <2>3, <2>4, Zenon DEF Precedes
  <1>15. ASSUME NEW k \in DOMAIN out
         PROVE  /\ \A a \in DOMAIN out[k].lines : diff[out[k].lines[a]].hunk = Hunk
                /\ diff[out[k].lines[1]].file = file
                /\ out[k].startLine >= start
                /\ out[k].startLine < number
    <2>1. \A a \in DOMAIN out[k].lines : diff[out[k].lines[a]].hunk = Hunk
      <3>1. \A a \in DOMAIN out[k].lines :
                at[k] + a - 1 \in 1..n /\ out[k].lines[a] = A[at[k] + a - 1]
        BY <1>11
      <3>2. QED
        BY <1>8, <3>1
    <2>2. diff[out[k].lines[1]].file = file
      <3>1. at[k] \in 1..n /\ out[k].lines[1] = A[at[k]]
        BY <1>5, <1>12
      <3>2. QED
        BY <1>8, <3>1
    <2>3. out[k].startLine >= start /\ out[k].startLine < number
      BY <1>1, <1>4, <1>5, <1>10
    <2>4. QED
      BY <2>1, <2>2, <2>3
  <1>16. ASSUME NEW i \in 1..n PROVE Accounted(diff, A[i], out)
    <2>1. CASE \E k \in DOMAIN out : i \in at[k]..to[k]
      <3>1. PICK k \in DOMAIN out : i \in at[k]..to[k]
        BY <2>1
      <3>2. /\ i - at[k] + 1 \in 1..to[k] - at[k] + 1
            /\ at[k] + (i - at[k] + 1) - 1 = i
        BY <1>4, <1>5, <3>1
      <3>3. /\ i - at[k] + 1 \in DOMAIN out[k].lines
            /\ out[k].lines[i - at[k] + 1] = A[i]
        BY <1>11, <3>2
      <3>4. QED
        BY <3>3, Zenon DEF Accounted, ToLines
    <2>2. CASE Kind(A[i]) = "blank"
      BY <2>2 DEF Accounted, KnownLoss, Kind
    <2>3. CASE \E q \in 1..i :
                  /\ Kind(A[q]) = "tiny"
                  /\ \A j \in q..i : Kind(A[j]) \notin {"plain", "function"}
      <3>1. PICK m \in 1..i :
                  /\ Kind(A[m]) = "tiny"
                  /\ \A j \in m..i : Kind(A[j]) \notin {"plain", "function"}
        BY <2>3
      <3>2. m \in 1..n /\ m <= i
        BY <1>4
      <3>3. A[m] \in Places /\ A[i] \in Places /\ A[m] <= A[i]
            /\ diff[A[m]].hunk = Hunk /\ diff[A[i]].hunk = Hunk
        <4>1. A[m] \in Places /\ A[i] \in Places
              /\ diff[A[m]].hunk = Hunk /\ diff[A[i]].hunk = Hunk
          BY <1>8, <3>2
        <4>2. A[m] = A[i] \/ A[m] < A[i]
          BY <1>4, <1>9, <3>2
        <4>3. A[m] \in Int /\ A[i] \in Int
          BY <4>1, RowFacts DEF Places
        <4>4. QED
          BY <4>1, <4>2, <4>3
      <3>4. ASSUME NEW r \in A[m]..A[i], diff[r].kind \in {"plain", "function"}
            PROVE  FALSE
        <4>1. r \in Places
          BY <3>3, RowFacts DEF Places
        <4>2. diff[r].hunk = Hunk
          <5>1. diff[r].hunk \in Nat /\ diff[r].hunk <= Hunk /\ Hunk \in Nat
            BY <4>1, RowFacts, HunkIsLast
          <5>2. diff[r].hunk >= Hunk
            <6>1. r = A[m] \/ A[m] < r
              BY <3>3, RowFacts DEF Places
            <6>2. A[m] < r => diff[A[m]].hunk <= diff[r].hunk
              BY <3>3, <4>1 DEF RowInv
            <6>3. QED
              BY <3>3, <5>1, <6>1, <6>2
          <5>3. QED
            BY <5>1, <5>2
        <4>3. Collected(Kind(r))
          BY <3>4 DEF Collected, Kind
        <4>4. current # NoHunk
          BY <1>1, CurrentLines DEF A
        <4>5. PICK j \in 1..n : r = A[j]
          BY <1>4, <4>1, <4>2, <4>3, <4>4 DEF CurrentInv, ToLines, A
        <4>6. ~(A[j] < A[m]) /\ ~(A[i] < A[j])
          <5>1. A[m] \in Int /\ A[i] \in Int /\ r \in Int /\ A[m] <= r /\ r <= A[i]
            BY <3>3, RowFacts DEF Places
          <5>2. QED
            BY <4>5, <5>1
        <4>7. j \in m..i
          BY <1>4, <1>9, <3>2, <4>6
        <4>8. QED
          BY <3>1, <3>4, <4>5, <4>7 DEF Kind
      <3>5. A[m] \in 1..A[i]
        BY <3>3, RowFacts DEF Places
      <3>6. diff[A[m]].hunk = diff[A[i]].hunk /\ diff[A[m]].kind = "tiny"
        BY <3>1, <3>3 DEF Kind
      <3>7. QED
        BY <3>4, <3>5, <3>6, Zenon DEF Accounted, KnownLoss
    <2>4. CASE /\ \A j \in 1..i : ~IsStart(current, j)
               /\ \E j \in i + 1..n : IsStart(current, j)
      <3>1. ASSUME NEW q \in 1..A[i] - 1, diff[q].hunk = diff[A[i]].hunk,
                   diff[q].kind \in Boundary
            PROVE  FALSE
        <4>1. q \in Places /\ diff[q].hunk = Hunk /\ A[i] \in Places /\ q < A[i]
          <5>1. Len(diff) \in Nat
            BY DEF ShapeInv
          <5>2. QED
            BY <1>8, <3>1, <5>1 DEF Places
        <4>2. Collected(Kind(q))
          BY <3>1 DEF Collected, Kind, Boundary
        <4>3. current # NoHunk
          BY <1>1, CurrentLines DEF A
        <4>4. PICK j \in 1..n : q = A[j]
          BY <1>4, <4>1, <4>2, <4>3 DEF CurrentInv, ToLines, A
        <4>5. IsStart(current, j)
          BY <3>1, <4>4 DEF IsStart, Kind, A
        <4>6. j \in 1..i
          <5>1. ASSUME ~(j <= i) PROVE FALSE
            <6>1. A[i] < A[j]
              BY <1>4, <1>9, <5>1
            <6>2. QED
              BY <4>1, <4>4, <6>1 DEF Places
          <5>2. QED
            BY <1>4, <5>1
        <4>7. QED
          BY <2>4, <4>5, <4>6
      <3>2. \E q \in A[i]..Len(diff) : diff[q].hunk = diff[A[i]].hunk /\ diff[q].kind \in Boundary
        <4>1. PICK j \in i + 1..n : IsStart(current, j)
          BY <2>4
        <4>2. j \in 1..n /\ A[i] < A[j]
          BY <1>4, <1>9
        <4>3. A[j] \in A[i]..Len(diff)
          <5>1. Len(diff) \in Nat
            BY DEF ShapeInv
          <5>2. QED
            BY <1>8, <4>2, <5>1 DEF Places
        <4>4. diff[A[j]].hunk = diff[A[i]].hunk
          BY <1>8, <4>2
        <4>5. diff[A[j]].kind \in Boundary
          BY <4>1 DEF IsStart, Kind, A
        <4>6. QED
          BY <4>3, <4>4, <4>5
      <3>3. QED
        BY <3>1, <3>2, Zenon DEF Accounted, KnownLoss
    <2>5. QED
      BY <1>7, <2>1, <2>2, <2>3, <2>4
  <1>17. WellTaken(diff, out)
    BY <1>13, <1>14, Zenon DEF WellTaken
  <1>18. QED
    BY <1>3, <1>4, <1>15, <1>16, <1>17, Zenon DEF out, A, start

LEMMA SnippetPlaces ==
    ASSUME NEW d, NEW out \in Seq(Snippet), WellTaken(d, out)
    PROVE  \A i \in DOMAIN out :
               /\ 1 \in DOMAIN out[i].lines
               /\ out[i].startLine \in Nat
               /\ \A a \in DOMAIN out[i].lines : out[i].lines[a] \in 1..Len(d)
  <1>1. SUFFICES ASSUME NEW i \in DOMAIN out
                 PROVE  /\ 1 \in DOMAIN out[i].lines
                        /\ out[i].startLine \in Nat
                        /\ \A a \in DOMAIN out[i].lines : out[i].lines[a] \in 1..Len(d)
    OBVIOUS
  <1>2. Good(d, out[i])
    BY DEF WellTaken
  <1>3. out[i].lines \in Seq(Nat) /\ out[i].startLine \in Nat
    <2>1. \A T : \A list \in Seq(T) : \A j \in DOMAIN list : list[j] \in T
      OBVIOUS
    <2>2. out[i] \in Snippet
      BY <2>1, Zenon
    <2>3. QED
      BY <2>2 DEF Snippet
  <1>4. \A lines \in Seq(Nat) : lines # <<>> => 1 \in DOMAIN lines
    OBVIOUS
  <1>5. QED
    BY <1>2, <1>3, <1>4, Zenon DEF Good

\* What ExtractSnippets returns if the diff ends here.
LEMMA CompleteFacts ==
    ASSUME ParserInv
    PROVE  /\ Complete \in Seq(Snippet)
           /\ WellTaken(diff, Complete)
           /\ \A p \in Places : Kind(p) \in Added => Accounted(diff, p, Complete)
           /\ \A i \in DOMAIN Complete :
                  \/ diff[Complete[i].lines[1]].file < file
                  \/ current # NoHunk /\ Complete[i].startLine < number
  <1> DEFINE A == current.addedLines
             more == Snippets(current)
  <1> USE DEF ParserInv
  <1>0. /\ snippets \in Seq(Snippet) /\ WellTaken(diff, snippets)
        /\ number \in Nat /\ current.startLine \in Nat /\ A \in Seq(Nat) /\ file \in Nat
    BY DEF ShapeInv, SnippetInv
  <1>1. \A i \in DOMAIN snippets :
            /\ 1 \in DOMAIN snippets[i].lines
            /\ snippets[i].startLine \in Nat
            /\ \A a \in DOMAIN snippets[i].lines : snippets[i].lines[a] \in Places
    BY <1>0, SnippetPlaces DEF Places
  <1>2. current.startLine <= number
    <2>1. Len(A) \in Nat
      BY <1>0
    <2>2. current.startLine + Len(A) <= number
      BY DEF CurrentInv
    <2>3. QED
      BY <1>0, <2>1, <2>2
  <1>3. \A i \in DOMAIN snippets :
            \/ diff[snippets[i].lines[1]].file < file
            \/ current # NoHunk /\ snippets[i].startLine < number
    <2>1. SUFFICES ASSUME NEW i \in DOMAIN snippets,
                          ~(diff[snippets[i].lines[1]].file < file)
                   PROVE  current # NoHunk /\ snippets[i].startLine < number
      OBVIOUS
    <2>2. current # NoHunk /\ snippets[i].startLine < current.startLine
      BY <2>1 DEF SnippetInv
    <2>3. QED
      BY <1>0, <1>1, <1>2, <2>2
  <1>4. CASE A = <<>>
    <2>1. Complete = snippets
      BY <1>4 DEF Complete
    <2>2. ASSUME NEW p \in Places, Kind(p) \in Added
          PROVE  Accounted(diff, p, snippets)
      <3>1. current = NoHunk \/ diff[p].hunk < Hunk
        => Accounted(diff, p, snippets)
        BY <2>2 DEF SnippetInv
      <3>2. CASE current # NoHunk /\ ~(diff[p].hunk < Hunk)
        <4>1. diff[p].hunk = Hunk
          <5>1. diff[p].hunk \in Nat /\ Hunk \in Nat /\ diff[p].hunk <= Hunk
            BY RowFacts, HunkIsLast
          <5>2. QED
            BY <3>2, <5>1
        <4>2. ~Collected(Kind(p))
          <5>1. ToLines(A) = {}
            BY <1>4 DEF ToLines
          <5>2. QED
            BY <2>2, <3>2, <4>1, <5>1 DEF CurrentInv
        <4>3. Kind(p) = "plusplus"
          BY <2>2, <4>2 DEF Collected, Added
        <4>4. QED
          BY <4>3 DEF Accounted, KnownLoss, Kind
      <3>3. QED
        BY <3>1, <3>2
    <2>3. QED
      BY <1>0, <1>3, <2>1, <2>2
  <1>5. CASE A # <<>>
    <2>1. Complete = snippets \o more
      BY <1>5 DEF Complete
    <2>2. /\ more \in Seq(Snippet) /\ WellTaken(diff, more)
          /\ \A k \in DOMAIN more :
                 /\ \A a \in DOMAIN more[k].lines : diff[more[k].lines[a]].hunk = Hunk
                 /\ diff[more[k].lines[1]].file = file
                 /\ more[k].startLine >= current.startLine
                 /\ more[k].startLine < number
          /\ \A i \in DOMAIN A : Accounted(diff, A[i], more)
      BY <1>5, CurrentSnippets
    <2>3. current # NoHunk
      BY <1>5, CurrentLines
    <2> HIDE DEF A, more
    <2>4. \A k \in DOMAIN more :
              /\ 1 \in DOMAIN more[k].lines
              /\ more[k].startLine \in Nat
              /\ \A a \in DOMAIN more[k].lines : more[k].lines[a] \in Places
      BY <2>2, SnippetPlaces DEF Places
    <2>5. ASSUME NEW i \in DOMAIN snippets, NEW k \in DOMAIN more
          PROVE  Precedes(diff, snippets[i], more[k])
      <3>1. ASSUME NEW a \in DOMAIN snippets[i].lines, NEW b \in DOMAIN more[k].lines
            PROVE  snippets[i].lines[a] < more[k].lines[b]
        <4> DEFINE p == snippets[i].lines[a]
                   q == more[k].lines[b]
        <4>1. p \in Places /\ q \in Places
          BY <1>1, <2>4
        <4>2. diff[q].hunk = Hunk
          BY <2>2
        <4>3. diff[p].hunk < Hunk
          <5>1. diff[p].hunk = diff[snippets[i].lines[1]].hunk
            BY <1>0 DEF WellTaken, Good
          <5>2. diff[snippets[i].lines[1]].hunk < Hunk
            BY <2>3 DEF SnippetInv
          <5>3. QED
            BY <5>1, <5>2
        <4> HIDE DEF p, q
        <4>4. ~(p = q) /\ ~(q < p)
          <5>1. diff[p].hunk \in Nat /\ Hunk \in Nat
            BY <4>1, RowFacts
          <5>2. q < p => diff[q].hunk <= diff[p].hunk
            BY <4>1 DEF RowInv
          <5>3. QED
            BY <4>2, <4>3, <5>1, <5>2
        <4>5. p \in Int /\ q \in Int
          BY <4>1, RowFacts DEF Places
        <4>6. p < q
          BY <4>4, <4>5
        <4>7. QED
          BY <4>6 DEF p, q
      <3> DEFINE p == snippets[i].lines[1]
      <3>2. p \in Places
        BY <1>1
      <3>3. diff[more[k].lines[1]].file = file
        BY <2>2
      <3>4. diff[p].file < file \/ (diff[p].file = file /\ snippets[i].startLine < more[k].startLine)
        <4>1. diff[p].file \in Nat /\ diff[p].file <= file
          BY <3>2, RowFacts DEF RowInv
        <4>2. diff[p].file < file \/ snippets[i].startLine < current.startLine
          BY DEF SnippetInv
        <4>3. more[k].startLine >= current.startLine /\ more[k].startLine \in Nat
              /\ snippets[i].startLine \in Nat
          BY <1>1, <2>2, <2>4
        <4> HIDE DEF p
        <4>4. QED
          BY <1>0, <4>1, <4>2, <4>3
      <3>5. QED
        BY <3>1, <3>3, <3>4, Zenon DEF Precedes
    <2>6. WellTaken(diff, Complete)
      BY <1>0, <2>1, <2>2, <2>5, Joined
    <2>7. Complete \in Seq(Snippet)
      <3>1. \A T : \A s, t \in Seq(T) : s \o t \in Seq(T)
        OBVIOUS
      <3>2. QED
        BY <1>0, <2>1, <2>2, <3>1, Zenon
    <2>8. ASSUME NEW p \in Places, Kind(p) \in Added
          PROVE  Accounted(diff, p, Complete)
      <3>1. CASE diff[p].hunk < Hunk
        <4>1. Accounted(diff, p, snippets)
          BY <2>8, <3>1 DEF SnippetInv
        <4>2. QED
          BY <1>0, <2>1, <2>2, <4>1, JoinedAccounted
      <3>2. CASE ~(diff[p].hunk < Hunk)
        <4>1. diff[p].hunk = Hunk
          <5>1. diff[p].hunk \in Nat /\ Hunk \in Nat /\ diff[p].hunk <= Hunk
            BY RowFacts, HunkIsLast
          <5>2. QED
            BY <3>2, <5>1
        <4>2. CASE Collected(Kind(p))
          <5>1. p \in ToLines(A)
            BY <2>3, <4>1, <4>2 DEF CurrentInv, A
          <5>2. Accounted(diff, p, more)
            BY <2>2, <5>1 DEF ToLines
          <5>3. QED
            BY <1>0, <2>1, <2>2, <5>2, JoinedAccounted
        <4>3. CASE ~Collected(Kind(p))
          <5>1. Kind(p) = "plusplus"
            BY <2>8, <4>3 DEF Collected, Added
          <5>2. QED
            BY <5>1 DEF Accounted, KnownLoss, Kind
        <4>4. QED
          BY <4>2, <4>3
      <3>3. QED
        BY <3>1, <3>2
    <2>9. ASSUME NEW i \in DOMAIN Complete
          PROVE  \/ diff[Complete[i].lines[1]].file < file
                 \/ current # NoHunk /\ Complete[i].startLine < number
      <3>1. \/ i \in DOMAIN snippets /\ Complete[i] = snippets[i]
            \/ \E k \in DOMAIN more : Complete[i] = more[k]
        <4>1. \A s, t \in Seq(Snippet) : \A j \in DOMAIN (s \o t) :
                 \/ j \in DOMAIN s /\ (s \o t)[j] = s[j]
                 \/ j - Len(s) \in DOMAIN t /\ (s \o t)[j] = t[j - Len(s)]
          OBVIOUS
        <4>2. QED
          BY <1>0, <2>1, <2>2, <4>1, Zenon
      <3>2. QED
        BY <1>3, <2>2, <2>3, <3>1, Zenon
    <2>10. QED
      BY <2>6, <2>7, <2>8, <2>9
  <1>6. QED
    BY <1>4, <1>5

-----------------------------------------------------------------------------
(* The invariant is inductive *)

LEMMA ParserInit == Init => ParserInv
  <1> SUFFICES ASSUME Init PROVE ParserInv
    OBVIOUS
  <1>1. /\ diff = <<>> /\ snippets = <<>> /\ file = 1 /\ number = 1
        /\ current = NoHunk /\ current.startLine = 0 /\ current.addedLines = <<>>
    BY DEF Init, NoHunk
  <1>2. Places = {} /\ \A T : <<>> \in Seq(T) /\ DOMAIN <<>> = {} /\ Len(<<>>) = 0
    BY <1>1 DEF Places
  <1>3. ShapeInv
    BY <1>1, <1>2 DEF ShapeInv, NoHunk
  <1>4. RowInv
    BY <1>1, <1>2 DEF RowInv
  <1>5. CurrentInv
    BY <1>1, <1>2 DEF CurrentInv, InOrder
  <1>6. SnippetInv
    BY <1>1, <1>2 DEF SnippetInv, WellTaken
  <1>7. QED
    BY <1>3, <1>4, <1>5, <1>6 DEF ParserInv

\* What every step that reads a line keeps.
LEMMA ReadStep ==
    ASSUME ShapeInv, RowInv, NEW row \in Row, diff' = Append(diff, row),
           row.hunk >= Hunk, row.file = file, UNCHANGED file
    PROVE  /\ Len(diff) \in Nat /\ Len(diff)' = Len(diff) + 1
           /\ Places' = Places \cup {Len(diff) + 1} /\ Places = 1..Len(diff)
           /\ diff'[Len(diff) + 1] = row /\ Hunk' = row.hunk
           /\ \A p \in Places : diff'[p] = diff[p] /\ Skipped(diff', p) = Skipped(diff, p)
           /\ \A p, q \in Places' : p < q => diff'[p].hunk <= diff'[q].hunk
           /\ \A p \in Places' : diff'[p].file <= file
  <1>1. /\ diff' \in Seq(Row) /\ Len(diff') = Len(diff) + 1 /\ diff'[Len(diff) + 1] = row
        /\ \A p \in 1..Len(diff) : diff'[p] = diff[p] /\ Skipped(diff', p) = Skipped(diff, p)
    BY Grow DEF ShapeInv
  <1>2. /\ Len(diff) \in Nat /\ Hunk \in Nat
        /\ \A p \in Places : diff[p].hunk \in Nat /\ diff[p].hunk <= Hunk
    BY RowFacts, HunkIsLast
  <1>3. Places' = Places \cup {Len(diff) + 1} /\ Places = 1..Len(diff)
    BY <1>1, <1>2 DEF Places
  <1>4. Hunk' = row.hunk
    <2>1. diff' # <<>>
      BY <1>1, <1>2
    <2>2. QED
      BY <1>1, <2>1 DEF Hunk
  <1>5. row.hunk \in Nat /\ file \in Nat
    BY DEF Row, ShapeInv
  <1>6. ASSUME NEW p \in Places', NEW q \in Places', p < q
        PROVE  diff'[p].hunk <= diff'[q].hunk
    <2>1. p \in Places
      BY <1>2, <1>3, <1>6
    <2>2. CASE q \in Places
      BY <1>1, <1>3, <1>6, <2>1, <2>2 DEF RowInv
    <2>3. CASE q = Len(diff) + 1
      BY <1>1, <1>2, <1>3, <1>5, <2>1, <2>3
    <2>4. QED
      BY <1>3, <2>2, <2>3
  <1>7. \A p \in Places' : diff'[p].file <= file
    <2>1. \A p \in Places : diff'[p].file <= file
      BY <1>1, <1>3 DEF RowInv
    <2>2. diff'[Len(diff) + 1].file <= file
      BY <1>1, <1>5
    <2>3. QED
      BY <1>3, <2>1, <2>2
  <1>8. QED
    BY <1>1, <1>2, <1>3, <1>4, <1>6, <1>7

LEMMA LineStep ==
    ASSUME ParserInv, NEW kind \in Kinds, Line(kind)
    PROVE  ParserInv'
  <1> USE DEF ParserInv
  <1> DEFINE n == Len(diff) + 1
             A == current.addedLines
             row == [kind |-> kind, file |-> file, hunk |-> Hunk, number |-> number]
  <1>1. /\ current # NoHunk /\ diff' = Append(diff, row)
        /\ number' = IF kind = "removed" THEN number ELSE number + 1
        /\ current' = IF Collected(kind)
                      THEN [current EXCEPT !.addedLines = Append(@, n)] ELSE current
        /\ file' = file /\ snippets' = snippets
    BY DEF Line
  <1>2. /\ diff \in Seq(Row) /\ file \in Nat /\ number \in Nat \ {0}
        /\ current \in [startLine : Nat, addedLines : Seq(Nat)]
        /\ snippets \in Seq(Snippet) /\ A \in Seq(Nat) /\ current.startLine \in Nat
        /\ Hunk \in Nat
    BY RowFacts DEF ShapeInv
  <1>3. row \in Row /\ row.hunk = Hunk /\ row.file = file /\ row.kind = kind
        /\ row.number = number
    BY <1>2 DEF Row
  <1> HIDE DEF row
  <1>4. /\ Len(diff) \in Nat /\ Len(diff)' = n
        /\ Places' = Places \cup {n} /\ Places = 1..Len(diff)
        /\ diff'[n] = row /\ Hunk' = Hunk
        /\ \A p \in Places : diff'[p] = diff[p] /\ Skipped(diff', p) = Skipped(diff, p)
        /\ \A p, q \in Places' : p < q => diff'[p].hunk <= diff'[q].hunk
        /\ \A p \in Places' : diff'[p].file <= file
    <2>1. row.hunk >= Hunk
      BY <1>2, <1>3
    <2>2. QED
      BY <1>1, <1>3, <2>1, ReadStep
  <1>5. /\ current' \in [startLine : Nat, addedLines : Seq(Nat)]
        /\ current'.startLine = current.startLine
        /\ Collected(kind) => current'.addedLines = Append(A, n)
        /\ ~Collected(kind) => current'.addedLines = A
    <2>1. CASE Collected(kind)
      <3>1. Append(A, n) \in Seq(Nat)
        BY <1>2, <1>4
      <3>2. current' = [current EXCEPT !.addedLines = Append(A, n)]
        BY <1>1, <2>1
      <3>3. QED
        BY <1>2, <2>1, <3>1, <3>2
    <2>2. CASE ~Collected(kind)
      BY <1>1, <1>2, <2>2
    <2>3. QED
      BY <2>1, <2>2
  <1>6. current' # NoHunk /\ current.startLine > 0
    <2>1. current.startLine > 0
      BY <1>1 DEF CurrentInv
    <2>2. QED
      BY <1>5, <2>1 DEF NoHunk
  <1>7. Append(A, n) \in Seq(Nat) /\ DOMAIN Append(A, n) = DOMAIN A \cup {Len(A) + 1}
        /\ Len(A) \in Nat /\ DOMAIN A = 1..Len(A)
        /\ Append(A, n)[Len(A) + 1] = n /\ Len(Append(A, n)) = Len(A) + 1
        /\ \A i \in DOMAIN A : Append(A, n)[i] = A[i]
    BY <1>2, <1>4
  <1>8. ToLines(A) = {p \in Places : diff[p].hunk = Hunk /\ Collected(Kind(p))}
    BY <1>1 DEF CurrentInv
  <1>9. \A i \in DOMAIN A : A[i] \in Places
    BY <1>8 DEF ToLines
  <1> HIDE DEF A, n
  <1>10. ShapeInv'
    <2>1. number' \in Nat \ {0}
      BY <1>1, <1>2
    <2>2. diff' \in Seq(Row)
      BY <1>1, <1>2, <1>3, Grow
    <2>3. QED
      BY <1>1, <1>2, <1>5, <2>1, <2>2 DEF ShapeInv
  <1>11. RowInv'
    <2>1. ASSUME NEW p \in Places', diff'[p].hunk = Hunk PROVE diff'[p].file = file
      <3>1. CASE p \in Places
        BY <1>1, <1>4, <2>1, <3>1 DEF RowInv
      <3>2. CASE p = n
        BY <1>3, <1>4, <3>2
      <3>3. QED
        BY <1>4, <3>1, <3>2
    <2>2. QED
      BY <1>1, <1>4, <2>1 DEF RowInv
  <1>12. CurrentInv'
    <2>1. InOrder(current'.addedLines)
      <3>1. CASE Collected(kind)
        <4>1. \A i \in DOMAIN A : A[i] < n
          BY <1>4, <1>9 DEF n
        <4>2. \A a, b \in DOMAIN A \cup {Len(A) + 1} : a < b => Append(A, n)[a] < Append(A, n)[b]
          <5>1. SUFFICES ASSUME NEW a \in DOMAIN A \cup {Len(A) + 1},
                                NEW b \in DOMAIN A \cup {Len(A) + 1}, a < b
                         PROVE  Append(A, n)[a] < Append(A, n)[b]
            OBVIOUS
          <5>2. a \in DOMAIN A
            BY <1>7, <5>1
          <5>3. CASE b \in DOMAIN A
            BY <1>7, <5>1, <5>2, <5>3 DEF CurrentInv, InOrder, A
          <5>4. CASE b = Len(A) + 1
            BY <1>7, <4>1, <5>2, <5>4
          <5>5. QED
            BY <5>3, <5>4
        <4>3. QED
          BY <1>5, <1>7, <3>1, <4>2 DEF InOrder
      <3>2. CASE ~Collected(kind)
        BY <1>5, <3>2 DEF CurrentInv, A
      <3>3. QED
        BY <3>1, <3>2
    <2>2. ToLines(current'.addedLines) =
              {p \in Places' : diff'[p].hunk = Hunk /\ Collected(diff'[p].kind)}
      <3>1. {p \in Places' : diff'[p].hunk = Hunk /\ Collected(diff'[p].kind)}
                = ToLines(A) \cup (IF Collected(kind) THEN {n} ELSE {})
        BY <1>3, <1>4, <1>8 DEF Kind
      <3>2. CASE Collected(kind)
        <4>1. ToLines(Append(A, n)) = ToLines(A) \cup {n}
          BY <1>7 DEF ToLines
        <4>2. QED
          BY <1>5, <3>1, <3>2, <4>1
      <3>3. CASE ~Collected(kind)
        BY <1>5, <3>1, <3>3
      <3>4. QED
        BY <3>2, <3>3
    <2>3. \A i \in DOMAIN A :
              /\ current.startLine + i - 1 <= diff'[A[i]].number
              /\ Skipped(diff', A[i]) = {} => current.startLine + i - 1 = diff'[A[i]].number
      BY <1>4, <1>9 DEF CurrentInv, A
    <2>4. /\ current.startLine + Len(A) <= number
          /\ \/ current.startLine + Len(A) = number
             \/ \E p \in Places : diff[p].hunk = Hunk /\ Kind(p) \in {"context", "plusplus"}
      BY <1>1 DEF CurrentInv, A
    <2>5. Skipped(diff', n) = {} => current.startLine + Len(A) = number
      <3>1. ASSUME NEW p \in Places, diff[p].hunk = Hunk, Kind(p) \in {"context", "plusplus"}
            PROVE  p \in Skipped(diff', n)
        <4>1. p \in 1..n - 1
          BY <1>4 DEF n
        <4>2. QED
          BY <1>3, <1>4, <3>1, <4>1 DEF Skipped, Kind
      <3>2. QED
        BY <2>4, <3>1
    <2>6. \A i \in DOMAIN current'.addedLines :
              /\ current.startLine + i - 1 <= diff'[current'.addedLines[i]].number
              /\ Skipped(diff', current'.addedLines[i]) = {}
                    => current.startLine + i - 1 = diff'[current'.addedLines[i]].number
      <3>1. CASE Collected(kind)
        <4>1. \A i \in DOMAIN A : Append(A, n)[i] = A[i]
          BY <1>7
        <4>2. current.startLine + (Len(A) + 1) - 1 = current.startLine + Len(A)
          BY <1>2, <1>7
        <4>3. diff'[n].number = number
          BY <1>3, <1>4
        <4>4. /\ current.startLine + (Len(A) + 1) - 1 <= diff'[Append(A, n)[Len(A) + 1]].number
              /\ Skipped(diff', Append(A, n)[Len(A) + 1]) = {}
                    => current.startLine + (Len(A) + 1) - 1 = diff'[Append(A, n)[Len(A) + 1]].number
          BY <1>7, <2>4, <2>5, <4>2, <4>3
        <4>5. QED
          BY <1>5, <1>7, <2>3, <3>1, <4>1, <4>4
      <3>2. CASE ~Collected(kind)
        BY <1>5, <2>3, <3>2
      <3>3. QED
        BY <3>1, <3>2
    <2>7. current.startLine + Len(current'.addedLines) <= number'
      <3>1. CASE Collected(kind)
        <4>1. number' = number + 1
          BY <1>1, <3>1 DEF Collected
        <4>2. Len(current'.addedLines) = Len(A) + 1 /\ Len(A) \in Nat
          BY <1>5, <1>7, <3>1
        <4>3. current.startLine \in Nat /\ number \in Nat /\ current.startLine + Len(A) <= number
          BY <1>2, <2>4
        <4>4. QED
          BY <4>1, <4>2, <4>3
      <3>2. CASE ~Collected(kind)
        BY <1>1, <1>2, <1>5, <1>7, <2>4, <3>2
      <3>3. QED
        BY <3>1, <3>2
    <2>8. \/ current.startLine + Len(current'.addedLines) = number'
          \/ \E p \in Places' : diff'[p].hunk = Hunk /\ diff'[p].kind \in {"context", "plusplus"}
      <3>1. CASE \E p \in Places : diff[p].hunk = Hunk /\ Kind(p) \in {"context", "plusplus"}
        BY <1>4, <3>1 DEF Kind
      <3>2. CASE kind \in {"context", "plusplus"}
        BY <1>3, <1>4, <3>2
      <3>3. CASE kind \notin {"context", "plusplus"} /\ current.startLine + Len(A) = number
        <4>1. CASE Collected(kind)
          <5>1. number' = number + 1
            BY <1>1, <4>1 DEF Collected
          <5>2. Len(current'.addedLines) = Len(A) + 1 /\ Len(A) \in Nat
            BY <1>5, <1>7, <4>1
          <5>3. current.startLine \in Nat /\ number \in Nat
            BY <1>2
          <5>4. QED
            BY <3>3, <5>1, <5>2, <5>3
        <4>2. CASE ~Collected(kind)
          <5>1. kind = "removed"
            BY <3>3, <4>2 DEF Kinds, Added, Collected
          <5>2. QED
            BY <1>1, <1>5, <3>3, <4>2, <5>1
        <4>3. QED
          BY <4>1, <4>2
      <3>4. QED
        BY <2>4, <3>1, <3>2, <3>3
    <2>9. QED
      BY <1>4, <1>5, <1>6, <2>1, <2>2, <2>6, <2>7, <2>8 DEF CurrentInv, Kind
  <1>13. SnippetInv'
    <2>1. WellTaken(diff, snippets)
      BY DEF SnippetInv
    <2>2. WellTaken(diff', snippets)
      BY <1>1, <1>2, <1>3, <2>1, GrowSnippets
    <2>3. \A i \in DOMAIN snippets : snippets[i].lines[1] \in Places
      BY <1>2, <2>1, SnippetPlaces DEF Places
    <2>4. ASSUME NEW p \in Places', diff'[p].hunk < Hunk, diff'[p].kind \in Added
          PROVE  Accounted(diff', p, snippets)
      <3>1. p \in Places
        BY <1>2, <1>3, <1>4, <2>4
      <3>2. Accounted(diff, p, snippets)
        BY <1>4, <2>4, <3>1 DEF SnippetInv, Kind
      <3>3. QED
        BY <1>1, <1>2, <1>3, <1>4, <3>1, <3>2, GrowAccounted
    <2>5. \A i \in DOMAIN snippets :
              /\ \/ diff'[snippets[i].lines[1]].file < file
                 \/ snippets[i].startLine < current.startLine
              /\ diff'[snippets[i].lines[1]].hunk < Hunk
      BY <1>1, <1>4, <2>3 DEF SnippetInv
    <2>6. QED
      BY <1>1, <1>4, <1>5, <1>6, <2>2, <2>4, <2>5 DEF SnippetInv, Kind
  <1>14. QED
    BY <1>10, <1>11, <1>12, <1>13

LEMMA HunkHeaderStep ==
    ASSUME ParserInv, NEW c, HunkHeader(c)
    PROVE  ParserInv'
  <1> USE DEF ParserInv
  <1> DEFINE n == Len(diff) + 1
             row == [kind |-> "header", file |-> file, hunk |-> Hunk + 1, number |-> c]
  <1>1. /\ c \in number..number + 1 /\ diff' = Append(diff, row)
        /\ snippets' = Complete
        /\ current' = [startLine |-> c, addedLines |-> <<>>]
        /\ number' = c /\ file' = file
    BY DEF HunkHeader
  <1>2. /\ diff \in Seq(Row) /\ file \in Nat /\ number \in Nat \ {0} /\ Hunk \in Nat
    BY RowFacts DEF ShapeInv
  <1>3. c \in Nat \ {0} /\ number <= c
    BY <1>1, <1>2
  <1>4. row \in Row /\ row.hunk = Hunk + 1 /\ row.file = file /\ row.kind = "header"
    BY <1>2, <1>3 DEF Row
  <1> HIDE DEF row
  <1>5. /\ Len(diff) \in Nat /\ Len(diff)' = n
        /\ Places' = Places \cup {n} /\ Places = 1..Len(diff)
        /\ diff'[n] = row /\ Hunk' = Hunk + 1
        /\ \A p \in Places : diff'[p] = diff[p] /\ Skipped(diff', p) = Skipped(diff, p)
        /\ \A p, q \in Places' : p < q => diff'[p].hunk <= diff'[q].hunk
        /\ \A p \in Places' : diff'[p].file <= file
    <2>1. row.hunk >= Hunk
      BY <1>2, <1>4
    <2>2. QED
      BY <1>1, <1>4, <2>1, ReadStep
  <1>6. \A p \in Places : diff[p].hunk \in Nat /\ diff[p].hunk <= Hunk
    BY RowFacts, HunkIsLast
  <1>7. \A p \in Places' : diff'[p].hunk = Hunk + 1 => p = n
    <2>1. \A p \in Places : diff'[p].hunk # Hunk + 1
      BY <1>2, <1>5, <1>6
    <2>2. QED
      BY <1>5, <2>1
  <1>8. /\ current'.startLine = c /\ current'.addedLines = <<>> /\ current' # NoHunk
    BY <1>1, <1>3 DEF NoHunk
  <1>9. /\ Complete \in Seq(Snippet) /\ WellTaken(diff, Complete)
        /\ \A p \in Places : Kind(p) \in Added => Accounted(diff, p, Complete)
        /\ \A i \in DOMAIN Complete :
               \/ diff[Complete[i].lines[1]].file < file
               \/ Complete[i].startLine < number
    BY CompleteFacts
  <1>10. PICK out : out = Complete
    OBVIOUS
  <1> HIDE DEF n
  <1>11. ShapeInv'
    <2>1. diff' \in Seq(Row)
      BY <1>1, <1>2, <1>4, Grow
    <2>2. current' \in [startLine : Nat, addedLines : Seq(Nat)]
      BY <1>1, <1>3
    <2>3. QED
      BY <1>1, <1>2, <1>3, <1>9, <2>1, <2>2 DEF ShapeInv
  <1>12. RowInv'
    <2>1. ASSUME NEW p \in Places', diff'[p].hunk = Hunk + 1 PROVE diff'[p].file = file
      BY <1>4, <1>5, <1>7, <2>1
    <2>2. QED
      BY <1>1, <1>5, <2>1 DEF RowInv
  <1>13. CurrentInv'
    <2>1. InOrder(<<>>) /\ ToLines(<<>>) = {} /\ DOMAIN <<>> = {} /\ Len(<<>>) = 0
      BY DEF InOrder, ToLines
    <2>2. {p \in Places' : diff'[p].hunk = Hunk + 1 /\ Collected(diff'[p].kind)} = {}
      <3>1. ~Collected("header")
        BY DEF Collected
      <3>2. QED
        BY <1>4, <1>5, <1>7, <3>1
    <2>3. c + 0 = c /\ c > 0 /\ c <= c
      BY <1>3
    <2>4. QED
      BY <1>1, <1>5, <1>8, <2>1, <2>2, <2>3 DEF CurrentInv, Kind
  <1>14. SnippetInv'
    <2>1. snippets' = out /\ out \in Seq(Snippet) /\ WellTaken(diff, out)
      BY <1>1, <1>9, <1>10
    <2>2. WellTaken(diff', out)
      BY <1>1, <1>2, <1>4, <2>1, GrowSnippets
    <2>3. /\ \A i \in DOMAIN out : /\ out[i].lines[1] \in Places
                                    /\ out[i].startLine \in Nat
      BY <2>1, SnippetPlaces DEF Places
    <2>4. ASSUME NEW p \in Places', diff'[p].hunk < Hunk + 1, diff'[p].kind \in Added
          PROVE  Accounted(diff', p, out)
      <3>1. p \in Places
        BY <1>2, <1>4, <1>5, <2>4
      <3>2. Accounted(diff, p, out)
        BY <1>5, <1>9, <1>10, <2>4, <3>1 DEF Kind
      <3>3. QED
        BY <1>1, <1>2, <1>4, <1>5, <3>1, <3>2, GrowAccounted
    <2>5. \A i \in DOMAIN out :
              /\ \/ diff'[out[i].lines[1]].file < file
                 \/ out[i].startLine < c
              /\ diff'[out[i].lines[1]].hunk < Hunk + 1
      <3>1. SUFFICES ASSUME NEW i \in DOMAIN out
                     PROVE  /\ \/ diff'[out[i].lines[1]].file < file
                               \/ out[i].startLine < c
                            /\ diff'[out[i].lines[1]].hunk < Hunk + 1
        OBVIOUS
      <3>2. diff'[out[i].lines[1]] = diff[out[i].lines[1]]
        BY <1>5, <2>3
      <3>3. \/ diff[out[i].lines[1]].file < file
            \/ out[i].startLine < number
        BY <1>9, <1>10
      <3>4. diff[out[i].lines[1]].hunk < Hunk + 1
        BY <1>2, <1>6, <2>3
      <3>5. out[i].startLine < number => out[i].startLine < c
        BY <1>2, <1>3, <2>3
      <3>6. QED
        BY <3>2, <3>3, <3>4, <3>5
    <2>6. QED
      BY <1>1, <1>5, <1>8, <2>1, <2>2, <2>4, <2>5 DEF SnippetInv, Kind
  <1>15. QED
    BY <1>11, <1>12, <1>13, <1>14

LEMMA NextFileStep ==
    ASSUME ParserInv, NextFile
    PROVE  ParserInv'
  <1> USE DEF ParserInv
  <1>1. /\ snippets' = Complete /\ file' = file + 1 /\ number' = 1
        /\ current' = NoHunk /\ diff' = diff
    BY DEF NextFile, Returned
  <1>2. /\ Complete \in Seq(Snippet) /\ WellTaken(diff, Complete)
        /\ \A p \in Places : Kind(p) \in Added => Accounted(diff, p, Complete)
    BY CompleteFacts
  <1>3. NoHunk.startLine = 0 /\ NoHunk.addedLines = <<>>
        /\ NoHunk \in [startLine : Nat, addedLines : Seq(Nat)]
    BY DEF NoHunk
  <1>4. Places' = Places /\ \A p \in Places : Kind(p)' = Kind(p)
    BY <1>1 DEF Places, Kind
  <1>5. ShapeInv'
    BY <1>1, <1>2, <1>3 DEF ShapeInv
  <1>6. \A p \in Places : diff[p].file < file + 1 /\ diff[p].file <= file + 1
    <2>1. \A p \in Places : diff[p].file \in Nat /\ diff[p].file <= file
      BY RowFacts DEF RowInv
    <2>2. file \in Nat
      BY DEF ShapeInv
    <2>3. QED
      BY <2>1, <2>2
  <1>7. RowInv'
    BY <1>1, <1>4, <1>6 DEF RowInv
  <1>8. CurrentInv'
    <2>1. InOrder(<<>>) /\ DOMAIN <<>> = {} /\ Len(<<>>) = 0
      BY DEF InOrder
    <2>2. QED
      BY <1>1, <1>3, <2>1 DEF CurrentInv
  <1>9. SnippetInv'
    <2>1. \A i \in DOMAIN Complete : Complete[i].lines[1] \in Places
      BY <1>2, SnippetPlaces DEF Places
    <2>2. PICK out : out = Complete
      OBVIOUS
    <2>3. /\ snippets' = out /\ WellTaken(diff, out)
          /\ \A p \in Places : Kind(p) \in Added => Accounted(diff, p, out)
          /\ \A i \in DOMAIN out : diff[out[i].lines[1]].file < file + 1
      BY <1>1, <1>2, <1>6, <2>1, <2>2
    <2>4. QED
      BY <1>1, <1>4, <2>3 DEF SnippetInv
  <1>10. QED
    BY <1>5, <1>7, <1>8, <1>9

LEMMA ParserStep == ParserInv /\ [Next]_vars => ParserInv'
  <1> SUFFICES ASSUME ParserInv, [Next]_vars PROVE ParserInv'
    OBVIOUS
  <1>1. ASSUME NEW kind \in Kinds, Line(kind) PROVE ParserInv'
    BY <1>1, LineStep
  <1>2. ASSUME NEW c \in 1..2 * MaxLines, HunkHeader(c) PROVE ParserInv'
    BY <1>2, HunkHeaderStep
  <1>3. CASE NextFile
    BY <1>3, NextFileStep
  <1>4. CASE UNCHANGED vars
    BY <1>4 DEF vars, ParserInv, ShapeInv, RowInv, CurrentInv, SnippetInv,
                Places, Hunk, Kind
  <1>5. QED
    BY <1>1, <1>2, <1>3, <1>4 DEF Next

-----------------------------------------------------------------------------
(* Theorems *)

\* At every point of every diff, the invariant holds.
THEOREM ParserCorrect == Spec => []ParserInv
  BY ParserInit, ParserStep, PTL DEF Spec

\* ExtractSnippets takes its snippets from the diff in order, each from the
\* added lines of one hunk, and no line twice.
THEOREM ParserKeepsOrder == Spec => []SnippetsInOrder
  <1>1. ParserInv => SnippetsInOrder
    <2> SUFFICES ASSUME ParserInv PROVE SnippetsInOrder
      OBVIOUS
    <2>1. WellTaken(diff, Returned) /\ Returned \in Seq(Snippet)
      BY CompleteFacts DEF Returned
    <2>2. ASSUME NEW i \in DOMAIN Returned
          PROVE  LET lines == Returned[i].lines IN
                 /\ \A a, b \in DOMAIN lines : a < b => lines[a] < lines[b]
                 /\ \A p, q \in ToLines(lines) : Kind(p) \in Added /\ diff[p].hunk = diff[q].hunk
      BY <2>1 DEF WellTaken, Good, InOrder, ToLines, Kind
    <2>3. ASSUME NEW i \in DOMAIN Returned, NEW j \in DOMAIN Returned, i < j
          PROVE  \A p \in ToLines(Returned[i].lines), q \in ToLines(Returned[j].lines) : p < q
      BY <2>1, <2>3 DEF WellTaken, Precedes, ToLines
    <2>4. QED
      BY <2>2, <2>3 DEF SnippetsInOrder
  <1>2. QED
    BY <1>1, ParserCorrect, PTL

\* Every added line that is in no snippet is one of those that LossIsKnown names.
THEOREM ParserLosesKnown == Spec => []LossIsKnown
  <1>1. ParserInv => LossIsKnown
    <2> SUFFICES ASSUME ParserInv, NEW p \in Places, Kind(p) \in Added, p \notin Extracted
                 PROVE  \/ Kind(p) \in {"plusplus", "blank"}
                        \/ \E q \in BeforeInHunk(p) \cup {p} :
                               Kind(q) = "tiny" /\ \A r \in q..p : Kind(r) \notin {"plain", "function"}
                        \/ /\ \A q \in BeforeInHunk(p) : Kind(q) \notin Boundary
                           /\ \E q \in p..Len(diff) : diff[q].hunk = diff[p].hunk /\ Kind(q) \in Boundary
      BY DEF LossIsKnown
    <2>1. Accounted(diff, p, Returned)
      BY CompleteFacts DEF Returned
    <2>2. KnownLoss(diff, p)
      BY <2>1 DEF Accounted, Extracted
    <2>3. BeforeInHunk(p) \cup {p} = {q \in 1..p : diff[q].hunk = diff[p].hunk}
      <3>1. p \in 1..Len(diff) /\ Len(diff) \in Nat
        BY RowFacts DEF ParserInv, Places
      <3>2. QED
        BY <3>1 DEF BeforeInHunk
    <2>4. QED
      BY <2>2, <2>3 DEF KnownLoss, BeforeInHunk, Kind
  <1>2. QED
    BY <1>1, ParserCorrect, PTL

\* The number of a snippet is never above that of its first line, and is this
\* number if the hunk has no line before it that is skipped.
THEOREM ParserNumbers == Spec => []NumbersFromAbove
  <1>1. ParserInv => NumbersFromAbove
    <2> SUFFICES ASSUME ParserInv PROVE NumbersFromAbove
      OBVIOUS
    <2>1. WellTaken(diff, Returned)
      BY CompleteFacts DEF Returned
    <2>2. \A p : Skipped(diff, p) = {q \in BeforeInHunk(p) : Kind(q) \in {"context", "plusplus"}}
      BY DEF Skipped, BeforeInHunk, Kind
    <2>3. QED
      BY <2>1, <2>2 DEF NumbersFromAbove, WellTaken, Good
  <1>2. QED
    BY <1>1, ParserCorrect, PTL

\* FormatSnippetID gives no two snippets of a commit the same identifier.
THEOREM ParserIdentifies == Spec => []UniqueIDs
  <1>1. ParserInv => UniqueIDs
    <2> SUFFICES ASSUME ParserInv, NEW i \in DOMAIN Returned, NEW j \in DOMAIN Returned, i # j
                 PROVE  SnippetID(Returned[i]) # SnippetID(Returned[j])
      BY DEF UniqueIDs
    <2>1. WellTaken(diff, Returned) /\ Returned \in Seq(Snippet)
      BY CompleteFacts DEF Returned
    <2>2. /\ Returned[i].startLine \in Nat /\ Returned[j].startLine \in Nat
          /\ diff[Returned[i].lines[1]].file \in Nat /\ diff[Returned[j].lines[1]].file \in Nat
      <3>1. \A k \in DOMAIN Returned : Returned[k].startLine \in Nat /\ Returned[k].lines[1] \in Places
        BY <2>1, SnippetPlaces DEF Places
      <3>2. \A p \in Places : diff[p].file \in Nat
        BY RowFacts DEF ParserInv
      <3>3. QED
        BY <3>1, <3>2
    <2>3. i < j \/ j < i
      <3>1. i \in Int /\ j \in Int
        BY <2>1
      <3>2. QED
        BY <3>1
    <2>4. ASSUME NEW k \in DOMAIN Returned, NEW l \in DOMAIN Returned, k < l
          PROVE  \/ diff[Returned[k].lines[1]].file < diff[Returned[l].lines[1]].file
                 \/ Returned[k].startLine < Returned[l].startLine
      BY <2>1, <2>4 DEF WellTaken, Precedes
    <2>5. \/ diff[Returned[i].lines[1]].file # diff[Returned[j].lines[1]].file
          \/ Returned[i].startLine # Returned[j].startLine
      BY <2>2, <2>3, <2>4
    <2>6. QED
      BY <2>5 DEF SnippetID
  <1>2. QED
    BY <1>1, ParserCorrect, PTL
=============================================================================
