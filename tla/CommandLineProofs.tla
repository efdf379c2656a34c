--------------------------- MODULE CommandLineProofs --------------------------
(***************************************************************************)
(* Proofs about CommandLine, for texts of any length over any characters:  *)
(* the arguments that opc gets.  A text grows by a character at a time;    *)
(* for each conversion there is a lemma on what one more character, or one *)
(* more component, does to its result.                                     *)
(***************************************************************************)
EXTENDS CommandLine, SequenceTheorems, FunctionTheorems, TLAPS

-----------------------------------------------------------------------------
(***************************************************************************)
(* Induction over numbers.                                                 *)
(***************************************************************************)
\* Every set of naturals has a least element.  Otherwise whatever is at or above
\* an element of it could be moved down by one, and 1 .. b would fit into
\* 1 .. b - 1 for an element b, against the pigeonhole principle of the library.
LEMMA Least ==
    ASSUME NEW S \in SUBSET Nat, S # {}
    PROVE  \E n \in S : \A m \in S : n <= m
<1> SUFFICES ASSUME \A n \in S : \E m \in S : m < n PROVE FALSE
  OBVIOUS
<1> DEFINE Above == {n \in Nat : \E m \in S : m <= n}
<1>1. PICK b \in Nat : b \in S
  BY Zenon
<1>2. b \in Above
  BY <1>1
<1>3. \A n \in Above : n \in Nat /\ n # 0 /\ n - 1 \in Above
  <2> SUFFICES ASSUME NEW n \in Above PROVE n # 0 /\ n - 1 \in Above
    OBVIOUS
  <2>1. PICK m \in S : m <= n
    OBVIOUS
  <2>2. PICK k \in S : k < m
    OBVIOUS
  <2>3. QED
    BY <2>1, <2>2
<1> HIDE DEF Above
<1> DEFINE Down == [i \in 1 .. b |-> IF i \in Above THEN i - 1 ELSE i]
<1>4. b - 1 \in Nat
  BY <1>1, <1>2, <1>3
<1>5. Down \in [1 .. b -> 1 .. b - 1]
  BY <1>1, <1>2, <1>3
<1>6. \A i, j \in 1 .. b : Down[i] = Down[j] => i = j
  BY <1>3
<1> HIDE DEF Down
<1>7. ExistsInjection(1 .. b, 1 .. b - 1)
  BY <1>5, <1>6, Fun_IsInj DEF ExistsInjection
<1>8. b <= b - 1
  BY <1>1, <1>4, <1>7, Fun_NatInjLeq
<1>9. QED
  BY <1>1, <1>8

\* Induction over 0 .. n: a set with 0 and with the successor of each of its
\* members has all of it.
LEMMA Reached ==
    ASSUME NEW n \in Nat, NEW S, 0 \in S, \A k \in 1 .. n : k - 1 \in S => k \in S
    PROVE  0 .. n \subseteq S
<1> DEFINE Bad == {k \in 0 .. n : k \notin S}
<1>1. SUFFICES ASSUME Bad # {} PROVE FALSE
  OBVIOUS
<1>2. Bad \in SUBSET Nat
  OBVIOUS
<1>3. PICK k \in Bad : \A m \in Bad : k <= m
  <2> HIDE DEF Bad
  <2> QED BY <1>1, <1>2, Least
<1>4. k \in 1 .. n /\ k - 1 \notin Bad
  BY <1>3
<1> QED BY <1>4

-----------------------------------------------------------------------------
(***************************************************************************)
(* Sequences.                                                              *)
(***************************************************************************)
\* Concatenation, as a name that is not looked into.
Cat(s, t) == s \o t

\* What concatenation gives.
LEMMA CatType ==
    ASSUME NEW S, NEW s \in Seq(S), NEW t \in Seq(S)
    PROVE  Cat(s, t) \in Seq(S)
BY DEF Cat

LEMMA CatEmpty ==
    ASSUME NEW S, NEW s \in Seq(S)
    PROVE  Cat(s, <<>>) = s
BY ConcatEmptySeq DEF Cat

LEMMA CatAssociative ==
    ASSUME NEW S, NEW s \in Seq(S), NEW t \in Seq(S), NEW u \in Seq(S)
    PROVE  Cat(Cat(s, t), u) = Cat(s, Cat(t, u))
BY ConcatAssociative DEF Cat

\* Concatenation with one and with two characters.
LEMMA CatOne ==
    ASSUME NEW S, NEW s \in Seq(S), NEW x \in S
    PROVE  Cat(s, <<x>>) = Append(s, x)
BY AppendIsConcat DEF Cat

\* A part of a text is not changed by a character behind it.
LEMMA AppendSub ==
    ASSUME NEW S, NEW s \in Seq(S), NEW x \in S, NEW a \in 1 .. Len(s) + 1, NEW b \in a - 1 .. Len(s)
    PROVE  SubSeq(Append(s, x), a, b) = SubSeq(s, a, b)
<1> DEFINE t == Append(s, x)
<1>1. Len(s) \in Nat
  OBVIOUS
<1>2. \A i \in 1 .. Len(s) : t[i] = s[i] /\ s[i] \in S
  BY AppendProperties
<1> HIDE DEF t
<1>3. a \in Int /\ b \in Int /\ \A i \in a .. b : i \in 1 .. Len(s)
  BY <1>1
<1>4. \A i \in a .. b : t[i] \in S /\ s[i] \in S
  BY <1>2, <1>3
<1>5. /\ SubSeq(t, a, b) \in Seq(S)
      /\ Len(SubSeq(t, a, b)) = IF a <= b THEN b - a + 1 ELSE 0
      /\ \A i \in 1 .. b - a + 1 : SubSeq(t, a, b)[i] = t[a + i - 1]
  BY <1>3, <1>4, SubSeqProperties
<1>6. /\ SubSeq(s, a, b) \in Seq(S)
      /\ Len(SubSeq(s, a, b)) = IF a <= b THEN b - a + 1 ELSE 0
      /\ \A i \in 1 .. b - a + 1 : SubSeq(s, a, b)[i] = s[a + i - 1]
  BY <1>3, <1>4, SubSeqProperties
<1>7. \A i \in 1 .. b - a + 1 : t[a + i - 1] = s[a + i - 1]
  <2> TAKE i \in 1 .. b - a + 1
  <2>1. a + i - 1 \in 1 .. Len(s)
    BY <1>1, <1>3
  <2>2. QED
    BY <1>2, <2>1
<1>8. Len(SubSeq(t, a, b)) = Len(SubSeq(s, a, b))
  BY <1>5, <1>6
<1>9. \A i \in 1 .. Len(SubSeq(t, a, b)) : SubSeq(t, a, b)[i] = SubSeq(s, a, b)[i]
  BY <1>3, <1>5, <1>6, <1>7
<1>10. SubSeq(t, a, b) = SubSeq(s, a, b)
  BY <1>5, <1>6, <1>8, <1>9, SeqEqual, Zenon
<1>11. QED
  BY <1>10 DEF t

One(p) == <<p>>

LEMMA OneType ==
    ASSUME NEW S, NEW p \in S
    PROVE  One(p) \in Seq(S)
BY DEF One

LEMMA PartType ==
    ASSUME NEW S, NEW s \in Seq(S), NEW a \in 1 .. Len(s) + 1, NEW b \in a - 1 .. Len(s)
    PROVE  SubSeq(s, a, b) \in Seq(S)
<1>1. Len(s) \in Nat
  OBVIOUS
<1>2. a \in Int /\ b \in Int /\ \A i \in a .. b : i \in 1 .. Len(s)
  BY <1>1
<1>3. \A i \in a .. b : s[i] \in S
  BY <1>2
<1>4. QED
  BY <1>2, <1>3, SubSeqProperties

\* Concatenation and a character or a piece at the end.
LEMMA CatAppend ==
    ASSUME NEW S, NEW s \in Seq(S), NEW t \in Seq(S), NEW x \in S
    PROVE  Cat(s, Append(t, x)) = Append(Cat(s, t), x)
<1>1. One(x) \in Seq(S)
  BY OneType
<1>2. Append(t, x) = Cat(t, One(x))
  BY CatOne DEF One
<1>3. Cat(s, t) \in Seq(S)
  BY CatType
<1>4. Append(Cat(s, t), x) = Cat(Cat(s, t), One(x))
  BY <1>3, CatOne DEF One
<1>5. QED
  BY <1>1, <1>2, <1>4, CatAssociative

LEMMA EmptyCat ==
    ASSUME NEW S, NEW s \in Seq(S)
    PROVE  Cat(<<>>, s) = s
BY ConcatEmptySeq DEF Cat

\* A character more in the last field.
LEMMA ExtendAppend ==
    ASSUME NEW T
    PROVE  \A h, w, x : h \in Seq(T) /\ w \in T => Extend(Append(h, w), x) = Append(h, Append(w, x))
<1> TAKE h, w, x
<1> HAVE h \in Seq(T) /\ w \in T
<1> DEFINE f == Append(h, w)
<1>1. Len(f) = Len(h) + 1 /\ f[Len(h) + 1] = w /\ Len(h) \in Nat
  BY AppendProperties
<1>2. SubSeq(f, 1, Len(h)) = SubSeq(h, 1, Len(h))
  <2>1. 1 \in 1 .. Len(h) + 1 /\ Len(h) \in 1 - 1 .. Len(h)
    BY <1>1
  <2>2. QED
    BY <2>1, AppendSub
<1>3. SubSeq(h, 1, Len(h)) = h
  BY SubSeqFull
<1> HIDE DEF f
<1>4. Len(f) - 1 = Len(h) /\ f[Len(f)] = w
  BY <1>1
<1>5. QED
  BY <1>2, <1>3, <1>4 DEF Extend, f

\* A text over some characters is one over more.
LEMMA LargerSeq ==
    ASSUME NEW A, NEW B, A \subseteq B, NEW s \in Seq(A)
    PROVE  s \in Seq(B)
OBVIOUS

\* A character more in a text that is free of some.
LEMMA FreeAppend ==
    ASSUME NEW S, NEW s \in Seq(S), NEW x \in S, NEW cs
    PROVE  Free(Append(s, x), cs) <=> Free(s, cs) /\ x \notin cs
<1> DEFINE t == Append(s, x)
<1>1. /\ Len(t) = Len(s) + 1 /\ t[Len(s) + 1] = x /\ Len(s) \in Nat
      /\ \A i \in 1 .. Len(s) : t[i] = s[i]
  BY AppendProperties
<1>2. DOMAIN t = 1 .. Len(s) + 1 /\ DOMAIN s = 1 .. Len(s)
  BY <1>1
<1>3. \A i \in 1 .. Len(s) + 1 : i \in 1 .. Len(s) \/ i = Len(s) + 1
  BY <1>1
<1>4. Len(s) + 1 \in 1 .. Len(s) + 1 /\ \A i \in 1 .. Len(s) : i \in 1 .. Len(s) + 1
  BY <1>1
<1> HIDE DEF t
<1>5. Free(t, cs) <=> Free(s, cs) /\ x \notin cs
  BY <1>1, <1>2, <1>3, <1>4 DEF Free
<1>6. QED
  BY <1>5 DEF t

-----------------------------------------------------------------------------
(***************************************************************************)
(* Searching for a character.                                              *)
(***************************************************************************)
LEMMA OneLong ==
    ASSUME NEW S, NEW s \in Seq(S), NEW j \in 1 .. Len(s)
    PROVE  SubSeq(s, j, j) = <<s[j]>>
<1>1. SubSeq(s, j, j) = <<s[j]>> \o SubSeq(s, j + 1, j)
  BY SubSeqRecursiveFirst
<1>2. SubSeq(s, j + 1, j) = <<>>
  BY SubSeqEmpty
<1>3. s[j] \in S /\ <<s[j]>> \in Seq(S)
  OBVIOUS
<1>4. <<s[j]>> \o <<>> = <<s[j]>>
  BY <1>3, ConcatEmptySeq
<1>5. QED
  BY <1>1, <1>2, <1>4, Zenon

\* Find for one character: there is none, or it gives the first.
LEMMA FindOne ==
    ASSUME NEW S, NEW s \in Seq(S), NEW c, NEW from \in 1 .. Len(s) + 1
    PROVE  LET j == Find(s, <<c>>, from)
           IN  \/ j = 0 /\ \A i \in from .. Len(s) : s[i] # c
               \/ /\ j \in from .. Len(s) /\ s[j] = c
                  /\ \A i \in from .. j - 1 : s[i] # c
<1> DEFINE At == {j \in from .. Len(s) : s[j] = c}
<1>1. Len(s) \in Nat /\ Len(<<c>>) = 1
  OBVIOUS
<1>2. \A j \in from .. Len(s) : SubSeq(s, j, j + Len(<<c>>) - 1) = <<c>> <=> s[j] = c
  <2> TAKE j \in from .. Len(s)
  <2>1. j \in 1 .. Len(s) /\ j + Len(<<c>>) - 1 = j
    BY <1>1
  <2>2. SubSeq(s, j, j) = <<s[j]>>
    BY <2>1, OneLong
  <2>3. QED
    BY <2>1, <2>2
<1>3. from .. Len(s) - Len(<<c>>) + 1 = from .. Len(s)
  BY <1>1
<1>4. {j \in from .. Len(s) - Len(<<c>>) + 1 : SubSeq(s, j, j + Len(<<c>>) - 1) = <<c>>} = At
  BY <1>2, <1>3
<1>5. Find(s, <<c>>, from) = IF At = {} THEN 0 ELSE Min(At)
  BY <1>4, Zenon DEF Find
<1>6. CASE At = {}
  BY <1>5, <1>6
<1>7. CASE At # {}
  <2>1. At \in SUBSET Nat
    BY <1>1
  <2>2. \E n \in At : \A m \in At : n <= m
    BY <1>7, <2>1, Least, Zenon
  <2>3. Min(At) \in At /\ \A m \in At : Min(At) <= m
    BY <2>2 DEF Min
  <2> HIDE DEF At
  <2>4. Find(s, <<c>>, from) = Min(At)
    BY <1>5, <1>7
  <2> DEFINE j == Min(At)
  <2>5. j \in from .. Len(s) /\ s[j] = c
    BY <2>3 DEF At
  <2>6. \A i \in from .. j - 1 : s[i] # c
    <3> SUFFICES ASSUME NEW i \in from .. j - 1, s[i] = c
                 PROVE  FALSE
      OBVIOUS
    <3>1. i \in from .. Len(s)
      BY <1>1, <2>5
    <3>2. i \in At
      BY <3>1 DEF At
    <3>3. QED
      BY <2>3, <2>5, <3>2
  <2>7. QED
    BY <2>4, <2>5, <2>6
<1>8. QED
  BY <1>6, <1>7

\* There is no c from a place on, or a first one.
NoneFrom(s, c, from) == \A i \in from .. Len(s) : s[i] # c

FirstAt(s, c, from, j) ==
    j \in from .. Len(s) /\ s[j] = c /\ \A i \in from .. j - 1 : s[i] # c

\* FindOne with its two cases as names.
LEMMA NoneOrFirst ==
    ASSUME NEW S, NEW s \in Seq(S), NEW c, NEW from \in 1 .. Len(s) + 1
    PROVE  \/ NoneFrom(s, c, from) /\ Find(s, <<c>>, from) = 0
           \/ FirstAt(s, c, from, Find(s, <<c>>, from))
BY FindOne, Zenon DEF NoneFrom, FirstAt

\* The first place is the one that Find gives.
LEMMA FirstIsFound ==
    ASSUME NEW S, NEW s \in Seq(S), NEW c, NEW from \in 1 .. Len(s) + 1, NEW j, FirstAt(s, c, from, j)
    PROVE  Find(s, <<c>>, from) = j /\ j # 0
<1> DEFINE k == Find(s, <<c>>, from)
<1>1. \/ k = 0 /\ \A i \in from .. Len(s) : s[i] # c
      \/ k \in from .. Len(s) /\ s[k] = c /\ \A i \in from .. k - 1 : s[i] # c
  BY FindOne
<1>2. j \in from .. Len(s) /\ s[j] = c /\ \A i \in from .. j - 1 : s[i] # c
  BY DEF FirstAt
<1> HIDE DEF k
<1>3. k # 0 /\ k \in from .. Len(s) /\ s[k] = c /\ \A i \in from .. k - 1 : s[i] # c
  BY <1>1, <1>2
<1>4. ~(k < j) /\ ~(j < k)
  BY <1>2, <1>3
<1>5. k = j
  BY <1>2, <1>3, <1>4
<1>6. QED
  BY <1>3, <1>5 DEF k

-----------------------------------------------------------------------------
(***************************************************************************)
(* What a JSON reader makes of a text.                                     *)
(***************************************************************************)
JsonTurn(s, g, i) == IF i = 0 THEN JsonStart ELSE JsonStep(g[i - 1], s[i])

JsonAfter(s) == CHOOSE f : f = [i \in 0 .. Len(s) |-> JsonTurn(s, f, i)]

JsonLoop(s, g, k) == g = [i \in 0 .. k |-> JsonTurn(s, g, i)]

\* The JSON reader is the solution that JsonAfter chooses.
LEMMA JsonAfterIsUsed ==
    ASSUME NEW s
    PROVE  JsonEnd(s) = JsonAfter(s)[Len(s)]
BY DEF JsonEnd, JsonAfter, JsonTurn

LEMMA JsonTurnSame ==
    ASSUME NEW s, NEW g, NEW h, NEW i \in Nat, \A m \in 0 .. i - 1 : g[m] = h[m]
    PROVE  JsonTurn(s, g, i) = JsonTurn(s, h, i)
<1>1. CASE i = 0
  BY <1>1 DEF JsonTurn
<1>2. CASE i # 0
  <2>1. g[i - 1] = h[i - 1]
    BY <1>2
  <2>2. QED
    BY <2>1 DEF JsonTurn
<1>3. QED
  BY <1>1, <1>2

\* The recursion of the JSON reader has a solution.
LEMMA JsonAfterSolves ==
    ASSUME NEW S, NEW s \in Seq(S)
    PROVE  JsonLoop(s, JsonAfter(s), Len(s))
<1> DEFINE N == Len(s)
           Runs == {k \in 0 .. N : \E g : JsonLoop(s, g, k)}
<1>0. N \in Nat
  OBVIOUS
<1>1. 0 \in Runs
  <2> DEFINE g == [n \in 0 .. 0 |-> JsonTurn(s, <<>>, n)]
  <2>1. ASSUME NEW n \in 0 .. 0
        PROVE  JsonTurn(s, g, n) = JsonTurn(s, <<>>, n)
    <3>1. n \in Nat /\ 0 .. n - 1 = {}
      BY <1>0
    <3> HIDE DEF g
    <3>2. QED
      BY <3>1, JsonTurnSame
  <2>2. g = [n \in 0 .. 0 |-> JsonTurn(s, g, n)]
    BY <2>1
  <2>3. QED
    BY <1>0, <2>2 DEF JsonLoop
<1>2. ASSUME NEW k \in 1 .. N, k - 1 \in Runs
      PROVE  k \in Runs
  <2>1. PICK g : JsonLoop(s, g, k - 1)
    BY <1>2
  <2> DEFINE h == [n \in 0 .. k |-> IF n = k THEN JsonTurn(s, g, k) ELSE g[n]]
  <2>2. ASSUME NEW n \in 0 .. k
        PROVE  JsonTurn(s, h, n) = JsonTurn(s, g, n)
    <3>1. n \in Nat
      BY <1>0
    <3>2. \A m \in 0 .. n - 1 : h[m] = g[m]
      BY <1>0
    <3> HIDE DEF h
    <3>3. QED
      BY <3>1, <3>2, JsonTurnSame
  <2>3. \A n \in 0 .. k - 1 : g[n] = JsonTurn(s, g, n)
    BY <2>1 DEF JsonLoop
  <2>4. ASSUME NEW n \in 0 .. k
        PROVE  h[n] = JsonTurn(s, g, n)
    <3>1. CASE n = k
      BY <3>1
    <3>2. CASE n # k
      <4>1. n \in 0 .. k - 1
        BY <1>0, <3>2
      <4>2. QED
        BY <2>3, <3>2, <4>1
    <3>3. QED
      BY <3>1, <3>2
  <2>5. h = [n \in 0 .. k |-> h[n]]
    OBVIOUS
  <2> HIDE DEF h
  <2>6. \A n \in 0 .. k : h[n] = JsonTurn(s, h, n)
    BY <2>2, <2>4
  <2>7. h = [n \in 0 .. k |-> JsonTurn(s, h, n)]
    BY <2>5, <2>6
  <2>8. QED
    BY <2>7 DEF JsonLoop
<1>3. N \in Runs
  <2> HIDE DEF Runs, N
  <2>1. 0 .. N \subseteq Runs
    BY <1>0, <1>1, <1>2, Reached
  <2>2. QED
    BY <1>0, <2>1
<1>4. PICK g : g = [n \in 0 .. Len(s) |-> JsonTurn(s, g, n)]
  BY <1>3 DEF JsonLoop
<1>5. QED
  BY <1>4, Zenon DEF JsonAfter, JsonLoop

-----------------------------------------------------------------------------
(***************************************************************************)
(* The fields of a text with one more character.                           *)
(***************************************************************************)
SplitTurn(s, sep, g, i) == IF i = 0 THEN << <<>> >> ELSE SplitStep(g[i - 1], s[i], sep)

SplitAfter(s, sep) == CHOOSE f : f = [i \in 0 .. Len(s) |-> SplitTurn(s, sep, f, i)]

SplitLoop(s, sep, g, k) == g = [i \in 0 .. k |-> SplitTurn(s, sep, g, i)]

\* Split is the solution that SplitAfter chooses.
LEMMA SplitAfterIsUsed ==
    ASSUME NEW s, NEW sep
    PROVE  Split(s, sep) = SplitAfter(s, sep)[Len(s)]
BY DEF Split, SplitAfter, SplitTurn

LEMMA SplitTurnSame ==
    ASSUME NEW s, NEW sep, NEW g, NEW h, NEW i \in Nat, \A m \in 0 .. i - 1 : g[m] = h[m]
    PROVE  SplitTurn(s, sep, g, i) = SplitTurn(s, sep, h, i)
<1>1. CASE i = 0
  BY <1>1 DEF SplitTurn
<1>2. CASE i # 0
  <2>1. g[i - 1] = h[i - 1]
    BY <1>2
  <2>2. QED
    BY <2>1 DEF SplitTurn
<1>3. QED
  BY <1>1, <1>2

\* The recursion of Split has a solution.
LEMMA SplitAfterSolves ==
    ASSUME NEW S, NEW s \in Seq(S), NEW sep
    PROVE  SplitLoop(s, sep, SplitAfter(s, sep), Len(s))
<1> DEFINE N == Len(s)
           Runs == {k \in 0 .. N : \E g : SplitLoop(s, sep, g, k)}
<1>0. N \in Nat
  OBVIOUS
<1>1. 0 \in Runs
  <2> DEFINE g == [n \in 0 .. 0 |-> SplitTurn(s, sep, <<>>, n)]
  <2>1. ASSUME NEW n \in 0 .. 0
        PROVE  SplitTurn(s, sep, g, n) = SplitTurn(s, sep, <<>>, n)
    <3>1. n \in Nat /\ 0 .. n - 1 = {}
      BY <1>0
    <3> HIDE DEF g
    <3>2. QED
      BY <3>1, SplitTurnSame
  <2>2. g = [n \in 0 .. 0 |-> SplitTurn(s, sep, g, n)]
    BY <2>1
  <2>3. QED
    BY <1>0, <2>2 DEF SplitLoop
<1>2. ASSUME NEW k \in 1 .. N, k - 1 \in Runs
      PROVE  k \in Runs
  <2>1. PICK g : SplitLoop(s, sep, g, k - 1)
    BY <1>2
  <2> DEFINE h == [n \in 0 .. k |-> IF n = k THEN SplitTurn(s, sep, g, k) ELSE g[n]]
  <2>2. ASSUME NEW n \in 0 .. k
        PROVE  SplitTurn(s, sep, h, n) = SplitTurn(s, sep, g, n)
    <3>1. n \in Nat
      BY <1>0
    <3>2. \A m \in 0 .. n - 1 : h[m] = g[m]
      BY <1>0
    <3> HIDE DEF h
    <3>3. QED
      BY <3>1, <3>2, SplitTurnSame
  <2>3. \A n \in 0 .. k - 1 : g[n] = SplitTurn(s, sep, g, n)
    BY <2>1 DEF SplitLoop
  <2>4. ASSUME NEW n \in 0 .. k
        PROVE  h[n] = SplitTurn(s, sep, g, n)
    <3>1. CASE n = k
      BY <3>1
    <3>2. CASE n # k
      <4>1. n \in 0 .. k - 1
        BY <1>0, <3>2
      <4>2. QED
        BY <2>3, <3>2, <4>1
    <3>3. QED
      BY <3>1, <3>2
  <2>5. h = [n \in 0 .. k |-> h[n]]
    OBVIOUS
  <2> HIDE DEF h
  <2>6. \A n \in 0 .. k : h[n] = SplitTurn(s, sep, h, n)
    BY <2>2, <2>4
  <2>7. h = [n \in 0 .. k |-> SplitTurn(s, sep, h, n)]
    BY <2>5, <2>6
  <2>8. QED
    BY <2>7 DEF SplitLoop
<1>3. N \in Runs
  <2> HIDE DEF Runs, N
  <2>1. 0 .. N \subseteq Runs
    BY <1>0, <1>1, <1>2, Reached
  <2>2. QED
    BY <1>0, <2>1
<1>4. PICK g : g = [n \in 0 .. Len(s) |-> SplitTurn(s, sep, g, n)]
  BY <1>3 DEF SplitLoop
<1>5. QED
  BY <1>4, Zenon DEF SplitAfter, SplitLoop

LEMMA SplitEmpty ==
    ASSUME NEW sep
    PROVE  Split(<<>>, sep) = << <<>> >>
<1>1. SplitLoop(<<>>, sep, SplitAfter(<<>>, sep), Len(<<>>))
  <2>1. <<>> \in Seq({})
    OBVIOUS
  <2>2. QED
    BY <2>1, SplitAfterSolves, Zenon
<1>2. SplitAfter(<<>>, sep)[0] = SplitTurn(<<>>, sep, SplitAfter(<<>>, sep), 0)
  BY <1>1 DEF SplitLoop
<1>3. Len(<<>>) = 0
  OBVIOUS
<1>4. QED
  BY <1>2, <1>3, SplitAfterIsUsed, Zenon DEF SplitTurn

\* A character more ends the last field or is put into it.
LEMMA SplitAppend ==
    ASSUME NEW S, NEW s \in Seq(S), NEW sep, NEW x \in S
    PROVE  Split(Append(s, x), sep) = SplitStep(Split(s, sep), x, sep)
<1> DEFINE t == Append(s, x)
           L == Len(s)
           f == SplitAfter(s, sep)
           g == SplitAfter(t, sep)
           Same == {i \in 0 .. L : g[i] = f[i]}
<1>1. /\ t \in Seq(S) /\ L \in Nat /\ Len(t) = L + 1 /\ t[L + 1] = x
      /\ \A i \in 1 .. L : t[i] = s[i]
  BY AppendProperties
<1>2. SplitLoop(s, sep, f, L)
  BY SplitAfterSolves
<1>3. SplitLoop(t, sep, g, L + 1)
  <2> HIDE DEF t
  <2>1. SplitLoop(t, sep, g, Len(t))
    BY <1>1, SplitAfterSolves
  <2>2. QED
    BY <1>1, <2>1
<1>4. Split(s, sep) = f[L] /\ Split(t, sep) = g[L + 1]
  BY <1>1, SplitAfterIsUsed, Zenon
<1> HIDE DEF t, L, f, g
<1>5. \A i \in 0 .. L : f[i] = SplitTurn(s, sep, f, i)
  BY <1>2, Zenon DEF SplitLoop
<1>6. \A i \in 0 .. L + 1 : g[i] = SplitTurn(t, sep, g, i)
  BY <1>3, Zenon DEF SplitLoop
<1>7. 0 \in Same
  <2>1. 0 \in 0 .. L /\ 0 \in 0 .. L + 1
    BY <1>1
  <2>2. f[0] = << <<>> >> /\ g[0] = << <<>> >>
    BY <1>5, <1>6, <2>1 DEF SplitTurn
  <2>3. QED
    BY <2>1, <2>2
<1>8. ASSUME NEW k \in 1 .. L, k - 1 \in Same
      PROVE  k \in Same
  <2>1. k \in 0 .. L /\ k \in 0 .. L + 1 /\ k # 0
    BY <1>1
  <2>2. f[k] = SplitStep(f[k - 1], s[k], sep) /\ g[k] = SplitStep(g[k - 1], t[k], sep)
    BY <1>5, <1>6, <2>1 DEF SplitTurn
  <2>3. t[k] = s[k] /\ g[k - 1] = f[k - 1]
    BY <1>1, <1>8
  <2>4. QED
    BY <2>1, <2>2, <2>3
<1>9. L \in Same
  <2> HIDE DEF Same
  <2>1. 0 .. L \subseteq Same
    BY <1>1, <1>7, <1>8, Reached, Zenon
  <2>2. QED
    BY <1>1, <2>1
<1>10. g[L + 1] = SplitStep(g[L], t[L + 1], sep)
  <2>1. L + 1 \in 0 .. L + 1 /\ L + 1 # 0 /\ (L + 1) - 1 = L
    BY <1>1
  <2>2. QED
    BY <1>6, <2>1 DEF SplitTurn
<1>11. QED
  BY <1>1, <1>4, <1>9, <1>10 DEF t

-----------------------------------------------------------------------------
(***************************************************************************)
(* The fields that are not empty, with one more field.                     *)
(***************************************************************************)
KeptTurn(s, g, i) == IF i = 0 THEN <<>> ELSE Keep(g[i - 1], s[i])

KeptAfter(s) == CHOOSE f : f = [i \in 0 .. Len(s) |-> KeptTurn(s, f, i)]

KeptLoop(s, g, k) == g = [i \in 0 .. k |-> KeptTurn(s, g, i)]

\* NonEmpty is the solution that KeptAfter chooses.
LEMMA KeptAfterIsUsed ==
    ASSUME NEW s
    PROVE  NonEmpty(s) = KeptAfter(s)[Len(s)]
BY DEF NonEmpty, KeptAfter, KeptTurn

LEMMA KeptTurnSame ==
    ASSUME NEW s, NEW g, NEW h, NEW i \in Nat, \A m \in 0 .. i - 1 : g[m] = h[m]
    PROVE  KeptTurn(s, g, i) = KeptTurn(s, h, i)
<1>1. CASE i = 0
  BY <1>1 DEF KeptTurn
<1>2. CASE i # 0
  <2>1. g[i - 1] = h[i - 1]
    BY <1>2
  <2>2. QED
    BY <2>1 DEF KeptTurn
<1>3. QED
  BY <1>1, <1>2

\* The recursion of NonEmpty has a solution.
LEMMA KeptAfterSolves ==
    ASSUME NEW S, NEW s \in Seq(S)
    PROVE  KeptLoop(s, KeptAfter(s), Len(s))
<1> DEFINE N == Len(s)
           Runs == {k \in 0 .. N : \E g : KeptLoop(s, g, k)}
<1>0. N \in Nat
  OBVIOUS
<1>1. 0 \in Runs
  <2> DEFINE g == [n \in 0 .. 0 |-> KeptTurn(s, <<>>, n)]
  <2>1. ASSUME NEW n \in 0 .. 0
        PROVE  KeptTurn(s, g, n) = KeptTurn(s, <<>>, n)
    <3>1. n \in Nat /\ 0 .. n - 1 = {}
      BY <1>0
    <3> HIDE DEF g
    <3>2. QED
      BY <3>1, KeptTurnSame
  <2>2. g = [n \in 0 .. 0 |-> KeptTurn(s, g, n)]
    BY <2>1
  <2>3. QED
    BY <1>0, <2>2 DEF KeptLoop
<1>2. ASSUME NEW k \in 1 .. N, k - 1 \in Runs
      PROVE  k \in Runs
  <2>1. PICK g : KeptLoop(s, g, k - 1)
    BY <1>2
  <2> DEFINE h == [n \in 0 .. k |-> IF n = k THEN KeptTurn(s, g, k) ELSE g[n]]
  <2>2. ASSUME NEW n \in 0 .. k
        PROVE  KeptTurn(s, h, n) = KeptTurn(s, g, n)
    <3>1. n \in Nat
      BY <1>0
    <3>2. \A m \in 0 .. n - 1 : h[m] = g[m]
      BY <1>0
    <3> HIDE DEF h
    <3>3. QED
      BY <3>1, <3>2, KeptTurnSame
  <2>3. \A n \in 0 .. k - 1 : g[n] = KeptTurn(s, g, n)
    BY <2>1 DEF KeptLoop
  <2>4. ASSUME NEW n \in 0 .. k
        PROVE  h[n] = KeptTurn(s, g, n)
    <3>1. CASE n = k
      BY <3>1
    <3>2. CASE n # k
      <4>1. n \in 0 .. k - 1
        BY <1>0, <3>2
      <4>2. QED
        BY <2>3, <3>2, <4>1
    <3>3. QED
      BY <3>1, <3>2
  <2>5. h = [n \in 0 .. k |-> h[n]]
    OBVIOUS
  <2> HIDE DEF h
  <2>6. \A n \in 0 .. k : h[n] = KeptTurn(s, h, n)
    BY <2>2, <2>4
  <2>7. h = [n \in 0 .. k |-> KeptTurn(s, h, n)]
    BY <2>5, <2>6
  <2>8. QED
    BY <2>7 DEF KeptLoop
<1>3. N \in Runs
  <2> HIDE DEF Runs, N
  <2>1. 0 .. N \subseteq Runs
    BY <1>0, <1>1, <1>2, Reached
  <2>2. QED
    BY <1>0, <2>1
<1>4. PICK g : g = [n \in 0 .. Len(s) |-> KeptTurn(s, g, n)]
  BY <1>3 DEF KeptLoop
<1>5. QED
  BY <1>4, Zenon DEF KeptAfter, KeptLoop

\* A field more is kept unless it is empty.
LEMMA KeptAppend ==
    ASSUME NEW S, NEW s \in Seq(S), NEW x \in S
    PROVE  NonEmpty(Append(s, x)) = Keep(NonEmpty(s), x)
<1> DEFINE t == Append(s, x)
           L == Len(s)
           f == KeptAfter(s)
           g == KeptAfter(t)
           Same == {i \in 0 .. L : g[i] = f[i]}
<1>1. /\ t \in Seq(S) /\ L \in Nat /\ Len(t) = L + 1 /\ t[L + 1] = x
      /\ \A i \in 1 .. L : t[i] = s[i]
  BY AppendProperties
<1>2. KeptLoop(s, f, L)
  BY KeptAfterSolves
<1>3. KeptLoop(t, g, L + 1)
  <2> HIDE DEF t
  <2>1. KeptLoop(t, g, Len(t))
    BY <1>1, KeptAfterSolves
  <2>2. QED
    BY <1>1, <2>1
<1>4. NonEmpty(s) = f[L] /\ NonEmpty(t) = g[L + 1]
  BY <1>1, KeptAfterIsUsed, Zenon
<1> HIDE DEF t, L, f, g
<1>5. \A i \in 0 .. L : f[i] = KeptTurn(s, f, i)
  BY <1>2, Zenon DEF KeptLoop
<1>6. \A i \in 0 .. L + 1 : g[i] = KeptTurn(t, g, i)
  BY <1>3, Zenon DEF KeptLoop
<1>7. 0 \in Same
  <2>1. 0 \in 0 .. L /\ 0 \in 0 .. L + 1
    BY <1>1
  <2>2. f[0] = <<>> /\ g[0] = <<>>
    BY <1>5, <1>6, <2>1 DEF KeptTurn
  <2>3. QED
    BY <2>1, <2>2
<1>8. ASSUME NEW k \in 1 .. L, k - 1 \in Same
      PROVE  k \in Same
  <2>1. k \in 0 .. L /\ k \in 0 .. L + 1 /\ k # 0
    BY <1>1
  <2>2. f[k] = Keep(f[k - 1], s[k]) /\ g[k] = Keep(g[k - 1], t[k])
    BY <1>5, <1>6, <2>1 DEF KeptTurn
  <2>3. t[k] = s[k] /\ g[k - 1] = f[k - 1]
    BY <1>1, <1>8
  <2>4. QED
    BY <2>1, <2>2, <2>3
<1>9. L \in Same
  <2> HIDE DEF Same
  <2>1. 0 .. L \subseteq Same
    BY <1>1, <1>7, <1>8, Reached, Zenon
  <2>2. QED
    BY <1>1, <2>1
<1>10. g[L + 1] = Keep(g[L], t[L + 1])
  <2>1. L + 1 \in 0 .. L + 1 /\ L + 1 # 0 /\ (L + 1) - 1 = L
    BY <1>1
  <2>2. QED
    BY <1>6, <2>1 DEF KeptTurn
<1>11. QED
  BY <1>1, <1>4, <1>9, <1>10 DEF t

-----------------------------------------------------------------------------
(***************************************************************************)
(* Parts of texts.                                                         *)
(***************************************************************************)
\* A sequence is a function.
LEMMA SeqFacts ==
    ASSUME NEW T, NEW s \in Seq(T)
    PROVE  /\ DOMAIN s = 1 .. Len(s) /\ Len(s) \in Nat /\ s = [i \in 1 .. Len(s) |-> s[i]]
           /\ (\A i \in 1 .. Len(s) : s[i] \in T) /\ (s # <<>> => 1 \in 1 .. Len(s))
OBVIOUS

\* And a function on 1 .. n is a sequence.
LEMMA IsSeq ==
    ASSUME NEW T, NEW n \in Nat, NEW f \in [1 .. n -> T]
    PROVE  f \in Seq(T) /\ Len(f) = n
OBVIOUS

\* The last n characters.
LEMMA BehindType ==
    ASSUME NEW S, NEW s \in Seq(S), NEW n \in 0 .. Len(s)
    PROVE  /\ Behind(s, n) \in Seq(S) /\ Len(Behind(s, n)) = n
           /\ \A i \in 1 .. n : Behind(s, n)[i] = s[Len(s) - n + i]
<1>1. PICK a \in 1 .. Len(s) + 1 : a = Len(s) - n + 1
  <2>1. Len(s) - n + 1 \in 1 .. Len(s) + 1
    OBVIOUS
  <2>2. QED
    BY <2>1, Zenon
<1>2. Len(s) \in a - 1 .. Len(s) /\ Len(s) \in Nat
  OBVIOUS
<1>3. SubSeq(s, a, Len(s)) \in Seq(S)
  BY <1>2, PartType
<1>4. /\ Len(SubSeq(s, a, Len(s))) = n
      /\ \A i \in 1 .. n : SubSeq(s, a, Len(s))[i] = s[Len(s) - n + i]
  BY <1>1, <1>2, SubSeqProperties
<1>5. QED
  BY <1>1, <1>3, <1>4, Zenon DEF Behind

\* Two texts of the same length with the same characters.
LEMMA SameText ==
    ASSUME NEW S, NEW s \in Seq(S), NEW t \in Seq(S), Len(s) = Len(t),
           \A i \in 1 .. Len(s) : s[i] = t[i]
    PROVE  s = t
BY SeqEqual

\* All characters of a text are the text.
LEMMA BehindAll ==
    ASSUME NEW S, NEW s \in Seq(S)
    PROVE  Behind(s, Len(s)) = s
<1>1. Len(s) \in 0 .. Len(s) /\ Len(s) \in Nat
  OBVIOUS
<1>2. /\ Behind(s, Len(s)) \in Seq(S) /\ Len(Behind(s, Len(s))) = Len(s)
      /\ \A i \in 1 .. Len(s) : Behind(s, Len(s))[i] = s[Len(s) - Len(s) + i]
  BY <1>1, BehindType
<1>3. \A i \in 1 .. Len(s) : Behind(s, Len(s))[i] = s[i]
  BY <1>1, <1>2
<1>4. QED
  BY <1>2, <1>3, SameText

\* The end of an end of a text is an end of the text.
LEMMA BehindBehind ==
    ASSUME NEW S, NEW s \in Seq(S), NEW n \in 0 .. Len(s), NEW m \in 0 .. n
    PROVE  Behind(Behind(s, n), m) = Behind(s, m)
<1>0. Len(s) \in Nat /\ m \in 0 .. Len(s)
  OBVIOUS
<1>1. PICK t \in Seq(S) : t = Behind(s, n)
  BY BehindType
<1>2. Len(t) = n /\ \A i \in 1 .. n : t[i] = s[Len(s) - n + i]
  BY <1>1, BehindType
<1>3. PICK u \in Seq(S) : u = Behind(t, m)
  BY <1>2, BehindType
<1>4. Len(u) = m /\ \A i \in 1 .. m : u[i] = t[n - m + i]
  BY <1>2, <1>3, BehindType, Zenon
<1>5. PICK v \in Seq(S) : v = Behind(s, m)
  BY <1>0, BehindType
<1>6. Len(v) = m /\ \A i \in 1 .. m : v[i] = s[Len(s) - m + i]
  BY <1>0, <1>5, BehindType, Zenon
<1>7. ASSUME NEW i \in 1 .. m
      PROVE  u[i] = v[i]
  <2>1. n - m + i \in 1 .. n /\ Len(s) - n + (n - m + i) = Len(s) - m + i
    BY <1>0
  <2>2. t[n - m + i] = s[Len(s) - n + (n - m + i)]
    BY <1>2, <2>1
  <2>3. QED
    BY <1>4, <1>6, <2>1, <2>2
<1>8. u = v
  BY <1>4, <1>6, <1>7, SameText
<1>9. QED
  BY <1>1, <1>3, <1>5, <1>8, Zenon

\* A text, a character and another text.
Seam(a, x, b) == Cat(Append(a, x), b)

Joins(q, a, x, b) ==
    /\ Len(q) = Len(a) + 1 + Len(b)
    /\ \A i \in 1 .. Len(a) : q[i] = a[i]
    /\ q[Len(a) + 1] = x
    /\ \A i \in 1 .. Len(b) : q[Len(a) + 1 + i] = b[i]

\* Where the parts of a text with a separator between them are.
LEMMA SeamParts ==
    ASSUME NEW S, NEW a \in Seq(S), NEW x \in S, NEW b \in Seq(S)
    PROVE  Seam(a, x, b) \in Seq(S) /\ Joins(Seam(a, x, b), a, x, b)
<1>0. PICK q : q = Seam(a, x, b)
  OBVIOUS
<1>1. PICK t \in Seq(S) : t = Append(a, x)
  BY AppendProperties, Zenon
<1>2. /\ Len(t) = Len(a) + 1 /\ t[Len(a) + 1] = x
      /\ \A i \in 1 .. Len(a) : t[i] = a[i]
  BY <1>1, AppendProperties
<1>3. /\ t \o b \in Seq(S) /\ Len(t \o b) = Len(t) + Len(b)
      /\ \A i \in 1 .. Len(t) + Len(b) : (t \o b)[i] = IF i <= Len(t) THEN t[i] ELSE b[i - Len(t)]
  BY ConcatProperties
<1>4. q = t \o b
  BY <1>0, <1>1, Zenon DEF Seam, Cat
<1>5. Len(a) \in Nat /\ Len(b) \in Nat
  OBVIOUS
<1>6. \A i \in 1 .. Len(t) + Len(b) : q[i] = IF i <= Len(t) THEN t[i] ELSE b[i - Len(t)]
  BY <1>3, <1>4, Zenon
<1>7. q \in Seq(S) /\ Len(q) = Len(a) + 1 + Len(b)
  BY <1>2, <1>3, <1>4
<1>8. \A i \in 1 .. Len(a) : q[i] = a[i]
  BY <1>2, <1>5, <1>6
<1>9. q[Len(a) + 1] = x
  BY <1>2, <1>5, <1>6
<1>10. \A i \in 1 .. Len(b) : q[Len(a) + 1 + i] = b[i]
  <2>1. ASSUME NEW i \in 1 .. Len(b) PROVE q[Len(a) + 1 + i] = b[i]
    <3>1. /\ Len(a) + 1 + i \in 1 .. Len(t) + Len(b) /\ ~(Len(a) + 1 + i <= Len(t))
          /\ Len(a) + 1 + i - Len(t) = i
      BY <1>2, <1>5
    <3>2. QED
      BY <1>6, <3>1
  <2>2. QED
    BY <2>1
<1>11. QED
  BY <1>0, <1>7, <1>8, <1>9, <1>10, Zenon DEF Joins

\* What is before and what is behind the character.
LEMMA SeamCut ==
    ASSUME NEW S, NEW a \in Seq(S), NEW x \in S, NEW b \in Seq(S)
    PROVE  /\ SubSeq(Seam(a, x, b), 1, Len(a)) = a
           /\ Behind(Seam(a, x, b), Len(b)) = b
<1>0. PICK q : q = Seam(a, x, b)
  OBVIOUS
<1>1. /\ q \in Seq(S) /\ Len(q) = Len(a) + 1 + Len(b)
      /\ \A i \in 1 .. Len(a) : q[i] = a[i]
      /\ \A i \in 1 .. Len(b) : q[Len(a) + 1 + i] = b[i]
  <2>1. q \in Seq(S) /\ Joins(q, a, x, b)
    BY <1>0, SeamParts, Zenon
  <2>2. QED
    BY <2>1, Zenon DEF Joins
<1>2. Len(a) \in Nat /\ Len(b) \in Nat
  OBVIOUS
<1>3. SubSeq(q, 1, Len(a)) = a
  <2>1. 1 \in 1 .. Len(q) + 1 /\ Len(a) \in 1 - 1 .. Len(q)
    BY <1>1, <1>2
  <2>2. SubSeq(q, 1, Len(a)) \in Seq(S)
    BY <1>1, <2>1, PartType
  <2>3. /\ Len(SubSeq(q, 1, Len(a))) = Len(a)
        /\ \A i \in 1 .. Len(a) : SubSeq(q, 1, Len(a))[i] = q[i]
    BY <1>1, <1>2, <2>1, SubSeqProperties
  <2>4. QED
    BY <1>1, <2>2, <2>3, SameText
<1>4. Behind(q, Len(b)) = b
  <2>1. Len(b) \in 0 .. Len(q)
    BY <1>1, <1>2
  <2>2. /\ Behind(q, Len(b)) \in Seq(S) /\ Len(Behind(q, Len(b))) = Len(b)
        /\ \A i \in 1 .. Len(b) : Behind(q, Len(b))[i] = q[Len(q) - Len(b) + i]
    BY <1>1, <2>1, BehindType, Zenon
  <2>3. \A i \in 1 .. Len(b) : Behind(q, Len(b))[i] = b[i]
    BY <1>1, <1>2, <2>2
  <2>4. QED
    BY <2>2, <2>3, SameText
<1>5. QED
  BY <1>0, <1>3, <1>4, Zenon

\* The character is the first of its kind if there is none before it.
LEMMA SeamFirst ==
    ASSUME NEW S, NEW a \in Seq(S), NEW x \in S, NEW b \in Seq(S), Free(a, {x})
    PROVE  FirstAt(Seam(a, x, b), x, 1, Len(a) + 1)
<1>0. PICK q : q = Seam(a, x, b)
  OBVIOUS
<1>1. /\ Len(q) = Len(a) + 1 + Len(b)
      /\ \A i \in 1 .. Len(a) : q[i] = a[i]
      /\ q[Len(a) + 1] = x
  <2>1. Joins(q, a, x, b)
    BY <1>0, SeamParts, Zenon
  <2>2. QED
    BY <2>1, Zenon DEF Joins
<1>2. Len(a) \in Nat /\ Len(b) \in Nat /\ DOMAIN a = 1 .. Len(a)
  OBVIOUS
<1>3. \A i \in 1 .. Len(a) : a[i] # x
  BY <1>2 DEF Free
<1>4. QED
  <2>1. FirstAt(q, x, 1, Len(a) + 1)
    BY <1>1, <1>2, <1>3 DEF FirstAt
  <2>2. QED
    BY <1>0, <2>1, Zenon

-----------------------------------------------------------------------------
(***************************************************************************)
(* The loop of translate_rest_to_cli.                                      *)
(***************************************************************************)
Word(t) == Cat(<<" ">>, Quoted(unescape(t)))

PathTurn(path, n, g, x) ==
    LET next == Find(path, <<x>>, 1)
    IN  IF next = 0 THEN Word(path)
        ELSE Cat(Word(SubSeq(path, 1, next - 1)), g[n - next])

PathRest(s, x) == CHOOSE f : f = [n \in 0 .. Len(s) |-> PathTurn(Behind(s, n), n, f, x)]

PathLoop(s, x, g, k) == g = [n \in 0 .. k |-> PathTurn(Behind(s, n), n, g, x)]

\* Words is the solution that PathRest chooses.
LEMMA PathRestIsUsed ==
    ASSUME NEW s
    PROVE  Words(s) = PathRest(s, "/")[Len(s)]
BY DEF Words, PathRest, PathTurn, Word, Cat

\* A turn looks back at earlier ones only.
LEMMA PathTurnSame ==
    ASSUME NEW S, NEW p \in Seq(S), NEW n, n = Len(p), NEW x, NEW g, NEW h,
           \A m \in 0 .. n - 1 : g[m] = h[m]
    PROVE  PathTurn(p, n, g, x) = PathTurn(p, n, h, x)
<1>1. n \in Nat /\ 1 \in 1 .. Len(p) + 1
  OBVIOUS
<1>2. PICK j : j = Find(p, <<x>>, 1)
  OBVIOUS
<1>3. j = 0 \/ j \in 1 .. Len(p)
  BY <1>1, <1>2, NoneOrFirst DEF FirstAt
<1>4. j # 0 => g[n - j] = h[n - j]
  BY <1>1, <1>3
<1>5. QED
  BY <1>2, <1>4, Zenon DEF PathTurn

\* The loop has a solution, and PathRest is one.
LEMMA PathRestSolves ==
    ASSUME NEW S, NEW s \in Seq(S), NEW x
    PROVE  PathLoop(s, x, PathRest(s, x), Len(s))
<1> DEFINE N == Len(s)
           Runs == {k \in 0 .. N : \E g : PathLoop(s, x, g, k)}
<1>0. N \in Nat
  OBVIOUS
<1>b. \A n \in 0 .. N : Behind(s, n) \in Seq(S) /\ Len(Behind(s, n)) = n
  BY BehindType
<1>c. ASSUME NEW n \in 0 .. N, NEW g, NEW h, \A m \in 0 .. n - 1 : g[m] = h[m]
      PROVE  PathTurn(Behind(s, n), n, g, x) = PathTurn(Behind(s, n), n, h, x)
  BY <1>b, <1>c, PathTurnSame
<1>1. 0 \in Runs
  <2> DEFINE g == [n \in 0 .. 0 |-> PathTurn(Behind(s, n), n, <<>>, x)]
  <2>1. ASSUME NEW n \in 0 .. 0
        PROVE  PathTurn(Behind(s, n), n, g, x) = PathTurn(Behind(s, n), n, <<>>, x)
    <3>1. n \in 0 .. N /\ 0 .. n - 1 = {}
      BY <1>0
    <3> HIDE DEF g, N
    <3>2. QED
      BY <3>1, <1>c, Zenon
  <2>2. g = [n \in 0 .. 0 |-> PathTurn(Behind(s, n), n, g, x)]
    BY <2>1
  <2>3. QED
    BY <1>0, <2>2 DEF PathLoop
<1>2. ASSUME NEW k \in 1 .. N, k - 1 \in Runs
      PROVE  k \in Runs
  <2>1. PICK g : PathLoop(s, x, g, k - 1)
    BY <1>2
  <2> DEFINE h == [n \in 0 .. k |-> IF n = k THEN PathTurn(Behind(s, k), k, g, x) ELSE g[n]]
  <2>2. ASSUME NEW n \in 0 .. k
        PROVE  PathTurn(Behind(s, n), n, h, x) = PathTurn(Behind(s, n), n, g, x)
    <3>1. n \in 0 .. N
      BY <1>0
    <3>2. \A m \in 0 .. n - 1 : h[m] = g[m]
      BY <1>0
    <3> HIDE DEF h, N
    <3>3. QED
      BY <3>1, <3>2, <1>c
  <2>3. \A n \in 0 .. k - 1 : g[n] = PathTurn(Behind(s, n), n, g, x)
    BY <2>1 DEF PathLoop
  <2>4. ASSUME NEW n \in 0 .. k
        PROVE  h[n] = PathTurn(Behind(s, n), n, g, x)
    <3>1. CASE n = k
      BY <3>1
    <3>2. CASE n # k
      <4>1. n \in 0 .. k - 1
        BY <1>0, <3>2
      <4>2. QED
        BY <2>3, <3>2, <4>1
    <3>3. QED
      BY <3>1, <3>2
  <2>5. h = [n \in 0 .. k |-> h[n]]
    OBVIOUS
  <2> HIDE DEF h
  <2>6. \A n \in 0 .. k : h[n] = PathTurn(Behind(s, n), n, h, x)
    BY <2>2, <2>4
  <2>7. h = [n \in 0 .. k |-> PathTurn(Behind(s, n), n, h, x)]
    BY <2>5, <2>6
  <2>8. QED
    BY <2>7 DEF PathLoop
<1>3. N \in Runs
  <2> HIDE DEF Runs, N
  <2>1. 0 .. N \subseteq Runs
    BY <1>0, <1>1, <1>2, Reached
  <2>2. QED
    BY <1>0, <2>1
<1>4. PICK g : g = [n \in 0 .. Len(s) |-> PathTurn(Behind(s, n), n, g, x)]
  BY <1>3 DEF PathLoop
<1>5. QED
  BY <1>4, Zenon DEF PathRest, PathLoop

\* The recursive function of Words fulfils its equation.
LEMMA PathEqual ==
    ASSUME NEW S, NEW s \in Seq(S), NEW x, NEW n \in 0 .. Len(s)
    PROVE  PathRest(s, x)[n] = PathTurn(Behind(s, n), n, PathRest(s, x), x)
<1>1. PICK f : f = PathRest(s, x)
  OBVIOUS
<1>2. f = [m \in 0 .. Len(s) |-> PathTurn(Behind(s, m), m, f, x)]
  <2>1. PathLoop(s, x, f, Len(s))
    BY <1>1, PathRestSolves, Zenon
  <2>2. QED
    BY <2>1, Zenon DEF PathLoop
<1>3. f[n] = PathTurn(Behind(s, n), n, f, x)
  BY <1>2, Zenon
<1>4. QED
  BY <1>1, <1>3, Zenon

\* What the loop makes of the last characters of a text is what it makes of these
\* alone.
LEMMA PathSuffix ==
    ASSUME NEW S, NEW s \in Seq(S), NEW x, NEW n \in 0 .. Len(s)
    PROVE  PathRest(s, x)[n] = PathRest(Behind(s, n), x)[n]
<1>0. Len(s) \in Nat /\ n \in Nat
  OBVIOUS
<1>1. PICK t \in Seq(S) : t = Behind(s, n) /\ Len(t) = n
  BY BehindType
<1>2. PICK f : f = PathRest(s, x)
  OBVIOUS
<1>3. PICK g : g = PathRest(t, x)
  OBVIOUS
<1>4. PathLoop(s, x, f, Len(s)) /\ PathLoop(t, x, g, n)
  BY <1>1, <1>2, <1>3, PathRestSolves, Zenon
<1>5. \A m \in 0 .. Len(s) : f[m] = PathTurn(Behind(s, m), m, f, x)
  BY <1>4, Zenon DEF PathLoop
<1>6. \A m \in 0 .. n : g[m] = PathTurn(Behind(t, m), m, g, x)
  BY <1>4, Zenon DEF PathLoop
<1> DEFINE Same == {k \in 0 .. n : \A m \in 0 .. k : f[m] = g[m]}
<1>7. ASSUME NEW k \in 0 .. n, \A m \in 0 .. k - 1 : f[m] = g[m]
      PROVE  f[k] = g[k]
  <2>1. k \in 0 .. Len(s)
    BY <1>0
  <2>2. Behind(t, k) = Behind(s, k)
    BY <1>1, BehindBehind
  <2>3. Behind(s, k) \in Seq(S) /\ k = Len(Behind(s, k))
    BY <2>1, BehindType
  <2>4. PathTurn(Behind(s, k), k, f, x) = PathTurn(Behind(s, k), k, g, x)
    BY <1>7, <2>3, PathTurnSame, Zenon
  <2>5. QED
    BY <1>5, <1>6, <2>1, <2>2, <2>4, Zenon
<1>8. 0 \in Same
  <2>1. 0 \in 0 .. n /\ 0 .. 0 - 1 = {} /\ 0 .. 0 = {0}
    BY <1>0
  <2>2. f[0] = g[0]
    BY <1>7, <2>1
  <2>3. QED
    BY <2>1, <2>2
<1>9. ASSUME NEW k \in 1 .. n, k - 1 \in Same
      PROVE  k \in Same
  <2>1. k \in 0 .. n /\ \A m \in 0 .. k : m = k \/ m \in 0 .. k - 1
    BY <1>0
  <2>2. \A m \in 0 .. k - 1 : f[m] = g[m]
    BY <1>9
  <2>3. f[k] = g[k]
    BY <1>7, <2>1, <2>2
  <2>4. QED
    BY <2>1, <2>2, <2>3
<1>10. n \in Same
  <2> HIDE DEF Same
  <2>1. 0 .. n \subseteq Same
    BY <1>0, <1>8, <1>9, Reached, Zenon
  <2>2. QED
    BY <1>0, <2>1
<1>11. f[n] = g[n]
  BY <1>0, <1>10
<1>12. QED
  BY <1>1, <1>2, <1>3, <1>11, Zenon

\* A path without a slash is a component.
LEMMA WordsLast ==
    ASSUME NEW S, NEW p \in Seq(S), Free(p, {"/"})
    PROVE  Words(p) = Word(p)
<1>0. Len(p) \in Nat /\ Len(p) \in 0 .. Len(p) /\ 1 \in 1 .. Len(p) + 1 /\ DOMAIN p = 1 .. Len(p)
  OBVIOUS
<1>1. PathRest(p, "/")[Len(p)] = PathTurn(Behind(p, Len(p)), Len(p), PathRest(p, "/"), "/")
  BY <1>0, PathEqual
<1>2. \A i \in 1 .. Len(p) : p[i] # "/"
  BY <1>0 DEF Free
<1>3. Find(p, <<"/">>, 1) = 0
  <2>1. ~FirstAt(p, "/", 1, Find(p, <<"/">>, 1))
    BY <1>2, Zenon DEF FirstAt
  <2>2. QED
    BY <1>0, <2>1, NoneOrFirst, Zenon
<1>4. QED
  BY <1>1, <1>3, BehindAll, PathRestIsUsed, Zenon DEF PathTurn

\* The first component of a path, and the path behind the next slash.
LEMMA WordsMore ==
    ASSUME NEW S, "/" \in S, NEW a \in Seq(S), NEW b \in Seq(S), Free(a, {"/"})
    PROVE  Words(Seam(a, "/", b)) = Cat(Word(a), Words(b))
<1>1. PICK q : q = Seam(a, "/", b)
  OBVIOUS
<1>2. q \in Seq(S) /\ Len(q) = Len(a) + 1 + Len(b)
  <2>1. q \in Seq(S) /\ Joins(q, a, "/", b)
    BY <1>1, SeamParts, Zenon
  <2>2. QED
    BY <2>1, Zenon DEF Joins
<1>3. SubSeq(q, 1, Len(a)) = a /\ Behind(q, Len(b)) = b
  BY <1>1, SeamCut
<1>4. FirstAt(q, "/", 1, Len(a) + 1)
  BY <1>1, SeamFirst
<1>5. /\ Len(q) \in 0 .. Len(q) /\ 1 \in 1 .. Len(q) + 1 /\ Len(b) \in 0 .. Len(q)
      /\ Len(a) + 1 - 1 = Len(a) /\ Len(q) - (Len(a) + 1) = Len(b)
  BY <1>2
<1>6. Find(q, <<"/">>, 1) = Len(a) + 1 /\ Len(a) + 1 # 0
  BY <1>2, <1>4, <1>5, FirstIsFound
<1>7. PathRest(q, "/")[Len(q)] = PathTurn(q, Len(q), PathRest(q, "/"), "/")
  <2>1. PathRest(q, "/")[Len(q)] = PathTurn(Behind(q, Len(q)), Len(q), PathRest(q, "/"), "/")
    BY <1>2, <1>5, PathEqual
  <2>2. QED
    BY <1>2, <2>1, BehindAll, Zenon
<1>8. PathTurn(q, Len(q), PathRest(q, "/"), "/") = Cat(Word(a), PathRest(q, "/")[Len(b)])
  <2>1. PICK g : g = PathRest(q, "/")
    OBVIOUS
  <2>2. PICK j : j = Len(a) + 1
    OBVIOUS
  <2>3. Find(q, <<"/">>, 1) = j /\ j # 0 /\ j - 1 = Len(a) /\ Len(q) - j = Len(b)
    BY <1>5, <1>6, <2>2
  <2>4. PathTurn(q, Len(q), g, "/") = Cat(Word(SubSeq(q, 1, j - 1)), g[Len(q) - j])
    BY <2>3, Zenon DEF PathTurn
  <2>5. QED
    BY <1>3, <2>1, <2>3, <2>4, Zenon
<1>9. PathRest(q, "/")[Len(b)] = PathRest(b, "/")[Len(b)]
  BY <1>2, <1>3, <1>5, PathSuffix
<1>10. QED
  BY <1>1, <1>7, <1>8, <1>9, PathRestIsUsed, Zenon

-----------------------------------------------------------------------------
(***************************************************************************)
(* The loop of tokenizeOpCmd, on a command line that ends in a quote.  On  *)
(* others it need not come to an end.                                      *)
(***************************************************************************)
TokTurn(cmd, n, all, g, sp, qu) ==
    LET space == Find(cmd, <<sp>>, 1)
        close == Find(cmd, <<qu>>, 2)
        quoted == cmd # <<>> /\ cmd[1] = qu
        upto(i) == IF i = 0 THEN n ELSE i - 1
        word == IF quoted THEN SubSeq(cmd, 2, upto(close)) ELSE SubSeq(cmd, 1, upto(space))
    IN  IF space = 0 THEN IF word \in {<<>>, <<qu, qu>>} THEN <<>> ELSE <<word>>
        ELSE IF quoted THEN Cat(<<word>>, g[IF close = 0 THEN all ELSE n - close])
        ELSE Cat(IF word = <<>> THEN <<>> ELSE <<word>>, g[n - space])

TokRest(s, sp, qu) ==
    CHOOSE f : f = [n \in 0 .. Len(s) |-> TokTurn(Behind(s, n), n, Len(s), f, sp, qu)]

TokLoop(s, sp, qu, g, k) ==
    g = [n \in 0 .. k |-> TokTurn(Behind(s, n), n, Len(s), g, sp, qu)]

\* tokenizeOpCmd is the solution that TokRest chooses.
LEMMA TokRestIsUsed ==
    ASSUME NEW s
    PROVE  tokenizeOpCmd(s) = TokRest(s, " ", "'")[Len(s)]
BY DEF tokenizeOpCmd, TokRest, TokTurn, Cat

EndsIn(s, qu) == s = <<>> \/ s[Len(s)] = qu

Left(S, cmd, n, qu) == cmd \in Seq(S) /\ Len(cmd) = n /\ EndsIn(cmd, qu)

\* An end of a text that ends in a quote ends in it as well, or is empty.
LEMMA BehindLeft ==
    ASSUME NEW S, NEW s \in Seq(S), NEW qu, EndsIn(s, qu), NEW n \in 0 .. Len(s)
    PROVE  Left(S, Behind(s, n), n, qu)
<1>0. /\ Behind(s, n) \in Seq(S) /\ Len(Behind(s, n)) = n
      /\ \A i \in 1 .. n : Behind(s, n)[i] = s[Len(s) - n + i]
  BY BehindType, Zenon
<1>1. PICK t \in Seq(S) : /\ t = Behind(s, n) /\ Len(t) = n
                          /\ \A i \in 1 .. n : t[i] = s[Len(s) - n + i]
  BY <1>0, Zenon
<1>2. EndsIn(t, qu)
  <2>1. CASE n = 0
    BY <1>1, <2>1 DEF EndsIn
  <2>2. CASE n # 0
    <3>1. n \in 1 .. n /\ Len(s) - n + n = Len(s) /\ Len(s) # 0
      BY <2>2
    <3>2. t[n] = s[Len(s)] /\ s # <<>>
      BY <1>1, <3>1
    <3>3. QED
      BY <1>1, <3>2, Zenon DEF EndsIn
  <2>3. QED
    BY <2>1, <2>2
<1>3. QED
  BY <1>1, <1>2, Zenon DEF Left

\* A quoted word with a space behind it is closed.
LEMMA QuoteCloses ==
    ASSUME NEW S, NEW cmd, NEW n, NEW sp, NEW qu, sp # qu, Left(S, cmd, n, qu),
           cmd # <<>>, cmd[1] = qu, NEW j, FirstAt(cmd, sp, 1, j)
    PROVE  Find(cmd, <<qu>>, 2) \in 2 .. n
<1>1. cmd \in Seq(S) /\ Len(cmd) = n /\ cmd[n] = qu /\ n \in Nat
  BY DEF Left, EndsIn
<1>2. j \in 1 .. n /\ cmd[j] = sp
  BY <1>1 DEF FirstAt
<1>3. j # 1
  BY <1>2
<1>4. n \in 2 .. n /\ 2 \in 1 .. Len(cmd) + 1
  BY <1>1, <1>2, <1>3
<1>5. ~NoneFrom(cmd, qu, 2)
  BY <1>1, <1>4 DEF NoneFrom
<1>6. FirstAt(cmd, qu, 2, Find(cmd, <<qu>>, 2))
  BY <1>1, <1>4, <1>5, NoneOrFirst, Zenon
<1>7. QED
  BY <1>1, <1>6 DEF FirstAt

\* The cases of a turn.
LEMMA TokTurnLast ==
    ASSUME NEW cmd, NEW n, NEW all, NEW g, NEW sp, NEW qu, Find(cmd, <<sp>>, 1) = 0
    PROVE  TokTurn(cmd, n, all, g, sp, qu) = TokTurn(cmd, n, 0, <<>>, sp, qu)
BY Zenon DEF TokTurn

Opens(cmd, sp, qu) ==
    Find(cmd, <<sp>>, 1) # 0 /\ cmd # <<>> /\ cmd[1] = qu /\ Find(cmd, <<qu>>, 2) # 0

\* A turn of the loop of tokenizeOpCmd at a word in quotes.
LEMMA TokTurnQuoted ==
    ASSUME NEW cmd, NEW n, NEW all, NEW g, NEW sp, NEW qu, Opens(cmd, sp, qu)
    PROVE  TokTurn(cmd, n, all, g, sp, qu)
             = Cat(<<SubSeq(cmd, 2, Find(cmd, <<qu>>, 2) - 1)>>, g[n - Find(cmd, <<qu>>, 2)])
BY Zenon DEF TokTurn, Opens

Kept1(w) == IF w = <<>> THEN <<>> ELSE <<w>>

\* A turn of the loop at a word without quotes.
LEMMA TokTurnPlain ==
    ASSUME NEW cmd, NEW n, NEW all, NEW g, NEW sp, NEW qu, Find(cmd, <<sp>>, 1) # 0,
           ~(cmd # <<>> /\ cmd[1] = qu)
    PROVE  TokTurn(cmd, n, all, g, sp, qu)
             = Cat(Kept1(SubSeq(cmd, 1, Find(cmd, <<sp>>, 1) - 1)), g[n - Find(cmd, <<sp>>, 1)])
BY Zenon DEF TokTurn, Kept1

\* A turn looks back at earlier ones only.
LEMMA TokTurnSame ==
    ASSUME NEW S, NEW cmd, NEW n, NEW sp, NEW qu, sp # qu, Left(S, cmd, n, qu),
           NEW all, NEW any, NEW g, NEW h, \A m \in 0 .. n - 1 : g[m] = h[m]
    PROVE  TokTurn(cmd, n, all, g, sp, qu) = TokTurn(cmd, n, any, h, sp, qu)
<1>1. cmd \in Seq(S) /\ Len(cmd) = n /\ n \in Nat /\ 1 \in 1 .. Len(cmd) + 1
  BY DEF Left
<1>2. PICK j : j = Find(cmd, <<sp>>, 1)
  OBVIOUS
<1>3. j = 0 \/ FirstAt(cmd, sp, 1, j)
  BY <1>1, <1>2, NoneOrFirst, Zenon
<1>4. CASE j = 0
  BY <1>2, <1>4, TokTurnLast
<1>5. CASE j # 0 /\ cmd # <<>> /\ cmd[1] = qu
  <2>1. Find(cmd, <<qu>>, 2) \in 2 .. n
    BY <1>3, <1>5, QuoteCloses, Zenon
  <2>2. Find(cmd, <<qu>>, 2) # 0 /\ n - Find(cmd, <<qu>>, 2) \in 0 .. n - 1
    BY <1>1, <2>1
  <2>3. g[n - Find(cmd, <<qu>>, 2)] = h[n - Find(cmd, <<qu>>, 2)]
    BY <2>2
  <2>4. Opens(cmd, sp, qu)
    BY <1>2, <1>5, <2>2, Zenon DEF Opens
  <2>5. TokTurn(cmd, n, all, g, sp, qu)
          = Cat(<<SubSeq(cmd, 2, Find(cmd, <<qu>>, 2) - 1)>>, g[n - Find(cmd, <<qu>>, 2)])
    BY <2>4, TokTurnQuoted
  <2>6. TokTurn(cmd, n, any, h, sp, qu)
          = Cat(<<SubSeq(cmd, 2, Find(cmd, <<qu>>, 2) - 1)>>, h[n - Find(cmd, <<qu>>, 2)])
    BY <2>4, TokTurnQuoted
  <2>7. QED
    BY <2>3, <2>5, <2>6, Zenon
<1>6. CASE j # 0 /\ ~(cmd # <<>> /\ cmd[1] = qu)
  <2>1. j \in 1 .. n
    BY <1>1, <1>3, <1>6 DEF FirstAt
  <2>2. n - j \in 0 .. n - 1
    BY <1>1, <2>1
  <2>3. g[n - j] = h[n - j]
    BY <2>2
  <2>4. QED
    BY <1>2, <1>6, <2>3, TokTurnPlain
<1>7. QED
  BY <1>4, <1>5, <1>6, Zenon

\* The loop has a solution, and TokRest is one.
LEMMA TokRestSolves ==
    ASSUME NEW S, NEW s \in Seq(S), NEW sp, NEW qu, sp # qu, EndsIn(s, qu)
    PROVE  TokLoop(s, sp, qu, TokRest(s, sp, qu), Len(s))
<1> DEFINE N == Len(s)
           Runs == {k \in 0 .. N : \E g : TokLoop(s, sp, qu, g, k)}
<1>0. N \in Nat
  OBVIOUS
<1>b. \A n \in 0 .. N : Left(S, Behind(s, n), n, qu)
  BY BehindLeft
<1>c. ASSUME NEW n \in 0 .. N, NEW g, NEW h, \A m \in 0 .. n - 1 : g[m] = h[m]
      PROVE  TokTurn(Behind(s, n), n, Len(s), g, sp, qu) = TokTurn(Behind(s, n), n, Len(s), h, sp, qu)
  BY <1>b, <1>c, TokTurnSame
<1>1. 0 \in Runs
  <2> DEFINE g == [n \in 0 .. 0 |-> TokTurn(Behind(s, n), n, Len(s), <<>>, sp, qu)]
  <2>1. ASSUME NEW n \in 0 .. 0
        PROVE  TokTurn(Behind(s, n), n, Len(s), g, sp, qu) = TokTurn(Behind(s, n), n, Len(s), <<>>, sp, qu)
    <3>1. n \in 0 .. N /\ 0 .. n - 1 = {}
      BY <1>0
    <3> HIDE DEF g, N
    <3>2. QED
      BY <3>1, <1>c, Zenon
  <2>2. g = [n \in 0 .. 0 |-> TokTurn(Behind(s, n), n, Len(s), g, sp, qu)]
    BY <2>1
  <2>3. QED
    BY <1>0, <2>2 DEF TokLoop
<1>2. ASSUME NEW k \in 1 .. N, k - 1 \in Runs
      PROVE  k \in Runs
  <2>1. PICK g : TokLoop(s, sp, qu, g, k - 1)
    BY <1>2
  <2> DEFINE h == [n \in 0 .. k |-> IF n = k THEN TokTurn(Behind(s, k), k, Len(s), g, sp, qu) ELSE g[n]]
  <2>2. ASSUME NEW n \in 0 .. k
        PROVE  TokTurn(Behind(s, n), n, Len(s), h, sp, qu) = TokTurn(Behind(s, n), n, Len(s), g, sp, qu)
    <3>1. n \in 0 .. N
      BY <1>0
    <3>2. \A m \in 0 .. n - 1 : h[m] = g[m]
      BY <1>0
    <3> HIDE DEF h, N
    <3>3. QED
      BY <3>1, <3>2, <1>c, Zenon
  <2>3. \A n \in 0 .. k - 1 : g[n] = TokTurn(Behind(s, n), n, Len(s), g, sp, qu)
    BY <2>1 DEF TokLoop
  <2>4. ASSUME NEW n \in 0 .. k
        PROVE  h[n] = TokTurn(Behind(s, n), n, Len(s), g, sp, qu)
    <3>1. CASE n = k
      BY <3>1
    <3>2. CASE n # k
      <4>1. n \in 0 .. k - 1
        BY <1>0, <3>2
      <4>2. QED
        BY <2>3, <3>2, <4>1
    <3>3. QED
      BY <3>1, <3>2
  <2>5. h = [n \in 0 .. k |-> h[n]]
    OBVIOUS
  <2> HIDE DEF h
  <2>6. \A n \in 0 .. k : h[n] = TokTurn(Behind(s, n), n, Len(s), h, sp, qu)
    BY <2>2, <2>4
  <2>7. h = [n \in 0 .. k |-> TokTurn(Behind(s, n), n, Len(s), h, sp, qu)]
    BY <2>5, <2>6
  <2>8. QED
    BY <2>7 DEF TokLoop
<1>3. N \in Runs
  <2> HIDE DEF Runs, N
  <2>1. 0 .. N \subseteq Runs
    BY <1>0, <1>1, <1>2, Reached
  <2>2. QED
    BY <1>0, <2>1
<1>4. PICK g : g = [n \in 0 .. Len(s) |-> TokTurn(Behind(s, n), n, Len(s), g, sp, qu)]
  BY <1>3 DEF TokLoop
<1>5. QED
  BY <1>4, Zenon DEF TokRest, TokLoop

\* The recursive function of tokenizeOpCmd fulfils its equation.
LEMMA TokEqual ==
    ASSUME NEW S, NEW s \in Seq(S), NEW sp, NEW qu, sp # qu, EndsIn(s, qu), NEW n \in 0 .. Len(s)
    PROVE  TokRest(s, sp, qu)[n] = TokTurn(Behind(s, n), n, Len(s), TokRest(s, sp, qu), sp, qu)
<1>1. PICK f : f = TokRest(s, sp, qu)
  OBVIOUS
<1>2. f = [m \in 0 .. Len(s) |-> TokTurn(Behind(s, m), m, Len(s), f, sp, qu)]
  <2>1. TokLoop(s, sp, qu, f, Len(s))
    BY <1>1, TokRestSolves, Zenon
  <2>2. QED
    BY <2>1, Zenon DEF TokLoop
<1>3. f[n] = TokTurn(Behind(s, n), n, Len(s), f, sp, qu)
  BY <1>2, Zenon
<1>4. QED
  BY <1>1, <1>3, Zenon

\* What the loop makes of the last characters of a text is what it makes of these
\* alone.
LEMMA TokSuffix ==
    ASSUME NEW S, NEW s \in Seq(S), NEW sp, NEW qu, sp # qu, EndsIn(s, qu), NEW n \in 0 .. Len(s)
    PROVE  TokRest(s, sp, qu)[n] = TokRest(Behind(s, n), sp, qu)[n]
<1>0. Len(s) \in Nat /\ n \in Nat
  OBVIOUS
<1>1. PICK t \in Seq(S) : t = Behind(s, n) /\ Len(t) = n /\ EndsIn(t, qu)
  BY BehindLeft, Zenon DEF Left
<1>2. PICK f : f = TokRest(s, sp, qu)
  OBVIOUS
<1>3. PICK g : g = TokRest(t, sp, qu)
  OBVIOUS
<1>4. TokLoop(s, sp, qu, f, Len(s)) /\ TokLoop(t, sp, qu, g, n)
  BY <1>1, <1>2, <1>3, TokRestSolves, Zenon
<1>5. \A m \in 0 .. Len(s) : f[m] = TokTurn(Behind(s, m), m, Len(s), f, sp, qu)
  BY <1>4, Zenon DEF TokLoop
<1>6. \A m \in 0 .. n : g[m] = TokTurn(Behind(t, m), m, Len(t), g, sp, qu)
  BY <1>4, Zenon DEF TokLoop
<1> DEFINE Same == {k \in 0 .. n : \A m \in 0 .. k : f[m] = g[m]}
<1>7. ASSUME NEW k \in 0 .. n, \A m \in 0 .. k - 1 : f[m] = g[m]
      PROVE  f[k] = g[k]
  <2>1. k \in 0 .. Len(s)
    BY <1>0
  <2>2. Behind(t, k) = Behind(s, k)
    BY <1>1, BehindBehind
  <2>3. Left(S, Behind(s, k), k, qu)
    BY <2>1, BehindLeft
  <2>4. TokTurn(Behind(s, k), k, Len(s), f, sp, qu) = TokTurn(Behind(s, k), k, Len(t), g, sp, qu)
    BY <1>7, <2>3, TokTurnSame
  <2>5. QED
    BY <1>5, <1>6, <2>1, <2>2, <2>4, Zenon
<1>8. 0 \in Same
  <2>1. 0 \in 0 .. n /\ 0 .. 0 - 1 = {} /\ 0 .. 0 = {0}
    BY <1>0
  <2>2. f[0] = g[0]
    BY <1>7, <2>1
  <2>3. QED
    BY <2>1, <2>2
<1>9. ASSUME NEW k \in 1 .. n, k - 1 \in Same
      PROVE  k \in Same
  <2>1. k \in 0 .. n /\ \A m \in 0 .. k : m = k \/ m \in 0 .. k - 1
    BY <1>0
  <2>2. \A m \in 0 .. k - 1 : f[m] = g[m]
    BY <1>9
  <2>3. f[k] = g[k]
    BY <1>7, <2>1, <2>2
  <2>4. QED
    BY <2>1, <2>2, <2>3
<1>10. n \in Same
  <2> HIDE DEF Same
  <2>1. 0 .. n \subseteq Same
    BY <1>0, <1>8, <1>9, Reached, Zenon
  <2>2. QED
    BY <1>0, <2>1
<1>11. f[n] = g[n]
  BY <1>0, <1>10
<1>12. QED
  BY <1>1, <1>2, <1>3, <1>11, Zenon

-----------------------------------------------------------------------------
(***************************************************************************)
(* The words of a command line.                                            *)
(***************************************************************************)
TokOf(s, sp, qu) == TokRest(s, sp, qu)[Len(s)]

\* The loop on a whole command line, and on the rest of it.
LEMMA TokUnfold ==
    ASSUME NEW S, NEW q \in Seq(S), NEW sp, NEW qu, sp # qu, EndsIn(q, qu)
    PROVE  TokOf(q, sp, qu) = TokTurn(q, Len(q), Len(q), TokRest(q, sp, qu), sp, qu)
<1>1. Len(q) \in 0 .. Len(q)
  OBVIOUS
<1>2. TokRest(q, sp, qu)[Len(q)]
        = TokTurn(Behind(q, Len(q)), Len(q), Len(q), TokRest(q, sp, qu), sp, qu)
  BY <1>1, TokEqual, Zenon
<1>3. QED
  BY <1>2, BehindAll, Zenon DEF TokOf

IsBehind(q, b) == Len(b) \in 0 .. Len(q) /\ Behind(q, Len(b)) = b

\* What the loop makes of the rest depends on the rest only.
LEMMA TokBehind ==
    ASSUME NEW S, NEW q \in Seq(S), NEW sp, NEW qu, sp # qu, EndsIn(q, qu),
           NEW b, IsBehind(q, b)
    PROVE  TokRest(q, sp, qu)[Len(b)] = TokOf(b, sp, qu)
<1>1. TokRest(q, sp, qu)[Len(b)] = TokRest(Behind(q, Len(b)), sp, qu)[Len(b)]
  BY TokSuffix, Zenon DEF IsBehind
<1>2. QED
  BY <1>1, Zenon DEF TokOf, IsBehind

\* There are no words in the empty line.
LEMMA TokEmpty ==
    ASSUME NEW sp, NEW qu, sp # qu
    PROVE  TokOf(<<>>, sp, qu) = <<>>
<1>1. PICK q : q = <<>>
  OBVIOUS
<1>2. q \in Seq({}) /\ Len(q) = 0 /\ 1 \in 1 .. Len(q) + 1 /\ EndsIn(q, qu)
  BY <1>1 DEF EndsIn
<1>3. Find(q, <<sp>>, 1) = 0
  <2>1. ~FirstAt(q, sp, 1, Find(q, <<sp>>, 1))
    BY <1>2 DEF FirstAt
  <2>2. QED
    BY <1>2, <2>1, NoneOrFirst, Zenon
<1>4. SubSeq(q, 1, 0) = <<>>
  BY <1>2, SubSeqEmpty
<1>5. TokTurn(q, Len(q), Len(q), TokRest(q, sp, qu), sp, qu) = <<>>
  BY <1>1, <1>2, <1>3, <1>4, Zenon DEF TokTurn
<1>6. TokOf(q, sp, qu) = TokTurn(q, Len(q), Len(q), TokRest(q, sp, qu), sp, qu)
  BY <1>2, TokUnfold, Zenon
<1>7. QED
  BY <1>1, <1>5, <1>6, Zenon

\* A word without a quote at its start, up to the next space.
LEMMA TokPlain ==
    ASSUME NEW S, NEW sp \in S, NEW qu, sp # qu, NEW a \in Seq(S), NEW b \in Seq(S),
           b # <<>>, EndsIn(b, qu), Free(a, {sp}), a = <<>> \/ a[1] # qu
    PROVE  /\ EndsIn(Seam(a, sp, b), qu)
           /\ TokOf(Seam(a, sp, b), sp, qu) = Cat(Kept1(a), TokOf(b, sp, qu))
<1>1. PICK q : q = Seam(a, sp, b)
  OBVIOUS
<1>2. q \in Seq(S) /\ Joins(q, a, sp, b)
  BY <1>1, SeamParts, Zenon
<1>3. Len(a) \in Nat /\ Len(b) \in Nat /\ Len(b) # 0 /\ Len(q) = Len(a) + 1 + Len(b)
  BY <1>2 DEF Joins
<1>4. EndsIn(q, qu)
  <2>1. Len(b) \in 1 .. Len(b) /\ Len(a) + 1 + Len(b) = Len(q)
    BY <1>3
  <2>2. q[Len(q)] = b[Len(b)]
    BY <1>2, <2>1 DEF Joins
  <2>3. QED
    BY <2>2, Zenon DEF EndsIn
<1>5. ~(q # <<>> /\ q[1] = qu)
  <2>1. CASE a = <<>>
    <3>1. Len(a) + 1 = 1
      BY <2>1
    <3>2. q[1] = sp
      BY <1>2, <3>1 DEF Joins
    <3>3. QED
      BY <3>2
  <2>2. CASE a # <<>> /\ a[1] # qu
    <3>1. 1 \in 1 .. Len(a)
      BY <2>2
    <3>2. q[1] = a[1]
      BY <1>2, <3>1 DEF Joins
    <3>3. QED
      BY <2>2, <3>2
  <2>3. QED
    BY <2>1, <2>2
<1>6. PICK j : j = Len(a) + 1
  OBVIOUS
<1>7. /\ 1 \in 1 .. Len(q) + 1 /\ j - 1 = Len(a) /\ Len(q) - j = Len(b)
      /\ Len(b) \in 0 .. Len(q)
  BY <1>3, <1>6
<1>8. FirstAt(q, sp, 1, j)
  BY <1>1, <1>6, SeamFirst, Zenon
<1>9. Find(q, <<sp>>, 1) = j /\ j # 0
  BY <1>2, <1>7, <1>8, FirstIsFound, Zenon
<1>10. SubSeq(q, 1, Len(a)) = a /\ Behind(q, Len(b)) = b
  BY <1>1, SeamCut, Zenon
<1>11. PICK g : g = TokRest(q, sp, qu)
  OBVIOUS
<1>12. TokTurn(q, Len(q), Len(q), g, sp, qu) = Cat(Kept1(a), g[Len(b)])
  <2>1. TokTurn(q, Len(q), Len(q), g, sp, qu)
          = Cat(Kept1(SubSeq(q, 1, j - 1)), g[Len(q) - j])
    BY <1>5, <1>9, TokTurnPlain, Zenon
  <2>2. QED
    BY <1>7, <1>10, <2>1, Zenon
<1>13. g[Len(b)] = TokOf(b, sp, qu)
  <2>1. IsBehind(q, b)
    BY <1>7, <1>10, Zenon DEF IsBehind
  <2>2. TokRest(q, sp, qu)[Len(b)] = TokOf(b, sp, qu)
    BY <1>2, <1>4, <2>1, TokBehind
  <2>3. QED
    BY <1>11, <2>2, Zenon
<1>14. TokOf(q, sp, qu) = Cat(Kept1(a), TokOf(b, sp, qu))
  BY <1>2, <1>4, <1>11, <1>12, <1>13, TokUnfold, Zenon
<1>15. QED
  BY <1>1, <1>4, <1>14, Zenon

\* A word in quotes, with what follows it.
InQuotes(m, qu, b) == Seam(Cat(<<qu>>, m), qu, b)

Begins(q, m, qu, b) ==
    /\ Len(q) = Len(m) + 2 + Len(b) /\ q # <<>> /\ q[1] = qu
    /\ FirstAt(q, qu, 2, Len(m) + 2)
    /\ SubSeq(q, 2, Len(m) + 1) = m
    /\ Behind(q, Len(b)) = b

\* A word in quotes with more behind it: the closing quote is the next one.
LEMMA QuotedWord ==
    ASSUME NEW S, NEW qu \in S, NEW m \in Seq(S), NEW b \in Seq(S), EndsIn(b, qu),
           Free(m, {qu})
    PROVE  /\ InQuotes(m, qu, b) \in Seq(S) /\ EndsIn(InQuotes(m, qu, b), qu)
           /\ Begins(InQuotes(m, qu, b), m, qu, b)
<1>1. PICK a : a = Cat(<<qu>>, m)
  OBVIOUS
<1>2. /\ a \in Seq(S) /\ Len(a) = Len(m) + 1 /\ a[1] = qu
      /\ \A i \in 1 .. Len(m) : a[i + 1] = m[i]
  <2>0. <<qu>> \in Seq(S) /\ Len(<<qu>>) = 1 /\ <<qu>>[1] = qu
    OBVIOUS
  <2>1. PICK o \in Seq(S) : o = <<qu>> /\ Len(o) = 1 /\ o[1] = qu
    BY <2>0, Zenon
  <2>2. /\ o \o m \in Seq(S) /\ Len(o \o m) = Len(o) + Len(m)
        /\ \A i \in 1 .. Len(o) + Len(m) : (o \o m)[i] = IF i <= Len(o) THEN o[i] ELSE m[i - Len(o)]
    BY ConcatProperties
  <2>3. a = o \o m
    BY <1>1, <2>1, Zenon DEF Cat
  <2>4. /\ a \in Seq(S) /\ Len(a) = 1 + Len(m)
        /\ \A i \in 1 .. 1 + Len(m) : a[i] = IF i <= 1 THEN o[i] ELSE m[i - 1]
    BY <2>1, <2>2, <2>3, Zenon
  <2>5. Len(m) \in Nat
    OBVIOUS
  <2>6. a[1] = qu
    BY <2>1, <2>4, <2>5
  <2>7. ASSUME NEW i \in 1 .. Len(m) PROVE a[i + 1] = m[i]
    <3>1. i + 1 \in 1 .. 1 + Len(m) /\ ~(i + 1 <= 1) /\ i + 1 - 1 = i
      BY <2>5
    <3>2. QED
      BY <2>4, <3>1
  <2>8. QED
    BY <2>4, <2>5, <2>6, <2>7
<1>3. PICK q : q = InQuotes(m, qu, b)
  OBVIOUS
<1>4. q \in Seq(S) /\ Joins(q, a, qu, b) /\ Behind(q, Len(b)) = b /\ SubSeq(q, 1, Len(a)) = a
  BY <1>1, <1>2, <1>3, SeamParts, SeamCut, Zenon DEF InQuotes
<1>5. Len(m) \in Nat /\ Len(b) \in Nat /\ Len(q) = Len(m) + 2 + Len(b)
  BY <1>2, <1>4 DEF Joins
<1>6. q # <<>> /\ q[1] = qu
  <2>1. 1 \in 1 .. Len(a)
    BY <1>2, <1>5
  <2>2. q[1] = a[1]
    BY <1>4, <2>1, Zenon DEF Joins
  <2>3. QED
    BY <1>2, <1>5, <2>2
<1>7. \A i \in 1 .. Len(m) : q[i + 1] = m[i]
  <2>1. ASSUME NEW i \in 1 .. Len(m) PROVE q[i + 1] = m[i]
    <3>1. i + 1 \in 1 .. Len(a)
      BY <1>2, <1>5
    <3>2. q[i + 1] = a[i + 1]
      BY <1>4, <3>1, Zenon DEF Joins
    <3>3. QED
      BY <1>2, <3>2
  <2>2. QED
    BY <2>1
<1>8. q[Len(m) + 2] = qu
  <2>1. Len(a) + 1 = Len(m) + 2
    BY <1>2, <1>5
  <2>2. QED
    BY <1>4, <2>1, Zenon DEF Joins
<1>9. FirstAt(q, qu, 2, Len(m) + 2)
  <2>1. \A i \in 1 .. Len(m) : m[i] # qu
    BY DEF Free
  <2>2. ASSUME NEW i \in 2 .. Len(m) + 2 - 1 PROVE q[i] # qu
    <3>1. i - 1 \in 1 .. Len(m) /\ i - 1 + 1 = i
      BY <1>5
    <3>2. q[i] = m[i - 1]
      BY <1>7, <3>1
    <3>3. QED
      BY <2>1, <3>1, <3>2
  <2>3. Len(m) + 2 \in 2 .. Len(q)
    BY <1>5
  <2>4. \A i \in 2 .. Len(m) + 2 - 1 : q[i] # qu
    BY <2>2, Zenon
  <2>5. QED
    BY <1>8, <2>3, <2>4 DEF FirstAt
<1>10. SubSeq(q, 2, Len(m) + 1) = m
  <2>1. 2 \in 1 .. Len(q) + 1 /\ Len(m) + 1 \in 2 - 1 .. Len(q)
    BY <1>5
  <2>2. SubSeq(q, 2, Len(m) + 1) \in Seq(S)
    BY <1>4, <2>1, PartType
  <2>3. /\ Len(SubSeq(q, 2, Len(m) + 1)) = Len(m)
        /\ \A i \in 1 .. Len(m) : SubSeq(q, 2, Len(m) + 1)[i] = q[i + 1]
    BY <1>4, <1>5, <2>1, SubSeqProperties
  <2>4. QED
    BY <1>7, <2>2, <2>3, SameText
<1>11. EndsIn(q, qu)
  <2>1. CASE b = <<>>
    <3>1. Len(q) = Len(m) + 2
      BY <1>5, <2>1
    <3>2. QED
      BY <1>8, <3>1, Zenon DEF EndsIn
  <2>2. CASE b # <<>>
    <3>1. Len(b) \in 1 .. Len(b) /\ Len(a) + 1 + Len(b) = Len(q)
      BY <1>2, <1>5, <2>2
    <3>2. q[Len(q)] = b[Len(b)]
      BY <1>4, <3>1 DEF Joins
    <3>3. QED
      BY <2>2, <3>2, Zenon DEF EndsIn
  <2>3. QED
    BY <2>1, <2>2
<1>12. Begins(q, m, qu, b)
  BY <1>4, <1>5, <1>6, <1>9, <1>10, Zenon DEF Begins
<1>13. QED
  BY <1>3, <1>4, <1>11, <1>12, Zenon

\* A word in quotes is taken without them when there is a space in it or behind.
LEMMA TokQuoted ==
    ASSUME NEW S, NEW sp, NEW qu \in S, sp # qu, NEW m \in Seq(S), NEW b \in Seq(S),
           EndsIn(b, qu), Free(m, {qu}), ~NoneFrom(InQuotes(m, qu, b), sp, 1)
    PROVE  TokOf(InQuotes(m, qu, b), sp, qu) = Cat(<<m>>, TokOf(b, sp, qu))
<1>1. PICK q : q = InQuotes(m, qu, b)
  OBVIOUS
<1>2. q \in Seq(S) /\ EndsIn(q, qu) /\ Begins(q, m, qu, b)
  BY <1>1, QuotedWord, Zenon
<1>3. PICK j : j = Len(m) + 2
  OBVIOUS
<1>4. /\ Len(q) = Len(m) + 2 + Len(b) /\ q # <<>> /\ q[1] = qu
      /\ FirstAt(q, qu, 2, j)
      /\ SubSeq(q, 2, Len(m) + 1) = m
      /\ Behind(q, Len(b)) = b
  BY <1>2, <1>3, Zenon DEF Begins
<1>5. /\ Len(m) \in Nat /\ Len(b) \in Nat /\ 1 \in 1 .. Len(q) + 1 /\ 2 \in 1 .. Len(q) + 1
      /\ j - 1 = Len(m) + 1 /\ Len(q) - j = Len(b) /\ Len(b) \in 0 .. Len(q)
  BY <1>3, <1>4
<1>6. Find(q, <<qu>>, 2) = j /\ j # 0
  BY <1>2, <1>4, <1>5, FirstIsFound, Zenon
<1>7. Find(q, <<sp>>, 1) # 0
  <2>1. FirstAt(q, sp, 1, Find(q, <<sp>>, 1))
    BY <1>1, <1>2, <1>5, NoneOrFirst, Zenon
  <2>2. QED
    BY <2>1 DEF FirstAt
<1>8. PICK g : g = TokRest(q, sp, qu)
  OBVIOUS
<1>9. TokTurn(q, Len(q), Len(q), g, sp, qu) = Cat(<<SubSeq(q, 2, j - 1)>>, g[Len(q) - j])
  <2>1. Opens(q, sp, qu)
    BY <1>4, <1>6, <1>7, Zenon DEF Opens
  <2>2. TokTurn(q, Len(q), Len(q), g, sp, qu)
          = Cat(<<SubSeq(q, 2, Find(q, <<qu>>, 2) - 1)>>, g[Len(q) - Find(q, <<qu>>, 2)])
    BY <2>1, TokTurnQuoted, Zenon
  <2>3. QED
    BY <1>6, <2>2, Zenon
<1>10. g[Len(b)] = TokOf(b, sp, qu)
  <2>1. IsBehind(q, b)
    BY <1>4, <1>5, Zenon DEF IsBehind
  <2>2. TokRest(q, sp, qu)[Len(b)] = TokOf(b, sp, qu)
    BY <1>2, <2>1, TokBehind
  <2>3. QED
    BY <1>8, <2>2, Zenon
<1>11. TokOf(q, sp, qu) = TokTurn(q, Len(q), Len(q), g, sp, qu)
  BY <1>2, <1>8, TokUnfold, Zenon
<1>12. QED
  BY <1>1, <1>4, <1>5, <1>9, <1>10, <1>11, Zenon

\* At the end of the line it is left out if it is empty and has no space behind.
LEMMA TokLast ==
    ASSUME NEW S, NEW sp, NEW qu \in S, sp # qu, NEW m \in Seq(S), Free(m, {qu})
    PROVE  TokOf(InQuotes(m, qu, <<>>), sp, qu) \in {<<m>>, Kept1(m)}
<1>0. <<>> \in Seq(S) /\ Len(<<>>) = 0
  OBVIOUS
<1>1. PICK b \in Seq(S) : b = <<>> /\ Len(b) = 0
  BY <1>0, Zenon
<1>2. PICK q : q = InQuotes(m, qu, b)
  OBVIOUS
<1>3. EndsIn(b, qu)
  BY <1>1, Zenon DEF EndsIn
<1>4. CASE ~NoneFrom(q, sp, 1)
  <2>1. TokOf(q, sp, qu) = Cat(<<m>>, TokOf(b, sp, qu))
    BY <1>2, <1>3, <1>4, TokQuoted, Zenon
  <2>2. PICK o : o = <<m>>
    BY Zenon
  <2>3. o \in Seq({m})
    BY <2>2
  <2>4. Cat(o, <<>>) = o
    BY <2>3, CatEmpty
  <2>5. QED
    BY <1>1, <1>2, <2>1, <2>2, <2>4, TokEmpty, Zenon
<1>5. CASE NoneFrom(q, sp, 1)
  <2>1. q \in Seq(S) /\ EndsIn(q, qu) /\ Begins(q, m, qu, b)
    BY <1>2, <1>3, QuotedWord, Zenon
  <2>2. PICK j : j = Len(m) + 2
    OBVIOUS
  <2>3. /\ Len(q) = Len(m) + 2 + Len(b) /\ q # <<>> /\ q[1] = qu
        /\ FirstAt(q, qu, 2, j)
        /\ SubSeq(q, 2, Len(m) + 1) = m
    BY <2>1, <2>2, Zenon DEF Begins
  <2>4. /\ 1 \in 1 .. Len(q) + 1 /\ 2 \in 1 .. Len(q) + 1 /\ j - 1 = Len(m) + 1
    BY <1>1, <2>2, <2>3
  <2>5. Find(q, <<qu>>, 2) = j /\ j # 0
    BY <2>1, <2>3, <2>4, FirstIsFound, Zenon
  <2>6. Find(q, <<sp>>, 1) = 0
    <3>1. ~FirstAt(q, sp, 1, Find(q, <<sp>>, 1))
      BY <1>5, Zenon DEF FirstAt, NoneFrom
    <3>2. QED
      BY <2>1, <2>4, <3>1, NoneOrFirst, Zenon
  <2>7. m # <<qu, qu>>
    <3>1. SUFFICES ASSUME m = <<qu, qu>> PROVE FALSE
      OBVIOUS
    <3>2. 1 \in DOMAIN m /\ m[1] = qu
      BY <3>1
    <3>3. QED
      BY <3>2 DEF Free
  <2>8. PICK g : g = TokRest(q, sp, qu)
    OBVIOUS
  <2>9. TokTurn(q, Len(q), Len(q), g, sp, qu) = Kept1(m)
    BY <2>3, <2>4, <2>5, <2>6, <2>7, Zenon DEF TokTurn, Kept1
  <2>10. TokOf(q, sp, qu) = Kept1(m)
    BY <2>1, <2>8, <2>9, TokUnfold, Zenon
  <2>11. QED
    BY <1>1, <1>2, <2>10, Zenon
<1>6. QED
  BY <1>4, <1>5, Zenon

-----------------------------------------------------------------------------
(***************************************************************************)
(* A component in quotes.                                                  *)
(***************************************************************************)
\* A text with some characters replaced.
LEMMA Replaced ==
    ASSUME NEW S, NEW t \in Seq(S), NEW D, D \subseteq S, NEW u, u = [i \in DOMAIN t |-> u[i]],
           \A i \in DOMAIN t : u[i] = t[i] \/ u[i] \in D
    PROVE  /\ u \in Seq(S) /\ Len(u) = Len(t) /\ DOMAIN u = DOMAIN t
           /\ \A cs : Free(t, cs) /\ cs \cap D = {} => Free(u, cs)
<1>1. DOMAIN t = 1 .. Len(t) /\ Len(t) \in Nat /\ \A i \in DOMAIN t : t[i] \in S
  OBVIOUS
<1>2. u \in [1 .. Len(t) -> S]
  BY <1>1
<1>3. u \in Seq(S) /\ Len(u) = Len(t)
  BY <1>1, <1>2
<1>4. DOMAIN u = DOMAIN t
  BY <1>1, <1>2
<1>5. \A cs : Free(t, cs) /\ cs \cap D = {} => Free(u, cs)
  BY <1>4, Zenon DEF Free
<1>6. QED
  BY <1>3, <1>4, <1>5, Zenon

\* A character that is unescaped stays or becomes a space or a slash.
LEMMA UnescapeOne ==
    ASSUME NEW t, NEW i \in DOMAIN t
    PROVE  unescape(t)[i] = t[i] \/ unescape(t)[i] \in {" ", "/"}
<1>1. unescape(t)[i] = CASE t[i] = "%2F" -> "/"
                         [] t[i] = "%20" -> " "
                         [] OTHER -> t[i]
  BY Zenon DEF unescape
<1>2. QED
  BY <1>1, Zenon

\* What is unescaped is a text, and has no single quote that was not there.
LEMMA UnescapeText ==
    ASSUME NEW S, " " \in S, "/" \in S, NEW t \in Seq(S)
    PROVE  unescape(t) \in Seq(S) /\ (Free(t, {"'"}) => Free(unescape(t), {"'"}))
<1>1. PICK u : u = unescape(t)
  BY Zenon
<1>2. PICK D : D = {" ", "/"}
  BY Zenon
<1>3. D \subseteq S /\ {"'"} \cap D = {}
  BY <1>2, Zenon
<1>4. u = [i \in DOMAIN t |-> u[i]]
  BY <1>1, Zenon DEF unescape
<1>5. \A i \in DOMAIN t : u[i] = t[i] \/ u[i] \in D
  BY <1>1, <1>2, UnescapeOne, Zenon
<1>6. u \in Seq(S) /\ \A cs : Free(t, cs) /\ cs \cap D = {} => Free(u, cs)
  BY <1>3, <1>4, <1>5, Replaced, Zenon
<1>7. QED
  BY <1>1, <1>3, <1>6, Zenon

\* The first character of a text without x is not x.
LEMMA FirstNot ==
    ASSUME NEW S, NEW u \in Seq(S), u # <<>>, NEW x, Free(u, {x})
    PROVE  u[1] # x
<1>1. 1 \in DOMAIN u
  OBVIOUS
<1>2. QED
  BY <1>1, Zenon DEF Free

\* A text of two characters or more without its last one, for SubSeq.
LEMMA OneLess == \A n \in Nat : n # 0 /\ n # 1 => n - 1 \in 2 - 1 .. n
OBVIOUS

\* What is between the first character and the last.
LEMMA Inner ==
    ASSUME NEW S, NEW u \in Seq(S), u # <<>>, NEW cs
    PROVE  SubSeq(u, 2, Len(u) - 1) \in Seq(S) /\ (Free(u, cs) => Free(SubSeq(u, 2, Len(u) - 1), cs))
<1>1. Len(u) \in Nat /\ Len(u) # 0
  OBVIOUS
<1>2. 2 \in 1 .. Len(u) + 1 /\ Len(u) - 1 \in 0 .. Len(u)
  BY <1>1
<1>3. CASE Len(u) = 1
  <2>1. SubSeq(u, 2, Len(u) - 1) = <<>>
    BY <1>3, SubSeqEmpty
  <2>2. QED
    BY <2>1 DEF Free
<1>4. CASE Len(u) # 1
  <2>1. Len(u) - 1 \in 2 - 1 .. Len(u)
    BY <1>1, <1>4, OneLess, Zenon
  <2>2. PICK v : v = SubSeq(u, 2, Len(u) - 1)
    BY Zenon
  <2>3. v \in Seq(S)
    BY <1>2, <2>1, <2>2, PartType, Zenon
  <2>4. Len(v) = Len(u) - 2 /\ \A i \in 1 .. Len(u) - 2 : v[i] = u[i + 1]
    <3>1. /\ Len(v) = Len(u) - 1 - 2 + 1
          /\ \A i \in 1 .. Len(u) - 1 - 2 + 1 : v[i] = u[2 + i - 1]
      <4>1. 2 - 1 <= Len(u) - 1 /\ Len(u) - 1 \in Int
        BY <1>1, <2>1
      <4>2. \A i \in 2 .. Len(u) - 1 : u[i] \in S
        BY <1>1
      <4>3. PICK n \in Int : n = Len(u) - 1
        BY <4>1
      <4>4. QED
        BY <2>2, <4>1, <4>2, <4>3, SubSeqProperties
    <3>2. Len(u) - 1 - 2 + 1 = Len(u) - 2 /\ \A i \in 1 .. Len(u) - 2 : 2 + i - 1 = i + 1
      BY <1>1
    <3>3. QED
      BY <3>1, <3>2, Zenon
  <2>5. \A i \in 1 .. Len(u) - 2 : i + 1 \in 1 .. Len(u)
    BY <1>1
  <2>6. DOMAIN v = 1 .. Len(u) - 2 /\ DOMAIN u = 1 .. Len(u)
    BY <2>3, <2>4
  <2>7. Free(u, cs) => Free(v, cs)
    BY <2>4, <2>5, <2>6 DEF Free
  <2>8. QED
    BY <2>2, <2>3, <2>7, Zenon
<1>5. QED
  BY <1>3, <1>4

\* The same of a component as the user meant it.
LEMMA MeantText ==
    ASSUME NEW S, " " \in S, "/" \in S, NEW c \in Seq(S)
    PROVE  Meant(c) \in Seq(S) /\ (Free(c, {"'"}) => Free(Meant(c), {"'"}))
<1>1. PICK u : u = unescape(c)
  BY Zenon
<1>2. u \in Seq(S) /\ (Free(c, {"'"}) => Free(u, {"'"}))
  BY <1>1, UnescapeText, Zenon
<1>3. CASE Enclosed(u, "\"")
  <2>1. u # <<>>
    BY <1>3, Zenon DEF Enclosed
  <2>2. Meant(c) = SubSeq(u, 2, Len(u) - 1)
    BY <1>1, <1>3, Zenon DEF Meant
  <2>3. QED
    BY <1>2, <2>1, <2>2, Inner, Zenon
<1>4. CASE ~Enclosed(u, "\"")
  <2>1. Meant(c) = u
    BY <1>1, <1>4, Zenon DEF Meant
  <2>2. QED
    BY <1>2, <2>1, Zenon
<1>5. QED
  BY <1>3, <1>4, Zenon

\* What translate_rest_to_cli puts in quotes is the component as it is meant.
LEMMA QuotedIs ==
    ASSUME NEW S, " " \in S, "/" \in S, NEW c \in Seq(S), Free(c, {"'"})
    PROVE  Quoted(unescape(c)) = Cat(Cat(<<"'">>, Meant(c)), <<"'">>)
<1>1. PICK u : u = unescape(c)
  BY Zenon
<1>2. u \in Seq(S) /\ Free(u, {"'"})
  BY <1>1, UnescapeText, Zenon
<1>3. ~Enclosed(u, "'")
  BY <1>2, FirstNot, Zenon DEF Enclosed
<1>5. CASE Enclosed(u, "\"")
  <2>1. Meant(c) = SubSeq(u, 2, Len(u) - 1)
    BY <1>1, <1>5, Zenon DEF Meant
  <2>2. Quoted(u) = Cat(Cat(<<"'">>, SubSeq(u, 2, Len(u) - 1)), <<"'">>)
    BY <1>3, <1>5, Zenon DEF Quoted, Cat
  <2>3. QED
    BY <1>1, <2>1, <2>2, Zenon
<1>6. CASE ~Enclosed(u, "\"")
  <2>1. Meant(c) = u
    BY <1>1, <1>6, Zenon DEF Meant
  <2>2. Quoted(u) = Cat(Cat(<<"'">>, u), <<"'">>)
    BY <1>3, <1>6, Zenon DEF Quoted, Cat
  <2>3. QED
    BY <1>1, <2>1, <2>2, Zenon
<1>7. QED
  BY <1>5, <1>6, Zenon

-----------------------------------------------------------------------------
(***************************************************************************)
(* Parts of a command line put together.                                   *)
(***************************************************************************)
\* One character is a text.
LEMMA SingleType ==
    ASSUME NEW S, NEW x \in S
    PROVE  <<x>> \in Seq(S)
OBVIOUS

\* A text with a separator as a concatenation.
LEMMA SeamIsCat ==
    ASSUME NEW S, NEW a \in Seq(S), NEW x \in S, NEW b \in Seq(S)
    PROVE  Seam(a, x, b) = Cat(a, Cat(One(x), b))
<1>1. PICK o \in Seq(S) : o = <<x>>
  BY SingleType, Zenon
<1>2. Append(a, x) = Cat(a, o)
  BY <1>1, CatOne, Zenon
<1>3. Cat(Cat(a, o), b) = Cat(a, Cat(o, b))
  BY CatAssociative
<1>4. QED
  BY <1>1, <1>2, <1>3, Zenon DEF Seam, One

\* A component in quotes behind a space.
Spaced(m, sp, qu) == Cat(<<sp>>, Cat(Cat(<<qu>>, m), <<qu>>))

\* A component in quotes is a text.
LEMMA SpacedType ==
    ASSUME NEW S, NEW sp \in S, NEW qu \in S, NEW m \in Seq(S)
    PROVE  Spaced(m, sp, qu) \in Seq(S)
<1>1. <<sp>> \in Seq(S) /\ <<qu>> \in Seq(S)
  BY SingleType
<1>2. Cat(<<qu>>, m) \in Seq(S)
  BY <1>1, CatType, Zenon
<1>3. Cat(Cat(<<qu>>, m), <<qu>>) \in Seq(S)
  BY <1>1, <1>2, CatType, Zenon
<1>4. QED
  BY <1>1, <1>3, CatType, Zenon DEF Spaced

\* A command line with one more component, and more behind it, as tokenizeOpCmd
\* reads it.
LEMMA SpacedMore ==
    ASSUME NEW S, NEW sp \in S, NEW qu \in S, NEW m \in Seq(S), NEW c \in Seq(S), NEW b \in Seq(S)
    PROVE  Seam(Cat(c, Spaced(m, sp, qu)), sp, b) = Seam(c, sp, InQuotes(m, qu, Seam(<<>>, sp, b)))
<1>1. PICK o \in Seq(S), p \in Seq(S) : o = <<sp>> /\ p = <<qu>> /\ o = One(sp) /\ p = One(qu)
  BY SingleType, Zenon DEF One
<1>2. PICK q \in Seq(S), z \in Seq(S), e \in Seq(S) : q = Cat(p, m) /\ z = Cat(o, b) /\ e = <<>>
  <2>1. Cat(p, m) \in Seq(S) /\ Cat(o, b) \in Seq(S) /\ <<>> \in Seq(S)
    BY CatType
  <2>2. QED
    BY <2>1, Zenon
<1>3. PICK w \in Seq(S), pz \in Seq(S) : w = Cat(q, p) /\ pz = Cat(p, z)
  <2>1. Cat(q, p) \in Seq(S) /\ Cat(p, z) \in Seq(S)
    BY CatType
  <2>2. QED
    BY <2>1, Zenon
<1>4. PICK v \in Seq(S) : v = Spaced(m, sp, qu) /\ v = Cat(o, w)
  BY <1>1, <1>2, <1>3, SpacedType, Zenon DEF Spaced
<1>5. PICK t \in Seq(S) : t = Cat(q, pz)
  <2>1. Cat(q, pz) \in Seq(S)
    BY CatType
  <2>2. QED
    BY <2>1, Zenon
<1>6. Seam(Cat(c, v), sp, b) = Cat(Cat(c, v), z)
  <2>1. Cat(c, v) \in Seq(S)
    BY CatType
  <2>2. QED
    <3>1. Seam(Cat(c, v), sp, b) = Cat(Cat(c, v), Cat(One(sp), b))
      BY <2>1, SeamIsCat
    <3>2. QED
      BY <1>1, <1>2, <3>1, Zenon
<1>7. Cat(Cat(c, v), z) = Cat(c, Cat(v, z))
  BY CatAssociative
<1>8. Cat(v, z) = Cat(o, Cat(w, z))
  BY <1>4, CatAssociative
<1>9. Cat(w, z) = t
  BY <1>3, <1>5, CatAssociative
<1>10. Seam(e, sp, b) = z
  <2>1. Seam(e, sp, b) = Cat(e, z)
    <3>1. Seam(e, sp, b) = Cat(e, Cat(One(sp), b))
      BY SeamIsCat
    <3>2. QED
      BY <1>1, <1>2, <3>1, Zenon
  <2>2. Cat(e, z) = z
    BY <1>2, EmptyCat, Zenon
  <2>3. QED
    BY <2>1, <2>2, Zenon
<1>11. InQuotes(m, qu, z) = t
  <2>1. Seam(q, qu, z) = Cat(q, pz)
    <3>1. Seam(q, qu, z) = Cat(q, Cat(One(qu), z))
      BY SeamIsCat
    <3>2. QED
      BY <1>1, <1>3, <3>1, Zenon
  <2>2. QED
    BY <1>1, <1>2, <1>5, <2>1, Zenon DEF InQuotes
<1>12. Seam(c, sp, t) = Cat(c, Cat(o, t))
  <2>1. Seam(c, sp, t) = Cat(c, Cat(One(sp), t))
    BY SeamIsCat
  <2>2. QED
    BY <1>1, <2>1, Zenon
<1>13. QED
  BY <1>2, <1>4, <1>6, <1>7, <1>8, <1>9, <1>10, <1>11, <1>12, Zenon

\* The same for the last component.
LEMMA SpacedLast ==
    ASSUME NEW S, NEW sp \in S, NEW qu \in S, NEW m \in Seq(S), NEW c \in Seq(S)
    PROVE  Cat(c, Spaced(m, sp, qu)) = Seam(c, sp, InQuotes(m, qu, <<>>))
<1>1. PICK o \in Seq(S), p \in Seq(S) : o = <<sp>> /\ p = <<qu>> /\ o = One(sp) /\ p = One(qu)
  BY SingleType, Zenon DEF One
<1>2. PICK q \in Seq(S), e \in Seq(S) : q = Cat(p, m) /\ e = <<>>
  <2>1. Cat(p, m) \in Seq(S) /\ <<>> \in Seq(S)
    BY CatType
  <2>2. QED
    BY <2>1, Zenon
<1>3. PICK w \in Seq(S) : w = Cat(q, p)
  <2>1. Cat(q, p) \in Seq(S)
    BY CatType
  <2>2. QED
    BY <2>1, Zenon
<1>4. InQuotes(m, qu, e) = w
  <2>1. Seam(q, qu, e) = Cat(q, Cat(p, e))
    <3>1. Seam(q, qu, e) = Cat(q, Cat(One(qu), e))
      BY SeamIsCat
    <3>2. QED
      BY <1>1, <3>1, Zenon
  <2>2. Cat(p, e) = p
    BY <1>2, CatEmpty, Zenon
  <2>3. QED
    BY <1>1, <1>2, <1>3, <2>1, <2>2, Zenon DEF InQuotes
<1>5. Seam(c, sp, w) = Cat(c, Cat(o, w))
  <2>1. Seam(c, sp, w) = Cat(c, Cat(One(sp), w))
    BY SeamIsCat
  <2>2. QED
    BY <1>1, <2>1, Zenon
<1>6. Spaced(m, sp, qu) = Cat(o, w)
  BY <1>1, <1>2, <1>3, Zenon DEF Spaced
<1>7. QED
  BY <1>2, <1>4, <1>5, <1>6, Zenon

-----------------------------------------------------------------------------
(***************************************************************************)
(* The characters that the loops look for, as names.                       *)
(***************************************************************************)
Slash == "/"

Space == " "

Quote == "'"

Rich(S) == " " \in S /\ "'" \in S /\ "/" \in S

\* The names of the special characters.
LEMMA InRich ==
    ASSUME NEW S, Rich(S)
    PROVE  Slash \in S /\ Space \in S /\ Quote \in S
BY Zenon DEF Rich, Slash, Space, Quote

\* A space does not open a word in quotes.
LEMMA SpaceIsNoQuote == Space # Quote
BY Zenon DEF Space, Quote

\* A path of one component behind the first slash.
LEMMA WordsOnce ==
    ASSUME NEW S, NEW a \in Seq(S), Free(a, {Slash}), Free(a, {Quote}), Rich(S)
    PROVE  Words(a) = Spaced(Meant(a), Space, Quote)
<1>1. Words(a) = Word(a)
  BY WordsLast, Zenon DEF Slash
<1>2. Quoted(unescape(a)) = Cat(Cat(<<"'">>, Meant(a)), <<"'">>)
  BY QuotedIs, Zenon DEF Quote, Rich
<1>3. QED
  BY <1>1, <1>2, Zenon DEF Word, Spaced, Space, Quote

\* A path of several: the first becomes a word, the others follow.
LEMMA WordsNext ==
    ASSUME NEW S, NEW a \in Seq(S), NEW b \in Seq(S), Free(a, {Slash}), Free(a, {Quote}), Rich(S)
    PROVE  Words(Seam(a, Slash, b)) = Cat(Spaced(Meant(a), Space, Quote), Words(b))
<1>1. Words(Seam(a, Slash, b)) = Cat(Word(a), Words(b))
  BY WordsMore, Zenon DEF Slash, Rich
<1>2. Quoted(unescape(a)) = Cat(Cat(<<"'">>, Meant(a)), <<"'">>)
  BY QuotedIs, Zenon DEF Quote, Rich
<1>3. Word(a) = Spaced(Meant(a), Space, Quote)
  BY <1>2, Zenon DEF Word, Spaced, Space, Quote
<1>4. QED
  BY <1>1, <1>3, Zenon

\* MeantText with the names of the special characters.
LEMMA MeantIs ==
    ASSUME NEW S, NEW c \in Seq(S), Rich(S)
    PROVE  Meant(c) \in Seq(S) /\ (Free(c, {Quote}) => Free(Meant(c), {Quote}))
BY MeantText, Zenon DEF Rich, Quote

\* The first component is left as it is.
LEMMA TranslateFirst ==
    ASSUME NEW S, NEW a \in Seq(S), NEW b \in Seq(S), a # <<>>, Free(a, {Slash}), Rich(S)
    PROVE  translate_rest_to_cli(Seam(a, Slash, b)) = Cat(a, Words(b))
<1>1. PICK q : q = Seam(a, Slash, b)
  OBVIOUS
<1>2. Slash \in S
  BY InRich, Zenon
<1>3. q \in Seq(S) /\ Joins(q, a, Slash, b)
  BY <1>1, <1>2, SeamParts, Zenon
<1>4. Len(a) \in Nat /\ Len(b) \in Nat /\ Len(a) # 0 /\ Len(q) \in Nat
  BY <1>3
<1>5. Len(q) = Len(a) + 1 + Len(b)
  BY <1>3, Zenon DEF Joins
<1>6. PICK j : j = Len(a) + 1
  OBVIOUS
<1>7. /\ Len(q) - Len(b) + 1 = j + 1 /\ j - 1 = Len(a) /\ 2 \in 1 .. Len(q) + 1
      /\ j \in 2 .. Len(q) /\ \A i \in 2 .. j - 1 : i \in 1 .. j - 1
  BY <1>4, <1>5, <1>6
<1>8. FirstAt(q, Slash, 1, j)
  BY <1>1, <1>2, <1>6, SeamFirst, Zenon
<1>9. FirstAt(q, Slash, 2, j)
  BY <1>7, <1>8, Zenon DEF FirstAt
<1>10. Find(q, <<Slash>>, 2) = j /\ j # 0
  BY <1>3, <1>7, <1>9, FirstIsFound, Zenon
<1>11. SubSeq(q, 1, j - 1) = a
  <2>1. SubSeq(q, 1, Len(a)) = a
    BY <1>1, <1>2, SeamCut, Zenon
  <2>2. QED
    BY <1>7, <2>1, Zenon
<1>12. SubSeq(q, j + 1, Len(q)) = b
  <2>1. Behind(q, Len(b)) = b
    BY <1>1, <1>2, SeamCut, Zenon
  <2>2. QED
    BY <1>7, <2>1, Zenon DEF Behind
<1>13. Find(q, <<"/">>, 2) = j
  BY <1>10, Zenon DEF Slash
<1>14. translate_rest_to_cli(q) = Cat(a, Words(b))
  BY <1>10, <1>11, <1>12, <1>13, Zenon DEF translate_rest_to_cli, Cat
<1>15. QED
  BY <1>1, <1>14, Zenon

Tok(s) == TokOf(s, Space, Quote)

\* tokenizeOpCmd is the recursive function that the lemmas are about.
LEMMA TokIsUsed ==
    ASSUME NEW s
    PROVE  tokenizeOpCmd(s) = Tok(s)
BY TokRestIsUsed, Zenon DEF Tok, TokOf, Space, Quote

-----------------------------------------------------------------------------
(***************************************************************************)
(* The arguments that a path stands for.                                   *)
(***************************************************************************)
Args(k) == [i \in DOMAIN k |-> IF i = 1 THEN k[1] ELSE Meant(k[i])]

\* There are as many arguments as components.
LEMMA ArgsType ==
    ASSUME NEW S, Rich(S), NEW k \in Seq(Seq(S))
    PROVE  Args(k) \in Seq(Seq(S)) /\ Len(Args(k)) = Len(k)
<1>1. DOMAIN k = 1 .. Len(k) /\ Len(k) \in Nat /\ \A i \in 1 .. Len(k) : k[i] \in Seq(S)
  OBVIOUS
<1>2. \A i \in 1 .. Len(k) : Meant(k[i]) \in Seq(S)
  BY <1>1, MeantIs, Zenon
<1>3. Args(k) = [i \in 1 .. Len(k) |-> IF i = 1 THEN k[1] ELSE Meant(k[i])]
  BY <1>1, Zenon DEF Args
<1>4. Args(k) \in [1 .. Len(k) -> Seq(S)]
  BY <1>1, <1>2, <1>3
<1>5. QED
  BY <1>1, <1>4, IsSeq, Zenon

\* The first component is left as it is.
LEMMA ArgsOne ==
    ASSUME NEW S, NEW a \in S
    PROVE  Args(<<a>>) = <<a>>
BY DEF Args

\* A place that is not the last one.
LEMMA BeforeLast ==
    ASSUME NEW n \in Nat, n # 0, NEW i \in 1 .. n + 1, i # n + 1
    PROVE  i \in 1 .. n /\ 1 \in 1 .. n
OBVIOUS

\* One more component is one more argument.
LEMMA ArgsAppend ==
    ASSUME NEW S, Rich(S), NEW k \in Seq(Seq(S)), k # <<>>, NEW a \in Seq(S)
    PROVE  Args(Append(k, a)) = Append(Args(k), Meant(a))
<1>0. Append(k, a) \in Seq(Seq(S))
  OBVIOUS
<1>1. PICK l \in Seq(Seq(S)) : l = Append(k, a)
  BY <1>0, Zenon
<1>2. /\ Len(l) = Len(k) + 1 /\ l[Len(k) + 1] = a /\ Len(k) \in Nat /\ Len(k) # 0
      /\ \A i \in 1 .. Len(k) : l[i] = k[i]
  BY <1>1, AppendProperties
<1>3. PICK e \in Seq(Seq(S)) : e = Args(k) /\ Len(e) = Len(k)
  BY ArgsType, Zenon
<1>4. PICK f \in Seq(Seq(S)) : f = Args(l) /\ Len(f) = Len(l)
  BY ArgsType, Zenon
<1>5. PICK m \in Seq(S) : m = Meant(a)
  BY MeantIs, Zenon
<1>6. PICK g \in Seq(Seq(S)) : /\ g = Append(e, m) /\ Len(g) = Len(e) + 1 /\ g[Len(e) + 1] = m
                               /\ \A i \in 1 .. Len(e) : g[i] = e[i]
  <2>1. /\ Append(e, m) \in Seq(Seq(S)) /\ Len(Append(e, m)) = Len(e) + 1
        /\ Append(e, m)[Len(e) + 1] = m
        /\ \A i \in 1 .. Len(e) : Append(e, m)[i] = e[i]
    BY AppendProperties
  <2>2. QED
    BY <2>1, Zenon
<1>7. \A i \in 1 .. Len(k) : e[i] = IF i = 1 THEN k[1] ELSE Meant(k[i])
  BY <1>3 DEF Args
<1>8. \A i \in 1 .. Len(l) : f[i] = IF i = 1 THEN l[1] ELSE Meant(l[i])
  BY <1>4 DEF Args
<1>9. ASSUME NEW i \in 1 .. Len(f)
      PROVE  f[i] = g[i]
  <2>1. CASE i = Len(k) + 1
    <3>1. i # 1 /\ i \in 1 .. Len(l)
      BY <1>2, <2>1
    <3>2. f[i] = Meant(l[i])
      BY <1>8, <3>1
    <3>3. QED
      BY <1>2, <1>3, <1>5, <1>6, <2>1, <3>2, Zenon
  <2>2. CASE i # Len(k) + 1
    <3>1. i \in 1 .. Len(k) /\ i \in 1 .. Len(l) /\ 1 \in 1 .. Len(k)
      BY <1>2, <1>4, <2>2, BeforeLast, Zenon
    <3>2. l[i] = k[i] /\ l[1] = k[1]
      BY <1>2, <3>1, Zenon
    <3>3. e[i] = IF i = 1 THEN k[1] ELSE Meant(k[i])
      BY <1>7, <3>1, Zenon
    <3>4. f[i] = IF i = 1 THEN l[1] ELSE Meant(l[i])
      BY <1>8, <3>1, Zenon
    <3>5. f[i] = e[i]
      BY <3>2, <3>3, <3>4, Zenon
    <3>6. QED
      BY <1>3, <1>6, <3>1, <3>5
  <2>3. QED
    BY <2>1, <2>2
<1>10. Len(f) = Len(g)
  BY <1>2, <1>3, <1>4, <1>6
<1>11. f = g
  BY <1>9, <1>10, SameText, Zenon
<1>12. QED
  BY <1>1, <1>3, <1>4, <1>5, <1>6, <1>11, Zenon

\* A rest of the command line that the tokenizer takes apart.
Line(S, b) == b \in Seq(S) /\ b # <<>> /\ EndsIn(b, Quote) /\ Tok(b) \in Seq(Seq(S))

\* The closed components k of the path, with their slashes H, become C, and this
\* becomes their arguments, whatever follows.
Takes(S, H, k, C) ==
    /\ H \in Seq(S) /\ C \in Seq(S)
    /\ \A b \in Seq(S) : Words(b) \in Seq(S) => translate_rest_to_cli(Cat(H, b)) = Cat(C, Words(b))
    /\ \A b : Line(S, b) => Tok(Seam(C, Space, b)) = Cat(Args(k), Tok(b))

\* Another component in quotes.
LEMMA LineMore ==
    ASSUME NEW S, Rich(S), NEW b, Line(S, b), NEW m \in Seq(S), Free(m, {Quote})
    PROVE  LET q == InQuotes(m, Quote, Seam(<<>>, Space, b))
           IN  Line(S, q) /\ Tok(q) = Cat(<<m>>, Tok(b))
<1>1. Space \in S /\ Quote \in S /\ Space # Quote
  BY InRich, SpaceIsNoQuote, Zenon
<1>2. b \in Seq(S) /\ b # <<>> /\ EndsIn(b, Quote) /\ Tok(b) \in Seq(Seq(S))
  BY Zenon DEF Line
<1>3. PICK e \in Seq(S) : e = <<>> /\ Free(e, {Space})
  <2>1. <<>> \in Seq(S) /\ Free(<<>>, {Space})
    BY DEF Free
  <2>2. QED
    BY <2>1, Zenon
<1>4. PICK z : z = Seam(e, Space, b)
  OBVIOUS
<1>5. EndsIn(z, Quote) /\ TokOf(z, Space, Quote) = Cat(Kept1(e), TokOf(b, Space, Quote))
  BY <1>1, <1>2, <1>3, <1>4, TokPlain, Zenon
<1>6. z \in Seq(S) /\ Joins(z, e, Space, b)
  BY <1>1, <1>2, <1>4, SeamParts, Zenon
<1>7. Tok(z) = Tok(b)
  <2>1. Kept1(e) = <<>>
    BY <1>3, Zenon DEF Kept1
  <2>2. Cat(<<>>, Tok(b)) = Tok(b)
    BY <1>2, EmptyCat, Zenon
  <2>3. QED
    BY <1>5, <2>1, <2>2, Zenon DEF Tok
<1>8. PICK q : q = InQuotes(m, Quote, z)
  OBVIOUS
<1>9. q \in Seq(S) /\ EndsIn(q, Quote) /\ Begins(q, m, Quote, z)
  BY <1>1, <1>5, <1>6, <1>8, QuotedWord, Zenon
<1>10. ~NoneFrom(q, Space, 1)
  <2>1. q[Len(m) + 3] = Space
    <3>1. PICK a \in Seq(S) : a = Cat(<<Quote>>, m) /\ Len(a) = Len(m) + 1
      <4>1. PICK o \in Seq(S) : o = <<Quote>> /\ Len(o) = 1
        <5>1. <<Quote>> \in Seq(S) /\ Len(<<Quote>>) = 1
          BY <1>1
        <5>2. QED
          BY <5>1, Zenon
      <4>2. o \o m \in Seq(S) /\ Len(o \o m) = Len(o) + Len(m)
        BY ConcatProperties
      <4>3. Len(o \o m) = Len(m) + 1
        BY <4>1, <4>2
      <4>4. QED
        BY <4>1, <4>2, <4>3, Zenon DEF Cat
    <3>2. Joins(q, a, Quote, z)
      BY <1>1, <1>6, <1>8, <3>1, SeamParts, Zenon DEF InQuotes
    <3>3. z[1] = Space /\ Len(z) # 0 /\ Len(z) \in Nat
      <4>1. Len(e) = 0 /\ Len(b) \in Nat /\ Len(e) + 1 = 1
        BY <1>2, <1>3
      <4>2. z[Len(e) + 1] = Space /\ Len(z) = Len(e) + 1 + Len(b)
        BY <1>6, Zenon DEF Joins
      <4>3. QED
        BY <4>1, <4>2
    <3>4. 1 \in 1 .. Len(z) /\ Len(a) + 1 + 1 = Len(m) + 3
      BY <3>1, <3>3
    <3>5. q[Len(a) + 1 + 1] = z[1]
      BY <3>2, <3>4 DEF Joins
    <3>6. QED
      BY <3>3, <3>4, <3>5, Zenon
  <2>2. Len(m) + 3 \in 1 .. Len(q)
    <3>1. Len(q) = Len(m) + 2 + Len(z)
      BY <1>9, Zenon DEF Begins
    <3>2. Len(z) = 0 + 1 + Len(b)
      BY <1>3, <1>6 DEF Joins
    <3>3. QED
      BY <1>2, <3>1, <3>2
  <2>3. QED
    BY <2>1, <2>2 DEF NoneFrom
<1>11. TokOf(q, Space, Quote) = Cat(<<m>>, TokOf(z, Space, Quote))
  BY <1>1, <1>5, <1>6, <1>8, <1>10, TokQuoted
<1>12. Tok(q) = Cat(<<m>>, Tok(b))
  BY <1>7, <1>11, Zenon DEF Tok
<1>13. Tok(q) \in Seq(Seq(S))
  <2>1. <<m>> \in Seq(Seq(S))
    OBVIOUS
  <2>2. QED
    BY <1>2, <1>12, <2>1, CatType, Zenon
<1>14. q # <<>>
  BY <1>9, Zenon DEF Begins
<1>15. Line(S, q)
  BY <1>9, <1>13, <1>14, Zenon DEF Line
<1>16. QED
  BY <1>3, <1>4, <1>8, <1>12, <1>15, Zenon

\* The same text, cut at another place.
LEMMA SeamBehind ==
    ASSUME NEW S, NEW h \in Seq(S), NEW a \in Seq(S), NEW x \in S, NEW b \in Seq(S)
    PROVE  Append(Cat(h, a), x) \in Seq(S) /\ Cat(Append(Cat(h, a), x), b) = Cat(h, Seam(a, x, b))
<1>1. Cat(h, a) \in Seq(S)
  BY CatType
<1>2. Append(Cat(h, a), x) \in Seq(S) /\ Append(a, x) \in Seq(S)
  BY <1>1
<1>3. PICK t \in Seq(S) : t = Append(a, x)
  BY <1>2, Zenon
<1>4. Cat(h, Append(a, x)) = Append(Cat(h, a), x)
  BY CatAppend
<1>5. Cat(Cat(h, t), b) = Cat(h, Cat(t, b))
  BY CatAssociative
<1>6. QED
  BY <1>2, <1>3, <1>4, <1>5, Zenon DEF Seam

\* Takes for one component more.
LEMMA TakesMore ==
    ASSUME NEW S, Rich(S), NEW H, NEW k \in Seq(Seq(S)), NEW C, Takes(S, H, k, C), k # <<>>,
           NEW a \in Seq(S), Free(a, {Slash}), Free(a, {Quote})
    PROVE  Takes(S, Append(Cat(H, a), Slash), Append(k, a), Cat(C, Spaced(Meant(a), Space, Quote)))
<1>1. Space \in S /\ Quote \in S /\ Slash \in S
  BY InRich, Zenon
<1>2. H \in Seq(S) /\ C \in Seq(S)
  BY Zenon DEF Takes
<1>3. PICK m \in Seq(S) : m = Meant(a) /\ Free(m, {Quote})
  BY MeantIs, Zenon
<1>4. PICK v \in Seq(S) : v = Spaced(m, Space, Quote)
  BY <1>1, SpacedType, Zenon
<1>5. PICK D \in Seq(S) : D = Cat(C, v)
  BY <1>2, CatType, Zenon
<1>7. PICK G \in Seq(S) : G = Append(Cat(H, a), Slash)
  BY <1>1, <1>2, SeamBehind, Zenon
<1>8. ASSUME NEW b \in Seq(S), Words(b) \in Seq(S)
      PROVE  translate_rest_to_cli(Cat(G, b)) = Cat(D, Words(b))
  <2>1. PICK r \in Seq(S) : r = Words(b)
    BY <1>8, Zenon
  <2>2. PICK q \in Seq(S) : q = Seam(a, Slash, b)
    BY <1>1, SeamParts, Zenon
  <2>3. Cat(G, b) = Cat(H, q)
    BY <1>1, <1>2, <1>7, <2>2, SeamBehind
  <2>4. Words(q) = Cat(v, r)
    <3>1. Words(q) = Cat(Spaced(Meant(a), Space, Quote), Words(b))
      BY <2>2, WordsNext, Zenon
    <3>2. QED
      BY <1>3, <1>4, <2>1, <3>1, Zenon
  <2>5. Words(q) \in Seq(S)
    BY <2>4, CatType, Zenon
  <2>6. translate_rest_to_cli(Cat(H, q)) = Cat(C, Words(q))
    BY <2>5, Zenon DEF Takes
  <2>7. Cat(C, Cat(v, r)) = Cat(Cat(C, v), r)
    BY <1>2, CatAssociative
  <2>8. QED
    BY <1>5, <2>1, <2>3, <2>4, <2>6, <2>7, Zenon
<1>9. ASSUME NEW b, Line(S, b)
      PROVE  Tok(Seam(D, Space, b)) = Cat(Args(Append(k, a)), Tok(b))
  <2>1. PICK q : q = InQuotes(m, Quote, Seam(<<>>, Space, b))
    OBVIOUS
  <2>2. Line(S, q) /\ Tok(q) = Cat(<<m>>, Tok(b))
    BY <1>3, <1>9, <2>1, LineMore, Zenon
  <2>3. b \in Seq(S) /\ Tok(b) \in Seq(Seq(S))
    BY <1>9, Zenon DEF Line
  <2>4. Seam(D, Space, b) = Seam(C, Space, q)
    <3>1. Seam(Cat(C, Spaced(m, Space, Quote)), Space, b)
            = Seam(C, Space, InQuotes(m, Quote, Seam(<<>>, Space, b)))
      BY <1>1, <1>2, <2>3, SpacedMore
    <3>2. QED
      BY <1>4, <1>5, <2>1, <3>1, Zenon
  <2>5. Tok(Seam(C, Space, q)) = Cat(Args(k), Tok(q))
    BY <2>2, Zenon DEF Takes
  <2>6. PICK e \in Seq(Seq(S)) : e = Args(k)
    BY ArgsType, Zenon
  <2>7. PICK o \in Seq(Seq(S)), t \in Seq(Seq(S)) : o = <<m>> /\ t = Tok(b)
    BY <2>3, SingleType, Zenon
  <2>8. Cat(e, Cat(o, t)) = Cat(Cat(e, o), t)
    BY CatAssociative
  <2>9. Cat(e, o) = Append(e, m)
    BY <2>7, CatOne, Zenon
  <2>10. Args(Append(k, a)) = Append(e, m)
    BY <1>3, <2>6, ArgsAppend, Zenon
  <2>11. QED
    BY <2>2, <2>4, <2>5, <2>6, <2>7, <2>8, <2>9, <2>10, Zenon
<1>10. Takes(S, G, Append(k, a), D)
  BY <1>8, <1>9, Zenon DEF Takes
<1>11. QED
  BY <1>3, <1>4, <1>5, <1>7, <1>10, Zenon

\* Takes for the first component.
LEMMA TakesFirst ==
    ASSUME NEW S, Rich(S), NEW a \in Seq(S), a # <<>>,
           Free(a, {Slash}), Free(a, {Quote}), Free(a, {Space})
    PROVE  Takes(S, Append(a, Slash), <<a>>, a)
<1>1. Space \in S /\ Quote \in S /\ Slash \in S /\ Space # Quote
  BY InRich, SpaceIsNoQuote, Zenon
<1>2. PICK H \in Seq(S) : H = Append(a, Slash)
  <2>1. Append(a, Slash) \in Seq(S)
    BY <1>1
  <2>2. QED
    BY <2>1, Zenon
<1>3. ASSUME NEW b \in Seq(S), Words(b) \in Seq(S)
      PROVE  translate_rest_to_cli(Cat(H, b)) = Cat(a, Words(b))
  BY <1>2, TranslateFirst, Zenon DEF Seam
<1>4. ASSUME NEW b, Line(S, b)
      PROVE  Tok(Seam(a, Space, b)) = Cat(Args(<<a>>), Tok(b))
  <2>1. b \in Seq(S) /\ b # <<>> /\ EndsIn(b, Quote)
    BY <1>4, Zenon DEF Line
  <2>2. a[1] # Quote
    BY FirstNot, Zenon
  <2>3. TokOf(Seam(a, Space, b), Space, Quote) = Cat(Kept1(a), TokOf(b, Space, Quote))
    BY <1>1, <2>1, <2>2, TokPlain, Zenon
  <2>4. Kept1(a) = <<a>>
    BY Zenon DEF Kept1
  <2>5. Args(<<a>>) = <<a>>
    BY ArgsOne, Zenon
  <2>6. QED
    BY <2>3, <2>4, <2>5, Zenon DEF Tok
<1>5. Takes(S, H, <<a>>, a)
  BY <1>3, <1>4, Zenon DEF Takes
<1>6. QED
  BY <1>2, <1>5, Zenon

\* An empty word at the end is left out before or after.
LEMMA EndKept ==
    ASSUME NEW S, NEW e \in Seq(Seq(S)), NEW m \in Seq(S), NEW t \in {<<m>>, Kept1(m)}
    PROVE  NonEmpty(Cat(e, t)) = NonEmpty(Append(e, m))
<1>1. CASE t = <<m>>
  BY <1>1, CatOne, Zenon
<1>2. CASE t # <<m>>
  <2>1. m = <<>> /\ t = <<>>
    BY <1>2, Zenon DEF Kept1
  <2>2. Cat(e, <<>>) = e
    BY CatEmpty, Zenon
  <2>3. NonEmpty(Append(e, m)) = Keep(NonEmpty(e), m)
    BY KeptAppend, Zenon
  <2>4. Keep(NonEmpty(e), m) = NonEmpty(e)
    BY <2>1, Zenon DEF Keep
  <2>5. QED
    BY <2>1, <2>2, <2>3, <2>4, Zenon
<1>3. QED
  BY <1>1, <1>2

\* The words of a whole path.
LEMMA TakesAll ==
    ASSUME NEW S, Rich(S), NEW H, NEW k \in Seq(Seq(S)), NEW C, Takes(S, H, k, C), k # <<>>,
           NEW w \in Seq(S), Free(w, {Slash}), Free(w, {Quote})
    PROVE  NonEmpty(tokenizeOpCmd(translate_rest_to_cli(Cat(H, w)))) = NonEmpty(Args(Append(k, w)))
<1>1. Space \in S /\ Quote \in S /\ Space # Quote
  BY InRich, SpaceIsNoQuote, Zenon
<1>2. C \in Seq(S)
  BY Zenon DEF Takes
<1>3. PICK m \in Seq(S) : m = Meant(w) /\ Free(m, {Quote})
  BY MeantIs, Zenon
<1>4. Words(w) = Spaced(m, Space, Quote)
  BY <1>3, WordsOnce, Zenon
<1>5. Words(w) \in Seq(S)
  BY <1>1, <1>4, SpacedType, Zenon
<1>6. translate_rest_to_cli(Cat(H, w)) = Cat(C, Spaced(m, Space, Quote))
  BY <1>4, <1>5, Zenon DEF Takes
<1>7. PICK q : q = InQuotes(m, Quote, <<>>)
  OBVIOUS
<1>8. Cat(C, Spaced(m, Space, Quote)) = Seam(C, Space, q)
  BY <1>1, <1>2, <1>7, SpacedLast, Zenon
<1>9. Tok(q) \in {<<m>>, Kept1(m)}
  BY <1>1, <1>3, <1>7, TokLast, Zenon DEF Tok
<1>10. <<m>> \in Seq(Seq(S)) /\ <<>> \in Seq(Seq(S))
  OBVIOUS
<1>11. Tok(q) \in Seq(Seq(S))
  BY <1>9, <1>10, Zenon DEF Kept1
<1>12. Line(S, q)
  <2>1. <<>> \in Seq(S) /\ EndsIn(<<>>, Quote)
    BY DEF EndsIn
  <2>2. q \in Seq(S) /\ EndsIn(q, Quote) /\ Begins(q, m, Quote, <<>>)
    BY <1>1, <1>3, <1>7, <2>1, QuotedWord, Zenon
  <2>3. q # <<>>
    BY <2>2, Zenon DEF Begins
  <2>4. QED
    BY <1>11, <2>2, <2>3, Zenon DEF Line
<1>13. Tok(Seam(C, Space, q)) = Cat(Args(k), Tok(q))
  BY <1>12, Zenon DEF Takes
<1>14. PICK e \in Seq(Seq(S)) : e = Args(k)
  BY ArgsType, Zenon
<1>15. NonEmpty(Cat(e, Tok(q))) = NonEmpty(Append(e, m))
  BY <1>9, EndKept, Zenon
<1>16. Args(Append(k, w)) = Append(e, m)
  BY <1>3, <1>14, ArgsAppend, Zenon
<1>17. QED
  BY <1>6, <1>8, <1>13, <1>14, <1>15, <1>16, TokIsUsed, Zenon

-----------------------------------------------------------------------------
(***************************************************************************)
(* The words in the JSON array.                                            *)
(***************************************************************************)
Escaped == {"\"", "\\", "\n", "\r", "\t"}

JsonAt(o) == [esc |-> FALSE, out |-> o]

\* The JSON reader takes a character that needs no escape as it is.
LEMMA JsonStepPlain ==
    ASSUME NEW o, NEW x, x \notin Escaped
    PROVE  JsonStep(JsonAt(o), x) = JsonAt(Append(o, x))
<1>1. x # "\\" /\ x \notin {"\"", "\n", "\r", "\t"}
  BY Zenon DEF Escaped
<1>2. QED
  BY <1>1, Zenon DEF JsonStep, JsonAt

\* A beginning of a text is a shorter one and a character.
LEMMA PrefixGrows ==
    ASSUME NEW S, NEW w \in Seq(S), NEW i \in 1 .. Len(w)
    PROVE  SubSeq(w, 1, i) = Append(SubSeq(w, 1, i - 1), w[i])
<1>1. 1 \in 1 .. Len(w) /\ i \in 1 .. Len(w) /\ 1 \in 1 .. Len(w) + 1 /\ i - 1 \in 1 - 1 .. Len(w)
  OBVIOUS
<1>2. SubSeq(w, 1, i) = SubSeq(w, 1, i - 1) \o <<w[i]>>
  BY <1>1, SubSeqRecursiveSecond
<1>3. SubSeq(w, 1, i - 1) \in Seq(S) /\ w[i] \in S
  BY <1>1, PartType
<1>4. QED
  BY <1>2, <1>3, CatOne, Zenon DEF Cat

\* A word without what JSON escapes is read as it is.
LEMMA JsonPlain ==
    ASSUME NEW S, NEW w \in Seq(S), Free(w, Escaped)
    PROVE  JsonValue(w) = w
<1>1. PICK f : f = JsonAfter(w)
  OBVIOUS
<1>2. JsonLoop(w, f, Len(w)) /\ Len(w) \in Nat
  BY <1>1, JsonAfterSolves
<1>3. \A i \in 0 .. Len(w) : f[i] = JsonTurn(w, f, i)
  BY <1>2, Zenon DEF JsonLoop
<1> DEFINE Good == {i \in 0 .. Len(w) : f[i] = JsonAt(SubSeq(w, 1, i))}
<1>4. 0 \in Good
  <2>1. 0 \in 0 .. Len(w)
    BY <1>2
  <2>2. f[0] = JsonAt(<<>>)
    BY <1>3, <2>1, Zenon DEF JsonTurn, JsonStart, JsonAt
  <2>3. SubSeq(w, 1, 0) = <<>>
    BY SubSeqEmpty
  <2>4. QED
    BY <2>1, <2>2, <2>3, Zenon
<1>5. ASSUME NEW i \in 1 .. Len(w), i - 1 \in Good
      PROVE  i \in Good
  <2>1. i \in 0 .. Len(w) /\ i # 0 /\ i \in DOMAIN w
    BY <1>2
  <2>2. f[i] = JsonStep(f[i - 1], w[i])
    BY <1>3, <2>1, Zenon DEF JsonTurn
  <2>3. f[i - 1] = JsonAt(SubSeq(w, 1, i - 1))
    BY <1>5, Zenon
  <2>4. w[i] \notin Escaped
    BY <2>1, Zenon DEF Free
  <2>5. f[i] = JsonAt(Append(SubSeq(w, 1, i - 1), w[i]))
    BY <2>2, <2>3, <2>4, JsonStepPlain, Zenon
  <2>6. f[i] = JsonAt(SubSeq(w, 1, i))
    BY <2>5, PrefixGrows, Zenon
  <2>7. QED
    BY <2>1, <2>6, Zenon
<1>6. Len(w) \in Good
  <2> HIDE DEF Good
  <2>1. 0 .. Len(w) \subseteq Good
    BY <1>2, <1>4, <1>5, Reached, Zenon
  <2>2. Len(w) \in 0 .. Len(w)
    BY <1>2
  <2>3. QED
    BY <2>1, <2>2, Zenon
<1>7. SubSeq(w, 1, Len(w)) = w
  BY SubSeqFull
<1>8. JsonEnd(w) = JsonAt(w)
  BY <1>1, <1>6, <1>7, JsonAfterIsUsed, Zenon
<1>9. ~JsonAt(w).esc /\ JsonAt(w).out = w
  BY DEF JsonAt
<1>10. QED
  BY <1>8, <1>9, Zenon DEF JsonValue

\* NonEmpty keeps elements only.
LEMMA KeptType ==
    ASSUME NEW T, NEW s \in Seq(T)
    PROVE  NonEmpty(s) \in Seq(T)
<1>1. PICK f : f = KeptAfter(s)
  OBVIOUS
<1>2. KeptLoop(s, f, Len(s)) /\ Len(s) \in Nat
  BY <1>1, KeptAfterSolves
<1>3. \A i \in 0 .. Len(s) : f[i] = KeptTurn(s, f, i)
  BY <1>2, Zenon DEF KeptLoop
<1> DEFINE Good == {i \in 0 .. Len(s) : f[i] \in Seq(T)}
<1>4. 0 \in Good
  <2>1. 0 \in 0 .. Len(s) /\ <<>> \in Seq(T)
    BY <1>2
  <2>2. f[0] = <<>>
    BY <1>3, <2>1, Zenon DEF KeptTurn
  <2>3. QED
    BY <2>1, <2>2, Zenon
<1>5. ASSUME NEW i \in 1 .. Len(s), i - 1 \in Good
      PROVE  i \in Good
  <2>1. i \in 0 .. Len(s) /\ i # 0 /\ s[i] \in T
    BY <1>2
  <2>2. f[i] = Keep(f[i - 1], s[i])
    BY <1>3, <2>1, Zenon DEF KeptTurn
  <2>3. f[i - 1] \in Seq(T)
    BY <1>5, Zenon
  <2>4. Append(f[i - 1], s[i]) \in Seq(T)
    BY <2>1, <2>3, AppendProperties
  <2>5. f[i] \in Seq(T)
    BY <2>2, <2>3, <2>4, Zenon DEF Keep
  <2>6. QED
    BY <2>1, <2>5, Zenon
<1>6. Len(s) \in Good
  <2> HIDE DEF Good
  <2>1. 0 .. Len(s) \subseteq Good
    BY <1>2, <1>4, <1>5, Reached, Zenon
  <2>2. Len(s) \in 0 .. Len(s)
    BY <1>2
  <2>3. QED
    BY <2>1, <2>2, Zenon
<1>7. QED
  BY <1>1, <1>6, KeptAfterIsUsed, Zenon

\* The first component has no double quotes, so it is free of what JSON escapes if
\* it is so unescaped.
LEMMA FirstPlain ==
    ASSUME NEW S, NEW c \in Seq(S), Free(c, {"\""}), Free(Meant(c), Escaped)
    PROVE  Free(c, Escaped)
<1>1. PICK u : u = unescape(c)
  BY Zenon
<1>2. DOMAIN u = DOMAIN c
  BY <1>1, Zenon DEF unescape
<1>3. ASSUME NEW i \in DOMAIN c, c[i] \notin {"%2F", "%20"}
      PROVE  u[i] = c[i]
  BY <1>1, <1>3, Zenon DEF unescape
<1>4. ~Enclosed(u, "\"")
  <2>1. SUFFICES ASSUME u # <<>>, u[1] = "\"" PROVE FALSE
    BY Zenon DEF Enclosed
  <2>2. 1 \in DOMAIN c
    <3>1. PICK R : R = S \cup {" ", "/"}
      BY Zenon
    <3>2. S \subseteq R /\ " " \in R /\ "/" \in R
      BY <3>1, Zenon
    <3>3. c \in Seq(R)
      BY <3>2, LargerSeq, Zenon
    <3>4. u \in Seq(R)
      BY <1>1, <3>2, <3>3, UnescapeText, Zenon
    <3>5. DOMAIN u = 1 .. Len(u) /\ (u # <<>> => 1 \in 1 .. Len(u))
      BY <3>4, SeqFacts, Zenon
    <3>6. QED
      BY <1>2, <2>1, <3>5, Zenon
  <2>3. u[1] = c[1] \/ u[1] \in {" ", "/"}
    BY <1>1, <2>2, UnescapeOne, Zenon
  <2>4. c[1] # "\""
    BY <2>2, Zenon DEF Free
  <2>5. QED
    BY <2>1, <2>3, <2>4, Zenon
<1>5. Meant(c) = u
  BY <1>1, <1>4, Zenon DEF Meant
<1>6. ASSUME NEW i \in DOMAIN c, c[i] \in Escaped
      PROVE  FALSE
  <2>1. c[i] \notin {"%2F", "%20"}
    BY <1>6, Zenon DEF Escaped
  <2>2. u[i] = c[i]
    BY <1>3, <2>1, Zenon
  <2>3. QED
    BY <1>2, <1>5, <1>6, <2>2, Zenon DEF Free
<1>7. QED
  BY <1>6, Zenon DEF Free

\* What is meant by the path is put in the array as it is.
LEMMA ArgsPlain ==
    ASSUME NEW S, Rich(S), NEW c \in Seq(Seq(S)), Free(c[1], {"\""}),
           \A i \in DOMAIN c : Free(Meant(c[i]), Escaped)
    PROVE  LET v == NonEmpty(Args(c)) IN [i \in DOMAIN v |-> JsonValue(v[i])] = v
<1> DEFINE T == {w \in Seq(S) : JsonValue(w) = w}
<1>1. PICK e \in Seq(Seq(S)) : e = Args(c) /\ Len(e) = Len(c)
  BY ArgsType, Zenon
<1>2. DOMAIN c = 1 .. Len(c) /\ \A i \in 1 .. Len(c) : c[i] \in Seq(S)
  BY SeqFacts, Zenon
<1>3. ASSUME NEW i \in 1 .. Len(c)
      PROVE  e[i] \in T
  <2>1. c[i] \in Seq(S) /\ Free(Meant(c[i]), Escaped)
    BY <1>2, Zenon
  <2>2. CASE i = 1
    <3>1. e[i] = c[1]
      BY <1>1, <1>2, <2>2, Zenon DEF Args
    <3>2. Free(c[1], Escaped)
      BY <2>1, <2>2, FirstPlain, Zenon
    <3>3. QED
      BY <2>1, <2>2, <3>1, <3>2, JsonPlain, Zenon
  <2>3. CASE i # 1
    <3>1. e[i] = Meant(c[i])
      BY <1>1, <1>2, <2>3, Zenon DEF Args
    <3>2. Meant(c[i]) \in Seq(S)
      BY <2>1, MeantIs, Zenon
    <3>3. QED
      BY <2>1, <3>1, <3>2, JsonPlain, Zenon
  <2>4. QED
    BY <2>2, <2>3, Zenon
<1>4. e \in Seq(T)
  <2> HIDE DEF T
  <2>1. e = [i \in 1 .. Len(c) |-> e[i]] /\ Len(c) \in Nat
    BY <1>1, SeqFacts, Zenon
  <2>2. e \in [1 .. Len(c) -> T]
    BY <1>3, <2>1, Zenon
  <2>3. QED
    BY <2>1, <2>2, IsSeq, Zenon
<1>5. PICK v \in Seq(T) : v = NonEmpty(e)
  BY <1>4, KeptType, Zenon
<1>6. v = [i \in DOMAIN v |-> v[i]]
  BY <1>5, SeqFacts, Zenon
<1>7. \A i \in DOMAIN v : v[i] \in T
  <2> HIDE DEF T
  <2>1. QED
    BY <1>5, SeqFacts, Zenon
<1>8. \A i \in DOMAIN v : JsonValue(v[i]) = v[i]
  BY <1>7, Zenon
<1>9. [i \in DOMAIN v |-> JsonValue(v[i])] = v
  BY <1>6, <1>8, Zenon
<1>10. QED
  BY <1>1, <1>5, <1>9, Zenon

\* The list in the property is Args.
LEMMA ArgsIs ==
    ASSUME NEW S, Rich(S), NEW c \in Seq(Seq(S)), Len(c) > 1
    PROVE  <<c[1]>> \o [i \in 1 .. Len(c) - 1 |-> Meant(c[i + 1])] = Args(c)
<1>1. Len(c) \in Nat /\ \A i \in 1 .. Len(c) : c[i] \in Seq(S)
  OBVIOUS
<1>2. PICK e \in Seq(Seq(S)) : e = Args(c) /\ Len(e) = Len(c)
  BY ArgsType, Zenon
<1>3. \A i \in 1 .. Len(c) : e[i] = IF i = 1 THEN c[1] ELSE Meant(c[i])
  BY <1>2 DEF Args
<1>4. PICK r : r = [i \in 1 .. Len(c) - 1 |-> Meant(c[i + 1])]
  BY Zenon
<1>5. \A i \in 1 .. Len(c) - 1 : r[i] = Meant(c[i + 1])
  BY <1>4, Zenon
<1>6. r \in Seq(Seq(S)) /\ Len(r) = Len(c) - 1
  <2>1. \A i \in 1 .. Len(c) - 1 : i + 1 \in 1 .. Len(c)
    BY <1>1
  <2>2. \A i \in 1 .. Len(c) - 1 : Meant(c[i + 1]) \in Seq(S)
    BY <1>1, <2>1, MeantIs, Zenon
  <2>3. r \in [1 .. Len(c) - 1 -> Seq(S)]
    BY <1>4, <2>2, Zenon
  <2>4. Len(c) - 1 \in Nat
    BY <1>1
  <2>5. QED
    BY <2>3, <2>4, IsSeq, Zenon
<1>7. PICK o \in Seq(Seq(S)) : o = <<c[1]>> /\ Len(o) = 1 /\ o[1] = c[1]
  <2>1. c[1] \in Seq(S)
    BY <1>1
  <2>2. PICK d \in Seq(S) : d = c[1]
    BY <2>1, Zenon
  <2>3. <<d>> \in Seq(Seq(S)) /\ Len(<<d>>) = 1 /\ <<d>>[1] = d
    OBVIOUS
  <2>4. QED
    BY <2>2, <2>3, Zenon
<1>8. PICK l \in Seq(Seq(S)) : /\ l = o \o r /\ Len(l) = Len(o) + Len(r)
        /\ \A i \in 1 .. Len(o) + Len(r) : l[i] = IF i <= Len(o) THEN o[i] ELSE r[i - Len(o)]
  <2>1. /\ o \o r \in Seq(Seq(S)) /\ Len(o \o r) = Len(o) + Len(r)
        /\ \A i \in 1 .. Len(o) + Len(r) :
              (o \o r)[i] = IF i <= Len(o) THEN o[i] ELSE r[i - Len(o)]
    BY <1>6, ConcatProperties, Zenon
  <2>2. QED
    BY <2>1, Zenon
<1>9. Len(l) = Len(c) /\ Len(o) + Len(r) = Len(c)
  BY <1>1, <1>6, <1>7, <1>8
<1>10. ASSUME NEW i \in 1 .. Len(l)
       PROVE  l[i] = e[i]
  <2>1. i \in 1 .. Len(c) /\ l[i] = IF i <= 1 THEN o[i] ELSE r[i - 1]
    BY <1>7, <1>8, <1>9, Zenon
  <2>2. CASE i = 1
    BY <1>3, <1>7, <2>1, <2>2
  <2>3. CASE i # 1
    <3>1. ~(i <= 1) /\ i - 1 \in 1 .. Len(c) - 1 /\ i - 1 + 1 = i
      BY <1>1, <2>1, <2>3
    <3>2. l[i] = Meant(c[i])
      BY <1>5, <2>1, <3>1, Zenon
    <3>3. QED
      BY <1>3, <2>1, <2>3, <3>2, Zenon
  <2>4. QED
    BY <2>2, <2>3
<1>11. l = e
  BY <1>2, <1>9, <1>10, SameText, Zenon
<1>12. QED
  BY <1>2, <1>4, <1>7, <1>8, <1>11, Zenon

-----------------------------------------------------------------------------
(***************************************************************************)
(* A path that grows.                                                      *)
(***************************************************************************)
\* The components are the closed ones, k, and w behind the last slash.
Parts(S, s, k, w) ==
    /\ k \in Seq(Seq(S)) /\ k # <<>> /\ w \in Seq(S) /\ Split(s, Slash) = Append(k, w)
    /\ k[1] # <<>> /\ Free(s, {Quote, Space})
       => /\ Free(w, {Slash}) /\ Free(w, {Quote})
          /\ \E H, C : Takes(S, H, k, C) /\ s = Cat(H, w)

Alone(s) == Free(s, {Slash}) /\ Split(s, Slash) = <<s>>

PathSet == Chars \cup {" ", "'", "/"}

Taken(s) == Alone(s) \/ \E k, w : Parts(PathSet, s, k, w)

ArgsInv == text \in Seq(Chars) /\ Taken(text)

\* The texts between the two loops are over a set with the special characters.
LEMMA PathSetRich == Rich(PathSet) /\ Chars \subseteq PathSet
BY Zenon DEF Rich, PathSet

\* The first slash.
LEMMA AloneSlash ==
    ASSUME NEW S, Rich(S), NEW s \in Seq(S), Alone(s)
    PROVE  Parts(S, Append(s, Slash), <<s>>, <<>>)
<1>1. Slash \in S
  BY InRich, Zenon
<1>2. PICK t \in Seq(S) : t = Append(s, Slash)
  <2>1. Append(s, Slash) \in Seq(S)
    BY <1>1
  <2>2. QED
    BY <2>1, Zenon
<1>3. PICK k \in Seq(Seq(S)) : k = <<s>> /\ k # <<>> /\ k[1] = s
  <2>1. <<s>> \in Seq(Seq(S)) /\ <<s>> # <<>> /\ <<s>>[1] = s
    OBVIOUS
  <2>2. QED
    BY <2>1, Zenon
<1>4. PICK w \in Seq(S) : w = <<>> /\ Free(w, {Slash}) /\ Free(w, {Quote})
  <2>1. <<>> \in Seq(S) /\ Free(<<>>, {Slash}) /\ Free(<<>>, {Quote})
    BY DEF Free
  <2>2. QED
    BY <2>1, Zenon
<1>5. Split(t, Slash) = Append(k, w)
  <2>1. Split(t, Slash) = SplitStep(Split(s, Slash), Slash, Slash)
    BY <1>1, <1>2, SplitAppend, Zenon
  <2>2. QED
    BY <1>3, <1>4, <2>1, Zenon DEF Alone, SplitStep
<1>6. ASSUME s # <<>>, Free(t, {Quote, Space})
      PROVE  \E H, C : Takes(S, H, k, C) /\ t = Cat(H, w)
  <2>1. Free(s, {Quote, Space})
    BY <1>1, <1>2, <1>6, FreeAppend, Zenon
  <2>2. Free(s, {Quote}) /\ Free(s, {Space})
    BY <2>1, Zenon DEF Free
  <2>3. Takes(S, Append(s, Slash), <<s>>, s)
    BY <1>6, <2>2, TakesFirst, Zenon DEF Alone
  <2>4. Cat(t, w) = t
    BY <1>4, CatEmpty, Zenon
  <2>5. QED
    BY <1>2, <1>3, <2>3, <2>4, Zenon
<1>7. Parts(S, t, k, w)
  BY <1>3, <1>4, <1>5, <1>6, Zenon DEF Parts
<1>8. QED
  BY <1>2, <1>3, <1>4, <1>7, Zenon

\* Before the first slash, any other character makes the first component longer.
LEMMA AloneOther ==
    ASSUME NEW S, NEW s \in Seq(S), Alone(s), NEW x \in S, x # Slash
    PROVE  Alone(Append(s, x))
<1>1. Free(Append(s, x), {Slash})
  <2>1. Free(s, {Slash}) /\ x \notin {Slash}
    BY Zenon DEF Alone
  <2>2. QED
    BY <2>1, FreeAppend, Zenon
<1>2. Split(Append(s, x), Slash) = SplitStep(Split(s, Slash), x, Slash)
  BY SplitAppend, Zenon
<1>3. SplitStep(Split(s, Slash), x, Slash) = Extend(<<s>>, x)
  BY Zenon DEF SplitStep, Alone
<1>4. Extend(<<s>>, x) = <<Append(s, x)>>
  <2>1. PICK h \in Seq(Seq(S)) : h = <<>> /\ Append(h, s) = <<s>> /\ Append(h, Append(s, x)) = <<Append(s, x)>>
    <3>1. /\ <<>> \in Seq(Seq(S)) /\ Append(<<>>, s) = <<s>>
          /\ Append(<<>>, Append(s, x)) = <<Append(s, x)>>
      OBVIOUS
    <3>2. QED
      BY <3>1, Zenon
  <2>2. Extend(Append(h, s), x) = Append(h, Append(s, x))
    BY ExtendAppend
  <2>3. QED
    BY <2>1, <2>2, Zenon
<1>5. QED
  BY <1>1, <1>2, <1>3, <1>4, Zenon DEF Alone

\* A slash closes a component.
LEMMA PartsSlash ==
    ASSUME NEW S, Rich(S), NEW s \in Seq(S), NEW k, NEW w, Parts(S, s, k, w)
    PROVE  Parts(S, Append(s, Slash), Append(k, w), <<>>)
<1>1. Slash \in S
  BY InRich, Zenon
<1>2. PICK t \in Seq(S) : t = Append(s, Slash)
  <2>1. Append(s, Slash) \in Seq(S)
    BY <1>1
  <2>2. QED
    BY <2>1, Zenon
<1>3. k \in Seq(Seq(S)) /\ k # <<>> /\ w \in Seq(S) /\ Split(s, Slash) = Append(k, w)
  BY Zenon DEF Parts
<1>4. PICK l \in Seq(Seq(S)) : l = Append(k, w) /\ l # <<>> /\ l[1] = k[1]
  <2>1. PICK V : V = Seq(S)
    OBVIOUS
  <2>2. k \in Seq(V) /\ w \in V
    BY <1>3, <2>1, Zenon
  <2>3. /\ Append(k, w) \in Seq(V) /\ Len(Append(k, w)) = Len(k) + 1 /\ Len(k) \in Nat
        /\ \A i \in 1 .. Len(k) : Append(k, w)[i] = k[i]
    BY <2>2, AppendProperties
  <2>4. 1 \in 1 .. Len(k)
    BY <1>3, <2>2
  <2>5. Append(k, w) # <<>>
    BY <2>3
  <2>6. QED
    BY <2>1, <2>3, <2>4, <2>5, Zenon
<1>5. PICK v \in Seq(S) : v = <<>> /\ Free(v, {Slash}) /\ Free(v, {Quote})
  <2>1. <<>> \in Seq(S) /\ Free(<<>>, {Slash}) /\ Free(<<>>, {Quote})
    BY DEF Free
  <2>2. QED
    BY <2>1, Zenon
<1>6. Split(t, Slash) = Append(l, v)
  <2>1. Split(t, Slash) = SplitStep(Split(s, Slash), Slash, Slash)
    BY <1>1, <1>2, SplitAppend, Zenon
  <2>2. QED
    BY <1>3, <1>4, <1>5, <2>1, Zenon DEF SplitStep
<1>7. ASSUME l[1] # <<>>, Free(t, {Quote, Space})
      PROVE  \E H, C : Takes(S, H, l, C) /\ t = Cat(H, v)
  <2>1. Free(s, {Quote, Space})
    BY <1>1, <1>2, <1>7, FreeAppend, Zenon
  <2>2. PICK H, C : Takes(S, H, k, C) /\ s = Cat(H, w) /\ Free(w, {Slash}) /\ Free(w, {Quote})
    BY <1>4, <1>7, <2>1, Zenon DEF Parts
  <2>3. Takes(S, Append(Cat(H, w), Slash), Append(k, w), Cat(C, Spaced(Meant(w), Space, Quote)))
    BY <1>3, <2>2, TakesMore, Zenon
  <2>4. Cat(t, v) = t
    BY <1>5, CatEmpty, Zenon
  <2>5. QED
    BY <1>2, <1>4, <2>2, <2>3, <2>4, Zenon
<1>8. Parts(S, t, l, v)
  BY <1>4, <1>5, <1>6, <1>7, Zenon DEF Parts
<1>9. QED
  BY <1>2, <1>4, <1>5, <1>8, Zenon

\* Any character but a slash makes the last component longer.
LEMMA PartsOther ==
    ASSUME NEW S, NEW s \in Seq(S), NEW x \in S, x # Slash, NEW k, NEW w, Parts(S, s, k, w)
    PROVE  Parts(S, Append(s, x), k, Append(w, x))
<1>1. k \in Seq(Seq(S)) /\ k # <<>> /\ w \in Seq(S) /\ Split(s, Slash) = Append(k, w)
  BY Zenon DEF Parts
<1>2. Append(w, x) \in Seq(S)
  BY <1>1
<1>3. Split(Append(s, x), Slash) = Append(k, Append(w, x))
  <2>1. Split(Append(s, x), Slash) = SplitStep(Split(s, Slash), x, Slash)
    BY SplitAppend, Zenon
  <2>2. SplitStep(Split(s, Slash), x, Slash) = Extend(Append(k, w), x)
    BY <1>1, Zenon DEF SplitStep
  <2>3. QED
    <3>1. Extend(Append(k, w), x) = Append(k, Append(w, x))
      BY <1>1, ExtendAppend
    <3>2. QED
      BY <2>1, <2>2, <3>1, Zenon
<1>4. ASSUME k[1] # <<>>, Free(Append(s, x), {Quote, Space})
      PROVE  /\ Free(Append(w, x), {Slash}) /\ Free(Append(w, x), {Quote})
             /\ \E H, C : Takes(S, H, k, C) /\ Append(s, x) = Cat(H, Append(w, x))
  <2>1. Free(s, {Quote, Space}) /\ x \notin {Quote, Space}
    BY <1>4, FreeAppend, Zenon
  <2>2. PICK H, C : Takes(S, H, k, C) /\ s = Cat(H, w) /\ Free(w, {Slash}) /\ Free(w, {Quote})
    BY <1>4, <2>1, Zenon DEF Parts
  <2>3. x \notin {Slash} /\ x \notin {Quote}
    BY <2>1, Zenon
  <2>4. Free(Append(w, x), {Slash}) /\ Free(Append(w, x), {Quote})
    BY <1>1, <2>2, <2>3, FreeAppend, Zenon
  <2>5. H \in Seq(S)
    BY <2>2, Zenon DEF Takes
  <2>6. Cat(H, Append(w, x)) = Append(Cat(H, w), x)
    BY <1>1, <2>5, CatAppend
  <2>7. QED
    BY <2>2, <2>4, <2>6, Zenon
<1>5. QED
  BY <1>1, <1>2, <1>3, <1>4, Zenon DEF Parts

\* The empty path.
LEMMA ArgsInit == TextInit => ArgsInv
<1> SUFFICES ASSUME text = <<>> PROVE ArgsInv
  BY DEF TextInit
<1>1. text \in Seq(Chars)
  OBVIOUS
<1>2. Free(text, {Slash})
  BY DEF Free
<1>3. Split(text, Slash) = <<text>>
  BY SplitEmpty, Zenon
<1>4. QED
  BY <1>1, <1>2, <1>3, Zenon DEF ArgsInv, Taken, Alone

\* One more character of the path.
LEMMA ArgsStep ==
    ASSUME ArgsInv, NEW x \in Chars, Grow(x)
    PROVE  ArgsInv'
<1>1. text \in Seq(Chars) /\ text' = Append(text, x) /\ text' \in Seq(Chars)
  BY DEF ArgsInv, Grow
<1>2. Rich(PathSet) /\ x \in PathSet /\ Chars \subseteq PathSet
  BY PathSetRich, Zenon
<1>3. text \in Seq(PathSet)
  BY <1>1, <1>2, LargerSeq, Zenon
<1>4. PICK s \in Seq(PathSet) : s = text
  BY <1>3, Zenon
<1>5. Taken(Append(s, x))
  <2>1. CASE Alone(s) /\ x = Slash
    BY <1>2, <2>1, AloneSlash, Zenon DEF Taken
  <2>2. CASE Alone(s) /\ x # Slash
    BY <1>2, <2>2, AloneOther, Zenon DEF Taken
  <2>3. CASE ~Alone(s)
    <3>1. PICK k, w : Parts(PathSet, s, k, w)
      BY <1>4, <2>3, Zenon DEF ArgsInv, Taken
    <3>2. CASE x = Slash
      BY <1>2, <3>1, <3>2, PartsSlash, Zenon DEF Taken
    <3>3. CASE x # Slash
      BY <1>2, <3>1, <3>3, PartsOther, Zenon DEF Taken
    <3>4. QED
      BY <3>2, <3>3
  <2>4. QED
    BY <2>1, <2>2, <2>3
<1>6. Taken(text')
  BY <1>1, <1>4, <1>5, Zenon
<1>7. QED
  BY <1>1, <1>6 DEF ArgsInv

\* The closed components, and the last one, arrive.
LEMMA ArgsInvArrive == ArgsInv => ArgumentsArrive
<1> DEFINE c == Split(text, "/")
<1>1. ASSUME ArgsInv, Len(c) > 1, c[1] # <<>>, Free(text, {"'", " "}), Free(c[1], {"\""}),
             \A i \in DOMAIN c : Free(Meant(c[i]), {"\"", "\\", "\n", "\r", "\t"})
      PROVE  OpcArgs(translate_rest_to_cli(text))
               = NonEmpty(<<c[1]>> \o [i \in 1 .. Len(c) - 1 |-> Meant(c[i + 1])])
  <2>1. PICK d : d = c
    OBVIOUS
  <2>2. d = Split(text, Slash)
    BY <2>1, Zenon DEF Slash
  <2>3. ~Alone(text)
    <3>1. SUFFICES ASSUME d = <<text>> PROVE FALSE
      BY <2>2, Zenon DEF Alone
    <3>2. Len(d) = 1
      BY <3>1
    <3>3. Len(d) > 1
      BY <1>1, <2>1, Zenon
    <3>4. QED
      BY <3>2, <3>3
  <2>4. PICK S : S = PathSet /\ Rich(S)
    BY PathSetRich, Zenon
  <2>5. PICK k, w : Parts(S, text, k, w)
    BY <1>1, <2>3, <2>4, Zenon DEF ArgsInv, Taken
  <2>6. k \in Seq(Seq(S)) /\ k # <<>> /\ w \in Seq(S) /\ d = Append(k, w)
    BY <2>2, <2>5, Zenon DEF Parts
  <2>7. d \in Seq(Seq(S)) /\ d[1] = k[1]
    <3>1. PICK V : V = Seq(S)
      OBVIOUS
    <3>2. k \in Seq(V) /\ w \in V
      BY <2>6, <3>1, Zenon
    <3>3. Append(k, w) \in Seq(V) /\ \A i \in 1 .. Len(k) : Append(k, w)[i] = k[i]
      BY <3>2, AppendProperties
    <3>4. 1 \in 1 .. Len(k)
      BY <2>6, <3>2
    <3>5. QED
      BY <2>6, <3>1, <3>3, <3>4, Zenon
  <2>8. Free(text, {Quote, Space})
    BY <1>1, Zenon DEF Quote, Space
  <2>9. PICK H, C : Takes(S, H, k, C) /\ text = Cat(H, w) /\ Free(w, {Slash}) /\ Free(w, {Quote})
    BY <1>1, <2>1, <2>5, <2>7, <2>8, Zenon DEF Parts
  <2>10. NonEmpty(tokenizeOpCmd(translate_rest_to_cli(text))) = NonEmpty(Args(d))
    <3>1. /\ Rich(S) /\ k \in Seq(Seq(S)) /\ k # <<>> /\ w \in Seq(S)
          /\ Takes(S, H, k, C) /\ Free(w, {Slash}) /\ Free(w, {Quote})
      BY <2>4, <2>6, <2>9, Zenon
    <3>2. NonEmpty(tokenizeOpCmd(translate_rest_to_cli(Cat(H, w)))) = NonEmpty(Args(Append(k, w)))
      BY <3>1, TakesAll, Zenon
    <3>3. QED
      BY <2>6, <2>9, <3>2, Zenon
  <2>11. Free(d[1], {"\""}) /\ \A i \in DOMAIN d : Free(Meant(d[i]), Escaped)
    BY <1>1, <2>1, Zenon DEF Escaped
  <2>12. PICK v : v = NonEmpty(Args(d))
    OBVIOUS
  <2>13. [i \in DOMAIN v |-> JsonValue(v[i])] = v
    BY <2>4, <2>7, <2>11, <2>12, ArgsPlain, Zenon
  <2>14. OpcArgs(translate_rest_to_cli(text)) = v
    BY <2>10, <2>12, <2>13, Zenon DEF OpcArgs
  <2>15. Len(d) > 1
    BY <1>1, <2>1, Zenon
  <2>16. <<d[1]>> \o [i \in 1 .. Len(d) - 1 |-> Meant(d[i + 1])] = Args(d)
    BY <2>4, <2>7, <2>15, ArgsIs, Zenon
  <2>17. QED
    BY <2>1, <2>12, <2>14, <2>16, Zenon
<1>2. QED
  BY <1>1, Zenon DEF ArgumentsArrive

\* The arguments that opc gets are the components of the URL (common.cc:421-464,
\* chunker2_processor.cc:181-218), for paths of any length over any characters.
THEOREM ArgumentsReach == TextSpec => []ArgumentsArrive
<1>1. ArgsInv /\ [\E c \in Chars : Grow(c)]_text => ArgsInv'
  <2>1. CASE \E c \in Chars : Grow(c)
    BY <2>1, ArgsStep
  <2>2. CASE UNCHANGED text
    BY <2>2 DEF ArgsInv
  <2>3. QED
    BY <2>1, <2>2
<1>2. QED
  BY <1>1, ArgsInit, ArgsInvArrive, PTL DEF TextSpec
=============================================================================
