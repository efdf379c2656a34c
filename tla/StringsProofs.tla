----------------------------- MODULE StringsProofs ----------------------------
(***************************************************************************)
(* Proofs about Strings, for texts of any length over any characters.  A   *)
(* text grows by a character at a time; for each conversion there is a     *)
(* lemma on what one more character does to its result, and the invariants *)
(* follow from these.                                                      *)
(***************************************************************************)
EXTENDS Strings, SequenceTheorems, FunctionTheorems, TLAPS

-----------------------------------------------------------------------------
(***************************************************************************)
(* Induction over numbers.                                                 *)
(***************************************************************************)
\* Every set of naturals has a least element.  Otherwise whatever is at or above
\* an element of it could be moved down by one, and 1 .. b would fit into
\* 1 .. b - 1 for an element b, against the pigeonhole principle of the library.
LEMMA Least ==
    ASSUME NEW S \in SUBSET Nat, S # {}
    PROVE  \E n \in S : \A m \in S : n <= m
<1> SUFFICES ASSUME \A n \in S : \E m \in S : m < n PROVE FALSE
  OBVIOUS
<1> DEFINE Above == {n \in Nat : \E m \in S : m <= n}
<1>1. PICK b \in Nat : b \in S
  BY Zenon
<1>2. b \in Above
  BY <1>1
<1>3. \A n \in Above : n \in Nat /\ n # 0 /\ n - 1 \in Above
  <2> SUFFICES ASSUME NEW n \in Above PROVE n # 0 /\ n - 1 \in Above
    OBVIOUS
  <2>1. PICK m \in S : m <= n
    OBVIOUS
  <2>2. PICK k \in S : k < m
    OBVIOUS
  <2>3. QED
    BY <2>1, <2>2
<1> HIDE DEF Above
<1> DEFINE Down == [i \in 1 .. b |-> IF i \in Above THEN i - 1 ELSE i]
<1>4. b - 1 \in Nat
  BY <1>1, <1>2, <1>3
<1>5. Down \in [1 .. b -> 1 .. b - 1]
  BY <1>1, <1>2, <1>3
<1>6. \A i, j \in 1 .. b : Down[i] = Down[j] => i = j
  BY <1>3
<1> HIDE DEF Down
<1>7. ExistsInjection(1 .. b, 1 .. b - 1)
  BY <1>5, <1>6, Fun_IsInj DEF ExistsInjection
<1>8. b <= b - 1
  BY <1>1, <1>4, <1>7, Fun_NatInjLeq
<1>9. QED
  BY <1>1, <1>8

\* Induction over 0 .. n: a set with 0 and with the successor of each of its
\* members has all of it.
LEMMA Reached ==
    ASSUME NEW n \in Nat, NEW S, 0 \in S, \A k \in 1 .. n : k - 1 \in S => k \in S
    PROVE  0 .. n \subseteq S
<1> DEFINE Bad == {k \in 0 .. n : k \notin S}
<1>1. SUFFICES ASSUME Bad # {} PROVE FALSE
  OBVIOUS
<1>2. Bad \in SUBSET Nat
  OBVIOUS
<1>3. PICK k \in Bad : \A m \in Bad : k <= m
  <2> HIDE DEF Bad
  <2> QED BY <1>1, <1>2, Least
<1>4. k \in 1 .. n /\ k - 1 \notin Bad
  BY <1>3
<1> QED BY <1>4

-----------------------------------------------------------------------------
(***************************************************************************)
(* Sequences.                                                              *)
(***************************************************************************)
\* Concatenation, as a name that is not looked into.
Cat(s, t) == s \o t

\* What concatenation gives.
LEMMA CatType ==
    ASSUME NEW S, NEW s \in Seq(S), NEW t \in Seq(S)
    PROVE  Cat(s, t) \in Seq(S)
BY DEF Cat

LEMMA CatEmpty ==
    ASSUME NEW S, NEW s \in Seq(S)
    PROVE  Cat(s, <<>>) = s
BY ConcatEmptySeq DEF Cat

LEMMA CatAssociative ==
    ASSUME NEW S, NEW s \in Seq(S), NEW t \in Seq(S), NEW u \in Seq(S)
    PROVE  Cat(Cat(s, t), u) = Cat(s, Cat(t, u))
BY ConcatAssociative DEF Cat

-----------------------------------------------------------------------------
(***************************************************************************)
(* Searching for a character.                                              *)
(***************************************************************************)
LEMMA OneLong ==
    ASSUME NEW S, NEW s \in Seq(S), NEW j \in 1 .. Len(s)
    PROVE  SubSeq(s, j, j) = <<s[j]>>
<1>1. SubSeq(s, j, j) = <<s[j]>> \o SubSeq(s, j + 1, j)
  BY SubSeqRecursiveFirst
<1>2. SubSeq(s, j + 1, j) = <<>>
  BY SubSeqEmpty
<1>3. s[j] \in S /\ <<s[j]>> \in Seq(S)
  OBVIOUS
<1>4. <<s[j]>> \o <<>> = <<s[j]>>
  BY <1>3, ConcatEmptySeq
<1>5. QED
  BY <1>1, <1>2, <1>4, Zenon

\* Find for one character: there is none, or it gives the first.
LEMMA FindOne ==
    ASSUME NEW S, NEW s \in Seq(S), NEW c, NEW from \in 1 .. Len(s) + 1
    PROVE  LET j == Find(s, <<c>>, from)
           IN  \/ j = 0 /\ \A i \in from .. Len(s) : s[i] # c
               \/ /\ j \in from .. Len(s) /\ s[j] = c
                  /\ \A i \in from .. j - 1 : s[i] # c
<1> DEFINE At == {j \in from .. Len(s) : s[j] = c}
<1>1. Len(s) \in Nat /\ Len(<<c>>) = 1
  OBVIOUS
<1>2. \A j \in from .. Len(s) : SubSeq(s, j, j + Len(<<c>>) - 1) = <<c>> <=> s[j] = c
  <2> TAKE j \in from .. Len(s)
  <2>1. j \in 1 .. Len(s) /\ j + Len(<<c>>) - 1 = j
    BY <1>1
  <2>2. SubSeq(s, j, j) = <<s[j]>>
    BY <2>1, OneLong
  <2>3. QED
    BY <2>1, <2>2
<1>3. from .. Len(s) - Len(<<c>>) + 1 = from .. Len(s)
  BY <1>1
<1>4. {j \in from .. Len(s) - Len(<<c>>) + 1 : SubSeq(s, j, j + Len(<<c>>) - 1) = <<c>>} = At
  BY <1>2, <1>3
<1>5. Find(s, <<c>>, from) = IF At = {} THEN 0 ELSE Min(At)
  BY <1>4, Zenon DEF Find
<1>6. CASE At = {}
  BY <1>5, <1>6
<1>7. CASE At # {}
  <2>1. At \in SUBSET Nat
    BY <1>1
  <2>2. \E n \in At : \A m \in At : n <= m
    BY <1>7, <2>1, Least, Zenon
  <2>3. Min(At) \in At /\ \A m \in At : Min(At) <= m
    BY <2>2 DEF Min
  <2> HIDE DEF At
  <2>4. Find(s, <<c>>, from) = Min(At)
    BY <1>5, <1>7
  <2> DEFINE j == Min(At)
  <2>5. j \in from .. Len(s) /\ s[j] = c
    BY <2>3 DEF At
  <2>6. \A i \in from .. j - 1 : s[i] # c
    <3> SUFFICES ASSUME NEW i \in from .. j - 1, s[i] = c
                 PROVE  FALSE
      OBVIOUS
    <3>1. i \in from .. Len(s)
      BY <1>1, <2>5
    <3>2. i \in At
      BY <3>1 DEF At
    <3>3. QED
      BY <2>3, <2>5, <3>2
  <2>7. QED
    BY <2>4, <2>5, <2>6
<1>8. QED
  BY <1>6, <1>7

-----------------------------------------------------------------------------
(***************************************************************************)
(* mass_replace with a victim of one character goes through the text       *)
(* character by character.                                                 *)
(***************************************************************************)
\* What becomes of the last n characters of s, if g says it of fewer.
RestTurn(s, v, r, g, n) ==
    LET from == Len(s) - n + 1
        j == Find(s, v, from)
    IN  IF j = 0 THEN SubSeq(s, from, Len(s))
        ELSE SubSeq(s, from, j - 1) \o r \o g[Len(s) - j - Len(v) + 1]

Rest(s, v, r) == CHOOSE f : f = [n \in 0 .. Len(s) |-> RestTurn(s, v, r, f, n)]

\* mass_replace is the solution that Rest chooses.
LEMMA RestIsUsed ==
    ASSUME NEW s, NEW v, NEW r
    PROVE  mass_replace(s, v, r) = Rest(s, v, r)[Len(s)]
BY DEF mass_replace, Rest, RestTurn

\* There is no c from a place on, or a first one.
NoneFrom(s, c, from) == \A i \in from .. Len(s) : s[i] # c

FirstAt(s, c, from, j) ==
    j \in from .. Len(s) /\ s[j] = c /\ \A i \in from .. j - 1 : s[i] # c

\* FindOne with its two cases as names.
LEMMA NoneOrFirst ==
    ASSUME NEW S, NEW s \in Seq(S), NEW c, NEW from \in 1 .. Len(s) + 1
    PROVE  \/ NoneFrom(s, c, from) /\ Find(s, <<c>>, from) = 0
           \/ FirstAt(s, c, from, Find(s, <<c>>, from))
BY FindOne, Zenon DEF NoneFrom, FirstAt

\* The two cases of a turn.
LEMMA TurnNone ==
    ASSUME NEW S, NEW s \in Seq(S), NEW c, NEW r, NEW g, NEW n \in 0 .. Len(s),
           NoneFrom(s, c, Len(s) - n + 1)
    PROVE  RestTurn(s, <<c>>, r, g, n) = SubSeq(s, Len(s) - n + 1, Len(s))
<1>1. Len(s) - n + 1 \in 1 .. Len(s) + 1
  OBVIOUS
<1>2. Find(s, <<c>>, Len(s) - n + 1) = 0
  BY <1>1, FindOne DEF NoneFrom
<1>3. QED
  BY <1>2 DEF RestTurn

Joined(s, from, j, r, after) == Cat(Cat(SubSeq(s, from, j - 1), r), after)

LEMMA TurnSome ==
    ASSUME NEW S, NEW s \in Seq(S), NEW c, NEW r, NEW g, NEW n \in 0 .. Len(s), NEW j,
           FirstAt(s, c, Len(s) - n + 1, j)
    PROVE  RestTurn(s, <<c>>, r, g, n) = Joined(s, Len(s) - n + 1, j, r, g[Len(s) - j])
<1> DEFINE from == Len(s) - n + 1
           k == Find(s, <<c>>, from)
<1>1. from \in 1 .. Len(s) + 1
  OBVIOUS
<1>2. RestTurn(s, <<c>>, r, g, n) =
        IF k = 0 THEN SubSeq(s, from, Len(s))
        ELSE SubSeq(s, from, k - 1) \o r \o g[Len(s) - k - Len(<<c>>) + 1]
  BY DEF RestTurn
<1>3. \/ k = 0 /\ \A i \in from .. Len(s) : s[i] # c
      \/ k \in from .. Len(s) /\ s[k] = c /\ \A i \in from .. k - 1 : s[i] # c
  BY <1>1, FindOne
<1>4. j \in from .. Len(s) /\ s[j] = c /\ \A i \in from .. j - 1 : s[i] # c
  BY DEF FirstAt
<1> HIDE DEF k, from
<1>5. k = j
  <2>1. k # 0 /\ k \in from .. Len(s) /\ s[k] = c /\ \A i \in from .. k - 1 : s[i] # c
    BY <1>1, <1>3, <1>4
  <2>2. ~(k < j) /\ ~(j < k)
    BY <1>1, <1>4, <2>1
  <2>3. QED
    BY <1>1, <1>4, <2>1, <2>2
<1>6. Len(s) \in Nat /\ Len(<<c>>) = 1
  OBVIOUS
<1>7. k # 0 /\ Len(s) - k - Len(<<c>>) + 1 = Len(s) - j
  BY <1>1, <1>4, <1>5, <1>6
<1>8. QED
  BY <1>2, <1>5, <1>7, Zenon DEF from, Joined, Cat

\* A turn looks back at earlier ones only.
LEMMA TurnSame ==
    ASSUME NEW S, NEW s \in Seq(S), NEW c, NEW r, NEW g, NEW h, NEW n \in 0 .. Len(s),
           \A m \in 0 .. n - 1 : g[m] = h[m]
    PROVE  RestTurn(s, <<c>>, r, g, n) = RestTurn(s, <<c>>, r, h, n)
<1> DEFINE from == Len(s) - n + 1
           j == Find(s, <<c>>, from)
<1>1. Len(s) \in Nat /\ Len(<<c>>) = 1 /\ from \in 1 .. Len(s) + 1
  OBVIOUS
<1>2. j = 0 \/ j \in from .. Len(s)
  BY <1>1, FindOne
<1>3. /\ RestTurn(s, <<c>>, r, g, n) =
            IF j = 0 THEN SubSeq(s, from, Len(s))
            ELSE SubSeq(s, from, j - 1) \o r \o g[Len(s) - j - Len(<<c>>) + 1]
      /\ RestTurn(s, <<c>>, r, h, n) =
            IF j = 0 THEN SubSeq(s, from, Len(s))
            ELSE SubSeq(s, from, j - 1) \o r \o h[Len(s) - j - Len(<<c>>) + 1]
  BY DEF RestTurn
<1>4. j # 0 => Len(s) - j - Len(<<c>>) + 1 \in 0 .. n - 1
  <2> HIDE DEF j
  <2>1. QED
    BY <1>1, <1>2
<1> HIDE DEF j, from
<1>5. CASE j = 0
  BY <1>3, <1>5, Zenon
<1>6. CASE j # 0
  BY <1>3, <1>4, <1>6, Zenon
<1>7. QED
  BY <1>5, <1>6

\* g is a solution up to k.
RestLoop(s, c, r, g, k) == g = [n \in 0 .. k |-> RestTurn(s, <<c>>, r, g, n)]

\* The loop of mass_replace has a solution, and Rest is one.
LEMMA RestSolves ==
    ASSUME NEW S, NEW s \in Seq(S), NEW c, NEW r
    PROVE  Rest(s, <<c>>, r) = [n \in 0 .. Len(s) |-> RestTurn(s, <<c>>, r, Rest(s, <<c>>, r), n)]
<1> DEFINE N == Len(s)
           Runs == {k \in 0 .. N : \E g : RestLoop(s, c, r, g, k)}
<1>0. N \in Nat
  OBVIOUS
<1>1. 0 \in Runs
  <2> DEFINE g == [n \in 0 .. 0 |-> RestTurn(s, <<c>>, r, <<>>, n)]
  <2>1. ASSUME NEW n \in 0 .. 0
        PROVE  RestTurn(s, <<c>>, r, g, n) = RestTurn(s, <<c>>, r, <<>>, n)
    <3>1. n \in 0 .. Len(s) /\ 0 .. n - 1 = {}
      BY <1>0
    <3> HIDE DEF g
    <3>2. QED
      BY <3>1, TurnSame
  <2>2. g = [n \in 0 .. 0 |-> RestTurn(s, <<c>>, r, g, n)]
    BY <2>1
  <2>3. QED
    BY <1>0, <2>2 DEF RestLoop
<1>2. ASSUME NEW k \in 1 .. N, k - 1 \in Runs
      PROVE  k \in Runs
  <2>1. PICK g : RestLoop(s, c, r, g, k - 1)
    BY <1>2
  <2> DEFINE h == [n \in 0 .. k |-> IF n = k THEN RestTurn(s, <<c>>, r, g, k) ELSE g[n]]
  <2>2. ASSUME NEW n \in 0 .. k
        PROVE  RestTurn(s, <<c>>, r, h, n) = RestTurn(s, <<c>>, r, g, n)
    <3>1. n \in 0 .. Len(s)
      BY <1>0
    <3>2. \A m \in 0 .. n - 1 : h[m] = g[m]
      BY <1>0
    <3> HIDE DEF h
    <3>3. QED
      BY <3>1, <3>2, TurnSame
  <2>3. \A n \in 0 .. k - 1 : g[n] = RestTurn(s, <<c>>, r, g, n)
    BY <2>1, Zenon DEF RestLoop
  <2>4. ASSUME NEW n \in 0 .. k
        PROVE  h[n] = RestTurn(s, <<c>>, r, g, n)
    <3>1. CASE n = k
      BY <3>1
    <3>2. CASE n # k
      <4>1. n \in 0 .. k - 1
        BY <1>0, <3>2
      <4>2. QED
        BY <2>3, <3>2, <4>1
    <3>3. QED
      BY <3>1, <3>2
  <2>5. h = [n \in 0 .. k |-> h[n]]
    OBVIOUS
  <2> HIDE DEF h
  <2>6. \A n \in 0 .. k : h[n] = RestTurn(s, <<c>>, r, h, n)
    BY <2>2, <2>4
  <2>7. h = [n \in 0 .. k |-> RestTurn(s, <<c>>, r, h, n)]
    BY <2>5, <2>6
  <2>8. QED
    BY <2>7 DEF RestLoop
<1>3. N \in Runs
  <2> HIDE DEF Runs, N
  <2>1. 0 .. N \subseteq Runs
    BY <1>0, <1>1, <1>2, Reached
  <2>2. QED
    BY <1>0, <2>1
<1>4. \E g : g = [n \in 0 .. Len(s) |-> RestTurn(s, <<c>>, r, g, n)]
  BY <1>3 DEF RestLoop
<1>5. QED
  BY <1>4, Zenon DEF Rest

\* Replacing gives a text over the same characters.
LEMMA RestType ==
    ASSUME NEW S, NEW s \in Seq(S), NEW c, NEW r \in Seq(S), NEW n \in 0 .. Len(s)
    PROVE  Rest(s, <<c>>, r)[n] \in Seq(S)
<1> DEFINE f == Rest(s, <<c>>, r)
           Good == {k \in 0 .. Len(s) : \A m \in 0 .. k : f[m] \in Seq(S)}
<1>0. Len(s) \in Nat
  OBVIOUS
<1>a. f = [k \in 0 .. Len(s) |-> RestTurn(s, <<c>>, r, f, k)]
  BY RestSolves
<1> HIDE DEF f
<1>1. \A k \in 0 .. Len(s) : f[k] = RestTurn(s, <<c>>, r, f, k)
  BY <1>a, Zenon
<1>2. ASSUME NEW k \in 0 .. Len(s), \A m \in 0 .. k - 1 : f[m] \in Seq(S)
      PROVE  f[k] \in Seq(S)
  <2>0. f[k] = RestTurn(s, <<c>>, r, f, k)
    BY <1>1
  <2>1. PICK from \in 1 .. Len(s) + 1 : from = Len(s) - k + 1
    <3>1. Len(s) - k + 1 \in 1 .. Len(s) + 1
      BY <1>0
    <3>2. QED
      BY <3>1, Zenon
  <2>2. \A i \in 1 .. Len(s) : s[i] \in S
    OBVIOUS
  <2>3. CASE NoneFrom(s, c, from)
    <3>1. f[k] = SubSeq(s, from, Len(s))
      BY <2>0, <2>1, <2>3, TurnNone
    <3>2. \A i \in from .. Len(s) : s[i] \in S
      BY <1>0, <2>1, <2>2
    <3>3. QED
      BY <1>0, <3>1, <3>2, SubSeqProperties
  <2>4. ASSUME NEW j, FirstAt(s, c, from, j)
        PROVE  f[k] \in Seq(S)
    <3>1. f[k] = Cat(Cat(SubSeq(s, from, j - 1), r), f[Len(s) - j])
      <4>1. FirstAt(s, c, Len(s) - k + 1, j)
        BY <2>1, <2>4
      <4>2. RestTurn(s, <<c>>, r, f, k) = Joined(s, Len(s) - k + 1, j, r, f[Len(s) - j])
        BY <4>1, TurnSome
      <4>3. QED
        BY <2>0, <2>1, <4>2 DEF Joined
    <3>2. j \in from .. Len(s)
      BY <2>4 DEF FirstAt
    <3>3. \A i \in from .. j - 1 : s[i] \in S
      BY <1>0, <2>1, <2>2, <3>2
    <3>4. SubSeq(s, from, j - 1) \in Seq(S)
      BY <1>0, <3>2, <3>3, SubSeqProperties
    <3>5. f[Len(s) - j] \in Seq(S)
      <4>1. Len(s) - j \in 0 .. k - 1
        BY <1>0, <2>1, <3>2
      <4>2. QED
        BY <1>2, <4>1
    <3>6. PICK A \in Seq(S), F \in Seq(S) : A = SubSeq(s, from, j - 1) /\ F = f[Len(s) - j]
      BY <3>4, <3>5, Zenon
    <3>7. f[k] = Cat(Cat(A, r), F)
      BY <3>1, <3>6, Zenon
    <3>8. Cat(A, r) \in Seq(S)
      BY CatType
    <3>9. Cat(Cat(A, r), F) \in Seq(S)
      BY <3>8, CatType
    <3>10. QED
      BY <3>7, <3>9, Zenon
  <2>5. QED
    BY <2>3, <2>4, NoneOrFirst, Zenon
<1>3. 0 \in Good
  BY <1>0, <1>2
<1>4. ASSUME NEW k \in 1 .. Len(s), k - 1 \in Good
      PROVE  k \in Good
  <2>1. f[k] \in Seq(S)
    BY <1>0, <1>2, <1>4
  <2>2. \A m \in 0 .. k : m = k \/ m \in 0 .. k - 1
    BY <1>0
  <2>3. QED
    BY <1>0, <1>4, <2>1, <2>2
<1>5. Len(s) \in Good
  <2> HIDE DEF Good
  <2>1. 0 .. Len(s) \subseteq Good
    BY <1>0, <1>3, <1>4, Reached, Zenon
  <2>2. QED
    BY <1>0, <2>1
<1>6. QED
  BY <1>0, <1>5 DEF f

\* What a character becomes.
Image(x, c, r) == IF x = c THEN r ELSE <<x>>

\* A part of a text is not changed by a character behind it.
LEMMA AppendSub ==
    ASSUME NEW S, NEW s \in Seq(S), NEW x \in S, NEW a \in 1 .. Len(s) + 1, NEW b \in a - 1 .. Len(s)
    PROVE  SubSeq(Append(s, x), a, b) = SubSeq(s, a, b)
<1> DEFINE t == Append(s, x)
<1>1. Len(s) \in Nat
  OBVIOUS
<1>2. \A i \in 1 .. Len(s) : t[i] = s[i] /\ s[i] \in S
  BY AppendProperties
<1> HIDE DEF t
<1>3. a \in Int /\ b \in Int /\ \A i \in a .. b : i \in 1 .. Len(s)
  BY <1>1
<1>4. \A i \in a .. b : t[i] \in S /\ s[i] \in S
  BY <1>2, <1>3
<1>5. /\ SubSeq(t, a, b) \in Seq(S)
      /\ Len(SubSeq(t, a, b)) = IF a <= b THEN b - a + 1 ELSE 0
      /\ \A i \in 1 .. b - a + 1 : SubSeq(t, a, b)[i] = t[a + i - 1]
  BY <1>3, <1>4, SubSeqProperties
<1>6. /\ SubSeq(s, a, b) \in Seq(S)
      /\ Len(SubSeq(s, a, b)) = IF a <= b THEN b - a + 1 ELSE 0
      /\ \A i \in 1 .. b - a + 1 : SubSeq(s, a, b)[i] = s[a + i - 1]
  BY <1>3, <1>4, SubSeqProperties
<1>7. \A i \in 1 .. b - a + 1 : t[a + i - 1] = s[a + i - 1]
  <2> TAKE i \in 1 .. b - a + 1
  <2>1. a + i - 1 \in 1 .. Len(s)
    BY <1>1, <1>3
  <2>2. QED
    BY <1>2, <2>1
<1>8. Len(SubSeq(t, a, b)) = Len(SubSeq(s, a, b))
  BY <1>5, <1>6
<1>9. \A i \in 1 .. Len(SubSeq(t, a, b)) : SubSeq(t, a, b)[i] = SubSeq(s, a, b)[i]
  BY <1>3, <1>5, <1>6, <1>7
<1>10. SubSeq(t, a, b) = SubSeq(s, a, b)
  BY <1>5, <1>6, <1>8, <1>9, SeqEqual, Zenon
<1>11. QED
  BY <1>10 DEF t

LEMMA ReplaceType ==
    ASSUME NEW S, NEW s \in Seq(S), NEW c, NEW r \in Seq(S)
    PROVE  mass_replace(s, <<c>>, r) \in Seq(S)
<1>1. Len(s) \in 0 .. Len(s)
  OBVIOUS
<1>2. QED
  BY <1>1, RestIsUsed, RestType

\* A character more in the text is that character, or its replacement, more in the
\* result: mass_replace (common.cc:162-175) looks at each character once.
LEMMA ReplaceAppend ==
    ASSUME NEW S, NEW s \in Seq(S), NEW x \in S, NEW c, NEW r \in Seq(S)
    PROVE  mass_replace(Append(s, x), <<c>>, r) = Cat(mass_replace(s, <<c>>, r), Image(x, c, r))
<1> DEFINE t == Append(s, x)
           L == Len(s)
           f == Rest(s, <<c>>, r)
           g == Rest(t, <<c>>, r)
           im == Image(x, c, r)
           Bad == {n \in 0 .. L : g[n + 1] # Cat(f[n], im)}
<1>1. /\ t \in Seq(S) /\ L \in Nat /\ Len(t) = L + 1 /\ t[L + 1] = x
      /\ \A i \in 1 .. L : t[i] = s[i]
  BY AppendProperties
<1>2. im \in Seq(S)
  BY DEF Image
<1>3. f = [n \in 0 .. L |-> RestTurn(s, <<c>>, r, f, n)]
  BY RestSolves
<1>4. g = [n \in 0 .. L + 1 |-> RestTurn(t, <<c>>, r, g, n)]
  <2> HIDE DEF t
  <2>1. QED
    BY <1>1, RestSolves
<1>5. \A n \in 0 .. L : f[n] \in Seq(S)
  BY RestType
<1>6. \A a \in 1 .. L + 1 : \A b \in a - 1 .. L : SubSeq(t, a, b) = SubSeq(s, a, b)
  BY AppendSub
<1>7. mass_replace(s, <<c>>, r) = f[L] /\ mass_replace(t, <<c>>, r) = g[L + 1]
  BY <1>1, RestIsUsed, Zenon
<1> HIDE DEF t, L, f, g, im
<1>8. \A n \in 0 .. L : f[n] = RestTurn(s, <<c>>, r, f, n)
  BY <1>3, Zenon
<1>9. \A n \in 0 .. L + 1 : g[n] = RestTurn(t, <<c>>, r, g, n)
  BY <1>4, Zenon
<1>10. g[0] = <<>>
  <2>1. NoneFrom(t, c, Len(t) - 0 + 1)
    BY <1>1 DEF NoneFrom
  <2>2. g[0] = SubSeq(t, Len(t) - 0 + 1, Len(t))
    <3>1. 0 \in 0 .. Len(t) /\ 0 \in 0 .. L + 1
      BY <1>1
    <3>2. RestTurn(t, <<c>>, r, g, 0) = SubSeq(t, Len(t) - 0 + 1, Len(t))
      BY <1>1, <2>1, <3>1, TurnNone
    <3>3. QED
      BY <1>9, <3>1, <3>2
  <2>3. QED
    BY <1>1, <2>2, SubSeqEmpty
<1>11. ASSUME NEW n \in 0 .. L, \A m \in 0 .. n - 1 : g[m + 1] = Cat(f[m], im)
       PROVE  g[n + 1] = Cat(f[n], im)
  <2> DEFINE from == L - n + 1
  <2>1. /\ from = L - n + 1 /\ from \in 1 .. L + 1 /\ from \in 1 .. Len(t) + 1
        /\ from = Len(t) - (n + 1) + 1 /\ from = Len(s) - n + 1
        /\ n + 1 \in 0 .. Len(t) /\ n \in 0 .. Len(s)
    BY <1>1 DEF L
  <2>2. f[n] = RestTurn(s, <<c>>, r, f, n) /\ g[n + 1] = RestTurn(t, <<c>>, r, g, n + 1)
    BY <1>1, <1>8, <1>9, <2>1
  <2> HIDE DEF from
  <2>6. ASSUME NEW j, FirstAt(t, c, from, j)
        PROVE  g[n + 1] = Joined(t, from, j, r, g[Len(t) - j])
    <3>1. RestTurn(t, <<c>>, r, g, n + 1) = Joined(t, Len(t) - (n + 1) + 1, j, r, g[Len(t) - j])
      <4>1. t \in Seq(S)
        BY <1>1
      <4>2. PICK k \in 0 .. Len(t) : k = n + 1
        BY <2>1
      <4>3. FirstAt(t, c, Len(t) - k + 1, j)
        BY <2>1, <2>6, <4>2
      <4>4. RestTurn(t, <<c>>, r, g, k) = Joined(t, Len(t) - k + 1, j, r, g[Len(t) - j])
        BY <4>1, <4>3, TurnSome
      <4>5. QED
        BY <4>2, <4>4
    <3>2. QED
      BY <2>1, <2>2, <3>1
  <2>3. ASSUME NEW j, FirstAt(s, c, from, j)
        PROVE  g[n + 1] = Cat(f[n], im)
    <3>1. j \in from .. L /\ s[j] = c /\ \A i \in from .. j - 1 : s[i] # c
      BY <2>3 DEF FirstAt, L
    <3>2. FirstAt(t, c, from, j)
      <4>1. j \in from .. Len(t) /\ j \in 1 .. L
        BY <1>1, <2>1, <3>1
      <4>2. \A i \in from .. j - 1 : i \in 1 .. L
        BY <1>1, <2>1, <3>1
      <4>3. QED
        BY <1>1, <3>1, <4>1, <4>2 DEF FirstAt
    <3>3. f[n] = Joined(s, from, j, r, f[Len(s) - j])
      <4>1. RestTurn(s, <<c>>, r, f, n) = Joined(s, Len(s) - n + 1, j, r, f[Len(s) - j])
        BY <2>1, <2>3, TurnSome
      <4>2. QED
        BY <2>1, <2>2, <4>1
    <3>4. g[n + 1] = Joined(t, from, j, r, g[Len(t) - j])
      BY <2>6, <3>2
    <3> DEFINE A == SubSeq(s, from, j - 1)
               F == f[L - j]
    <3>5. L - j \in 0 .. n - 1 /\ Len(t) - j = (L - j) + 1 /\ Len(s) - j = L - j /\ L - j \in 0 .. L
      <4>1. Len(s) = L
        BY DEF L
      <4>2. L \in Nat /\ Len(t) = L + 1
        BY <1>1
      <4>3. from = L - n + 1
        BY <2>1
      <4>4. j \in Int /\ from <= j /\ j <= L
        BY <3>1, <4>2, <4>3
      <4>5. L - j \in 0 .. n - 1 /\ L - j \in 0 .. L
        BY <4>2, <4>3, <4>4
      <4>6. QED
        BY <4>1, <4>2, <4>4, <4>5
    <3>6. g[Len(t) - j] = Cat(F, im)
      BY <1>11, <3>5
    <3>7. SubSeq(t, from, j - 1) = A /\ A \in Seq(S)
      <4>1. j - 1 \in from - 1 .. L /\ j - 1 \in Int
        BY <1>1, <2>1, <3>1
      <4>2. \A i \in from .. j - 1 : s[i] \in S
        <5>1. \A i \in from .. j - 1 : i \in 1 .. Len(s)
          BY <1>1, <2>1, <3>1 DEF L
        <5>2. QED
          BY <5>1
      <4>3. A \in Seq(S)
        BY <2>1, <4>1, <4>2, SubSeqProperties
      <4>4. QED
        BY <1>6, <2>1, <4>1, <4>3, Zenon
    <3>8. F \in Seq(S)
      BY <1>5, <3>5
    <3>9. f[n] = Cat(Cat(A, r), F)
      BY <3>3, <3>5 DEF Joined
    <3>10. g[n + 1] = Cat(Cat(A, r), Cat(F, im))
      BY <3>4, <3>6, <3>7, Zenon DEF Joined
    <3> HIDE DEF A, F
    <3>11. Cat(A, r) \in Seq(S)
      BY <3>7, CatType
    <3>12. QED
      BY <1>2, <3>8, <3>9, <3>10, <3>11, CatAssociative
  <2>4. CASE NoneFrom(s, c, from)
    <3>1. \A i \in from .. L : s[i] # c /\ t[i] = s[i]
      BY <1>1, <2>1, <2>4 DEF NoneFrom, L
    <3>2. f[n] = SubSeq(s, from, L)
      <4>1. RestTurn(s, <<c>>, r, f, n) = SubSeq(s, Len(s) - n + 1, Len(s))
        BY <2>1, <2>4, TurnNone
      <4>2. QED
        BY <2>1, <2>2, <4>1 DEF L
    <3>3. SubSeq(t, from, L) = f[n] /\ f[n] \in Seq(S)
      <4>1. L \in from - 1 .. L
        BY <1>1, <2>1
      <4>2. QED
        BY <1>5, <1>6, <2>1, <3>2, <4>1, Zenon
    <3>4. CASE x = c
      <4>0. PICK e : e = L + 1
        OBVIOUS
      <4>1. FirstAt(t, c, from, e)
        BY <1>1, <2>1, <3>1, <3>4, <4>0 DEF FirstAt
      <4>2. g[n + 1] = Joined(t, from, e, r, g[Len(t) - e])
        BY <2>6, <4>1
      <4>3. Len(t) - e = 0 /\ e - 1 = L
        BY <1>1, <4>0
      <4>4. g[n + 1] = Cat(Cat(f[n], r), <<>>)
        <5>1. g[n + 1] = Cat(Cat(SubSeq(t, from, e - 1), r), g[Len(t) - e])
          BY <4>2 DEF Joined
        <5>2. QED
          BY <1>10, <3>3, <4>3, <5>1, Zenon
      <4>5. Cat(f[n], r) \in Seq(S)
        BY <3>3, CatType
      <4>6. g[n + 1] = Cat(f[n], r)
        BY <4>4, <4>5, CatEmpty
      <4>7. QED
        BY <3>4, <4>6 DEF im, Image
    <3>5. CASE x # c
      <4>1. NoneFrom(t, c, from)
        <5>1. \A i \in from .. Len(t) : i \in from .. L \/ i = L + 1
          BY <1>1, <2>1
        <5>2. QED
          BY <1>1, <3>1, <3>5, <5>1 DEF NoneFrom
      <4>2. g[n + 1] = SubSeq(t, from, L + 1)
        <5>1. RestTurn(t, <<c>>, r, g, n + 1) = SubSeq(t, Len(t) - (n + 1) + 1, Len(t))
          BY <1>1, <2>1, <4>1, TurnNone, Zenon
        <5>2. QED
          BY <1>1, <2>1, <2>2, <5>1, Zenon
      <4>3. SubSeq(t, from, L + 1) = Cat(SubSeq(t, from, L), <<x>>)
        <5>1. from \in 1 .. Len(t) /\ L + 1 \in from .. Len(t)
          BY <1>1, <2>1
        <5>2. PICK e \in from .. Len(t) : e = L + 1
          BY <5>1
        <5>3. SubSeq(t, from, e) = Cat(SubSeq(t, from, e - 1), <<t[e]>>)
          BY <1>1, <5>1, SubSeqRecursiveSecond, Zenon DEF Cat
        <5>4. e - 1 = L /\ t[e] = x
          BY <1>1, <5>2
        <5>5. QED
          BY <5>2, <5>3, <5>4, Zenon
      <4>4. QED
        BY <3>3, <3>5, <4>2, <4>3 DEF im, Image
    <3>6. QED
      BY <3>4, <3>5
  <2>5. QED
    <3>1. from \in 1 .. Len(s) + 1
      BY <2>1 DEF L
    <3>2. QED
      BY <2>3, <2>4, <3>1, NoneOrFirst, Zenon
<1>12. Bad = {}
  <2> SUFFICES ASSUME Bad # {}
               PROVE  FALSE
    OBVIOUS
  <2>1. Bad \in SUBSET Nat
    BY <1>1
  <2>2. PICK n \in Bad : \A m \in Bad : n <= m
    BY <2>1, Least, Zenon
  <2>3. n \in 0 .. L /\ g[n + 1] # Cat(f[n], im)
    OBVIOUS
  <2>4. \A m \in 0 .. n - 1 : g[m + 1] = Cat(f[m], im)
    <3> SUFFICES ASSUME NEW m \in 0 .. n - 1, g[m + 1] # Cat(f[m], im)
                 PROVE  FALSE
      OBVIOUS
    <3>1. m \in 0 .. L
      BY <1>1, <2>3
    <3>2. m \in Bad
      BY <3>1
    <3>3. QED
      BY <2>2, <2>3, <3>2
  <2>5. QED
    BY <1>11, <2>3, <2>4
<1>13. g[L + 1] = Cat(f[L], im)
  <2>1. L \in 0 .. L
    BY <1>1
  <2>2. QED
    BY <1>12, <2>1
<1>14. QED
  BY <1>7, <1>13 DEF t, im

-----------------------------------------------------------------------------
(***************************************************************************)
(* What a JSON reader makes of a text with one more character.             *)
(***************************************************************************)
JsonTurn(s, g, i) == IF i = 0 THEN JsonStart ELSE JsonStep(g[i - 1], s[i])

JsonAfter(s) == CHOOSE f : f = [i \in 0 .. Len(s) |-> JsonTurn(s, f, i)]

JsonLoop(s, g, k) == g = [i \in 0 .. k |-> JsonTurn(s, g, i)]

\* The JSON reader is the solution that JsonAfter chooses.
LEMMA JsonAfterIsUsed ==
    ASSUME NEW s
    PROVE  JsonEnd(s) = JsonAfter(s)[Len(s)]
BY DEF JsonEnd, JsonAfter, JsonTurn

LEMMA JsonTurnSame ==
    ASSUME NEW s, NEW g, NEW h, NEW i \in Nat, \A m \in 0 .. i - 1 : g[m] = h[m]
    PROVE  JsonTurn(s, g, i) = JsonTurn(s, h, i)
<1>1. CASE i = 0
  BY <1>1 DEF JsonTurn
<1>2. CASE i # 0
  <2>1. g[i - 1] = h[i - 1]
    BY <1>2
  <2>2. QED
    BY <2>1 DEF JsonTurn
<1>3. QED
  BY <1>1, <1>2

\* The recursion of the JSON reader has a solution.
LEMMA JsonAfterSolves ==
    ASSUME NEW S, NEW s \in Seq(S)
    PROVE  JsonLoop(s, JsonAfter(s), Len(s))
<1> DEFINE N == Len(s)
           Runs == {k \in 0 .. N : \E g : JsonLoop(s, g, k)}
<1>0. N \in Nat
  OBVIOUS
<1>1. 0 \in Runs
  <2> DEFINE g == [n \in 0 .. 0 |-> JsonTurn(s, <<>>, n)]
  <2>1. ASSUME NEW n \in 0 .. 0
        PROVE  JsonTurn(s, g, n) = JsonTurn(s, <<>>, n)
    <3>1. n \in Nat /\ 0 .. n - 1 = {}
      BY <1>0
    <3> HIDE DEF g
    <3>2. QED
      BY <3>1, JsonTurnSame
  <2>2. g = [n \in 0 .. 0 |-> JsonTurn(s, g, n)]
    BY <2>1
  <2>3. QED
    BY <1>0, <2>2 DEF JsonLoop
<1>2. ASSUME NEW k \in 1 .. N, k - 1 \in Runs
      PROVE  k \in Runs
  <2>1. PICK g : JsonLoop(s, g, k - 1)
    BY <1>2
  <2> DEFINE h == [n \in 0 .. k |-> IF n = k THEN JsonTurn(s, g, k) ELSE g[n]]
  <2>2. ASSUME NEW n \in 0 .. k
        PROVE  JsonTurn(s, h, n) = JsonTurn(s, g, n)
    <3>1. n \in Nat
      BY <1>0
    <3>2. \A m \in 0 .. n - 1 : h[m] = g[m]
      BY <1>0
    <3> HIDE DEF h
    <3>3. QED
      BY <3>1, <3>2, JsonTurnSame
  <2>3. \A n \in 0 .. k - 1 : g[n] = JsonTurn(s, g, n)
    BY <2>1 DEF JsonLoop
  <2>4. ASSUME NEW n \in 0 .. k
        PROVE  h[n] = JsonTurn(s, g, n)
    <3>1. CASE n = k
      BY <3>1
    <3>2. CASE n # k
      <4>1. n \in 0 .. k - 1
        BY <1>0, <3>2
      <4>2. QED
        BY <2>3, <3>2, <4>1
    <3>3. QED
      BY <3>1, <3>2
  <2>5. h = [n \in 0 .. k |-> h[n]]
    OBVIOUS
  <2> HIDE DEF h
  <2>6. \A n \in 0 .. k : h[n] = JsonTurn(s, h, n)
    BY <2>2, <2>4
  <2>7. h = [n \in 0 .. k |-> JsonTurn(s, h, n)]
    BY <2>5, <2>6
  <2>8. QED
    BY <2>7 DEF JsonLoop
<1>3. N \in Runs
  <2> HIDE DEF Runs, N
  <2>1. 0 .. N \subseteq Runs
    BY <1>0, <1>1, <1>2, Reached
  <2>2. QED
    BY <1>0, <2>1
<1>4. PICK g : g = [n \in 0 .. Len(s) |-> JsonTurn(s, g, n)]
  BY <1>3 DEF JsonLoop
<1>5. QED
  BY <1>4, Zenon DEF JsonAfter, JsonLoop

LEMMA JsonEmpty == JsonEnd(<<>>) = JsonStart
<1>1. JsonLoop(<<>>, JsonAfter(<<>>), Len(<<>>))
  <2>1. <<>> \in Seq({})
    OBVIOUS
  <2>2. QED
    BY <2>1, JsonAfterSolves, Zenon
<1>2. JsonAfter(<<>>)[0] = JsonTurn(<<>>, JsonAfter(<<>>), 0)
  BY <1>1 DEF JsonLoop
<1>3. Len(<<>>) = 0
  OBVIOUS
<1>4. QED
  BY <1>2, <1>3, JsonAfterIsUsed DEF JsonTurn

\* The reader takes a character at a time.
LEMMA JsonAppend ==
    ASSUME NEW S, NEW s \in Seq(S), NEW x \in S
    PROVE  JsonEnd(Append(s, x)) = JsonStep(JsonEnd(s), x)
<1> DEFINE t == Append(s, x)
           L == Len(s)
           f == JsonAfter(s)
           g == JsonAfter(t)
           Same == {i \in 0 .. L : g[i] = f[i]}
<1>1. /\ t \in Seq(S) /\ L \in Nat /\ Len(t) = L + 1 /\ t[L + 1] = x
      /\ \A i \in 1 .. L : t[i] = s[i]
  BY AppendProperties
<1>2. JsonLoop(s, f, L)
  BY JsonAfterSolves
<1>3. JsonLoop(t, g, L + 1)
  <2> HIDE DEF t
  <2>1. JsonLoop(t, g, Len(t))
    BY <1>1, JsonAfterSolves
  <2>2. QED
    BY <1>1, <2>1
<1>4. JsonEnd(s) = f[L] /\ JsonEnd(t) = g[L + 1]
  BY <1>1, JsonAfterIsUsed, Zenon
<1> HIDE DEF t, L, f, g
<1>5. \A i \in 0 .. L : f[i] = JsonTurn(s, f, i)
  BY <1>2, Zenon DEF JsonLoop
<1>6. \A i \in 0 .. L + 1 : g[i] = JsonTurn(t, g, i)
  BY <1>3, Zenon DEF JsonLoop
<1>7. 0 \in Same
  <2>1. 0 \in 0 .. L /\ 0 \in 0 .. L + 1
    BY <1>1
  <2>2. f[0] = JsonStart /\ g[0] = JsonStart
    BY <1>5, <1>6, <2>1 DEF JsonTurn
  <2>3. QED
    BY <2>1, <2>2
<1>8. ASSUME NEW k \in 1 .. L, k - 1 \in Same
      PROVE  k \in Same
  <2>1. k \in 0 .. L /\ k \in 0 .. L + 1 /\ k # 0
    BY <1>1
  <2>2. f[k] = JsonStep(f[k - 1], s[k]) /\ g[k] = JsonStep(g[k - 1], t[k])
    BY <1>5, <1>6, <2>1 DEF JsonTurn
  <2>3. t[k] = s[k] /\ g[k - 1] = f[k - 1]
    BY <1>1, <1>8
  <2>4. QED
    BY <2>1, <2>2, <2>3
<1>9. L \in Same
  <2> HIDE DEF Same
  <2>1. 0 .. L \subseteq Same
    BY <1>1, <1>7, <1>8, Reached, Zenon
  <2>2. QED
    BY <1>1, <2>1
<1>10. g[L + 1] = JsonStep(g[L], t[L + 1])
  <2>1. L + 1 \in 0 .. L + 1 /\ L + 1 # 0 /\ (L + 1) - 1 = L
    BY <1>1
  <2>2. QED
    BY <1>6, <2>1 DEF JsonTurn
<1>11. QED
  BY <1>1, <1>4, <1>9, <1>10 DEF t

-----------------------------------------------------------------------------
(***************************************************************************)
(* What escaping makes of a text with one more character.                  *)
(***************************************************************************)
Codes == {"\\", "\"", "r", "n", "t"}

\* Concatenation with one and with two characters.
LEMMA CatOne ==
    ASSUME NEW S, NEW s \in Seq(S), NEW x \in S
    PROVE  Cat(s, <<x>>) = Append(s, x)
BY AppendIsConcat DEF Cat

LEMMA CatTwo ==
    ASSUME NEW S, NEW s \in Seq(S), NEW x \in S, NEW y \in S
    PROVE  Cat(s, <<x, y>>) = Append(Append(s, x), y)
BY DEF Cat

\* A character behind a backslash.
Pair(e) == <<"\\", e>>

LEMMA PairType ==
    ASSUME NEW S, Codes \subseteq S, NEW e \in Codes
    PROVE  Pair(e) \in Seq(S) /\ e \in S /\ "\\" \in S
<1>1. "\\" \in S /\ e \in S
  BY Zenon DEF Codes
<1>2. ASSUME NEW b \in S
      PROVE  <<b, e>> \in Seq(S)
  BY <1>1
<1>3. QED
  BY <1>1, <1>2 DEF Pair

\* What an escape gives, and what it does to a further character.
LEMMA EscapeType ==
    ASSUME NEW S, Codes \subseteq S, NEW s \in Seq(S), NEW c, NEW e \in Codes
    PROVE  Escape(s, c, e) \in Seq(S)
<1>1. mass_replace(s, <<c>>, Pair(e)) \in Seq(S)
  BY PairType, ReplaceType
<1>2. QED
  BY <1>1 DEF Escape, Pair

LEMMA EscapeAppend ==
    ASSUME NEW S, Codes \subseteq S, NEW s \in Seq(S), NEW c, NEW e \in Codes, NEW x \in S
    PROVE  Escape(Append(s, x), c, e) = Cat(Escape(s, c, e), Image(x, c, Pair(e)))
<1>1. mass_replace(Append(s, x), <<c>>, Pair(e)) = Cat(mass_replace(s, <<c>>, Pair(e)), Image(x, c, Pair(e)))
  BY PairType, ReplaceAppend
<1>2. QED
  BY <1>1 DEF Escape, Pair

LEMMA EscapeOther ==
    ASSUME NEW S, Codes \subseteq S, NEW s \in Seq(S), NEW c, NEW e \in Codes,
           NEW x \in S, x # c
    PROVE  Escape(Append(s, x), c, e) = Append(Escape(s, c, e), x)
<1>1. Escape(Append(s, x), c, e) = Cat(Escape(s, c, e), Image(x, c, Pair(e)))
  BY EscapeAppend
<1>2. Image(x, c, Pair(e)) = <<x>>
  BY DEF Image
<1>3. PICK u \in Seq(S) : u = Escape(s, c, e)
  BY EscapeType
<1>4. Cat(u, <<x>>) = Append(u, x)
  BY CatOne
<1>5. QED
  BY <1>1, <1>2, <1>3, <1>4

LEMMA EscapeIt ==
    ASSUME NEW S, Codes \subseteq S, NEW s \in Seq(S), NEW e \in Codes, NEW x \in S
    PROVE  Escape(Append(s, x), x, e) = Append(Append(Escape(s, x, e), "\\"), e)
<1>1. "\\" \in S /\ e \in S
  BY PairType
<1>2. Escape(Append(s, x), x, e) = Cat(Escape(s, x, e), Image(x, x, Pair(e)))
  BY EscapeAppend
<1>3. Image(x, x, Pair(e)) = Pair(e)
  BY DEF Image
<1>4. PICK u \in Seq(S) : u = Escape(s, x, e)
  BY EscapeType
<1>5. PICK b \in S : b = "\\"
  BY <1>1
<1>6. Cat(u, <<b, e>>) = Append(Append(u, b), e)
  BY <1>1, CatTwo
<1>7. QED
  BY <1>2, <1>3, <1>4, <1>5, <1>6, Zenon DEF Pair

\* w is s with x behind it, or with a backslash and d.
Plain(s, x, w) == w = Append(s, x)
Paired(s, d, w) == w = Append(Append(s, "\\"), d)

\* A later escape leaves a character alone that is not the one it looks for, makes
\* a pair of one that is, and does not touch the pairs of an earlier one.
LEMMA PlainStays ==
    ASSUME NEW S, Codes \subseteq S, NEW s \in Seq(S), NEW c, NEW e \in Codes,
           NEW x \in S, x # c, NEW w, Plain(s, x, w)
    PROVE  Plain(Escape(s, c, e), x, Escape(w, c, e))
BY EscapeOther DEF Plain

LEMMA PlainEscaped ==
    ASSUME NEW S, Codes \subseteq S, NEW s \in Seq(S), NEW c \in S, NEW e \in Codes,
           NEW w, Plain(s, c, w)
    PROVE  Paired(Escape(s, c, e), e, Escape(w, c, e))
BY EscapeIt, Zenon DEF Plain, Paired

LEMMA PairedStays ==
    ASSUME NEW S, Codes \subseteq S, NEW s \in Seq(S), NEW c, NEW e \in Codes,
           NEW d \in Codes, d # c, "\\" # c, NEW w, Paired(s, d, w)
    PROVE  Paired(Escape(s, c, e), d, Escape(w, c, e))
<1>1. PICK b \in S : b = "\\"
  BY PairType
<1>2. d \in S
  BY PairType
<1>3. Append(s, b) \in Seq(S)
  OBVIOUS
<1>4. PICK t \in Seq(S) : t = Append(s, b)
  BY <1>3, Zenon
<1>5. Escape(Append(t, d), c, e) = Append(Escape(t, c, e), d)
  BY <1>2, EscapeOther
<1>6. b # c
  BY <1>1
<1>7. Escape(Append(s, b), c, e) = Append(Escape(s, c, e), b)
  BY <1>6, EscapeOther
<1>8. QED
  BY <1>1, <1>4, <1>5, <1>7 DEF Paired

\* The characters that are escaped in the message of load, merge, save to a file
\* and show, and what stands behind the backslash for them.
Special == {"\\", "\"", "\r", "\n", "\t"}

Code(x) == CASE x = "\r" -> "r" [] x = "\n" -> "n" [] x = "\t" -> "t" [] OTHER -> x

Grown(s, x, w) == IF x \in Special THEN Paired(s, Code(x), w) ELSE Plain(s, x, w)

\* The five escapes together: a special character gives a pair, any other itself.
\* This is where their order matters (confmode.cc:715-722).
LEMMA ExecuteGrows ==
    ASSUME NEW S, Codes \subseteq S, NEW s \in Seq(S), NEW x \in S
    PROVE  Grown(execute_message(s), x, execute_message(Append(s, x)))
<1> DEFINE u1 == Escape(s, "\\", "\\")
           u2 == Escape(u1, "\"", "\"")
           u3 == Escape(u2, "\r", "r")
           u4 == Escape(u3, "\n", "n")
           u5 == Escape(u4, "\t", "t")
           t == Append(s, x)
           w1 == Escape(t, "\\", "\\")
           w2 == Escape(w1, "\"", "\"")
           w3 == Escape(w2, "\r", "r")
           w4 == Escape(w3, "\n", "n")
           w5 == Escape(w4, "\t", "t")
<1>0. "\\" \in Codes /\ "\"" \in Codes /\ "r" \in Codes /\ "n" \in Codes /\ "t" \in Codes
  BY Zenon DEF Codes
<1>1. u1 \in Seq(S)
  BY <1>0, EscapeType, Zenon
<1>2. u2 \in Seq(S)
  BY <1>0, <1>1, EscapeType, Zenon
<1>3. u3 \in Seq(S)
  BY <1>0, <1>2, EscapeType, Zenon
<1>4. u4 \in Seq(S)
  BY <1>0, <1>3, EscapeType, Zenon
<1>5. u5 \in Seq(S)
  BY <1>0, <1>4, EscapeType, Zenon
<1>6. execute_message(s) = u5 /\ execute_message(Append(s, x)) = w5
  BY DEF execute_message
<1>7. Plain(s, x, t)
  BY DEF Plain
<1> HIDE DEF u1, u2, u3, u4, u5, w1, w2, w3, w4, w5, t
<1>8. CASE x = "\\"
  <2>1. Paired(u1, "\\", w1)
    BY <1>0, <1>8, <1>7, PlainEscaped, Zenon DEF u1, w1
  <2>2. Paired(u2, "\\", w2)
    BY <1>0, <1>1, <2>1, PairedStays, Zenon DEF u2, w2
  <2>3. Paired(u3, "\\", w3)
    BY <1>0, <1>2, <2>2, PairedStays, Zenon DEF u3, w3
  <2>4. Paired(u4, "\\", w4)
    BY <1>0, <1>3, <2>3, PairedStays, Zenon DEF u4, w4
  <2>5. Paired(u5, "\\", w5)
    BY <1>0, <1>4, <2>4, PairedStays, Zenon DEF u5, w5
  <2>6. QED
    BY <1>6, <1>8, <2>5 DEF Grown, Special, Code
<1>9. CASE x = "\""
  <2>1. Plain(u1, x, w1)
    BY <1>0, <1>9, <1>7, PlainStays, Zenon DEF u1, w1
  <2>2. Paired(u2, "\"", w2)
    BY <1>0, <1>1, <1>9, <2>1, PlainEscaped, Zenon DEF u2, w2
  <2>3. Paired(u3, "\"", w3)
    BY <1>0, <1>2, <2>2, PairedStays, Zenon DEF u3, w3
  <2>4. Paired(u4, "\"", w4)
    BY <1>0, <1>3, <2>3, PairedStays, Zenon DEF u4, w4
  <2>5. Paired(u5, "\"", w5)
    BY <1>0, <1>4, <2>4, PairedStays, Zenon DEF u5, w5
  <2>6. QED
    BY <1>6, <1>9, <2>5, Zenon DEF Grown, Special, Code
<1>10. CASE x = "\r"
  <2>1. Plain(u1, x, w1)
    BY <1>0, <1>10, <1>7, PlainStays, Zenon DEF u1, w1
  <2>2. Plain(u2, x, w2)
    BY <1>0, <1>1, <1>10, <2>1, PlainStays, Zenon DEF u2, w2
  <2>3. Paired(u3, "r", w3)
    BY <1>0, <1>2, <1>10, <2>2, PlainEscaped, Zenon DEF u3, w3
  <2>4. Paired(u4, "r", w4)
    BY <1>0, <1>3, <2>3, PairedStays, Zenon DEF u4, w4
  <2>5. Paired(u5, "r", w5)
    BY <1>0, <1>4, <2>4, PairedStays, Zenon DEF u5, w5
  <2>6. QED
    BY <1>6, <1>10, <2>5 DEF Grown, Special, Code
<1>11. CASE x = "\n"
  <2>1. Plain(u1, x, w1)
    BY <1>0, <1>11, <1>7, PlainStays, Zenon DEF u1, w1
  <2>2. Plain(u2, x, w2)
    BY <1>0, <1>1, <1>11, <2>1, PlainStays, Zenon DEF u2, w2
  <2>3. Plain(u3, x, w3)
    BY <1>0, <1>2, <1>11, <2>2, PlainStays, Zenon DEF u3, w3
  <2>4. Paired(u4, "n", w4)
    BY <1>0, <1>3, <1>11, <2>3, PlainEscaped, Zenon DEF u4, w4
  <2>5. Paired(u5, "n", w5)
    BY <1>0, <1>4, <2>4, PairedStays, Zenon DEF u5, w5
  <2>6. QED
    BY <1>6, <1>11, <2>5 DEF Grown, Special, Code
<1>12. CASE x = "\t"
  <2>1. Plain(u1, x, w1)
    BY <1>0, <1>12, <1>7, PlainStays, Zenon DEF u1, w1
  <2>2. Plain(u2, x, w2)
    BY <1>0, <1>1, <1>12, <2>1, PlainStays, Zenon DEF u2, w2
  <2>3. Plain(u3, x, w3)
    BY <1>0, <1>2, <1>12, <2>2, PlainStays, Zenon DEF u3, w3
  <2>4. Plain(u4, x, w4)
    BY <1>0, <1>3, <1>12, <2>3, PlainStays, Zenon DEF u4, w4
  <2>5. Paired(u5, "t", w5)
    BY <1>0, <1>4, <1>12, <2>4, PlainEscaped, Zenon DEF u5, w5
  <2>6. QED
    BY <1>6, <1>12, <2>5 DEF Grown, Special, Code
<1>13. CASE x \notin Special
  <2>0. x # "\\" /\ x # "\"" /\ x # "\r" /\ x # "\n" /\ x # "\t"
    BY <1>13, Zenon DEF Special
  <2>1. Plain(u1, x, w1)
    BY <1>0, <2>0, <1>7, PlainStays, Zenon DEF u1, w1
  <2>2. Plain(u2, x, w2)
    BY <1>0, <1>1, <2>0, <2>1, PlainStays, Zenon DEF u2, w2
  <2>3. Plain(u3, x, w3)
    BY <1>0, <1>2, <2>0, <2>2, PlainStays, Zenon DEF u3, w3
  <2>4. Plain(u4, x, w4)
    BY <1>0, <1>3, <2>0, <2>3, PlainStays, Zenon DEF u4, w4
  <2>5. Plain(u5, x, w5)
    BY <1>0, <1>4, <2>0, <2>4, PlainStays, Zenon DEF u5, w5
  <2>6. QED
    BY <1>6, <1>13, <2>5, Zenon DEF Grown, Special, Code
<1>14. QED
  BY <1>8, <1>9, <1>10, <1>11, <1>12, <1>13, Zenon DEF Special

\* A message of commit and save has the quotes and newlines escaped.
LEMMA CommitGrows ==
    ASSUME NEW S, Codes \subseteq S, NEW s \in Seq(S), NEW x \in S,
           x \notin {"\\", "\r", "\t"}
    PROVE  Grown(commit_message(s), x, commit_message(Append(s, x)))
<1> DEFINE u1 == Escape(s, "\"", "\"")
           u2 == Escape(u1, "\n", "n")
           t == Append(s, x)
           w1 == Escape(t, "\"", "\"")
           w2 == Escape(w1, "\n", "n")
<1>0. "\"" \in Codes /\ "n" \in Codes
  BY Zenon DEF Codes
<1>1. u1 \in Seq(S)
  BY <1>0, EscapeType, Zenon
<1>2. commit_message(s) = u2 /\ commit_message(Append(s, x)) = w2
  BY DEF commit_message
<1>3. Plain(s, x, t)
  BY DEF Plain
<1> HIDE DEF u1, u2, w1, w2, t
<1>4. CASE x = "\""
  <2>1. Paired(u1, "\"", w1)
    BY <1>0, <1>3, <1>4, PlainEscaped, Zenon DEF u1, w1
  <2>2. Paired(u2, "\"", w2)
    BY <1>0, <1>1, <2>1, PairedStays, Zenon DEF u2, w2
  <2>3. QED
    BY <1>2, <1>4, <2>2, Zenon DEF Grown, Special, Code
<1>5. CASE x = "\n"
  <2>1. Plain(u1, x, w1)
    BY <1>0, <1>3, <1>5, PlainStays, Zenon DEF u1, w1
  <2>2. Paired(u2, "n", w2)
    BY <1>0, <1>1, <1>5, <2>1, PlainEscaped, Zenon DEF u2, w2
  <2>3. QED
    BY <1>2, <1>5, <2>2 DEF Grown, Special, Code
<1>6. CASE x \notin Special
  <2>0. x # "\"" /\ x # "\n"
    BY <1>6, Zenon DEF Special
  <2>1. Plain(u1, x, w1)
    BY <1>0, <1>3, <2>0, PlainStays, Zenon DEF u1, w1
  <2>2. Plain(u2, x, w2)
    BY <1>0, <1>1, <2>0, <2>1, PlainStays, Zenon DEF u2, w2
  <2>3. QED
    BY <1>2, <1>6, <2>2 DEF Grown
<1>7. QED
  BY <1>4, <1>5, <1>6, Zenon DEF Special

\* There is nothing to replace in the empty text.
LEMMA ReplaceEmpty ==
    ASSUME NEW c, NEW r
    PROVE  mass_replace(<<>>, <<c>>, r) = <<>>
<1> DEFINE s == <<>>
           f == Rest(s, <<c>>, r)
<1>1. s \in Seq({}) /\ Len(s) = 0
  OBVIOUS
<1>2. f = [n \in 0 .. Len(s) |-> RestTurn(s, <<c>>, r, f, n)]
  <2> HIDE DEF s
  <2>1. QED
    BY <1>1, RestSolves
<1>3. f[0] = RestTurn(s, <<c>>, r, f, 0)
  <2> HIDE DEF f
  <2>1. QED
    BY <1>1, <1>2
<1>4. RestTurn(s, <<c>>, r, f, 0) = SubSeq(s, Len(s) - 0 + 1, Len(s))
  <2>1. NoneFrom(s, c, Len(s) - 0 + 1)
    BY <1>1 DEF NoneFrom
  <2>2. 0 \in 0 .. Len(s)
    BY <1>1
  <2> HIDE DEF s, f
  <2>3. QED
    BY <1>1, <2>1, <2>2, TurnNone, Zenon
<1>5. SubSeq(s, Len(s) - 0 + 1, Len(s)) = <<>>
  BY <1>1, SubSeqEmpty
<1>6. mass_replace(s, <<c>>, r) = f[Len(s)]
  BY RestIsUsed
<1> HIDE DEF f
<1>7. QED
  BY <1>1, <1>3, <1>4, <1>5, <1>6

LEMMA EscapeEmpty ==
    ASSUME NEW c, NEW e
    PROVE  Escape(<<>>, c, e) = <<>>
BY ReplaceEmpty DEF Escape

-----------------------------------------------------------------------------
(***************************************************************************)
(* The reader has what was escaped.                                        *)
(***************************************************************************)
\* The reader of s has o, and is not behind a backslash.
Reads(s, o) == JsonEnd(s) = [esc |-> FALSE, out |-> o]

\* The reader gets back a character that the escapes have dealt with.
LEMMA ReadGrown ==
    ASSUME NEW S, Codes \subseteq S, NEW s \in Seq(S), NEW x \in S, NEW o, NEW w,
           Reads(s, o), Grown(s, x, w)
    PROVE  Reads(w, Append(o, x))
<1>1. CASE x \notin Special
  <2>1. w = Append(s, x)
    BY <1>1 DEF Grown, Plain
  <2>2. JsonEnd(w) = JsonStep([esc |-> FALSE, out |-> o], x)
    BY <2>1, JsonAppend, Zenon DEF Reads
  <2>3. QED
    BY <1>1, <2>2, Zenon DEF JsonStep, Reads, Special
<1>2. CASE x \in Special
  <2>1. PICK d \in Codes : d = Code(x)
    BY <1>2, Zenon DEF Special, Code, Codes
  <2>2. PICK b \in S : b = "\\"
    BY PairType, <2>1
  <2>3. d \in S
    BY <2>1
  <2>4. PICK t \in Seq(S) : t = Append(s, b)
    <3>1. Append(s, b) \in Seq(S)
      OBVIOUS
    <3>2. QED
      BY <3>1, Zenon
  <2>5. w = Append(t, d)
    BY <1>2, <2>1, <2>2, <2>4 DEF Grown, Paired
  <2>6. JsonEnd(t) = JsonStep([esc |-> FALSE, out |-> o], b)
    BY <2>4, JsonAppend, Zenon DEF Reads
  <2>7. JsonEnd(t) = [esc |-> TRUE, out |-> o]
    BY <2>2, <2>6 DEF JsonStep
  <2>8. JsonEnd(w) = JsonStep([esc |-> TRUE, out |-> o], d)
    BY <2>3, <2>5, <2>7, JsonAppend, Zenon
  <2>9. JsonStep([esc |-> TRUE, out |-> o], d) = [esc |-> FALSE, out |-> Append(o, x)]
    BY <1>2, <2>1, Zenon DEF JsonStep, Special, Code
  <2>10. QED
    BY <2>8, <2>9 DEF Reads
<1>3. QED
  BY <1>1, <1>2

MessageInv ==
    /\ text \in Seq(Chars)
    /\ Reads(execute_message(text), text)
    /\ Free(text, {"\\", "\r", "\t"}) => Reads(commit_message(text), text)

\* MessageInv is inductive.
LEMMA MessageInit == TextInit => MessageInv
<1> SUFFICES ASSUME text = <<>> PROVE MessageInv
  BY DEF TextInit
<1>1. execute_message(<<>>) = <<>> /\ commit_message(<<>>) = <<>>
  BY EscapeEmpty, Zenon DEF execute_message, commit_message
<1>2. Reads(<<>>, <<>>)
  BY JsonEmpty DEF Reads, JsonStart
<1>3. QED
  BY <1>1, <1>2 DEF MessageInv

LEMMA MessageStep ==
    ASSUME MessageInv, NEW x \in Chars, Grow(x)
    PROVE  MessageInv'
<1> DEFINE S == Chars \cup Codes
           t == Append(text, x)
<1>1. Codes \subseteq S /\ x \in S /\ text \in Seq(S) /\ text' = t /\ t \in Seq(Chars)
  BY DEF MessageInv, Grow
<1> HIDE DEF S
<1>2. execute_message(text) \in Seq(S) /\ commit_message(text) \in Seq(S)
  <2>1. "\\" \in Codes /\ "\"" \in Codes /\ "r" \in Codes /\ "n" \in Codes /\ "t" \in Codes
    BY DEF Codes
  <2>2. QED
    BY <1>1, <2>1, EscapeType, Zenon DEF execute_message, commit_message
<1>3. Reads(execute_message(t), t)
  <2>1. Grown(execute_message(text), x, execute_message(t))
    BY <1>1, ExecuteGrows
  <2>2. Reads(execute_message(text), text)
    BY DEF MessageInv
  <2>3. QED
    BY <1>1, <1>2, <2>1, <2>2, ReadGrown
<1>4. ASSUME Free(t, {"\\", "\r", "\t"})
      PROVE  Reads(commit_message(t), t)
  <2>1. x \notin {"\\", "\r", "\t"} /\ Free(text, {"\\", "\r", "\t"})
    <3>1. /\ Len(t) = Len(text) + 1 /\ t[Len(text) + 1] = x /\ Len(text) \in Nat
          /\ \A i \in 1 .. Len(text) : t[i] = text[i]
      BY <1>1, AppendProperties
    <3>2. DOMAIN t = 1 .. Len(text) + 1 /\ DOMAIN text = 1 .. Len(text)
      BY <1>1, <3>1
    <3> HIDE DEF t
    <3>3. QED
      BY <1>4, <3>1, <3>2 DEF Free
  <2>2. Grown(commit_message(text), x, commit_message(t))
    BY <1>1, <2>1, CommitGrows
  <2>3. Reads(commit_message(text), text)
    BY <2>1 DEF MessageInv
  <2>4. QED
    BY <1>1, <1>2, <2>2, <2>3, ReadGrown
<1>5. QED
  BY <1>1, <1>3, <1>4 DEF MessageInv

\* What the client reads in the "message" of an answer is what the program
\* printed (confmode.cc:715-722; 637-638 for commit and save, whose output has no
\* backslash, return or tab), for texts of any length over any characters.
THEOREM MessagesExact == TextSpec => []MessageExact
<1>1. TextInit => MessageInv
  BY MessageInit
<1>2. MessageInv /\ [\E c \in Chars : Grow(c)]_text => MessageInv'
  <2>1. CASE \E c \in Chars : Grow(c)
    BY <2>1, MessageStep
  <2>2. CASE UNCHANGED text
    BY <2>2 DEF MessageInv
  <2>3. QED
    BY <2>1, <2>2
<1>3. MessageInv => MessageExact
  BY DEF MessageInv, MessageExact, Reads, JsonValue
<1>4. QED
  BY <1>1, <1>2, <1>3, PTL DEF TextSpec

-----------------------------------------------------------------------------
(***************************************************************************)
(* The fields of a text with one more character.                          *)
(***************************************************************************)
SplitTurn(s, sep, g, i) == IF i = 0 THEN << <<>> >> ELSE SplitStep(g[i - 1], s[i], sep)

SplitAfter(s, sep) == CHOOSE f : f = [i \in 0 .. Len(s) |-> SplitTurn(s, sep, f, i)]

SplitLoop(s, sep, g, k) == g = [i \in 0 .. k |-> SplitTurn(s, sep, g, i)]

\* Split is the solution that SplitAfter chooses.
LEMMA SplitAfterIsUsed ==
    ASSUME NEW s, NEW sep
    PROVE  Split(s, sep) = SplitAfter(s, sep)[Len(s)]
BY DEF Split, SplitAfter, SplitTurn

LEMMA SplitTurnSame ==
    ASSUME NEW s, NEW sep, NEW g, NEW h, NEW i \in Nat, \A m \in 0 .. i - 1 : g[m] = h[m]
    PROVE  SplitTurn(s, sep, g, i) = SplitTurn(s, sep, h, i)
<1>1. CASE i = 0
  BY <1>1 DEF SplitTurn
<1>2. CASE i # 0
  <2>1. g[i - 1] = h[i - 1]
    BY <1>2
  <2>2. QED
    BY <2>1 DEF SplitTurn
<1>3. QED
  BY <1>1, <1>2

\* The recursion of Split has a solution.
LEMMA SplitAfterSolves ==
    ASSUME NEW S, NEW s \in Seq(S), NEW sep
    PROVE  SplitLoop(s, sep, SplitAfter(s, sep), Len(s))
<1> DEFINE N == Len(s)
           Runs == {k \in 0 .. N : \E g : SplitLoop(s, sep, g, k)}
<1>0. N \in Nat
  OBVIOUS
<1>1. 0 \in Runs
  <2> DEFINE g == [n \in 0 .. 0 |-> SplitTurn(s, sep, <<>>, n)]
  <2>1. ASSUME NEW n \in 0 .. 0
        PROVE  SplitTurn(s, sep, g, n) = SplitTurn(s, sep, <<>>, n)
    <3>1. n \in Nat /\ 0 .. n - 1 = {}
      BY <1>0
    <3> HIDE DEF g
    <3>2. QED
      BY <3>1, SplitTurnSame
  <2>2. g = [n \in 0 .. 0 |-> SplitTurn(s, sep, g, n)]
    BY <2>1
  <2>3. QED
    BY <1>0, <2>2 DEF SplitLoop
<1>2. ASSUME NEW k \in 1 .. N, k - 1 \in Runs
      PROVE  k \in Runs
  <2>1. PICK g : SplitLoop(s, sep, g, k - 1)
    BY <1>2
  <2> DEFINE h == [n \in 0 .. k |-> IF n = k THEN SplitTurn(s, sep, g, k) ELSE g[n]]
  <2>2. ASSUME NEW n \in 0 .. k
        PROVE  SplitTurn(s, sep, h, n) = SplitTurn(s, sep, g, n)
    <3>1. n \in Nat
      BY <1>0
    <3>2. \A m \in 0 .. n - 1 : h[m] = g[m]
      BY <1>0
    <3> HIDE DEF h
    <3>3. QED
      BY <3>1, <3>2, SplitTurnSame
  <2>3. \A n \in 0 .. k - 1 : g[n] = SplitTurn(s, sep, g, n)
    BY <2>1 DEF SplitLoop
  <2>4. ASSUME NEW n \in 0 .. k
        PROVE  h[n] = SplitTurn(s, sep, g, n)
    <3>1. CASE n = k
      BY <3>1
    <3>2. CASE n # k
      <4>1. n \in 0 .. k - 1
        BY <1>0, <3>2
      <4>2. QED
        BY <2>3, <3>2, <4>1
    <3>3. QED
      BY <3>1, <3>2
  <2>5. h = [n \in 0 .. k |-> h[n]]
    OBVIOUS
  <2> HIDE DEF h
  <2>6. \A n \in 0 .. k : h[n] = SplitTurn(s, sep, h, n)
    BY <2>2, <2>4
  <2>7. h = [n \in 0 .. k |-> SplitTurn(s, sep, h, n)]
    BY <2>5, <2>6
  <2>8. QED
    BY <2>7 DEF SplitLoop
<1>3. N \in Runs
  <2> HIDE DEF Runs, N
  <2>1. 0 .. N \subseteq Runs
    BY <1>0, <1>1, <1>2, Reached
  <2>2. QED
    BY <1>0, <2>1
<1>4. PICK g : g = [n \in 0 .. Len(s) |-> SplitTurn(s, sep, g, n)]
  BY <1>3 DEF SplitLoop
<1>5. QED
  BY <1>4, Zenon DEF SplitAfter, SplitLoop

LEMMA SplitEmpty ==
    ASSUME NEW sep
    PROVE  Split(<<>>, sep) = << <<>> >>
<1>1. SplitLoop(<<>>, sep, SplitAfter(<<>>, sep), Len(<<>>))
  <2>1. <<>> \in Seq({})
    OBVIOUS
  <2>2. QED
    BY <2>1, SplitAfterSolves, Zenon
<1>2. SplitAfter(<<>>, sep)[0] = SplitTurn(<<>>, sep, SplitAfter(<<>>, sep), 0)
  BY <1>1 DEF SplitLoop
<1>3. Len(<<>>) = 0
  OBVIOUS
<1>4. QED
  BY <1>2, <1>3, SplitAfterIsUsed, Zenon DEF SplitTurn

\* A character more ends the last field or is put into it.
LEMMA SplitAppend ==
    ASSUME NEW S, NEW s \in Seq(S), NEW sep, NEW x \in S
    PROVE  Split(Append(s, x), sep) = SplitStep(Split(s, sep), x, sep)
<1> DEFINE t == Append(s, x)
           L == Len(s)
           f == SplitAfter(s, sep)
           g == SplitAfter(t, sep)
           Same == {i \in 0 .. L : g[i] = f[i]}
<1>1. /\ t \in Seq(S) /\ L \in Nat /\ Len(t) = L + 1 /\ t[L + 1] = x
      /\ \A i \in 1 .. L : t[i] = s[i]
  BY AppendProperties
<1>2. SplitLoop(s, sep, f, L)
  BY SplitAfterSolves
<1>3. SplitLoop(t, sep, g, L + 1)
  <2> HIDE DEF t
  <2>1. SplitLoop(t, sep, g, Len(t))
    BY <1>1, SplitAfterSolves
  <2>2. QED
    BY <1>1, <2>1
<1>4. Split(s, sep) = f[L] /\ Split(t, sep) = g[L + 1]
  BY <1>1, SplitAfterIsUsed, Zenon
<1> HIDE DEF t, L, f, g
<1>5. \A i \in 0 .. L : f[i] = SplitTurn(s, sep, f, i)
  BY <1>2, Zenon DEF SplitLoop
<1>6. \A i \in 0 .. L + 1 : g[i] = SplitTurn(t, sep, g, i)
  BY <1>3, Zenon DEF SplitLoop
<1>7. 0 \in Same
  <2>1. 0 \in 0 .. L /\ 0 \in 0 .. L + 1
    BY <1>1
  <2>2. f[0] = << <<>> >> /\ g[0] = << <<>> >>
    BY <1>5, <1>6, <2>1 DEF SplitTurn
  <2>3. QED
    BY <2>1, <2>2
<1>8. ASSUME NEW k \in 1 .. L, k - 1 \in Same
      PROVE  k \in Same
  <2>1. k \in 0 .. L /\ k \in 0 .. L + 1 /\ k # 0
    BY <1>1
  <2>2. f[k] = SplitStep(f[k - 1], s[k], sep) /\ g[k] = SplitStep(g[k - 1], t[k], sep)
    BY <1>5, <1>6, <2>1 DEF SplitTurn
  <2>3. t[k] = s[k] /\ g[k - 1] = f[k - 1]
    BY <1>1, <1>8
  <2>4. QED
    BY <2>1, <2>2, <2>3
<1>9. L \in Same
  <2> HIDE DEF Same
  <2>1. 0 .. L \subseteq Same
    BY <1>1, <1>7, <1>8, Reached, Zenon
  <2>2. QED
    BY <1>1, <2>1
<1>10. g[L + 1] = SplitStep(g[L], t[L + 1], sep)
  <2>1. L + 1 \in 0 .. L + 1 /\ L + 1 # 0 /\ (L + 1) - 1 = L
    BY <1>1
  <2>2. QED
    BY <1>6, <2>1 DEF SplitTurn
<1>11. QED
  BY <1>1, <1>4, <1>9, <1>10 DEF t

-----------------------------------------------------------------------------
(***************************************************************************)
(* The fields that are not empty, with one more field.                    *)
(***************************************************************************)
KeptTurn(s, g, i) == IF i = 0 THEN <<>> ELSE Keep(g[i - 1], s[i])

KeptAfter(s) == CHOOSE f : f = [i \in 0 .. Len(s) |-> KeptTurn(s, f, i)]

KeptLoop(s, g, k) == g = [i \in 0 .. k |-> KeptTurn(s, g, i)]

\* NonEmpty is the solution that KeptAfter chooses.
LEMMA KeptAfterIsUsed ==
    ASSUME NEW s
    PROVE  NonEmpty(s) = KeptAfter(s)[Len(s)]
BY DEF NonEmpty, KeptAfter, KeptTurn

LEMMA KeptTurnSame ==
    ASSUME NEW s, NEW g, NEW h, NEW i \in Nat, \A m \in 0 .. i - 1 : g[m] = h[m]
    PROVE  KeptTurn(s, g, i) = KeptTurn(s, h, i)
<1>1. CASE i = 0
  BY <1>1 DEF KeptTurn
<1>2. CASE i # 0
  <2>1. g[i - 1] = h[i - 1]
    BY <1>2
  <2>2. QED
    BY <2>1 DEF KeptTurn
<1>3. QED
  BY <1>1, <1>2

\* The recursion of NonEmpty has a solution.
LEMMA KeptAfterSolves ==
    ASSUME NEW S, NEW s \in Seq(S)
    PROVE  KeptLoop(s, KeptAfter(s), Len(s))
<1> DEFINE N == Len(s)
           Runs == {k \in 0 .. N : \E g : KeptLoop(s, g, k)}
<1>0. N \in Nat
  OBVIOUS
<1>1. 0 \in Runs
  <2> DEFINE g == [n \in 0 .. 0 |-> KeptTurn(s, <<>>, n)]
  <2>1. ASSUME NEW n \in 0 .. 0
        PROVE  KeptTurn(s, g, n) = KeptTurn(s, <<>>, n)
    <3>1. n \in Nat /\ 0 .. n - 1 = {}
      BY <1>0
    <3> HIDE DEF g
    <3>2. QED
      BY <3>1, KeptTurnSame
  <2>2. g = [n \in 0 .. 0 |-> KeptTurn(s, g, n)]
    BY <2>1
  <2>3. QED
    BY <1>0, <2>2 DEF KeptLoop
<1>2. ASSUME NEW k \in 1 .. N, k - 1 \in Runs
      PROVE  k \in Runs
  <2>1. PICK g : KeptLoop(s, g, k - 1)
    BY <1>2
  <2> DEFINE h == [n \in 0 .. k |-> IF n = k THEN KeptTurn(s, g, k) ELSE g[n]]
  <2>2. ASSUME NEW n \in 0 .. k
        PROVE  KeptTurn(s, h, n) = KeptTurn(s, g, n)
    <3>1. n \in Nat
      BY <1>0
    <3>2. \A m \in 0 .. n - 1 : h[m] = g[m]
      BY <1>0
    <3> HIDE DEF h
    <3>3. QED
      BY <3>1, <3>2, KeptTurnSame
  <2>3. \A n \in 0 .. k - 1 : g[n] = KeptTurn(s, g, n)
    BY <2>1 DEF KeptLoop
  <2>4. ASSUME NEW n \in 0 .. k
        PROVE  h[n] = KeptTurn(s, g, n)
    <3>1. CASE n = k
      BY <3>1
    <3>2. CASE n # k
      <4>1. n \in 0 .. k - 1
        BY <1>0, <3>2
      <4>2. QED
        BY <2>3, <3>2, <4>1
    <3>3. QED
      BY <3>1, <3>2
  <2>5. h = [n \in 0 .. k |-> h[n]]
    OBVIOUS
  <2> HIDE DEF h
  <2>6. \A n \in 0 .. k : h[n] = KeptTurn(s, h, n)
    BY <2>2, <2>4
  <2>7. h = [n \in 0 .. k |-> KeptTurn(s, h, n)]
    BY <2>5, <2>6
  <2>8. QED
    BY <2>7 DEF KeptLoop
<1>3. N \in Runs
  <2> HIDE DEF Runs, N
  <2>1. 0 .. N \subseteq Runs
    BY <1>0, <1>1, <1>2, Reached
  <2>2. QED
    BY <1>0, <2>1
<1>4. PICK g : g = [n \in 0 .. Len(s) |-> KeptTurn(s, g, n)]
  BY <1>3 DEF KeptLoop
<1>5. QED
  BY <1>4, Zenon DEF KeptAfter, KeptLoop

LEMMA KeptEmpty == NonEmpty(<<>>) = <<>>
<1>1. KeptLoop(<<>>, KeptAfter(<<>>), Len(<<>>))
  <2>1. <<>> \in Seq({})
    OBVIOUS
  <2>2. QED
    BY <2>1, KeptAfterSolves, Zenon
<1>2. KeptAfter(<<>>)[0] = KeptTurn(<<>>, KeptAfter(<<>>), 0)
  BY <1>1 DEF KeptLoop
<1>3. Len(<<>>) = 0
  OBVIOUS
<1>4. QED
  BY <1>2, <1>3, KeptAfterIsUsed DEF KeptTurn

\* A field more is kept unless it is empty.
LEMMA KeptAppend ==
    ASSUME NEW S, NEW s \in Seq(S), NEW x \in S
    PROVE  NonEmpty(Append(s, x)) = Keep(NonEmpty(s), x)
<1> DEFINE t == Append(s, x)
           L == Len(s)
           f == KeptAfter(s)
           g == KeptAfter(t)
           Same == {i \in 0 .. L : g[i] = f[i]}
<1>1. /\ t \in Seq(S) /\ L \in Nat /\ Len(t) = L + 1 /\ t[L + 1] = x
      /\ \A i \in 1 .. L : t[i] = s[i]
  BY AppendProperties
<1>2. KeptLoop(s, f, L)
  BY KeptAfterSolves
<1>3. KeptLoop(t, g, L + 1)
  <2> HIDE DEF t
  <2>1. KeptLoop(t, g, Len(t))
    BY <1>1, KeptAfterSolves
  <2>2. QED
    BY <1>1, <2>1
<1>4. NonEmpty(s) = f[L] /\ NonEmpty(t) = g[L + 1]
  BY <1>1, KeptAfterIsUsed, Zenon
<1> HIDE DEF t, L, f, g
<1>5. \A i \in 0 .. L : f[i] = KeptTurn(s, f, i)
  BY <1>2, Zenon DEF KeptLoop
<1>6. \A i \in 0 .. L + 1 : g[i] = KeptTurn(t, g, i)
  BY <1>3, Zenon DEF KeptLoop
<1>7. 0 \in Same
  <2>1. 0 \in 0 .. L /\ 0 \in 0 .. L + 1
    BY <1>1
  <2>2. f[0] = <<>> /\ g[0] = <<>>
    BY <1>5, <1>6, <2>1 DEF KeptTurn
  <2>3. QED
    BY <2>1, <2>2
<1>8. ASSUME NEW k \in 1 .. L, k - 1 \in Same
      PROVE  k \in Same
  <2>1. k \in 0 .. L /\ k \in 0 .. L + 1 /\ k # 0
    BY <1>1
  <2>2. f[k] = Keep(f[k - 1], s[k]) /\ g[k] = Keep(g[k - 1], t[k])
    BY <1>5, <1>6, <2>1 DEF KeptTurn
  <2>3. t[k] = s[k] /\ g[k - 1] = f[k - 1]
    BY <1>1, <1>8
  <2>4. QED
    BY <2>1, <2>2, <2>3
<1>9. L \in Same
  <2> HIDE DEF Same
  <2>1. 0 .. L \subseteq Same
    BY <1>1, <1>7, <1>8, Reached, Zenon
  <2>2. QED
    BY <1>1, <2>1
<1>10. g[L + 1] = Keep(g[L], t[L + 1])
  <2>1. L + 1 \in 0 .. L + 1 /\ L + 1 # 0 /\ (L + 1) - 1 = L
    BY <1>1
  <2>2. QED
    BY <1>6, <2>1 DEF KeptTurn
<1>11. QED
  BY <1>1, <1>4, <1>9, <1>10 DEF t

-----------------------------------------------------------------------------
(***************************************************************************)
(* The pieces of a text with one more character.                           *)
(***************************************************************************)
PieceTurn(s, g, n) ==
    LET start == {i \in Len(s) - n + 1 .. Len(s) : s[i] # "~"}
        end == Find(s, <<"~">>, Min(start))
    IN  IF start = {} THEN <<>>
        ELSE IF end = 0 THEN <<SubSeq(s, Min(start), Len(s))>>
        ELSE <<SubSeq(s, Min(start), end - 1)>> \o g[Len(s) - end]

PieceRest(s) == CHOOSE f : f = [n \in 0 .. Len(s) |-> PieceTurn(s, f, n)]

PieceLoop(s, g, k) == g = [n \in 0 .. k |-> PieceTurn(s, g, n)]

\* The loop of StrProc is the solution that PieceRest chooses.
LEMMA PieceRestIsUsed ==
    ASSUME NEW s
    PROVE  Pieces(s) = PieceRest(s)[Len(s)]
BY DEF Pieces, PieceRest, PieceTurn

\* From a place on there are only ~, or a piece begins at a.
OnlyTildes(s, from) == \A i \in from .. Len(s) : s[i] = "~"

BeginsAt(s, from, a) ==
    a \in from .. Len(s) /\ s[a] # "~" /\ \A i \in from .. a - 1 : s[i] = "~"

One(p) == <<p>>

\* What is left is tildes, or there is a first character of a piece.
LEMMA TildesOrPiece ==
    ASSUME NEW S, NEW s \in Seq(S), NEW from \in 1 .. Len(s) + 1
    PROVE  OnlyTildes(s, from) \/ \E a : BeginsAt(s, from, a)
<1> DEFINE At == {i \in from .. Len(s) : s[i] # "~"}
<1>1. Len(s) \in Nat /\ from \in Nat
  OBVIOUS
<1>2. CASE At = {}
  BY <1>2 DEF OnlyTildes
<1>3. CASE At # {}
  <2>1. At \in SUBSET Nat
    BY <1>1
  <2>2. PICK a \in At : \A m \in At : a <= m
    <3> HIDE DEF At
    <3>1. QED
      BY <1>3, <2>1, Least
  <2>3. ASSUME NEW i \in from .. a - 1
        PROVE  s[i] = "~"
    BY <1>1, <2>2
  <2>4. QED
    BY <2>2, <2>3 DEF BeginsAt
<1>4. QED
  BY <1>2, <1>3

LEMMA PieceTurnNone ==
    ASSUME NEW s, NEW g, NEW n, OnlyTildes(s, Len(s) - n + 1)
    PROVE  PieceTurn(s, g, n) = <<>>
BY DEF PieceTurn, OnlyTildes

\* find_first_not_of finds where the piece begins.
LEMMA BeginIsMin ==
    ASSUME NEW S, NEW s \in Seq(S), NEW from \in 1 .. Len(s) + 1, NEW a, BeginsAt(s, from, a)
    PROVE  LET start == {i \in from .. Len(s) : s[i] # "~"}
           IN  start # {} /\ Min(start) = a
<1> DEFINE start == {i \in from .. Len(s) : s[i] # "~"}
<1>1. Len(s) \in Nat /\ from \in Nat
  OBVIOUS
<1>2. a \in start /\ a \in Nat
  BY <1>1 DEF BeginsAt
<1>3. \A m \in start : a <= m
  <2> SUFFICES ASSUME NEW m \in start, m < a
               PROVE  FALSE
    BY <1>1, <1>2
  <2>1. m \in from .. a - 1
    BY <1>1, <1>2
  <2>2. QED
    BY <2>1 DEF BeginsAt
<1>4. \A m \in start : m \in Nat
  BY <1>1
<1> HIDE DEF start
<1>5. Min(start) \in start /\ \A m \in start : Min(start) <= m
  <2>1. \E b \in start : \A m \in start : b <= m
    BY <1>2, <1>3
  <2>2. QED
    BY <2>1 DEF Min
<1>6. Min(start) = a
  <2>1. Min(start) \in Nat /\ Min(start) <= a /\ a <= Min(start)
    BY <1>2, <1>3, <1>4, <1>5, Zenon
  <2>2. QED
    BY <1>2, <2>1
<1>7. QED
  BY <1>2, <1>6 DEF start

\* The piece that no tilde ends is the last one.
LEMMA PieceTurnLast ==
    ASSUME NEW S, NEW s \in Seq(S), NEW g, NEW n \in 0 .. Len(s), NEW a,
           BeginsAt(s, Len(s) - n + 1, a), NoneFrom(s, "~", a)
    PROVE  PieceTurn(s, g, n) = One(SubSeq(s, a, Len(s)))
<1> DEFINE start == {i \in Len(s) - n + 1 .. Len(s) : s[i] # "~"}
<1>1. Len(s) - n + 1 \in 1 .. Len(s) + 1
  OBVIOUS
<1>2. start # {} /\ Min(start) = a
  BY <1>1, BeginIsMin
<1>3. a \in 1 .. Len(s) + 1
  BY <1>1 DEF BeginsAt
<1>4. Find(s, <<"~">>, a) = 0
  BY <1>3, FindOne DEF NoneFrom
<1>5. PieceTurn(s, g, n) = IF start = {} THEN <<>>
        ELSE IF Find(s, <<"~">>, Min(start)) = 0 THEN <<SubSeq(s, Min(start), Len(s))>>
        ELSE <<SubSeq(s, Min(start), Find(s, <<"~">>, Min(start)) - 1)>> \o g[Len(s) - Find(s, <<"~">>, Min(start))]
  BY DEF PieceTurn
<1> HIDE DEF start
<1>6. QED
  BY <1>2, <1>4, <1>5 DEF One

\* The first place is the one that Find gives.
LEMMA FirstIsFound ==
    ASSUME NEW S, NEW s \in Seq(S), NEW c, NEW from \in 1 .. Len(s) + 1, NEW j, FirstAt(s, c, from, j)
    PROVE  Find(s, <<c>>, from) = j /\ j # 0
<1> DEFINE k == Find(s, <<c>>, from)
<1>1. \/ k = 0 /\ \A i \in from .. Len(s) : s[i] # c
      \/ k \in from .. Len(s) /\ s[k] = c /\ \A i \in from .. k - 1 : s[i] # c
  BY FindOne
<1>2. j \in from .. Len(s) /\ s[j] = c /\ \A i \in from .. j - 1 : s[i] # c
  BY DEF FirstAt
<1> HIDE DEF k
<1>3. k # 0 /\ k \in from .. Len(s) /\ s[k] = c /\ \A i \in from .. k - 1 : s[i] # c
  BY <1>1, <1>2
<1>4. ~(k < j) /\ ~(j < k)
  BY <1>2, <1>3
<1>5. k = j
  BY <1>2, <1>3, <1>4
<1>6. QED
  BY <1>3, <1>5 DEF k

\* A piece with a tilde behind it, and the rest of the loop.
LEMMA PieceTurnMore ==
    ASSUME NEW S, NEW s \in Seq(S), NEW g, NEW n \in 0 .. Len(s), NEW a, NEW e,
           BeginsAt(s, Len(s) - n + 1, a), FirstAt(s, "~", a, e)
    PROVE  PieceTurn(s, g, n) = Cat(One(SubSeq(s, a, e - 1)), g[Len(s) - e])
<1> DEFINE start == {i \in Len(s) - n + 1 .. Len(s) : s[i] # "~"}
<1>1. Len(s) - n + 1 \in 1 .. Len(s) + 1
  OBVIOUS
<1>2. start # {} /\ Min(start) = a
  BY <1>1, BeginIsMin
<1>3. a \in 1 .. Len(s) + 1
  BY <1>1 DEF BeginsAt
<1>4. Find(s, <<"~">>, a) = e /\ e # 0
  BY <1>3, FirstIsFound
<1>5. PieceTurn(s, g, n) = IF start = {} THEN <<>>
        ELSE IF Find(s, <<"~">>, Min(start)) = 0 THEN <<SubSeq(s, Min(start), Len(s))>>
        ELSE <<SubSeq(s, Min(start), Find(s, <<"~">>, Min(start)) - 1)>> \o g[Len(s) - Find(s, <<"~">>, Min(start))]
  BY DEF PieceTurn
<1> HIDE DEF start
<1>6. QED
  BY <1>2, <1>4, <1>5, Zenon DEF One, Cat

\* The three cases of a turn.
LEMMA PieceCases ==
    ASSUME NEW S, NEW s \in Seq(S), NEW from \in 1 .. Len(s) + 1
    PROVE  \/ OnlyTildes(s, from)
           \/ \E a : BeginsAt(s, from, a) /\ NoneFrom(s, "~", a)
           \/ \E a, e : BeginsAt(s, from, a) /\ FirstAt(s, "~", a, e)
<1>1. CASE OnlyTildes(s, from)
  BY <1>1
<1>2. ASSUME NEW a, BeginsAt(s, from, a)
      PROVE  \/ \E b : BeginsAt(s, from, b) /\ NoneFrom(s, "~", b)
             \/ \E b, e : BeginsAt(s, from, b) /\ FirstAt(s, "~", b, e)
  <2>1. a \in 1 .. Len(s) + 1
    BY <1>2 DEF BeginsAt
  <2>2. NoneFrom(s, "~", a) \/ FirstAt(s, "~", a, Find(s, <<"~">>, a))
    BY <2>1, NoneOrFirst
  <2>3. QED
    BY <1>2, <2>2
<1>3. QED
  BY <1>1, <1>2, TildesOrPiece

\* A turn looks back at earlier ones only.
LEMMA PieceTurnSame ==
    ASSUME NEW S, NEW s \in Seq(S), NEW g, NEW h, NEW n \in 0 .. Len(s),
           \A m \in 0 .. n - 1 : g[m] = h[m]
    PROVE  PieceTurn(s, g, n) = PieceTurn(s, h, n)
<1>1. PICK from \in 1 .. Len(s) + 1 : from = Len(s) - n + 1
  OBVIOUS
<1>2. CASE OnlyTildes(s, from)
  BY <1>1, <1>2, PieceTurnNone
<1>3. ASSUME NEW a, BeginsAt(s, from, a), NoneFrom(s, "~", a)
      PROVE  PieceTurn(s, g, n) = PieceTurn(s, h, n)
  BY <1>1, <1>3, PieceTurnLast
<1>4. ASSUME NEW a, NEW e, BeginsAt(s, from, a), FirstAt(s, "~", a, e)
      PROVE  PieceTurn(s, g, n) = PieceTurn(s, h, n)
  <2>1. PieceTurn(s, g, n) = Cat(One(SubSeq(s, a, e - 1)), g[Len(s) - e])
    BY <1>1, <1>4, PieceTurnMore
  <2>2. PieceTurn(s, h, n) = Cat(One(SubSeq(s, a, e - 1)), h[Len(s) - e])
    BY <1>1, <1>4, PieceTurnMore
  <2>3. Len(s) - e \in 0 .. n - 1
    BY <1>1, <1>4 DEF BeginsAt, FirstAt
  <2>4. QED
    BY <2>1, <2>2, <2>3
<1>5. QED
  BY <1>2, <1>3, <1>4, PieceCases

\* The loop of StrProc has a solution, and PieceRest is one.
LEMMA PieceRestSolves ==
    ASSUME NEW S, NEW s \in Seq(S)
    PROVE  PieceLoop(s, PieceRest(s), Len(s))
<1> DEFINE N == Len(s)
           Runs == {k \in 0 .. N : \E g : PieceLoop(s, g, k)}
<1>0. N \in Nat
  OBVIOUS
<1>1. 0 \in Runs
  <2> DEFINE g == [n \in 0 .. 0 |-> PieceTurn(s, <<>>, n)]
  <2>1. ASSUME NEW n \in 0 .. 0
        PROVE  PieceTurn(s, g, n) = PieceTurn(s, <<>>, n)
    <3>1. n \in 0 .. Len(s) /\ 0 .. n - 1 = {}
      BY <1>0
    <3> HIDE DEF g
    <3>2. QED
      BY <3>1, PieceTurnSame
  <2>2. g = [n \in 0 .. 0 |-> PieceTurn(s, g, n)]
    BY <2>1
  <2>3. QED
    BY <1>0, <2>2 DEF PieceLoop
<1>2. ASSUME NEW k \in 1 .. N, k - 1 \in Runs
      PROVE  k \in Runs
  <2>1. PICK g : PieceLoop(s, g, k - 1)
    BY <1>2
  <2> DEFINE h == [n \in 0 .. k |-> IF n = k THEN PieceTurn(s, g, k) ELSE g[n]]
  <2>2. ASSUME NEW n \in 0 .. k
        PROVE  PieceTurn(s, h, n) = PieceTurn(s, g, n)
    <3>1. n \in 0 .. Len(s)
      BY <1>0
    <3>2. \A m \in 0 .. n - 1 : h[m] = g[m]
      BY <1>0
    <3> HIDE DEF h
    <3>3. QED
      BY <3>1, <3>2, PieceTurnSame
  <2>3. \A n \in 0 .. k - 1 : g[n] = PieceTurn(s, g, n)
    BY <2>1 DEF PieceLoop
  <2>4. ASSUME NEW n \in 0 .. k
        PROVE  h[n] = PieceTurn(s, g, n)
    <3>1. CASE n = k
      BY <3>1
    <3>2. CASE n # k
      <4>1. n \in 0 .. k - 1
        BY <1>0, <3>2
      <4>2. QED
        BY <2>3, <3>2, <4>1
    <3>3. QED
      BY <3>1, <3>2
  <2>5. h = [n \in 0 .. k |-> h[n]]
    OBVIOUS
  <2> HIDE DEF h
  <2>6. \A n \in 0 .. k : h[n] = PieceTurn(s, h, n)
    BY <2>2, <2>4
  <2>7. h = [n \in 0 .. k |-> PieceTurn(s, h, n)]
    BY <2>5, <2>6
  <2>8. QED
    BY <2>7 DEF PieceLoop
<1>3. N \in Runs
  <2> HIDE DEF Runs, N
  <2>1. 0 .. N \subseteq Runs
    BY <1>0, <1>1, <1>2, Reached
  <2>2. QED
    BY <1>0, <2>1
<1>4. PICK g : g = [n \in 0 .. Len(s) |-> PieceTurn(s, g, n)]
  BY <1>3 DEF PieceLoop
<1>5. QED
  BY <1>4, Zenon DEF PieceRest, PieceLoop

LEMMA OneType ==
    ASSUME NEW S, NEW p \in S
    PROVE  One(p) \in Seq(S)
BY DEF One

LEMMA PartType ==
    ASSUME NEW S, NEW s \in Seq(S), NEW a \in 1 .. Len(s) + 1, NEW b \in a - 1 .. Len(s)
    PROVE  SubSeq(s, a, b) \in Seq(S)
<1>1. Len(s) \in Nat
  OBVIOUS
<1>2. a \in Int /\ b \in Int /\ \A i \in a .. b : i \in 1 .. Len(s)
  BY <1>1
<1>3. \A i \in a .. b : s[i] \in S
  BY <1>2
<1>4. QED
  BY <1>2, <1>3, SubSeqProperties

\* The pieces of a text are texts.
LEMMA PieceType ==
    ASSUME NEW S, NEW s \in Seq(S), NEW n \in 0 .. Len(s)
    PROVE  PieceRest(s)[n] \in Seq(Seq(S))
<1> DEFINE f == PieceRest(s)
           Good == {k \in 0 .. Len(s) : \A m \in 0 .. k : f[m] \in Seq(Seq(S))}
<1>0. Len(s) \in Nat
  OBVIOUS
<1>a. PieceLoop(s, f, Len(s))
  BY PieceRestSolves
<1> HIDE DEF f
<1>1. \A k \in 0 .. Len(s) : f[k] = PieceTurn(s, f, k)
  BY <1>a DEF PieceLoop
<1>2. ASSUME NEW k \in 0 .. Len(s), \A m \in 0 .. k - 1 : f[m] \in Seq(Seq(S))
      PROVE  f[k] \in Seq(Seq(S))
  <2>0. f[k] = PieceTurn(s, f, k)
    BY <1>1
  <2>1. PICK from \in 1 .. Len(s) + 1 : from = Len(s) - k + 1
    <3>1. Len(s) - k + 1 \in 1 .. Len(s) + 1
      BY <1>0
    <3>2. QED
      BY <3>1, Zenon
  <2>2. CASE OnlyTildes(s, from)
    <3>1. f[k] = <<>>
      BY <2>0, <2>1, <2>2, PieceTurnNone
    <3>2. QED
      BY <3>1
  <2>3. ASSUME NEW a, BeginsAt(s, from, a), NoneFrom(s, "~", a)
        PROVE  f[k] \in Seq(Seq(S))
    <3>1. f[k] = One(SubSeq(s, a, Len(s)))
      BY <2>0, <2>1, <2>3, PieceTurnLast
    <3>2. a \in 1 .. Len(s) + 1 /\ Len(s) \in a - 1 .. Len(s)
      BY <1>0, <2>1, <2>3 DEF BeginsAt
    <3>3. SubSeq(s, a, Len(s)) \in Seq(S)
      BY <3>2, PartType
    <3>4. QED
      BY <3>1, <3>3, OneType, Zenon
  <2>4. ASSUME NEW a, NEW e, BeginsAt(s, from, a), FirstAt(s, "~", a, e)
        PROVE  f[k] \in Seq(Seq(S))
    <3>1. f[k] = Cat(One(SubSeq(s, a, e - 1)), f[Len(s) - e])
      BY <2>0, <2>1, <2>4, PieceTurnMore
    <3>2. a \in 1 .. Len(s) + 1 /\ e - 1 \in a - 1 .. Len(s) /\ Len(s) - e \in 0 .. k - 1
      BY <1>0, <2>1, <2>4 DEF BeginsAt, FirstAt
    <3>3. One(SubSeq(s, a, e - 1)) \in Seq(Seq(S))
      <4>1. PICK b \in a - 1 .. Len(s) : b = e - 1
        BY <3>2
      <4>2. SubSeq(s, a, b) \in Seq(S)
        BY <3>2, PartType
      <4>3. QED
        BY <4>1, <4>2, OneType, Zenon
    <3>4. f[Len(s) - e] \in Seq(Seq(S))
      BY <1>2, <3>2
    <3>5. QED
      BY <3>1, <3>3, <3>4, CatType
  <2>5. QED
    BY <2>2, <2>3, <2>4, PieceCases
<1>3. 0 \in Good
  BY <1>0, <1>2
<1>4. ASSUME NEW k \in 1 .. Len(s), k - 1 \in Good
      PROVE  k \in Good
  <2>1. f[k] \in Seq(Seq(S))
    BY <1>0, <1>2, <1>4
  <2>2. \A m \in 0 .. k : m = k \/ m \in 0 .. k - 1
    BY <1>0
  <2>3. QED
    BY <1>0, <1>4, <2>1, <2>2
<1>5. Len(s) \in Good
  <2> HIDE DEF Good
  <2>1. 0 .. Len(s) \subseteq Good
    BY <1>0, <1>3, <1>4, Reached, Zenon
  <2>2. QED
    BY <1>0, <2>1
<1>6. QED
  BY <1>0, <1>5 DEF f

\* q is p with x behind the last of its texts.
Longer(S, p, x, q) ==
    \E h \in Seq(Seq(S)), w \in Seq(S) : p = Append(h, w) /\ q = Append(h, Append(w, x))

\* Concatenation and a character or a piece at the end.
LEMMA CatAppend ==
    ASSUME NEW S, NEW s \in Seq(S), NEW t \in Seq(S), NEW x \in S
    PROVE  Cat(s, Append(t, x)) = Append(Cat(s, t), x)
<1>1. One(x) \in Seq(S)
  BY OneType
<1>2. Append(t, x) = Cat(t, One(x))
  BY CatOne DEF One
<1>3. Cat(s, t) \in Seq(S)
  BY CatType
<1>4. Append(Cat(s, t), x) = Cat(Cat(s, t), One(x))
  BY <1>3, CatOne DEF One
<1>5. QED
  BY <1>1, <1>2, <1>4, CatAssociative

LEMMA CatAppendText ==
    ASSUME NEW S
    PROVE  \A y, h, w : y \in Seq(Seq(S)) /\ h \in Seq(Seq(S)) /\ w \in Seq(S)
                        => Cat(y, Append(h, w)) = Append(Cat(y, h), w)
<1> TAKE y, h, w
<1> HAVE y \in Seq(Seq(S)) /\ h \in Seq(Seq(S)) /\ w \in Seq(S)
<1>1. PICK T : T = Seq(S)
  OBVIOUS
<1>2. y \in Seq(T) /\ h \in Seq(T) /\ w \in T
  BY <1>1
<1>3. \A a, b, c : a \in Seq(T) /\ b \in Seq(T) /\ c \in T => Cat(a, Append(b, c)) = Append(Cat(a, b), c)
  BY CatAppend
<1>4. QED
  BY <1>2, <1>3

LEMMA EmptyCat ==
    ASSUME NEW S, NEW s \in Seq(S)
    PROVE  Cat(<<>>, s) = s
BY ConcatEmptySeq DEF Cat

\* The last piece gets a character more, whatever is before it.
LEMMA LongerOne ==
    ASSUME NEW S, NEW w \in Seq(S), NEW x \in S
    PROVE  Longer(S, One(w), x, One(Append(w, x)))
<1>1. <<>> \in Seq(Seq(S)) /\ Append(w, x) \in Seq(S)
  OBVIOUS
<1>2. ASSUME NEW v \in Seq(S)
      PROVE  One(v) = Append(<<>>, v)
  BY DEF One
<1>3. QED
  BY <1>1, <1>2, Zenon DEF Longer

LEMMA LongerCat ==
    ASSUME NEW S, NEW y \in Seq(Seq(S)), NEW p, NEW x \in S, NEW q, Longer(S, p, x, q)
    PROVE  Longer(S, Cat(y, p), x, Cat(y, q))
<1>1. PICK h \in Seq(Seq(S)), w \in Seq(S) : p = Append(h, w) /\ q = Append(h, Append(w, x))
  BY Zenon DEF Longer
<1>2. PICK k \in Seq(Seq(S)) : k = Cat(y, h)
  BY CatType
<1>3. PICK v \in Seq(S) : v = Append(w, x)
  <2>1. Append(w, x) \in Seq(S)
    OBVIOUS
  <2>2. QED
    BY <2>1, Zenon
<1>4. Cat(y, Append(h, w)) = Append(k, w) /\ Cat(y, Append(h, v)) = Append(k, v)
  BY <1>2, CatAppendText
<1>5. QED
  BY <1>1, <1>3, <1>4, Zenon DEF Longer

\* What a character behind the text does to the pieces of its last n characters.
Piecewise(S, s, x, n, p, q) ==
    IF x = "~" THEN q = p
    ELSE IF n > 0 /\ s[Len(s)] # "~" THEN Longer(S, p, x, q)
    ELSE q = Append(p, One(x))

\* A character more in the text: a tilde changes no piece, any other makes the last
\* one longer or begins one (rl_str_proc.cc:46-54).
LEMMA PieceAppend ==
    ASSUME NEW S, NEW s \in Seq(S), NEW x \in S
    PROVE  Piecewise(S, s, x, Len(s), Pieces(s), Pieces(Append(s, x)))
<1> DEFINE t == Append(s, x)
           L == Len(s)
           f == PieceRest(s)
           g == PieceRest(t)
           Good == {n \in 0 .. L : \A m \in 0 .. n : Piecewise(S, s, x, m, f[m], g[m + 1])}
<1>1. /\ t \in Seq(S) /\ L \in Nat /\ Len(t) = L + 1 /\ t[L + 1] = x
      /\ \A i \in 1 .. L : t[i] = s[i]
  BY AppendProperties
<1>2. Len(s) = L
  OBVIOUS
<1>3. PieceLoop(s, f, L)
  BY PieceRestSolves
<1>4. PieceLoop(t, g, L + 1)
  <2> HIDE DEF t
  <2>1. PieceLoop(t, g, Len(t))
    BY <1>1, PieceRestSolves
  <2>2. QED
    BY <1>1, <2>1
<1>5. \A n \in 0 .. L : f[n] \in Seq(Seq(S))
  BY PieceType
<1>6. \A a \in 1 .. L + 1 : \A b \in a - 1 .. L : SubSeq(t, a, b) = SubSeq(s, a, b)
  BY AppendSub
<1>7. Pieces(s) = f[L] /\ Pieces(t) = g[L + 1]
  BY <1>1, PieceRestIsUsed, Zenon
<1> HIDE DEF t, L, f, g
<1>8. \A n \in 0 .. L : f[n] = PieceTurn(s, f, n)
  BY <1>3, Zenon DEF PieceLoop
<1>9. \A n \in 0 .. L + 1 : g[n] = PieceTurn(t, g, n)
  BY <1>4, Zenon DEF PieceLoop
<1>10. g[0] = <<>>
  <2>1. OnlyTildes(t, Len(t) - 0 + 1)
    BY <1>1 DEF OnlyTildes
  <2>2. 0 \in 0 .. L + 1
    BY <1>1
  <2>3. QED
    BY <1>9, <2>1, <2>2, PieceTurnNone
<1>11. ASSUME NEW n \in 0 .. L, \A m \in 0 .. n - 1 : Piecewise(S, s, x, m, f[m], g[m + 1])
       PROVE  Piecewise(S, s, x, n, f[n], g[n + 1])
  <2>0. PICK from \in 1 .. L + 1 : from = L - n + 1
    BY <1>1
  <2>1. PICK k \in 0 .. L + 1 : k = n + 1
    BY <1>1
  <2>2. /\ from = Len(s) - n + 1 /\ from = Len(t) - k + 1
        /\ from \in 1 .. Len(s) + 1 /\ n \in 0 .. Len(s) /\ k \in 0 .. Len(t)
    BY <1>1, <1>2, <2>0, <2>1
  <2>3. f[n] = PieceTurn(s, f, n) /\ g[k] = PieceTurn(t, g, k)
    BY <1>1, <1>8, <1>9
  <2>8. ASSUME NEW a, NEW e, BeginsAt(t, from, a), FirstAt(t, "~", a, e)
        PROVE  g[k] = Cat(One(SubSeq(t, a, e - 1)), g[Len(t) - e])
    <3>1. BeginsAt(t, Len(t) - k + 1, a)
      BY <2>2, <2>8
    <3>2. PieceTurn(t, g, k) = Cat(One(SubSeq(t, a, e - 1)), g[Len(t) - e])
      <4>1. t \in Seq(S) /\ k \in 0 .. Len(t)
        BY <1>1, <2>2
      <4>2. QED
        BY <2>8, <3>1, <4>1, PieceTurnMore
    <3>3. QED
      BY <2>3, <3>2
  <2>4. CASE OnlyTildes(s, from)
    <3>1. f[n] = <<>>
      BY <2>2, <2>3, <2>4, PieceTurnNone, Zenon
    <3>2. \A i \in from .. L : s[i] = "~" /\ t[i] = "~"
      BY <1>1, <1>2, <2>0, <2>4 DEF OnlyTildes
    <3>3. CASE x = "~"
      <4>1. OnlyTildes(t, from)
        <5>1. \A i \in from .. Len(t) : i \in from .. L \/ i = L + 1
          BY <1>1, <2>0
        <5>2. QED
          BY <1>1, <3>2, <3>3, <5>1 DEF OnlyTildes
      <4>2. g[k] = <<>>
        BY <2>2, <2>3, <4>1, PieceTurnNone
      <4>3. QED
        BY <2>1, <3>1, <3>3, <4>2 DEF Piecewise
    <3>4. CASE x # "~"
      <4>0. PICK a : a = L + 1
        OBVIOUS
      <4>1. BeginsAt(t, from, a) /\ NoneFrom(t, "~", a)
        BY <1>1, <2>0, <3>2, <3>4, <4>0 DEF BeginsAt, NoneFrom
      <4>2. g[k] = One(SubSeq(t, a, Len(t)))
        BY <1>1, <2>2, <2>3, <4>1, PieceTurnLast, Zenon
      <4>3. SubSeq(t, L + 1, L + 1) = <<x>>
        <5>1. L + 1 \in 1 .. Len(t)
          BY <1>1
        <5>2. QED
          BY <1>1, <5>1, OneLong
      <4>4. g[k] = One(One(x))
        BY <1>1, <4>0, <4>2, <4>3 DEF One
      <4>5. ~(n > 0 /\ s[Len(s)] # "~")
        BY <1>1, <1>2, <2>0, <3>2
      <4>6. Append(<<>>, One(x)) = One(One(x))
        BY DEF One
      <4>7. QED
        BY <2>1, <3>1, <3>4, <4>4, <4>5, <4>6 DEF Piecewise
    <3>5. QED
      BY <3>3, <3>4
  <2>5. ASSUME NEW a, BeginsAt(s, from, a), NoneFrom(s, "~", a)
        PROVE  Piecewise(S, s, x, n, f[n], g[n + 1])
    <3>1. f[n] = One(SubSeq(s, a, L))
      BY <1>2, <2>2, <2>3, <2>5, PieceTurnLast, Zenon
    <3>2. a \in from .. L /\ s[a] # "~" /\ \A i \in from .. a - 1 : s[i] = "~"
      BY <1>2, <2>5 DEF BeginsAt
    <3>3. \A i \in a .. L : s[i] # "~"
      BY <1>2, <2>5 DEF NoneFrom
    <3>4. BeginsAt(t, from, a)
      <4>1. a \in from .. Len(t) /\ a \in 1 .. L
        BY <1>1, <2>0, <3>2
      <4>2. \A i \in from .. a - 1 : i \in 1 .. L
        BY <1>1, <2>0, <3>2
      <4>3. QED
        BY <1>1, <3>2, <4>1, <4>2 DEF BeginsAt
    <3>5. SubSeq(t, a, L) = SubSeq(s, a, L) /\ SubSeq(s, a, L) \in Seq(S)
      <4>1. a \in 1 .. L + 1 /\ L \in a - 1 .. L
        BY <1>1, <2>0, <3>2
      <4>2. QED
        BY <1>2, <1>6, <4>1, PartType
    <3>6. CASE x = "~"
      <4>0. PICK e : e = L + 1
        OBVIOUS
      <4>1. FirstAt(t, "~", a, e)
        <5>1. e \in a .. Len(t) /\ t[e] = "~"
          BY <1>1, <2>0, <3>2, <3>6, <4>0
        <5>2. \A i \in a .. e - 1 : i \in a .. L /\ i \in 1 .. L
          BY <1>1, <2>0, <3>2, <4>0
        <5>3. QED
          BY <1>1, <3>3, <5>1, <5>2 DEF FirstAt
      <4>2. g[k] = Cat(One(SubSeq(t, a, e - 1)), g[Len(t) - e])
        BY <2>8, <3>4, <4>1
      <4>3. e - 1 = L /\ Len(t) - e = 0
        BY <1>1, <4>0
      <4>4. g[k] = Cat(One(SubSeq(s, a, L)), <<>>)
        BY <1>10, <3>5, <4>2, <4>3, Zenon
      <4>5. One(SubSeq(s, a, L)) \in Seq(Seq(S))
        BY <3>5, OneType, Zenon
      <4>6. g[k] = f[n]
        BY <3>1, <4>4, <4>5, CatEmpty, Zenon
      <4>7. QED
        BY <2>1, <3>6, <4>6 DEF Piecewise
    <3>7. CASE x # "~"
      <4>1. NoneFrom(t, "~", a)
        <5>1. \A i \in a .. Len(t) : (i \in a .. L /\ i \in 1 .. L) \/ i = L + 1
          BY <1>1, <2>0, <3>2
        <5>2. QED
          BY <1>1, <3>3, <3>7, <5>1 DEF NoneFrom
      <4>2. g[k] = One(SubSeq(t, a, Len(t)))
        BY <1>1, <2>2, <2>3, <3>4, <4>1, PieceTurnLast, Zenon
      <4>3. SubSeq(t, a, Len(t)) = Append(SubSeq(s, a, L), x)
        <5>1. a \in 1 .. Len(t) /\ L + 1 \in a .. Len(t)
          BY <1>1, <2>0, <3>2
        <5>2. PICK e \in a .. Len(t) : e = L + 1
          BY <5>1
        <5>3. SubSeq(t, a, e) = Cat(SubSeq(t, a, e - 1), <<t[e]>>)
          BY <1>1, <5>1, SubSeqRecursiveSecond, Zenon DEF Cat
        <5>4. e - 1 = L /\ t[e] = x /\ e = Len(t)
          BY <1>1, <5>2
        <5>5. SubSeq(t, a, Len(t)) = Cat(SubSeq(s, a, L), <<x>>)
          BY <3>5, <5>3, <5>4, Zenon
        <5>6. QED
          BY <3>5, <5>5, CatOne, Zenon
      <4>4. Longer(S, f[n], x, g[k])
        BY <3>1, <3>5, <4>2, <4>3, LongerOne, Zenon
      <4>5. n > 0 /\ s[Len(s)] # "~"
        <5>1. n > 0 /\ L \in a .. L
          BY <1>1, <2>0, <3>2
        <5>2. QED
          BY <1>2, <3>3, <5>1, Zenon
      <4>6. QED
        BY <2>1, <3>7, <4>4, <4>5 DEF Piecewise
    <3>8. QED
      BY <3>6, <3>7
  <2>6. ASSUME NEW a, NEW e, BeginsAt(s, from, a), FirstAt(s, "~", a, e)
        PROVE  Piecewise(S, s, x, n, f[n], g[n + 1])
    <3>1. a \in from .. L /\ s[a] # "~" /\ \A i \in from .. a - 1 : s[i] = "~"
      BY <1>2, <2>6 DEF BeginsAt
    <3>2. e \in a .. L /\ s[e] = "~" /\ \A i \in a .. e - 1 : s[i] # "~"
      BY <1>2, <2>6 DEF FirstAt
    <3>3. PICK m \in 0 .. n - 1 : m = L - e
      BY <1>1, <2>0, <3>1, <3>2
    <3>4. Len(s) - e = m /\ Len(t) - e = m + 1
      BY <1>1, <1>2, <2>0, <3>1, <3>2, <3>3
    <3>5. BeginsAt(t, from, a) /\ FirstAt(t, "~", a, e)
      <4>1. a \in from .. Len(t) /\ a \in 1 .. L /\ e \in a .. Len(t) /\ e \in 1 .. L
        BY <1>1, <2>0, <3>1, <3>2
      <4>2. \A i \in from .. a - 1 : i \in 1 .. L
        BY <1>1, <2>0, <3>1
      <4>3. \A i \in a .. e - 1 : i \in 1 .. L
        BY <1>1, <2>0, <3>1, <3>2
      <4>4. QED
        BY <1>1, <3>1, <3>2, <4>1, <4>2, <4>3 DEF BeginsAt, FirstAt
    <3>6. PICK y : y = One(SubSeq(s, a, e - 1))
      OBVIOUS
    <3>7. y = One(SubSeq(t, a, e - 1)) /\ y \in Seq(Seq(S))
      <4>1. PICK b \in a - 1 .. L : b = e - 1
        BY <1>1, <2>0, <3>1, <3>2
      <4>2. a \in 1 .. L + 1
        BY <1>1, <2>0, <3>1
      <4>3. SubSeq(s, a, b) \in Seq(S) /\ SubSeq(t, a, b) = SubSeq(s, a, b)
        BY <1>2, <1>6, <4>2, PartType
      <4>4. QED
        BY <3>6, <4>1, <4>3, OneType, Zenon
    <3>8. f[n] = Cat(y, f[m])
      BY <2>2, <2>3, <2>6, <3>4, <3>6, PieceTurnMore
    <3>9. g[k] = Cat(y, g[m + 1])
      BY <2>8, <3>4, <3>5, <3>7
    <3>10. Piecewise(S, s, x, m, f[m], g[m + 1])
      BY <1>11
    <3>11. m > 0 /\ s[Len(s)] # "~" <=> n > 0 /\ s[Len(s)] # "~"
      BY <1>1, <1>2, <2>0, <3>1, <3>2, <3>3
    <3>12. f[m] \in Seq(Seq(S))
      <4>1. m \in 0 .. L
        BY <1>1
      <4>2. QED
        BY <1>5, <4>1
    <3>13. CASE x = "~"
      BY <2>1, <3>8, <3>9, <3>10, <3>13 DEF Piecewise
    <3>14. CASE x # "~" /\ n > 0 /\ s[Len(s)] # "~"
      <4>1. Longer(S, f[m], x, g[m + 1])
        BY <3>10, <3>11, <3>14 DEF Piecewise
      <4>2. Longer(S, f[n], x, g[k])
        BY <3>7, <3>8, <3>9, <4>1, LongerCat
      <4>3. QED
        BY <2>1, <3>14, <4>2 DEF Piecewise
    <3>15. CASE x # "~" /\ ~(n > 0 /\ s[Len(s)] # "~")
      <4>1. g[m + 1] = Append(f[m], One(x))
        BY <3>10, <3>11, <3>15 DEF Piecewise
      <4>2. One(x) \in Seq(S)
        BY OneType
      <4>3. Cat(y, Append(f[m], One(x))) = Append(Cat(y, f[m]), One(x))
        BY <3>7, <3>12, <4>2, CatAppendText
      <4>4. QED
        BY <2>1, <3>8, <3>9, <3>15, <4>1, <4>3 DEF Piecewise
    <3>16. QED
      BY <3>13, <3>14, <3>15
  <2>7. QED
    BY <2>2, <2>4, <2>5, <2>6, PieceCases
<1>12. 0 \in Good
  BY <1>1, <1>11
<1>13. ASSUME NEW n \in 1 .. L, n - 1 \in Good
       PROVE  n \in Good
  <2>1. Piecewise(S, s, x, n, f[n], g[n + 1])
    BY <1>1, <1>11, <1>13
  <2>2. \A m \in 0 .. n : m = n \/ m \in 0 .. n - 1
    BY <1>1
  <2>3. QED
    BY <1>1, <1>13, <2>1, <2>2
<1>14. L \in Good
  <2> HIDE DEF Good
  <2>1. 0 .. L \subseteq Good
    BY <1>1, <1>12, <1>13, Reached, Zenon
  <2>2. QED
    BY <1>1, <2>1
<1>15. Piecewise(S, s, x, L, f[L], g[L + 1])
  BY <1>1, <1>14
<1>16. QED
  BY <1>2, <1>7, <1>15 DEF t

-----------------------------------------------------------------------------
(***************************************************************************)
(* The pieces are the fields that are not empty.                           *)
(***************************************************************************)
Full(h) == \A i \in DOMAIN h : h[i] # <<>>

Tilde(s, sep) == mass_replace(s, <<sep>>, One("~"))

Matched(S, s, sep, h, w) ==
    /\ h \in Seq(Seq(S)) /\ w \in Seq(S) /\ NonEmpty(h) \in Seq(Seq(S))
    /\ Split(s, sep) = Append(h, w)
    /\ Pieces(Tilde(s, sep)) = Keep(NonEmpty(h), w)
    /\ w # <<>> <=> Len(Tilde(s, sep)) > 0 /\ Tilde(s, sep)[Len(Tilde(s, sep))] # "~"
    /\ Full(h) => NonEmpty(h) = h

LEMMA LastOne ==
    ASSUME NEW S, NEW s \in Seq(S), NEW x \in S
    PROVE  Len(Append(s, x)) > 0 /\ Append(s, x)[Len(Append(s, x))] = x /\ Append(s, x) # <<>>
BY AppendProperties

\* A character more in the last field.
LEMMA ExtendAppend ==
    ASSUME NEW T
    PROVE  \A h, w, x : h \in Seq(T) /\ w \in T => Extend(Append(h, w), x) = Append(h, Append(w, x))
<1> TAKE h, w, x
<1> HAVE h \in Seq(T) /\ w \in T
<1> DEFINE f == Append(h, w)
<1>1. Len(f) = Len(h) + 1 /\ f[Len(h) + 1] = w /\ Len(h) \in Nat
  BY AppendProperties
<1>2. SubSeq(f, 1, Len(h)) = SubSeq(h, 1, Len(h))
  <2>1. 1 \in 1 .. Len(h) + 1 /\ Len(h) \in 1 - 1 .. Len(h)
    BY <1>1
  <2>2. QED
    BY <2>1, AppendSub
<1>3. SubSeq(h, 1, Len(h)) = h
  BY SubSeqFull
<1> HIDE DEF f
<1>4. Len(f) - 1 = Len(h) /\ f[Len(f)] = w
  BY <1>1
<1>5. QED
  BY <1>2, <1>3, <1>4 DEF Extend, f

\* Fields none of which is empty.
LEMMA FullParts ==
    ASSUME NEW T, NEW h \in Seq(T), NEW w \in T, Full(Append(h, w))
    PROVE  Full(h) /\ w # <<>>
<1> DEFINE k == Append(h, w)
<1>1. /\ Len(k) = Len(h) + 1 /\ k[Len(h) + 1] = w /\ Len(h) \in Nat
      /\ \A i \in 1 .. Len(h) : k[i] = h[i]
  BY AppendProperties
<1>2. DOMAIN k = 1 .. Len(h) + 1 /\ DOMAIN h = 1 .. Len(h)
  BY <1>1
<1>3. \A i \in DOMAIN k : k[i] # <<>>
  BY DEF Full
<1> HIDE DEF k
<1>4. QED
  BY <1>1, <1>2, <1>3 DEF Full

\* Fields and pieces stay matched when a separator comes.
LEMMA MatchedSep ==
    ASSUME NEW S, "~" \in S, NEW s \in Seq(S), NEW sep \in S, NEW h, NEW w, Matched(S, s, sep, h, w)
    PROVE  Matched(S, Append(s, sep), sep, Append(h, w), <<>>)
<1> DEFINE t == Append(s, sep)
           u == Tilde(s, sep)
           v == Tilde(t, sep)
           k == Append(h, w)
<1>1. h \in Seq(Seq(S)) /\ w \in Seq(S) /\ NonEmpty(h) \in Seq(Seq(S)) /\ k \in Seq(Seq(S))
  BY DEF Matched
<1>2. One("~") \in Seq(S)
  BY OneType
<1>3. u \in Seq(S)
  BY <1>2, ReplaceType DEF Tilde
<1>4. v = Append(u, "~")
  <2>1. v = Cat(u, Image(sep, sep, One("~")))
    BY <1>2, ReplaceAppend DEF Tilde
  <2>2. QED
    BY <1>3, <2>1, CatOne DEF Image, One
<1>5. Split(t, sep) = Append(k, <<>>)
  BY SplitAppend DEF SplitStep, Matched
<1>6. Pieces(v) = Pieces(u)
  BY <1>3, <1>4, PieceAppend DEF Piecewise
<1>7. NonEmpty(k) = Keep(NonEmpty(h), w)
  BY <1>1, KeptAppend
<1>8. NonEmpty(k) \in Seq(Seq(S))
  BY <1>1, <1>7 DEF Keep
<1>9. Pieces(v) = Keep(NonEmpty(k), <<>>)
  BY <1>6, <1>7 DEF Keep, Matched
<1>10. Len(v) > 0 /\ v[Len(v)] = "~"
  BY <1>3, <1>4, LastOne
<1>11. ASSUME Full(k)
       PROVE  NonEmpty(k) = k
  <2>1. PICK T : T = Seq(S)
    OBVIOUS
  <2>2. h \in Seq(T) /\ w \in T
    BY <1>1, <2>1, Zenon
  <2> HIDE DEF k
  <2>3. Full(h) /\ w # <<>>
    BY <1>11, <2>2, FullParts, Zenon DEF k
  <2>4. NonEmpty(h) = h
    BY <2>3 DEF Matched
  <2>5. QED
    BY <1>7, <2>3, <2>4 DEF Keep, k
<1>12. QED
  BY <1>1, <1>5, <1>8, <1>9, <1>10, <1>11 DEF Matched

\* They stay matched when any other character comes.
LEMMA MatchedOther ==
    ASSUME NEW S, "~" \in S, NEW s \in Seq(S), NEW sep \in S, NEW x \in S, x # sep, x # "~",
           NEW h, NEW w, Matched(S, s, sep, h, w)
    PROVE  Matched(S, Append(s, x), sep, h, Append(w, x))
<1> DEFINE t == Append(s, x)
           u == Tilde(s, sep)
           v == Tilde(t, sep)
           z == Append(w, x)
<1>1. h \in Seq(Seq(S)) /\ w \in Seq(S) /\ NonEmpty(h) \in Seq(Seq(S)) /\ z \in Seq(S)
  BY DEF Matched
<1>2. One("~") \in Seq(S)
  BY OneType
<1>3. u \in Seq(S)
  BY <1>2, ReplaceType DEF Tilde
<1>4. v = Append(u, x)
  <2>1. v = Cat(u, Image(x, sep, One("~")))
    BY <1>2, ReplaceAppend DEF Tilde
  <2>2. Image(x, sep, One("~")) = <<x>>
    BY DEF Image
  <2>3. QED
    BY <1>3, <2>1, <2>2, CatOne
<1>5. Split(t, sep) = Append(h, z)
  <2>1. Split(t, sep) = Extend(Append(h, w), x)
    <3>1. Split(t, sep) = SplitStep(Split(s, sep), x, sep)
      BY SplitAppend
    <3>2. Split(s, sep) = Append(h, w)
      BY DEF Matched
    <3>3. QED
      BY <3>1, <3>2 DEF SplitStep
  <2>2. Extend(Append(h, w), x) = Append(h, Append(w, x))
    <3>1. PICK T : T = Seq(S)
      OBVIOUS
    <3>2. h \in Seq(T) /\ w \in T
      BY <1>1, <3>1
    <3>3. QED
      BY <3>2, ExtendAppend
  <2>3. QED
    BY <2>1, <2>2
<1>6. Piecewise(S, u, x, Len(u), Pieces(u), Pieces(v))
  BY <1>3, <1>4, PieceAppend
<1>7. z # <<>> /\ Len(v) > 0 /\ v[Len(v)] = x
  <2>1. Len(v) > 0 /\ v[Len(v)] = x
    <3> HIDE DEF u, v
    <3>1. QED
      BY <1>3, <1>4, LastOne
  <2>2. z # <<>>
    BY <1>1, LastOne, Zenon
  <2>3. QED
    BY <2>1, <2>2
<1>8. Pieces(v) = Append(NonEmpty(h), z)
  <2>1. CASE w = <<>>
    <3>1. Pieces(u) = NonEmpty(h)
      BY <2>1 DEF Matched, Keep
    <3>2. ~(Len(u) > 0 /\ u[Len(u)] # "~")
      BY <2>1 DEF Matched
    <3>3. Pieces(v) = Append(NonEmpty(h), One(x))
      BY <1>6, <3>1, <3>2 DEF Piecewise
    <3>4. z = One(x)
      BY <2>1 DEF One
    <3>5. QED
      BY <3>3, <3>4
  <2>2. CASE w # <<>>
    <3>1. Pieces(u) = Append(NonEmpty(h), w)
      BY <2>2 DEF Matched, Keep
    <3>2. Len(u) > 0 /\ u[Len(u)] # "~"
      BY <2>2 DEF Matched
    <3>3. Longer(S, Pieces(u), x, Pieces(v))
      BY <1>6, <3>2 DEF Piecewise
    <3>4. PICK hh \in Seq(Seq(S)), ww \in Seq(S) :
            Pieces(u) = Append(hh, ww) /\ Pieces(v) = Append(hh, Append(ww, x))
      BY <3>3, Zenon DEF Longer
    <3>5. Append(NonEmpty(h), w) = Append(hh, ww)
      BY <3>1, <3>4
    <3>6. NonEmpty(h) = hh /\ w = ww
      BY <1>1, <3>5, AppendInjective
    <3>7. QED
      BY <3>4, <3>6
  <2>3. QED
    BY <2>1, <2>2
<1>9. Pieces(v) = Keep(NonEmpty(h), z)
  BY <1>7, <1>8 DEF Keep
<1>10. QED
  BY <1>1, <1>5, <1>7, <1>9 DEF Matched

\* They are matched to begin with.
LEMMA MatchedEmpty ==
    ASSUME NEW S, "~" \in S, NEW sep
    PROVE  Matched(S, <<>>, sep, <<>>, <<>>)
<1>1. Tilde(<<>>, sep) = <<>>
  BY ReplaceEmpty DEF Tilde
<1>2. Pieces(<<>>) = <<>>
  <2>1. PieceLoop(<<>>, PieceRest(<<>>), Len(<<>>))
    <3>1. <<>> \in Seq({})
      OBVIOUS
    <3>2. QED
      BY <3>1, PieceRestSolves, Zenon
  <2>2. PieceRest(<<>>)[0] = PieceTurn(<<>>, PieceRest(<<>>), 0)
    BY <2>1 DEF PieceLoop
  <2>3. OnlyTildes(<<>>, Len(<<>>) - 0 + 1)
    BY DEF OnlyTildes
  <2>4. PieceTurn(<<>>, PieceRest(<<>>), 0) = <<>>
    BY <2>3, PieceTurnNone
  <2>5. Len(<<>>) = 0
    OBVIOUS
  <2>6. QED
    BY <2>2, <2>4, <2>5, PieceRestIsUsed
<1>3. NonEmpty(<<>>) = <<>>
  BY KeptEmpty
<1>4. Split(<<>>, sep) = Append(<<>>, <<>>)
  <2>1. Append(<<>>, <<>>) = << <<>> >>
    OBVIOUS
  <2>2. QED
    BY <2>1, SplitEmpty
<1>5. Keep(<<>>, <<>>) = <<>>
  BY DEF Keep
<1>6. <<>> \in Seq(Seq(S)) /\ <<>> \in Seq(S) /\ ~(Len(<<>>) > 0)
  OBVIOUS
<1>7. QED
  BY <1>1, <1>2, <1>3, <1>4, <1>5, <1>6, Zenon DEF Matched

-----------------------------------------------------------------------------
(***************************************************************************)
(* Tabs, newlines and the end of the headers.                              *)
(***************************************************************************)
Spaces == <<" ", " ", " ", " ">>

NoTab(s) == mass_replace(s, <<"\t">>, Spaces)

\* Four spaces are a text.
LEMMA FourType ==
    ASSUME NEW S, NEW b, b \in S
    PROVE  <<b, b, b, b>> \in Seq(S)
OBVIOUS

LEMMA SpacesType ==
    ASSUME NEW S, " " \in S
    PROVE  Spaces \in Seq(S)
BY FourType, Zenon DEF Spaces

\* A character that is not looked for stays.
LEMMA OtherStays ==
    ASSUME NEW S, NEW s \in Seq(S), NEW x \in S, NEW c, x # c, NEW r \in Seq(S),
           mass_replace(s, <<c>>, r) = s
    PROVE  mass_replace(Append(s, x), <<c>>, r) = Append(s, x)
<1>1. mass_replace(Append(s, x), <<c>>, r) = Cat(mass_replace(s, <<c>>, r), Image(x, c, r))
  BY ReplaceAppend
<1>2. Image(x, c, r) = <<x>>
  BY DEF Image
<1>3. QED
  BY <1>1, <1>2, CatOne, Zenon

\* A text without tabs is not changed by the replacement of tabs.
LEMMA NoTabAppend ==
    ASSUME NEW S, Spaces \in Seq(S), NEW s \in Seq(S), NEW x \in S, NoTab(s) = s
    PROVE  x # "\t" => NoTab(Append(s, x)) = Append(s, x)
<1>1. PICK c : c = "\t"
  OBVIOUS
<1>2. mass_replace(s, <<c>>, Spaces) = s
  BY <1>1 DEF NoTab
<1>3. x # c => mass_replace(Append(s, x), <<c>>, Spaces) = Append(s, x)
  BY <1>2, OtherStays
<1>4. QED
  BY <1>1, <1>3 DEF NoTab

\* Taking off the last character.
LEMMA WithoutLast ==
    ASSUME NEW S, NEW t \in Seq(S), NEW n \in Nat, Len(t) = n
    PROVE  Without(t, n) = SubSeq(t, 1, n - 1)
<1>1. Without(t, n) = Cat(SubSeq(t, 1, n - 1), SubSeq(t, n + 1, Len(t)))
  BY DEF Without, Cat
<1>2. SubSeq(t, n + 1, Len(t)) = <<>>
  BY SubSeqEmpty
<1>3. SubSeq(t, 1, n - 1) \in Seq(S)
  <2>1. \A i \in 1 .. n - 1 : t[i] \in S
    OBVIOUS
  <2>2. 1 \in Int /\ n - 1 \in Int
    OBVIOUS
  <2>3. QED
    BY <2>1, <2>2, SubSeqProperties
<1>4. QED
  BY <1>1, <1>2, <1>3, CatEmpty, Zenon

\* The newline at the end of a line is taken off when there is no other.
LEMMA NewlineOff ==
    ASSUME NEW S, "\n" \in S, NEW s \in Seq(S), Free(s, {"\n"})
    PROVE  OnlyNewline(Append(s, "\n")) = s
<1> DEFINE t == Append(s, "\n")
           L == Len(s)
<1>1. /\ t \in Seq(S) /\ L \in Nat /\ Len(t) = L + 1 /\ t[L + 1] = "\n"
      /\ \A i \in 1 .. L : t[i] = s[i]
  BY AppendProperties
<1>2. DOMAIN t = 1 .. L + 1 /\ DOMAIN s = 1 .. L
  BY <1>1
<1>3. SubSeq(t, 1, L) = s
  <2>1. 1 \in 1 .. L + 1 /\ L \in 1 - 1 .. L
    BY <1>1
  <2>2. SubSeq(t, 1, L) = SubSeq(s, 1, L)
    BY <2>1, AppendSub
  <2>3. QED
    BY <2>2, SubSeqFull
<1> HIDE DEF t, L
<1>4. Newlines(t) = {L + 1}
  <2>1. \A i \in 1 .. L : t[i] # "\n"
    BY <1>1, <1>2 DEF Free
  <2>2. \A i \in 1 .. L + 1 : i \in 1 .. L \/ i = L + 1
    BY <1>1
  <2>3. L + 1 \in 1 .. L + 1
    BY <1>1
  <2>4. QED
    BY <1>1, <1>2, <2>1, <2>2, <2>3 DEF Newlines
<1>5. Min({L + 1}) = L + 1
  <2>1. \E b \in {L + 1} : \A m \in {L + 1} : b <= m
    BY <1>1
  <2>2. Min({L + 1}) \in {L + 1}
    BY <2>1 DEF Min
  <2>3. QED
    BY <2>2
<1>6. OnlyNewline(t) = Without(t, L + 1)
  BY <1>4, <1>5 DEF OnlyNewline
<1>7. Without(t, L + 1) = SubSeq(t, 1, L)
  <2>1. PICK n \in Nat : n = L + 1
    BY <1>1
  <2>2. Without(t, n) = SubSeq(t, 1, n - 1)
    BY <1>1, <2>1, WithoutLast
  <2>3. n - 1 = L
    BY <1>1, <2>1
  <2>4. QED
    BY <2>1, <2>2, <2>3
<1>8. QED
  BY <1>3, <1>6, <1>7, Zenon DEF t

\* Several newlines stay (rl_str_proc.cc:32-36).
LEMMA NewlinesStay ==
    ASSUME NEW s, \A n \in Newlines(s) : Newlines(s) # {n}
    PROVE  OnlyNewline(s) = s
BY DEF OnlyNewline

\* v is in s at j.
Three(s, j) == s[j] = "\r" /\ s[j + 1] = "\n" /\ s[j + 2] = "\n"

\* Three characters compared at once and one by one.
LEMMA ThreeLong ==
    ASSUME NEW S, NEW s \in Seq(S), NEW j \in 1 .. Len(s) - 2
    PROVE  SubSeq(s, j, j + 2) = <<"\r", "\n", "\n">> <=> Three(s, j)
<1>1. Len(s) \in Nat /\ j \in Nat /\ j + 2 \in Nat
  OBVIOUS
<1>2. \A i \in j .. j + 2 : i \in 1 .. Len(s)
  BY <1>1
<1>3. \A i \in j .. j + 2 : s[i] \in S
  BY <1>2
<1>4. /\ SubSeq(s, j, j + 2) \in Seq(S)
      /\ Len(SubSeq(s, j, j + 2)) = 3
      /\ \A i \in 1 .. 3 : SubSeq(s, j, j + 2)[i] = s[j + i - 1]
  <2>1. /\ SubSeq(s, j, j + 2) \in Seq(S)
        /\ Len(SubSeq(s, j, j + 2)) = IF j <= j + 2 THEN (j + 2) - j + 1 ELSE 0
        /\ \A i \in 1 .. (j + 2) - j + 1 : SubSeq(s, j, j + 2)[i] = s[j + i - 1]
    BY <1>1, <1>3, SubSeqProperties
  <2>2. (j + 2) - j + 1 = 3 /\ j <= j + 2
    BY <1>1
  <2>3. QED
    BY <2>1, <2>2
<1>5. PICK p \in Seq(S) : p = SubSeq(s, j, j + 2)
  BY <1>4, Zenon
<1>6. Len(p) = 3 /\ p[1] = s[j] /\ p[2] = s[j + 1] /\ p[3] = s[j + 2]
  BY <1>1, <1>4, <1>5
<1>7. p = <<p[1], p[2], p[3]>>
  BY <1>6
<1>8. p = <<"\r", "\n", "\n">> <=> p[1] = "\r" /\ p[2] = "\n" /\ p[3] = "\n"
  <2>1. CASE p = <<"\r", "\n", "\n">>
    BY <2>1
  <2>2. CASE p[1] = "\r" /\ p[2] = "\n" /\ p[3] = "\n"
    BY <1>7, <2>2
  <2>3. QED
    BY <2>1, <2>2
<1>9. QED
  BY <1>5, <1>6, <1>8 DEF Three

End == <<"\r", "\n", "\n">>

\* The end of the headers is found where it was written, and nothing of the text
\* before or behind it is lost (mode.cc:117-121).
LEMMA EndIsFound ==
    ASSUME NEW S, "\r" \in S, "\n" \in S, NEW s \in Seq(S), Find(s, End, 1) = 0
    PROVE  LET out == s \o End \o s
           IN  /\ Find(out, End, 1) = Len(s) + 1
               /\ SubSeq(out, 1, Len(s)) = s
               /\ SubSeq(out, Len(s) + 4, Len(out)) = s
<1> DEFINE out == s \o End \o s
           L == Len(s)
           At == {j \in 1 .. Len(out) - 2 : Three(out, j)}
<1>1. /\ L \in Nat /\ out \in Seq(S) /\ Len(out) = L + 3 + L
      /\ \A i \in 1 .. L : out[i] = s[i]
      /\ out[L + 1] = "\r" /\ out[L + 2] = "\n" /\ out[L + 3] = "\n"
      /\ \A i \in 1 .. L : out[L + 3 + i] = s[i]
  <2>1. PICK v \in Seq(S) : v = End
    <3>1. End \in Seq(S)
      <4>1. PICK a \in S, b \in S : a = "\r" /\ b = "\n"
        OBVIOUS
      <4>2. <<a, b, b>> \in Seq(S)
        OBVIOUS
      <4>3. QED
        BY <4>1, <4>2 DEF End
    <3>2. QED
      BY <3>1
  <2>2. Len(v) = 3 /\ v[1] = "\r" /\ v[2] = "\n" /\ v[3] = "\n"
    BY <2>1 DEF End
  <2>3. PICK b \in Seq(S) : b = s \o v
    <3>1. s \o v \in Seq(S)
      OBVIOUS
    <3>2. QED
      BY <3>1, Zenon
  <2>4. /\ Len(b) = L + 3 /\ \A i \in 1 .. L : b[i] = s[i]
        /\ b[L + 1] = "\r" /\ b[L + 2] = "\n" /\ b[L + 3] = "\n"
    <3>1. Len(b) = Len(s) + Len(v) /\ \A i \in 1 .. Len(s) + Len(v) : b[i] = IF i <= Len(s) THEN s[i] ELSE v[i - Len(s)]
      BY <2>3, ConcatProperties
    <3>2. Len(s) = L /\ L \in Nat
      OBVIOUS
    <3> HIDE DEF L
    <3>3. Len(b) = L + 3 /\ \A i \in 1 .. L + 3 : b[i] = IF i <= L THEN s[i] ELSE v[i - L]
      BY <2>2, <3>1, <3>2
    <3>4. \A i \in 1 .. L : b[i] = s[i]
      BY <3>2, <3>3
    <3>5. b[L + 1] = v[1] /\ b[L + 2] = v[2] /\ b[L + 3] = v[3]
      BY <3>2, <3>3
    <3>6. QED
      BY <2>2, <3>3, <3>4, <3>5
  <2>5. out = b \o s
    BY <2>1, <2>3
  <2> HIDE DEF out
  <2>6. /\ out \in Seq(S) /\ Len(out) = Len(b) + Len(s)
        /\ \A i \in 1 .. Len(b) + Len(s) : out[i] = IF i <= Len(b) THEN b[i] ELSE s[i - Len(b)]
    BY <2>5, ConcatProperties
  <2>7. Len(s) = L /\ L \in Nat
    OBVIOUS
  <2> HIDE DEF L
  <2>8. Len(out) = L + 3 + L /\ \A i \in 1 .. L + 3 : out[i] = b[i]
    BY <2>4, <2>6, <2>7
  <2>9. \A i \in 1 .. L : out[L + 3 + i] = s[i]
    <3> TAKE i \in 1 .. L
    <3>1. PICK k \in 1 .. Len(b) + Len(s) : k = L + 3 + i
      BY <2>4, <2>7
    <3>2. ~(k <= Len(b)) /\ k - Len(b) = i
      BY <2>4, <2>7, <3>1
    <3>3. QED
      BY <2>6, <3>1, <3>2
  <2>10. \A i \in 1 .. L : out[i] = s[i]
    BY <2>4, <2>7, <2>8
  <2>11. out[L + 1] = "\r" /\ out[L + 2] = "\n" /\ out[L + 3] = "\n"
    BY <2>4, <2>7, <2>8
  <2>12. QED
    BY <2>6, <2>7, <2>8, <2>9, <2>10, <2>11, Zenon
<1>2. Len(End) = 3 /\ Len(s) = L
  BY DEF End
<1> HIDE DEF out, L
<1>3. Find(out, End, 1) = IF At = {} THEN 0 ELSE Min(At)
  <2>1. \A j \in 1 .. Len(out) - 2 : SubSeq(out, j, j + Len(End) - 1) = End <=> Three(out, j)
    <3> TAKE j \in 1 .. Len(out) - 2
    <3>1. j + Len(End) - 1 = j + 2
      BY <1>1, <1>2
    <3>2. QED
      BY <1>1, <3>1, ThreeLong DEF End
  <2>2. 1 .. Len(out) - Len(End) + 1 = 1 .. Len(out) - 2
    BY <1>1, <1>2
  <2>3. {j \in 1 .. Len(out) - Len(End) + 1 : SubSeq(out, j, j + Len(End) - 1) = End} = At
    BY <2>1, <2>2, Zenon
  <2>4. QED
    BY <2>3, Zenon DEF Find
<1>4. \A j \in 1 .. L - 2 : ~Three(s, j)
  <2> SUFFICES ASSUME NEW j \in 1 .. L - 2, Three(s, j)
               PROVE  FALSE
    OBVIOUS
  <2> DEFINE A == {i \in 1 .. Len(s) - Len(End) + 1 : SubSeq(s, i, i + Len(End) - 1) = End}
  <2>1. j + Len(End) - 1 = j + 2 /\ j \in 1 .. Len(s) - 2 /\ j \in 1 .. Len(s) - Len(End) + 1
    BY <1>1, <1>2
  <2>2. SubSeq(s, j, j + 2) = End
    BY <2>1, ThreeLong DEF End
  <2>3. j \in A
    BY <2>1, <2>2
  <2>4. A \in SUBSET Nat
    BY <1>1, <1>2
  <2>5. Find(s, End, 1) = IF A = {} THEN 0 ELSE Min(A)
    BY DEF Find
  <2>6. 0 \notin A
    BY <1>1, <1>2
  <2> HIDE DEF A
  <2>7. Min(A) \in A
    <3>1. \E n \in A : \A m \in A : n <= m
      BY <2>3, <2>4, Least
    <3>2. QED
      BY <3>1 DEF Min
  <2>8. QED
    BY <2>3, <2>5, <2>6, <2>7
<1>5. L + 1 \in At
  BY <1>1 DEF Three
<1>6. \A j \in At : L + 1 <= j
  <2> SUFFICES ASSUME NEW j \in 1 .. L, Three(out, j)
               PROVE  FALSE
    BY <1>1
  <2>1. out[j] = "\r" /\ out[j + 1] = "\n" /\ out[j + 2] = "\n"
    BY DEF Three
  <2>2. CASE j \in 1 .. L - 2
    <3>1. j \in 1 .. L /\ j + 1 \in 1 .. L /\ j + 2 \in 1 .. L
      BY <1>1, <2>2
    <3>2. Three(s, j)
      BY <1>1, <2>1, <3>1 DEF Three
    <3>3. QED
      BY <1>4, <2>2, <3>2
  <2>3. CASE j = L - 1
    <3>1. j + 2 = L + 1
      BY <1>1, <2>3
    <3>2. QED
      BY <1>1, <2>1, <3>1
  <2>4. CASE j = L
    <3>1. j + 1 = L + 1
      BY <1>1, <2>4
    <3>2. QED
      BY <1>1, <2>1, <3>1
  <2>5. QED
    BY <1>1, <2>2, <2>3, <2>4
<1>7. Find(out, End, 1) = L + 1
  <2>1. At \in SUBSET Nat
    BY <1>1
  <2> HIDE DEF At
  <2>2. \E b \in At : \A m \in At : b <= m
    BY <1>5, <1>6
  <2>3. Min(At) \in At /\ \A m \in At : Min(At) <= m
    BY <2>2 DEF Min
  <2>4. Min(At) \in Nat /\ Min(At) <= L + 1 /\ L + 1 <= Min(At)
    BY <1>5, <1>6, <2>1, <2>3, Zenon
  <2>5. Min(At) = L + 1
    BY <1>1, <2>4
  <2>6. QED
    BY <1>3, <1>5, <2>5
<1>8. SubSeq(out, 1, L) = s
  <2>1. \A i \in 1 .. L : out[i] \in S
    BY <1>1, <1>2
  <2>2. /\ SubSeq(out, 1, L) \in Seq(S)
        /\ Len(SubSeq(out, 1, L)) = IF 1 <= L THEN L - 1 + 1 ELSE 0
        /\ \A i \in 1 .. L - 1 + 1 : SubSeq(out, 1, L)[i] = out[1 + i - 1]
    BY <1>1, <2>1, SubSeqProperties
  <2>3. PICK p \in Seq(S) : p = SubSeq(out, 1, L)
    BY <2>2, Zenon
  <2>4. Len(p) = L /\ \A i \in 1 .. L : p[i] = s[i]
    BY <1>1, <2>2, <2>3
  <2>5. p = s
    BY <1>2, <2>4, SeqEqual
  <2>6. QED
    BY <2>3, <2>5
<1>9. SubSeq(out, L + 4, Len(out)) = s
  <2> DEFINE a == L + 4
             b == Len(out)
  <2>0. a = L + 4 /\ b = L + 3 + L /\ a \in Int /\ b \in Int
    BY <1>1
  <2> HIDE DEF a, b
  <2>1. \A i \in a .. b : out[i] \in S
    <3> TAKE i \in a .. b
    <3>1. i \in 1 .. Len(out)
      BY <1>1, <2>0
    <3>2. QED
      BY <1>1, <3>1
  <2>2. /\ SubSeq(out, a, b) \in Seq(S)
        /\ Len(SubSeq(out, a, b)) = IF a <= b THEN b - a + 1 ELSE 0
        /\ \A i \in 1 .. b - a + 1 : SubSeq(out, a, b)[i] = out[a + i - 1]
    BY <2>0, <2>1, SubSeqProperties
  <2>3. PICK p \in Seq(S) : p = SubSeq(out, a, b)
    BY <2>2, Zenon
  <2>4. Len(p) = L
    BY <1>1, <2>0, <2>2, <2>3
  <2>5. \A i \in 1 .. L : p[i] = s[i]
    <3> TAKE i \in 1 .. L
    <3>1. i \in 1 .. b - a + 1 /\ a + i - 1 = L + 3 + i
      BY <1>1, <2>0
    <3>2. p[i] = out[L + 3 + i]
      BY <2>2, <2>3, <3>1
    <3>3. QED
      BY <1>1, <3>2
  <2>6. p = s
    BY <1>2, <2>4, <2>5, SeqEqual
  <2>7. QED
    BY <2>3, <2>6 DEF a, b
<1>10. QED
  BY <1>2, <1>7, <1>8, <1>9 DEF out

\* A character more in a text that is free of some.
LEMMA FreeAppend ==
    ASSUME NEW S, NEW s \in Seq(S), NEW x \in S, NEW cs
    PROVE  Free(Append(s, x), cs) <=> Free(s, cs) /\ x \notin cs
<1> DEFINE t == Append(s, x)
<1>1. /\ Len(t) = Len(s) + 1 /\ t[Len(s) + 1] = x /\ Len(s) \in Nat
      /\ \A i \in 1 .. Len(s) : t[i] = s[i]
  BY AppendProperties
<1>2. DOMAIN t = 1 .. Len(s) + 1 /\ DOMAIN s = 1 .. Len(s)
  BY <1>1
<1>3. \A i \in 1 .. Len(s) + 1 : i \in 1 .. Len(s) \/ i = Len(s) + 1
  BY <1>1
<1>4. Len(s) + 1 \in 1 .. Len(s) + 1 /\ \A i \in 1 .. Len(s) : i \in 1 .. Len(s) + 1
  BY <1>1
<1> HIDE DEF t
<1>5. Free(t, cs) <=> Free(s, cs) /\ x \notin cs
  BY <1>1, <1>2, <1>3, <1>4 DEF Free
<1>6. QED
  BY <1>5 DEF t

-----------------------------------------------------------------------------
(***************************************************************************)
(* Fields and lines of a text that grows.                                  *)
(***************************************************************************)
TextSet == Chars \cup {"~", " ", "\n", "\r", ","}

HasFields(s, sep) == \E h, w : Matched(TextSet, s, sep, h, w)

Separated(s) == Free(s, {"~"}) => HasFields(s, ",") /\ HasFields(s, "\n")

Tabless(s) == Free(s, {"\t"}) => NoTab(s) = s

FieldsInv == text \in Seq(Chars) /\ Separated(text) /\ Tabless(text)

\* The characters that occur.
LEMMA InTextSet ==
    /\ "~" \in TextSet /\ " " \in TextSet /\ "\n" \in TextSet /\ "\r" \in TextSet /\ "," \in TextSet
BY DEF TextSet

LEMMA CharsInTextSet == Chars \subseteq TextSet
BY Zenon DEF TextSet

\* A text over some characters is one over more.
LEMMA LargerSeq ==
    ASSUME NEW A, NEW B, A \subseteq B, NEW s \in Seq(A)
    PROVE  s \in Seq(B)
OBVIOUS

\* Fields and pieces stay matched when the text grows.
LEMMA HasFieldsStep ==
    ASSUME NEW s \in Seq(TextSet), NEW x \in TextSet, NEW sep \in TextSet, HasFields(s, sep)
    PROVE  x # "~" => HasFields(Append(s, x), sep)
<1>1. PICK h, w : Matched(TextSet, s, sep, h, w)
  BY DEF HasFields
<1>2. "~" \in TextSet
  BY InTextSet, Zenon
<1>3. CASE x = sep
  <2>1. Matched(TextSet, Append(s, sep), sep, Append(h, w), <<>>)
    BY <1>1, <1>2, MatchedSep
  <2>2. QED
    BY <1>3, <2>1 DEF HasFields
<1>4. CASE x # sep
  <2>1. x # "~" => Matched(TextSet, Append(s, x), sep, h, Append(w, x))
    BY <1>1, <1>2, <1>4, MatchedOther
  <2>2. QED
    BY <2>1 DEF HasFields
<1>5. QED
  BY <1>3, <1>4

\* FieldsInv is inductive.
LEMMA FieldsInit == TextInit => FieldsInv
<1> SUFFICES ASSUME text = <<>> PROVE FieldsInv
  BY DEF TextInit
<1>1. ASSUME NEW sep
      PROVE  HasFields(<<>>, sep)
  BY InTextSet, MatchedEmpty, Zenon DEF HasFields
<1>2. NoTab(<<>>) = <<>>
  BY ReplaceEmpty DEF NoTab
<1>3. Separated(<<>>) /\ Tabless(<<>>)
  BY <1>1, <1>2, Zenon DEF Separated, Tabless
<1>4. QED
  BY <1>3 DEF FieldsInv

LEMMA FieldsStep ==
    ASSUME FieldsInv, NEW x \in Chars, Grow(x)
    PROVE  FieldsInv'
<1>1. text \in Seq(Chars) /\ text' = Append(text, x) /\ text' \in Seq(Chars)
  BY DEF FieldsInv, Grow
<1>2. x \in TextSet /\ text \in Seq(TextSet)
  BY <1>1, CharsInTextSet, LargerSeq
<1>3. Separated(text')
  <2>1. ASSUME Free(Append(text, x), {"~"})
        PROVE  HasFields(Append(text, x), ",") /\ HasFields(Append(text, x), "\n")
    <3>1. Free(text, {"~"}) /\ x \notin {"~"}
      BY <1>1, <2>1, FreeAppend
    <3>2. HasFields(text, ",") /\ HasFields(text, "\n")
      BY <3>1, Zenon DEF FieldsInv, Separated
    <3>3. "," \in TextSet /\ "\n" \in TextSet
      BY InTextSet, Zenon
    <3>4. QED
      BY <1>2, <3>1, <3>2, <3>3, HasFieldsStep, Zenon
  <2>2. QED
    BY <1>1, <2>1, Zenon DEF Separated
<1>4. Tabless(text')
  <2>1. ASSUME Free(Append(text, x), {"\t"})
        PROVE  NoTab(Append(text, x)) = Append(text, x)
    <3>1. Free(text, {"\t"}) /\ x \notin {"\t"}
      BY <1>1, <2>1, FreeAppend
    <3>2. NoTab(text) = text
      BY <3>1 DEF FieldsInv, Tabless
    <3>3. Spaces \in Seq(TextSet)
      BY InTextSet, SpacesType, Zenon
    <3>4. QED
      BY <1>2, <3>1, <3>2, <3>3, NoTabAppend
  <2>2. QED
    BY <1>1, <2>1 DEF Tabless
<1>5. QED
  BY <1>1, <1>3, <1>4 DEF FieldsInv

LEMMA FieldsInvariant == TextSpec => []FieldsInv
<1>1. FieldsInv /\ [\E c \in Chars : Grow(c)]_text => FieldsInv'
  <2>1. CASE \E c \in Chars : Grow(c)
    BY <2>1, FieldsStep
  <2>2. CASE UNCHANGED text
    BY <2>2 DEF FieldsInv
  <2>3. QED
    BY <2>1, <2>2
<1>2. QED
  BY <1>1, FieldsInit, PTL DEF TextSpec

\* What is got from the pieces.
LEMMA FieldsGot ==
    ASSUME NEW S, NEW h \in Seq(Seq(S)), NEW w \in Seq(S), NEW i \in 1 .. Len(Append(h, w)) + 1
    PROVE  get(Keep(h, w), i) = IF i <= Len(Append(h, w)) THEN Append(h, w)[i] ELSE <<>>
<1> DEFINE f == Append(h, w)
<1>1. /\ Len(f) = Len(h) + 1 /\ f[Len(h) + 1] = w /\ Len(h) \in Nat
      /\ \A k \in 1 .. Len(h) : f[k] = h[k]
  BY AppendProperties
<1> HIDE DEF f
<1>2. i \in 1 .. Len(f) + 1
  BY DEF f
<1>3. CASE w = <<>>
  <2>1. Keep(h, w) = h
    BY <1>3 DEF Keep
  <2>2. CASE i \in 1 .. Len(h)
    <3>1. i <= Len(h) /\ i <= Len(f) /\ f[i] = h[i]
      BY <1>1, <2>2
    <3>2. QED
      BY <2>1, <3>1 DEF get, f
  <2>3. CASE i = Len(h) + 1
    <3>1. ~(i <= Len(h)) /\ i <= Len(f) /\ f[i] = <<>>
      BY <1>1, <1>3, <2>3
    <3>2. QED
      BY <2>1, <3>1 DEF get, f
  <2>4. CASE i = Len(h) + 2
    <3>1. ~(i <= Len(h)) /\ ~(i <= Len(f))
      BY <1>1, <2>4
    <3>2. QED
      BY <2>1, <3>1 DEF get, f
  <2>5. QED
    BY <1>1, <1>2, <2>2, <2>3, <2>4
<1>4. CASE w # <<>>
  <2>1. Keep(h, w) = f
    BY <1>4 DEF Keep, f
  <2>2. QED
    BY <2>1 DEF get, f
<1>5. QED
  BY <1>3, <1>4

\* Only the last field may be empty.
LEMMA FullFront ==
    ASSUME NEW S, NEW h \in Seq(Seq(S)), NEW w \in Seq(S), NEW f, f = Append(h, w),
           \A i \in 1 .. Len(f) - 1 : f[i] # <<>>
    PROVE  Full(h)
<1>1. /\ Len(f) = Len(h) + 1 /\ Len(h) \in Nat
      /\ \A k \in 1 .. Len(h) : f[k] = h[k]
  BY AppendProperties
<1>2. DOMAIN h = 1 .. Len(h) /\ Len(f) - 1 = Len(h)
  BY <1>1
<1>3. QED
  BY <1>1, <1>2 DEF Full

\* A text that is free of some characters is free of fewer.
LEMMA FreeFewer ==
    ASSUME NEW s, NEW a, NEW b, a \subseteq b, Free(s, b)
    PROVE  Free(s, a)
BY DEF Free

\* Both properties follow from FieldsInv.
LEMMA FieldsInvKept == FieldsInv => FieldsKept
<1> DEFINE f == Split(text, ",")
           p == StrProc(Append(text, "\n"), <<",">>)
<1>1. ASSUME FieldsInv, Free(text, {"~", "\t", "\n"}), \A i \in 1 .. Len(f) - 1 : f[i] # <<>>
      PROVE  \A i \in 1 .. Len(f) + 1 : get(p, i) = IF i <= Len(f) THEN f[i] ELSE <<>>
  <2>1. Free(text, {"~"}) /\ Free(text, {"\t"}) /\ Free(text, {"\n"})
    BY <1>1, FreeFewer, Zenon
  <2>2. text \in Seq(TextSet)
    BY <1>1, CharsInTextSet, LargerSeq, Zenon DEF FieldsInv
  <2>3. NoTab(Append(text, "\n")) = Append(text, "\n")
    <3>1. NoTab(text) = text
      BY <1>1, <2>1, Zenon DEF FieldsInv, Tabless
    <3>2. "\n" \in TextSet /\ Spaces \in Seq(TextSet)
      BY InTextSet, SpacesType, Zenon
    <3>3. QED
      BY <2>2, <3>1, <3>2, NoTabAppend
  <2>4. OnlyNewline(Append(text, "\n")) = text
    BY <2>1, <2>2, InTextSet, NewlineOff, Zenon
  <2>5. p = Pieces(Tilde(text, ","))
    BY <2>3, <2>4, Zenon DEF StrProc, Tilde, NoTab, Spaces, One
  <2>6. PICK h, w : Matched(TextSet, text, ",", h, w)
    BY <1>1, <2>1, Zenon DEF FieldsInv, Separated, HasFields
  <2>7. h \in Seq(Seq(TextSet)) /\ w \in Seq(TextSet) /\ f = Append(h, w)
    BY <2>6, Zenon DEF Matched
  <2>8. Full(h)
    <3> HIDE DEF f
    <3>1. QED
      BY <1>1, <2>7, FullFront, Zenon
  <2>9. p = Keep(h, w)
    BY <2>5, <2>6, <2>8, Zenon DEF Matched
  <2> HIDE DEF f, p
  <2>10. QED
    BY <2>7, <2>9, FieldsGot
<1>2. QED
  BY <1>1, Zenon DEF FieldsKept

LEMMA FieldsInvLines == FieldsInv => LinesKept
<1> DEFINE out == text \o End \o text
<1>1. ASSUME FieldsInv, Free(text, {"~", "\t"}), Find(text, End, 1) = 0,
             \A n \in Newlines(text) : Newlines(text) # {n}
      PROVE  handle_cmd_output(out) = [headers |-> NonEmpty(Split(text, "\n")), body |-> text]
  <2>1. Free(text, {"~"}) /\ Free(text, {"\t"})
    BY <1>1, FreeFewer
  <2>2. text \in Seq(TextSet)
    BY <1>1, CharsInTextSet, LargerSeq DEF FieldsInv
  <2>3. /\ Find(out, End, 1) = Len(text) + 1
        /\ SubSeq(out, 1, Len(text)) = text
        /\ SubSeq(out, Len(text) + 4, Len(out)) = text
    BY <1>1, <2>2, InTextSet, EndIsFound, Zenon
  <2>4. NoTab(text) = text
    BY <1>1, <2>1 DEF FieldsInv, Tabless
  <2>5. OnlyNewline(text) = text
    BY <1>1, NewlinesStay
  <2>6. StrProc(text, <<"\n">>) = Pieces(Tilde(text, "\n"))
    BY <2>4, <2>5, Zenon DEF StrProc, Tilde, NoTab, Spaces, One
  <2>7. PICK h, w : Matched(TextSet, text, "\n", h, w)
    BY <1>1, <2>1, Zenon DEF FieldsInv, Separated, HasFields
  <2>8. NonEmpty(Split(text, "\n")) = Keep(NonEmpty(h), w)
    <3>1. h \in Seq(Seq(TextSet)) /\ w \in Seq(TextSet) /\ Split(text, "\n") = Append(h, w)
      BY <2>7 DEF Matched
    <3>2. QED
      BY <3>1, KeptAppend, Zenon
  <2>9. StrProc(text, <<"\n">>) = NonEmpty(Split(text, "\n"))
    BY <2>6, <2>7, <2>8 DEF Matched
  <2>10. Len(text) + 1 # 0 /\ (Len(text) + 1) - 1 = Len(text) /\ (Len(text) + 1) + 3 = Len(text) + 4
    BY <2>2
  <2> HIDE DEF out
  <2>11. handle_cmd_output(out) = [headers |-> StrProc(text, <<"\n">>), body |-> text]
    BY <2>3, <2>10, Zenon DEF handle_cmd_output, End
  <2>12. QED
    BY <2>9, <2>11
<1>2. QED
  BY <1>1 DEF LinesKept, End

\* The fields of a session record are read back from its line at their places
\* (authsession.cc:224-309), for lines of any length and any characters.
THEOREM RecordsReadBack == TextSpec => []FieldsKept
BY FieldsInvariant, FieldsInvKept, PTL

\* The headers that a program prints are read line by line, and its body is what
\* follows them (mode.cc:117-158), for output of any length and any characters.
THEOREM HeadersReadBack == TextSpec => []LinesKept
BY FieldsInvariant, FieldsInvLines, PTL
=============================================================================
