--------------------------- MODULE SequenceLemmas ---------------------------
(***************************************************************************)
(* What the operators on sequences do that the models use, for sequences   *)
(* of any length.  The induction is over sets (the numbers, or sequences,  *)
(* for which a statement holds), so that it is first-order.                *)
(***************************************************************************)
EXTENDS NumberedSequences, Selection, SequencesExt, SequenceTheorems, WellFoundedInduction,
        TLAPS

\* A set with 0 and the successors of its naturals has all of them: the least one
\* outside would have its predecessor inside.
LEMMA NatSetInduction ==
    ASSUME NEW T, 0 \in T, \A n \in Nat : n \in T => n + 1 \in T
    PROVE  Nat \subseteq T
  <1> DEFINE B == Nat \ T
  <1> SUFFICES ASSUME B # {} PROVE FALSE
    OBVIOUS
  <1>1. PICK n \in B : \A m \in B : <<m, n>> \notin OpToRel(<, Nat)
    <2>1. B \subseteq Nat
      OBVIOUS
    <2> HIDE DEF B
    <2> QED BY <2>1, NatLessThanWellFounded, WFMin
  <1>2. n \in Nat /\ n - 1 \in Nat /\ n - 1 < n /\ (n - 1) + 1 = n
    OBVIOUS
  <1>3. <<n - 1, n>> \in OpToRel(<, Nat)
    BY <1>2, Zenon DEF OpToRel
  <1>4. n - 1 \in T
    BY <1>1, <1>2, <1>3, Zenon
  <1> QED BY <1>2, <1>4, Zenon

\* The function that starts with base and goes on by step.
Iterates(f, base, step, count) ==
    f = [n \in 0 .. count |-> IF n = 0 THEN base ELSE step[n][f[n - 1]]]

\* A function defined by recursion over 0 .. count exists.
LEMMA Recursion ==
    ASSUME NEW R, NEW base \in R, NEW count \in Nat, NEW step \in [1 .. count -> [R -> R]]
    PROVE  \E f \in [0 .. count -> R] : Iterates(f, base, step, count)
  <1> DEFINE Follows(f, m) ==
               f = [n \in 0 .. m |-> IF n = 0 THEN base ELSE step[n][f[n - 1]]]
             T == {m \in Nat : m <= count => \E f \in [0 .. m -> R] : Follows(f, m)}
  <1>1. 0 \in T
    <2>1. [n \in 0 .. 0 |-> base] \in [0 .. 0 -> R] /\ Follows([n \in 0 .. 0 |-> base], 0)
      OBVIOUS
    <2> QED BY <2>1
  <1>2. ASSUME NEW m \in Nat, m \in T
        PROVE  m + 1 \in T
    <2> SUFFICES ASSUME m + 1 <= count PROVE \E f \in [0 .. m + 1 -> R] : Follows(f, m + 1)
      OBVIOUS
    <2>1. PICK g \in [0 .. m -> R] : Follows(g, m)
      BY <1>2
    <2> DEFINE f == [n \in 0 .. m + 1 |-> IF n = m + 1 THEN step[n][g[m]] ELSE g[n]]
    <2>2. step[m + 1][g[m]] \in R
      <3>1. step[m + 1] \in [R -> R] /\ g[m] \in R
        OBVIOUS
      <3> QED BY <3>1
    <2>3. f \in [0 .. m + 1 -> R]
      BY <2>2
    <2>4. \A n \in 0 .. m : f[n] = g[n]
      OBVIOUS
    <2>5. ASSUME NEW n \in 0 .. m + 1
          PROVE  f[n] = IF n = 0 THEN base ELSE step[n][f[n - 1]]
      <3>1. CASE n = m + 1
        <4>1. f[n] = step[n][g[m]] /\ n - 1 = m /\ f[m] = g[m] /\ n # 0
          BY <3>1, <2>4
        <4> HIDE DEF f
        <4> QED BY <4>1
      <3>2. CASE n # m + 1
        <4>1. n \in 0 .. m
          BY <3>2
        <4>2. g[n] = IF n = 0 THEN base ELSE step[n][g[n - 1]]
          BY <2>1, <4>1
        <4>3. n # 0 => n - 1 \in 0 .. m
          BY <4>1
        <4> HIDE DEF f
        <4> QED BY <4>1, <4>2, <4>3, <2>4, Zenon
      <3> QED BY <3>1, <3>2
    <2>6. Follows(f, m + 1)
      <3>1. f = [n \in 0 .. m + 1 |-> f[n]]
        OBVIOUS
      <3> HIDE DEF f
      <3>2. [n \in 0 .. m + 1 |-> f[n]]
              = [n \in 0 .. m + 1 |-> IF n = 0 THEN base ELSE step[n][f[n - 1]]]
        BY <2>5
      <3> QED BY <3>1, <3>2
    <2> HIDE DEF f
    <2> QED BY <2>3, <2>6
  <1> HIDE DEF T
  <1>3. count \in T
    BY <1>1, <1>2, NatSetInduction
  <1> USE DEF T
  <1>4. \E f \in [0 .. count -> R] : Follows(f, count)
    BY <1>3
  <1> QED BY <1>4, Zenon DEF Iterates

\* A set of naturals has its least element.
LEMMA MinOfNats ==
    ASSUME NEW I \in SUBSET Nat, I # {}
    PROVE  Min(I) \in I /\ \A i \in I : Min(I) <= i
  <1>1. PICK n \in I : \A m \in I : <<m, n>> \notin OpToRel(<, Nat)
    BY NatLessThanWellFounded, WFMin
  <1>2. ASSUME NEW m \in I
        PROVE  n <= m
    <2>1. SUFFICES ASSUME m < n PROVE FALSE
      OBVIOUS
    <2>2. <<m, n>> \in OpToRel(<, Nat)
      BY <2>1, Zenon DEF OpToRel
    <2> QED BY <2>2, <1>1, Zenon
  <1> QED BY <1>1, <1>2, Zenon DEF Min

\* A set with the empty sequence, and with each of its sequences the longer ones,
\* has all sequences.
LEMMA SeqSetInduction ==
    ASSUME NEW S, NEW Q, <<>> \in Q,
           \A s \in Seq(S) : \A e \in S : s \in Q => Append(s, e) \in Q
    PROVE  Seq(S) \subseteq Q
  <1> DEFINE T == {n \in Nat : \A s \in Seq(S) : Len(s) = n => s \in Q}
  <1>1. 0 \in T
    <2>1. \A s \in Seq(S) : Len(s) = 0 => s = <<>>
      BY EmptySeq
    <2> QED BY <2>1
  <1>2. ASSUME NEW n \in Nat, n \in T
        PROVE  n + 1 \in T
    <2> SUFFICES ASSUME NEW s \in Seq(S), Len(s) = n + 1
                 PROVE  s \in Q
      OBVIOUS
    <2> DEFINE front == SubSeq(s, 1, n)
               e == s[n + 1]
    <2>1. front \in Seq(S) /\ e \in S /\ Len(front) = n /\ s = Append(front, e)
      OBVIOUS
    <2>2. front \in Q
      BY <1>2, <2>1
    <2> HIDE DEF front, e
    <2> QED BY <2>1, <2>2
  <1> HIDE DEF T
  <1>3. Nat \subseteq T
    BY <1>1, <1>2, NatSetInduction
  <1>4. ASSUME NEW s \in Seq(S)
        PROVE  s \in Q
    <2>1. Len(s) \in T
      BY <1>3, LenProperties
    <2> QED BY <2>1 DEF T
  <1> QED BY <1>4
-----------------------------------------------------------------------------
(* Numbered sequences.                                                     *)

\* The empty sequence is numbered from anywhere.
LEMMA NumberedEmpty == ASSUME NEW k PROVE Numbered(<<>>, k)
  BY DEF Numbered

\* Appending the next number keeps a sequence numbered.
LEMMA NumberedAppend ==
    ASSUME NEW s \in Seq(Nat), NEW k \in Nat, Numbered(s, k)
    PROVE  Numbered(Append(s, k + Len(s) + 1), k)
  <1> DEFINE t == Append(s, k + Len(s) + 1)
  <1>1. Len(t) = Len(s) + 1 /\ Len(s) \in Nat
    OBVIOUS
  <1>2. \A i \in 1 .. Len(s) : t[i] = k + i
    BY DEF Numbered
  <1>3. t[Len(s) + 1] = k + (Len(s) + 1)
    BY <1>1
  <1>4. \A i \in 1 .. Len(t) : i \in 1 .. Len(s) \/ i = Len(s) + 1
    BY <1>1
  <1> QED BY <1>2, <1>3, <1>4 DEF Numbered

\* Taking the head leaves a sequence numbered from one further.
LEMMA NumberedTail ==
    ASSUME NEW s \in Seq(Nat), NEW k \in Nat, Numbered(s, k), s # <<>>
    PROVE  /\ Head(s) = k + 1
           /\ Tail(s) \in Seq(Nat)
           /\ Len(Tail(s)) = Len(s) - 1
           /\ Numbered(Tail(s), k + 1)
  <1>1. Len(s) \in Nat \ {0} /\ Head(s) = s[1] /\ Len(Tail(s)) = Len(s) - 1
        /\ Tail(s) \in Seq(Nat)
    OBVIOUS
  <1>2. ASSUME NEW i \in 1 .. Len(Tail(s))
        PROVE  Tail(s)[i] = (k + 1) + i
    <2>1. Tail(s)[i] = s[i + 1] /\ i + 1 \in 1 .. Len(s)
      BY <1>1
    <2> QED BY <2>1 DEF Numbered
  <1>3. s[1] = k + 1
    BY <1>1 DEF Numbered
  <1> QED BY <1>1, <1>2, <1>3 DEF Numbered

\* A sequence of n numbers, the i-th of which is i, is the function that says so.
LEMMA NumberedIsRange ==
    ASSUME NEW u \in Seq(Nat), NEW n \in Nat, Len(u) = n, \A i \in 1 .. n : u[i] = i
    PROVE  u = [i \in 1 .. n |-> i]
  <1>1. u \in [1 .. n -> Nat]
    OBVIOUS
  <1>2. [i \in 1 .. n |-> i] \in [1 .. n -> Nat]
    OBVIOUS
  <1> QED BY <1>1, <1>2

\* A sequence numbered from the length of another one continues it.
LEMMA NumberedConcat ==
    ASSUME NEW s \in Seq(Nat), NEW t \in Seq(Nat), Numbered(s, 0), Numbered(t, Len(s))
    PROVE  /\ s \o t \in Seq(Nat)
           /\ Len(s \o t) = Len(s) + Len(t)
           /\ Numbered(s \o t, 0)
           /\ s \o t = [i \in 1 .. Len(s) + Len(t) |-> i]
  <1>1. Len(s) \in Nat /\ Len(t) \in Nat
    OBVIOUS
  <1>2. s \o t \in Seq(Nat) /\ Len(s \o t) = Len(s) + Len(t)
    OBVIOUS
  <1>3. ASSUME NEW i \in 1 .. Len(s) + Len(t)
        PROVE  (s \o t)[i] = i
    <2>1. CASE i \in 1 .. Len(s)
      <3>1. (s \o t)[i] = s[i]
        BY <2>1, <1>1
      <3> QED BY <3>1, <2>1 DEF Numbered
    <2>2. CASE i > Len(s)
      <3>1. (s \o t)[i] = t[i - Len(s)] /\ i - Len(s) \in 1 .. Len(t)
        BY <2>2, <1>1
      <3> QED BY <3>1, <1>1, <2>2 DEF Numbered
    <2> QED BY <2>1, <2>2, <1>1
  <1>4. s \o t = [i \in 1 .. Len(s) + Len(t) |-> i]
    <2>1. Len(s) + Len(t) \in Nat
      BY <1>1
    <2>2. \A i \in 1 .. Len(s) + Len(t) : (s \o t)[i] = i
      BY <1>3
    <2> QED BY <1>2, <2>1, <2>2, NumberedIsRange, Zenon
  <1> QED BY <1>1, <1>2, <1>3, <1>4 DEF Numbered

\* The numbers of a numbered sequence are at most the last one.
LEMMA NumberedBounded ==
    ASSUME NEW s \in Seq(Nat), NEW k \in Nat, NEW n \in Nat, Numbered(s, k), k + Len(s) <= n
    PROVE  s \in Seq(1 .. n)
  <1>1. Len(s) \in Nat /\ s \in [1 .. Len(s) -> Nat]
    OBVIOUS
  <1>2. \A i \in 1 .. Len(s) : s[i] \in 1 .. n
    BY <1>1 DEF Numbered
  <1> QED BY <1>1, <1>2
-----------------------------------------------------------------------------
(* Ranges.                                                                 *)

\* The range of a sequence by its positions.
LEMMA InRange ==
    ASSUME NEW S, NEW s \in Seq(S)
    PROVE  /\ \A x : x \in Range(s) <=> \E i \in 1 .. Len(s) : s[i] = x
           /\ Range(s) \subseteq S
  <1>1. DOMAIN s = 1 .. Len(s) /\ \A i \in 1 .. Len(s) : s[i] \in S
    BY LenProperties, ElementOfSeq
  <1> QED BY <1>1, Zenon DEF Range

LEMMA RangeEmpty == Range(<<>>) = {}
  BY DEF Range

\* Appending an element adds it to the range.
LEMMA RangeAppend ==
    ASSUME NEW S, NEW s \in Seq(S), NEW e \in S
    PROVE  Range(Append(s, e)) = Range(s) \cup {e}
  <1> DEFINE t == Append(s, e)
  <1>1. t \in Seq(S) /\ Len(t) = Len(s) + 1 /\ Len(s) \in Nat
    OBVIOUS
  <1>2. (\A i \in 1 .. Len(s) : t[i] = s[i]) /\ t[Len(s) + 1] = e
    OBVIOUS
  <1>3. \A i : i \in 1 .. Len(t) <=> i \in 1 .. Len(s) \/ i = Len(s) + 1
    BY <1>1
  <1> HIDE DEF t
  <1>4. /\ \A x : x \in Range(t) <=> \E i \in 1 .. Len(t) : t[i] = x
        /\ \A x : x \in Range(s) <=> \E i \in 1 .. Len(s) : s[i] = x
    BY <1>1, InRange, Zenon
  <1>5. \A x : x \in Range(t) <=> x \in Range(s) \/ x = e
    BY <1>2, <1>3, <1>4, Zenon
  <1> QED BY <1>5 DEF t

\* The elements of two sequences, one after the other.
LEMMA ConcatIndex ==
    ASSUME NEW S, NEW s \in Seq(S), NEW t \in Seq(S)
    PROVE  /\ s \o t \in Seq(S) /\ Len(s \o t) = Len(s) + Len(t)
           /\ \A i \in 1 .. Len(s) : (s \o t)[i] = s[i]
           /\ \A i \in 1 .. Len(t) : (s \o t)[Len(s) + i] = t[i]
  BY ConcatProperties, LenProperties

\* The range of two sequences, one after the other.
LEMMA RangeConcat ==
    ASSUME NEW S, NEW s \in Seq(S), NEW t \in Seq(S)
    PROVE  Range(s \o t) = Range(s) \cup Range(t)
  <1> DEFINE u == s \o t
             m == Len(s)
             n == Len(t)
  <1>1. u \in Seq(S) /\ Len(u) = m + n /\ m \in Nat /\ n \in Nat
    BY ConcatProperties, LenProperties
  <1>2. /\ \A i \in 1 .. m : u[i] = s[i]
        /\ \A i \in 1 .. n : u[m + i] = t[i]
    BY ConcatProperties, LenProperties
  <1>3. /\ \A i \in 1 .. m + n : i \in 1 .. m \/ (i - m \in 1 .. n /\ m + (i - m) = i)
        /\ \A i \in 1 .. m : i \in 1 .. m + n
        /\ \A i \in 1 .. n : m + i \in 1 .. m + n
    BY <1>1
  <1> HIDE DEF u
  <1>4. /\ \A x : x \in Range(u) <=> \E i \in 1 .. Len(u) : u[i] = x
        /\ \A x : x \in Range(s) <=> \E i \in 1 .. m : s[i] = x
        /\ \A x : x \in Range(t) <=> \E i \in 1 .. n : t[i] = x
    BY <1>1, InRange, Zenon
  <1> HIDE DEF m, n
  <1>5. ASSUME NEW x \in Range(u)
        PROVE  x \in Range(s) \/ x \in Range(t)
    <2>1. PICK i \in 1 .. m + n : u[i] = x
      BY <1>1, <1>4
    <2>2. CASE i \in 1 .. m
      BY <1>2, <1>4, <2>1, <2>2, Zenon
    <2>3. CASE i - m \in 1 .. n /\ m + (i - m) = i
      BY <1>2, <1>4, <2>1, <2>3, ZenonT(40)
    <2> QED BY <1>3, <2>2, <2>3
  <1>6. ASSUME NEW x, x \in Range(s) \/ x \in Range(t)
        PROVE  x \in Range(u)
    BY <1>1, <1>2, <1>3, <1>4, <1>6, Zenon
  <1>7. Range(u) = Range(s) \cup Range(t)
    BY <1>5, <1>6
  <1> QED BY <1>7 DEF u

-----------------------------------------------------------------------------
(* Only.                                                                   *)

\* The recursive function in Only is what its definition says.
LEMMA OnlyFunction ==
    ASSUME NEW S, NEW s \in Seq(S), NEW T
    PROVE  \E kept :
             /\ kept = [n \in 0 .. Len(s) |->
                          IF n = 0 THEN <<>>
                          ELSE IF s[n] \in T THEN Append(kept[n - 1], s[n]) ELSE kept[n - 1]]
             /\ Only(s, T) = kept[Len(s)]
  <1> DEFINE Kept(t, k) ==
               k = [n \in 0 .. Len(t) |->
                      IF n = 0 THEN <<>>
                      ELSE IF t[n] \in T THEN Append(k[n - 1], t[n]) ELSE k[n - 1]]
             Q == {t \in Seq(S) : \E k : Kept(t, k)}
  <1>1. <<>> \in Q
    <2>1. Kept(<<>>, [n \in 0 .. 0 |-> <<>>])
      OBVIOUS
    <2> QED BY <2>1, EmptySeq
  <1>2. ASSUME NEW t \in Seq(S), NEW e \in S, t \in Q
        PROVE  Append(t, e) \in Q
    <2> DEFINE u == Append(t, e)
    <2>1. PICK k : Kept(t, k)
      BY <1>2
    <2> DEFINE l == [n \in 0 .. Len(u) |->
                       IF n = Len(u)
                       THEN IF e \in T THEN Append(k[Len(t)], e) ELSE k[Len(t)]
                       ELSE k[n]]
    <2>2. u \in Seq(S) /\ Len(u) = Len(t) + 1 /\ Len(t) \in Nat /\ u[Len(u)] = e
          /\ \A n \in 1 .. Len(t) : u[n] = t[n]
      OBVIOUS
    <2>3. ASSUME NEW n \in 0 .. Len(u)
          PROVE  l[n] = IF n = 0 THEN <<>>
                        ELSE IF u[n] \in T THEN Append(l[n - 1], u[n]) ELSE l[n - 1]
      <3>1. CASE n = 0
        BY <2>1, <2>2, <3>1
      <3>2. CASE n \in 1 .. Len(t)
        <4>1. l[n] = k[n] /\ l[n - 1] = k[n - 1]
          BY <2>2, <3>2
        <4>2. n \in 0 .. Len(t) /\ n # 0
          BY <2>2, <3>2
        <4>3. k[n] = IF t[n] \in T THEN Append(k[n - 1], t[n]) ELSE k[n - 1]
          BY <2>1, <4>2, Zenon
        <4> QED BY <2>2, <3>2, <4>1, <4>3
      <3>3. CASE n = Len(u)
        <4>1. l[n - 1] = k[Len(t)]
          BY <2>2, <3>3
        <4> QED BY <2>2, <3>3, <4>1
      <3> QED BY <2>2, <3>1, <3>2, <3>3
    <2>4. Kept(u, l)
      BY <2>3
    <2> QED BY <2>2, <2>4
  <1>3. s \in Q
    <2> HIDE DEF Q
    <2> QED BY <1>1, <1>2, SeqSetInduction
  <1>4. \E k : Kept(s, k)
    BY <1>3
  <1> DEFINE kept == CHOOSE k : Kept(s, k)
  <1>5. Kept(s, kept)
    BY <1>4, Zenon
  <1>6. Only(s, T) = kept[Len(s)]
    BY Zenon DEF Only
  <1> QED BY <1>5, <1>6, Zenon

LEMMA OnlyEmpty == \A T : Only(<<>>, T) = <<>>
  <1> SUFFICES ASSUME NEW T PROVE Only(<<>>, T) = <<>>
    OBVIOUS
  <1>1. <<>> \in Seq({}) /\ Len(<<>>) = 0
    BY EmptySeq
  <1>2. PICK k : /\ k = [n \in 0 .. Len(<<>>) |->
                          IF n = 0 THEN <<>>
                          ELSE IF <<>>[n] \in T THEN Append(k[n - 1], <<>>[n]) ELSE k[n - 1]]
                 /\ Only(<<>>, T) = k[Len(<<>>)]
    BY <1>1, OnlyFunction
  <1>3. 0 \in 0 .. Len(<<>>)
    BY <1>1
  <1> QED BY <1>1, <1>2, <1>3, Zenon

\* One more element joins the selection when it is in the set.
LEMMA OnlyAppend ==
    ASSUME NEW S, NEW s \in Seq(S), NEW e \in S, NEW T
    PROVE  Only(Append(s, e), T) = IF e \in T THEN Append(Only(s, T), e) ELSE Only(s, T)
  <1> DEFINE u == Append(s, e)
  <1>1. u \in Seq(S) /\ Len(u) = Len(s) + 1 /\ Len(s) \in Nat /\ u[Len(u)] = e
        /\ \A n \in 1 .. Len(s) : u[n] = s[n]
    OBVIOUS
  <1>2. PICK k : /\ k = [n \in 0 .. Len(s) |->
                          IF n = 0 THEN <<>>
                          ELSE IF s[n] \in T THEN Append(k[n - 1], s[n]) ELSE k[n - 1]]
                 /\ Only(s, T) = k[Len(s)]
    BY OnlyFunction
  <1> HIDE DEF u
  <1>3. PICK l : /\ l = [n \in 0 .. Len(u) |->
                          IF n = 0 THEN <<>>
                          ELSE IF u[n] \in T THEN Append(l[n - 1], u[n]) ELSE l[n - 1]]
                 /\ Only(u, T) = l[Len(u)]
    BY <1>1, OnlyFunction
  <1>4. \A n \in 0 .. Len(s) :
          k[n] = IF n = 0 THEN <<>>
                 ELSE IF s[n] \in T THEN Append(k[n - 1], s[n]) ELSE k[n - 1]
    BY <1>2, Zenon
  <1>5. \A n \in 0 .. Len(u) :
          l[n] = IF n = 0 THEN <<>>
                 ELSE IF u[n] \in T THEN Append(l[n - 1], u[n]) ELSE l[n - 1]
    BY <1>3, Zenon
  <1> DEFINE Q == {n \in Nat : n <= Len(s) => l[n] = k[n]}
  <1>6. 0 \in Q
    <2>1. 0 \in 0 .. Len(s) /\ 0 \in 0 .. Len(u)
      BY <1>1
    <2>2. k[0] = <<>> /\ l[0] = <<>>
      BY <2>1, <1>4, <1>5, Zenon
    <2> QED BY <2>2
  <1>7. ASSUME NEW n \in Nat, n \in Q
        PROVE  n + 1 \in Q
    <2> SUFFICES ASSUME n + 1 <= Len(s)
                 PROVE  l[n + 1] = k[n + 1]
      OBVIOUS
    <2>1. n + 1 \in 1 .. Len(s) /\ n + 1 \in 0 .. Len(s) /\ n + 1 \in 0 .. Len(u) /\ n + 1 # 0
          /\ (n + 1) - 1 = n /\ l[n] = k[n]
      BY <1>1, <1>7
    <2>2. u[n + 1] = s[n + 1]
      BY <1>1, <2>1
    <2>3. k[n + 1] = IF s[n + 1] \in T THEN Append(k[n], s[n + 1]) ELSE k[n]
      BY <1>4, <2>1, Zenon
    <2>4. l[n + 1] = IF u[n + 1] \in T THEN Append(l[n], u[n + 1]) ELSE l[n]
      BY <1>5, <2>1, Zenon
    <2>5. l[n] = k[n]
      BY <2>1
    <2>6. (u[n + 1] \in T <=> s[n + 1] \in T) /\ Append(l[n], u[n + 1]) = Append(k[n], s[n + 1])
      BY <2>2, <2>5, Zenon
    <2> HIDE DEF Q
    <2> QED BY <2>3, <2>4, <2>5, <2>6, Zenon
  <1>8. Nat \subseteq Q
    <2> HIDE DEF Q
    <2> QED BY <1>6, <1>7, NatSetInduction
  <1>9. l[Len(s)] = k[Len(s)]
    BY <1>1, <1>8
  <1>10. Len(u) \in 0 .. Len(u) /\ Len(u) # 0 /\ Len(u) - 1 = Len(s)
    BY <1>1
  <1>11. l[Len(u)] = IF u[Len(u)] \in T THEN Append(l[Len(s)], u[Len(u)]) ELSE l[Len(s)]
    BY <1>5, <1>10, Zenon
  <1>12. Only(u, T) = IF e \in T THEN Append(Only(s, T), e) ELSE Only(s, T)
    BY <1>1, <1>2, <1>3, <1>9, <1>11, Zenon
  <1> QED BY <1>12 DEF u

\* A selection has the elements of the sequence that are in the set.
LEMMA OnlyRange ==
    ASSUME NEW S, NEW s \in Seq(S), NEW T
    PROVE  /\ Only(s, T) \in Seq(S)
           /\ Range(Only(s, T)) = Range(s) \cap T
  <1> DEFINE Q == {t \in Seq(S) : /\ Only(t, T) \in Seq(S)
                                  /\ Range(Only(t, T)) = Range(t) \cap T}
  <1>1. <<>> \in Q
    BY OnlyEmpty, RangeEmpty, EmptySeq
  <1>2. ASSUME NEW t \in Seq(S), NEW e \in S, t \in Q
        PROVE  Append(t, e) \in Q
    <2> DEFINE o == Only(t, T)
    <2>1. o \in Seq(S) /\ Range(o) = Range(t) \cap T
      BY <1>2
    <2>2. Append(t, e) \in Seq(S) /\ Append(o, e) \in Seq(S)
      BY <2>1, AppendProperties
    <2>3. Range(Append(t, e)) = Range(t) \cup {e} /\ Range(Append(o, e)) = Range(o) \cup {e}
      <3> HIDE DEF o
      <3> QED BY <2>1, RangeAppend
    <2>4. Only(Append(t, e), T) = IF e \in T THEN Append(o, e) ELSE o
      BY OnlyAppend
    <2> HIDE DEF o
    <2>5. CASE e \in T
      BY <2>1, <2>2, <2>3, <2>4, <2>5
    <2>6. CASE e \notin T
      BY <2>1, <2>2, <2>3, <2>4, <2>6
    <2> QED BY <2>5, <2>6
  <1>3. s \in Q
    <2> HIDE DEF Q
    <2> QED BY <1>1, <1>2, SeqSetInduction
  <1> QED BY <1>3

\* A selection is not longer than the sequence.
LEMMA OnlyLength ==
    ASSUME NEW S, NEW s \in Seq(S), NEW T
    PROVE  Len(Only(s, T)) \in Nat /\ Len(Only(s, T)) <= Len(s)
  <1> DEFINE Q == {t \in Seq(S) : Len(Only(t, T)) <= Len(t)}
  <1>1. <<>> \in Q
    BY OnlyEmpty, EmptySeq
  <1>2. ASSUME NEW t \in Seq(S), NEW e \in S, t \in Q
        PROVE  Append(t, e) \in Q
    <2>1. PICK o : o = Only(t, T)
      OBVIOUS
    <2>2. o \in Seq(S) /\ Len(o) <= Len(t)
      BY <1>2, <2>1, OnlyRange
    <2>3. Only(Append(t, e), T) = IF e \in T THEN Append(o, e) ELSE o
      BY <2>1, OnlyAppend
    <2>4. Append(t, e) \in Seq(S) /\ Len(Append(t, e)) = Len(t) + 1 /\ Len(Append(o, e)) = Len(o) + 1
          /\ Len(t) \in Nat /\ Len(o) \in Nat
      BY <2>2
    <2> QED BY <2>2, <2>3, <2>4
  <1>3. s \in Q
    <2> HIDE DEF Q
    <2> QED BY <1>1, <1>2, SeqSetInduction
  <1>4. Only(s, T) \in Seq(S)
    BY OnlyRange
  <1> QED BY <1>3, <1>4

\* The head of a sequence is the head of the selection, or is not selected.
LEMMA OnlyTail ==
    ASSUME NEW S, NEW s \in Seq(S), s # <<>>, NEW T
    PROVE  IF Head(s) \in T
           THEN /\ Only(s, T) # <<>> /\ Head(Only(s, T)) = Head(s)
                /\ Only(Tail(s), T) = Tail(Only(s, T))
           ELSE Only(Tail(s), T) = Only(s, T)
  <1> DEFINE Taken(t) == IF Head(t) \in T
                         THEN /\ Only(t, T) # <<>> /\ Head(Only(t, T)) = Head(t)
                              /\ Only(Tail(t), T) = Tail(Only(t, T))
                         ELSE Only(Tail(t), T) = Only(t, T)
             Q == {t \in Seq(S) : t # <<>> => Taken(t)}
  <1>1. <<>> \in Q
    BY EmptySeq
  <1>2. ASSUME NEW t \in Seq(S), NEW e \in S, t \in Q
        PROVE  Append(t, e) \in Q
    <2>1. Append(t, e) \in Seq(S) /\ Append(t, e) # <<>> /\ Only(t, T) \in Seq(S)
      BY OnlyRange
    <2>2. Only(Append(t, e), T) = IF e \in T THEN Append(Only(t, T), e) ELSE Only(t, T)
      BY OnlyAppend
    <2>3. CASE t = <<>>
      <3>1. Head(Append(t, e)) = e /\ Tail(Append(t, e)) = <<>>
        BY <2>3
      <3>2. Only(t, T) = <<>>
        BY <2>3, OnlyEmpty
      <3>3. Append(<<>>, e) # <<>> /\ Head(Append(<<>>, e)) = e /\ Tail(Append(<<>>, e)) = <<>>
        OBVIOUS
      <3>4. Only(<<>>, T) = <<>>
        BY OnlyEmpty
      <3>5. Taken(Append(t, e))
        BY <2>2, <3>1, <3>2, <3>3, <3>4, Zenon
      <3> QED BY <2>1, <3>5
    <2>4. CASE t # <<>>
      <3>1. /\ Head(Append(t, e)) = Head(t) /\ Tail(Append(t, e)) = Append(Tail(t), e)
            /\ Tail(t) \in Seq(S)
        BY <2>4
      <3>2. Only(Append(Tail(t), e), T)
              = IF e \in T THEN Append(Only(Tail(t), T), e) ELSE Only(Tail(t), T)
        BY <3>1, OnlyAppend
      <3>3. Taken(t)
        BY <1>2, <2>4
      <3> DEFINE o == Only(t, T)
      <3>4. o \in Seq(S)
        BY <2>1
      <3> HIDE DEF o
      <3>5. o # <<>> => /\ Append(o, e) # <<>> /\ Head(Append(o, e)) = Head(o)
                        /\ Tail(Append(o, e)) = Append(Tail(o), e)
        BY <3>4
      <3>6. Taken(Append(t, e))
        BY <2>2, <3>1, <3>2, <3>3, <3>5, Zenon DEF o
      <3> HIDE DEF Taken
      <3> QED BY <2>1, <3>6
    <2> QED BY <2>3, <2>4
  <1>3. s \in Q
    <2> HIDE DEF Q
    <2> QED BY <1>1, <1>2, SeqSetInduction
  <1> QED BY <1>3

\* Appending an element that is not there keeps a sequence without repetitions, and
\* only that does.
LEMMA InjectiveAppend ==
    ASSUME NEW S, NEW s \in Seq(S), NEW e \in S
    PROVE  IsInjective(Append(s, e)) <=> IsInjective(s) /\ e \notin Range(s)
  <1> DEFINE t == Append(s, e)
  <1>1. t \in Seq(S) /\ Len(t) = Len(s) + 1 /\ Len(s) \in Nat /\ t[Len(s) + 1] = e
        /\ \A n \in 1 .. Len(s) : t[n] = s[n]
    OBVIOUS
  <1>2. \A n : n \in 1 .. Len(t) <=> n \in 1 .. Len(s) \/ n = Len(s) + 1
    BY <1>1
  <1>3. \A n \in 1 .. Len(s) : n # Len(s) + 1
    BY <1>1
  <1> HIDE DEF t
  <1>4. DOMAIN t = 1 .. Len(t) /\ DOMAIN s = 1 .. Len(s)
    BY <1>1, LenProperties
  <1>5. IsInjective(t) <=> \A a, b \in 1 .. Len(t) : t[a] = t[b] => a = b
    BY <1>4 DEF IsInjective
  <1>6. IsInjective(s) <=> \A a, b \in 1 .. Len(s) : s[a] = s[b] => a = b
    BY <1>4 DEF IsInjective
  <1>7. e \in Range(s) <=> \E n \in 1 .. Len(s) : s[n] = e
    BY InRange
  <1>8. IsInjective(t) <=> IsInjective(s) /\ e \notin Range(s)
    <2>1. ASSUME IsInjective(t)
          PROVE  IsInjective(s) /\ e \notin Range(s)
      <3>1. ASSUME NEW a \in 1 .. Len(s), NEW b \in 1 .. Len(s), s[a] = s[b]
            PROVE  a = b
        BY <1>1, <1>2, <1>5, <2>1, <3>1, Zenon
      <3>2. ASSUME NEW n \in 1 .. Len(s), s[n] = e
            PROVE  FALSE
        BY <1>1, <1>2, <1>3, <1>5, <2>1, <3>2, Zenon
      <3> QED BY <1>6, <1>7, <3>1, <3>2
    <2>2. ASSUME IsInjective(s), e \notin Range(s), NEW a \in 1 .. Len(t), NEW b \in 1 .. Len(t),
                 t[a] = t[b]
          PROVE  a = b
      BY <1>1, <1>2, <1>6, <1>7, <2>2, Zenon
    <2> QED BY <1>5, <2>1, <2>2, Zenon
  <1> QED BY <1>8 DEF t

\* The head of a sequence and the rest of it.
LEMMA HeadAndTail ==
    ASSUME NEW S, NEW s \in Seq(S), s # <<>>
    PROVE  /\ Head(s) \in S
           /\ Tail(s) \in Seq(S)
           /\ Range(s) = {Head(s)} \cup Range(Tail(s))
           /\ IsInjective(s) => IsInjective(Tail(s)) /\ Head(s) \notin Range(Tail(s))
  <1> DEFINE t == Tail(s)
             h == Head(s)
             n == Len(t)
  <1>1. /\ Len(s) = n + 1 /\ n \in Nat /\ t \in Seq(S) /\ h \in S
        /\ s[1] = h
        /\ \A i \in 1 .. n : s[i + 1] = t[i]
    OBVIOUS
  <1> HIDE DEF t, h
  <1>2. /\ \A x : x \in Range(s) <=> \E i \in 1 .. Len(s) : s[i] = x
        /\ \A x : x \in Range(t) <=> \E i \in 1 .. n : t[i] = x
        /\ DOMAIN s = 1 .. Len(s) /\ DOMAIN t = 1 .. n
    BY <1>1, InRange, LenProperties
  <1> HIDE DEF n
  <1>3. ASSUME NEW x \in Range(s)
        PROVE  x = h \/ x \in Range(t)
    <2>1. PICK i \in 1 .. n + 1 : s[i] = x
      BY <1>1, <1>2
    <2>2. CASE i # 1
      <3>1. i - 1 \in 1 .. n /\ (i - 1) + 1 = i
        BY <1>1, <2>2
      <3>2. t[i - 1] = x
        BY <1>1, <2>1, <3>1
      <3> QED BY <1>2, <3>1, <3>2
    <2> QED BY <1>1, <2>1, <2>2
  <1>4. ASSUME NEW i \in 1 .. n
        PROVE  i + 1 \in 1 .. Len(s) /\ i + 1 # 1 /\ 1 \in 1 .. Len(s)
    BY <1>1
  <1>5. h \in Range(s) /\ \A i \in 1 .. n : t[i] \in Range(s)
    <2>1. 1 \in 1 .. Len(s)
      BY <1>1
    <2>2. \A i \in 1 .. Len(s) : s[i] \in Range(s)
      BY <1>2
    <2> QED BY <1>1, <1>4, <2>1, <2>2
  <1>6. Range(s) = {h} \cup Range(t)
    <2>1. \A x \in Range(t) : x \in Range(s)
      BY <1>2, <1>5
    <2> QED BY <1>3, <1>5, <2>1
  <1>7. ASSUME IsInjective(s)
        PROVE  IsInjective(t) /\ h \notin Range(t)
    <2>1. \A i, j \in 1 .. Len(s) : s[i] = s[j] => i = j
      BY <1>2, <1>7 DEF IsInjective
    <2>2. ASSUME NEW i \in 1 .. n, NEW j \in 1 .. n, t[i] = t[j]
          PROVE  i = j
      <3>1. s[i + 1] = s[j + 1]
        BY <1>1, <2>2
      <3>2. i + 1 = j + 1
        BY <1>4, <2>1, <3>1
      <3> QED BY <3>2
    <2>3. ASSUME NEW i \in 1 .. n
          PROVE  t[i] # h
      BY <1>1, <1>4, <2>1
    <2> QED BY <1>2, <2>2, <2>3 DEF IsInjective
  <1> QED BY <1>1, <1>6, <1>7 DEF t, h

\* A sequence with two elements more.
LEMMA TwoMore ==
    ASSUME NEW S, NEW s \in Seq(S), NEW t \in Seq(S), Len(t) = 2
    PROVE  /\ s \o t \in Seq(S) /\ Len(s \o t) = Len(s) + 2
           /\ \A k \in 1 .. Len(s) : (s \o t)[k] = s[k]
           /\ (s \o t)[Len(s) + 1] = t[1] /\ (s \o t)[Len(s) + 2] = t[2]
  <1>1. Len(s) \in Nat
    OBVIOUS
  <1>5. /\ s \o t \in Seq(S) /\ Len(s \o t) = Len(s) + Len(t)
        /\ \A k \in 1 .. Len(s) + Len(t) :
             (s \o t)[k] = IF k <= Len(s) THEN s[k] ELSE t[k - Len(s)]
    BY ConcatProperties, Zenon
  <1>2. /\ s \o t \in Seq(S) /\ Len(s \o t) = Len(s) + 2
        /\ \A k \in 1 .. Len(s) + 2 :
             (s \o t)[k] = IF k <= Len(s) THEN s[k] ELSE t[k - Len(s)]
    BY <1>5, Zenon
  <1>3. ASSUME NEW k \in {1, 2}
        PROVE  (s \o t)[Len(s) + k] = t[k]
    <2>1. /\ Len(s) + k \in 1 .. Len(s) + 2 /\ ~(Len(s) + k <= Len(s))
          /\ (Len(s) + k) - Len(s) = k
      BY <1>1
    <2> QED BY <1>2, <2>1
  <1>4. \A k \in 1 .. Len(s) : k \in 1 .. Len(s) + 2 /\ k <= Len(s)
    BY <1>1
  <1> QED BY <1>2, <1>3, <1>4

\* A sequence of one.
LEMMA Singleton ==
    ASSUME NEW S, NEW e \in S
    PROVE  <<e>> \in Seq(S) /\ Range(<<e>>) = {e} /\ IsInjective(<<e>>)
  <1>1. <<e>> \in Seq(S) /\ DOMAIN <<e>> = {1} /\ <<e>>[1] = e
    OBVIOUS
  <1> QED BY <1>1 DEF Range, IsInjective

\* Two sequences without repetitions that have nothing in common.
LEMMA InjectiveConcat ==
    ASSUME NEW S, NEW s \in Seq(S), NEW t \in Seq(S), IsInjective(s), IsInjective(t),
           Range(s) \cap Range(t) = {}
    PROVE  IsInjective(s \o t)
  <1> DEFINE u == s \o t
             m == Len(s)
             n == Len(t)
  <1>1. /\ u \in Seq(S) /\ Len(u) = m + n /\ m \in Nat /\ n \in Nat
        /\ \A i \in 1 .. m : u[i] = s[i]
        /\ \A i \in 1 .. n : u[m + i] = t[i]
    BY ConcatProperties, LenProperties
  <1>2. /\ \A i \in 1 .. m + n : i \in 1 .. m \/ (i - m \in 1 .. n /\ m + (i - m) = i)
        /\ DOMAIN u = 1 .. m + n /\ DOMAIN s = 1 .. m /\ DOMAIN t = 1 .. n
    BY <1>1, LenProperties
  <1>3. /\ \A i \in 1 .. m : s[i] \in Range(s)
        /\ \A i \in 1 .. n : t[i] \in Range(t)
    BY InRange
  <1> HIDE DEF u, m, n
  <1>4. /\ \A i, j \in 1 .. m : s[i] = s[j] => i = j
        /\ \A i, j \in 1 .. n : t[i] = t[j] => i = j
    BY <1>2 DEF IsInjective
  <1>5. ASSUME NEW i \in 1 .. m + n, NEW j \in 1 .. m + n, u[i] = u[j]
        PROVE  i = j
    <2>1. CASE i \in 1 .. m /\ j \in 1 .. m
      BY <1>1, <1>4, <1>5, <2>1, Zenon
    <2>2. CASE i \in 1 .. m /\ j - m \in 1 .. n /\ m + (j - m) = j
      <3>1. s[i] = t[j - m]
        BY <1>1, <1>5, <2>2, Zenon
      <3> QED BY <1>3, <2>2, <3>1
    <2>3. CASE i - m \in 1 .. n /\ m + (i - m) = i /\ j \in 1 .. m
      <3>1. s[j] = t[i - m]
        BY <1>1, <1>5, <2>3, Zenon
      <3> QED BY <1>3, <2>3, <3>1
    <2>4. CASE i - m \in 1 .. n /\ m + (i - m) = i /\ j - m \in 1 .. n /\ m + (j - m) = j
      <3>1. t[i - m] = t[j - m]
        BY <1>1, <1>5, <2>4, Zenon
      <3>2. i - m = j - m
        BY <1>4, <2>4, <3>1, Zenon
      <3> QED BY <2>4, <3>2, Zenon
    <2> QED BY <1>2, <2>1, <2>2, <2>3, <2>4
  <1>6. IsInjective(u)
    BY <1>2, <1>5 DEF IsInjective
  <1> QED BY <1>6 DEF u

\* A selection of a sequence without repetitions has none.
LEMMA OnlyInjective ==
    ASSUME NEW S, NEW s \in Seq(S), NEW T, IsInjective(s)
    PROVE  IsInjective(Only(s, T))
  <1> DEFINE Q == {t \in Seq(S) : IsInjective(t) => IsInjective(Only(t, T))}
  <1>1. <<>> \in Q
    BY OnlyEmpty, EmptySeq
  <1>2. ASSUME NEW t \in Seq(S), NEW e \in S, t \in Q
        PROVE  Append(t, e) \in Q
    <2> DEFINE o == Only(t, T)
    <2> SUFFICES ASSUME IsInjective(Append(t, e))
                 PROVE  IsInjective(Only(Append(t, e), T))
      BY AppendProperties
    <2>1. IsInjective(t) /\ e \notin Range(t)
      BY InjectiveAppend
    <2>2. IsInjective(o) /\ o \in Seq(S) /\ Range(o) = Range(t) \cap T
      BY <1>2, <2>1, OnlyRange
    <2>3. Only(Append(t, e), T) = IF e \in T THEN Append(o, e) ELSE o
      BY OnlyAppend
    <2> HIDE DEF o
    <2>4. IsInjective(Append(o, e))
      BY <2>1, <2>2, InjectiveAppend
    <2> QED BY <2>2, <2>3, <2>4
  <1>3. s \in Q
    <2> HIDE DEF Q
    <2> QED BY <1>1, <1>2, SeqSetInduction
  <1> QED BY <1>3

\* What is left of a sequence when the elements of a set are taken out.
LEMMA OnlyOutside ==
    ASSUME NEW S, NEW s \in Seq(S), NEW T
    PROVE  /\ Only(s, Range(s) \ T) \in Seq(S)
           /\ Range(Only(s, Range(s) \ T)) = Range(s) \ T
           /\ IsInjective(s) => IsInjective(Only(s, Range(s) \ T))
  <1>1. /\ Only(s, Range(s) \ T) \in Seq(S)
        /\ Range(Only(s, Range(s) \ T)) = Range(s) \cap (Range(s) \ T)
    BY OnlyRange
  <1>2. IsInjective(s) => IsInjective(Only(s, Range(s) \ T))
    BY OnlyInjective
  <1> QED BY <1>1, <1>2

\* A sequence joined by the elements of another one that it has not.
LEMMA Joined ==
    ASSUME NEW S, NEW s \in Seq(S), NEW t \in Seq(S), NEW T, T \cap Range(s) = {},
           T \subseteq Range(t)
    PROVE  /\ s \o Only(t, T) \in Seq(S)
           /\ Range(s \o Only(t, T)) = Range(s) \cup T
           /\ IsInjective(s) /\ IsInjective(t) => IsInjective(s \o Only(t, T))
  <1> DEFINE added == Only(t, T)
  <1>1. added \in Seq(S) /\ Range(added) = Range(t) \cap T
    BY OnlyRange
  <1>2. IsInjective(t) => IsInjective(added)
    BY OnlyInjective
  <1> HIDE DEF added
  <1>3. s \o added \in Seq(S) /\ Range(s \o added) = Range(s) \cup Range(added)
    BY <1>1, RangeConcat, ConcatProperties
  <1>4. Range(s) \cap Range(added) = {}
    BY <1>1
  <1>5. IsInjective(s) /\ IsInjective(t) => IsInjective(s \o added)
    BY <1>1, <1>2, <1>4, InjectiveConcat
  <1>6. /\ s \o added \in Seq(S)
        /\ Range(s \o added) = Range(s) \cup T
        /\ IsInjective(s) /\ IsInjective(t) => IsInjective(s \o added)
    BY <1>1, <1>3, <1>5
  <1> QED BY <1>6 DEF added

\* A selection depends only on which elements of the sequence are in the set.
LEMMA OnlySame ==
    ASSUME NEW S, NEW s \in Seq(S), NEW T, NEW U, Range(s) \cap T = Range(s) \cap U
    PROVE  Only(s, T) = Only(s, U)
  <1> DEFINE Q == {t \in Seq(S) : Range(t) \cap T = Range(t) \cap U => Only(t, T) = Only(t, U)}
  <1>1. <<>> \in Q
    BY OnlyEmpty, EmptySeq
  <1>2. ASSUME NEW t \in Seq(S), NEW e \in S, t \in Q
        PROVE  Append(t, e) \in Q
    <2> SUFFICES ASSUME Range(Append(t, e)) \cap T = Range(Append(t, e)) \cap U
                 PROVE  Only(Append(t, e), T) = Only(Append(t, e), U)
      BY AppendProperties
    <2>1. Range(Append(t, e)) = Range(t) \cup {e}
      BY RangeAppend
    <2>2. Range(t) \cap T = Range(t) \cap U /\ (e \in T <=> e \in U)
      BY <2>1
    <2>3. Only(t, T) = Only(t, U)
      BY <1>2, <2>2
    <2>4. /\ Only(Append(t, e), T) = IF e \in T THEN Append(Only(t, T), e) ELSE Only(t, T)
          /\ Only(Append(t, e), U) = IF e \in U THEN Append(Only(t, U), e) ELSE Only(t, U)
      BY OnlyAppend
    <2> QED BY <2>2, <2>3, <2>4, Zenon
  <1>3. s \in Q
    <2> HIDE DEF Q
    <2> QED BY <1>1, <1>2, SeqSetInduction
  <1> QED BY <1>3
-----------------------------------------------------------------------------
(* FlattenSeq.                                                             *)

\* The recursive function in FlattenSeq is what its definition says.
LEMMA FlattenFunction ==
    ASSUME NEW S, NEW s \in Seq(S), s # <<>>
    PROVE  \E f : /\ f = [i \in 1 .. Len(s) |-> IF i = 1 THEN s[i] ELSE f[i - 1] \o s[i]]
                  /\ FlattenSeq(s) = f[Len(s)]
  <1> DEFINE Flat(t, f) == f = [i \in 1 .. Len(t) |-> IF i = 1 THEN t[i] ELSE f[i - 1] \o t[i]]
             Q == {t \in Seq(S) : \E f : Flat(t, f)}
  <1>1. <<>> \in Q
    <2>1. Flat(<<>>, <<>>)
      OBVIOUS
    <2> QED BY <2>1, EmptySeq
  <1>2. ASSUME NEW t \in Seq(S), NEW e \in S, t \in Q
        PROVE  Append(t, e) \in Q
    <2> DEFINE u == Append(t, e)
    <2>1. PICK f : Flat(t, f)
      BY <1>2
    <2> DEFINE g == [i \in 1 .. Len(u) |->
                       IF i = Len(u) THEN IF i = 1 THEN e ELSE f[i - 1] \o e ELSE f[i]]
    <2>2. u \in Seq(S) /\ Len(u) = Len(t) + 1 /\ Len(t) \in Nat /\ u[Len(u)] = e
          /\ \A n \in 1 .. Len(t) : u[n] = t[n]
      OBVIOUS
    <2>3. ASSUME NEW i \in 1 .. Len(u)
          PROVE  g[i] = IF i = 1 THEN u[i] ELSE g[i - 1] \o u[i]
      <3>1. CASE i = Len(u)
        <4>1. CASE i = 1
          BY <2>2, <3>1, <4>1
        <4>2. CASE i # 1
          <5>1. i - 1 \in 1 .. Len(u) /\ i - 1 # Len(u)
            BY <2>2, <3>1, <4>2
          <5>2. g[i - 1] = f[i - 1] /\ g[i] = f[i - 1] \o e
            BY <3>1, <4>2, <5>1, Zenon
          <5> QED BY <2>2, <3>1, <4>2, <5>2, Zenon
        <4> QED BY <4>1, <4>2
      <3>2. CASE i \in 1 .. Len(t)
        <4>1. i # Len(u)
          BY <2>2, <3>2
        <4>2. g[i] = f[i] /\ u[i] = t[i]
          BY <2>2, <3>2, <4>1, Zenon
        <4>3. f[i] = IF i = 1 THEN t[i] ELSE f[i - 1] \o t[i]
          BY <2>1, <3>2, Zenon
        <4>4. CASE i # 1
          <5>1. i - 1 \in 1 .. Len(u) /\ i - 1 # Len(u)
            BY <2>2, <3>2, <4>4
          <5>2. g[i - 1] = f[i - 1]
            BY <5>1, Zenon
          <5> QED BY <4>2, <4>3, <4>4, <5>2, Zenon
        <4> QED BY <4>2, <4>3, <4>4, Zenon
      <3> QED BY <2>2, <3>1, <3>2
    <2>4. Flat(u, g)
      <3>1. g = [i \in 1 .. Len(u) |-> g[i]]
        OBVIOUS
      <3> HIDE DEF g
      <3> QED BY <2>3, <3>1, Zenon
    <2> QED BY <2>2, <2>4
  <1>3. s \in Q
    <2> HIDE DEF Q
    <2> QED BY <1>1, <1>2, SeqSetInduction
  <1>4. \E f : Flat(s, f)
    BY <1>3
  <1> DEFINE flatten == CHOOSE f : Flat(s, f)
  <1>5. Flat(s, flatten)
    BY <1>4, Zenon
  <1>6. Len(s) # 0
    OBVIOUS
  <1>7. FlattenSeq(s) = flatten[Len(s)]
    BY <1>6, Zenon DEF FlattenSeq
  <1> QED BY <1>5, <1>7, Zenon

LEMMA FlattenEmpty == FlattenSeq(<<>>) = <<>>
  <1>1. Len(<<>>) = 0
    OBVIOUS
  <1> QED BY <1>1, Zenon DEF FlattenSeq

\* One more part goes to the end.
LEMMA FlattenAppend ==
    ASSUME NEW B, NEW s \in Seq(Seq(B)), NEW e \in Seq(B)
    PROVE  FlattenSeq(Append(s, e)) = FlattenSeq(s) \o e
  <1> DEFINE u == Append(s, e)
  <1>1. u \in Seq(Seq(B)) /\ Len(u) = Len(s) + 1 /\ Len(s) \in Nat /\ u[Len(u)] = e
        /\ (\A n \in 1 .. Len(s) : u[n] = s[n]) /\ u # <<>>
    <2> DEFINE S == Seq(B)
    <2>1. s \in Seq(S) /\ e \in S
      OBVIOUS
    <2> HIDE DEF S
    <2>2. u \in Seq(S) /\ Len(u) = Len(s) + 1 /\ Len(s) \in Nat /\ u[Len(u)] = e
          /\ (\A n \in 1 .. Len(s) : u[n] = s[n]) /\ u # <<>>
      BY <2>1
    <2> QED BY <2>2 DEF S
  <1> HIDE DEF u
  <1>2. PICK g : /\ g = [i \in 1 .. Len(u) |-> IF i = 1 THEN u[i] ELSE g[i - 1] \o u[i]]
                 /\ FlattenSeq(u) = g[Len(u)]
    BY <1>1, FlattenFunction
  <1>3. \A i \in 1 .. Len(u) : g[i] = IF i = 1 THEN u[i] ELSE g[i - 1] \o u[i]
    BY <1>2, Zenon
  <1>4. CASE s = <<>>
    <2>1. Len(u) = 1 /\ 1 \in 1 .. Len(u)
      BY <1>1, <1>4
    <2>2. FlattenSeq(u) = e
      BY <1>1, <1>2, <1>3, <2>1, Zenon
    <2>3. FlattenSeq(s) \o e = e
      <3>1. FlattenSeq(s) = <<>>
        BY <1>4, FlattenEmpty
      <3> QED BY <3>1, ConcatEmptySeq
    <2> QED BY <2>2, <2>3 DEF u
  <1>5. CASE s # <<>>
    <2>1. PICK f : /\ f = [i \in 1 .. Len(s) |-> IF i = 1 THEN s[i] ELSE f[i - 1] \o s[i]]
                   /\ FlattenSeq(s) = f[Len(s)]
      BY <1>5, FlattenFunction
    <2>2. \A i \in 1 .. Len(s) : f[i] = IF i = 1 THEN s[i] ELSE f[i - 1] \o s[i]
      BY <2>1, Zenon
    <2> DEFINE Q == {n \in Nat : n \in 1 .. Len(s) => g[n] = f[n]}
    <2>3. 0 \in Q
      OBVIOUS
    <2>4. ASSUME NEW n \in Nat, n \in Q
          PROVE  n + 1 \in Q
      <3> SUFFICES ASSUME n + 1 \in 1 .. Len(s)
                   PROVE  g[n + 1] = f[n + 1]
        OBVIOUS
      <3>1. n + 1 \in 1 .. Len(u) /\ u[n + 1] = s[n + 1] /\ (n + 1) - 1 = n
        BY <1>1
      <3>2. /\ g[n + 1] = IF n + 1 = 1 THEN u[n + 1] ELSE g[n] \o u[n + 1]
            /\ f[n + 1] = IF n + 1 = 1 THEN s[n + 1] ELSE f[n] \o s[n + 1]
        BY <1>3, <2>2, <3>1, Zenon
      <3>3. n + 1 = 1 \/ g[n] = f[n]
        BY <2>4
      <3> HIDE DEF Q
      <3> QED BY <3>1, <3>2, <3>3, Zenon
    <2>5. Nat \subseteq Q
      <3> HIDE DEF Q
      <3> QED BY <2>3, <2>4, NatSetInduction
    <2>6. Len(s) \in 1 .. Len(s) /\ Len(u) \in 1 .. Len(u) /\ Len(u) # 1 /\ Len(u) - 1 = Len(s)
      BY <1>1, <1>5
    <2>7. g[Len(s)] = f[Len(s)]
      BY <1>1, <2>5, <2>6
    <2>8. g[Len(u)] = g[Len(s)] \o e
      BY <1>1, <1>3, <2>6, Zenon
    <2>9. FlattenSeq(u) = FlattenSeq(s) \o e
      BY <1>2, <2>1, <2>7, <2>8, Zenon
    <2> QED BY <2>9 DEF u
  <1> QED BY <1>4, <1>5

\* What is flattened is a sequence of the elements of the parts.
LEMMA FlattenType ==
    ASSUME NEW B, NEW s \in Seq(Seq(B))
    PROVE  FlattenSeq(s) \in Seq(B)
  <1> DEFINE Q == {t \in Seq(Seq(B)) : FlattenSeq(t) \in Seq(B)}
  <1>1. <<>> \in Q
    BY FlattenEmpty, EmptySeq
  <1>2. ASSUME NEW t \in Seq(Seq(B)), NEW e \in Seq(B), t \in Q
        PROVE  Append(t, e) \in Q
    BY <1>2, FlattenAppend, AppendProperties, ConcatProperties
  <1>3. s \in Q
    <2> HIDE DEF Q
    <2> QED BY <1>1, <1>2, SeqSetInduction
  <1> QED BY <1>3
-----------------------------------------------------------------------------
(* Beginnings and ends.                                                    *)

\* Concatenation is associative, also with one element more: the library's facts, in a
\* form that the provers use.
Regroups(s, t, u) == (s \o t) \o u = s \o (t \o u)

Associates(S) ==
    /\ \A s, t, u \in Seq(S) : Regroups(s, t, u)
    /\ \A s, t \in Seq(S), e \in S : Append(s \o t, e) = s \o Append(t, e)

LEMMA Associative == ASSUME NEW S PROVE Associates(S)
  <1>1. \A s, t, u \in Seq(S) : (s \o t) \o u = s \o (t \o u)
    BY ConcatAssociative
  <1>2. \A s, t \in Seq(S), e \in S : Append(s \o t, e) = s \o Append(t, e)
    OBVIOUS
  <1> QED BY <1>1, <1>2, Zenon DEF Associates, Regroups

\* When two sequences are cut in two parts each and are the same, what the first
\* part of one has more than that of the other is the beginning of the other's rest.
LEMMA DropFront ==
    ASSUME NEW S, NEW x \in Seq(S), NEW y \in Seq(S), NEW u \in Seq(S), NEW v \in Seq(S),
           x \o y = u \o v, Len(u) <= Len(x)
    PROVE  SubSeq(x, Len(u) + 1, Len(x)) \o y = v
  <1> DEFINE k == Len(u)
             n == Len(x)
             front == SubSeq(x, 1, k)
             rest == SubSeq(x, k + 1, n)
  <1>1. k \in Nat /\ n \in Nat /\ k <= n
    OBVIOUS
  <1>2. front \in Seq(S) /\ rest \in Seq(S) /\ Len(front) = k
        /\ \A i \in 1 .. k : front[i] = x[i]
    OBVIOUS
  <1>3. x = front \o rest
    <2>1. 1 \in 1 .. n + 1 /\ k \in 1 - 1 .. n /\ n \in k .. n
      BY <1>1
    <2>2. SubSeq(x, 1, k) \o SubSeq(x, k + 1, n) = SubSeq(x, 1, n)
      BY <2>1, ConcatAdjacentSubSeq
    <2>3. SubSeq(x, 1, n) = x
      BY SubSeqFull
    <2> QED BY <2>2, <2>3
  <1>4. front = u
    <2>1. ASSUME NEW i \in 1 .. k
          PROVE  x[i] = u[i]
      <3>1. /\ i \in 1 .. n /\ i \in 1 .. Len(x) + Len(y) /\ i <= Len(x)
            /\ i \in 1 .. Len(u) + Len(v) /\ i <= Len(u)
        BY <1>1, LenProperties
      <3>2. (x \o y)[i] = x[i] /\ (u \o v)[i] = u[i]
        BY <3>1, ConcatProperties
      <3> QED BY <3>2
    <2> HIDE DEF front, k
    <2>2. Len(u) = k
      BY DEF k
    <2> QED BY <1>2, <2>1, <2>2, SeqEqual
  <1> HIDE DEF front, rest
  <1>5. u \o (rest \o y) = u \o v
    <2>1. (front \o rest) \o y = front \o (rest \o y)
      <3>1. front \in Seq(S) /\ rest \in Seq(S) /\ y \in Seq(S)
        BY <1>2
      <3>2. Associates(S)
        BY Associative
      <3> QED BY <3>1, <3>2, Zenon DEF Associates, Regroups
    <2> QED BY <1>3, <1>4, <2>1
  <1>6. rest \o y \in Seq(S)
    BY <1>2, ConcatProperties
  <1>7. rest \o y = v
    BY <1>5, <1>6, ConcatSimplifications
  <1> QED BY <1>7 DEF rest

\* A sequence may be cut anywhere.
LEMMA CutAnywhere ==
    ASSUME NEW S, NEW s \in Seq(S), NEW n \in 0 .. Len(s)
    PROVE  /\ SubSeq(s, 1, n) \in Seq(S) /\ SubSeq(s, n + 1, Len(s)) \in Seq(S)
           /\ SubSeq(s, 1, n) \o SubSeq(s, n + 1, Len(s)) = s
  <1>1. Len(s) \in Nat /\ n \in Nat /\ n <= Len(s)
    OBVIOUS
  <1>2. 1 \in 1 .. Len(s) + 1 /\ n \in 1 - 1 .. Len(s) /\ Len(s) \in n .. Len(s)
    BY <1>1
  <1>3. SubSeq(s, 1, n) \o SubSeq(s, n + 1, Len(s)) = SubSeq(s, 1, Len(s))
    BY <1>2, ConcatAdjacentSubSeq
  <1>4. SubSeq(s, 1, Len(s)) = s
    BY SubSeqFull
  <1>5. SubSeq(s, 1, n) \in Seq(S) /\ SubSeq(s, n + 1, Len(s)) \in Seq(S)
    BY <1>1
  <1> QED BY <1>3, <1>4, <1>5

\* The head of a sequence moves to the end of the one before it.
LEMMA MoveHead ==
    ASSUME NEW S, NEW s \in Seq(S), NEW t \in Seq(S), t # <<>>
    PROVE  /\ Head(t) \in S /\ Tail(t) \in Seq(S) /\ Append(s, Head(t)) \in Seq(S)
           /\ Append(s, Head(t)) \o Tail(t) = s \o t
  <1>1. Head(t) \in S /\ Tail(t) \in Seq(S) /\ t = <<Head(t)>> \o Tail(t)
    OBVIOUS
  <1> DEFINE h == Head(t)
             r == Tail(t)
  <1> HIDE DEF h, r
  <1>2. h \in S /\ r \in Seq(S) /\ t = <<h>> \o r
    BY <1>1 DEF h, r
  <1>3. <<h>> \in Seq(S) /\ Append(s, h) = s \o <<h>> /\ Append(s, h) \in Seq(S)
    BY <1>2
  <1>4. Associates(S)
    BY Associative
  <1>5. (s \o <<h>>) \o r = s \o (<<h>> \o r)
    BY <1>2, <1>3, <1>4, ZenonT(40) DEF Associates, Regroups
  <1> QED BY <1>2, <1>3, <1>5 DEF h, r

\* What follows a position of a sequence that gets one element more.
LEMMA SubSeqAppend ==
    ASSUME NEW S, NEW s \in Seq(S), NEW e \in S, NEW j \in 0 .. Len(s)
    PROVE  /\ SubSeq(s, j + 1, Len(s)) \in Seq(S)
           /\ SubSeq(Append(s, e), j + 1, Len(Append(s, e))) = Append(SubSeq(s, j + 1, Len(s)), e)
  <1> DEFINE u == Append(s, e)
             n == Len(s)
             rest == SubSeq(s, j + 1, n)
             more == SubSeq(u, j + 1, n + 1)
  <1>1. u \in Seq(S) /\ Len(u) = n + 1 /\ n \in Nat /\ j \in Nat /\ j <= n /\ u[n + 1] = e
        /\ \A i \in 1 .. n : u[i] = s[i]
    OBVIOUS
  <1>2. rest \in Seq(S) /\ Len(rest) = n - j /\ \A i \in 1 .. n - j : rest[i] = s[j + i]
    BY <1>1
  <1> HIDE DEF u, n
  <1>3. more \in Seq(S) /\ Len(more) = n + 1 - j /\ \A i \in 1 .. n + 1 - j : more[i] = u[j + i]
    BY <1>1
  <1> HIDE DEF rest, more
  <1>4. Append(rest, e) \in Seq(S) /\ Len(Append(rest, e)) = n + 1 - j
        /\ (\A i \in 1 .. n - j : Append(rest, e)[i] = rest[i]) /\ Append(rest, e)[n + 1 - j] = e
    <2>1. (n - j) + 1 = n + 1 - j /\ e \in S
      BY <1>1
    <2>2. /\ Append(rest, e) \in Seq(S) /\ Len(Append(rest, e)) = Len(rest) + 1
          /\ \A i \in 1 .. Len(rest) : Append(rest, e)[i] = rest[i]
          /\ Append(rest, e)[Len(rest) + 1] = e
      BY <1>2, AppendProperties
    <2> QED BY <1>2, <2>1, <2>2
  <1>5. ASSUME NEW i \in 1 .. n + 1 - j
        PROVE  more[i] = Append(rest, e)[i]
    <2>1. CASE i \in 1 .. n - j
      <3>1. j + i \in 1 .. n
        BY <1>1, <2>1
      <3> QED BY <1>1, <1>2, <1>3, <1>4, <2>1, <3>1
    <2>2. CASE i = n + 1 - j
      <3>1. j + i = n + 1
        BY <1>1, <2>2
      <3> QED BY <1>1, <1>3, <1>4, <2>2, <3>1
    <2>3. i \in 1 .. n - j \/ i = n + 1 - j
      BY <1>1
    <2> QED BY <2>1, <2>2, <2>3
  <1>6. more = Append(rest, e)
    BY <1>3, <1>4, <1>5, SeqEqual
  <1> QED BY <1>1, <1>2, <1>6 DEF u, n, rest, more

\* The first of two sequences is a prefix of both.
LEMMA PrefixOfConcat ==
    ASSUME NEW S, NEW s \in Seq(S), NEW t \in Seq(S)
    PROVE  IsPrefix(s, s \o t)
  <1>1. Len(s) \in Nat /\ Len(t) \in Nat /\ Len(s \o t) = Len(s) + Len(t) /\ s \o t \in Seq(S)
        /\ \A i \in 1 .. Len(s) : (s \o t)[i] = s[i]
    OBVIOUS
  <1> DEFINE u == s \o t
  <1> HIDE DEF u
  <1>2. SubSeq(u, 1, Len(s)) = SubSeq(s, 1, Len(s))
    <2>1. /\ SubSeq(u, 1, Len(s)) \in Seq(S) /\ Len(SubSeq(u, 1, Len(s))) = Len(s)
          /\ \A i \in 1 .. Len(s) : SubSeq(u, 1, Len(s))[i] = u[i]
      BY <1>1 DEF u
    <2>2. SubSeq(u, 1, Len(s)) = s
      BY <1>1, <2>1, SeqEqual DEF u
    <2> QED BY <2>2, SubSeqFull
  <1> QED BY <1>1, <1>2 DEF IsPrefix, u

\* A sequence contains the elements of its range.
LEMMA ContainsRange ==
    ASSUME NEW S, NEW s \in Seq(S)
    PROVE  \A e : Contains(s, e) <=> e \in Range(s)
  <1>1. \A x : x \in Range(s) <=> \E i \in 1 .. Len(s) : s[i] = x
    BY InRange
  <1> QED BY <1>1, Zenon DEF Contains

-----------------------------------------------------------------------------
(* Sequences in pieces.                                                    *)

\* The pieces of two sequences of pieces, one after the other.
LEMMA FlattenConcat ==
    ASSUME NEW B, NEW s \in Seq(Seq(B)), NEW t \in Seq(Seq(B))
    PROVE  FlattenSeq(s \o t) = FlattenSeq(s) \o FlattenSeq(t)
  <1> DEFINE S == Seq(B)
             Q == {r \in Seq(S) : FlattenSeq(s \o r) = FlattenSeq(s) \o FlattenSeq(r)}
  <1>1. <<>> \in Q
    <2>1. FlattenSeq(s) \in Seq(B)
      BY FlattenType
    <2>2. FlattenSeq(s) \o <<>> = FlattenSeq(s)
      BY <2>1, ConcatEmptySeq
    <2>3. s \o <<>> = s
      BY ConcatEmptySeq
    <2> QED BY <2>2, <2>3, FlattenEmpty, EmptySeq
  <1>2. ASSUME NEW r \in Seq(S), NEW e \in S, r \in Q
        PROVE  Append(r, e) \in Q
    <2> HIDE DEF S
    <2> DEFINE w == s \o r
    <2>1. s \o Append(r, e) = Append(w, e) /\ w \in Seq(S) /\ Append(r, e) \in Seq(S)
      BY DEF S
    <2> HIDE DEF w
    <2>2. FlattenSeq(Append(w, e)) = FlattenSeq(w) \o e
      BY <2>1, FlattenAppend DEF S
    <2>3. FlattenSeq(Append(r, e)) = FlattenSeq(r) \o e
      BY FlattenAppend DEF S
    <2> DEFINE a == FlattenSeq(s)
               b == FlattenSeq(r)
    <2>4. a \in Seq(B) /\ b \in Seq(B) /\ e \in Seq(B)
      BY FlattenType DEF S
    <2>5. FlattenSeq(w) = a \o b
      BY <1>2 DEF w
    <2> HIDE DEF a, b
    <2>6. (a \o b) \o e = a \o (b \o e)
      BY <2>4, ConcatAssociative, SMTT(30)
    <2>7. FlattenSeq(s \o Append(r, e)) = a \o FlattenSeq(Append(r, e))
      BY <2>1, <2>2, <2>3, <2>5, <2>6, Zenon DEF b
    <2> QED BY <2>1, <2>7 DEF a
  <1>3. t \in Q
    <2> HIDE DEF Q
    <2> QED BY <1>1, <1>2, SeqSetInduction
  <1> QED BY <1>3

\* What is put together from pieces begins with the first one.
LEMMA FlattenFirst ==
    ASSUME NEW B, NEW s \in Seq(Seq(B)), s # <<>>
    PROVE  FlattenSeq(s) = Head(s) \o FlattenSeq(Tail(s))
  <1> DEFINE S == Seq(B)
             e == Head(s)
             r == Tail(s)
  <1>1. e \in S /\ r \in Seq(S) /\ s = <<e>> \o r
    OBVIOUS
  <1>2. <<e>> \in Seq(S) /\ <<e>> = Append(<<>>, e) /\ <<>> \in Seq(S)
    BY <1>1
  <1> HIDE DEF e, r
  <1>3. FlattenSeq(<<e>>) = e
    <2>1. FlattenSeq(Append(<<>>, e)) = FlattenSeq(<<>>) \o e
      BY <1>1, <1>2, FlattenAppend
    <2>2. <<>> \o e = e
      BY <1>1, ConcatEmptySeq
    <2> QED BY <1>2, <2>1, <2>2, FlattenEmpty, Zenon
  <1>4. FlattenSeq(<<e>> \o r) = FlattenSeq(<<e>>) \o FlattenSeq(r)
    BY <1>1, <1>2, FlattenConcat
  <1> QED BY <1>1, <1>3, <1>4, Zenon DEF e, r

\* A part of a sequence.
LEMMA PartOfSeq ==
    ASSUME NEW S, NEW s \in Seq(S), NEW a \in Nat, NEW z \in Nat, a <= z, z <= Len(s)
    PROVE  /\ SubSeq(s, a + 1, z) \in Seq(S) /\ Len(SubSeq(s, a + 1, z)) = z - a
           /\ \A j \in 1 .. z - a : SubSeq(s, a + 1, z)[j] = s[a + j]
  <1>1. Len(s) \in Nat
    OBVIOUS
  <1>2. a + 1 \in Int /\ z \in Int /\ \A i \in a + 1 .. z : s[i] \in S
    BY <1>1
  <1> DEFINE x == SubSeq(s, a + 1, z)
  <1>3. /\ x \in Seq(S) /\ Len(x) = IF a + 1 <= z THEN z - (a + 1) + 1 ELSE 0
        /\ \A i \in 1 .. z - (a + 1) + 1 : x[i] = s[a + 1 + i - 1]
    BY <1>2, SubSeqProperties
  <1> HIDE DEF x
  <1>4. Len(x) = z - a
    BY <1>3
  <1>5. \A i \in 1 .. z - a : i \in 1 .. z - (a + 1) + 1 /\ a + 1 + i - 1 = a + i
    OBVIOUS
  <1>6. \A i \in 1 .. z - a : x[i] = s[a + i]
    BY <1>3, <1>5
  <1> QED BY <1>3, <1>4, <1>6 DEF x

\* A part of a sequence is the same part when something stands in front.
SamePart(e, b, w, a, z) == SubSeq(e \o b, (w + a) + 1, w + z) = SubSeq(b, a + 1, z)

LEMMA PartBehind ==
    ASSUME NEW S, NEW e \in Seq(S), NEW b \in Seq(S), NEW w \in Nat, Len(e) = w,
           NEW a \in Nat, NEW z \in Nat, a <= z, z <= Len(b)
    PROVE  SamePart(e, b, w, a, z)
  <1> DEFINE u == e \o b
             x == SubSeq(u, (w + a) + 1, w + z)
             y == SubSeq(b, a + 1, z)
  <1>1. u \in Seq(S) /\ Len(u) = w + Len(b) /\ \A i \in 1 .. Len(b) : u[w + i] = b[i]
    <2>1. u \in Seq(S) /\ Len(u) = Len(e) + Len(b)
          /\ \A i \in 1 .. Len(b) : u[Len(e) + i] = b[i]
      <3> HIDE DEF x, y
      <3>1. e \o b \in Seq(S) /\ Len(e \o b) = Len(e) + Len(b)
        BY ConcatIndex
      <3>2. \A i \in 1 .. Len(b) : (e \o b)[Len(e) + i] = b[i]
        BY ConcatIndex
      <3> QED BY <3>1, <3>2
    <2> HIDE DEF u
    <2> QED BY <2>1
  <1> HIDE DEF u
  <1>2. w + a \in Nat /\ w + z \in Nat /\ w + a <= w + z /\ w + z <= Len(u)
        /\ (w + z) - (w + a) = z - a
    BY <1>1
  <1>3. x \in Seq(S) /\ Len(x) = (w + z) - (w + a)
        /\ \A j \in 1 .. (w + z) - (w + a) : x[j] = u[(w + a) + j]
    BY <1>1, <1>2, PartOfSeq
  <1>4. y \in Seq(S) /\ Len(y) = z - a /\ \A j \in 1 .. z - a : y[j] = b[a + j]
    BY PartOfSeq
  <1>5. \A j \in 1 .. z - a : a + j \in 1 .. Len(b) /\ (w + a) + j = w + (a + j)
    OBVIOUS
  <1> HIDE DEF x, y
  <1>6. \A j \in 1 .. z - a : x[j] = y[j]
    BY <1>1, <1>2, <1>3, <1>4, <1>5
  <1>7. x = y
    BY <1>2, <1>3, <1>4, <1>6, SeqEqual
  <1> QED BY <1>7, Zenon DEF x, y, u, SamePart

\* Two ways of cutting a sequence at the same place are the same.
LEMMA SameCut ==
    ASSUME NEW S, NEW a \in Seq(S), NEW b \in Seq(S), NEW c \in Seq(S), NEW d \in Seq(S),
           a \o b = c \o d, Len(a) = Len(c)
    PROVE  a = c /\ b = d
  <1>1. \A i \in 1 .. Len(a) : (a \o b)[i] = a[i]
    BY ConcatIndex
  <1>2. \A i \in 1 .. Len(c) : (c \o d)[i] = c[i]
    BY ConcatIndex
  <1>3. \A i \in 1 .. Len(a) : a[i] = c[i]
    BY <1>1, <1>2, Zenon
  <1>4. a = c
    BY <1>3, SeqEqual
  <1>5. a \o b = a \o d
    BY <1>4
  <1> QED BY <1>4, <1>5, ConcatSimplifications

\* Nothing is left out when everything is chosen.
LEMMA OnlyAll ==
    ASSUME NEW S, NEW s \in Seq(S), NEW T, Range(s) \subseteq T
    PROVE  Only(s, T) = s
  <1> DEFINE Q == {t \in Seq(S) : Range(t) \subseteq T => Only(t, T) = t}
  <1>1. <<>> \in Q
    BY OnlyEmpty, EmptySeq
  <1>2. ASSUME NEW t \in Seq(S), NEW e \in S, t \in Q
        PROVE  Append(t, e) \in Q
    <2> SUFFICES ASSUME Range(Append(t, e)) \subseteq T
                 PROVE  Only(Append(t, e), T) = Append(t, e)
      BY AppendProperties
    <2>1. Range(Append(t, e)) = Range(t) \cup {e}
      BY RangeAppend
    <2>2. Range(t) \subseteq T /\ e \in T
      BY <2>1
    <2>3. Only(t, T) = t
      BY <1>2, <2>2
    <2>4. Only(Append(t, e), T) = IF e \in T THEN Append(Only(t, T), e) ELSE Only(t, T)
      BY OnlyAppend
    <2> QED BY <2>2, <2>3, <2>4
  <1>3. s \in Q
    <2> HIDE DEF Q
    <2> QED BY <1>1, <1>2, SeqSetInduction
  <1> QED BY <1>3

\* What holds at a position when it holds at all later ones holds at all.
LEMMA Backwards ==
    ASSUME NEW L \in Nat, NEW T,
           \A p \in 0 .. L : (\A q \in p + 1 .. L : q \in T) => p \in T
    PROVE  0 .. L \subseteq T
  <1> DEFINE Q == {n \in Nat : n <= L => \A p \in L - n .. L : p \in T}
  <1>1. 0 \in Q
    <2>1. \A p \in L - 0 .. L : p \in 0 .. L /\ \A q \in p + 1 .. L : FALSE
      OBVIOUS
    <2> QED BY <2>1
  <1>2. ASSUME NEW n \in Nat, n \in Q
        PROVE  n + 1 \in Q
    <2> SUFFICES ASSUME n + 1 <= L, NEW p \in L - (n + 1) .. L
                 PROVE  p \in T
      OBVIOUS
    <2>1. p \in 0 .. L /\ \A q \in p + 1 .. L : q \in L - n .. L
      OBVIOUS
    <2>2. \A q \in L - n .. L : q \in T
      BY <1>2
    <2> QED BY <2>1, <2>2
  <1>3. L \in Q
    <2>1. Nat \subseteq Q
      <3> HIDE DEF Q
      <3> QED BY <1>1, <1>2, NatSetInduction
    <2> QED BY <2>1
  <1>4. L - L = 0
    OBVIOUS
  <1> QED BY <1>3, <1>4
=============================================================================
