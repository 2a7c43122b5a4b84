---------------------------- MODULE Lists_proofs ----------------------------
(***************************************************************************)
(* Facts about sequences and finite sets that the proofs about the         *)
(* components share: what appending, cutting, concatenating and searching  *)
(* a slice of the code returns, and what sums over finite sets come to.    *)
(* Nothing in this module depends on a component.                          *)
(***************************************************************************)
EXTENDS Integers, SequencesExt, TLAPS, WellFoundedInduction, SequenceTheorems, FiniteSetTheorems

(* A set of naturals that is not empty has a least element.                *)
LEMMA LeastElement ==
  ASSUME NEW I, I \subseteq Nat, I # {}
  PROVE  Min(I) \in I /\ \A y \in I : Min(I) <= y
<1> DEFINE R == OpToRel(<, Nat)
<1>1. \E x \in I : \A y \in I : ~ (<<y, x>> \in R)
  <2> HIDE DEF R
  <2>1. IsWellFoundedOn(R, Nat)
    BY NatLessThanWellFounded DEF R
  <2> QED
    BY <2>1, WFMin
<1>2. PICK x \in I : \A y \in I : ~ (<<y, x>> \in R)
  BY <1>1
<1>3. ASSUME NEW y \in I, y < x
      PROVE  FALSE
  <2>1. <<y, x>> \in R
    BY <1>3 DEF OpToRel
  <2> QED
    BY <1>2, <2>1
<1>4. \A y \in I : x <= y
  BY <1>3
<1> QED
  BY <1>4 DEF Min

(* A set that holds zero and the successor of its naturals holds them all. *)
LEMMA NaturalsFollow ==
  ASSUME NEW S, 0 \in S, \A n \in Nat : n \in S => n + 1 \in S
  PROVE  Nat \subseteq S
<1> DEFINE T == {n \in Nat : n \notin S}
<1> SUFFICES ASSUME T # {}
             PROVE  FALSE
  OBVIOUS
<1>1. Min(T) \in T /\ \A y \in T : Min(T) <= y
  BY LeastElement
<1>2. Min(T) # 0 /\ Min(T) - 1 \in Nat /\ Min(T) - 1 \notin T
  BY <1>1
<1> QED
  BY <1>1, <1>2

-----------------------------------------------------------------------------
(* Appending keeps the elements there are and adds one at the end.         *)
LEMMA AppendFacts ==
  ASSUME NEW S, NEW s \in Seq(S), NEW e \in S
  PROVE  /\ Append(s, e) \in Seq(S)
         /\ Len(Append(s, e)) = Len(s) + 1
         /\ \A i \in 1 .. Len(s) : Append(s, e)[i] = s[i]
         /\ Append(s, e)[Len(s) + 1] = e
OBVIOUS

(* What holds of the empty sequence, and of a sequence with one element    *)
(* more, holds of every sequence.                                          *)
LEMMA SequencesFollow ==
  ASSUME NEW S, NEW X, <<>> \in X,
         \A s \in Seq(S) : \A x \in S : s \in X => Append(s, x) \in X
  PROVE  Seq(S) \subseteq X
<1> DEFINE N == {n \in Nat : \A s \in Seq(S) : Len(s) = n => s \in X}
<1>1. 0 \in N
  <2>1. \A s \in Seq(S) : Len(s) = 0 => s = <<>>
    BY EmptySeq
  <2> QED
    BY <2>1
<1>2. ASSUME NEW n \in Nat, n \in N
      PROVE  n + 1 \in N
  <2> SUFFICES ASSUME NEW s \in Seq(S), Len(s) = n + 1
               PROVE  s \in X
    OBVIOUS
  <2>1. PICK r \in Seq(S), x \in S : s = Append(r, x)
    <3>1. s # <<>>
      OBVIOUS
    <3> QED
      BY <3>1, SequenceEmptyOrAppend
  <2>2. Len(r) = n
    <3>1. Len(s) = Len(r) + 1 /\ Len(r) \in Nat
      BY <2>1, AppendProperties
    <3> QED
      BY <3>1
  <2>3. r \in X
    BY <1>2, <2>2
  <2> QED
    BY <2>1, <2>3
<1> HIDE DEF N
<1>3. Nat \subseteq N
  BY <1>1, <1>2, NaturalsFollow
<1>4. \A s \in Seq(S) : Len(s) \in Nat
  OBVIOUS
<1> QED
  BY <1>3, <1>4 DEF N

(* The elements of a sequence, position by position.                       *)
LEMMA ToSetFacts ==
  ASSUME NEW S, NEW s \in Seq(S)
  PROVE  ToSet(s) = {s[i] : i \in 1 .. Len(s)} /\ ToSet(s) \subseteq S
BY DEF ToSet

(* A concatenation, position by position.                                  *)
LEMMA ConcatFacts ==
  ASSUME NEW S, NEW a \in Seq(S), NEW b \in Seq(S)
  PROVE  /\ a \o b \in Seq(S) /\ Len(a \o b) = Len(a) + Len(b)
         /\ \A j \in 1 .. Len(a) : (a \o b)[j] = a[j]
         /\ \A j \in 1 .. Len(b) : (a \o b)[Len(a) + j] = b[j]
OBVIOUS

(* Cutting out one element shifts those behind it.                         *)
LEMMA RemoveAtFacts ==
  ASSUME NEW S, NEW s \in Seq(S), NEW i \in 1 .. Len(s)
  PROVE  /\ RemoveAt(s, i) \in Seq(S)
         /\ Len(RemoveAt(s, i)) = Len(s) - 1
         /\ \A j \in 1 .. i - 1 : RemoveAt(s, i)[j] = s[j]
         /\ \A j \in i .. Len(s) - 1 : RemoveAt(s, i)[j] = s[j + 1]
<1> DEFINE a == SubSeq(s, 1, i - 1)
           b == SubSeq(s, i + 1, Len(s))
<1>0. Len(s) \in Nat /\ i \in 1 .. Len(s)
  OBVIOUS
<1>1. a \in Seq(S) /\ Len(a) = i - 1 /\ \A j \in 1 .. i - 1 : a[j] = s[j]
  BY <1>0
<1>2. b \in Seq(S) /\ Len(b) = Len(s) - i /\ \A j \in 1 .. Len(s) - i : b[j] = s[i + j]
  BY <1>0
<1> HIDE DEF a, b
<1>3. /\ a \o b \in Seq(S) /\ Len(a \o b) = Len(s) - 1
      /\ \A j \in 1 .. i - 1 : (a \o b)[j] = s[j]
      /\ \A j \in 1 .. Len(s) - i : (a \o b)[i - 1 + j] = s[i + j]
  <2>1. /\ a \o b \in Seq(S) /\ Len(a \o b) = Len(a) + Len(b)
        /\ \A j \in 1 .. Len(a) : (a \o b)[j] = a[j]
        /\ \A j \in 1 .. Len(b) : (a \o b)[Len(a) + j] = b[j]
    <3>1. a \in Seq(S) /\ b \in Seq(S)
      BY <1>1, <1>2
    <3> QED
      BY ONLY <3>1, ConcatFacts
  <2> QED
    BY <1>0, <1>1, <1>2, <2>1
<1>4. \A j \in i .. Len(s) - 1 : (a \o b)[j] = s[j + 1]
  <2> SUFFICES ASSUME NEW j \in i .. Len(s) - 1
               PROVE  (a \o b)[j] = s[j + 1]
    OBVIOUS
  <2> DEFINE k == j - (i - 1)
  <2>1. k \in 1 .. Len(s) - i /\ i - 1 + k = j /\ i + k = j + 1
    BY <1>0
  <2> HIDE DEF k
  <2> QED
    BY <1>3, <2>1
<1>5. RemoveAt(s, i) = a \o b
  BY DEF RemoveAt, a, b
<1> QED
  BY <1>3, <1>4, <1>5

(* What SelectInSeq makes of the positions I that pass its test.           *)
LEMMA FirstOf ==
  ASSUME NEW n \in Nat, NEW I, I \subseteq 1 .. n,
         NEW i, i = IF I # {} THEN Min(I) ELSE 0
  PROVE  /\ i \in 0 .. n
         /\ i = 0 <=> I = {}
         /\ i # 0 => i \in I /\ \A j \in I : i <= j
<1>1. CASE I = {}
  BY <1>1
<1>2. CASE I # {}
  <2>1. I \subseteq Nat
    OBVIOUS
  <2>2. i \in I /\ \A y \in I : i <= y
    BY <1>2, <2>1, LeastElement
  <2> QED
    BY <1>2, <2>2
<1> QED
  BY <1>1, <1>2

(* A sequence without repetitions loses exactly the element removed.       *)
LEMMA RemoveFirstFacts ==
  ASSUME NEW S, NEW s \in Seq(S), NEW e,
         \A i, j \in 1 .. Len(s) : s[i] = s[j] => i = j
  PROVE  /\ (\A i \in 1 .. Len(s) : s[i] # e) => RemoveFirst(s, e) = s
         /\ \A i \in 1 .. Len(s) : s[i] = e => RemoveFirst(s, e) = RemoveAt(s, i)
<1> DEFINE I == {j \in 1 .. Len(s) : s[j] = e}
           f == IF I # {} THEN Min(I) ELSE 0
<1>1. RemoveFirst(s, e) = IF \E i \in 1 .. Len(s) : s[i] = e THEN RemoveAt(s, f) ELSE s
  BY DEF RemoveFirst, SelectInSeq
<1>2. Len(s) \in Nat /\ I \subseteq 1 .. Len(s)
  OBVIOUS
<1>3. f \in 0 .. Len(s) /\ (f = 0 <=> I = {}) /\ (f # 0 => f \in I)
  <2> HIDE DEF I
  <2> QED
    BY <1>2, FirstOf
<1> HIDE DEF f
<1> QED
  BY <1>1, <1>3

(* A suffix, position by position.                                         *)
LEMMA SuffixFacts ==
  ASSUME NEW S, NEW s \in Seq(S), NEW t \in Seq(S), Len(s) <= Len(t),
         \A i \in 1 .. Len(s) : s[i] = t[Len(t) - Len(s) + i]
  PROVE  IsSuffix(s, t)
<1>1. Len(s) \in Nat /\ Len(t) \in Nat
  OBVIOUS
<1>2. /\ Reverse(s) \in Seq(S) /\ Len(Reverse(s)) = Len(s)
      /\ \A i \in 1 .. Len(s) : Reverse(s)[i] = s[Len(s) - i + 1]
  BY <1>1 DEF Reverse
<1>3. /\ Reverse(t) \in Seq(S) /\ Len(Reverse(t)) = Len(t)
      /\ \A i \in 1 .. Len(t) : Reverse(t)[i] = t[Len(t) - i + 1]
  BY <1>1 DEF Reverse
<1>4. \A i \in 1 .. Len(s) : Reverse(s)[i] = Reverse(t)[i]
  <2> SUFFICES ASSUME NEW i \in 1 .. Len(s)
               PROVE  Reverse(s)[i] = Reverse(t)[i]
    OBVIOUS
  <2> DEFINE k == Len(s) - i + 1
  <2>1. k \in 1 .. Len(s) /\ Len(t) - Len(s) + k = Len(t) - i + 1 /\ i \in 1 .. Len(t)
    BY <1>1
  <2>2. Reverse(s)[i] = s[k] /\ Reverse(t)[i] = t[Len(t) - i + 1]
    BY <1>2, <1>3, <2>1
  <2> HIDE DEF k
  <2> QED
    BY <2>1, <2>2
<1>5. /\ SubSeq(Reverse(s), 1, Len(s)) = [i \in 1 .. Len(s) |-> Reverse(s)[i]]
      /\ SubSeq(Reverse(t), 1, Len(s)) = [i \in 1 .. Len(s) |-> Reverse(t)[i]]
  BY <1>1, <1>2, <1>3
<1> QED
  BY <1>2, <1>3, <1>4, <1>5 DEF IsSuffix, IsPrefix

-----------------------------------------------------------------------------
(* The values of a loop that starts from b and does op[i] at its i-th step. *)
Runs(g, S, b, n, op) ==
  /\ g \in [0 .. n -> S] /\ g[0] = b
  /\ \A i \in 1 .. n : g[i] = op[i][g[i - 1]]

(* Such a loop has a value after each step, so that the recursive          *)
(* functions below are well defined.                                       *)
LEMMA LoopExists ==
  ASSUME NEW S, NEW b \in S, NEW n \in Nat, NEW op \in [1 .. n -> [S -> S]]
  PROVE  \E g : Runs(g, S, b, n, op)
<1> USE DEF Runs
<1> DEFINE N == {m \in Nat : m <= n => \E g : Runs(g, S, b, m, op)}
<1>1. 0 \in N
  <2>1. Runs([i \in 0 .. 0 |-> b], S, b, 0, op)
    OBVIOUS
  <2> QED
    BY <2>1
<1>2. ASSUME NEW m \in Nat, m \in N, m + 1 <= n
      PROVE  \E g : Runs(g, S, b, m + 1, op)
  <2>1. PICK g : Runs(g, S, b, m, op)
    BY <1>2
  <2> DEFINE h == [i \in 0 .. m + 1 |-> IF i <= m THEN g[i] ELSE op[m + 1][g[m]]]
  <2>2. /\ h \in [0 .. m + 1 -> S] /\ h[0] = b
        /\ \A i \in 1 .. m : h[i] = g[i] /\ h[i - 1] = g[i - 1]
        /\ h[m + 1] = op[m + 1][h[m]]
    <3>1. g[m] \in S /\ op[m + 1][g[m]] \in S
      BY <1>2, <2>1
    <3>2. h \in [0 .. m + 1 -> S]
      BY <2>1, <3>1
    <3>3. \A i \in 0 .. m : h[i] = g[i]
      OBVIOUS
    <3>4. h[m + 1] = op[m + 1][g[m]]
      OBVIOUS
    <3> HIDE DEF h
    <3> QED
      BY <2>1, <3>2, <3>3, <3>4
  <2> HIDE DEF h
  <2>3. \A i \in 1 .. m + 1 : h[i] = op[i][h[i - 1]]
    <3>1. \A i \in 1 .. m + 1 : i \in 1 .. m \/ i = m + 1
      OBVIOUS
    <3>2. (m + 1) - 1 = m
      OBVIOUS
    <3> QED
      BY <2>1, <2>2, <3>1, <3>2
  <2>4. Runs(h, S, b, m + 1, op)
    BY <2>2, <2>3
  <2> QED
    BY <2>4
<1>3. \A m \in Nat : m \in N => m + 1 \in N
  BY <1>2
<1> HIDE DEF N
<1>4. n \in N
  BY <1>1, <1>3, NaturalsFollow
<1>5. \E g : Runs(g, S, b, n, op)
  BY <1>4 DEF N
<1> QED
  BY <1>5

-----------------------------------------------------------------------------
(* FlattenSeq is the value after the last step of the loop that joins the  *)
(* sequences one by one.                                                   *)
LEMMA FlattenLoop ==
  ASSUME NEW S, NEW s \in Seq(Seq(S)), NEW g \in [0 .. Len(s) -> Seq(S)],
         g[0] = <<>>, \A i \in 1 .. Len(s) : g[i] = g[i - 1] \o s[i]
  PROVE  FlattenSeq(s) = g[Len(s)]
<1>1. CASE Len(s) = 0
  BY <1>1 DEF FlattenSeq
<1>2. CASE Len(s) # 0
  <2>0. g[1] = s[1]
    <3>1. 1 \in 1 .. Len(s) /\ 1 - 1 = 0
      BY <1>2
    <3>2. g[1] = g[1 - 1] \o s[1]
      BY <3>1
    <3>3. s[1] \in Seq(S)
      BY <3>1, ElementOfSeq
    <3> QED
      BY <3>1, <3>2, <3>3, ConcatEmptySeq
  <2> DEFINE F == CHOOSE f : f = [i \in 1 .. Len(s) |-> IF i = 1 THEN s[i] ELSE f[i - 1] \o s[i]]
             h == [i \in 1 .. Len(s) |-> g[i]]
  <2>1. FlattenSeq(s) = F[Len(s)]
    BY <1>2 DEF FlattenSeq
  <2>2. h = [i \in 1 .. Len(s) |-> IF i = 1 THEN s[i] ELSE h[i - 1] \o s[i]]
    <3>2. ASSUME NEW i \in 1 .. Len(s)
          PROVE  h[i] = IF i = 1 THEN s[i] ELSE h[i - 1] \o s[i]
      <4>1. h[i] = g[i] /\ (i # 1 => h[i - 1] = g[i - 1])
        OBVIOUS
      <4>2. g[i] = g[i - 1] \o s[i]
        OBVIOUS
      <4> HIDE DEF h
      <4> QED
        BY <2>0, <4>1, <4>2
    <3>3. h = [i \in 1 .. Len(s) |-> h[i]]
      OBVIOUS
    <3> HIDE DEF h
    <3> QED
      BY <3>2, <3>3
  <2> HIDE DEF h
  <2>3. F = [i \in 1 .. Len(s) |-> IF i = 1 THEN s[i] ELSE F[i - 1] \o s[i]]
    BY <2>2
  <2> HIDE DEF F
  <2> DEFINE N == {i \in Nat : i + 1 \in 1 .. Len(s) => F[i + 1] = g[i + 1]}
  <2>4. 0 \in N
    <3>1. F[1] = s[1] /\ h[1] = s[1]
      BY <1>2, <2>2, <2>3
    <3> QED
      BY <1>2, <3>1 DEF h
  <2>5. ASSUME NEW i \in Nat, i \in N
        PROVE  i + 1 \in N
    <3> SUFFICES ASSUME i + 2 \in 1 .. Len(s)
                 PROVE  F[i + 2] = g[i + 2]
      OBVIOUS
    <3>0. (i + 2) - 1 = i + 1 /\ i + 2 # 1
      OBVIOUS
    <3>1. F[i + 2] = F[i + 1] \o s[i + 2] /\ g[i + 2] = g[i + 1] \o s[i + 2]
      BY <2>3, <3>0
    <3>2. F[i + 1] = g[i + 1]
      BY <2>5
    <3> QED
      BY <3>1, <3>2
  <2> HIDE DEF N
  <2>6. Len(s) - 1 \in N
    <3>1. Nat \subseteq N
      BY <2>4, <2>5, NaturalsFollow
    <3> QED
      BY <1>2, <3>1
  <2>7. F[Len(s)] = g[Len(s)]
    BY <1>2, <2>6 DEF N
  <2> QED
    BY <2>1, <2>7
<1> QED
  BY <1>1, <1>2

(* The loop exists.                                                        *)
LEMMA FlattenRuns ==
  ASSUME NEW S, NEW s \in Seq(Seq(S))
  PROVE  \E g \in [0 .. Len(s) -> Seq(S)] :
           g[0] = <<>> /\ \A i \in 1 .. Len(s) : g[i] = g[i - 1] \o s[i]
<1> DEFINE n == Len(s)
           T == Seq(S)
           op == [i \in 1 .. n |-> [v \in T |-> v \o s[i]]]
<1>1. op \in [1 .. n -> [T -> T]]
  <2>1. ASSUME NEW i \in 1 .. n, NEW v \in T
        PROVE  v \o s[i] \in T
    BY ConcatProperties
  <2> QED
    BY <2>1
<1>2. n \in Nat /\ <<>> \in T
  OBVIOUS
<1>3. \A i \in 1 .. n, v \in T : op[i][v] = v \o s[i]
  OBVIOUS
<1> HIDE DEF op, T, n
<1>4. PICK g : Runs(g, T, <<>>, n, op)
  BY <1>1, <1>2, LoopExists
<1>5. \A i \in 1 .. n : g[i] = g[i - 1] \o s[i]
  <2>1. \A i \in 1 .. n : i - 1 \in 0 .. n
    BY <1>2
  <2>2. \A i \in 1 .. n : g[i - 1] \in T /\ g[i] = op[i][g[i - 1]]
    BY <1>4, <2>1 DEF Runs
  <2> QED
    BY <1>3, <2>2
<1> QED
  BY <1>4, <1>5 DEF Runs, n, T

(* Flattening: nothing is made of nothing, a sequence added at the end is  *)
(* added at the end of the result.                                         *)
LEMMA FlattenAppend ==
  ASSUME NEW S, NEW s \in Seq(Seq(S)), NEW x \in Seq(S)
  PROVE  /\ FlattenSeq(s) \in Seq(S)
         /\ FlattenSeq(Append(s, x)) = FlattenSeq(s) \o x
<1> DEFINE t == Append(s, x)
           n == Len(s)
<1>1. /\ t \in Seq(Seq(S)) /\ Len(t) = n + 1 /\ n \in Nat
      /\ \A i \in 1 .. n : t[i] = s[i]
      /\ t[n + 1] = x
  BY AppendProperties
<1> HIDE DEF t
<1>2. PICK g \in [0 .. n + 1 -> Seq(S)] :
        g[0] = <<>> /\ \A i \in 1 .. n + 1 : g[i] = g[i - 1] \o t[i]
  <2>1. \E g \in [0 .. Len(t) -> Seq(S)] :
          g[0] = <<>> /\ \A i \in 1 .. Len(t) : g[i] = g[i - 1] \o t[i]
    BY ONLY <1>1, FlattenRuns
  <2> QED
    BY <1>1, <2>1
<1>3. FlattenSeq(t) = g[n + 1]
  BY <1>1, <1>2, FlattenLoop
<1> DEFINE h == [i \in 0 .. n |-> g[i]]
<1>4. h \in [0 .. n -> Seq(S)] /\ h[0] = <<>> /\ h[n] = g[n]
  BY <1>1, <1>2
<1>5. ASSUME NEW i \in 1 .. n
      PROVE  h[i] = h[i - 1] \o s[i]
  <2>1. i \in 1 .. n + 1 /\ i \in 0 .. n /\ i - 1 \in 0 .. n
    BY <1>1
  <2>2. g[i] = g[i - 1] \o s[i]
    BY <1>1, <1>2, <2>1
  <2> QED
    BY <2>1, <2>2
<1> HIDE DEF h
<1>6. FlattenSeq(s) = h[n]
  BY <1>4, <1>5, FlattenLoop
<1>7. g[n + 1] = g[n] \o x
  <2>1. n + 1 \in 1 .. n + 1 /\ (n + 1) - 1 = n
    BY <1>1
  <2> QED
    BY <1>1, <1>2, <2>1
<1> QED
  BY <1>1, <1>3, <1>4, <1>6, <1>7 DEF t

(* The same from the other end: the first sequence is the beginning of the *)
(* result.                                                                 *)
LEMMA FlattenHeads ==
  ASSUME NEW S
  PROVE  \A n \in Nat : \A q \in Seq(Seq(S)) :
           Len(q) = n + 1 => FlattenSeq(q) = Head(q) \o FlattenSeq(Tail(q))
<1> DEFINE T == Seq(S)
           N == {n \in Nat : \A q \in Seq(T) :
                   Len(q) = n + 1 => FlattenSeq(q) = Head(q) \o FlattenSeq(Tail(q))}
<1>a. \A a, b, c \in Seq(S) : (a \o b) \o c = a \o (b \o c)
  BY ConcatAssociative
<1>0. <<>> \in Seq(T) /\ FlattenSeq(<<>>) = <<>>
  BY DEF FlattenSeq
<1>1. 0 \in N
  <2> SUFFICES ASSUME NEW q \in Seq(T), Len(q) = 1
               PROVE  FlattenSeq(q) = Head(q) \o FlattenSeq(Tail(q))
    OBVIOUS
  <2> HIDE DEF N, T
  <2>1. PICK r \in Seq(T), x \in T : q = Append(r, x)
    <3>1. q # <<>>
      <4>1. Len(<<>>) = 0
        BY EmptySeq
      <4>2. Len(<<>>) # Len(q)
        BY <4>1
      <4> QED
        BY <4>2, Zenon
    <3> QED
      BY <3>1, SequenceEmptyOrAppend
  <2>2. r = <<>>
    <3>1. Len(q) = Len(r) + 1 /\ Len(r) \in Nat
      BY <2>1, AppendProperties
    <3>2. r # <<>> => Len(r) \in Nat \ {0}
      BY EmptySeq
    <3>3. Len(r) \notin Nat \ {0}
      <4>1. 1 = Len(r) + 1 /\ Len(r) \in Nat
        BY <3>1
      <4> QED
        BY ONLY <4>1
    <3> QED
      BY <3>2, <3>3, Zenon
  <2>3. Head(q) = x /\ Tail(q) = <<>>
    BY <2>1, <2>2, HeadTailAppend
  <2>4. FlattenSeq(q) = <<>> \o x
    BY <1>0, <2>1, <2>2, FlattenAppend DEF T
  <2>5. <<>> \o x = x /\ x \o <<>> = x
    BY ConcatEmptySeq DEF T
  <2> QED
    BY <1>0, <2>3, <2>4, <2>5
<1>2. ASSUME NEW n \in Nat, n \in N
      PROVE  n + 1 \in N
  <2> SUFFICES ASSUME NEW q \in Seq(T), Len(q) = n + 2
               PROVE  FlattenSeq(q) = Head(q) \o FlattenSeq(Tail(q))
    OBVIOUS
  <2>1. PICK r \in Seq(T), x \in T : q = Append(r, x)
    <3>1. q # <<>>
      OBVIOUS
    <3> QED
      BY <3>1, SequenceEmptyOrAppend
  <2>2. Len(r) = n + 1 /\ r # <<>>
    <3>1. Len(q) = Len(r) + 1 /\ Len(r) \in Nat
      BY <2>1, AppendProperties
    <3> QED
      BY <3>1
  <2>3. Head(q) = Head(r) /\ Tail(q) = Append(Tail(r), x)
    BY <2>1, <2>2, HeadTailAppend
  <2>4. Head(r) \in Seq(S) /\ Tail(r) \in Seq(T)
    BY <2>2, HeadTailProperties
  <2>5. FlattenSeq(r) = Head(r) \o FlattenSeq(Tail(r))
    BY <1>2, <2>2
  <2>6. /\ FlattenSeq(q) = FlattenSeq(r) \o x
        /\ FlattenSeq(Tail(q)) = FlattenSeq(Tail(r)) \o x
        /\ FlattenSeq(Tail(r)) \in Seq(S)
    BY <2>1, <2>3, <2>4, FlattenAppend
  <2> HIDE DEF N
  <2> DEFINE first == Head(r)
             rest == FlattenSeq(Tail(r))
  <2>7. first \in Seq(S) /\ rest \in Seq(S) /\ x \in Seq(S)
    BY <2>4, <2>6
  <2>8. FlattenSeq(q) = (first \o rest) \o x /\ Head(q) = first /\ FlattenSeq(Tail(q)) = rest \o x
    BY <2>3, <2>5, <2>6
  <2> HIDE DEF first, rest, T
  <2>9. (first \o rest) \o x = first \o (rest \o x)
    BY ONLY <1>a, <2>7
  <2> QED
    BY <2>8, <2>9
<1> HIDE DEF N
<1>3. Nat \subseteq N
  BY <1>1, <1>2, NaturalsFollow
<1> QED
  BY <1>3 DEF N

LEMMA FlattenHead ==
  ASSUME NEW S, NEW s \in Seq(Seq(S)), s # <<>>
  PROVE  FlattenSeq(s) = Head(s) \o FlattenSeq(Tail(s))
<1>1. Len(s) - 1 \in Nat /\ Len(s) = (Len(s) - 1) + 1
  OBVIOUS
<1> QED
  BY <1>1, FlattenHeads

(* Nothing, one sequence, or two, flattened.                               *)
LEMMA FlattenNone == FlattenSeq(<<>>) = <<>>
BY DEF FlattenSeq

LEMMA FlattenFew ==
  ASSUME NEW S, NEW x \in Seq(S), NEW y \in Seq(S)
  PROVE  FlattenSeq(<<x>>) = x /\ FlattenSeq(<<x, y>>) = x \o y
<1> DEFINE T == Seq(S)
<1>1. <<>> \in Seq(T) /\ <<x>> = Append(<<>>, x) /\ <<x>> \in Seq(T) /\ <<x, y>> = Append(<<x>>, y)
  OBVIOUS
<1>3. FlattenSeq(<<x>>) = <<>> \o x
  BY <1>1, FlattenNone, FlattenAppend
<1>4. <<>> \o x = x
  BY ConcatEmptySeq
<1>5. FlattenSeq(<<x, y>>) = FlattenSeq(<<x>>) \o y
  BY <1>1, FlattenAppend
<1> QED
  BY <1>3, <1>4, <1>5

(* A prefix is the one before it with one more element.                    *)
LEMMA PrefixGrows ==
  ASSUME NEW S, NEW s \in Seq(S), NEW i \in 1 .. Len(s)
  PROVE  SubSeq(s, 1, i) = Append(SubSeq(s, 1, i - 1), s[i])
<1> DEFINE a == SubSeq(s, 1, i - 1)
           b == SubSeq(s, 1, i)
           c == Append(a, s[i])
<1>1. s[i] \in S /\ i - 1 \in 0 .. Len(s) /\ i \in Nat
  OBVIOUS
<1>2. a \in Seq(S) /\ Len(a) = i - 1 /\ \A j \in 1 .. i - 1 : a[j] = s[j]
  BY <1>1
<1>3. b \in Seq(S) /\ Len(b) = i /\ \A j \in 1 .. i : b[j] = s[j]
  BY <1>1
<1> HIDE DEF a, b
<1>4. /\ c \in Seq(S) /\ Len(c) = i
      /\ \A j \in 1 .. i - 1 : c[j] = s[j]
      /\ c[i] = s[i]
  BY <1>1, <1>2, AppendProperties
<1> HIDE DEF c
<1>5. \A j \in 1 .. i : j \in 1 .. i - 1 \/ j = i
  BY <1>1
<1>6. Len(b) = Len(c) /\ \A j \in 1 .. Len(b) : b[j] = c[j]
  BY <1>3, <1>4, <1>5
<1>7. b = c
  BY <1>3, <1>4, <1>6, SeqEqual
<1> QED
  BY <1>7 DEF a, b, c

(* A sequence sent element by element is put together again.               *)
LEMMA FlattenSingles ==
  ASSUME NEW S, NEW s \in Seq(S)
  PROVE  FlattenSeq([i \in 1 .. Len(s) |-> <<s[i]>>]) = s
<1> DEFINE t == [i \in 1 .. Len(s) |-> <<s[i]>>]
           g == [i \in 0 .. Len(s) |-> SubSeq(s, 1, i)]
<1>1. t \in Seq(Seq(S)) /\ Len(t) = Len(s) /\ Len(s) \in Nat
  OBVIOUS
<1>2. g \in [0 .. Len(s) -> Seq(S)] /\ g[0] = <<>> /\ g[Len(s)] = s
  OBVIOUS
<1>3. ASSUME NEW i \in 1 .. Len(s)
      PROVE  g[i] = g[i - 1] \o t[i]
  <2>1. g[i] = SubSeq(s, 1, i) /\ g[i - 1] = SubSeq(s, 1, i - 1) /\ t[i] = <<s[i]>>
    BY <1>1
  <2> DEFINE a == SubSeq(s, 1, i - 1)
  <2>2. s[i] \in S /\ a \in Seq(S)
    BY <1>1
  <2>3. SubSeq(s, 1, i) = Append(a, s[i])
    BY PrefixGrows
  <2> HIDE DEF a, g, t
  <2>4. Append(a, s[i]) = a \o <<s[i]>>
    BY <2>2, AppendIsConcat
  <2> QED
    BY <2>1, <2>3, <2>4 DEF a
<1> HIDE DEF g, t
<1>4. FlattenSeq(t) = g[Len(t)]
  BY <1>1, <1>2, <1>3, FlattenLoop
<1>5. g[Len(t)] = g[Len(s)]
  BY ONLY <1>1
<1>6. FlattenSeq(t) = s
  BY ONLY <1>2, <1>4, <1>5
<1> QED
  BY <1>6 DEF t

-----------------------------------------------------------------------------
(* What holds of a set if it holds of the set without any one of its       *)
(* elements, holds of every subset of a finite set.                        *)
LEMMA SubsetsShrink ==
  ASSUME NEW P, IsFiniteSet(P), NEW X,
         \A s \in SUBSET P : (\A y \in s : s \ {y} \in X) => s \in X
  PROVE  SUBSET P \subseteq X
<1> DEFINE N == {n \in Nat : \A s \in SUBSET P : Cardinality(s) = n => s \in X}
<1>1. \A s \in SUBSET P : IsFiniteSet(s) /\ Cardinality(s) \in Nat
  BY FS_Subset, FS_CardinalityType
<1>2. 0 \in N
  <2>1. \A s \in SUBSET P : Cardinality(s) = 0 => s = {}
    BY <1>1, FS_EmptySet
  <2>2. {} \in X
    OBVIOUS
  <2> QED
    BY <2>1, <2>2
<1>3. ASSUME NEW n \in Nat, n \in N
      PROVE  n + 1 \in N
  <2> SUFFICES ASSUME NEW s \in SUBSET P, Cardinality(s) = n + 1
               PROVE  s \in X
    OBVIOUS
  <2>1. ASSUME NEW y \in s
        PROVE  s \ {y} \in X
    <3>1. Cardinality(s \ {y}) = Cardinality(s) - 1
      BY <1>1, FS_RemoveElement
    <3>2. (n + 1) - 1 = n
      OBVIOUS
    <3>3. Cardinality(s \ {y}) = n
      BY ONLY <3>1, <3>2, Cardinality(s) = n + 1
    <3> QED
      BY <1>3, <3>3
  <2> QED
    BY <2>1
<1> HIDE DEF N
<1>4. Nat \subseteq N
  BY <1>2, <1>3, NaturalsFollow
<1> QED
  BY <1>1, <1>4 DEF N

(* What holds of the empty set, and of a set with one element more, holds  *)
(* of every subset of a finite set.                                        *)
LEMMA SubsetsFollow ==
  ASSUME NEW P, IsFiniteSet(P), NEW X, {} \in X,
         \A s \in SUBSET P : \A y \in P \ s : s \in X => s \cup {y} \in X
  PROVE  SUBSET P \subseteq X
<1>1. ASSUME NEW s \in SUBSET P, \A y \in s : s \ {y} \in X
      PROVE  s \in X
  <2>1. CASE s = {}
    BY <2>1
  <2>2. CASE s # {}
    <3>1. PICK y \in s : TRUE
      BY <2>2
    <3>2. (s \ {y}) \cup {y} = s /\ y \in P \ (s \ {y}) /\ s \ {y} \in SUBSET P /\ s \ {y} \in X
      BY <1>1
    <3>3. (s \ {y}) \cup {y} \in X
      BY <3>2
    <3> QED
      BY <3>2, <3>3
  <2> QED
    BY <2>1, <2>2
<1> QED
  BY <1>1, SubsetsShrink

(* g sums f over the subsets of P.                                         *)
IsSum(g, f, P) ==
  /\ g \in [SUBSET P -> Int] /\ g[{}] = 0
  /\ \A s \in SUBSET P : \A y \in P \ s : g[s \cup {y}] = g[s] + f[y]

LEMMA SumExists ==
  ASSUME NEW P, IsFiniteSet(P), NEW f \in [P -> Int]
  PROVE  \E g : IsSum(g, f, P)
<1> DEFINE X == {R \in SUBSET P : \E g : IsSum(g, f, R)}
<1>1. {} \in X
  <2>1. IsSum([s \in SUBSET {} |-> 0], f, {})
    BY DEF IsSum
  <2> QED
    BY <2>1
<1>2. ASSUME NEW R \in SUBSET P, NEW z \in P \ R, R \in X
      PROVE  R \cup {z} \in X
  <2>1. PICK g : IsSum(g, f, R)
    BY <1>2
  <2>2. /\ g \in [SUBSET R -> Int] /\ g[{}] = 0
        /\ \A s \in SUBSET R : \A y \in R \ s : g[s \cup {y}] = g[s] + f[y]
    BY <2>1 DEF IsSum
  <2> DEFINE Q == R \cup {z}
             h == [s \in SUBSET Q |-> IF z \in s THEN g[s \ {z}] + f[z] ELSE g[s]]
  <2>3. \A s \in SUBSET Q : s \ {z} \in SUBSET R /\ (z \notin s => s \in SUBSET R)
    OBVIOUS
  <2>4. /\ \A s \in SUBSET Q : z \in s => h[s] = g[s \ {z}] + f[z]
        /\ \A s \in SUBSET Q : z \notin s => h[s] = g[s]
    OBVIOUS
  <2>5. h \in [SUBSET Q -> Int] /\ h[{}] = 0
    BY <2>2, <2>3
  <2> HIDE DEF h
  <2>6. ASSUME NEW s \in SUBSET Q, NEW y \in Q \ s
        PROVE  h[s \cup {y}] = h[s] + f[y]
    <3>1. s \cup {y} \in SUBSET Q
      OBVIOUS
    <3>2. CASE y = z
      <4>1. (s \cup {y}) \ {z} = s /\ z \notin s
        BY <3>2
      <4> QED
        BY <2>4, <3>1, <3>2, <4>1
    <3>3. CASE y # z /\ z \in s
      <4>1. (s \cup {y}) \ {z} = (s \ {z}) \cup {y} /\ s \ {z} \in SUBSET R /\ y \in R \ (s \ {z})
        BY <3>3
      <4>2. g[(s \cup {y}) \ {z}] = g[s \ {z}] + f[y]
        BY <2>2, <4>1
      <4>3. h[s \cup {y}] = (g[s \ {z}] + f[y]) + f[z] /\ h[s] = g[s \ {z}] + f[z]
        BY <2>4, <3>1, <3>3, <4>2
      <4>4. g[s \ {z}] \in Int /\ f[y] \in Int /\ f[z] \in Int
        BY <2>2, <4>1
      <4> QED
        BY <4>3, <4>4
    <3>4. CASE y # z /\ z \notin s
      <4>1. s \in SUBSET R /\ y \in R \ s /\ z \notin s \cup {y}
        BY <3>4
      <4> QED
        BY <2>2, <2>4, <3>1, <3>4, <4>1
    <3> QED
      BY <3>2, <3>3, <3>4
  <2>7. IsSum(h, f, Q)
    BY <2>5, <2>6 DEF IsSum
  <2> QED
    BY <2>7
<1> HIDE DEF X
<1>3. SUBSET P \subseteq X
  BY <1>1, <1>2, SubsetsFollow
<1> QED
  BY <1>3 DEF X

(* Sums of the numbers q, of their squares sq, and of the squares pf of     *)
(* their differences.                                                      *)
SquareSums(A, q, pf, g1, sq, g2, gp) ==
  /\ IsFiniteSet(A) /\ q \in [A -> Int] /\ pf \in [A \X A -> Int] /\ sq \in [A -> Int]
  /\ \A u, v \in A : pf[<<u, v>>] = (q[u] - q[v]) * (q[u] - q[v])
  /\ \A u \in A : sq[u] = q[u] * q[u]
  /\ IsSum(g1, q, A) /\ IsSum(g2, sq, A) /\ IsSum(gp, pf, A \X A)

(* The sum over a set of pairs <<u, y>> of the squares of differences to y. *)
LEMMA DifferencesTo ==
  ASSUME NEW A, NEW q, NEW pf, NEW g1, NEW sq, NEW g2, NEW gp,
         SquareSums(A, q, pf, g1, sq, g2, gp),
         NEW B \in SUBSET A, NEW y \in A \ B,
         NEW Q \in SUBSET (B \X B), NEW R, R = Q \cup {<<u, y>> : u \in B}
  PROVE  gp[R] = gp[Q] + (g2[B] - 2 * q[y] * g1[B] + Cardinality(B) * q[y] * q[y])
<1> DEFINE d == q[y]
           To(s) == Q \cup {<<u, y>> : u \in s}
           V(s) == g2[s] - 2 * d * g1[s] + Cardinality(s) * d * d
           X == {s \in SUBSET B : gp[To(s)] = gp[Q] + V(s)}
<1>a. /\ IsFiniteSet(A) /\ q \in [A -> Int] /\ pf \in [A \X A -> Int] /\ sq \in [A -> Int]
      /\ \A u, v \in A : pf[<<u, v>>] = (q[u] - q[v]) * (q[u] - q[v])
      /\ \A u \in A : sq[u] = q[u] * q[u]
      /\ IsSum(g1, q, A) /\ IsSum(g2, sq, A) /\ IsSum(gp, pf, A \X A)
  BY DEF SquareSums
<1>0. IsFiniteSet(B) /\ \A s \in SUBSET B : IsFiniteSet(s) /\ Cardinality(s) \in Nat
  BY <1>a, FS_Subset, FS_CardinalityType
<1>1. /\ gp \in [SUBSET (A \X A) -> Int] /\ g1 \in [SUBSET A -> Int] /\ g2 \in [SUBSET A -> Int]
      /\ g1[{}] = 0 /\ g2[{}] = 0 /\ d \in Int
      /\ \A s \in SUBSET B : To(s) \in SUBSET (A \X A)
  BY <1>a DEF IsSum
<1>2. {} \in X
  <2>1. To({}) = Q /\ Cardinality({}) = 0 /\ gp[Q] \in Int
    BY <1>1, FS_EmptySet
  <2>2. V({}) = 0
    BY <1>1, <2>1
  <2> HIDE DEF V, To
  <2>3. gp[To({})] = gp[Q] + V({})
    BY ONLY <2>1, <2>2
  <2> QED
    BY <2>3
<1>3. ASSUME NEW s \in SUBSET B, NEW x \in B \ s, s \in X
      PROVE  s \cup {x} \in X
  <2>1. To(s \cup {x}) = To(s) \cup {<<x, y>>}
    OBVIOUS
  <2>2. <<x, y>> \in A \X A /\ <<x, y>> \notin To(s) /\ To(s) \in SUBSET (A \X A)
    BY <1>1
  <2>3. gp[To(s \cup {x})] = gp[To(s)] + pf[<<x, y>>]
    <3> DEFINE e == <<x, y>>
               p == To(s)
    <3>1. e \in (A \X A) \ p /\ p \in SUBSET (A \X A) /\ To(s \cup {x}) = p \cup {e}
      BY <2>1, <2>2
    <3> HIDE DEF e, p, To
    <3>2. gp[p \cup {e}] = gp[p] + pf[e]
      BY ONLY <1>a, <3>1 DEF IsSum
    <3> QED
      BY <3>1, <3>2 DEF e, p
  <2>4. g1[s \cup {x}] = g1[s] + q[x] /\ g2[s \cup {x}] = g2[s] + q[x] * q[x]
    <3>1. s \in SUBSET A /\ x \in A \ s
      OBVIOUS
    <3>2. g1[s \cup {x}] = g1[s] + q[x]
      BY ONLY <1>a, <3>1 DEF IsSum
    <3>3. g2[s \cup {x}] = g2[s] + sq[x]
      BY ONLY <1>a, <3>1 DEF IsSum
    <3>4. sq[x] = q[x] * q[x]
      BY <1>a, <3>1
    <3> QED
      BY ONLY <3>2, <3>3, <3>4
  <2>5. Cardinality(s \cup {x}) = Cardinality(s) + 1
    BY <1>0, FS_AddElement
  <2>6. pf[<<x, y>>] = (q[x] - d) * (q[x] - d)
    BY <1>a
  <2>7. gp[To(s)] = gp[Q] + V(s)
    BY <1>3
  <2>8. V(s \cup {x}) = V(s) + (q[x] - d) * (q[x] - d)
    <3> DEFINE a == g1[s]
               b == g2[s]
               c == Cardinality(s)
               z == q[x]
    <3>1. a \in Int /\ b \in Int /\ c \in Int /\ z \in Int /\ d \in Int
      BY <1>a, <1>0, <1>1
    <3>2. V(s \cup {x}) = (b + z * z) - 2 * d * (a + z) + (c + 1) * d * d
      BY <2>4, <2>5
    <3> HIDE DEF d, a, b, c, z
    <3>3. (b + z * z) - 2 * d * (a + z) + (c + 1) * d * d = (b - 2 * d * a + c * d * d) + (z - d) * (z - d)
      BY <3>1
    <3> QED
      BY <3>2, <3>3 DEF a, b, c, z
  <2>9. gp[Q] \in Int /\ V(s) \in Int /\ (q[x] - d) * (q[x] - d) \in Int
    BY <1>a, <1>0, <1>1
  <2> HIDE DEF V, To, d
  <2>10. gp[To(s \cup {x})] = gp[Q] + V(s \cup {x})
    BY ONLY <2>3, <2>6, <2>7, <2>8, <2>9
  <2> QED
    BY <2>10
<1> HIDE DEF X
<1>4. SUBSET B \subseteq X
  BY <1>0, <1>2, <1>3, SubsetsFollow
<1>5. B \in X
  BY <1>4
<1> QED
  BY <1>5 DEF X

(* The pairs of a set of numbers, each once.                               *)
Pairs(B) == {p \in B \X B : p[1] < p[2]}

(* Lagrange's identity, one element on: the squares of the differences of  *)
(* n numbers add up to n times the sum of their squares less the square of *)
(* their sum.                                                              *)
Lagrange(g1, g2, gp, B) == gp[Pairs(B)] = Cardinality(B) * g2[B] - g1[B] * g1[B]

LEMMA LagrangeStep ==
  ASSUME NEW A, A \subseteq Int, NEW q, NEW pf, NEW g1, NEW sq, NEW g2, NEW gp,
         SquareSums(A, q, pf, g1, sq, g2, gp),
         NEW B \in SUBSET A, NEW y \in A \ B, \A u \in B : u < y,
         Lagrange(g1, g2, gp, B), NEW K, K = B \cup {y}
  PROVE  Lagrange(g1, g2, gp, K)
<1> DEFINE a == g1[B]
           b == g2[B]
           c == Cardinality(B)
           z == q[y]
<1>0. /\ IsFiniteSet(A) /\ q \in [A -> Int] /\ \A u \in A : sq[u] = q[u] * q[u]
      /\ IsSum(g1, q, A) /\ IsSum(g2, sq, A)
  BY DEF SquareSums
<1>1. Pairs(B) \in SUBSET (B \X B) /\ Pairs(B \cup {y}) = Pairs(B) \cup {<<u, y>> : u \in B}
  <2>1. \A u \in B \cup {y} : u \in Int /\ ~(y < u)
    OBVIOUS
  <2>2. \A u \in B : u < y
    OBVIOUS
  <2>3. ASSUME NEW p
        PROVE  p \in Pairs(B \cup {y}) <=> p \in Pairs(B) \cup {<<u, y>> : u \in B}
    <3>1. CASE p \in (B \cup {y}) \X (B \cup {y})
      <4>1. PICK u \in B \cup {y}, v \in B \cup {y} : p = <<u, v>>
        BY ONLY <3>1
      <4>2. p[1] = u /\ p[2] = v
        BY <4>1
      <4>3. p \in {<<w, y>> : w \in B} <=> u \in B /\ v = y
        BY <4>1
      <4>4. p \in Pairs(B) <=> u \in B /\ v \in B /\ u < v
        BY <4>1, <4>2 DEF Pairs
      <4>5. p \in Pairs(B \cup {y}) <=> u < v
        BY <4>1, <4>2 DEF Pairs
      <4> QED
        BY <2>1, <2>2, <4>3, <4>4, <4>5
    <3>2. CASE p \notin (B \cup {y}) \X (B \cup {y})
      BY <3>2 DEF Pairs
    <3> QED
      BY <3>1, <3>2
  <2>4. Pairs(B) \in SUBSET (B \X B)
    BY DEF Pairs
  <2> QED
    BY <2>3, <2>4
<1>2. gp[Pairs(B \cup {y})] = gp[Pairs(B)] + (b - 2 * z * a + c * z * z)
  <2> DEFINE Q == Pairs(B)
             R == Pairs(B \cup {y})
  <2>1. Q \in SUBSET (B \X B) /\ R = Q \cup {<<u, y>> : u \in B}
    BY <1>1
  <2> HIDE DEF Q, R
  <2>2. gp[R] = gp[Q] + (g2[B] - 2 * q[y] * g1[B] + Cardinality(B) * q[y] * q[y])
    BY ONLY SquareSums(A, q, pf, g1, sq, g2, gp), B \in SUBSET A, y \in A \ B, <2>1, DifferencesTo
  <2> QED
    BY <2>2 DEF Q, R
<1>3. a \in Int /\ b \in Int /\ z \in Int /\ c \in Nat
  <2>1. IsFiniteSet(B)
    BY <1>0, FS_Subset
  <2> QED
    BY <1>0, <2>1, FS_CardinalityType DEF IsSum
<1>4. Cardinality(B \cup {y}) = c + 1
  <2>1. IsFiniteSet(B)
    BY <1>0, FS_Subset
  <2> QED
    BY <2>1, FS_AddElement
<1>5. g1[B \cup {y}] = a + z
  BY ONLY <1>0, B \in SUBSET A, y \in A \ B DEF IsSum
<1>6. g2[B \cup {y}] = b + z * z
  <2>1. g2[B \cup {y}] = b + sq[y]
    BY ONLY <1>0, B \in SUBSET A, y \in A \ B DEF IsSum
  <2> QED
    BY <1>0, <2>1
<1>7. gp[Pairs(B)] = c * b - a * a
  BY DEF Lagrange
<1> HIDE DEF a, b, c, z
<1>8. (c * b - a * a) + (b - 2 * z * a + c * z * z) = (c + 1) * (b + z * z) - (a + z) * (a + z)
  BY ONLY <1>3
<1> QED
  BY ONLY K = B \cup {y}, <1>2, <1>4, <1>5, <1>6, <1>7, <1>8 DEF Lagrange
=============================================================================
